------------------------------ MODULE Sessions ------------------------------
(***************************************************************************)
(* Passwords, login tokens and reset links of one account (app/routes/     *)
(* auth.py, app/core/dependencies.py, app/core/security.py).  A token      *)
(* carries the account's token_version; a request that changes the         *)
(* password reads the version when it begins and writes one more when it   *)
(* commits.                                                                *)
(***************************************************************************)
EXTENDS Naturals

CONSTANTS
    Clients,      \* threads that serve requests
    Links,        \* password_reset_tokens: as many as are ever asked for
    NoLink,       \* the link of a request that uses none
    MaxChanges    \* bound on the password changes

VARIABLES
    password,     \* how often the password has been changed
    version,      \* the account's token_version
    tokens,       \* the login tokens issued
    links,        \* the reset links
    fresh,        \* a link was asked for within RESET_COOLDOWN
    retirals,     \* how often a reset has retired the outstanding links
    crossed,      \* two changes of the password have overlapped
    serving       \* the request each thread serves

vars == <<password, version, tokens, links, fresh, retirals, crossed, serving>>

(* A token's password is what the account's was when the token was issued. *)
Token == [ver : Nat, password : Nat]

(* A link's era: how often links had been retired when it was made.        *)
Link == [status : {"none", "open", "used", "retired", "expired"}, era : Nat]

(* A request, and what it has read.                                        *)
Serving == [op : {"idle", "login", "change", "answer", "forgot", "reset", "resetting"},
            ver : Nat, password : Nat, link : Links \cup {NoLink}]
Free == [op |-> "idle", ver |-> 0, password |-> 0, link |-> NoLink]

(* Tokens, links and requests hold only values of their kinds.             *)
TypeOK ==
    /\ {password, version, retirals} \subseteq Nat
    /\ tokens \subseteq Token /\ links \in [Links -> Link]
    /\ fresh \in BOOLEAN /\ crossed \in BOOLEAN
    /\ serving \in [Clients -> Serving]

Init ==
    /\ password = 0 /\ version = 0 /\ tokens = {}
    /\ links = [l \in Links |-> [status |-> "none", era |-> 0]]
    /\ fresh = FALSE /\ retirals = 0 /\ crossed = FALSE
    /\ serving = [c \in Clients |-> Free]

Is(c, op) == serving[c].op = op
Serve(c, request) == serving' = [serving EXCEPT ![c] = request]
Changing == {c \in Clients : serving[c].op \in {"change", "reset", "resetting"}}

(* user_from_token *)
Accepted(token) == token.ver = version

-----------------------------------------------------------------------------
(* login: the row is read, the password checked, the token made from what  *)
(* was read.                                                               *)
Login(c) ==
    /\ Is(c, "idle")
    /\ Serve(c, [Free EXCEPT !.op = "login", !.ver = version, !.password = password])
    /\ UNCHANGED <<password, version, tokens, links, fresh, retirals, crossed>>

IssueToken(c) ==
    /\ Is(c, "login")
    /\ tokens' = tokens \cup {[ver |-> serving[c].ver, password |-> serving[c].password]}
    /\ Serve(c, Free)
    /\ UNCHANGED <<password, version, links, fresh, retirals, crossed>>

(* change_password: the token and the current password are checked ...     *)
ReadForChange(c) ==
    /\ Is(c, "idle") /\ password < MaxChanges
    /\ \E token \in tokens : Accepted(token)
    /\ Serve(c, [Free EXCEPT !.op = "change", !.ver = version])
    /\ crossed' = (crossed \/ Changing # {})
    /\ UNCHANGED <<password, version, tokens, links, fresh, retirals>>

(* ... the new one and the next version are committed ...                  *)
SameVersion(c) == version
NextVersion(c) == serving[c].ver + 1
Change(c) ==
    /\ Is(c, "change")
    /\ password' = password + 1 /\ version' = NextVersion(c)
    /\ Serve(c, [Free EXCEPT !.op = "answer"])
    /\ UNCHANGED <<tokens, links, fresh, retirals, crossed>>

(* ... and the answer's token is made from the row, read again.            *)
Answer(c) ==
    /\ Is(c, "answer")
    /\ tokens' = tokens \cup {[ver |-> version, password |-> password]}
    /\ Serve(c, Free)
    /\ UNCHANGED <<password, version, links, fresh, retirals, crossed>>

-----------------------------------------------------------------------------
(* forgot_password looks for a link of the last minute, then makes one.    *)
AskLink(c) ==
    /\ Is(c, "idle") /\ ~fresh
    /\ Serve(c, [Free EXCEPT !.op = "forgot"])
    /\ UNCHANGED <<password, version, tokens, links, fresh, retirals, crossed>>

MakeLink(c) ==
    /\ Is(c, "forgot")
    /\ \E l \in {x \in Links : links[x].status = "none"} :
           links' = [links EXCEPT ![l] = [status |-> "open", era |-> retirals]]
    /\ fresh' = TRUE
    /\ Serve(c, Free)
    /\ UNCHANGED <<password, version, tokens, retirals, crossed>>

CoolDown ==
    /\ fresh /\ fresh' = FALSE
    /\ UNCHANGED <<password, version, tokens, links, retirals, crossed, serving>>

Expire(l) ==
    /\ links[l].status = "open"
    /\ links' = [links EXCEPT ![l].status = "expired"]
    /\ UNCHANGED <<password, version, tokens, fresh, retirals, crossed, serving>>

(* reset_password locks the row of an open link (a second request for the  *)
(* same link waits, and then finds it used) ...                            *)
Unguarded(l) == links[l].status = "open"
Usable(l) == links[l].status = "open" /\ \A c \in Clients : serving[c].link # l
LockLink(c, l) ==
    /\ Is(c, "idle") /\ password < MaxChanges /\ Usable(l)
    /\ Serve(c, [Free EXCEPT !.op = "reset", !.ver = version, !.link = l])
    /\ crossed' = (crossed \/ Changing # {})
    /\ UNCHANGED <<password, version, tokens, links, fresh, retirals>>

(* ... retires every link that is not used, its own among them: for that   *)
(* it waits for the rows others hold ...                                   *)
OthersHold(c) == \E d \in Clients \ {c} : serving[d].link # NoLink
RetiredDeleted(c) == [l \in {m \in Links : links[m].status \in {"none", "used"}} |-> links[l]]
NotRetired(c) == [links EXCEPT ![serving[c].link].status = "used"]
Retired(c) == [l \in Links |->
    IF l = serving[c].link THEN [links[l] EXCEPT !.status = "used"]
    ELSE IF links[l].status \in {"open", "expired"} THEN [links[l] EXCEPT !.status = "retired"]
    ELSE links[l]]
RetireLinks(c) ==
    /\ Is(c, "reset") /\ ~OthersHold(c)
    /\ links' = Retired(c) /\ retirals' = retirals + 1
    /\ Serve(c, [serving[c] EXCEPT !.op = "resetting"])
    /\ UNCHANGED <<password, version, tokens, fresh, crossed>>

(* ... and commits.                                                        *)
Reset(c) ==
    /\ Is(c, "resetting")
    /\ password' = password + 1 /\ version' = NextVersion(c)
    /\ Serve(c, Free)
    /\ UNCHANGED <<tokens, links, fresh, retirals, crossed>>

(* Two resets that wait for each other's link: the database ends one.      *)
Deadlock(c) ==
    /\ Is(c, "reset") /\ OthersHold(c)
    /\ Serve(c, Free)
    /\ UNCHANGED <<password, version, tokens, links, fresh, retirals, crossed>>

Next == \/ \E c \in Clients :
               \/ Login(c) \/ IssueToken(c) \/ ReadForChange(c) \/ Change(c) \/ Answer(c)
               \/ AskLink(c) \/ MakeLink(c) \/ RetireLinks(c) \/ Reset(c) \/ Deadlock(c)
               \/ \E l \in Links : LockLink(c, l)
        \/ CoolDown \/ \E l \in Links : Expire(l)

Spec == Init /\ [][Next]_vars

-----------------------------------------------------------------------------
(* Properties.                                                             *)

(* "Tokens issued before the last password change are rejected"            *)
(* (dependencies.py:27).                                                   *)
OldTokensRejected == \A token \in tokens : Accepted(token) => token.password = password

(* ... which holds as long as no two changes of the password overlap: a    *)
(* login, a reset and the answer of a change may fall into each other in   *)
(* any order.                                                              *)
OldTokensRejectedApart == ~crossed => OldTokensRejected

(* "Using one link retires every other outstanding link for this account"  *)
(* (auth.py:170): of two links that were outstanding together only one     *)
(* ever changes the password, however their requests overlap.              *)
OneLinkOfMany ==
    \A l, m \in Links :
        (l # m /\ links[l].status = "used" /\ links[m].status = "used") => links[l].era # links[m].era

(* However changes of the password meet, both hold.                        *)
PasswordsHold == OldTokensRejectedApart /\ OneLinkOfMany
=============================================================================
