------------------------------- MODULE SignUp -------------------------------
(***************************************************************************)
(* Accounts and who they belong to: registering, signing in with GitHub,   *)
(* choosing a username afterwards, the identity of the profile (app/routes/*)
(* auth.py, app/routes/github_auth.py, app/services/roles.py).             *)
(*                                                                         *)
(* Every handler looks first and inserts later; the unique indexes of the  *)
(* users table decide between two that looked at once.                     *)
(***************************************************************************)
CONSTANTS
    Requests,    \* threads that serve requests
    Slots,       \* rows of users
    Names,       \* usernames
    Emails,      \* email addresses
    Identities,  \* GitHub accounts
    EmailOf,     \* EmailOf[g]: the primary email GitHub has verified
    Nothing      \* no name, no email, no GitHub account, no row

VARIABLES
    users,       \* the rows of users
    profiles,    \* profiles[u]: the role of u's profile
    req          \* the request each thread serves

vars == <<users, profiles, req>>

Types == {"developer", "recruiter"}
Roles == {"Developer", "Recruiter"}        \* two of roles.py's ROLES
User == [name : Names, email : Emails, github : Identities \cup {Nothing}, type : Types]
Req == [op : {"idle", "insert", "identity", "link", "rename"}, name : Names \cup {Nothing},
        email : Emails \cup {Nothing}, github : Identities \cup {Nothing},
        role : Roles \cup {Nothing}, user : Slots \cup {Nothing}]
Idle == [op |-> "idle", name |-> Nothing, email |-> Nothing, github |-> Nothing,
         role |-> Nothing, user |-> Nothing]

(* Accounts, profiles and requests hold only values of their kinds.        *)
TypeOK ==
    /\ users \in [Slots -> User \cup {Nothing}]
    /\ profiles \in [Slots -> Roles \cup {"blank", "none"}]
    /\ req \in [Requests -> Req]

Init ==
    /\ users = [u \in Slots |-> Nothing]
    /\ profiles = [u \in Slots |-> "none"]
    /\ req = [r \in Requests |-> Idle]

Accounts == {u \in Slots : users[u] # Nothing}
Is(r, op) == req[r].op = op
Serve(r, request) == req' = [req EXCEPT ![r] = request]

NameTaken(n, except) == \E u \in Accounts \ {except} : users[u].name = n
EmailTaken(e) == \E u \in Accounts : users[u].email = e
ByGitHub(g) == {u \in Accounts : users[u].github = g}
ByEmail(e) == {u \in Accounts : users[u].email = e}

(* account_type_for *)
TypeFor(role) == IF role = "Recruiter" THEN "recruiter" ELSE "developer"

-----------------------------------------------------------------------------
(* register: what is taken is looked up ...                                *)
Register(r, n, e, role) ==
    /\ Is(r, "idle") /\ ~EmailTaken(e) /\ ~NameTaken(n, Nothing)
    /\ Serve(r, [Idle EXCEPT !.op = "insert", !.name = n, !.email = e, !.role = role])
    /\ UNCHANGED <<users, profiles>>

(* ... and so does github_complete, with a signed onboarding token, unless *)
(* another tab has made the account: that one's profile is filled and its  *)
(* role applied.                                                           *)
Complete(r, g, n, role) ==
    /\ Is(r, "idle") /\ EmailOf[g] # Nothing
    /\ IF ByGitHub(g) # {}
       THEN \E u \in ByGitHub(g) :
                Serve(r, [Idle EXCEPT !.op = "identity", !.role = role, !.user = u, !.github = g])
       ELSE /\ ~NameTaken(n, Nothing) /\ ~EmailTaken(EmailOf[g])
            /\ Serve(r, [Idle EXCEPT !.op = "insert", !.name = n, !.email = EmailOf[g],
                                     !.github = g, !.role = role])
    /\ UNCHANGED <<users, profiles>>

(* save_new_user: the unique indexes speak last (409).                     *)
NoIndexes(r) == TRUE
Unique(r) ==
    /\ ~NameTaken(req[r].name, Nothing) /\ ~EmailTaken(req[r].email)
    /\ req[r].github # Nothing => ByGitHub(req[r].github) = {}

Insert(r, u) ==
    /\ Is(r, "insert") /\ u \notin Accounts
    /\ IF Unique(r)
       THEN /\ users' = [users EXCEPT ![u] =
                   [name |-> req[r].name, email |-> req[r].email,
                    github |-> req[r].github, type |-> TypeFor(req[r].role)]]
            /\ Serve(r, [req[r] EXCEPT !.op = "identity", !.user = u])
       ELSE users' = users /\ Serve(r, Idle)
    /\ UNCHANGED profiles

(* The profile is saved in a transaction of its own.  assign_identity      *)
(* refuses a role of the other side of the line; a recruiter's role is     *)
(* always set.  Without a role the profile is left as it is, or, from      *)
(* GitHub, filled with a name and an avatar (a company without a role is   *)
(* left out).                                                              *)
NeverContradicts(u, role) == FALSE
Contradicts(u, role) == role # Nothing /\ TypeFor(role) # users[u].type
Role(r, u) ==
    IF Contradicts(u, req[r].role) \/ req[r].role = Nothing
    THEN IF profiles[u] = "none" /\ req[r].github # Nothing THEN "blank" ELSE profiles[u]
    ELSE req[r].role

SaveIdentity(r) ==
    /\ Is(r, "identity")
    /\ profiles' = [profiles EXCEPT ![req[r].user] = Role(r, req[r].user)]
    /\ Serve(r, Idle)
    /\ UNCHANGED users

(* github_callback: _find_user by GitHub account, else by verified email;  *)
(* an account found by email is linked when _fill_profile commits.         *)
Callback(r, g) ==
    /\ Is(r, "idle") /\ EmailOf[g] # Nothing /\ ByGitHub(g) = {}
    /\ \E u \in ByEmail(EmailOf[g]) :
           /\ users[u].github = Nothing
           /\ Serve(r, [Idle EXCEPT !.op = "link", !.github = g, !.user = u])
    /\ UNCHANGED <<users, profiles>>

Link(r) ==
    LET u == req[r].user IN
    /\ Is(r, "link")
    /\ IF ByGitHub(req[r].github) \subseteq {u}
       THEN /\ users' = [users EXCEPT ![u].github = req[r].github]
            /\ profiles' = [profiles EXCEPT ![u] = IF @ = "none" THEN "blank" ELSE @]
       ELSE UNCHANGED <<users, profiles>>
    /\ Serve(r, Idle)

(* change_username looks, and the index decides.                           *)
AskName(r, u, n) ==
    /\ Is(r, "idle") /\ u \in Accounts /\ ~NameTaken(n, u)
    /\ Serve(r, [Idle EXCEPT !.op = "rename", !.user = u, !.name = n])
    /\ UNCHANGED <<users, profiles>>

Rename(r) ==
    /\ Is(r, "rename")
    /\ users' = IF NameTaken(req[r].name, req[r].user) THEN users
                ELSE [users EXCEPT ![req[r].user].name = req[r].name]
    /\ Serve(r, Idle)
    /\ UNCHANGED profiles

(* The server stops between the account and its identity.                  *)
Stop(r) ==
    /\ ~Is(r, "idle")
    /\ Serve(r, Idle)
    /\ UNCHANGED <<users, profiles>>

Next == \E r \in Requests :
    \/ \E n \in Names, role \in Roles \cup {Nothing} :
           \/ \E e \in Emails : Register(r, n, e, role)
           \/ \E g \in Identities : Complete(r, g, n, role)
    \/ \E u \in Slots : Insert(r, u) \/ \E n \in Names : AskName(r, u, n)
    \/ \E g \in Identities : Callback(r, g)
    \/ SaveIdentity(r) \/ Link(r) \/ Rename(r) \/ Stop(r)

Spec == Init /\ [][Next]_vars

-----------------------------------------------------------------------------
(* Properties.                                                             *)

(* "turning a uniqueness race into the same 409" (auth.py:45): whatever    *)
(* sign-ups, links and renames look at the same moment, no two accounts    *)
(* share a name, an email or a GitHub account.                             *)
OneAccountEach ==
    \A u, v \in Accounts : u # v =>
        /\ users[u].name # users[v].name /\ users[u].email # users[v].email
        /\ users[u].github = Nothing \/ users[u].github # users[v].github

(* "it can never move an account across the developer/recruiter line"      *)
(* (roles.py:4): two tabs that complete one sign-up with different roles,  *)
(* or a sign-up cut short and resumed, leave no profile whose role         *)
(* contradicts its account.                                                *)
RoleMatchesType ==
    \A u \in Accounts : profiles[u] \in Roles => TypeFor(profiles[u]) = users[u].type

(* However sign-ups meet, both hold.                                       *)
SignUpsHold == OneAccountEach /\ RoleMatchesType
=============================================================================
