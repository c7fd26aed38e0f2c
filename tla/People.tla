------------------------------- MODULE People -------------------------------
(***************************************************************************)
(* What concerns people and their accounts, side by side: the connection   *)
(* of two people, the password of one account (Sessions), sign-up, the     *)
(* GitHub App connection, what is visible of a person's work, and the      *)
(* monthly wraps.                                                          *)
(*                                                                         *)
(* The parts share no state here and every property speaks of one of them, *)
(* so a behaviour moves in one part only and no case is lost.              *)
(***************************************************************************)
EXTENDS Connections, Integers
CONSTANTS
    Links, MaxChanges,                              \* Sessions
    Slots, Usernames, Emails, Identities, EmailOf,      \* SignUp
    Users, Logins, MaxPairs,                        \* GitHubToken
    Subject, OtherPeople, Joiners, Projects, Techs, Levels, Absent, MaxPosts,   \* Visibility
    Things, Zones, Offset, Days, LastDay, MaxOthers, NoWrap                \* Wraps
VARIABLES part,
    password, version, tokens, links, fresh, retirals, changed, serving,
    users, profiles, req,
    conn, owner, pairs, good, lost, crossed, work,
    profile, friends, project, posts, skills,
    now, zone, thing, wraps, others, twice, turn

accountVars == <<password, version, tokens, links, fresh, retirals, changed, serving>>
signUpVars == <<users, profiles, req>>
gitHubVars == <<conn, owner, pairs, good, lost, crossed, work>>
viewVars == <<profile, friends, project, posts, skills>>
wrapVars == <<now, zone, thing, wraps, others, twice, turn>>

Account == INSTANCE Sessions WITH Clients <- Threads, NoLink <- Nobody, crossed <- changed
Sign == INSTANCE SignUp WITH Requests <- Threads, Names <- Usernames, Nothing <- Nobody
Hub == INSTANCE GitHubToken WITH Workers <- Threads, NoLogin <- Nobody
View == INSTANCE Visibility WITH Others <- OtherPeople
Month == INSTANCE Wraps

(* Nobody is no link, no GitHub account, no row and nothing a row of users *)
(* holds; the visitor is none of the people, only others join, and Absent  *)
(* is no project; NoWrap is no wrap, days are counted, a month has some.   *)
ASSUME NobodyAssumption ==
    /\ Nobody \notin Links
    /\ Nobody \notin Usernames \cup Emails \cup Identities \cup Slots \cup Sign!Roles
    /\ Nobody \notin Sign!User
    /\ EmailOf \in [Identities -> Emails \cup {Nobody}]
    /\ Nobody \notin Logins /\ MaxPairs \in Nat
ASSUME ViewersAssumption ==
    /\ Nobody \notin View!People /\ Joiners \subseteq OtherPeople /\ Subject \notin OtherPeople
    /\ Absent \notin View!ProjectRows
ASSUME CalendarAssumption ==
    /\ Days \in Nat \ {0} /\ LastDay \in Nat /\ MaxOthers \in Nat
    /\ Zones # {} /\ Offset \in [Zones -> Int]
    /\ NoWrap \notin Month!Wrap

(* A part that does not move starts in one way only.                       *)
PeopleInit ==
    /\ Init /\ Account!Init /\ Sign!Init /\ Hub!Init /\ View!Init /\ Month!Init
    /\ part \in {"connection", "account", "signup", "github", "view", "wraps"}
    /\ part # "connection" => row = NoRow
    /\ part # "github" => \A t \in Threads : work[t].user = (CHOOSE u \in Users : TRUE)
PeopleNext ==
    /\ \/ part = "connection" /\ Next
          /\ UNCHANGED <<accountVars, signUpVars, gitHubVars, viewVars, wrapVars>>
       \/ part = "account" /\ Account!Next
          /\ UNCHANGED <<vars, signUpVars, gitHubVars, viewVars, wrapVars>>
       \/ part = "signup" /\ Sign!Next
          /\ UNCHANGED <<vars, accountVars, gitHubVars, viewVars, wrapVars>>
       \/ part = "github" /\ Hub!Next
          /\ UNCHANGED <<vars, accountVars, signUpVars, viewVars, wrapVars>>
       \/ part = "view" /\ View!Next
          /\ UNCHANGED <<vars, accountVars, signUpVars, gitHubVars, wrapVars>>
       \/ part = "wraps" /\ Month!Next
          /\ UNCHANGED <<vars, accountVars, signUpVars, gitHubVars, viewVars>>
    /\ UNCHANGED part
peopleVars == <<part, vars, accountVars, signUpVars, gitHubVars, viewVars, wrapVars>>
PeopleSpec == PeopleInit /\ [][PeopleNext]_peopleVars

(* The type invariant of the part that moves.                              *)
PartsTypeOK ==
    CASE part = "connection" -> TypeOK
      [] part = "account" -> Account!TypeOK
      [] part = "signup" -> Sign!TypeOK
      [] part = "github" -> Hub!TypeOK
      [] part = "view" -> View!TypeOK
      [] part = "wraps" -> Month!TypeOK

(* The properties of the parts, stated there.                              *)
PasswordsHold == part = "account" => Account!PasswordsHold
SignUpsHold == part = "signup" => Sign!SignUpsHold
StoredPairWorks == part = "github" => Hub!StoredPairWorks
OneRule == part = "view" => View!OneRule
WrapsHold == part = "wraps" => Month!WrapsHold
=============================================================================
