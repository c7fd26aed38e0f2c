--------------------------- MODULE GitHubHistory ---------------------------
(***************************************************************************)
(* The commit and push history stored of one project that was imported     *)
(* from GitHub, and whom it is credited to.  An import, a refresh or a full *)
(* synchronisation fetches the history and stores it in one transaction;    *)
(* several may overlap.  READ COMMITTED: a DELETE sees the rows that are    *)
(* committed when it starts, waits for those another transaction has        *)
(* deleted, and skips the ones that are gone then; what a transaction       *)
(* inserts, others see after its commit.                                   *)
(*                                                                         *)
(* GitHub's branch is a line of commits 1..made.  The rows one store adds   *)
(* go together, so a table is the set of the fetches whose rows it has.     *)
(* Push events are only added to, under a unique index; they and the counts *)
(* on the project's card take no part in what follows.                     *)
(***************************************************************************)
EXTENDS Integers, FiniteSetsExt
CONSTANTS
    Threads, Users, Owner, Nobody,
    Accounts, NoAccount,   \* GitHub accounts
    Mails, NoMail,         \* email addresses (the noreply ones are NoMail)
    AuthorOf, MailOf,      \* the account and the email of each commit
    MaxMade, MaxFetches
VARIABLES
    made,          \* how many commits GitHub has
    user,          \* user[u]: the GitHub account linked, and the email
    importer,      \* the account the project is imported with (github_owner_id)
    contributors, commits,  \* the fetches whose rows are stored
    fetches,       \* how many fetches there were since the import
    work           \* the request of each thread

vars == <<made, user, importer, contributors, commits, fetches, work>>

SomeAccount == Accounts \cup {NoAccount}
SomeMail == Mails \cup {NoMail}
Fetches == [n : 0..MaxFetches, stats : 0..MaxMade, listed : 0..MaxMade]
Nothing == [n |-> 0, stats |-> 0, listed |-> 0]
Idle == [at |-> "idle", got |-> Nothing, doomed |-> {}, held |-> {}, gone |-> {}]

(* Rows hold only values of their kinds; an account or an email belongs to *)
(* one user.                                                               *)
Apart == \A u, w \in Users : u # w =>
             /\ user[u].account # NoAccount => user[u].account # user[w].account
             /\ user[u].mail # NoMail => user[u].mail # user[w].mail
TypeOK ==
    /\ made \in 0..MaxMade /\ fetches \in 0..MaxFetches
    /\ user \in [Users -> [account : SomeAccount, mail : SomeMail]] /\ Apart
    /\ importer \in SomeAccount
    /\ contributors \subseteq Fetches /\ commits \subseteq Fetches
    /\ work \in [Threads -> [at : {"idle", "fetched", "contributors", "between", "commits",
                                   "deleted", "flushed"},
                             got : Fetches, doomed : SUBSET Fetches,
                             held : SUBSET Fetches, gone : SUBSET Fetches]]

-----------------------------------------------------------------------------
(* Whom a commit or a push is credited to.  The page of a project, the      *)
(* totals and the timeline ask the Matcher; the log of one person selects   *)
(* the rows in the database, with commits_by and pushes_by.                 *)
Matcher(account, mail) ==
    LET linked == {u \in Users : account # NoAccount /\ user[u].account = account}
        mailed == {u \in Users : mail # NoMail /\ user[u].mail = mail}
    IN  IF account # NoAccount /\ account = importer THEN Owner
        ELSE IF linked # {} THEN CHOOSE u \in linked : TRUE
        ELSE IF mailed # {} THEN CHOOSE u \in mailed : TRUE
        ELSE Nobody

AsOwner(u, account) == u = Owner /\ importer # NoAccount /\ account = importer
AsLinked(u, account) == /\ user[u].account # NoAccount /\ account = user[u].account
                        /\ importer # account \/ u = Owner
AsMailedToo(u, account, mail) == user[u].mail # NoMail /\ mail = user[u].mail  \* whoever the account is
AsMailed(u, account, mail) ==
    /\ user[u].mail # NoMail /\ mail = user[u].mail
    /\ \/ account = NoAccount
       \/ account # importer /\ \A w \in Users : user[w].account # account
CommitsBy(u, account, mail) == AsOwner(u, account) \/ AsLinked(u, account) \/ AsMailed(u, account, mail)
PushesBy(u, account) == AsOwner(u, account) \/ AsLinked(u, account)

(* The contributors of a fetch: per account what the statistics say, and    *)
(* for the authors they leave out what the listed commits say.             *)
Covered(f) == {AuthorOf[i] : i \in 1..f.stats} \ {NoAccount}
Key(i) == IF AuthorOf[i] # NoAccount THEN AuthorOf[i] ELSE MailOf[i]
MailsIn(is) == {MailOf[i] : i \in is} \ {NoMail}
AMail(is) == IF MailsIn(is) = {} THEN NoMail ELSE CHOOSE m \in MailsIn(is) : TRUE
ContributorRows(f) ==
    LET counted(a) == {i \in 1..f.stats : AuthorOf[i] = a}
        named(a) == {i \in 1..f.listed : AuthorOf[i] = a}
        others == {i \in 1..f.listed : AuthorOf[i] \notin Covered(f)}
        group(k) == {i \in others : Key(i) = k}
    IN  {[account |-> a, mail |-> AMail(named(a)), commits |-> Cardinality(counted(a))] : a \in Covered(f)}
        \cup {[account |-> IF k \in Accounts THEN k ELSE NoAccount, mail |-> AMail(group(k)),
               commits |-> Cardinality(group(k))] : k \in {Key(i) : i \in others}}
Total(rows) == MapThenSumSet(LAMBDA r : r.commits, rows)
Credit(f, u) == Total({r \in ContributorRows(f) : Matcher(r.account, r.mail) = u})

(* The insights of a project: the rows a person stands beside.  The log:    *)
(* the commits the condition of that person gives.                         *)
Insights(f, u) == {r \in ContributorRows(f) : Matcher(r.account, r.mail) = u}
Log(f, u) == {i \in 1..f.listed : CommitsBy(u, AuthorOf[i], MailOf[i])}
(* An entry of the log names whom the matcher finds.                       *)
Named(f, i) == Matcher(AuthorOf[i], MailOf[i])

(* What a store leaves of a fetch.                                          *)
AsContributors(f) == {g \in {f} : ContributorRows(g) # {}}
AsCommits(f) == {g \in {f} : g.listed > 0}

(* The import has stored what GitHub gave of each part, perhaps nothing.   *)
Init ==
    /\ made \in 0..MaxMade /\ fetches = 0
    /\ user \in [Users -> [account : {NoAccount}, mail : SomeMail]] /\ Apart
    /\ importer \in SomeAccount
    /\ \E f \in [n : {0}, stats : {0, made}, listed : {0, made}] :
          contributors = AsContributors(f) /\ commits = AsCommits(f)
    /\ work = [t \in Threads |-> Idle]

-----------------------------------------------------------------------------
(* GitHub goes on, and a user links an account no other user has.          *)
Made == /\ made < MaxMade /\ made' = made + 1
        /\ UNCHANGED <<user, importer, contributors, commits, fetches, work>>
Free(a) == \A u \in Users : user[u].account # a
Link(u, a) ==
    /\ user[u].account = NoAccount /\ Free(a)
    /\ user' = [user EXCEPT ![u].account = a]
    /\ UNCHANGED <<made, importer, contributors, commits, fetches, work>>

Becomes(t, w) == work' = [work EXCEPT ![t] = w]
Tables == UNCHANGED <<made, user, importer, contributors, commits>>

(* capture: what GitHub says.  Each part may be refused, and is empty then. *)
(* When GitHub cannot be reached the request ends with nothing stored.      *)
Fetch(t) ==
    /\ work[t].at = "idle" /\ fetches < MaxFetches /\ fetches' = fetches + 1
    /\ \E stats, listed \in {0, made} :
          Becomes(t, [Idle EXCEPT !.at = "fetched",
                                  !.got = [n |-> fetches + 1, stats |-> stats, listed |-> listed]])
    /\ Tables

(* store: two DELETEs, each of the rows it sees when it starts, behind any  *)
(* transaction that has deleted one of them.                               *)
Held(t) == UNION {work[o].held : o \in Threads \ {t}}
Gone(t) == UNION {work[o].gone : o \in Threads \ {t}}
DeleteContributors(t) ==
    /\ work[t].at = "fetched"
    /\ Becomes(t, IF contributors \cap Held(t) = {}
                  THEN [work[t] EXCEPT !.at = "between", !.held = contributors]
                  ELSE [work[t] EXCEPT !.at = "contributors", !.doomed = contributors])
    /\ UNCHANGED fetches /\ Tables
GoOnWithContributors(t) ==
    /\ work[t].at = "contributors" /\ work[t].doomed \cap Held(t) = {}
    /\ Becomes(t, [work[t] EXCEPT !.at = "between", !.held = work[t].doomed \cap contributors])
    /\ UNCHANGED fetches /\ Tables
DeleteCommits(t) ==
    /\ work[t].at = "between"
    /\ Becomes(t, IF commits \cap Gone(t) = {}
                  THEN [work[t] EXCEPT !.at = "deleted", !.gone = commits]
                  ELSE [work[t] EXCEPT !.at = "commits", !.doomed = commits])
    /\ UNCHANGED fetches /\ Tables
GoOnWithCommits(t) ==
    /\ work[t].at = "commits" /\ work[t].doomed \cap Gone(t) = {}
    /\ Becomes(t, [work[t] EXCEPT !.at = "deleted", !.gone = work[t].doomed \cap commits])
    /\ UNCHANGED fetches /\ Tables

(* db.flush: the unique index on a commit's sha.  A row of a transaction    *)
(* that has not ended makes this one wait, a committed one makes it fail.   *)
Waits(t) == work[t].got.listed > 0 /\ \E o \in Threads \ {t} :
                work[o].at = "flushed" /\ work[o].got.listed > 0
NoIndex(t) == FALSE
Taken(t) == work[t].got.listed > 0 /\ commits \ work[t].gone # {}
Flush(t) ==
    /\ work[t].at = "deleted" /\ ~Waits(t)
    /\ Becomes(t, IF Taken(t) THEN Idle ELSE [work[t] EXCEPT !.at = "flushed"])
    /\ UNCHANGED fetches /\ Tables

(* The commit.  The account is GitHub's answer to whose token this was,     *)
(* unless that part was refused or it is the one that was read.            *)
Commit(t) ==
    LET f == work[t].got
    IN  /\ work[t].at = "flushed"
        /\ contributors' = (contributors \ work[t].held) \cup AsContributors(f)
        /\ commits' = (commits \ work[t].gone) \cup AsCommits(f)
        /\ importer' \in Accounts \cup {importer}
        /\ Becomes(t, Idle) /\ UNCHANGED <<made, user, fetches>>

Next == \/ Made
        \/ \E u \in Users, a \in Accounts : Link(u, a)
        \/ \E t \in Threads : \/ Fetch(t) \/ DeleteContributors(t) \/ GoOnWithContributors(t)
                              \/ DeleteCommits(t) \/ GoOnWithCommits(t) \/ Flush(t) \/ Commit(t)
Spec == Init /\ [][Next]_vars

-----------------------------------------------------------------------------
(* Whatever accounts are linked, in whatever order, a commit is in the log  *)
(* of the one person it is credited to on every other page, and a push too. *)
OneCredit ==
    \A account \in SomeAccount, mail \in SomeMail, u \in Users :
        /\ Matcher(account, mail) = u <=> CommitsBy(u, account, mail)
        /\ Matcher(account, NoMail) = u <=> PushesBy(u, account)

(* However stores overlap, no commit is stored twice, and where the totals  *)
(* and the log are of one fetch, whole or without statistics, and the       *)
(* commits of each author carry one email, they say the same of everybody.  *)
OneMailEach == \A i, j \in 1..made : Key(i) = Key(j) => MailOf[i] = MailOf[j]
StoredOnce == Cardinality(commits) <= 1
LogNamesThem == \A f \in commits, u \in Users : \A i \in Log(f, u) : Named(f, i) = u
TotalsAgree(f, u) == Credit(f, u) = Cardinality(Log(f, u)) /\ Total(Insights(f, u)) = Cardinality(Log(f, u))
HistoryAddsUp ==
    /\ StoredOnce /\ LogNamesThem
    /\ \A f \in contributors \cap commits, u \in Users :
          OneMailEach /\ f.stats \in {0, f.listed} => TotalsAgree(f, u)

(* Contributors are replaced on every refresh: never the rows of two.       *)
ContributorsReplaced == Cardinality(contributors) <= 1
=============================================================================
