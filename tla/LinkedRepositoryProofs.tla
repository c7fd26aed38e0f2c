----------------------- MODULE LinkedRepositoryProofs -----------------------
(***************************************************************************)
(* For any number of runners, users, accounts, commits and fetches: what   *)
(* the history of a linked repository promises, beside what its files      *)
(* promise (WorkspaceSyncProofs).                                          *)
(***************************************************************************)
EXTENDS LinkedRepository, WorkspaceSyncProofs, FiniteSetTheorems

-----------------------------------------------------------------------------
(* GitHubHistory: the commits stored, and whom they are credited to.       *)

(* The part counts as FiniteSets does.                                     *)
LEMMA HistoryCounts == ASSUME NEW S PROVE History!Cardinality(S) = Cardinality(S)
BY DEF History!Cardinality, Cardinality

(* The bounds; every commit has an account and an email, or none; who is   *)
(* nobody is no user; an account is no email, and none of either is none.  *)
HistoryBounds ==
    /\ MaxMade \in Nat /\ MaxFetches \in Nat /\ Nobody \notin Users \cup Accounts \cup Mails
    /\ Accounts \cap Mails = {}
    /\ AuthorOf \in [1..MaxMade -> History!SomeAccount] /\ MailOf \in [1..MaxMade -> History!SomeMail]

HistoryRequest == [at : {"idle", "fetched", "contributors", "between", "commits", "deleted", "flushed"},
                   got : History!Fetches, doomed : SUBSET History!Fetches, held : SUBSET History!Fetches, gone : SUBSET History!Fetches]

(* A transaction whose commits passed the unique index has deleted every   *)
(* one that is stored, and no other one is that far.                       *)
HistoryStores(t) == work[t].at = "flushed" /\ work[t].got.listed > 0
HistoryOneStores == \A t, o \in Runners : HistoryStores(t) /\ HistoryStores(o) => t = o
HistoryCleared == \A t \in Runners : HistoryStores(t) => commits \subseteq work[t].gone
HistorySingle == \A f, g \in commits : f = g
HistoryIInv == History!TypeOK /\ HistoryOneStores /\ HistoryCleared /\ HistorySingle

-----------------------------------------------------------------------------
(* Whom a commit is credited to.                                           *)
LEMMA HistoryCredited ==
    ASSUME HistoryBounds, History!TypeOK, NEW account \in History!SomeAccount, NEW mail \in History!SomeMail, NEW u \in Users
    PROVE  /\ History!Matcher(account, mail) = u <=> History!CommitsBy(u, account, mail)
           /\ History!Matcher(account, Nobody) = u <=> History!PushesBy(u, account)
<1> DEFINE linked == {w \in Users : account # Nobody /\ user[w].account = account}
           mailed(m) == {w \in Users : m # Nobody /\ user[w].mail = m}
<1>1. \A w, v \in Users : user[w].account = account /\ user[v].account = account /\ account # Nobody => w = v
  BY DEF History!TypeOK, History!Apart
<1>2. \A m : \A w, v \in Users : user[w].mail = m /\ user[v].mail = m /\ m # Nobody => w = v
  BY DEF History!TypeOK, History!Apart
<1>3. \A m : History!Matcher(account, m) =
          IF account # Nobody /\ account = importer THEN Owner
          ELSE IF linked # {} THEN CHOOSE w \in linked : TRUE
          ELSE IF mailed(m) # {} THEN CHOOSE w \in mailed(m) : TRUE
          ELSE Nobody
  BY DEF History!Matcher
<1>4. linked # {} => (CHOOSE w \in linked : TRUE) \in linked
  OBVIOUS
<1>5. \A m : mailed(m) # {} => (CHOOSE w \in mailed(m) : TRUE) \in mailed(m)
  OBVIOUS
<1> HIDE DEF linked, mailed
<1>6. \A w : w \in linked <=> w \in Users /\ account # Nobody /\ user[w].account = account
  BY DEF linked
<1>7. \A w, m : w \in mailed(m) <=> w \in Users /\ m # Nobody /\ user[w].mail = m
  BY DEF mailed
<1>8. ASSUME NEW m \in History!SomeMail PROVE History!Matcher(account, m) = u <=> History!CommitsBy(u, account, m)
  <2>1. CASE account # Nobody /\ account = importer
    <3>1. History!Matcher(account, m) = Owner
      BY <1>3, <2>1
    <3>2. History!CommitsBy(u, account, m) <=> u = Owner
      BY <2>1 DEF History!CommitsBy, History!AsOwner, History!AsLinked, History!AsMailed
    <3>3. QED BY <3>1, <3>2
  <2>2. CASE ~(account # Nobody /\ account = importer) /\ linked # {}
    <3>1. PICK w \in linked : History!Matcher(account, m) = w
      BY <1>3, <1>4, <2>2
    <3>2. w \in Users /\ account # Nobody /\ user[w].account = account /\ account # importer
      BY <1>6, <2>2, <3>1
    <3>3. History!CommitsBy(u, account, m) <=> user[u].account = account
      BY <3>2 DEF History!CommitsBy, History!AsOwner, History!AsLinked, History!AsMailed
    <3>4. QED BY <1>1, <3>1, <3>2, <3>3
  <2>3. CASE ~(account # Nobody /\ account = importer) /\ linked = {}
    <3>1. account = Nobody \/ (account # importer /\ \A w \in Users : user[w].account # account)
      BY <1>6, <2>3
    <3>2. ~History!AsOwner(u, account) /\ ~History!AsLinked(u, account)
      BY <2>3, <3>1 DEF History!AsOwner, History!AsLinked
    <3>3. History!CommitsBy(u, account, m) <=> m # Nobody /\ user[u].mail = m
      BY <3>1, <3>2 DEF History!CommitsBy, History!AsMailed
    <3>4. CASE mailed(m) # {}
      <4>1. PICK w \in mailed(m) : History!Matcher(account, m) = w
        BY <1>3, <1>5, <2>3, <3>4
      <4>2. w \in Users /\ m # Nobody /\ user[w].mail = m
        BY <1>7, <4>1
      <4>3. QED BY <1>2, <3>3, <4>1, <4>2
    <3>5. CASE mailed(m) = {}
      <4>1. History!Matcher(account, m) = Nobody
        BY <1>3, <2>3, <3>5
      <4>2. u # Nobody /\ ~(m # Nobody /\ user[u].mail = m)
        BY <1>7, <3>5 DEF HistoryBounds
      <4>3. QED BY <3>3, <4>1, <4>2
    <3>6. QED BY <3>4, <3>5
  <2>4. QED BY <2>1, <2>2, <2>3
<1>9. History!CommitsBy(u, account, Nobody) <=> History!PushesBy(u, account)
  BY DEF History!CommitsBy, History!PushesBy, History!AsMailed
<1>10. Nobody \in History!SomeMail
  BY DEF History!SomeMail
<1>11. QED BY <1>8, <1>9, <1>10

-----------------------------------------------------------------------------
(* The totals.  Induction over the rows: a set of them that is not as it   *)
(* should be would contain a least one.                                    *)

AnyRow(s) == CHOOSE r \in s : TRUE
TotalOver(f, R) ==
    f = [s \in SUBSET R |-> IF s = {} THEN 0 ELSE AnyRow(s).commits + f[s \ {AnyRow(s)}]]

(* A total is the value of a function over the sets of rows that takes     *)
(* away one row after the other.                                           *)
LEMMA TotalIs == ASSUME NEW R PROVE History!Total(R) = (CHOOSE f : TotalOver(f, R))[R]
BY DEF History!Total, History!MapThenSumSet, History!MapThenFoldSet, TotalOver, AnyRow

LEMMA TotalAt ==
    ASSUME NEW R, NEW f, TotalOver(f, R), NEW s \in SUBSET R
    PROVE  f[s] = IF s = {} THEN 0 ELSE AnyRow(s).commits + f[s \ {AnyRow(s)}]
<1> DEFINE F == [t \in SUBSET R |-> IF t = {} THEN 0 ELSE AnyRow(t).commits + f[t \ {AnyRow(t)}]]
<1>1. f = F
  BY DEF TotalOver
<1>2. F[s] = IF s = {} THEN 0 ELSE AnyRow(s).commits + f[s \ {AnyRow(s)}]
  OBVIOUS
<1> HIDE DEF F
<1>3. QED BY <1>1, <1>2

LEMMA LeastSet ==
    ASSUME NEW R, IsFiniteSet(R), NEW T, T \subseteq SUBSET R, T # {}
    PROVE  \E s \in T : \A t \in T : ~(t \subseteq s /\ t # s)
<1>1. FiniteSubsetsOf(R) = SUBSET R
  BY FS_FiniteSubsetsOfFinite
<1>2. IsWellFoundedOn(StrictSubsetOrdering(R), SUBSET R)
  BY <1>1, FS_StrictSubsetOrderingWellFounded
<1>3. \E s \in T : \A t \in T : ~(<<t, s>> \in StrictSubsetOrdering(R))
  BY <1>2, WFMin
<1>4. QED BY <1>3 DEF StrictSubsetOrdering

(* The order in which rows are taken does not change the total.            *)
LEMMA TotalsAreOne ==
    ASSUME NEW R, IsFiniteSet(R), NEW f, NEW g, TotalOver(f, R), TotalOver(g, R)
    PROVE  f[R] = g[R]
<1> DEFINE T == {s \in SUBSET R : f[s] # g[s]}
<1>1. SUFFICES ASSUME T # {} PROVE FALSE
  OBVIOUS
<1>2. PICK s \in T : \A t \in T : ~(t \subseteq s /\ t # s)
  <2>1. T \subseteq SUBSET R
    OBVIOUS
  <2> HIDE DEF T
  <2>2. QED BY <1>1, <2>1, LeastSet
<1>3. /\ f[s] = IF s = {} THEN 0 ELSE AnyRow(s).commits + f[s \ {AnyRow(s)}]
      /\ g[s] = IF s = {} THEN 0 ELSE AnyRow(s).commits + g[s \ {AnyRow(s)}]
  BY <1>2, TotalAt
<1>4. s # {}
  BY <1>2, <1>3
<1>5. AnyRow(s) \in s
  BY <1>4 DEF AnyRow
<1>6. s \ {AnyRow(s)} \in SUBSET R /\ s \ {AnyRow(s)} # s
  BY <1>2, <1>5
<1>7. f[s \ {AnyRow(s)}] = g[s \ {AnyRow(s)}]
  BY <1>2, <1>6
<1>8. QED BY <1>2, <1>3, <1>4, <1>7

(* The total of rows that each count a set of their own.                   *)
CountedBy(C, I, s) == {i \in I : \E r \in s : i \in C[r]}
LEMMA TotalCounts ==
    ASSUME NEW R, IsFiniteSet(R), NEW I, IsFiniteSet(I), NEW C \in [R -> SUBSET I],
           \A r \in R : r.commits = Cardinality(C[r]),
           \A q, r \in R : q # r => C[q] \cap C[r] = {}
    PROVE  History!Total(R) = Cardinality(CountedBy(C, I, R))
<1> DEFINE g == [s \in SUBSET R |-> Cardinality(CountedBy(C, I, s))]
<1>1. ASSUME NEW s \in SUBSET R, s # {}
      PROVE  Cardinality(CountedBy(C, I, s)) = AnyRow(s).commits + Cardinality(CountedBy(C, I, s \ {AnyRow(s)}))
  <2> DEFINE a == AnyRow(s)
             rest == CountedBy(C, I, s \ {a})
  <2>1. a \in s /\ a \in R
    BY <1>1 DEF AnyRow
  <2> HIDE DEF a
  <2>2. CountedBy(C, I, s) = C[a] \cup rest /\ C[a] \cap rest = {}
    BY <2>1 DEF CountedBy
  <2>3. IsFiniteSet(C[a]) /\ IsFiniteSet(rest)
    BY <2>1, FS_Subset DEF CountedBy
  <2> HIDE DEF rest
  <2>4. Cardinality(C[a]) \in Nat /\ Cardinality(rest) \in Nat
    BY <2>3, FS_CardinalityType
  <2>5. Cardinality(C[a] \cup rest) = Cardinality(C[a]) + Cardinality(rest) - Cardinality(C[a] \cap rest)
    BY <2>3, FS_Union
  <2>6. a.commits = Cardinality(C[a])
    BY <2>1
  <2>7. Cardinality(CountedBy(C, I, s)) = Cardinality(C[a]) + Cardinality(rest) - Cardinality({})
    BY <2>2, <2>5
  <2>8. Cardinality(CountedBy(C, I, s)) = a.commits + Cardinality(rest)
    BY <2>4, <2>6, <2>7, FS_EmptySet
  <2>9. QED BY <2>8 DEF a, rest
<1>2. Cardinality(CountedBy(C, I, {})) = 0
  BY FS_EmptySet DEF CountedBy
<1>3. TotalOver(g, R)
  <2>1. \A s \in SUBSET R : s # {} => s \ {AnyRow(s)} \in SUBSET R
    OBVIOUS
  <2>2. \A s \in SUBSET R : g[s] = IF s = {} THEN 0 ELSE AnyRow(s).commits + g[s \ {AnyRow(s)}]
    BY <1>1, <1>2, <2>1
  <2>3. g = [s \in SUBSET R |-> g[s]]
    OBVIOUS
  <2> HIDE DEF g
  <2>4. QED BY <2>2, <2>3 DEF TotalOver
<1>4. TotalOver(CHOOSE f : TotalOver(f, R), R)
  BY <1>3
<1>5. (CHOOSE f : TotalOver(f, R))[R] = g[R]
  BY <1>3, <1>4, TotalsAreOne
<1>6. QED BY <1>5, TotalIs

-----------------------------------------------------------------------------
(* The rows of a fetch that has all of its parts: each of the commits of   *)
(* one key, with the account and the email they all have.                  *)

HistoryWhole(f) == f \in History!Fetches /\ f.listed <= made /\ f.stats \in {0, f.listed}
HistoryListed(f) == 1..f.listed
HistoryKeyed(f, k) == {i \in HistoryListed(f) : History!Key(i) = k}
HistoryRow(f, i) == [account |-> AuthorOf[i], mail |-> MailOf[i], commits |-> Cardinality(HistoryKeyed(f, History!Key(i)))]

LEMMA HistoryCommitIs ==
    ASSUME HistoryBounds, History!TypeOK, NEW f, HistoryWhole(f), NEW i \in HistoryListed(f)
    PROVE  i \in 1..made /\ AuthorOf[i] \in History!SomeAccount /\ MailOf[i] \in History!SomeMail
<1>1. f.listed \in 0..MaxMade /\ made \in 0..MaxMade /\ f.listed <= made
  BY DEF HistoryWhole, History!Fetches, History!TypeOK
<1>2. i \in 1..made /\ i \in 1..MaxMade
  BY <1>1 DEF HistoryListed, HistoryBounds
<1>3. QED BY <1>2 DEF HistoryBounds

(* Commits of one key have one author and one email.                       *)
LEMMA HistoryOneKey ==
    ASSUME HistoryBounds, History!TypeOK, History!OneMailEach, NEW f, HistoryWhole(f),
           NEW i \in HistoryListed(f), NEW j \in HistoryListed(f)
    PROVE  /\ History!Key(i) = History!Key(j) <=> AuthorOf[i] = AuthorOf[j] /\ MailOf[i] = MailOf[j]
           /\ \A a \in Accounts : History!Key(i) = a <=> AuthorOf[i] = a
<1>1. /\ i \in 1..made /\ AuthorOf[i] \in History!SomeAccount /\ MailOf[i] \in History!SomeMail
      /\ j \in 1..made /\ AuthorOf[j] \in History!SomeAccount /\ MailOf[j] \in History!SomeMail
  BY HistoryCommitIs
<1>2. \A a \in Accounts : (History!Key(i) = a <=> AuthorOf[i] = a) /\ (History!Key(j) = a <=> AuthorOf[j] = a)
  BY <1>1 DEF History!Key, History!SomeAccount, History!SomeMail, HistoryBounds
<1>3. History!Key(i) = History!Key(j) => MailOf[i] = MailOf[j]
  BY <1>1 DEF History!OneMailEach
<1>4. ASSUME History!Key(i) = History!Key(j) PROVE AuthorOf[i] = AuthorOf[j]
  BY <1>1, <1>2, <1>4 DEF History!Key, History!SomeAccount
<1>5. QED BY <1>2, <1>3, <1>4 DEF History!Key

(* An email of commits that have one.                                      *)
LEMMA HistoryMail ==
    ASSUME NEW is, NEW i \in is, \A j \in is : MailOf[j] = MailOf[i]
    PROVE  History!AMail(is) = MailOf[i]
<1>1. CASE MailOf[i] = Nobody
  <2>1. History!MailsIn(is) = {}
    BY <1>1 DEF History!MailsIn
  <2>2. QED BY <1>1, <2>1 DEF History!AMail
<1>2. CASE MailOf[i] # Nobody
  <2>1. History!MailsIn(is) = {MailOf[i]}
    BY <1>2 DEF History!MailsIn
  <2>2. QED BY <2>1 DEF History!AMail
<1>3. QED BY <1>1, <1>2

LEMMA HistoryRowsAre ==
    ASSUME HistoryBounds, History!TypeOK, History!OneMailEach, NEW f, HistoryWhole(f)
    PROVE  History!ContributorRows(f) = {HistoryRow(f, i) : i \in HistoryListed(f)}
<1> DEFINE counted(a) == {i \in 1..f.stats : AuthorOf[i] = a}
           named(a) == {i \in 1..f.listed : AuthorOf[i] = a}
           others == {i \in 1..f.listed : AuthorOf[i] \notin History!Covered(f)}
           group(k) == {i \in others : History!Key(i) = k}
           byStats(a) == [account |-> a, mail |-> History!AMail(named(a)), commits |-> Cardinality(counted(a))]
           byList(k) == [account |-> IF k \in Accounts THEN k ELSE Nobody, mail |-> History!AMail(group(k)),
                         commits |-> Cardinality(group(k))]
<1>1. History!ContributorRows(f) = {byStats(a) : a \in History!Covered(f)}
                                   \cup {byList(k) : k \in {History!Key(i) : i \in others}}
  BY HistoryCounts DEF History!ContributorRows
<1>2. \A i \in HistoryListed(f) : AuthorOf[i] \in Accounts \cup {Nobody} /\ Nobody \notin Accounts
  BY HistoryCommitIs DEF History!SomeAccount, HistoryBounds
<1>3. f.stats = 0 \/ f.stats = f.listed
  BY DEF HistoryWhole
<1>4. f.stats = 0 => 1..f.stats = {}
  OBVIOUS
<1>5. \A a \in History!Covered(f) : a \in Accounts /\ f.stats = f.listed /\ \E i \in HistoryListed(f) : AuthorOf[i] = a
  BY <1>2, <1>3, <1>4 DEF History!Covered, HistoryListed
<1>6. ASSUME NEW i \in HistoryListed(f), AuthorOf[i] \in History!Covered(f) PROVE byStats(AuthorOf[i]) = HistoryRow(f, i)
  <2>1. AuthorOf[i] \in Accounts /\ f.stats = f.listed
    BY <1>5, <1>6
  <2>2. \A j \in HistoryListed(f) : History!Key(j) = History!Key(i) <=> AuthorOf[j] = AuthorOf[i]
    BY <2>1, HistoryOneKey
  <2>3. named(AuthorOf[i]) = HistoryKeyed(f, History!Key(i)) /\ counted(AuthorOf[i]) = HistoryKeyed(f, History!Key(i))
    BY <2>1, <2>2 DEF HistoryKeyed, HistoryListed
  <2>4. i \in named(AuthorOf[i]) /\ \A j \in named(AuthorOf[i]) : MailOf[j] = MailOf[i]
    BY <2>2, HistoryOneKey DEF HistoryListed
  <2> HIDE DEF named, counted
  <2>5. History!AMail(named(AuthorOf[i])) = MailOf[i]
    BY <2>4, HistoryMail
  <2>6. QED BY <2>3, <2>5 DEF HistoryRow
<1>7. ASSUME NEW i \in others PROVE byList(History!Key(i)) = HistoryRow(f, i)
  <2>1. i \in HistoryListed(f) /\ AuthorOf[i] \notin History!Covered(f)
    BY DEF HistoryListed
  <2>2. \A j \in HistoryListed(f) : History!Key(j) = History!Key(i) => AuthorOf[j] = AuthorOf[i] /\ MailOf[j] = MailOf[i]
    BY <2>1, HistoryOneKey
  <2>3. group(History!Key(i)) = HistoryKeyed(f, History!Key(i))
    BY <2>1, <2>2 DEF HistoryKeyed, HistoryListed
  <2>4. i \in group(History!Key(i)) /\ \A j \in group(History!Key(i)) : MailOf[j] = MailOf[i]
    BY <2>1, <2>2 DEF HistoryListed
  <2>5. (IF History!Key(i) \in Accounts THEN History!Key(i) ELSE Nobody) = AuthorOf[i]
    BY <1>2, <2>1, HistoryOneKey
  <2> HIDE DEF group
  <2>6. History!AMail(group(History!Key(i))) = MailOf[i]
    BY <2>4, HistoryMail
  <2>7. QED BY <2>3, <2>5, <2>6 DEF HistoryRow
<1>8. {byList(k) : k \in {History!Key(i) : i \in others}} = {HistoryRow(f, i) : i \in others}
  <2>1. {byList(k) : k \in {History!Key(i) : i \in others}} = {byList(History!Key(i)) : i \in others}
    <3> HIDE DEF byList, others
    <3>1. QED OBVIOUS
  <2> HIDE DEF byList, others
  <2>2. QED BY <1>7, <2>1
<1>9. {byStats(a) : a \in History!Covered(f)}
          = {HistoryRow(f, i) : i \in {j \in HistoryListed(f) : AuthorOf[j] \in History!Covered(f)}}
  <2> HIDE DEF byStats
  <2>1. QED BY <1>5, <1>6
<1>10. HistoryListed(f) = others \cup {j \in HistoryListed(f) : AuthorOf[j] \in History!Covered(f)}
  BY DEF HistoryListed
<1> HIDE DEF byStats, byList, others
<1>11. QED BY <1>1, <1>8, <1>9, <1>10

(* What a fetch with all of its parts credits a person with is what the    *)
(* log of that person has.                                                 *)
LEMMA HistoryTotalsAgree ==
    ASSUME HistoryBounds, History!TypeOK, History!OneMailEach, NEW f, HistoryWhole(f), NEW u \in Users
    PROVE  History!TotalsAgree(f, u)
<1> DEFINE I == HistoryListed(f)
           R == {HistoryRow(f, i) : i \in I}
           R_u == {r \in R : History!Matcher(r.account, r.mail) = u}
           C == [r \in R_u |-> {i \in I : HistoryRow(f, i) = r}]
<1>1. f.listed \in Nat
  BY DEF HistoryWhole, History!Fetches, HistoryBounds
<1>2. IsFiniteSet(I)
  BY <1>1, FS_Interval DEF HistoryListed
<1>3. IsFiniteSet(R_u)
  <2>1. IsFiniteSet(R)
    <3> DEFINE g == [i \in I |-> HistoryRow(f, i)]
    <3>1. g \in Surjection(I, R)
      BY DEF Surjection
    <3> HIDE DEF g, I, R
    <3>2. QED BY <1>2, <3>1, FS_Surjection
  <2> HIDE DEF R
  <2>2. QED BY <2>1, FS_Subset
<1>4. ASSUME NEW r \in R_u PROVE r.commits = Cardinality(C[r])
  <2>1. PICK i \in I : r = HistoryRow(f, i)
    OBVIOUS
  <2>2. \A j \in I : HistoryRow(f, j) = HistoryRow(f, i) <=> History!Key(j) = History!Key(i)
    <3>1. ASSUME NEW j \in I PROVE HistoryRow(f, j) = HistoryRow(f, i) <=> History!Key(j) = History!Key(i)
      <4>1. History!Key(j) = History!Key(i) <=> AuthorOf[j] = AuthorOf[i] /\ MailOf[j] = MailOf[i]
        BY HistoryOneKey
      <4>2. QED BY <4>1 DEF HistoryRow
    <3>2. QED BY <3>1
  <2>3. C[r] = HistoryKeyed(f, History!Key(i))
    BY <2>1, <2>2 DEF HistoryKeyed
  <2> HIDE DEF C
  <2>4. QED BY <2>1, <2>3 DEF HistoryRow
<1>5. C \in [R_u -> SUBSET I] /\ \A q, r \in R_u : q # r => C[q] \cap C[r] = {}
  OBVIOUS
<1>6. CountedBy(C, I, R_u) = History!Log(f, u)
  <2>1. ASSUME NEW i \in I
        PROVE  (\E r \in R_u : i \in C[r]) <=> History!CommitsBy(u, AuthorOf[i], MailOf[i])
    <3>1. History!Matcher(AuthorOf[i], MailOf[i]) = u <=> History!CommitsBy(u, AuthorOf[i], MailOf[i])
      BY HistoryCommitIs, HistoryCredited
    <3>2. HistoryRow(f, i) \in R /\ HistoryRow(f, i).account = AuthorOf[i] /\ HistoryRow(f, i).mail = MailOf[i]
      BY DEF HistoryRow
    <3>3. (\E r \in R_u : i \in C[r]) <=> HistoryRow(f, i) \in R_u
      <4> HIDE DEF R
      <4>1. QED OBVIOUS
    <3> HIDE DEF R
    <3>4. QED BY <3>1, <3>2, <3>3
  <2>2. QED BY <2>1 DEF CountedBy, History!Log, HistoryListed
<1>7. History!ContributorRows(f) = R
  BY HistoryRowsAre
<1> HIDE DEF C, R
<1>8. History!Total(R_u) = Cardinality(CountedBy(C, I, R_u))
  <2> HIDE DEF R_u, I
  <2>1. QED BY <1>2, <1>3, <1>4, <1>5, TotalCounts
<1>9. QED BY <1>6, <1>7, <1>8, HistoryCounts DEF History!TotalsAgree, History!Credit, History!Insights

-----------------------------------------------------------------------------
LEMMA HistoryInitIInv == ASSUME HistoryBounds, History!Init PROVE HistoryIInv
<1>1. PICK f \in [n : {0}, stats : {0, made}, listed : {0, made}] :
          contributors = History!AsContributors(f) /\ commits = History!AsCommits(f)
  BY DEF History!Init
<1>2. made \in 0..MaxMade /\ 0 \in 0..MaxMade /\ 0 \in 0..MaxFetches
  BY DEF History!Init, HistoryBounds
<1>3. f \in History!Fetches
  BY <1>1, <1>2 DEF History!Fetches
<1>4. contributors \subseteq History!Fetches /\ commits \subseteq History!Fetches /\ HistorySingle
  BY <1>1, <1>3 DEF History!AsContributors, History!AsCommits, HistorySingle
<1>5. History!Idle \in HistoryRequest /\ History!Idle.at = "idle"
  BY <1>2 DEF History!Idle, HistoryRequest, History!Nothing, History!Fetches
<1>6. work \in [Runners -> HistoryRequest] /\ \A t \in Runners : work[t] = History!Idle
  BY <1>5 DEF History!Init
<1>7. user \in [Users -> [account : History!SomeAccount, mail : History!SomeMail]]
  BY DEF History!Init, History!SomeAccount
<1>8. History!TypeOK
  BY <1>2, <1>4, <1>6, <1>7 DEF History!TypeOK, History!Init, HistoryRequest
<1>9. QED BY <1>4, <1>5, <1>6, <1>8 DEF HistoryIInv, HistoryOneStores, HistoryCleared, HistoryStores

LEMMA HistoryServes ==
    ASSUME History!TypeOK, NEW t \in Runners, NEW w \in HistoryRequest, History!Becomes(t, w)
    PROVE  /\ work' \in [Runners -> HistoryRequest] /\ work'[t] = w
           /\ \A o \in Runners : o # t => work'[o] = work[o]
BY DEF History!TypeOK, History!Becomes, HistoryRequest

(* A step of a request that does not end in a store.                       *)
LEMMA HistoryGoes ==
    ASSUME HistoryIInv, NEW t \in Runners, NEW w \in HistoryRequest, History!Becomes(t, w), w.at # "flushed",
           History!Tables, fetches' \in 0..MaxFetches
    PROVE  HistoryIInv'
<1>1. History!TypeOK /\ HistoryOneStores /\ HistoryCleared /\ HistorySingle
  BY DEF HistoryIInv
<1>2. work' \in [Runners -> HistoryRequest] /\ work'[t] = w /\ \A o \in Runners : o # t => work'[o] = work[o]
  BY <1>1, HistoryServes
<1>3. History!TypeOK'
  BY <1>1, <1>2 DEF History!TypeOK, History!Tables, HistoryRequest, History!Apart
<1>4. \A o \in Runners : HistoryStores(o)' => HistoryStores(o) /\ work'[o] = work[o]
  BY <1>2 DEF HistoryStores
<1>5. HistoryOneStores' /\ HistoryCleared' /\ HistorySingle'
  BY <1>1, <1>4 DEF HistoryOneStores, HistoryCleared, HistorySingle, History!Tables
<1>6. QED BY <1>3, <1>5 DEF HistoryIInv

LEMMA HistoryOthersKeep ==
    ASSUME HistoryBounds, HistoryIInv, History!Made \/ \E u \in Users, a \in Accounts : History!Link(u, a)
    PROVE  HistoryIInv'
<1>1. History!TypeOK /\ UNCHANGED <<importer, contributors, commits, fetches, work>>
  BY DEF HistoryIInv, History!Made, History!Link
<1>2. HistoryOneStores' /\ HistoryCleared' /\ HistorySingle'
  BY <1>1 DEF HistoryIInv, HistoryOneStores, HistoryCleared, HistorySingle, HistoryStores
<1>3. CASE History!Made
  BY <1>1, <1>2, <1>3 DEF History!Made, HistoryIInv, History!TypeOK, History!Apart, HistoryBounds
<1>4. ASSUME NEW u \in Users, NEW a \in Accounts, History!Link(u, a) PROVE HistoryIInv'
  <2>1. made' = made /\ user' = [user EXCEPT ![u].account = a] /\ History!Free(a)
    BY <1>4 DEF History!Link
  <2>2. PICK p \in [account : History!SomeAccount, mail : History!SomeMail] : p = [user[u] EXCEPT !.account = a]
    BY <1>1 DEF History!TypeOK, History!SomeAccount
  <2>3. p.account = a /\ p.mail = user[u].mail
    BY <1>1, <2>2 DEF History!TypeOK
  <2>4. /\ user' \in [Users -> [account : History!SomeAccount, mail : History!SomeMail]] /\ user'[u] = p
        /\ \A w \in Users : w # u => user'[w] = user[w]
    BY <1>1, <2>1, <2>2 DEF History!TypeOK
  <2>5. History!Apart'
    BY <1>1, <2>1, <2>3, <2>4 DEF History!TypeOK, History!Apart, History!Free
  <2>6. QED BY <1>1, <1>2, <2>1, <2>4, <2>5 DEF HistoryIInv, History!TypeOK
<1>5. QED BY <1>3, <1>4

LEMMA HistoryIdleIsRequest ==
    ASSUME HistoryBounds
    PROVE History!Idle \in HistoryRequest /\ History!Idle.at = "idle"
<1>1. 0 \in 0..MaxMade /\ 0 \in 0..MaxFetches
  BY DEF HistoryBounds
<1>2. QED BY <1>1 DEF History!Idle, HistoryRequest, History!Nothing, History!Fetches

(* A request goes on to its next DELETE, or waits for it.                  *)
LEMMA HistoryTurnKeeps ==
    ASSUME HistoryIInv, NEW t \in Runners, NEW r \in HistoryRequest,
           NEW at \in {"between", "contributors", "deleted", "commits"}, NEW S \in SUBSET History!Fetches,
           \/ History!Becomes(t, [r EXCEPT !.at = at, !.held = S])
           \/ History!Becomes(t, [r EXCEPT !.at = at, !.gone = S])
           \/ History!Becomes(t, [r EXCEPT !.at = at, !.doomed = S]),
           History!Tables, fetches' \in 0..MaxFetches
    PROVE  HistoryIInv'
<1>1. PICK a \in HistoryRequest : a = [r EXCEPT !.at = at]
  BY DEF HistoryRequest
<1>2. a.at = at /\ at # "flushed"
  BY <1>1 DEF HistoryRequest
<1>3. CASE History!Becomes(t, [r EXCEPT !.at = at, !.held = S])
  <2>1. PICK w \in HistoryRequest : w = [a EXCEPT !.held = S]
    BY <1>1 DEF HistoryRequest
  <2>2. w.at # "flushed"
    BY <1>2, <2>1 DEF HistoryRequest
  <2>3. [r EXCEPT !.at = at, !.held = S] = w
    BY <1>1, <2>1 DEF HistoryRequest
  <2>4. History!Becomes(t, w)
    BY <1>3, <2>3
  <2>5. QED BY <2>2, <2>4, HistoryGoes
<1>4. CASE History!Becomes(t, [r EXCEPT !.at = at, !.gone = S])
  <2>1. PICK w \in HistoryRequest : w = [a EXCEPT !.gone = S]
    BY <1>1 DEF HistoryRequest
  <2>2. w.at # "flushed"
    BY <1>2, <2>1 DEF HistoryRequest
  <2>3. [r EXCEPT !.at = at, !.gone = S] = w
    BY <1>1, <2>1 DEF HistoryRequest
  <2>4. History!Becomes(t, w)
    BY <1>4, <2>3
  <2>5. QED BY <2>2, <2>4, HistoryGoes
<1>5. CASE History!Becomes(t, [r EXCEPT !.at = at, !.doomed = S])
  <2>1. PICK w \in HistoryRequest : w = [a EXCEPT !.doomed = S]
    BY <1>1 DEF HistoryRequest
  <2>2. w.at # "flushed"
    BY <1>2, <2>1 DEF HistoryRequest
  <2>3. [r EXCEPT !.at = at, !.doomed = S] = w
    BY <1>1, <2>1 DEF HistoryRequest
  <2>4. History!Becomes(t, w)
    BY <1>5, <2>3
  <2>5. QED BY <2>2, <2>4, HistoryGoes
<1>6. QED BY <1>3, <1>4, <1>5

LEMMA HistoryFetchKeeps ==
    ASSUME HistoryBounds, HistoryIInv, NEW t \in Runners, History!Fetch(t)
    PROVE HistoryIInv'
<1>1. PICK stats, listed \in {0, made} :
          History!Becomes(t, [History!Idle EXCEPT !.at = "fetched",
                                                  !.got = [n |-> fetches + 1, stats |-> stats, listed |-> listed]])
  BY DEF History!Fetch
<1>2. History!Tables /\ fetches' = fetches + 1 /\ fetches < MaxFetches
  BY DEF History!Fetch
<1>3. fetches \in 0..MaxFetches /\ made \in 0..MaxMade
  BY DEF HistoryIInv, History!TypeOK
<1>4. fetches + 1 \in 0..MaxFetches /\ stats \in 0..MaxMade /\ listed \in 0..MaxMade
  BY <1>1, <1>2, <1>3 DEF HistoryBounds
<1>5. PICK f \in History!Fetches : f = [n |-> fetches + 1, stats |-> stats, listed |-> listed]
  BY <1>4 DEF History!Fetches
<1>6. PICK a \in HistoryRequest : a = [History!Idle EXCEPT !.at = "fetched"]
  BY HistoryIdleIsRequest DEF HistoryRequest
<1>7. PICK w \in HistoryRequest : w = [a EXCEPT !.got = f]
  BY <1>6 DEF HistoryRequest
<1>8. a.at = "fetched"
  BY <1>6, HistoryIdleIsRequest DEF HistoryRequest
<1>9. w.at = "fetched"
  BY <1>7, <1>8 DEF HistoryRequest
<1>10. [History!Idle EXCEPT !.at = "fetched", !.got = f] = w
  BY <1>6, <1>7, HistoryIdleIsRequest DEF HistoryRequest
<1>11. History!Becomes(t, w)
  BY <1>1, <1>5, <1>10
<1>12. QED BY <1>2, <1>4, <1>9, <1>11, HistoryGoes

LEMMA HistoryDeletesKeep ==
    ASSUME HistoryBounds, HistoryIInv, NEW t \in Runners,
           History!DeleteContributors(t) \/ History!GoOnWithContributors(t) \/ History!DeleteCommits(t) \/ History!GoOnWithCommits(t)
    PROVE  HistoryIInv'
<1>1. History!TypeOK /\ work[t] \in HistoryRequest
  BY DEF HistoryIInv, History!TypeOK, HistoryRequest
<1>2. /\ contributors \in SUBSET History!Fetches /\ commits \in SUBSET History!Fetches
      /\ work[t].doomed \cap contributors \in SUBSET History!Fetches /\ work[t].doomed \cap commits \in SUBSET History!Fetches
  BY <1>1 DEF History!TypeOK
<1>3. History!Tables /\ fetches' \in 0..MaxFetches
  BY <1>1 DEF History!DeleteContributors, History!GoOnWithContributors, History!DeleteCommits,
     History!GoOnWithCommits, History!TypeOK
<1>4. PICK r \in HistoryRequest : r = work[t]
  BY <1>1
<1>5. CASE History!DeleteContributors(t)
  <2>1. \/ History!Becomes(t, [r EXCEPT !.at = "between", !.held = contributors])
        \/ History!Becomes(t, [r EXCEPT !.at = "contributors", !.doomed = contributors])
    BY <1>4, <1>5 DEF History!DeleteContributors
  <2>2. QED BY <1>2, <1>3, <1>4, <2>1, HistoryTurnKeeps
<1>6. CASE History!GoOnWithContributors(t)
  <2>1. History!Becomes(t, [r EXCEPT !.at = "between", !.held = r.doomed \cap contributors])
    BY <1>4, <1>6 DEF History!GoOnWithContributors
  <2>2. QED BY <1>2, <1>3, <1>4, <2>1, HistoryTurnKeeps
<1>7. CASE History!DeleteCommits(t)
  <2>1. \/ History!Becomes(t, [r EXCEPT !.at = "deleted", !.gone = commits])
        \/ History!Becomes(t, [r EXCEPT !.at = "commits", !.doomed = commits])
    BY <1>4, <1>7 DEF History!DeleteCommits
  <2>2. QED BY <1>2, <1>3, <1>4, <2>1, HistoryTurnKeeps
<1>8. CASE History!GoOnWithCommits(t)
  <2>1. History!Becomes(t, [r EXCEPT !.at = "deleted", !.gone = r.doomed \cap commits])
    BY <1>4, <1>8 DEF History!GoOnWithCommits
  <2>2. QED BY <1>2, <1>3, <1>4, <2>1, HistoryTurnKeeps
<1>9. QED BY <1>5, <1>6, <1>7, <1>8

LEMMA HistoryFlushKeeps ==
    ASSUME HistoryBounds, HistoryIInv, NEW t \in Runners, History!Flush(t)
    PROVE HistoryIInv'
<1>1. History!TypeOK /\ HistoryOneStores /\ HistoryCleared /\ HistorySingle /\ work[t] \in HistoryRequest
  BY DEF HistoryIInv, History!TypeOK, HistoryRequest
<1>2. History!Tables /\ fetches' \in 0..MaxFetches
  BY <1>1 DEF History!Flush, History!TypeOK
<1>3. CASE History!Taken(t)
  <2>1. History!Becomes(t, History!Idle)
    BY <1>3 DEF History!Flush
  <2>2. History!Idle.at # "flushed"
    BY HistoryIdleIsRequest
  <2>3. QED BY <1>2, <2>1, <2>2, HistoryIdleIsRequest, HistoryGoes
<1>4. CASE ~History!Taken(t)
  <2>1. PICK w \in HistoryRequest : w = [work[t] EXCEPT !.at = "flushed"]
    BY <1>1 DEF HistoryRequest
  <2>2. w.at = "flushed" /\ w.got = work[t].got /\ w.gone = work[t].gone
    BY <1>1, <2>1 DEF HistoryRequest
  <2>3. History!Becomes(t, w)
    BY <1>4, <2>1 DEF History!Flush
  <2>4. work' \in [Runners -> HistoryRequest] /\ work'[t] = w /\ \A o \in Runners : o # t => work'[o] = work[o]
    BY <1>1, <2>3, HistoryServes
  <2>5. History!TypeOK'
    BY <1>1, <1>2, <2>4 DEF History!TypeOK, History!Tables, HistoryRequest, History!Apart
  <2>6. w.got.listed > 0 => \A o \in Runners : o # t => ~HistoryStores(o)
    BY <2>2 DEF History!Flush, History!Waits, HistoryStores
  <2>7. HistoryOneStores'
    BY <1>1, <2>2, <2>4, <2>6 DEF HistoryOneStores, HistoryStores
  <2>8. w.got.listed > 0 => commits \subseteq w.gone
    BY <1>4, <2>2 DEF History!Taken
  <2>9. HistoryCleared'
    BY <1>1, <1>2, <2>4, <2>8 DEF HistoryCleared, HistoryStores, History!Tables
  <2>10. HistorySingle'
    BY <1>1, <1>2 DEF HistorySingle, History!Tables
  <2>11. QED BY <2>5, <2>7, <2>9, <2>10 DEF HistoryIInv
<1>5. QED BY <1>3, <1>4

LEMMA HistoryCommitKeeps ==
    ASSUME HistoryBounds, HistoryIInv, NEW t \in Runners, History!Commit(t)
    PROVE HistoryIInv'
<1> DEFINE f == work[t].got
<1>1. History!TypeOK /\ HistoryOneStores /\ HistoryCleared /\ HistorySingle /\ work[t] \in HistoryRequest /\ work[t].at = "flushed"
  BY DEF HistoryIInv, History!TypeOK, HistoryRequest, History!Commit
<1>2. f \in History!Fetches /\ f.listed \in 0..MaxMade
  BY <1>1 DEF HistoryRequest, History!Fetches
<1>3. /\ contributors' = (contributors \ work[t].held) \cup History!AsContributors(f)
      /\ commits' = (commits \ work[t].gone) \cup History!AsCommits(f)
      /\ importer' \in Accounts \cup {importer} /\ History!Becomes(t, History!Idle) /\ UNCHANGED <<made, user, fetches>>
  BY DEF History!Commit
<1> HIDE DEF f
<1>4. History!Idle \in HistoryRequest /\ History!Idle.at = "idle"
  BY HistoryIdleIsRequest
<1>5. work' \in [Runners -> HistoryRequest] /\ work'[t] = History!Idle /\ \A o \in Runners : o # t => work'[o] = work[o]
  BY <1>1, <1>3, <1>4, HistoryServes
<1>6. History!AsContributors(f) \subseteq {f} /\ History!AsCommits(f) = IF f.listed > 0 THEN {f} ELSE {}
  BY <1>2 DEF History!AsContributors, History!AsCommits
<1>7. contributors' \subseteq History!Fetches /\ commits' \subseteq History!Fetches /\ importer' \in History!SomeAccount
  BY <1>1, <1>2, <1>3, <1>6 DEF History!TypeOK, History!SomeAccount
<1>8. History!TypeOK'
  BY <1>1, <1>3, <1>5, <1>7 DEF History!TypeOK, HistoryRequest, History!Apart
<1>9. \A o \in Runners : HistoryStores(o)' => o # t /\ HistoryStores(o) /\ work'[o] = work[o]
  BY <1>4, <1>5 DEF HistoryStores
<1>10. HistoryOneStores'
  BY <1>1, <1>9 DEF HistoryOneStores
<1>11. CASE f.listed > 0
  <2>1. HistoryStores(t)
    BY <1>1, <1>11 DEF HistoryStores, f
  <2>2. commits' = {f}
    BY <1>1, <1>3, <1>6, <1>11, <2>1 DEF HistoryCleared
  <2>3. \A o \in Runners : ~HistoryStores(o)'
    BY <1>1, <1>9, <2>1 DEF HistoryOneStores
  <2>4. QED BY <1>8, <1>10, <2>2, <2>3 DEF HistoryIInv, HistoryCleared, HistorySingle
<1>12. CASE ~(f.listed > 0)
  <2>1. commits' \subseteq commits
    BY <1>3, <1>6, <1>12
  <2>2. HistoryCleared' /\ HistorySingle'
    BY <1>1, <1>9, <2>1 DEF HistoryCleared, HistorySingle
  <2>3. QED BY <1>8, <1>10, <2>2 DEF HistoryIInv
<1>13. QED BY <1>11, <1>12

LEMMA HistoryNextIInv ==
    ASSUME HistoryBounds, HistoryIInv, [History!Next]_History!vars
    PROVE HistoryIInv'
<1>1. CASE UNCHANGED History!vars
  BY <1>1 DEF History!vars, HistoryIInv, History!TypeOK, History!Apart, HistoryOneStores,
     HistoryCleared, HistorySingle, HistoryStores
<1>2. CASE History!Next
  BY <1>2, HistoryOthersKeep, HistoryFetchKeeps, HistoryDeletesKeep, HistoryFlushKeeps,
     HistoryCommitKeeps DEF History!Next
<1>3. QED BY <1>1, <1>2

LEMMA HistoryCreditHolds == ASSUME HistoryBounds, HistoryIInv PROVE History!OneCredit
BY HistoryCredited DEF HistoryIInv, History!OneCredit

LEMMA HistoryHolds ==
    ASSUME HistoryBounds, HistoryIInv
    PROVE History!TypeOK /\ History!StoredOnce /\ History!LogNamesThem
<1>1. History!TypeOK /\ HistorySingle
  BY DEF HistoryIInv
<1>2. Cardinality(commits) <= 1
  <2>1. commits = {} \/ \E f : commits = {f}
    BY <1>1 DEF HistorySingle
  <2>2. CASE commits = {}
    BY <2>2, FS_EmptySet
  <2>3. CASE \E f : commits = {f}
    <3>1. PICK f : commits = {f}
      BY <2>3
    <3>2. Cardinality({f}) = 1
      BY FS_Singleton
    <3>3. QED BY <3>1, <3>2
  <2>4. QED BY <2>1, <2>2, <2>3
<1>3. ASSUME NEW f \in commits, NEW u \in Users, NEW i \in History!Log(f, u) PROVE History!Named(f, i) = u
  <2>1. f \in History!Fetches /\ f.listed \in 0..MaxMade
    BY <1>1 DEF History!TypeOK, History!Fetches
  <2>2. i \in 1..f.listed /\ History!CommitsBy(u, AuthorOf[i], MailOf[i])
    BY DEF History!Log
  <2>3. i \in 1..MaxMade
    BY <2>1, <2>2 DEF HistoryBounds
  <2>4. AuthorOf[i] \in History!SomeAccount /\ MailOf[i] \in History!SomeMail
    BY <2>3 DEF HistoryBounds
  <2>5. QED BY <1>1, <2>2, <2>4, HistoryCredited DEF History!Named
<1>4. QED BY <1>1, <1>2, <1>3, HistoryCounts DEF History!StoredOnce, History!LogNamesThem

(* What was fetched was there: stored or in a request's hands, a fetch has *)
(* no commit GitHub does not have.                                         *)
HistoryKnown ==
    /\ \A f \in contributors \cup commits : f.listed <= made
    /\ \A t \in Runners : work[t].got.listed <= made

LEMMA HistoryInitKnown == ASSUME HistoryBounds, History!Init PROVE HistoryKnown
<1>1. made \in Nat
  BY DEF History!Init, HistoryBounds
<1>2. \A f \in contributors \cup commits : f.listed \in {0, made}
  BY DEF History!Init, History!AsContributors, History!AsCommits
<1>3. \A t \in Runners : work[t].got.listed = 0
  BY DEF History!Init, History!Idle, History!Nothing
<1>4. QED BY <1>1, <1>2, <1>3 DEF HistoryKnown

(* A request holds what it has fetched, nothing, or what GitHub has now.   *)
LEMMA HistoryGets ==
    ASSUME HistoryBounds, HistoryIInv, NEW t \in Runners,
           \/ History!Fetch(t) \/ History!DeleteContributors(t) \/ History!GoOnWithContributors(t)
           \/ History!DeleteCommits(t) \/ History!GoOnWithCommits(t) \/ History!Flush(t) \/ History!Commit(t)
    PROVE  \A o \in Runners : work'[o].got.listed \in {work[o].got.listed, 0, made}
<1>1. work \in [Runners -> HistoryRequest] /\ History!Idle.got.listed = 0
  BY DEF HistoryIInv, History!TypeOK, HistoryRequest, History!Idle, History!Nothing
<1>2. \A w : History!Becomes(t, w) =>
          w = work'[t] /\ \A o \in Runners : o # t => work'[o] = work[o]
  BY <1>1 DEF History!Becomes
<1>3. CASE History!Fetch(t)
  <2>1. PICK stats, listed \in {0, made} :
            History!Becomes(t, [History!Idle EXCEPT !.at = "fetched",
                                                    !.got = [n |-> fetches + 1, stats |-> stats, listed |-> listed]])
    BY <1>3 DEF History!Fetch
  <2>2. PICK f : f = [n |-> fetches + 1, stats |-> stats, listed |-> listed]
    OBVIOUS
  <2>3. [History!Idle EXCEPT !.at = "fetched", !.got = f].got = f
    BY DEF History!Idle
  <2>4. work'[t].got = f /\ f.listed = listed
    BY <1>2, <2>1, <2>2, <2>3
  <2>5. QED BY <1>2, <2>1, <2>4
<1>4. CASE ~History!Fetch(t)
  <2>1. PICK r \in HistoryRequest : r = work[t]
    BY <1>1
  <2>2. \E w : History!Becomes(t, w) /\ (w = History!Idle \/ w.got = r.got)
    <3>1. CASE History!DeleteContributors(t)
      <4>1. \/ History!Becomes(t, [r EXCEPT !.at = "between", !.held = contributors])
            \/ History!Becomes(t, [r EXCEPT !.at = "contributors", !.doomed = contributors])
        BY <2>1, <3>1 DEF History!DeleteContributors
      <4>2. /\ [r EXCEPT !.at = "between", !.held = contributors].got = r.got
            /\ [r EXCEPT !.at = "contributors", !.doomed = contributors].got = r.got
        BY <2>1 DEF HistoryRequest
      <4>3. QED BY <4>1, <4>2
    <3>2. CASE History!GoOnWithContributors(t)
      <4>1. History!Becomes(t, [r EXCEPT !.at = "between", !.held = r.doomed \cap contributors])
        BY <2>1, <3>2 DEF History!GoOnWithContributors
      <4>2. [r EXCEPT !.at = "between", !.held = r.doomed \cap contributors].got = r.got
        BY <2>1 DEF HistoryRequest
      <4>3. QED BY <4>1, <4>2
    <3>3. CASE History!DeleteCommits(t)
      <4>1. \/ History!Becomes(t, [r EXCEPT !.at = "deleted", !.gone = commits])
            \/ History!Becomes(t, [r EXCEPT !.at = "commits", !.doomed = commits])
        BY <2>1, <3>3 DEF History!DeleteCommits
      <4>2. /\ [r EXCEPT !.at = "deleted", !.gone = commits].got = r.got
            /\ [r EXCEPT !.at = "commits", !.doomed = commits].got = r.got
        BY <2>1 DEF HistoryRequest
      <4>3. QED BY <4>1, <4>2
    <3>4. CASE History!GoOnWithCommits(t)
      <4>1. History!Becomes(t, [r EXCEPT !.at = "deleted", !.gone = r.doomed \cap commits])
        BY <2>1, <3>4 DEF History!GoOnWithCommits
      <4>2. [r EXCEPT !.at = "deleted", !.gone = r.doomed \cap commits].got = r.got
        BY <2>1 DEF HistoryRequest
      <4>3. QED BY <4>1, <4>2
    <3>5. CASE History!Flush(t)
      <4>1. \/ History!Becomes(t, History!Idle)
            \/ History!Becomes(t, [r EXCEPT !.at = "flushed"])
        BY <2>1, <3>5 DEF History!Flush
      <4>2. [r EXCEPT !.at = "flushed"].got = r.got
        BY <2>1 DEF HistoryRequest
      <4>3. QED BY <4>1, <4>2
    <3>6. CASE History!Commit(t)
      BY <3>6 DEF History!Commit
    <3>7. QED BY <1>4, <3>1, <3>2, <3>3, <3>4, <3>5, <3>6
  <2>3. PICK w : History!Becomes(t, w) /\ (w = History!Idle \/ w.got = work[t].got)
    BY <2>1, <2>2
  <2>4. work'[t] = w /\ \A o \in Runners : o # t => work'[o] = work[o]
    BY <1>2, <2>3
  <2>5. QED BY <1>1, <2>3, <2>4
<1>5. QED BY <1>3, <1>4

LEMMA HistoryNextKnown ==
    ASSUME HistoryBounds, HistoryIInv, HistoryKnown, [History!Next]_History!vars
    PROVE  HistoryKnown'
<1>1. /\ made \in Nat /\ \A t \in Runners : work[t].got.listed \in Nat
      /\ \A f \in contributors \cup commits : f.listed \in Nat
  BY DEF HistoryIInv, History!TypeOK, History!Fetches, HistoryBounds
<1>2. CASE UNCHANGED History!vars
  BY <1>2 DEF History!vars, HistoryKnown
<1>3. CASE History!Made \/ \E u \in Users, a \in Accounts : History!Link(u, a)
  <2>1. made' \in {made, made + 1} /\ UNCHANGED <<contributors, commits, work>>
    BY <1>3 DEF History!Made, History!Link
  <2>2. QED BY <1>1, <2>1 DEF HistoryKnown
<1>4. ASSUME NEW t \in Runners,
             \/ History!Fetch(t) \/ History!DeleteContributors(t) \/ History!GoOnWithContributors(t)
             \/ History!DeleteCommits(t) \/ History!GoOnWithCommits(t) \/ History!Flush(t) \/ History!Commit(t)
      PROVE  HistoryKnown'
  <2>1. \A o \in Runners : work'[o].got.listed <= made
    BY <1>1, <1>4, HistoryGets DEF HistoryKnown
  <2>2. made' = made
    BY <1>4 DEF History!Fetch, History!DeleteContributors, History!GoOnWithContributors, History!DeleteCommits,
       History!GoOnWithCommits, History!Flush, History!Commit, History!Tables
  <2>3. contributors' \cup commits' \subseteq contributors \cup commits \cup {work[t].got}
    BY <1>4 DEF History!Fetch, History!DeleteContributors, History!GoOnWithContributors, History!DeleteCommits,
       History!GoOnWithCommits, History!Flush, History!Commit, History!Tables, History!AsContributors, History!AsCommits
  <2>4. QED BY <2>1, <2>2, <2>3 DEF HistoryKnown
<1>5. QED BY <1>2, <1>3, <1>4 DEF History!Next

LEMMA HistoryAdds == ASSUME HistoryBounds, HistoryIInv, HistoryKnown PROVE History!HistoryAddsUp
<1>1. History!TypeOK /\ History!StoredOnce /\ History!LogNamesThem
  BY HistoryHolds
<1>2. ASSUME NEW f \in contributors \cap commits, NEW u \in Users, History!OneMailEach, f.stats \in {0, f.listed}
      PROVE  History!TotalsAgree(f, u)
  <2>1. HistoryWhole(f)
    BY <1>1, <1>2 DEF HistoryWhole, HistoryKnown, History!TypeOK
  <2>2. QED BY <1>1, <1>2, <2>1, HistoryTotalsAgree
<1>3. QED BY <1>1, <1>2 DEF History!HistoryAddsUp

(* A behaviour of the composition is one of History, with steps that leave *)
(* it alone.                                                               *)
LEMMA HistorySpec == LinkedSpec => History!Spec
<1>1. LinkedInit => History!Init
  BY DEF LinkedInit
<1>2. [LinkedNext]_linkedVars => [History!Next]_History!vars
  BY DEF LinkedNext, linkedVars, historyVars, History!vars
<1>3. QED BY <1>1, <1>2, PTL DEF LinkedSpec, History!Spec

LEMMA HistoryInvariant == LinkedSpec => []HistoryIInv
<1>1. History!Init => HistoryIInv
  BY HistoryInitIInv, HistoryAssumption DEF HistoryBounds
<1>2. HistoryIInv /\ [History!Next]_History!vars => HistoryIInv'
  BY HistoryNextIInv, HistoryAssumption DEF HistoryBounds
<1>3. QED BY <1>1, <1>2, HistorySpec, PTL DEF History!Spec

(* Whatever accounts are linked, in whatever order: a commit is in the log *)
(* of the one person it is credited to on every other page, and a push too *)
(* (activity_log.py).                                                      *)
THEOREM OneCreditAlways == LinkedSpec => []OneCredit
<1>1. HistoryIInv => OneCredit
  BY HistoryCreditHolds, HistoryAssumption DEF HistoryBounds, OneCredit
<1>2. QED BY <1>1, HistoryInvariant, PTL

(* However imports, refreshes and full synchronisations overlap, the       *)
(* commits stored are those of one fetch, an entry of a person's log names *)
(* that person, and where the totals are of the same fetch they are the    *)
(* number of entries (github_history.py, activity_log.py).                 *)
THEOREM HistoryAddsUpAlways == LinkedSpec => []HistoryAddsUp
<1>1. History!Init => HistoryKnown
  BY HistoryInitKnown, HistoryAssumption DEF HistoryBounds
<1>2. HistoryIInv /\ HistoryKnown /\ [History!Next]_History!vars => HistoryKnown'
  BY HistoryNextKnown, HistoryAssumption DEF HistoryBounds
<1>3. HistoryIInv /\ HistoryKnown => HistoryAddsUp
  BY HistoryAdds, HistoryAssumption DEF HistoryBounds, HistoryAddsUp
<1>4. QED BY <1>1, <1>2, <1>3, HistorySpec, HistoryInvariant, PTL DEF History!Spec

-----------------------------------------------------------------------------
(* The parts together.                                                     *)
LEMMA FilesSpec == LinkedSpec => Spec
<1>1. LinkedInit => Init
  BY DEF LinkedInit
<1>2. [LinkedNext]_linkedVars => [Next]_vars
  BY DEF LinkedNext, linkedVars, vars
<1>3. QED BY <1>1, <1>2, PTL DEF LinkedSpec, Spec

(* The rows, the jobs and the requests of both parts are of their kinds.   *)
THEOREM TypesHold == LinkedSpec => []PartsTypeOK
<1>1. HistoryIInv => History!TypeOK
  BY HistoryHolds, HistoryAssumption DEF HistoryBounds
<1>2. TypeOK /\ History!TypeOK => PartsTypeOK
  BY DEF PartsTypeOK
<1>3. QED BY <1>1, <1>2, FilesSpec, TypeCorrect, HistoryInvariant, PTL
=============================================================================
