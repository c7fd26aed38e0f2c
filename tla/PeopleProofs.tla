---------------------------- MODULE PeopleProofs ----------------------------
(***************************************************************************)
(* For any number of threads, accounts, links, rows, names, GitHub         *)
(* accounts, projects and things, months and offsets of any length: what   *)
(* the parts of People promise. Each part is proved on its own, with the   *)
(* inductive invariant it needs; what it is of the composition follows     *)
(* because a step of another part leaves it alone.                         *)
(***************************************************************************)
EXTENDS People, ConnectionsProofs

-----------------------------------------------------------------------------
(* Sessions: the password of an account.                                   *)

(* NoLink is no link.                                                      *)
AccountDistinct == Nobody \notin Links

(* Until two changes overlap there is one at a time, and the version it    *)
(* read is still the account's.                                            *)
AccountOneChange ==
    \A c, d \in Threads : (c \in Account!Changing /\ d \in Account!Changing) => (c = d /\ serving[c].ver = version)

(* What was read of the account, by a login or for a token, is not newer   *)
(* than the account, and is of its password if it is of its version.       *)
AccountReadBefore(read) == read.ver <= version /\ (read.ver = version => read.password = password)
AccountDated ==
    /\ \A token \in tokens : AccountReadBefore(token)
    /\ \A c \in Threads : Account!Is(c, "login") => AccountReadBefore(serving[c])

AccountApart == ~changed => AccountOneChange /\ AccountDated

(* A link that may still be used was made since links were last retired, a *)
(* used one before; the link a reset holds may still be used.              *)
AccountOutstanding(l) == links[l].status \in {"open", "expired"}
AccountEras ==
    /\ \A l \in Links : AccountOutstanding(l) => links[l].era = retirals
    /\ \A l \in Links : links[l].status = "used" => links[l].era < retirals
    /\ \A c \in Threads : Account!Is(c, "reset") => serving[c].link \in Links /\ AccountOutstanding(serving[c].link)

AccountIInv == Account!TypeOK /\ AccountApart /\ AccountEras /\ Account!OneLinkOfMany

(* A client's request is replaced, the others stay.                        *)
LEMMA AccountServes ==
    ASSUME Account!TypeOK, NEW c \in Threads, NEW request \in Account!Serving, Account!Serve(c, request)
    PROVE  /\ serving' \in [Threads -> Account!Serving] /\ serving'[c] = request
           /\ \A d \in Threads : d # c => serving'[d] = serving[d]
BY DEF Account!Serve, Account!TypeOK

LEMMA AccountFreeIsServing == Account!Free \in Account!Serving /\ Account!Free.op = "idle"
BY DEF Account!Free, Account!Serving

LEMMA AccountInitIInv == ASSUME Account!Init PROVE AccountIInv
<1>1. Account!TypeOK
  <2>1. links \in [Links -> Account!Link]
    BY DEF Account!Init, Account!Link
  <2>2. serving \in [Threads -> Account!Serving]
    BY AccountFreeIsServing DEF Account!Init
  <2>3. {password, version, retirals} \subseteq Nat
    BY DEF Account!Init
  <2>4. fresh \in BOOLEAN /\ changed \in BOOLEAN /\ tokens \subseteq Account!Token
    BY DEF Account!Init
  <2>5. QED BY <2>1, <2>2, <2>3, <2>4 DEF Account!TypeOK
<1>2. AccountApart /\ AccountEras /\ Account!OneLinkOfMany
  BY AccountFreeIsServing DEF Account!Init, AccountApart, AccountOneChange, AccountDated,
     Account!Changing, Account!Is, AccountEras, AccountOutstanding, Account!OneLinkOfMany
<1>3. QED BY <1>1, <1>2 DEF AccountIInv

(* The account, its tokens and its links stay, and so does whether changes *)
(* overlapped; a client comes to hold what it read just now, or nothing.   *)
LEMMA AccountQuietKeeps ==
    ASSUME AccountIInv, NEW c \in Threads, NEW request \in Account!Serving, Account!Serve(c, request),
           request.op \in {"idle", "login", "forgot"},
           request.op = "login" => request.ver = version /\ request.password = password,
           UNCHANGED <<password, version, links, retirals, changed>>, fresh' \in BOOLEAN,
           tokens' \subseteq Account!Token,
           ~changed => \A token \in tokens' \ tokens : AccountReadBefore(token)
    PROVE  AccountIInv'
<1>1. /\ serving' \in [Threads -> Account!Serving] /\ serving'[c] = request
      /\ \A d \in Threads : d # c => serving'[d] = serving[d]
  BY AccountServes DEF AccountIInv
<1>2. Account!TypeOK'
  BY <1>1 DEF AccountIInv, Account!TypeOK
<1>3. AccountApart'
  <2>1. ASSUME ~changed PROVE AccountOneChange'
    BY <1>1, <2>1 DEF AccountIInv, AccountApart, AccountOneChange, Account!Changing
  <2>2. ASSUME ~changed PROVE \A token \in tokens' : AccountReadBefore(token)'
    BY <2>2 DEF AccountIInv, AccountApart, AccountDated, AccountReadBefore
  <2>3. ASSUME ~changed, NEW d \in Threads, Account!Is(d, "login")' PROVE AccountReadBefore(serving[d])'
    <3>1. CASE d = c
      BY <1>1, <2>3, <3>1 DEF Account!Is, AccountReadBefore, AccountIInv, Account!TypeOK
    <3>2. CASE d # c
      BY <1>1, <2>3, <3>2 DEF Account!Is, AccountReadBefore, AccountIInv, AccountApart, AccountDated
    <3>3. QED BY <3>1, <3>2
  <2>4. QED BY <2>1, <2>2, <2>3 DEF AccountApart, AccountDated
<1>4. AccountEras' /\ Account!OneLinkOfMany'
  BY <1>1 DEF AccountIInv, AccountEras, AccountOutstanding, Account!OneLinkOfMany, Account!Is
<1>5. QED BY <1>2, <1>3, <1>4 DEF AccountIInv

LEMMA AccountLoginKeeps == ASSUME AccountIInv, NEW c \in Threads, Account!Login(c) PROVE AccountIInv'
<1> DEFINE request == [Account!Free EXCEPT !.op = "login", !.ver = version, !.password = password]
<1>1. request \in Account!Serving /\ request.op = "login" /\ request.ver = version /\ request.password = password
  BY DEF AccountIInv, Account!TypeOK, Account!Free, Account!Serving
<1>2. Account!Serve(c, request)
  BY DEF Account!Login
<1> HIDE DEF request
<1>3. QED BY <1>1, <1>2, AccountQuietKeeps DEF Account!Login, AccountIInv, Account!TypeOK

LEMMA AccountIssueTokenKeeps ==
    ASSUME AccountIInv, NEW c \in Threads, Account!IssueToken(c)
    PROVE AccountIInv'
<1> DEFINE token == [ver |-> serving[c].ver, password |-> serving[c].password]
<1>1. token \in Account!Token /\ tokens' = tokens \cup {token}
  BY DEF Account!IssueToken, AccountIInv, Account!TypeOK, Account!Serving, Account!Token
<1>2. ~changed => AccountReadBefore(token)
  BY DEF Account!IssueToken, AccountIInv, AccountApart, AccountDated, AccountReadBefore
<1> HIDE DEF token
<1>3. QED BY <1>1, <1>2, AccountFreeIsServing, AccountQuietKeeps DEF Account!IssueToken, AccountIInv,
             Account!TypeOK

LEMMA AccountAnswerKeeps == ASSUME AccountIInv, NEW c \in Threads, Account!Answer(c) PROVE AccountIInv'
<1> DEFINE token == [ver |-> version, password |-> password]
<1>1. token \in Account!Token /\ tokens' = tokens \cup {token}
  BY DEF Account!Answer, AccountIInv, Account!TypeOK, Account!Token
<1>2. AccountReadBefore(token)
  BY DEF AccountIInv, Account!TypeOK, AccountReadBefore
<1> HIDE DEF token
<1>3. QED BY <1>1, <1>2, AccountFreeIsServing, AccountQuietKeeps DEF Account!Answer, AccountIInv,
             Account!TypeOK

LEMMA AccountAskLinkKeeps ==
    ASSUME AccountIInv, NEW c \in Threads, Account!AskLink(c)
    PROVE AccountIInv'
<1> DEFINE request == [Account!Free EXCEPT !.op = "forgot"]
<1>1. request \in Account!Serving /\ request.op = "forgot" /\ Account!Serve(c, request)
  BY DEF Account!AskLink, Account!Free, Account!Serving
<1> HIDE DEF request
<1>2. QED BY <1>1, AccountQuietKeeps DEF Account!AskLink, AccountIInv, Account!TypeOK

LEMMA AccountDeadlockKeeps ==
    ASSUME AccountIInv, NEW c \in Threads, Account!Deadlock(c)
    PROVE AccountIInv'
BY AccountFreeIsServing, AccountQuietKeeps DEF Account!Deadlock, AccountIInv, Account!TypeOK

-----------------------------------------------------------------------------
(* A change begins: alone, or changes overlap from now on.                 *)
LEMMA AccountBeginKeeps ==
    ASSUME AccountIInv, NEW c \in Threads, NEW request \in Account!Serving, Account!Serve(c, request),
           request.op \in {"change", "reset"}, request.ver = version,
           request.op = "reset" => request.link \in Links /\ AccountOutstanding(request.link),
           changed' = (changed \/ Account!Changing # {}),
           UNCHANGED <<password, version, tokens, links, fresh, retirals>>
    PROVE  AccountIInv'
<1>1. /\ serving' \in [Threads -> Account!Serving] /\ serving'[c] = request
      /\ \A d \in Threads : d # c => serving'[d] = serving[d]
  BY AccountServes DEF AccountIInv
<1>2. Account!TypeOK'
  BY <1>1 DEF AccountIInv, Account!TypeOK
<1>3. ASSUME ~changed' PROVE AccountOneChange' /\ AccountDated'
  <2>1. ~changed /\ \A d \in Threads : d # c => d \notin Account!Changing'
    BY <1>1, <1>3 DEF Account!Changing
  <2>2. AccountOneChange'
    BY <1>1, <2>1 DEF AccountOneChange
  <2>3. AccountDated'
    BY <1>1, <2>1 DEF AccountIInv, AccountApart, AccountDated, AccountReadBefore, Account!Is
  <2>4. QED BY <2>2, <2>3
<1>4. AccountEras' /\ Account!OneLinkOfMany'
  BY <1>1 DEF AccountIInv, AccountEras, AccountOutstanding, Account!OneLinkOfMany, Account!Is
<1>5. QED BY <1>2, <1>3, <1>4 DEF AccountIInv, AccountApart

LEMMA AccountReadForChangeKeeps ==
    ASSUME AccountIInv, NEW c \in Threads, Account!ReadForChange(c)
    PROVE AccountIInv'
<1> DEFINE request == [Account!Free EXCEPT !.op = "change", !.ver = version]
<1>1. request \in Account!Serving /\ request.op = "change" /\ request.ver = version /\ Account!Serve(c, request)
  BY DEF Account!ReadForChange, AccountIInv, Account!TypeOK, Account!Free, Account!Serving
<1> HIDE DEF request
<1>2. QED BY <1>1, AccountBeginKeeps DEF Account!ReadForChange

LEMMA AccountLockLinkKeeps ==
    ASSUME AccountIInv, NEW c \in Threads, NEW l \in Links, Account!LockLink(c, l)
    PROVE AccountIInv'
<1> DEFINE request == [Account!Free EXCEPT !.op = "reset", !.ver = version, !.link = l]
<1>1. /\ request \in Account!Serving /\ request.op = "reset" /\ request.ver = version /\ request.link = l
      /\ Account!Serve(c, request)
  BY DEF Account!LockLink, AccountIInv, Account!TypeOK, Account!Free, Account!Serving
<1>2. AccountOutstanding(l)
  BY DEF Account!LockLink, Account!Usable, AccountOutstanding
<1> HIDE DEF request
<1>3. QED BY <1>1, <1>2, AccountBeginKeeps DEF Account!LockLink

(* A change is committed: without an overlap its version is a new one, so  *)
(* nothing read before is of it.                                           *)
LEMMA AccountCommitKeeps ==
    ASSUME AccountIInv, NEW c \in Threads, NEW request \in Account!Serving, Account!Serve(c, request),
           request.op \in {"idle", "answer"}, c \in Account!Changing,
           password' = password + 1, version' = serving[c].ver + 1,
           UNCHANGED <<tokens, links, fresh, retirals, changed>>
    PROVE  AccountIInv'
<1>1. /\ serving' \in [Threads -> Account!Serving] /\ serving'[c] = request
      /\ \A d \in Threads : d # c => serving'[d] = serving[d]
  BY AccountServes DEF AccountIInv
<1>2. Account!TypeOK'
  BY <1>1 DEF AccountIInv, Account!TypeOK, Account!Serving
<1>3. ASSUME ~changed PROVE AccountOneChange' /\ AccountDated'
  <2>1. \A d \in Threads : d \in Account!Changing => d = c
    BY <1>3 DEF AccountIInv, AccountApart, AccountOneChange
  <2>2. version' = version + 1
    BY <1>3 DEF AccountIInv, AccountApart, AccountOneChange
  <2>3. \A d \in Threads : d \notin Account!Changing'
    BY <1>1, <2>1 DEF Account!Changing
  <2>4. \A token \in tokens' : AccountReadBefore(token)'
    BY <1>3, <2>2 DEF AccountIInv, AccountApart, AccountDated, AccountReadBefore, Account!TypeOK,
       Account!Token
  <2>5. \A d \in Threads : Account!Is(d, "login")' => AccountReadBefore(serving[d])'
    BY <1>1, <1>3, <2>2 DEF AccountIInv, AccountApart, AccountDated, AccountReadBefore, Account!TypeOK,
       Account!Serving, Account!Is
  <2>6. QED BY <2>3, <2>4, <2>5 DEF AccountOneChange, AccountDated
<1>4. AccountEras' /\ Account!OneLinkOfMany'
  BY <1>1 DEF AccountIInv, AccountEras, AccountOutstanding, Account!OneLinkOfMany, Account!Is
<1>5. QED BY <1>2, <1>3, <1>4 DEF AccountIInv, AccountApart

LEMMA AccountChangeKeeps == ASSUME AccountIInv, NEW c \in Threads, Account!Change(c) PROVE AccountIInv'
<1> DEFINE request == [Account!Free EXCEPT !.op = "answer"]
<1>1. request \in Account!Serving /\ request.op = "answer" /\ Account!Serve(c, request)
  BY DEF Account!Change, Account!Free, Account!Serving
<1> HIDE DEF request
<1>2. QED BY <1>1, AccountCommitKeeps DEF Account!Change, Account!NextVersion, Account!Changing,
             Account!Is

LEMMA AccountResetKeeps == ASSUME AccountIInv, NEW c \in Threads, Account!Reset(c) PROVE AccountIInv'
BY AccountFreeIsServing, AccountCommitKeeps DEF Account!Reset, Account!NextVersion, Account!Changing,
   Account!Is

-----------------------------------------------------------------------------
(* A new link: nothing but the links change, and only that one.            *)
LEMMA AccountMakeLinkKeeps ==
    ASSUME AccountIInv, NEW c \in Threads, Account!MakeLink(c)
    PROVE AccountIInv'
<1>1. /\ serving' \in [Threads -> Account!Serving] /\ serving'[c] = Account!Free
      /\ \A d \in Threads : d # c => serving'[d] = serving[d]
  BY AccountFreeIsServing, AccountServes DEF Account!MakeLink, AccountIInv
<1>2. PICK l \in Links :
        links[l].status = "none" /\ links' = [links EXCEPT ![l] = [status |-> "open", era |-> retirals]]
  BY DEF Account!MakeLink
<1>3. /\ links'[l] = [status |-> "open", era |-> retirals]
      /\ \A m \in Links : m # l => links'[m] = links[m]
      /\ UNCHANGED <<password, version, tokens, retirals, changed>>
  BY <1>2 DEF Account!MakeLink, AccountIInv, Account!TypeOK
<1>4. Account!TypeOK'
  BY <1>1, <1>2 DEF Account!MakeLink, AccountIInv, Account!TypeOK, Account!Link
<1>5. AccountApart'
  BY <1>1, <1>3, AccountFreeIsServing DEF AccountIInv, AccountApart, AccountOneChange,
     Account!Changing, AccountDated, AccountReadBefore, Account!Is
<1>6. AccountEras'
  BY <1>1, <1>2, <1>3, AccountFreeIsServing DEF AccountIInv, AccountEras, AccountOutstanding, Account!Is
<1>7. Account!OneLinkOfMany'
  BY <1>3 DEF AccountIInv, Account!OneLinkOfMany
<1>8. QED BY <1>4, <1>5, <1>6, <1>7 DEF AccountIInv

LEMMA AccountExpireKeeps == ASSUME AccountIInv, NEW l \in Links, Account!Expire(l) PROVE AccountIInv'
<1>1. /\ links' = [links EXCEPT ![l].status = "expired"] /\ AccountOutstanding(l)
      /\ UNCHANGED <<password, version, tokens, fresh, retirals, changed, serving>>
  BY DEF Account!Expire, AccountOutstanding
<1>2. /\ links'[l].status = "expired" /\ links'[l].era = links[l].era
      /\ \A m \in Links : m # l => links'[m] = links[m]
  BY <1>1 DEF AccountIInv, Account!TypeOK, Account!Link
<1>3. Account!TypeOK'
  BY <1>1 DEF AccountIInv, Account!TypeOK, Account!Link
<1>4. AccountApart'
  BY <1>1 DEF AccountIInv, AccountApart, AccountOneChange, Account!Changing, AccountDated,
     AccountReadBefore, Account!Is
<1>5. AccountEras' /\ Account!OneLinkOfMany'
  BY <1>1, <1>2 DEF AccountIInv, AccountEras, AccountOutstanding, Account!Is, Account!OneLinkOfMany
<1>6. QED BY <1>3, <1>4, <1>5 DEF AccountIInv

(* The links are retired when no other request holds one: those used       *)
(* before are of an older era than the one that is used now.               *)
LEMMA AccountRetireLinksKeeps ==
    ASSUME AccountDistinct, AccountIInv, NEW c \in Threads, Account!RetireLinks(c)
    PROVE AccountIInv'
<1> DEFINE request == [serving[c] EXCEPT !.op = "resetting"]
           k == serving[c].link
<1>1. /\ request \in Account!Serving /\ request.op = "resetting" /\ request.ver = serving[c].ver
      /\ Account!Serve(c, request) /\ k \in Links /\ AccountOutstanding(k)
  BY DEF Account!RetireLinks, AccountIInv, Account!TypeOK, Account!Serving, AccountEras
<1> HIDE DEF request
<1>2. /\ serving' \in [Threads -> Account!Serving] /\ serving'[c] = request
      /\ \A d \in Threads : d # c => serving'[d] = serving[d]
  BY <1>1, AccountServes DEF AccountIInv
<1>3. /\ links' = Account!Retired(c) /\ retirals' = retirals + 1
      /\ UNCHANGED <<password, version, tokens, fresh, changed>>
  BY DEF Account!RetireLinks
<1>4. /\ \A l \in Links : links'[l] \in Account!Link /\ links'[l].era = links[l].era
      /\ links'[k].status = "used"
      /\ \A l \in Links : l # k => ~AccountOutstanding(l)' /\ (links'[l].status = "used" => links[l].status = "used")
      /\ links' \in [Links -> Account!Link]
  BY <1>1, <1>3 DEF Account!Retired, AccountOutstanding, AccountIInv, Account!TypeOK, Account!Link
<1>5. Account!TypeOK'
  BY <1>2, <1>3, <1>4 DEF AccountIInv, Account!TypeOK
<1>6. AccountApart'
  <2>1. c \in Account!Changing /\ Account!Changing' = Account!Changing
    BY <1>1, <1>2 DEF Account!RetireLinks, Account!Changing, Account!Is
  <2>2. ASSUME ~changed PROVE AccountOneChange'
    BY <1>1, <1>2, <1>3, <2>1, <2>2 DEF AccountIInv, AccountApart, AccountOneChange
  <2>3. ASSUME ~changed PROVE AccountDated'
    BY <1>1, <1>2, <1>3, <2>3 DEF AccountIInv, AccountApart, AccountDated, AccountReadBefore, Account!Is
  <2>4. QED BY <1>3, <2>2, <2>3 DEF AccountApart
<1>7. AccountEras'
  <2>1. \A l \in Links : ~AccountOutstanding(l)'
    BY <1>4 DEF AccountOutstanding
  <2>2. \A l \in Links : links[l].status = "used" \/ l = k => links[l].era < retirals + 1
    BY <1>1 DEF AccountIInv, Account!TypeOK, AccountEras, Account!Link
  <2>3. \A l \in Links : links'[l].status = "used" => links'[l].era < retirals'
    BY <1>3, <1>4, <2>2
  <2>4. \A d \in Threads : ~Account!Is(d, "reset")'
    BY <1>1, <1>2 DEF Account!RetireLinks, Account!OthersHold, AccountDistinct, Account!Is,
       AccountIInv, AccountEras
  <2>5. QED BY <2>1, <2>3, <2>4 DEF AccountEras
<1>8. Account!OneLinkOfMany'
  <2>1. links[k].era = retirals /\ \A l \in Links : links[l].status = "used" => links[l].era # retirals
    BY <1>1 DEF AccountIInv, Account!TypeOK, AccountEras, Account!Link
  <2>2. QED BY <1>4, <2>1 DEF AccountIInv, Account!OneLinkOfMany
<1>9. QED BY <1>5, <1>6, <1>7, <1>8 DEF AccountIInv

-----------------------------------------------------------------------------
LEMMA AccountNextIInv ==
    ASSUME AccountDistinct, AccountIInv, [Account!Next]_Account!vars
    PROVE AccountIInv'
<1>1. CASE Account!CoolDown
  BY <1>1 DEF Account!CoolDown, AccountIInv, Account!TypeOK, AccountApart, AccountOneChange,
     Account!Changing, AccountDated, AccountReadBefore, Account!Is,
              AccountEras, AccountOutstanding, Account!OneLinkOfMany
<1>2. CASE UNCHANGED Account!vars
  BY <1>2 DEF Account!vars, AccountIInv, Account!TypeOK, AccountApart, AccountOneChange,
     Account!Changing, AccountDated, AccountReadBefore, Account!Is,
              AccountEras, AccountOutstanding, Account!OneLinkOfMany
<1>3. QED
  BY <1>1, <1>2, AccountLoginKeeps, AccountIssueTokenKeeps, AccountReadForChangeKeeps,
     AccountChangeKeeps, AccountAnswerKeeps, AccountAskLinkKeeps,
     AccountMakeLinkKeeps, AccountRetireLinksKeeps, AccountResetKeeps, AccountDeadlockKeeps,
     AccountLockLinkKeeps, AccountExpireKeeps DEF Account!Next

(* What is promised follows.                                               *)
LEMMA AccountHolds == ASSUME AccountIInv PROVE Account!PasswordsHold
<1>1. Account!OldTokensRejectedApart
  BY DEF AccountIInv, AccountApart, AccountDated, AccountReadBefore, Account!OldTokensRejectedApart,
     Account!OldTokensRejected, Account!Accepted
<1>2. QED BY <1>1 DEF AccountIInv, Account!PasswordsHold

(* A behaviour of the composition is one of Sessions, with steps that      *)
(* leave it alone.                                                         *)
LEMMA AccountSpec == PeopleSpec => Account!Spec
<1>1. PeopleInit => Account!Init
  BY DEF PeopleInit
<1>2. [PeopleNext]_peopleVars => [Account!Next]_Account!vars
  BY DEF PeopleNext, peopleVars, accountVars, Account!vars
<1>3. QED BY <1>1, <1>2, PTL DEF PeopleSpec, Account!Spec

LEMMA AccountInvariant == PeopleSpec => []AccountIInv
<1>1. Account!Init => AccountIInv
  BY AccountInitIInv
<1>2. AccountIInv /\ [Account!Next]_Account!vars => AccountIInv'
  BY AccountNextIInv, NobodyAssumption DEF AccountDistinct
<1>3. QED BY <1>1, <1>2, AccountSpec, PTL DEF Account!Spec

(* Whatever logins, changes and resets of one account overlap: a token of  *)
(* an old password is rejected unless two changes met, and of links that   *)
(* were outstanding together one is used at most.                          *)
THEOREM PasswordsHoldAlways == PeopleSpec => []PasswordsHold
<1>1. AccountIInv => PasswordsHold
  BY AccountHolds DEF PasswordsHold
<1>2. QED BY <1>1, AccountInvariant, PTL

-----------------------------------------------------------------------------
(* Wraps: the monthly wraps of a user.                                     *)

(* Days are counted, a month has some, and NoWrap is no wrap.              *)
MonthCalendar ==
    /\ Days \in Nat \ {0} /\ LastDay \in Nat /\ MaxOthers \in Nat
    /\ Zones # {} /\ Offset \in [Zones -> Int]
    /\ NoWrap \notin Month!Wrap

(* The figures of month m, as a run has counted or a row has stored them:  *)
(* the month was over by then, and they are of it and of all of it.        *)
MonthFair(figures, m) ==
         /\ Month!EndOf(m, figures.zone) <= now
         /\ \A e \in figures.counted : thing[e].at \in {"there", "gone"} /\ thing[e].since \in Month!Within(m, figures.zone)
         /\ \A e \in Things :
                (/\ thing[e].at = "there" /\ thing[e].since \in Month!Within(m, figures.zone)
                 /\ thing[e].done < Month!EndOf(m, figures.zone)) => e \in figures.counted

MonthAllFair ==
    /\ \A m \in Month!Stored : MonthFair(wraps[m], m)
    /\ \A t \in Threads : Month!Is(t, "counted") => MonthFair(turn[t], turn[t].month)

(* A month no two requests shared at once is shared by one at most, which  *)
(* finds it not shared.                                                    *)
MonthSharing(t, m) == Month!Is(t, "share") /\ turn[t].month = m
MonthOneShares ==
    /\ \A t \in Threads, m \in Month!Months : MonthSharing(t, m) => m \in Month!Stored
    /\ \A t \in Threads, m \in Month!Months \ twice :
           MonthSharing(t, m) => ~wraps[m].shared /\ \A u \in Threads : MonthSharing(u, m) => u = t

MonthIInv == Month!TypeOK /\ MonthAllFair /\ MonthOneShares /\ Month!SharedOnce

-----------------------------------------------------------------------------
(* Months.                                                                 *)

LEMMA MonthDivBounds ==
    ASSUME NEW i \in Int, NEW d \in Nat \ {0}
    PROVE  i \div d \in Int /\ (i \div d) * d <= i /\ i < (i \div d) * d + d
BY Z3

LEMMA MonthMultiples ==
    ASSUME NEW d \in Nat \ {0}, NEW a \in Int, NEW b \in Int, a < b
    PROVE  /\ a * d \in Int /\ b * d \in Int /\ a * d + d <= b * d
<1>1. PICK k \in Nat : b = a + 1 + k
  <2>1. b - a - 1 \in Nat /\ b = a + 1 + (b - a - 1)
    OBVIOUS
  <2>2. QED BY <2>1
<1>2. k * d >= 0 /\ a * d \in Int /\ b * d \in Int /\ k * d \in Int
  OBVIOUS
<1>3. b * d = a * d + d + k * d
  BY <1>1
<1>4. QED BY <1>2, <1>3

LEMMA MonthMonthsAreInts == ASSUME MonthCalendar PROVE Month!Months \subseteq Int
BY MonthDivBounds DEF Month!Months, MonthCalendar

(* A day is within the month it falls in, and in no other.                 *)
LEMMA MonthWithinIsMonthOf ==
    ASSUME MonthCalendar, NEW z \in Zones, NEW m \in Int, NEW i \in 0 .. LastDay
    PROVE  i \in Month!Within(m, z) <=> Month!MonthOf(i, z) = m
<1> DEFINE x == i + Offset[z]
           q == x \div Days
<1>1. x \in Int /\ Days \in Nat \ {0} /\ Offset[z] \in Int /\ i \in Int
  BY DEF MonthCalendar
<1>2. q \in Int /\ q * Days <= x /\ x < q * Days + Days /\ q * Days \in Int
  <2> HIDE DEF x
  <2>1. q \in Int /\ q * Days <= x /\ x < q * Days + Days
    BY <1>1, MonthDivBounds
  <2> HIDE DEF q
  <2>2. QED BY <1>1, <2>1
<1>3. m * Days \in Int /\ (m + 1) * Days = m * Days + Days
  BY <1>1
<1>4. (m * Days - Offset[z] <= i /\ i < (m + 1) * Days - Offset[z]) <=> (m * Days <= x /\ x < m * Days + Days)
  BY <1>1, <1>3
<1>5. q < m => q * Days + Days <= m * Days
  <2> HIDE DEF q
  <2>1. QED BY <1>1, <1>2, MonthMultiples
<1>6. m < q => m * Days + Days <= q * Days
  <2> HIDE DEF q
  <2>1. QED BY <1>1, <1>2, MonthMultiples
<1>7. (m * Days <= x /\ x < m * Days + Days) <=> q = m
  <2> HIDE DEF q, x
  <2>1. QED BY <1>1, <1>2, <1>3, <1>5, <1>6
<1>8. i \in Month!Within(m, z) <=> (m * Days - Offset[z] <= i /\ i < (m + 1) * Days - Offset[z])
  BY DEF Month!Within
<1>9. QED BY <1>4, <1>7, <1>8 DEF Month!MonthOf

(* A month that is over has ended.                                         *)
LEMMA MonthOverHasEnded ==
    ASSUME MonthCalendar, NEW z \in Zones, NEW m \in Int, now \in 0 .. LastDay, Month!Over(m, z)
    PROVE  Month!EndOf(m, z) <= now
<1> DEFINE x == now + Offset[z]
           q == x \div Days
<1>1. x \in Int /\ Days \in Nat \ {0} /\ Offset[z] \in Int /\ now \in Int
  BY DEF MonthCalendar
<1>2. q \in Int /\ q * Days <= x /\ m < q
  <2>1. m < q
    BY DEF Month!Over, Month!MonthOf
  <2> HIDE DEF x
  <2>2. q \in Int /\ q * Days <= x
    BY <1>1, MonthDivBounds
  <2>3. QED BY <2>1, <2>2
<1>3. m * Days \in Int /\ (m + 1) * Days = m * Days + Days
  BY <1>1
<1>4. m * Days + Days <= q * Days /\ q * Days \in Int
  <2> HIDE DEF q
  <2>1. QED BY <1>1, <1>2, MonthMultiples
<1>5. m * Days + Days <= x
  <2> HIDE DEF q, x
  <2>1. QED BY <1>1, <1>2, <1>3, <1>4
<1>6. QED BY <1>1, <1>3, <1>5 DEF Month!EndOf

LEMMA MonthEndsAreInts ==
    ASSUME MonthCalendar, NEW z \in Zones, NEW m \in Int
    PROVE  Month!EndOf(m, z) \in Int
<1>1. Days \in Int /\ Offset[z] \in Int
  BY DEF MonthCalendar
<1>2. (m + 1) * Days \in Int
  BY <1>1
<1>3. QED BY <1>1, <1>2 DEF Month!EndOf

-----------------------------------------------------------------------------
(* What happens meanwhile.                                                 *)

MonthTurns == [at : {"idle", "loaded", "counted", "share"}, zone : Zones, month : Month!Months,
               counted : SUBSET Things]
MonthRecord == [at : {"none", "begun", "there", "gone"}, since : 0 .. LastDay, done : 0 .. LastDay]

LEMMA MonthIdleIsTurn == ASSUME MonthCalendar PROVE Month!Idle \in MonthTurns /\ Month!Idle.at = "idle"
<1>1. (CHOOSE z \in Zones : TRUE) \in Zones
  BY DEF MonthCalendar
<1>2. 0 \in Month!Months
  <2>1. /\ LastDay \in Nat /\ Days \in Nat \ {0}
        /\ LastDay \div Days \in Int /\ (LastDay \div Days) * Days + Days > LastDay
    BY MonthDivBounds DEF MonthCalendar
  <2>2. ASSUME NEW q \in Int, q < -1 PROVE q * Days + Days <= 0
    <3>1. q * Days + Days <= -1 * Days
      BY <2>1, <2>2, MonthMultiples
    <3>2. QED BY <2>1, <3>1, <2>2
  <2>3. LastDay \div Days >= -1
    BY <2>1, <2>2
  <2>4. QED BY <2>1, <2>3 DEF Month!Months
<1>3. QED BY <1>1, <1>2 DEF Month!Idle, MonthTurns

(* A thread's turn is replaced, the others stay.                           *)
LEMMA MonthTurnsTo ==
    ASSUME Month!TypeOK, NEW t \in Threads, NEW next \in MonthTurns, Month!Turn(t, next)
    PROVE  /\ turn' \in [Threads -> MonthTurns] /\ turn'[t] = next
           /\ \A u \in Threads : u # t => turn'[u] = turn[u]
           /\ UNCHANGED <<now, zone, thing>>
BY DEF Month!Turn, Month!TypeOK, MonthTurns

(* Time passes and what is counted begins, comes and goes: no figures of a *)
(* month that is over become wrong by it.                                  *)
MonthEvolves(e) ==
    \/ thing'[e] = thing[e]
    \/ thing[e].at = "none" /\ thing'[e].at = "begun"
    \/ thing[e].at = "begun" /\ thing'[e].at = "there" /\ thing'[e].done = now
    \/ thing[e].at = "there" /\ thing'[e].at = "gone" /\ thing'[e].since = thing[e].since

LEMMA MonthWorldKeeps ==
    ASSUME MonthCalendar, MonthIInv, UNCHANGED <<wraps, others, twice, turn>>,
           zone' \in Zones, now' \in 0 .. LastDay, now <= now',
           thing' \in [Things -> MonthRecord], \A e \in Things : MonthEvolves(e)
    PROVE  MonthIInv'
<1>1. Month!TypeOK'
  BY DEF MonthIInv, Month!TypeOK, MonthRecord
<1>2. ASSUME NEW m \in Int, NEW z \in Zones, NEW counted \in SUBSET Things, Month!EndOf(m, z) <= now,
             \A e \in counted : thing[e].at \in {"there", "gone"} /\ thing[e].since \in Month!Within(m, z),
             \A e \in Things :
                 (/\ thing[e].at = "there" /\ thing[e].since \in Month!Within(m, z)
                  /\ thing[e].done < Month!EndOf(m, z)) => e \in counted
      PROVE  /\ Month!EndOf(m, z) <= now'
             /\ \A e \in counted : thing'[e].at \in {"there", "gone"} /\ thing'[e].since \in Month!Within(m, z)
             /\ \A e \in Things :
                    (/\ thing'[e].at = "there" /\ thing'[e].since \in Month!Within(m, z)
                     /\ thing'[e].done < Month!EndOf(m, z)) => e \in counted
  <2>1. Month!EndOf(m, z) \in Int /\ now \in Int /\ now' \in Int
    BY MonthEndsAreInts DEF MonthIInv, Month!TypeOK
  <2>2. Month!EndOf(m, z) <= now'
    BY <1>2, <2>1
  <2>3. \A e \in counted : thing'[e].at \in {"there", "gone"} /\ thing'[e].since \in Month!Within(m, z)
    BY <1>2 DEF MonthEvolves
  <2>4. \A e \in Things : thing[e].at = "begun" /\ thing'[e].done = now => ~(thing'[e].done < Month!EndOf(m, z))
    BY <1>2, <2>1
  <2>5. \A e \in Things :
            (/\ thing'[e].at = "there" /\ thing'[e].since \in Month!Within(m, z)
             /\ thing'[e].done < Month!EndOf(m, z)) => e \in counted
    BY <1>2, <2>4 DEF MonthEvolves
  <2>6. QED BY <2>2, <2>3, <2>5
<1>3. ASSUME NEW m \in Month!Stored' PROVE MonthFair(wraps[m], m)'
  <2>1. /\ m \in Month!Stored /\ m \in Int /\ wraps'[m] = wraps[m]
        /\ wraps[m].zone \in Zones /\ wraps[m].counted \in SUBSET Things
    BY <1>3, MonthMonthsAreInts DEF Month!Stored, MonthIInv, Month!TypeOK, Month!Wrap
  <2>2. MonthFair(wraps[m], m)
    BY <2>1 DEF MonthIInv, MonthAllFair
  <2>3. /\ Month!EndOf(m, wraps[m].zone) <= now'
        /\ \A e \in wraps[m].counted :
               thing'[e].at \in {"there", "gone"} /\ thing'[e].since \in Month!Within(m, wraps[m].zone)
        /\ \A e \in Things :
               (/\ thing'[e].at = "there" /\ thing'[e].since \in Month!Within(m, wraps[m].zone)
                /\ thing'[e].done < Month!EndOf(m, wraps[m].zone)) => e \in wraps[m].counted
    BY <1>2, <2>1, <2>2 DEF MonthFair
  <2>4. QED BY <2>1, <2>3 DEF MonthFair, Month!Within, Month!EndOf
<1>4. ASSUME NEW t \in Threads, Month!Is(t, "counted")' PROVE MonthFair(turn[t], turn[t].month)'
  <2>1. /\ Month!Is(t, "counted") /\ turn'[t] = turn[t] /\ turn[t].month \in Int
        /\ turn[t].zone \in Zones /\ turn[t].counted \in SUBSET Things
    BY <1>4, MonthMonthsAreInts DEF Month!Is, MonthIInv, Month!TypeOK
  <2>2. MonthFair(turn[t], turn[t].month)
    BY <2>1 DEF MonthIInv, MonthAllFair
  <2>3. /\ Month!EndOf(turn[t].month, turn[t].zone) <= now'
        /\ \A e \in turn[t].counted :
               thing'[e].at \in {"there", "gone"} /\ thing'[e].since \in Month!Within(turn[t].month, turn[t].zone)
        /\ \A e \in Things :
               (/\ thing'[e].at = "there" /\ thing'[e].since \in Month!Within(turn[t].month, turn[t].zone)
                /\ thing'[e].done < Month!EndOf(turn[t].month, turn[t].zone)) => e \in turn[t].counted
    BY <1>2, <2>1, <2>2 DEF MonthFair
  <2>4. QED BY <2>1, <2>3 DEF MonthFair, Month!Within, Month!EndOf
<1>5. MonthOneShares' /\ Month!SharedOnce'
  BY DEF MonthIInv, MonthOneShares, MonthSharing, Month!Stored, Month!Is, Month!SharedOnce
<1>6. QED BY <1>1, <1>3, <1>4, <1>5 DEF MonthIInv, MonthAllFair

LEMMA MonthTickKeeps == ASSUME MonthCalendar, MonthIInv, Month!Tick PROVE MonthIInv'
<1>1. now \in 0 .. LastDay /\ LastDay \in Nat /\ now' = now + 1 /\ now < LastDay
  BY DEF Month!Tick, MonthIInv, Month!TypeOK, MonthCalendar
<1>2. now' \in 0 .. LastDay /\ now <= now'
  BY <1>1
<1>3. QED BY <1>2, MonthWorldKeeps DEF Month!Tick, MonthIInv, Month!TypeOK, MonthRecord, MonthEvolves

LEMMA MonthMoveKeeps == ASSUME MonthCalendar, MonthIInv, NEW z \in Zones, Month!Move(z) PROVE MonthIInv'
<1>1. now' = now /\ now \in 0 .. LastDay /\ now <= now'
  BY DEF Month!Move, MonthIInv, Month!TypeOK, MonthCalendar
<1>2. QED BY <1>1, MonthWorldKeeps DEF Month!Move, MonthIInv, Month!TypeOK, MonthRecord, MonthEvolves

LEMMA MonthRowKeeps ==
    ASSUME MonthCalendar, MonthIInv, NEW e \in Things, NEW record \in MonthRecord, Month!Row(e, record),
           \/ thing[e].at = "none" /\ record.at = "begun"
           \/ thing[e].at = "begun" /\ record.at = "there" /\ record.done = now
           \/ thing[e].at = "there" /\ record.at = "gone" /\ record.since = thing[e].since
    PROVE  MonthIInv'
<1>1. /\ thing' \in [Things -> MonthRecord] /\ thing'[e] = record
      /\ \A f \in Things : f # e => thing'[f] = thing[f]
  BY DEF Month!Row, MonthIInv, Month!TypeOK, MonthRecord
<1>2. now' = now /\ now \in 0 .. LastDay /\ now <= now' /\ zone' \in Zones
  BY DEF Month!Row, MonthIInv, Month!TypeOK, MonthCalendar
<1>3. QED BY <1>1, <1>2, MonthWorldKeeps DEF Month!Row, MonthEvolves

LEMMA MonthThingsKeep ==
    ASSUME MonthCalendar, MonthIInv, NEW e \in Things, Month!Begin(e) \/ Month!Happen(e) \/ Month!Undo(e) PROVE MonthIInv'
<1>1. thing[e] \in MonthRecord /\ now \in 0 .. LastDay /\ 0 \in 0 .. LastDay
  BY DEF MonthIInv, Month!TypeOK, MonthRecord, MonthCalendar
<1>2. CASE Month!Begin(e)
  <2>1. [at |-> "begun", since |-> now, done |-> 0] \in MonthRecord
    BY <1>1 DEF MonthRecord
  <2>2. QED BY <1>2, <2>1, MonthRowKeeps DEF Month!Begin
<1>3. CASE Month!Happen(e)
  <2> DEFINE record == [thing[e] EXCEPT !.at = "there", !.done = now]
  <2>1. record \in MonthRecord /\ record.at = "there" /\ record.done = now
    BY <1>1 DEF MonthRecord
  <2>2. Month!Row(e, record) /\ thing[e].at = "begun"
    BY <1>3 DEF Month!Happen
  <2> HIDE DEF record
  <2>3. QED BY <2>1, <2>2, MonthRowKeeps
<1>4. CASE Month!Undo(e)
  <2> DEFINE record == [thing[e] EXCEPT !.at = "gone", !.done = 0]
  <2>1. record \in MonthRecord /\ record.at = "gone" /\ record.since = thing[e].since
    BY <1>1 DEF MonthRecord
  <2>2. Month!Row(e, record) /\ thing[e].at = "there"
    BY <1>4 DEF Month!Undo
  <2> HIDE DEF record
  <2>3. QED BY <2>1, <2>2, MonthRowKeeps
<1>5. QED BY <1>2, <1>3, <1>4

-----------------------------------------------------------------------------
(* The job.                                                                *)

(* Rows and posts stay, and a thread goes on to what is not a share.       *)
LEMMA MonthJobKeeps ==
    ASSUME MonthCalendar, MonthIInv, NEW t \in Threads, NEW next \in MonthTurns, Month!Turn(t, next), next.at # "share",
           next.at = "counted" => MonthFair(next, next.month),
           UNCHANGED <<wraps, others, twice>>
    PROVE  MonthIInv'
<1>1. /\ turn' \in [Threads -> MonthTurns] /\ turn'[t] = next
      /\ \A u \in Threads : u # t => turn'[u] = turn[u]
      /\ UNCHANGED <<now, zone, thing>>
  BY MonthTurnsTo DEF MonthIInv
<1>2. Month!TypeOK'
  BY <1>1 DEF MonthIInv, Month!TypeOK, MonthTurns
<1>3. \A m \in Month!Stored' : MonthFair(wraps[m], m)'
  BY <1>1 DEF MonthIInv, MonthAllFair, Month!Stored, MonthFair, Month!Within, Month!EndOf
<1>4. ASSUME NEW u \in Threads, Month!Is(u, "counted")' PROVE MonthFair(turn[u], turn[u].month)'
  <2>1. CASE u = t
    BY <1>1, <1>4, <2>1 DEF Month!Is, MonthFair, Month!Within, Month!EndOf
  <2>2. CASE u # t
    BY <1>1, <1>4, <2>2 DEF Month!Is, MonthFair, Month!Within, Month!EndOf, MonthIInv, MonthAllFair
  <2>3. QED BY <2>1, <2>2
<1>5. \A u \in Threads, m \in Month!Months : MonthSharing(u, m)' => MonthSharing(u, m)
  BY <1>1 DEF MonthSharing, Month!Is
<1>6. MonthOneShares' /\ Month!SharedOnce'
  BY <1>5 DEF MonthIInv, MonthOneShares, Month!Stored, Month!SharedOnce
<1>7. QED BY <1>2, <1>3, <1>4, <1>6 DEF MonthIInv, MonthAllFair

LEMMA MonthLoadKeeps ==
    ASSUME MonthCalendar, MonthIInv, NEW t \in Threads, Month!Load(t)
    PROVE MonthIInv'
<1> DEFINE next == [Month!Idle EXCEPT !.at = "loaded", !.zone = zone]
<1>1. next \in MonthTurns /\ next.at = "loaded"
  BY MonthIdleIsTurn DEF MonthTurns, MonthIInv, Month!TypeOK
<1>2. Month!Turn(t, next) /\ UNCHANGED <<wraps, others, twice>>
  BY DEF Month!Load
<1> HIDE DEF next
<1>3. QED BY <1>1, <1>2, MonthJobKeeps

LEMMA MonthFailKeeps ==
    ASSUME MonthCalendar, MonthIInv, NEW t \in Threads, Month!Fail(t)
    PROVE MonthIInv'
BY MonthIdleIsTurn, MonthJobKeeps DEF Month!Fail

(* A month that is over is counted whole.                                  *)
LEMMA MonthCountKeeps ==
    ASSUME MonthCalendar, MonthIInv, NEW t \in Threads, NEW m \in Month!Months, Month!Count(t, m)
    PROVE MonthIInv'
<1> DEFINE z == turn[t].zone
           next == [at |-> "counted", zone |-> z, month |-> m, counted |-> Month!Counted(m, z)]
<1>1. z \in Zones /\ Month!Counted(m, z) \in SUBSET Things /\ m \in Int /\ now \in 0 .. LastDay
  BY MonthMonthsAreInts DEF MonthIInv, Month!TypeOK, Month!Counted
<1>2. next \in MonthTurns /\ next.month = m
  BY <1>1 DEF MonthTurns
<1>3. Month!EndOf(m, z) <= now
  BY <1>1, MonthOverHasEnded DEF Month!Count
<1>4. MonthFair(next, m)
  BY <1>3 DEF MonthFair, Month!Counted
<1>5. Month!Turn(t, next) /\ UNCHANGED <<wraps, others, twice>> /\ next.at = "counted"
  BY DEF Month!Count
<1> HIDE DEF next
<1>6. QED BY <1>2, <1>4, <1>5, MonthJobKeeps

LEMMA MonthStoreKeeps ==
    ASSUME MonthCalendar, MonthIInv, NEW t \in Threads, Month!Store(t)
    PROVE MonthIInv'
<1> DEFINE m == turn[t].month
           figures == [zone |-> turn[t].zone, counted |-> turn[t].counted, shared |-> FALSE]
<1>1. CASE wraps[m] # NoWrap
  BY <1>1, MonthIdleIsTurn, MonthJobKeeps DEF Month!Store
<1>2. CASE wraps[m] = NoWrap
  <2>1. /\ turn' \in [Threads -> MonthTurns] /\ turn'[t] = Month!Idle
        /\ \A u \in Threads : u # t => turn'[u] = turn[u]
        /\ UNCHANGED <<now, zone, thing, others, twice>>
    BY MonthIdleIsTurn, MonthTurnsTo DEF Month!Store, MonthIInv
  <2>2. figures \in Month!Wrap /\ m \in Month!Months
    BY DEF MonthIInv, Month!TypeOK, Month!Wrap
  <2>3. /\ wraps' = [wraps EXCEPT ![m] = figures]
        /\ MonthFair(turn[t], m)
    BY <1>2 DEF Month!Store, MonthIInv, MonthAllFair
  <2>4. MonthFair(figures, m)
    BY <2>3 DEF MonthFair
  <2> HIDE DEF figures, m
  <2>5. /\ wraps'[m] = figures /\ wraps' \in [Month!Months -> Month!Wrap \cup {NoWrap}]
        /\ \A n \in Month!Months : n # m => wraps'[n] = wraps[n]
    BY <2>2, <2>3 DEF MonthIInv, Month!TypeOK
  <2>6. Month!TypeOK'
    BY <2>1, <2>5 DEF MonthIInv, Month!TypeOK, MonthTurns
  <2>7. ASSUME NEW n \in Month!Stored' PROVE MonthFair(wraps[n], n)'
    <3>1. CASE n = m
      BY <2>1, <2>4, <2>5, <3>1 DEF MonthFair, Month!Within, Month!EndOf
    <3>2. CASE n # m
      BY <2>1, <2>5, <2>7, <3>2 DEF Month!Stored, MonthFair, Month!Within, Month!EndOf, MonthIInv,
         MonthAllFair
    <3>3. QED BY <3>1, <3>2
  <2>8. ASSUME NEW u \in Threads, Month!Is(u, "counted")' PROVE MonthFair(turn[u], turn[u].month)'
    BY <2>1, <2>8, MonthIdleIsTurn DEF Month!Is, MonthFair, Month!Within, Month!EndOf, MonthIInv,
       MonthAllFair
  <2>9. \A u \in Threads, n \in Month!Months : MonthSharing(u, n)' => MonthSharing(u, n) /\ n # m
    BY <1>2, <2>1, MonthIdleIsTurn DEF MonthSharing, Month!Is, MonthIInv, MonthOneShares, Month!Stored,
       m
  <2>10. MonthOneShares' /\ Month!SharedOnce'
    BY <2>1, <2>5, <2>9 DEF MonthIInv, MonthOneShares, Month!Stored, Month!SharedOnce
  <2>11. QED BY <2>6, <2>7, <2>8, <2>10 DEF MonthIInv, MonthAllFair
<1>3. QED BY <1>1, <1>2

-----------------------------------------------------------------------------
(* Sharing.                                                                *)

(* Rows change in nothing but whether they are shared.                     *)
MonthSameFigures ==
    \A m \in Month!Months : /\ wraps'[m] = NoWrap <=> wraps[m] = NoWrap
                            /\ wraps[m] # NoWrap => /\ wraps'[m].zone = wraps[m].zone
                                                    /\ wraps'[m].counted = wraps[m].counted

LEMMA MonthFairStays ==
    ASSUME MonthIInv, MonthSameFigures, UNCHANGED <<now, thing>>,
           \A t \in Threads : Month!Is(t, "counted")' => turn'[t] = turn[t]
    PROVE  MonthAllFair'
<1>1. ASSUME NEW m \in Month!Stored' PROVE MonthFair(wraps[m], m)'
  <2>1. /\ m \in Month!Stored /\ wraps'[m].zone = wraps[m].zone
        /\ wraps'[m].counted = wraps[m].counted
    BY <1>1 DEF MonthSameFigures, Month!Stored
  <2>2. QED BY <2>1 DEF MonthFair, Month!Within, Month!EndOf, MonthIInv, MonthAllFair
<1>2. ASSUME NEW t \in Threads, Month!Is(t, "counted")' PROVE MonthFair(turn[t], turn[t].month)'
  BY <1>2 DEF Month!Is, MonthFair, Month!Within, Month!EndOf, MonthIInv, MonthAllFair
<1>3. QED BY <1>1, <1>2 DEF MonthAllFair

LEMMA MonthAskShareKeeps ==
    ASSUME MonthCalendar, MonthIInv, NEW t \in Threads, NEW m \in Month!Months, Month!AskShare(t, m) PROVE MonthIInv'
<1> DEFINE next == [Month!Idle EXCEPT !.at = "share", !.month = m]
<1>1. next \in MonthTurns /\ next.at = "share" /\ next.month = m
  BY MonthIdleIsTurn DEF MonthTurns
<1>2. Month!Turn(t, next)
  BY DEF Month!AskShare
<1> HIDE DEF next
<1>3. /\ turn' \in [Threads -> MonthTurns] /\ turn'[t] = next
      /\ \A u \in Threads : u # t => turn'[u] = turn[u]
      /\ UNCHANGED <<now, zone, thing>>
  BY <1>1, <1>2, MonthTurnsTo DEF MonthIInv
<1>4. /\ UNCHANGED <<wraps, others>> /\ m \in Month!Stored /\ ~wraps[m].shared
      /\ twice' \in SUBSET Month!Months /\ twice \subseteq twice'
      /\ m \notin twice' => \A u \in Threads : ~MonthSharing(u, m)
  BY DEF Month!AskShare, Month!Snapshot, Month!NotShared, Month!Stored, MonthSharing, MonthIInv,
     Month!TypeOK
<1>5. Month!TypeOK'
  BY <1>3, <1>4 DEF MonthIInv, Month!TypeOK, MonthTurns
<1>6. MonthAllFair'
  BY <1>1, <1>3, <1>4, MonthFairStays DEF MonthSameFigures, Month!Is
<1>7. /\ \A u \in Threads, n \in Month!Months : u # t => (MonthSharing(u, n)' <=> MonthSharing(u, n))
      /\ \A n \in Month!Months : MonthSharing(t, n)' <=> n = m
  BY <1>1, <1>3 DEF MonthSharing, Month!Is
<1>8. MonthOneShares'
  BY <1>4, <1>7 DEF MonthIInv, MonthOneShares, Month!Stored
<1>9. Month!SharedOnce'
  BY <1>4 DEF MonthIInv, Month!SharedOnce
<1>10. QED BY <1>5, <1>6, <1>8, <1>9 DEF MonthIInv

LEMMA MonthShareKeeps ==
    ASSUME MonthCalendar, MonthIInv, NEW t \in Threads, Month!Share(t)
    PROVE MonthIInv'
<1> DEFINE m == turn[t].month
<1>1. m \in Month!Months /\ MonthSharing(t, m) /\ m \in Month!Stored
  BY DEF Month!Share, MonthSharing, MonthIInv, Month!TypeOK, MonthOneShares
<1>2. /\ turn' \in [Threads -> MonthTurns] /\ turn'[t] = Month!Idle
      /\ \A u \in Threads : u # t => turn'[u] = turn[u]
      /\ UNCHANGED <<now, zone, thing, twice>>
  BY MonthIdleIsTurn, MonthTurnsTo DEF Month!Share, MonthIInv
<1>3. /\ wraps' = [wraps EXCEPT ![m].shared = TRUE]
      /\ others' = IF wraps[m].shared THEN [others EXCEPT ![m] = @ + 1] ELSE others
      /\ wraps[m].shared => others[m] < MaxOthers
  BY DEF Month!Share
<1> HIDE DEF m
<1>4. wraps[m] \in Month!Wrap
  BY <1>1 DEF Month!Stored, MonthIInv, Month!TypeOK
<1>5. /\ wraps'[m] \in Month!Wrap /\ wraps'[m].zone = wraps[m].zone /\ wraps'[m].counted = wraps[m].counted
      /\ \A n \in Month!Months : n # m => wraps'[n] = wraps[n]
      /\ wraps' \in [Month!Months -> Month!Wrap \cup {NoWrap}]
  BY <1>1, <1>3, <1>4 DEF Month!Wrap, MonthIInv, Month!TypeOK
<1>6. others' \in [Month!Months -> 0 .. MaxOthers]
  <2>1. others[m] \in 0 .. MaxOthers /\ MaxOthers \in Nat
    BY <1>1 DEF MonthIInv, Month!TypeOK, MonthCalendar
  <2>2. wraps[m].shared => others[m] + 1 \in 0 .. MaxOthers
    BY <1>3, <2>1
  <2>3. QED BY <1>1, <1>3, <2>2 DEF MonthIInv, Month!TypeOK
<1>7. Month!TypeOK'
  BY <1>2, <1>5, <1>6 DEF MonthIInv, Month!TypeOK, MonthTurns
<1>8. MonthAllFair'
  <2>1. MonthSameFigures
    BY <1>4, <1>5 DEF MonthSameFigures, MonthCalendar
  <2>2. QED BY <1>2, <2>1, MonthIdleIsTurn, MonthFairStays DEF Month!Is
<1>9. \A u \in Threads, n \in Month!Months : MonthSharing(u, n)' => MonthSharing(u, n) /\ u # t
  BY <1>2, MonthIdleIsTurn DEF MonthSharing, Month!Is
<1>10. MonthOneShares'
  <2>1. \A u \in Threads, n \in Month!Months : MonthSharing(u, n)' => n \in Month!Stored'
    BY <1>4, <1>5, <1>9 DEF MonthIInv, MonthOneShares, Month!Stored, MonthCalendar
  <2>2. \A u \in Threads, n \in Month!Months \ twice : MonthSharing(u, n)' => n # m
    BY <1>1, <1>9 DEF MonthIInv, MonthOneShares
  <2>3. \A u \in Threads, n \in Month!Months \ twice :
            MonthSharing(u, n)' => ~wraps'[n].shared /\ \A v \in Threads : MonthSharing(v, n)' => v = u
    BY <1>5, <1>9, <2>2 DEF MonthIInv, MonthOneShares
  <2>4. QED BY <1>2, <2>1, <2>3 DEF MonthOneShares
<1>11. Month!SharedOnce'
  BY <1>1, <1>2, <1>3 DEF MonthIInv, Month!SharedOnce, MonthOneShares, Month!TypeOK
<1>12. QED BY <1>7, <1>8, <1>10, <1>11 DEF MonthIInv

LEMMA MonthDeletePostKeeps ==
    ASSUME MonthCalendar, MonthIInv, NEW m \in Month!Months, Month!DeletePost(m)
    PROVE MonthIInv'
<1>1. UNCHANGED <<now, zone, thing, twice, turn>>
  BY DEF Month!DeletePost
<1>2. CASE others[m] > 0 /\ others' = [others EXCEPT ![m] = @ - 1] /\ UNCHANGED wraps
  <2>1. others[m] \in 0 .. MaxOthers /\ MaxOthers \in Nat
    BY DEF MonthIInv, Month!TypeOK, MonthCalendar
  <2>2. others[m] - 1 \in 0 .. MaxOthers
    BY <1>2, <2>1
  <2>3. Month!TypeOK'
    BY <1>1, <1>2, <2>2 DEF MonthIInv, Month!TypeOK
  <2>4. MonthAllFair'
    BY <1>1, <1>2, MonthFairStays DEF MonthSameFigures
  <2>5. MonthOneShares'
    BY <1>1, <1>2 DEF MonthIInv, MonthOneShares, MonthSharing, Month!Is, Month!Stored
  <2>6. Month!SharedOnce'
    BY <1>1, <1>2 DEF MonthIInv, Month!SharedOnce, Month!TypeOK
  <2>7. QED BY <2>3, <2>4, <2>5, <2>6 DEF MonthIInv
<1>3. CASE wraps[m] # NoWrap /\ wraps[m].shared /\ wraps' = [wraps EXCEPT ![m].shared = FALSE] /\ UNCHANGED others
  <2>1. wraps[m] \in Month!Wrap
    BY <1>3 DEF MonthIInv, Month!TypeOK
  <2>2. /\ wraps'[m] \in Month!Wrap /\ wraps'[m].zone = wraps[m].zone /\ wraps'[m].counted = wraps[m].counted
        /\ wraps'[m].shared = FALSE
        /\ \A n \in Month!Months : n # m => wraps'[n] = wraps[n]
        /\ wraps' \in [Month!Months -> Month!Wrap \cup {NoWrap}]
    BY <1>3, <2>1 DEF Month!Wrap, MonthIInv, Month!TypeOK
  <2>3. Month!TypeOK'
    BY <1>1, <1>3, <2>2 DEF MonthIInv, Month!TypeOK
  <2>4. MonthAllFair'
    <3>1. MonthSameFigures
      BY <1>3, <2>2 DEF MonthSameFigures, MonthCalendar
    <3>2. QED BY <1>1, <3>1, MonthFairStays
  <2>5. MonthOneShares'
    <3>1. \A u \in Threads, n \in Month!Months : MonthSharing(u, n)' <=> MonthSharing(u, n)
      BY <1>1 DEF MonthSharing, Month!Is
    <3>2. Month!Stored' = Month!Stored
      BY <1>3, <2>1, <2>2 DEF Month!Stored, MonthCalendar
    <3>3. \A n \in Month!Months : ~wraps[n].shared => ~wraps'[n].shared
      BY <2>2
    <3>4. QED BY <1>1, <3>1, <3>2, <3>3 DEF MonthIInv, MonthOneShares
  <2>6. Month!SharedOnce'
    BY <1>1, <1>3 DEF MonthIInv, Month!SharedOnce
  <2>7. QED BY <2>3, <2>4, <2>5, <2>6 DEF MonthIInv
<1>4. QED BY <1>2, <1>3 DEF Month!DeletePost

-----------------------------------------------------------------------------
LEMMA MonthInitIInv == ASSUME MonthCalendar, Month!Init PROVE MonthIInv
<1>1. Month!TypeOK
  <2>1. 0 \in 0 .. LastDay /\ 0 \in 0 .. MaxOthers /\ (CHOOSE z \in Zones : TRUE) \in Zones
    BY DEF MonthCalendar
  <2>2. thing \in [Things -> MonthRecord]
    BY <2>1 DEF Month!Init, MonthRecord
  <2>3. turn \in [Threads -> MonthTurns]
    BY MonthIdleIsTurn DEF Month!Init
  <2>4. QED BY <2>1, <2>2, <2>3 DEF Month!Init, Month!TypeOK, MonthRecord, MonthTurns
<1>2. MonthAllFair /\ MonthOneShares /\ Month!SharedOnce
  BY MonthIdleIsTurn DEF Month!Init, MonthAllFair, Month!Stored, Month!Is, MonthOneShares,
     MonthSharing, Month!SharedOnce
<1>3. QED BY <1>1, <1>2 DEF MonthIInv

LEMMA MonthNextIInv == ASSUME MonthCalendar, MonthIInv, [Month!Next]_Month!vars PROVE MonthIInv'
<1>1. CASE UNCHANGED Month!vars
  BY <1>1 DEF Month!vars, MonthIInv, Month!TypeOK, MonthAllFair, MonthFair, Month!Within, Month!EndOf,
     Month!Stored, Month!Is, MonthOneShares, MonthSharing, Month!SharedOnce
<1>2. QED
  BY <1>1, MonthTickKeeps, MonthMoveKeeps, MonthThingsKeep, MonthLoadKeeps, MonthCountKeeps,
     MonthStoreKeeps, MonthFailKeeps,
     MonthAskShareKeeps, MonthShareKeeps, MonthDeletePostKeeps DEF Month!Next

(* What is promised follows.                                               *)
LEMMA MonthHolds == ASSUME MonthCalendar, MonthIInv PROVE Month!WrapsHold
<1>1. ASSUME NEW m \in Month!Stored, NEW e \in Things
      PROVE  /\ wraps[m].zone \in Zones /\ wraps[m].counted \subseteq Things
             /\ thing[e].since \in Month!Within(m, wraps[m].zone) <=> Month!MonthOf(thing[e].since, wraps[m].zone) = m
  BY MonthMonthsAreInts, MonthWithinIsMonthOf DEF Month!Stored, MonthIInv, Month!TypeOK, Month!Wrap
<1>2. Month!WrapsComplete
  BY <1>1 DEF Month!WrapsComplete, MonthIInv, MonthAllFair, MonthFair
<1>3. \A m \in Month!Stored, e \in Things : e \in wraps[m].counted => Month!MonthOf(thing[e].since, wraps[m].zone) = m
  BY <1>2 DEF Month!WrapsComplete
<1>4. Month!CountedOnce
  <2>1. \A m \in Month!Stored : wraps[m].counted \subseteq Things
    BY DEF Month!Stored, MonthIInv, Month!TypeOK, Month!Wrap
  <2>2. QED BY <1>3, <2>1 DEF Month!CountedOnce
<1>5. QED BY <1>2, <1>4 DEF Month!WrapsHold, MonthIInv

(* A behaviour of the composition is one of Wraps, with steps that leave   *)
(* it alone.                                                               *)
LEMMA MonthSpec == PeopleSpec => Month!Spec
<1>1. PeopleInit => Month!Init
  BY DEF PeopleInit
<1>2. [PeopleNext]_peopleVars => [Month!Next]_Month!vars
  BY DEF PeopleNext, peopleVars, wrapVars, Month!vars
<1>3. QED BY <1>1, <1>2, PTL DEF PeopleSpec, Month!Spec

LEMMA MonthInvariant == PeopleSpec => []MonthIInv
<1>1. Month!Init => MonthIInv
  BY MonthInitIInv, CalendarAssumption DEF MonthCalendar
<1>2. MonthIInv /\ [Month!Next]_Month!vars => MonthIInv'
  BY MonthNextIInv, CalendarAssumption DEF MonthCalendar
<1>3. QED BY <1>1, <1>2, MonthSpec, PTL DEF Month!Spec

(* A stored wrap is complete, counts nothing of another month's, and is    *)
(* shared once but for requests at the same moment (the promise of         *)
(* wrap.py).                                                               *)
THEOREM WrapsHoldAlways == PeopleSpec => []WrapsHold
<1>1. MonthIInv => WrapsHold
  BY MonthHolds, CalendarAssumption DEF WrapsHold, MonthCalendar
<1>2. QED BY <1>1, MonthInvariant, PTL

-----------------------------------------------------------------------------
(* SignUp: accounts and who they belong to.                                *)

(* Nothing is no name, no email, no GitHub account, no row and no role.    *)
SignBounds ==
    /\ Nobody \notin Usernames \cup Emails \cup Identities \cup Slots \cup Sign!Roles
    /\ Nobody \notin Sign!User
    /\ EmailOf \in [Identities -> Emails \cup {Nobody}]

(* A request that writes has what it writes, and an account to write it to.*)
SignSound(request) ==
    /\ request.op = "insert" => request.name \in Usernames /\ request.email \in Emails
    /\ request.op \in {"identity", "link", "rename"} => request.user \in Sign!Accounts
    /\ request.op = "link" => request.github \in Identities
    /\ request.op = "rename" => request.name \in Usernames

(* Who has no account has no profile.                                      *)
SignNoProfile == \A u \in Slots : u \notin Sign!Accounts => profiles[u] = "none"

SignIInv ==
    /\ Sign!TypeOK /\ Sign!OneAccountEach /\ Sign!RoleMatchesType /\ SignNoProfile
    /\ \A r \in Threads : SignSound(req[r])

LEMMA SignHolds == ASSUME SignIInv PROVE Sign!TypeOK /\ Sign!SignUpsHold
BY DEF SignIInv, Sign!SignUpsHold

LEMMA SignIdleIs ==
    Sign!Idle \in Sign!Req /\ Sign!Idle.op = "idle" /\ Sign!Idle.github = Nobody /\ Sign!Idle.role = Nobody
BY DEF Sign!Idle, Sign!Req

LEMMA SignIdleIsSound == SignSound(Sign!Idle)
BY SignIdleIs DEF SignSound

LEMMA SignInitIInv == ASSUME Sign!Init PROVE SignIInv
<1>1. Sign!Accounts = {}
  BY DEF Sign!Init, Sign!Accounts
<1>2. Sign!TypeOK
  BY SignIdleIs DEF Sign!Init, Sign!TypeOK
<1>3. Sign!OneAccountEach /\ Sign!RoleMatchesType /\ SignNoProfile
  BY <1>1 DEF Sign!Init, Sign!OneAccountEach, Sign!RoleMatchesType, SignNoProfile
<1>4. ASSUME NEW r \in Threads PROVE SignSound(req[r])
  <2>1. req[r] = Sign!Idle
    BY DEF Sign!Init
  <2>2. QED BY <2>1, SignIdleIsSound
<1>5. QED BY <1>2, <1>3, <1>4 DEF SignIInv

(* The accounts that are.                                                  *)
LEMMA SignAccountIs ==
    ASSUME Sign!TypeOK, NEW u \in Sign!Accounts
    PROVE  /\ u \in Slots /\ users[u] \in Sign!User /\ users[u].name \in Usernames /\ users[u].email \in Emails
           /\ users[u].github \in Identities \cup {Nobody} /\ users[u].type \in Sign!Types
<1>1. u \in Slots /\ users[u] \in Sign!User
  BY DEF Sign!Accounts, Sign!TypeOK
<1>2. QED BY <1>1 DEF Sign!User

-----------------------------------------------------------------------------
(* One request begins, goes on or ends; accounts stay accounts.            *)
LEMMA SignRequestKeeps ==
    ASSUME SignIInv, NEW r \in Threads, NEW request \in Sign!Req, Sign!Serve(r, request),
           SignSound(request)', Sign!Accounts \subseteq Sign!Accounts'
    PROVE  /\ req' \in [Threads -> Sign!Req]
           /\ \A x \in Threads : SignSound(req[x])'
<1>1. /\ req' \in [Threads -> Sign!Req] /\ req'[r] = request
      /\ \A x \in Threads : x # r => req'[x] = req[x]
  BY DEF SignIInv, Sign!TypeOK, Sign!Serve
<1>2. ASSUME NEW x \in Threads PROVE SignSound(req[x])'
  <2>1. CASE x = r
    BY <1>1, <2>1
  <2>2. CASE x # r
    <3>1. SignSound(req[x]) /\ req'[x] = req[x]
      BY <1>1, <2>2 DEF SignIInv
    <3>2. QED BY <3>1 DEF SignSound
  <2>3. QED BY <2>1, <2>2
<1>3. QED BY <1>1, <1>2

LEMMA SignBeginKeeps ==
    ASSUME SignIInv, NEW r \in Threads, NEW request \in Sign!Req, Sign!Serve(r, request),
           SignSound(request), UNCHANGED <<users, profiles>>
    PROVE  SignIInv'
<1>1. Sign!Accounts' = Sign!Accounts
  BY DEF Sign!Accounts
<1>2. SignSound(request)'
  BY <1>1 DEF SignSound
<1>3. /\ req' \in [Threads -> Sign!Req]
      /\ \A x \in Threads : SignSound(req[x])'
  BY <1>1, <1>2, SignRequestKeeps
<1>4. Sign!TypeOK' /\ Sign!OneAccountEach' /\ Sign!RoleMatchesType' /\ SignNoProfile'
  BY <1>1, <1>3 DEF SignIInv, Sign!TypeOK, Sign!OneAccountEach, Sign!RoleMatchesType, SignNoProfile
<1>5. QED BY <1>3, <1>4 DEF SignIInv

LEMMA SignRegisterKeeps ==
    ASSUME SignBounds, SignIInv, NEW r \in Threads, NEW n \in Usernames, NEW e \in Emails,
           NEW role \in Sign!Roles \cup {Nobody}, Sign!Register(r, n, e, role)
    PROVE  SignIInv'
<1>1. PICK request : request = [Sign!Idle EXCEPT !.op = "insert", !.name = n, !.email = e, !.role = role]
  OBVIOUS
<1>2. request \in Sign!Req /\ request.op = "insert" /\ request.name = n /\ request.email = e
  BY <1>1 DEF Sign!Idle, Sign!Req
<1>3. SignSound(request)
  BY <1>2 DEF SignSound
<1>4. Sign!Serve(r, request) /\ UNCHANGED <<users, profiles>>
  BY <1>1 DEF Sign!Register
<1>5. QED BY <1>2, <1>3, <1>4, SignBeginKeeps

LEMMA SignCompleteKeeps ==
    ASSUME SignBounds, SignIInv, NEW r \in Threads, NEW g \in Identities, NEW n \in Usernames,
           NEW role \in Sign!Roles \cup {Nobody}, Sign!Complete(r, g, n, role)
    PROVE  SignIInv'
<1>1. UNCHANGED <<users, profiles>> /\ EmailOf[g] \in Emails
  BY DEF Sign!Complete, SignBounds
<1>2. ASSUME NEW u \in Sign!ByGitHub(g),
             Sign!Serve(r, [Sign!Idle EXCEPT !.op = "identity", !.role = role, !.user = u, !.github = g])
      PROVE  SignIInv'
  <2>1. PICK request : request = [Sign!Idle EXCEPT !.op = "identity", !.role = role, !.user = u, !.github = g]
    OBVIOUS
  <2>2. u \in Sign!Accounts /\ u \in Slots
    BY DEF Sign!ByGitHub, Sign!Accounts
  <2>3. request \in Sign!Req /\ request.op = "identity" /\ request.user = u
    BY <2>1, <2>2 DEF Sign!Idle, Sign!Req
  <2>4. SignSound(request)
    BY <2>2, <2>3 DEF SignSound
  <2>5. Sign!Serve(r, request)
    BY <1>2, <2>1
  <2>6. QED BY <1>1, <2>3, <2>4, <2>5, SignBeginKeeps
<1>3. ASSUME Sign!Serve(r, [Sign!Idle EXCEPT !.op = "insert", !.name = n, !.email = EmailOf[g],
                                             !.github = g, !.role = role])
      PROVE  SignIInv'
  <2>1. PICK request : request = [Sign!Idle EXCEPT !.op = "insert", !.name = n, !.email = EmailOf[g],
                                                   !.github = g, !.role = role]
    OBVIOUS
  <2>2. request \in Sign!Req /\ request.op = "insert" /\ request.name = n /\ request.email = EmailOf[g]
    BY <1>1, <2>1 DEF Sign!Idle, Sign!Req
  <2>3. SignSound(request)
    BY <1>1, <2>2 DEF SignSound
  <2>4. Sign!Serve(r, request)
    BY <1>3, <2>1
  <2>5. QED BY <1>1, <2>2, <2>3, <2>4, SignBeginKeeps
<1>4. QED BY <1>2, <1>3 DEF Sign!Complete

LEMMA SignCallbackKeeps ==
    ASSUME SignBounds, SignIInv, NEW r \in Threads, NEW g \in Identities, Sign!Callback(r, g) PROVE SignIInv'
<1>1. PICK u \in Sign!ByEmail(EmailOf[g]) : Sign!Serve(r, [Sign!Idle EXCEPT !.op = "link", !.github = g, !.user = u])
  BY DEF Sign!Callback
<1>2. PICK request : request = [Sign!Idle EXCEPT !.op = "link", !.github = g, !.user = u]
  OBVIOUS
<1>3. u \in Sign!Accounts /\ u \in Slots
  BY DEF Sign!ByEmail, Sign!Accounts
<1>4. request \in Sign!Req /\ request.op = "link" /\ request.user = u /\ request.github = g
  BY <1>2, <1>3 DEF Sign!Idle, Sign!Req
<1>5. SignSound(request) /\ Sign!Serve(r, request)
  BY <1>1, <1>2, <1>3, <1>4 DEF SignSound
<1>6. QED BY <1>4, <1>5, SignBeginKeeps DEF Sign!Callback

LEMMA SignAskNameKeeps ==
    ASSUME SignBounds, SignIInv, NEW r \in Threads, NEW u \in Slots, NEW n \in Usernames, Sign!AskName(r, u, n)
    PROVE  SignIInv'
<1>1. PICK request : request = [Sign!Idle EXCEPT !.op = "rename", !.user = u, !.name = n]
  OBVIOUS
<1>2. request \in Sign!Req /\ request.op = "rename" /\ request.user = u /\ request.name = n
  BY <1>1 DEF Sign!Idle, Sign!Req
<1>3. SignSound(request) /\ Sign!Serve(r, request)
  BY <1>1, <1>2 DEF SignSound, Sign!AskName
<1>4. QED BY <1>2, <1>3, SignBeginKeeps DEF Sign!AskName

-----------------------------------------------------------------------------
(* The row of a request is inserted or changed, and shares nothing with    *)
(* another one; its side of the line is what it was.                       *)
LEMMA SignRowKeeps ==
    ASSUME SignBounds, SignIInv, NEW u \in Slots, NEW stored \in Sign!User, users' = [users EXCEPT ![u] = stored],
           profiles' \in [Slots -> Sign!Roles \cup {"blank", "none"}],
           \A v \in Slots : v # u => profiles'[v] = profiles[v],
           profiles'[u] \in Sign!Roles => profiles[u] = profiles'[u],
           u \in Sign!Accounts => users[u].type = stored.type,
           \A v \in Sign!Accounts \ {u} :
               /\ users[v].name # stored.name /\ users[v].email # stored.email
               /\ stored.github = Nobody \/ users[v].github # stored.github,
           NEW r \in Threads, NEW request \in Sign!Req, Sign!Serve(r, request), SignSound(request)'
    PROVE  SignIInv'
<1>1. /\ users' \in [Slots -> Sign!User \cup {Nobody}] /\ users'[u] = stored
      /\ \A v \in Slots : v # u => users'[v] = users[v]
  BY DEF SignIInv, Sign!TypeOK
<1>2. Sign!Accounts' = Sign!Accounts \cup {u}
  BY <1>1 DEF Sign!Accounts, SignBounds
<1>3. /\ req' \in [Threads -> Sign!Req]
      /\ \A x \in Threads : SignSound(req[x])'
  BY <1>2, SignRequestKeeps
<1>4. Sign!TypeOK'
  BY <1>1, <1>3 DEF Sign!TypeOK
<1>5. Sign!OneAccountEach'
  <2> SUFFICES ASSUME NEW v \in Sign!Accounts', NEW x \in Sign!Accounts', v # x
               PROVE  /\ users'[v].name # users'[x].name /\ users'[v].email # users'[x].email
                      /\ users'[v].github = Nobody \/ users'[v].github # users'[x].github
    BY DEF Sign!OneAccountEach
  <2>1. \A y \in Sign!Accounts' : y # u => y \in Sign!Accounts /\ users'[y] = users[y]
    BY <1>1, <1>2 DEF Sign!Accounts
  <2>2. CASE v # u /\ x # u
    BY <2>1, <2>2 DEF SignIInv, Sign!OneAccountEach
  <2>3. CASE v = u
    BY <1>1, <2>1, <2>3
  <2>4. CASE x = u
    BY <1>1, <2>1, <2>4
  <2>5. QED BY <2>2, <2>3, <2>4
<1>6. Sign!RoleMatchesType'
  <2> SUFFICES ASSUME NEW v \in Sign!Accounts', profiles'[v] \in Sign!Roles
               PROVE  Sign!TypeFor(profiles'[v]) = users'[v].type
    BY DEF Sign!RoleMatchesType, Sign!TypeFor
  <2>1. CASE v # u
    BY <1>1, <1>2, <2>1 DEF SignIInv, Sign!RoleMatchesType, Sign!Accounts
  <2>2. CASE v = u
    <3>1. u \in Sign!Accounts
      BY <2>2 DEF SignIInv, SignNoProfile, Sign!Roles
    <3>2. QED BY <1>1, <2>2, <3>1 DEF SignIInv, Sign!RoleMatchesType
  <2>3. QED BY <2>1, <2>2
<1>7. SignNoProfile'
  BY <1>2 DEF SignIInv, SignNoProfile
<1>8. QED BY <1>3, <1>4, <1>5, <1>6, <1>7 DEF SignIInv

LEMMA SignInsertKeeps ==
    ASSUME SignBounds, SignIInv, NEW r \in Threads, NEW u \in Slots, Sign!Insert(r, u) PROVE SignIInv'
<1>1. /\ req[r] \in Sign!Req /\ SignSound(req[r]) /\ Sign!Is(r, "insert") /\ u \notin Sign!Accounts /\ profiles' = profiles
      /\ profiles \in [Slots -> Sign!Roles \cup {"blank", "none"}]
  BY DEF SignIInv, Sign!TypeOK, Sign!Insert
<1>2. CASE Sign!Unique(r)
  <2>1. PICK stored : stored = [name |-> req[r].name, email |-> req[r].email,
                          github |-> req[r].github, type |-> Sign!TypeFor(req[r].role)]
    OBVIOUS
  <2>2. /\ stored \in Sign!User /\ stored.name = req[r].name /\ stored.email = req[r].email /\ stored.github = req[r].github
    <3>1. Sign!TypeFor(req[r].role) \in Sign!Types
      BY DEF Sign!TypeFor, Sign!Types
    <3>2. req[r].name \in Usernames /\ req[r].email \in Emails /\ req[r].github \in Identities \cup {Nobody}
      BY <1>1 DEF SignSound, Sign!Is, Sign!Req
    <3>3. QED BY <2>1, <3>1, <3>2 DEF Sign!User
  <2>3. \A v \in Sign!Accounts \ {u} :
            /\ users[v].name # stored.name /\ users[v].email # stored.email
            /\ stored.github = Nobody \/ users[v].github # stored.github
    <3>1. Nobody \notin Sign!Accounts
      BY DEF Sign!Accounts, SignBounds
    <3>2. QED BY <1>2, <2>2, <3>1 DEF Sign!Unique, Sign!NameTaken, Sign!EmailTaken, Sign!ByGitHub
  <2>4. PICK request : request = [req[r] EXCEPT !.op = "identity", !.user = u]
    OBVIOUS
  <2>5. request \in Sign!Req /\ request.op = "identity" /\ request.user = u
    BY <1>1, <2>4 DEF Sign!Req
  <2>6. users' = [users EXCEPT ![u] = stored] /\ Sign!Serve(r, request)
    BY <1>2, <2>1, <2>4 DEF Sign!Insert
  <2>7. u \in Sign!Accounts'
    BY <2>2, <2>6 DEF SignIInv, Sign!TypeOK, Sign!Accounts, SignBounds
  <2>8. SignSound(request)'
    BY <2>5, <2>7 DEF SignSound
  <2>9. QED BY <1>1, <2>2, <2>3, <2>5, <2>6, <2>8, SignRowKeeps
<1>3. CASE ~Sign!Unique(r)
  <2>1. Sign!Serve(r, Sign!Idle) /\ UNCHANGED <<users, profiles>>
    BY <1>3 DEF Sign!Insert
  <2>2. QED BY <2>1, SignIdleIs, SignIdleIsSound, SignBeginKeeps
<1>4. QED BY <1>2, <1>3

LEMMA SignLinkKeeps ==
    ASSUME SignBounds, SignIInv, NEW r \in Threads, Sign!Link(r) PROVE SignIInv'
<1>1. PICK u : u = req[r].user
  OBVIOUS
<1>2. PICK g : g = req[r].github
  OBVIOUS
<1>3. /\ u \in Sign!Accounts /\ u \in Slots /\ users[u] \in Sign!User /\ g \in Identities
      /\ profiles \in [Slots -> Sign!Roles \cup {"blank", "none"}] /\ Sign!Serve(r, Sign!Idle)
  <2>1. SignSound(req[r]) /\ req[r].op = "link"
    BY DEF SignIInv, Sign!Link, Sign!Is
  <2>2. u \in Sign!Accounts /\ g \in Identities
    BY <1>1, <1>2, <2>1 DEF SignSound
  <2>3. QED BY <2>2, SignAccountIs DEF SignIInv, Sign!TypeOK, Sign!Link
<1>4. CASE Sign!ByGitHub(g) \subseteq {u}
  <2>1. PICK stored : stored = [users[u] EXCEPT !.github = g]
    OBVIOUS
  <2>2. /\ stored \in Sign!User /\ stored.name = users[u].name /\ stored.email = users[u].email
        /\ stored.type = users[u].type /\ stored.github = g
    BY <1>3, <2>1 DEF Sign!User
  <2>3. users' = [users EXCEPT ![u] = stored]
    BY <1>1, <1>2, <1>4, <2>1 DEF Sign!Link
  <2>4. PICK shown : shown = (IF profiles[u] = "none" THEN "blank" ELSE profiles[u])
    OBVIOUS
  <2>5. profiles' = [profiles EXCEPT ![u] = shown]
    BY <1>1, <1>2, <1>4, <2>4 DEF Sign!Link
  <2>6. /\ profiles' \in [Slots -> Sign!Roles \cup {"blank", "none"}]
        /\ \A v \in Slots : v # u => profiles'[v] = profiles[v]
        /\ profiles'[u] \in Sign!Roles => profiles[u] = profiles'[u]
    BY <1>3, <2>4, <2>5 DEF Sign!Roles
  <2>7. ASSUME NEW v \in Sign!Accounts \ {u}
        PROVE  /\ users[v].name # stored.name /\ users[v].email # stored.email
               /\ stored.github = Nobody \/ users[v].github # stored.github
    <3>1. users[v].name # users[u].name /\ users[v].email # users[u].email
      BY <1>3 DEF SignIInv, Sign!OneAccountEach
    <3>2. users[v].github # g
      BY <1>4 DEF Sign!ByGitHub
    <3>3. QED BY <2>2, <3>1, <3>2
  <2>8. SignSound(Sign!Idle)'
    BY SignIdleIs DEF SignSound
  <2>9. QED BY <1>3, <2>2, <2>3, <2>6, <2>7, <2>8, SignIdleIs, SignRowKeeps
<1>5. CASE ~(Sign!ByGitHub(g) \subseteq {u})
  <2>1. UNCHANGED <<users, profiles>>
    BY <1>1, <1>2, <1>5 DEF Sign!Link
  <2>2. QED BY <1>3, <2>1, SignIdleIs, SignIdleIsSound, SignBeginKeeps
<1>6. QED BY <1>4, <1>5

LEMMA SignRenameKeeps ==
    ASSUME SignBounds, SignIInv, NEW r \in Threads, Sign!Rename(r) PROVE SignIInv'
<1>1. PICK u : u = req[r].user
  OBVIOUS
<1>2. PICK n : n = req[r].name
  OBVIOUS
<1>3. /\ u \in Sign!Accounts /\ u \in Slots /\ users[u] \in Sign!User /\ n \in Usernames
      /\ profiles \in [Slots -> Sign!Roles \cup {"blank", "none"}] /\ Sign!Serve(r, Sign!Idle) /\ profiles' = profiles
  <2>1. SignSound(req[r]) /\ req[r].op = "rename"
    BY DEF SignIInv, Sign!Rename, Sign!Is
  <2>2. u \in Sign!Accounts /\ n \in Usernames
    BY <1>1, <1>2, <2>1 DEF SignSound
  <2>3. QED BY <2>2, SignAccountIs DEF SignIInv, Sign!TypeOK, Sign!Rename
<1>4. CASE ~Sign!NameTaken(n, u)
  <2>1. PICK stored : stored = [users[u] EXCEPT !.name = n]
    OBVIOUS
  <2>2. /\ stored \in Sign!User /\ stored.name = n /\ stored.email = users[u].email
        /\ stored.type = users[u].type /\ stored.github = users[u].github
    BY <1>3, <2>1 DEF Sign!User
  <2>3. users' = [users EXCEPT ![u] = stored]
    BY <1>1, <1>2, <1>4, <2>1 DEF Sign!Rename
  <2>4. ASSUME NEW v \in Sign!Accounts \ {u}
        PROVE  /\ users[v].name # stored.name /\ users[v].email # stored.email
               /\ stored.github = Nobody \/ users[v].github # stored.github
    <3>1. users[v].name # n
      BY <1>4 DEF Sign!NameTaken
    <3>2. users[v].email # users[u].email /\ (users[u].github = Nobody \/ users[v].github # users[u].github)
      BY <1>3 DEF SignIInv, Sign!OneAccountEach
    <3>3. QED BY <2>2, <3>1, <3>2
  <2>5. SignSound(Sign!Idle)'
    BY SignIdleIs DEF SignSound
  <2>6. QED BY <1>3, <2>2, <2>3, <2>4, <2>5, SignIdleIs, SignRowKeeps
<1>5. CASE Sign!NameTaken(n, u)
  <2>1. UNCHANGED <<users, profiles>>
    BY <1>1, <1>2, <1>3, <1>5 DEF Sign!Rename
  <2>2. QED BY <1>3, <2>1, SignIdleIs, SignIdleIsSound, SignBeginKeeps
<1>6. QED BY <1>4, <1>5

(* The profile is saved: its role is on the account's side of the line.    *)
LEMMA SignSaveIdentityKeeps ==
    ASSUME SignBounds, SignIInv, NEW r \in Threads, Sign!SaveIdentity(r) PROVE SignIInv'
<1>1. PICK u : u = req[r].user
  OBVIOUS
<1>2. /\ u \in Sign!Accounts /\ u \in Slots /\ Sign!Serve(r, Sign!Idle) /\ users' = users /\ req[r] \in Sign!Req
      /\ profiles \in [Slots -> Sign!Roles \cup {"blank", "none"}]
  <2>1. SignSound(req[r]) /\ req[r].op = "identity"
    BY DEF SignIInv, Sign!SaveIdentity, Sign!Is
  <2>2. u \in Sign!Accounts
    BY <1>1, <2>1 DEF SignSound
  <2>3. QED BY <2>2 DEF SignIInv, Sign!TypeOK, Sign!SaveIdentity, Sign!Accounts
<1>3. PICK role : role = Sign!Role(r, u)
  OBVIOUS
<1>4. /\ role \in Sign!Roles \cup {"blank", "none"}
      /\ role \in Sign!Roles => role = profiles[u] \/ Sign!TypeFor(role) = users[u].type
  <2>1. req[r].role \in Sign!Roles \cup {Nobody}
    BY <1>2 DEF Sign!Req
  <2>2. CASE Sign!Contradicts(u, req[r].role) \/ req[r].role = Nobody
    BY <1>2, <1>3, <2>2 DEF Sign!Role, Sign!Roles
  <2>3. CASE ~(Sign!Contradicts(u, req[r].role) \/ req[r].role = Nobody)
    <3>1. role = req[r].role
      BY <1>3, <2>3 DEF Sign!Role
    <3>2. QED BY <2>1, <2>3, <3>1 DEF Sign!Contradicts
  <2>4. QED BY <2>2, <2>3
<1>5. profiles' = [profiles EXCEPT ![u] = role]
  BY <1>1, <1>3 DEF Sign!SaveIdentity
<1>6. /\ profiles' \in [Slots -> Sign!Roles \cup {"blank", "none"}] /\ profiles'[u] = role
      /\ \A v \in Slots : v # u => profiles'[v] = profiles[v]
  BY <1>2, <1>4, <1>5
<1>7. Sign!Accounts' = Sign!Accounts
  BY <1>2 DEF Sign!Accounts
<1>8. SignSound(Sign!Idle)'
  BY SignIdleIs DEF SignSound
<1>9. /\ req' \in [Threads -> Sign!Req] /\ \A x \in Threads : SignSound(req[x])'
  BY <1>2, <1>7, <1>8, SignIdleIs, SignRequestKeeps
<1>10. Sign!TypeOK' /\ Sign!OneAccountEach' /\ SignNoProfile'
  BY <1>2, <1>6, <1>7, <1>9 DEF SignIInv, Sign!TypeOK, Sign!OneAccountEach, SignNoProfile
<1>11. Sign!RoleMatchesType'
  <2> SUFFICES ASSUME NEW v \in Sign!Accounts, profiles'[v] \in Sign!Roles
               PROVE  Sign!TypeFor(profiles'[v]) = users[v].type
    BY <1>2, <1>7 DEF Sign!RoleMatchesType, Sign!TypeFor
  <2>1. v \in Slots
    BY DEF Sign!Accounts
  <2>2. QED BY <1>4, <1>6, <2>1 DEF SignIInv, Sign!RoleMatchesType
<1>12. QED BY <1>9, <1>10, <1>11 DEF SignIInv

LEMMA SignNextIInv == ASSUME SignBounds, SignIInv, [Sign!Next]_Sign!vars PROVE SignIInv'
<1>1. ASSUME NEW r \in Threads, NEW n \in Usernames, NEW role \in Sign!Roles \cup {Nobody},
             (\E e \in Emails : Sign!Register(r, n, e, role)) \/ \E g \in Identities : Sign!Complete(r, g, n, role)
      PROVE  SignIInv'
  BY <1>1, SignRegisterKeeps, SignCompleteKeeps
<1>2. ASSUME NEW r \in Threads, NEW u \in Slots, Sign!Insert(r, u) \/ \E n \in Usernames : Sign!AskName(r, u, n)
      PROVE  SignIInv'
  BY <1>2, SignInsertKeeps, SignAskNameKeeps
<1>3. ASSUME NEW r \in Threads, NEW g \in Identities, Sign!Callback(r, g) PROVE SignIInv'
  BY <1>3, SignCallbackKeeps
<1>4. ASSUME NEW r \in Threads, Sign!SaveIdentity(r) \/ Sign!Link(r) \/ Sign!Rename(r) PROVE SignIInv'
  BY <1>4, SignSaveIdentityKeeps, SignLinkKeeps, SignRenameKeeps
<1>5. ASSUME NEW r \in Threads, Sign!Stop(r) PROVE SignIInv'
  BY <1>5, SignIdleIs, SignIdleIsSound, SignBeginKeeps DEF Sign!Stop
<1>6. CASE UNCHANGED Sign!vars
  <2>1. UNCHANGED <<users, profiles, req>>
    BY <1>6 DEF Sign!vars
  <2>2. Sign!Accounts' = Sign!Accounts
    BY <2>1 DEF Sign!Accounts
  <2>3. Sign!TypeOK' /\ Sign!OneAccountEach' /\ Sign!RoleMatchesType' /\ SignNoProfile'
    BY <2>1, <2>2 DEF SignIInv, Sign!TypeOK, Sign!OneAccountEach, Sign!RoleMatchesType, SignNoProfile
  <2>4. ASSUME NEW r \in Threads PROVE SignSound(req[r])'
    <3>1. SignSound(req[r])
      BY DEF SignIInv
    <3>2. QED BY <2>1, <2>2, <3>1 DEF SignSound
  <2>5. QED BY <2>3, <2>4 DEF SignIInv
<1>7. QED BY <1>1, <1>2, <1>3, <1>4, <1>5, <1>6 DEF Sign!Next

(* A behaviour of the composition is one of SignUp, with steps that leave  *)
(* it alone.                                                               *)
LEMMA SignSpec == PeopleSpec => Sign!Spec
<1>1. PeopleInit => Sign!Init
  BY DEF PeopleInit
<1>2. [PeopleNext]_peopleVars => [Sign!Next]_Sign!vars
  BY DEF PeopleNext, peopleVars, signUpVars, Sign!vars
<1>3. QED BY <1>1, <1>2, PTL DEF PeopleSpec, Sign!Spec

LEMMA SignInvariant == PeopleSpec => []SignIInv
<1>1. Sign!Init => SignIInv
  BY SignInitIInv
<1>2. SignIInv /\ [Sign!Next]_Sign!vars => SignIInv'
  BY SignNextIInv, NobodyAssumption DEF SignBounds
<1>3. QED BY <1>1, <1>2, SignSpec, PTL DEF Sign!Spec

(* Whatever sign-ups, links and renames look at the same moment, stop      *)
(* half-way or are resumed: no two accounts share a name, an email or a    *)
(* GitHub account, and no role of a profile contradicts its account        *)
(* (auth.py:45, roles.py:4).                                               *)
THEOREM SignUpsHoldAlways == PeopleSpec => []SignUpsHold
<1>1. SignIInv => SignUpsHold
  BY SignHolds DEF SignUpsHold
<1>2. QED BY <1>1, SignInvariant, PTL

-----------------------------------------------------------------------------
(* GitHubToken: the GitHub App connection.                                 *)

(* NoLogin is no GitHub account.                                           *)
HubBounds == MaxPairs \in Nat /\ Nobody \notin Logins

(* What GitHub gave so far has an account; a row is of a pair GitHub gave, *)
(* and of its account.                                                     *)
HubGiven == 1..pairs
HubLedger ==
    /\ good \subseteq HubGiven /\ lost \subseteq HubGiven
    /\ \A n \in HubGiven : owner[n] \in Logins
    /\ \A u \in Users : conn[u].id # 0 => conn[u].pair \in HubGiven /\ conn[u].login = owner[conn[u].pair]
    /\ \A u \in Users : conn[u].id = 0 => conn[u].pair = 0 /\ conn[u].login = Nobody

(* A request holds a new pair from the exchange until it is stored; a      *)
(* refresh one of the account of the pair it read; that one is in no other *)
(* user's row, the new one in none at all.                                 *)
HubSound(request) ==
    /\ request.read \in 0..pairs /\ request.new \in 0..pairs
    /\ request.new # 0 <=> request.op \in {"save", "insert"}
    /\ request.op \in {"refresh", "revoke"} => request.read # 0
    /\ request.new # 0 /\ request.read # 0 => owner[request.new] = owner[request.read]
    /\ request.read # 0 => \A v \in Users : v # request.user => conn[v].pair # request.read
    /\ request.new # 0 => request.read # request.new /\ \A v \in Users : conn[v].pair # request.new

(* No other request has the new pair of one.                               *)
HubApart ==
    \A w, x \in Threads : (w # x /\ work[w].new # 0) =>
        work[x].new # work[w].new /\ work[x].read # work[w].new

(* Who revokes is alone with the row it read.                              *)
HubAlone ==
    \A w \in Threads : Hub!Is(w, "revoke") =>
        /\ \A x \in Threads : x # w => Hub!Is(x, "idle")
        /\ work[w].row # 0 /\ conn[work[w].user].id = work[w].row
        /\ conn[work[w].user].pair = work[w].read

(* The stored pair works, or the request that used it up has the next one, *)
(* or the row is about to go, or a pair of the account was lost.           *)
HubSuccessor(w, u) == work[w].user = u /\ work[w].new # 0 /\ work[w].read = conn[u].pair
HubLeaving(w, u) == work[w].user = u /\ Hub!Is(w, "delete") /\ work[w].row = conn[u].id
HubWorks(u) ==
    \/ conn[u].pair \in good
    \/ \E w \in Threads : HubSuccessor(w, u) \/ HubLeaving(w, u)
    \/ \E n \in lost : owner[n] = conn[u].login

HubCalm ==
    ~crossed =>
        /\ HubAlone
        /\ \A w \in Threads : work[w].new # 0 => work[w].new \in good
        /\ \A u \in Users : conn[u].id # 0 => HubWorks(u)

HubIInv == Hub!TypeOK /\ HubLedger /\ HubApart /\ HubCalm /\ \A w \in Threads : HubSound(work[w])

LEMMA HubHolds == ASSUME HubIInv PROVE Hub!TypeOK /\ Hub!StoredPairWorks
BY DEF HubIInv, HubCalm, HubWorks, HubSuccessor, HubLeaving, Hub!StoredPairWorks

LEMMA HubNoRowIs ==
    ASSUME HubBounds
    PROVE  Hub!NoRow \in Hub!Conn /\ Hub!NoRow.id = 0 /\ Hub!NoRow.login = Nobody /\ Hub!NoRow.pair = 0
BY DEF Hub!NoRow, Hub!Conn, HubBounds

LEMMA HubServes ==
    ASSUME Hub!TypeOK, NEW w \in Threads, NEW request \in Hub!Work, work' = [work EXCEPT ![w] = request]
    PROVE  /\ work' \in [Threads -> Hub!Work] /\ work'[w] = request
           /\ \A x \in Threads : x # w => work'[x] = work[x]
BY DEF Hub!TypeOK

(* The request that is over.                                               *)
LEMMA HubEnded ==
    ASSUME HubBounds, Hub!TypeOK, NEW w \in Threads, Hub!Done(w)
    PROVE  \E request \in Hub!Work :
               /\ work' = [work EXCEPT ![w] = request]
               /\ request.op = "idle" /\ request.user = work[w].user
               /\ request.row = 0 /\ request.read = 0 /\ request.new = 0
<1>1. PICK request : request = [work[w] EXCEPT !.op = "idle", !.row = 0, !.read = 0, !.new = 0]
  OBVIOUS
<1>4. work[w] \in Hub!Work
  BY DEF Hub!TypeOK
<1>2. /\ request \in Hub!Work /\ request.op = "idle" /\ request.user = work[w].user
      /\ request.row = 0 /\ request.read = 0 /\ request.new = 0
  <2>1. 0 \in 0..MaxPairs
    BY DEF HubBounds
  <2>2. QED BY <1>1, <1>4, <2>1 DEF Hub!Work
<1>3. QED BY <1>1, <1>2 DEF Hub!Done

LEMMA HubPairsAre ==
    ASSUME HubBounds, HubIInv
    PROVE  /\ pairs \in Nat /\ pairs <= MaxPairs /\ 0 \notin HubGiven /\ HubGiven \subseteq Hub!Pairs
           /\ pairs + 1 \notin HubGiven
BY DEF HubBounds, HubIInv, Hub!TypeOK, HubGiven, Hub!Pairs

LEMMA HubIdleIsSound ==
    ASSUME HubBounds, HubIInv, NEW request, request.op = "idle", request.read = 0, request.new = 0
    PROVE  HubSound(request)
BY HubPairsAre DEF HubSound

LEMMA HubInitIInv == ASSUME HubBounds, Hub!Init PROVE HubIInv
<1>1. PICK u \in Users :
          work = [w \in Threads |-> [op |-> "idle", user |-> u, row |-> 0, read |-> 0, new |-> 0]]
  BY DEF Hub!Init
<1>2. work \in [Threads -> Hub!Work]
  BY <1>1 DEF Hub!Work, HubBounds
<1>3. \A w \in Threads : work[w].op = "idle" /\ work[w].read = 0 /\ work[w].new = 0
  BY <1>1
<1>4. /\ conn \in [Users -> Hub!Conn] /\ pairs = 0 /\ pairs \in 0..MaxPairs
      /\ \A v \in Users : conn[v].id = 0 /\ conn[v].pair = 0 /\ conn[v].login = Nobody
  BY HubNoRowIs DEF Hub!Init, HubBounds
<1>5. owner \in [Hub!Pairs -> Logins \cup {Nobody}] /\ good = {} /\ lost = {} /\ crossed \in BOOLEAN
  BY DEF Hub!Init
<1>6. Hub!TypeOK
  BY <1>2, <1>4, <1>5 DEF Hub!TypeOK
<1>7. HubGiven = {}
  BY <1>4 DEF HubGiven
<1>8. HubLedger
  BY <1>4, <1>5, <1>7 DEF HubLedger
<1>9. HubCalm /\ HubApart
  BY <1>3, <1>4 DEF HubCalm, HubApart, HubAlone, Hub!Is
<1>10. ASSUME NEW w \in Threads PROVE HubSound(work[w])
  BY <1>3, <1>4 DEF HubSound
<1>11. QED BY <1>6, <1>8, <1>9, <1>10 DEF HubIInv

-----------------------------------------------------------------------------
(* A request begins, goes on or ends with the pairs and rows as they are;  *)
(* a new pair it drops is lost.                                            *)
LEMMA HubRequestKeeps ==
    ASSUME HubBounds, HubIInv, NEW w \in Threads, NEW request \in Hub!Work, work' = [work EXCEPT ![w] = request],
           UNCHANGED <<owner, pairs, good>>, HubSound(request), conn' \in [Users -> Hub!Conn],
           \A v \in Users : conn'[v].id = conn[v].id /\ conn'[v].login = conn[v].login /\ conn'[v].pair = conn[v].pair,
           crossed' \in BOOLEAN, crossed => crossed',
           request.new \in {0, work[w].new},
           request.new = 0 \/ (request.user = work[w].user /\ request.read = work[w].read),
           request.read \in {0, work[w].read} \cup {conn[v].pair : v \in Users},
           lost' = lost \/ (work[w].new # 0 /\ lost' = lost \cup {work[w].new}),
           (work[w].new # 0 /\ request.new = 0) => work[w].new \in lost',
           ~crossed' =>
               /\ ~Hub!Is(w, "delete")
               /\ request.op = "revoke" =>
                      /\ \A x \in Threads : x # w => Hub!Is(x, "idle")
                      /\ request.row # 0 /\ conn[request.user].id = request.row
                      /\ conn[request.user].pair = request.read
               /\ (request.op # "idle" /\ Hub!Is(w, "idle")) => \A x \in Threads : ~Hub!Is(x, "revoke")
    PROVE  HubIInv'
<1>1. /\ work' \in [Threads -> Hub!Work] /\ work'[w] = request
      /\ \A x \in Threads : x # w => work'[x] = work[x]
  BY HubServes DEF HubIInv
<1>2. work[w].new # 0 => work[w].new \in HubGiven
  BY HubPairsAre DEF HubIInv, HubSound, HubGiven
<1>3. Hub!TypeOK'
  <2>1. lost' \subseteq Hub!Pairs
    BY <1>2, HubPairsAre DEF HubIInv, Hub!TypeOK
  <2>2. QED BY <1>1, <2>1 DEF HubIInv, Hub!TypeOK
<1>4. HubLedger'
  BY <1>2 DEF HubIInv, HubLedger, HubGiven
<1>5. ASSUME NEW x \in Threads PROVE HubSound(work[x])'
  <2>1. HubSound(work'[x])
    BY <1>1 DEF HubIInv
  <2>2. QED BY <2>1 DEF HubSound
<1>6. HubApart'
  BY <1>1 DEF HubIInv, HubApart, HubSound
<1>7. HubCalm'
  <2> SUFFICES ASSUME ~crossed' PROVE HubCalm'
    BY DEF HubCalm
  <2>1. ~crossed /\ HubAlone
    BY DEF HubIInv, HubCalm
  <2>2. HubAlone'
    <3>1. ASSUME NEW x \in Threads, x # w, Hub!Is(x, "revoke") PROVE request.op = "idle"
      BY <2>1, <3>1 DEF HubAlone, Hub!Is
    <3>2. \A x \in Threads : work[x] \in Hub!Work
      BY DEF HubIInv, Hub!TypeOK
    <3>3. \A x \in Threads : work[x].user \in Users
      BY <3>2 DEF Hub!Work
    <3>4. request.user \in Users
      BY DEF Hub!Work
    <3>5. QED BY <1>1, <2>1, <3>1, <3>3, <3>4 DEF HubAlone, Hub!Is
  <2>3. \A x \in Threads : work'[x].new # 0 => work'[x].new \in good
    BY <1>1, <2>1 DEF HubIInv, HubCalm
  <2>4. ASSUME NEW u \in Users, conn[u].id # 0 PROVE HubWorks(u)'
    <3>1. HubWorks(u)
      BY <2>1, <2>4 DEF HubIInv, HubCalm
    <3>2. ASSUME HubSuccessor(w, u), request.new = 0
          PROVE  \E n \in lost' : owner[n] = conn[u].login
      <4>0. work[w].new # 0 /\ work[w].read = conn[u].pair /\ conn[u].pair # 0
        BY <2>4, <3>2, HubPairsAre DEF HubSuccessor, HubIInv, HubLedger
      <4>1. work[w].new \in lost' /\ owner[work[w].new] = owner[work[w].read]
        BY <3>2, <4>0 DEF HubIInv, HubSound
      <4>2. owner[work[w].read] = conn[u].login
        BY <2>4, <4>0 DEF HubIInv, HubLedger
      <4>3. QED BY <4>1, <4>2
    <3>3. ~HubLeaving(w, u)
      BY DEF HubLeaving
    <3>4. \A x \in Threads : x # w =>
              (HubSuccessor(x, u)' <=> HubSuccessor(x, u)) /\ (HubLeaving(x, u)' <=> HubLeaving(x, u))
      BY <1>1, <2>4 DEF HubSuccessor, HubLeaving, Hub!Is
    <3>5. (HubSuccessor(w, u) /\ request.new # 0) => HubSuccessor(w, u)'
      BY <1>1 DEF HubSuccessor
    <3>6. lost \subseteq lost'
      OBVIOUS
    <3>7. QED BY <3>1, <3>2, <3>3, <3>4, <3>5, <3>6 DEF HubWorks
  <2>5. QED BY <2>2, <2>3, <2>4 DEF HubCalm
<1>8. QED BY <1>3, <1>4, <1>5, <1>6, <1>7 DEF HubIInv

(* The pair of a row is of its account, and in no other row.               *)
LEMMA HubOwnPair ==
    ASSUME HubBounds, HubIInv, NEW u \in Users, conn[u].id # 0
    PROVE  /\ conn[u].pair \in HubGiven /\ conn[u].pair # 0 /\ conn[u].login \in Logins
           /\ \A v \in Users : v # u => conn[v].pair # conn[u].pair
<1>1. /\ conn[u].pair \in HubGiven /\ conn[u].pair # 0
      /\ conn[u].login = owner[conn[u].pair] /\ conn[u].login \in Logins
  BY HubPairsAre DEF HubIInv, HubLedger
<1>2. ASSUME NEW v \in Users, v # u, conn[v].pair = conn[u].pair PROVE FALSE
  <2>1. conn[v].id # 0 /\ conn[v].login = conn[u].login
    BY <1>1, <1>2 DEF HubIInv, HubLedger
  <2>2. QED BY <1>1, <1>2, <2>1 DEF HubIInv, Hub!TypeOK, HubBounds
<1>3. QED BY <1>1, <1>2

(* A request that is idle has nothing; one that is not has no row to mind. *)
LEMMA HubUseKeeps ==
    ASSUME HubBounds, HubIInv, NEW w \in Threads, NEW u \in Users, Hub!Use(w, u) PROVE HubIInv'
<1>1. PICK request : request = [op |-> "refresh", user |-> u, row |-> conn[u].id,
                                read |-> conn[u].pair, new |-> 0]
  OBVIOUS
<1>2. conn[u] \in Hub!Conn /\ 0 \in 0..MaxPairs /\ pairs \in Nat
  BY DEF HubIInv, Hub!TypeOK, HubBounds
<1>3. /\ request \in Hub!Work /\ request.op = "refresh" /\ request.user = u
      /\ request.read = conn[u].pair /\ request.new = 0
  BY <1>1, <1>2 DEF Hub!Work, Hub!Conn
<1>4. HubSound(request)
  <2>1. /\ conn[u].pair \in HubGiven /\ conn[u].pair # 0
        /\ \A v \in Users : v # u => conn[v].pair # conn[u].pair
    BY HubOwnPair DEF Hub!Use
  <2>2. conn[u].pair \in 0..pairs /\ 0 \in 0..pairs
    BY <1>2, <2>1 DEF HubGiven
  <2>3. QED BY <1>3, <2>1, <2>2 DEF HubSound
<1>5. crossed' \in BOOLEAN /\ (crossed => crossed')
  BY Zenon DEF Hub!Use
<1>6. ~crossed' => \A x \in Threads : ~Hub!Is(x, "revoke")
  <2>1. \A x \in Threads : Hub!Is(x, "revoke") => x \in Hub!Others(w) /\ work[x].op \in {"revoke", "delete"}
    BY DEF Hub!Use, Hub!Others, Hub!Is
  <2>2. crossed' <=> (crossed \/ \E x \in Hub!Others(w) : work[x].op \in {"revoke", "delete"} \/ work[x].row = 0)
    BY Zenon DEF Hub!Use
  <2>3. QED BY <2>1, <2>2
<1>7. work' = [work EXCEPT ![w] = request]
  BY <1>1 DEF Hub!Use
<1>8. UNCHANGED <<conn, owner, pairs, good, lost>> /\ conn \in [Users -> Hub!Conn] /\ Hub!Is(w, "idle")
  BY DEF Hub!Use, HubIInv, Hub!TypeOK
<1>9. work[w].new = 0
  BY <1>8 DEF HubIInv, HubSound, Hub!Is
<1>10. QED BY <1>3, <1>4, <1>5, <1>6, <1>7, <1>8, <1>9, HubRequestKeeps DEF Hub!Is

LEMMA HubDisconnectKeeps ==
    ASSUME HubBounds, HubIInv, NEW w \in Threads, NEW u \in Users, Hub!Disconnect(w, u) PROVE HubIInv'
<1>1. PICK request : request = [op |-> "revoke", user |-> u, row |-> conn[u].id,
                                read |-> conn[u].pair, new |-> 0]
  OBVIOUS
<1>2. conn[u] \in Hub!Conn /\ 0 \in 0..MaxPairs /\ pairs \in Nat
  BY DEF HubIInv, Hub!TypeOK, HubBounds
<1>3. /\ request \in Hub!Work /\ request.op = "revoke" /\ request.user = u /\ request.row = conn[u].id
      /\ request.read = conn[u].pair /\ request.new = 0
  BY <1>1, <1>2 DEF Hub!Work, Hub!Conn
<1>4. HubSound(request)
  <2>1. /\ conn[u].pair \in HubGiven /\ conn[u].pair # 0
        /\ \A v \in Users : v # u => conn[v].pair # conn[u].pair
    BY HubOwnPair DEF Hub!Disconnect
  <2>2. conn[u].pair \in 0..pairs /\ 0 \in 0..pairs
    BY <1>2, <2>1 DEF HubGiven
  <2>3. QED BY <1>3, <2>1, <2>2 DEF HubSound
<1>5. crossed' \in BOOLEAN /\ (crossed => crossed')
  BY Zenon DEF Hub!Disconnect
<1>6. ~crossed' => \A x \in Threads : x # w => Hub!Is(x, "idle")
  <2>1. crossed' <=> (crossed \/ Hub!Others(w) # {})
    BY Zenon DEF Hub!Disconnect
  <2>2. QED BY <2>1 DEF Hub!Others
<1>7. work' = [work EXCEPT ![w] = request]
  BY <1>1 DEF Hub!Disconnect
<1>8. /\ UNCHANGED <<conn, owner, pairs, good, lost>> /\ conn \in [Users -> Hub!Conn]
      /\ Hub!Is(w, "idle") /\ conn[u].id # 0
  BY DEF Hub!Disconnect, HubIInv, Hub!TypeOK
<1>9. work[w].new = 0
  BY <1>8 DEF HubIInv, HubSound, Hub!Is
<1>10. QED BY <1>3, <1>4, <1>5, <1>6, <1>7, <1>8, <1>9, HubRequestKeeps DEF Hub!Is

LEMMA HubRefusedKeeps ==
    ASSUME HubBounds, HubIInv, NEW w \in Threads, Hub!Refused(w) PROVE HubIInv'
<1>1. PICK request : request = [work[w] EXCEPT !.op = "expire"]
  OBVIOUS
<1>2. work[w] \in Hub!Work /\ HubSound(work[w]) /\ work[w].op = "refresh"
  BY DEF HubIInv, Hub!TypeOK, Hub!Refused, Hub!Is
<1>3. /\ request \in Hub!Work /\ request.op = "expire" /\ request.user = work[w].user
      /\ request.read = work[w].read /\ request.new = work[w].new
  BY <1>1, <1>2 DEF Hub!Work
<1>4. HubSound(request) /\ work[w].new = 0
  BY <1>2, <1>3 DEF HubSound
<1>5. work' = [work EXCEPT ![w] = request]
  BY <1>1 DEF Hub!Refused, Hub!Step
<1>6. UNCHANGED <<conn, owner, pairs, good, lost, crossed>> /\ conn \in [Users -> Hub!Conn] /\ crossed \in BOOLEAN
  BY DEF Hub!Refused, HubIInv, Hub!TypeOK
<1>7. QED BY <1>2, <1>3, <1>4, <1>5, <1>6, HubRequestKeeps DEF Hub!Is

(* The request ends; a pair it has not stored is lost.                     *)
LEMMA HubDoneKeeps ==
    ASSUME HubBounds, HubIInv, NEW w \in Threads, Hub!Done(w), UNCHANGED <<owner, pairs, good>>,
           conn' \in [Users -> Hub!Conn],
           \A v \in Users : conn'[v].id = conn[v].id /\ conn'[v].login = conn[v].login /\ conn'[v].pair = conn[v].pair,
           crossed' \in BOOLEAN, crossed => crossed', ~crossed' => ~Hub!Is(w, "delete"),
           IF work[w].new = 0 THEN lost' = lost ELSE lost' = lost \cup {work[w].new}
    PROVE  HubIInv'
<1>1. PICK request \in Hub!Work :
          /\ work' = [work EXCEPT ![w] = request]
          /\ request.op = "idle" /\ request.user = work[w].user
          /\ request.row = 0 /\ request.read = 0 /\ request.new = 0
  BY HubEnded DEF HubIInv
<1>2. HubSound(request)
  BY <1>1, HubIdleIsSound
<1>3. /\ lost' = lost \/ (work[w].new # 0 /\ lost' = lost \cup {work[w].new})
      /\ work[w].new # 0 => work[w].new \in lost'
  OBVIOUS
<1>4. QED BY <1>1, <1>2, <1>3, HubRequestKeeps

LEMMA HubStopKeeps ==
    ASSUME HubBounds, HubIInv, NEW w \in Threads, Hub!Stop(w) PROVE HubIInv'
<1>1. crossed' \in BOOLEAN /\ (crossed => crossed') /\ (~crossed' => ~Hub!Is(w, "delete"))
  BY Zenon DEF Hub!Stop
<1>2. Hub!Done(w) /\ UNCHANGED <<conn, owner, pairs, good>> /\ conn \in [Users -> Hub!Conn]
  BY DEF Hub!Stop, HubIInv, Hub!TypeOK
<1>3. lost' = IF work[w].new = 0 THEN lost ELSE lost \cup {work[w].new}
  BY DEF Hub!Stop
<1>4. QED BY <1>1, <1>2, <1>3, HubDoneKeeps

LEMMA HubExpireKeeps ==
    ASSUME HubBounds, HubIInv, NEW w \in Threads, Hub!Expire(w) PROVE HubIInv'
<1>1. /\ conn' \in [Users -> Hub!Conn]
      /\ \A v \in Users : conn'[v].id = conn[v].id /\ conn'[v].login = conn[v].login /\ conn'[v].pair = conn[v].pair
  <2> DEFINE u == work[w].user
  <2>1. u \in Users /\ conn \in [Users -> Hub!Conn] /\ conn[u] \in Hub!Conn
    BY DEF HubIInv, Hub!TypeOK, Hub!Work
  <2>2. PICK kept : kept = [conn[u] EXCEPT !.status = "expired"]
    OBVIOUS
  <2>3. kept \in Hub!Conn /\ kept.id = conn[u].id /\ kept.login = conn[u].login /\ kept.pair = conn[u].pair
    BY <2>1, <2>2 DEF Hub!Conn
  <2>4. conn' = conn \/ conn' = [conn EXCEPT ![u] = kept]
    BY <2>2 DEF Hub!Expire
  <2>5. QED BY <2>1, <2>3, <2>4
<1>2. work[w].new = 0 /\ ~Hub!Is(w, "delete")
  BY DEF Hub!Expire, HubIInv, HubSound, Hub!Is
<1>3. /\ Hub!Done(w) /\ UNCHANGED <<owner, pairs, good, lost, crossed>> /\ crossed \in BOOLEAN
  BY DEF Hub!Expire, HubIInv, Hub!TypeOK
<1>4. QED BY <1>1, <1>2, <1>3, HubDoneKeeps

LEMMA HubSaveKeeps ==
    ASSUME HubBounds, HubIInv, NEW w \in Threads, Hub!Save(w) PROVE HubIInv'
<1>1. /\ UNCHANGED <<conn, owner, pairs, good, crossed>> /\ crossed \in BOOLEAN
      /\ conn \in [Users -> Hub!Conn] /\ work[w] \in Hub!Work /\ HubSound(work[w]) /\ Hub!Is(w, "save")
  BY DEF Hub!Save, HubIInv, Hub!TypeOK
<1>2. work[w].new # 0
  BY <1>1 DEF HubSound, Hub!Is
<1>3. CASE Hub!Taken(work[w].user, owner[work[w].new])
  <2>1. Hub!Done(w) /\ lost' = lost \cup {work[w].new}
    BY <1>3 DEF Hub!Save
  <2>2. QED BY <1>1, <1>2, <2>1, HubDoneKeeps DEF Hub!Is
<1>4. CASE ~Hub!Taken(work[w].user, owner[work[w].new])
  <2>1. PICK request : request = [work[w] EXCEPT !.op = "insert", !.row = conn[work[w].user].id]
    OBVIOUS
  <2>2. conn[work[w].user].id \in 0..MaxPairs
    <3>1. conn[work[w].user] \in Hub!Conn
      BY <1>1 DEF Hub!Work
    <3>2. QED BY <3>1 DEF Hub!Conn
  <2>3. /\ request \in Hub!Work /\ request.op = "insert" /\ request.user = work[w].user
        /\ request.read = work[w].read /\ request.new = work[w].new
    BY <1>1, <2>1, <2>2 DEF Hub!Work
  <2>4. HubSound(request)
    BY <1>1, <1>2, <2>3 DEF HubSound
  <2>5. work' = [work EXCEPT ![w] = request] /\ lost' = lost
    BY <1>4, <2>1 DEF Hub!Save
  <2>6. QED BY <1>1, <1>2, <2>3, <2>4, <2>5, HubRequestKeeps DEF Hub!Is
<1>5. QED BY <1>3, <1>4

LEMMA HubAgeKeeps ==
    ASSUME HubBounds, HubIInv, NEW u \in Users, Hub!Age(u) PROVE HubIInv'
<1>1. /\ conn' \in [Users -> Hub!Conn]
      /\ \A v \in Users : conn'[v].id = conn[v].id /\ conn'[v].login = conn[v].login /\ conn'[v].pair = conn[v].pair
  <2>1. conn \in [Users -> Hub!Conn] /\ conn[u] \in Hub!Conn
    BY DEF HubIInv, Hub!TypeOK
  <2>2. PICK kept : kept = [conn[u] EXCEPT !.old = TRUE]
    OBVIOUS
  <2>3. kept \in Hub!Conn /\ kept.id = conn[u].id /\ kept.login = conn[u].login /\ kept.pair = conn[u].pair
    BY <2>1, <2>2 DEF Hub!Conn
  <2>4. conn' = [conn EXCEPT ![u] = kept]
    BY <2>2 DEF Hub!Age
  <2>5. QED BY <2>1, <2>3, <2>4
<1>2. UNCHANGED <<owner, pairs, good, lost, crossed, work>>
  BY DEF Hub!Age
<1>3. Hub!TypeOK' /\ HubLedger' /\ HubApart'
  BY <1>1, <1>2 DEF HubIInv, Hub!TypeOK, HubLedger, HubGiven, HubApart
<1>4. ASSUME NEW w \in Threads PROVE HubSound(work[w])'
  <2>1. HubSound(work[w])
    BY DEF HubIInv
  <2>2. QED BY <1>1, <1>2, <2>1 DEF HubSound
<1>5. HubCalm'
  <2> SUFFICES ASSUME ~crossed' PROVE HubCalm'
    BY DEF HubCalm
  <2>1. /\ HubAlone /\ \A w \in Threads : work[w].new # 0 => work[w].new \in good
        /\ \A v \in Users : conn[v].id # 0 => HubWorks(v)
    BY <1>2 DEF HubIInv, HubCalm
  <2>2. HubAlone'
    <3>1. \A w \in Threads : work[w] \in Hub!Work
      BY DEF HubIInv, Hub!TypeOK
    <3>2. \A w \in Threads : work[w].user \in Users
      BY <3>1 DEF Hub!Work
    <3>3. QED BY <1>1, <1>2, <2>1, <3>2 DEF HubAlone, Hub!Is
  <2>3. ASSUME NEW v \in Users, conn'[v].id # 0 PROVE HubWorks(v)'
    BY <1>1, <1>2, <2>1, <2>3 DEF HubWorks, HubSuccessor, HubLeaving, Hub!Is
  <2>4. QED BY <1>2, <2>1, <2>2, <2>3 DEF HubCalm
<1>6. QED BY <1>3, <1>4, <1>5 DEF HubIInv

-----------------------------------------------------------------------------
(* GitHub gives a pair: it is no one's yet.                                *)
LEMMA HubPairGiven ==
    ASSUME HubBounds, HubIInv, NEW w \in Threads, NEW request \in Hub!Work, work' = [work EXCEPT ![w] = request],
           NEW login \in Logins, Hub!Give(login), crossed' \in BOOLEAN, conn' = conn,
           good' \subseteq good \cup {pairs + 1}, lost' \subseteq lost \cup {pairs + 1},
           HubSound(request)', request.new \in {0, pairs + 1}, request.read \in {0, work[w].read}
    PROVE  /\ Hub!TypeOK' /\ HubLedger' /\ HubApart' /\ \A x \in Threads : HubSound(work[x])'
           /\ pairs + 1 \notin HubGiven /\ owner'[pairs + 1] = login
           /\ \A n \in HubGiven : owner'[n] = owner[n]
           /\ work'[w] = request /\ \A x \in Threads : x # w => work'[x] = work[x]
<1>1. /\ work' \in [Threads -> Hub!Work] /\ work'[w] = request
      /\ \A x \in Threads : x # w => work'[x] = work[x]
  BY HubServes DEF HubIInv
<1>2. /\ pairs \in Nat /\ pairs' = pairs + 1 /\ pairs + 1 \in Hub!Pairs /\ pairs + 1 \notin HubGiven
      /\ HubGiven \subseteq Hub!Pairs /\ HubGiven' = HubGiven \cup {pairs + 1}
  BY HubPairsAre DEF Hub!Give, HubBounds, Hub!Pairs, HubGiven
<1>3. owner \in [Hub!Pairs -> Logins \cup {Nobody}]
  BY DEF HubIInv, Hub!TypeOK
<1>4. /\ owner' \in [Hub!Pairs -> Logins \cup {Nobody}] /\ owner'[pairs + 1] = login
      /\ \A n \in HubGiven : owner'[n] = owner[n]
  BY <1>2, <1>3 DEF Hub!Give
<1>5. Hub!TypeOK'
  <2>1. good' \subseteq Hub!Pairs /\ lost' \subseteq Hub!Pairs
    BY <1>2 DEF HubIInv, Hub!TypeOK
  <2>2. pairs' \in 0..MaxPairs
    BY <1>2 DEF Hub!Give, HubBounds
  <2>3. QED BY <1>1, <1>4, <2>1, <2>2 DEF HubIInv, Hub!TypeOK
<1>6. HubLedger'
  <2>1. good' \subseteq HubGiven' /\ lost' \subseteq HubGiven'
    BY <1>2 DEF HubIInv, HubLedger
  <2>2. \A n \in HubGiven' : owner'[n] \in Logins
    BY <1>2, <1>4 DEF HubIInv, HubLedger
  <2>3. \A u \in Users : conn[u].id # 0 => conn[u].pair \in HubGiven' /\ conn[u].login = owner'[conn[u].pair]
    BY <1>2, <1>4 DEF HubIInv, HubLedger
  <2>4. QED BY <2>1, <2>2, <2>3 DEF HubIInv, HubLedger
<1>7. \A u \in Users : conn[u].pair # pairs + 1
  BY <1>2, HubPairsAre DEF HubIInv, HubLedger
<1>8. ASSUME NEW x \in Threads PROVE HubSound(work[x])'
  <2>1. CASE x = w
    BY <1>1, <2>1
  <2>2. CASE x # w
    <3>1. HubSound(work[x])
      BY DEF HubIInv
    <3>2. /\ work[x].read # 0 => owner'[work[x].read] = owner[work[x].read]
          /\ work[x].new # 0 => owner'[work[x].new] = owner[work[x].new]
          /\ work[x].read \in 0..pairs' /\ work[x].new \in 0..pairs'
      BY <1>2, <1>4, <3>1 DEF HubSound, HubGiven
    <3>3. work'[x] = work[x] /\ conn' = conn
      BY <1>1, <2>2
    <3>4. QED BY <3>1, <3>2, <3>3 DEF HubSound
  <2>3. QED BY <2>1, <2>2
<1>9. HubApart'
  <2>1. ASSUME NEW x \in Threads PROVE work[x].new # pairs + 1 /\ work[x].read # pairs + 1
    BY <1>2 DEF HubIInv, HubSound
  <2>2. request.read # pairs + 1
    BY <1>2, <2>1
  <2>3. ASSUME NEW x \in Threads, x # w, work[x].new # 0
        PROVE  request.new # work[x].new /\ request.read # work[x].new
    BY <2>1, <2>3 DEF HubIInv, HubApart
  <2>4. QED BY <1>1, <2>1, <2>2, <2>3 DEF HubIInv, HubApart
<1>10. QED BY <1>1, <1>2, <1>4, <1>5, <1>6, <1>8, <1>9

LEMMA HubConnectKeeps ==
    ASSUME HubBounds, HubIInv, NEW w \in Threads, NEW u \in Users, NEW login \in Logins, Hub!Connect(w, u, login)
    PROVE  HubIInv'
<1>1. PICK request : request = [op |-> "save", user |-> u, row |-> 0, read |-> 0, new |-> pairs + 1]
  OBVIOUS
<1>2. /\ pairs \in Nat /\ pairs + 1 # 0 /\ pairs + 1 \notin HubGiven /\ pairs + 1 \in 0..MaxPairs
      /\ 0 \in 0..MaxPairs /\ pairs + 1 \in 0..(pairs + 1) /\ 0 \in 0..(pairs + 1)
  BY HubPairsAre DEF Hub!Connect, Hub!Give, HubBounds
<1>3. /\ request \in Hub!Work /\ request.op = "save" /\ request.read = 0 /\ request.new = pairs + 1
  BY <1>1, <1>2 DEF Hub!Work
<1>4. /\ Hub!Give(login) /\ pairs' = pairs + 1 /\ good' = good \cup {pairs + 1} /\ conn' = conn /\ lost' = lost
      /\ Hub!Is(w, "idle") /\ work' = [work EXCEPT ![w] = request]
  BY <1>1 DEF Hub!Connect, Hub!Give
<1>5. crossed' \in BOOLEAN /\ (crossed => crossed')
  BY Zenon DEF Hub!Connect
<1>6. ~crossed' => \A x \in Threads : x # w => Hub!Is(x, "idle")
  <2>1. crossed' <=> (crossed \/ Hub!Others(w) # {})
    BY Zenon DEF Hub!Connect
  <2>2. QED BY <2>1 DEF Hub!Others
<1>7. \A v \in Users : conn[v].pair # pairs + 1
  BY <1>2, HubPairsAre DEF HubIInv, HubLedger
<1>8. HubSound(request)'
  BY <1>2, <1>3, <1>4, <1>7 DEF HubSound
<1>9. /\ Hub!TypeOK' /\ HubLedger' /\ HubApart' /\ \A x \in Threads : HubSound(work[x])'
      /\ \A n \in HubGiven : owner'[n] = owner[n]
      /\ work'[w] = request /\ \A x \in Threads : x # w => work'[x] = work[x]
  BY <1>2, <1>3, <1>4, <1>5, <1>8, HubPairGiven
<1>10. HubCalm'
  <2> SUFFICES ASSUME ~crossed' PROVE HubCalm'
    BY DEF HubCalm
  <2>1. /\ \A x \in Threads : work[x].new # 0 => work[x].new \in good
        /\ \A v \in Users : conn[v].id # 0 => HubWorks(v)
    BY <1>5 DEF HubIInv, HubCalm
  <2>2. HubAlone'
    BY <1>3, <1>6, <1>9 DEF HubAlone, Hub!Is
  <2>3. \A x \in Threads : work'[x].new # 0 => work'[x].new \in good'
    BY <1>3, <1>4, <1>9, <2>1
  <2>4. work[w].new = 0 /\ ~Hub!Is(w, "delete")
    BY <1>4 DEF HubIInv, HubSound, Hub!Is
  <2>5. ASSUME NEW v \in Users, conn[v].id # 0 PROVE HubWorks(v)'
    <3>1. \A n \in lost : owner'[n] = owner[n]
      BY <1>9 DEF HubIInv, HubLedger
    <3>2. QED BY <1>4, <1>9, <2>1, <2>4, <2>5, <3>1 DEF HubWorks, HubSuccessor, HubLeaving, Hub!Is
  <2>6. QED BY <1>4, <2>2, <2>3, <2>5 DEF HubCalm
<1>11. QED BY <1>9, <1>10 DEF HubIInv

(* GitHub takes the stored refresh token once, and gives the next pair.    *)
LEMMA HubRefreshKeeps ==
    ASSUME HubBounds, HubIInv, NEW w \in Threads, Hub!Refresh(w) PROVE HubIInv'
<1> DEFINE old == work[w].read
<1>1. /\ work[w] \in Hub!Work /\ HubSound(work[w]) /\ Hub!Is(w, "refresh") /\ old \in good /\ old \in HubGiven
      /\ owner[old] \in Logins /\ crossed \in BOOLEAN /\ work[w].new = 0 /\ old # 0
  BY HubPairsAre DEF Hub!Refresh, HubIInv, Hub!TypeOK, HubLedger, HubSound, Hub!Is
<1>2. /\ pairs \in Nat /\ pairs + 1 # 0 /\ pairs + 1 \notin HubGiven /\ pairs + 1 \in 0..MaxPairs
      /\ 0 \in 0..MaxPairs /\ pairs + 1 \in 0..(pairs + 1) /\ 0 \in 0..(pairs + 1)
      /\ old \in 0..(pairs + 1) /\ old # pairs + 1
  BY <1>1, HubPairsAre DEF Hub!Refresh, Hub!Give, HubBounds, HubGiven
<1>3. /\ Hub!Give(owner[old]) /\ pairs' = pairs + 1 /\ conn' = conn /\ crossed' = crossed
      /\ good' = (good \ {old}) \cup {pairs + 1}
  BY DEF Hub!Refresh, Hub!Give
<1>4. PICK request \in Hub!Work :
          /\ work' = [work EXCEPT ![w] = request]
          /\ request.user = work[w].user /\ request.read = old
          /\ \/ request.op = "save" /\ request.new = pairs + 1 /\ lost' = lost
             \/ request.op = "expire" /\ request.new = 0 /\ lost' = lost \cup {pairs + 1}
  <2>1. PICK stored : stored = [work[w] EXCEPT !.op = "save", !.new = pairs + 1]
    OBVIOUS
  <2>2. /\ stored \in Hub!Work /\ stored.op = "save" /\ stored.user = work[w].user
        /\ stored.read = old /\ stored.new = pairs + 1
    BY <1>1, <1>2, <2>1 DEF Hub!Work
  <2>3. PICK dropped : dropped = [work[w] EXCEPT !.op = "expire"]
    OBVIOUS
  <2>4. /\ dropped \in Hub!Work /\ dropped.op = "expire" /\ dropped.user = work[w].user
        /\ dropped.read = old /\ dropped.new = 0
    BY <1>1, <2>3 DEF Hub!Work
  <2>5. \/ work' = [work EXCEPT ![w] = stored] /\ lost' = lost
        \/ work' = [work EXCEPT ![w] = dropped] /\ lost' = lost \cup {pairs + 1}
    <3>1. work \in [Threads -> Hub!Work]
      BY DEF HubIInv, Hub!TypeOK
    <3>2. QED BY <2>1, <2>3, <3>1 DEF Hub!Refresh, Hub!Step
  <2>6. CASE work' = [work EXCEPT ![w] = stored] /\ lost' = lost
    BY <2>2, <2>6
  <2>7. CASE work' = [work EXCEPT ![w] = dropped] /\ lost' = lost \cup {pairs + 1}
    BY <2>4, <2>7
  <2>8. QED BY <2>5, <2>6, <2>7
<1>5. owner' \in [Hub!Pairs -> Logins \cup {Nobody}] /\ owner'[pairs + 1] = owner[old] /\ owner'[old] = owner[old]
  BY <1>1, <1>2, HubPairsAre DEF Hub!Refresh, Hub!Give, HubIInv, Hub!TypeOK, Hub!Pairs, HubBounds
<1>6. \A v \in Users : conn[v].pair # pairs + 1
  BY <1>2, HubPairsAre DEF HubIInv, HubLedger
<1>7. HubSound(request)'
  BY <1>1, <1>2, <1>3, <1>4, <1>5, <1>6 DEF HubSound
<1>8. /\ Hub!TypeOK' /\ HubLedger' /\ HubApart' /\ \A x \in Threads : HubSound(work[x])'
      /\ \A n \in HubGiven : owner'[n] = owner[n]
      /\ work'[w] = request /\ \A x \in Threads : x # w => work'[x] = work[x]
  <2>1. good' \subseteq good \cup {pairs + 1} /\ lost' \subseteq lost \cup {pairs + 1} /\ crossed' \in BOOLEAN
    BY <1>1, <1>3, <1>4
  <2>2. request.new \in {0, pairs + 1} /\ request.read \in {0, work[w].read}
    BY <1>4
  <2>3. QED BY <1>1, <1>3, <1>4, <1>7, <2>1, <2>2, HubPairGiven
<1>9. HubCalm'
  <2> SUFFICES ASSUME ~crossed PROVE HubCalm'
    BY <1>3 DEF HubCalm
  <2>1. /\ HubAlone /\ \A x \in Threads : work[x].new # 0 => work[x].new \in good
        /\ \A v \in Users : conn[v].id # 0 => HubWorks(v)
    BY DEF HubIInv, HubCalm
  <2>2. HubAlone'
    <3>1. \A x \in Threads : ~Hub!Is(x, "revoke")
      BY <1>1, <2>1 DEF HubAlone, Hub!Is
    <3>2. QED BY <1>4, <1>8, <3>1 DEF HubAlone, Hub!Is
  <2>3. ASSUME NEW x \in Threads, work'[x].new # 0 PROVE work'[x].new \in good'
    <3>1. CASE x = w
      BY <1>3, <1>4, <1>8, <2>3, <3>1
    <3>2. CASE x # w
      <4>1. work[x].new \in good /\ work[x].new # old
        BY <1>1, <1>8, <2>1, <2>3, <3>2 DEF HubIInv, HubApart
      <4>2. QED BY <1>3, <1>8, <3>2, <4>1
    <3>3. QED BY <3>1, <3>2
  <2>4. ASSUME NEW v \in Users, conn[v].id # 0 PROVE HubWorks(v)'
    <3>1. CASE conn[v].pair \in good /\ conn[v].pair # old
      BY <1>3, <3>1 DEF HubWorks
    <3>2. CASE conn[v].pair = old
      <4>1. v = work[w].user /\ conn[v].login = owner[old]
        BY <1>1, <2>4, <3>2 DEF HubIInv, HubSound, HubLedger
      <4>2. CASE request.new = pairs + 1
        BY <1>2, <1>3, <1>4, <1>8, <3>2, <4>1, <4>2 DEF HubWorks, HubSuccessor
      <4>3. CASE lost' = lost \cup {pairs + 1}
        BY <1>3, <1>5, <4>1, <4>3 DEF HubWorks
      <4>4. QED BY <1>4, <4>2, <4>3
    <3>3. CASE \E x \in Threads : HubSuccessor(x, v) \/ HubLeaving(x, v)
      <4>1. PICK x \in Threads : HubSuccessor(x, v) \/ HubLeaving(x, v)
        BY <3>3
      <4>2. x # w
        BY <1>1, <4>1 DEF HubSuccessor, HubLeaving, Hub!Is
      <4>3. QED BY <1>3, <1>8, <4>1, <4>2 DEF HubWorks, HubSuccessor, HubLeaving, Hub!Is
    <3>4. CASE \E n \in lost : owner[n] = conn[v].login
      <4>1. lost \subseteq HubGiven /\ lost \subseteq lost'
        BY <1>4 DEF HubIInv, HubLedger
      <4>2. QED BY <1>3, <1>8, <3>4, <4>1 DEF HubWorks
    <3>5. QED BY <2>1, <2>4, <3>1, <3>2, <3>3, <3>4 DEF HubWorks
  <2>5. QED BY <1>3, <2>2, <2>3, <2>4 DEF HubCalm
<1>10. QED BY <1>8, <1>9 DEF HubIInv

-----------------------------------------------------------------------------
(* The pair is stored, or lost with the request.                           *)
LEMMA HubInsertKeeps ==
    ASSUME HubBounds, HubIInv, NEW w \in Threads, Hub!Insert(w) PROVE HubIInv'
<1> DEFINE next == work[w].new
<1>0. PICK u \in Users : u = work[w].user
  BY DEF HubIInv, Hub!TypeOK, Hub!Work
<1> USE <1>0
<1>1. /\ Hub!Done(w) /\ UNCHANGED <<owner, pairs, good, crossed>> /\ crossed \in BOOLEAN
      /\ work[w] \in Hub!Work /\ HubSound(work[w]) /\ Hub!Is(w, "insert") /\ u \in Users
      /\ conn \in [Users -> Hub!Conn]
  BY DEF Hub!Insert, HubIInv, Hub!TypeOK, Hub!Work
<1>2. next # 0 /\ next \in HubGiven /\ next \in 0..MaxPairs /\ owner[next] \in Logins
  <2>1. next # 0 /\ next \in 0..pairs
    BY <1>1 DEF HubSound, Hub!Is
  <2>2. QED BY <2>1, HubPairsAre DEF HubIInv, HubLedger, HubGiven, HubBounds
<1>3. CASE ~(Hub!Same(w) /\ Hub!Unique(w))
  BY <1>1, <1>2, <1>3, HubDoneKeeps DEF Hub!Insert, Hub!Is
<1>4. CASE Hub!Same(w) /\ Hub!Unique(w)
  <2>1. PICK kept : kept = Hub!Stored(w)
    OBVIOUS
  <2>2. kept \in Hub!Conn /\ kept.id # 0 /\ kept.login = owner[next] /\ kept.pair = next
    <3>1. work[w].row \in 0..MaxPairs
      BY <1>1 DEF Hub!Work
    <3>2. QED BY <1>2, <2>1, <3>1 DEF Hub!Stored, Hub!Conn
  <2>3. /\ conn' \in [Users -> Hub!Conn] /\ conn'[u] = kept /\ lost' = lost
        /\ \A v \in Users : v # u => conn'[v] = conn[v]
    BY <1>1, <1>4, <2>1, <2>2 DEF Hub!Insert
  <2>4. PICK request \in Hub!Work :
            /\ work' = [work EXCEPT ![w] = request]
            /\ request.op = "idle" /\ request.read = 0 /\ request.new = 0
    BY <1>1, HubEnded DEF HubIInv
  <2>5. /\ work' \in [Threads -> Hub!Work] /\ work'[w] = request
        /\ \A x \in Threads : x # w => work'[x] = work[x]
    BY <2>4, HubServes DEF HubIInv
  <2>6. \A v \in Users : v # u => conn[v].login # kept.login
    BY <1>4, <2>2 DEF Hub!Unique, Hub!Taken
  <2>7. Hub!TypeOK'
    <3>1. \A v, x \in Users : (v # x /\ conn'[v].login = conn'[x].login) => conn'[v].login = Nobody
      BY <2>3, <2>6 DEF HubIInv, Hub!TypeOK
    <3>2. QED BY <1>1, <2>3, <2>5, <3>1 DEF HubIInv, Hub!TypeOK
  <2>8. HubLedger'
    BY <1>1, <1>2, <2>2, <2>3 DEF HubIInv, HubLedger, HubGiven
  <2>9. ASSUME NEW x \in Threads PROVE HubSound(work[x])'
    <3>1. CASE x = w
      <4>1. 0 \in 0..pairs
        BY DEF HubIInv, Hub!TypeOK
      <4>2. QED BY <1>1, <2>4, <2>5, <3>1, <4>1 DEF HubSound
    <3>2. CASE x # w
      <4>1. HubSound(work[x]) /\ work[x].new # next /\ work[x].read # next
        BY <1>2, <3>2 DEF HubIInv, HubApart
      <4>2. \A v \in Users : conn'[v].pair = conn[v].pair \/ conn'[v].pair = next
        BY <2>2, <2>3
      <4>3. QED BY <1>1, <2>5, <3>2, <4>1, <4>2 DEF HubSound
    <3>3. QED BY <3>1, <3>2
  <2>10. HubApart'
    BY <2>4, <2>5 DEF HubIInv, HubApart, HubSound
  <2>11. HubCalm'
    <3> SUFFICES ASSUME ~crossed PROVE HubCalm'
      BY <1>1 DEF HubCalm
    <3>1. /\ HubAlone /\ \A x \in Threads : work[x].new # 0 => work[x].new \in good
          /\ \A v \in Users : conn[v].id # 0 => HubWorks(v)
      BY DEF HubIInv, HubCalm
    <3>2. HubAlone'
      <4>1. \A x \in Threads : ~Hub!Is(x, "revoke")
        BY <1>1, <3>1 DEF HubAlone, Hub!Is
      <4>2. QED BY <2>4, <2>5, <4>1 DEF HubAlone, Hub!Is
    <3>3. \A x \in Threads : work'[x].new # 0 => work'[x].new \in good
      BY <2>4, <2>5, <3>1
    <3>4. HubWorks(u)'
      BY <1>1, <1>2, <2>2, <2>3, <3>1 DEF HubWorks
    <3>5. ASSUME NEW v \in Users, v # u, conn[v].id # 0 PROVE HubWorks(v)'
      <4>1. ~HubSuccessor(w, v) /\ ~HubLeaving(w, v)
        BY <3>5 DEF HubSuccessor, HubLeaving
      <4>2. QED BY <1>1, <2>3, <2>5, <3>1, <3>5, <4>1 DEF HubWorks, HubSuccessor, HubLeaving, Hub!Is
    <3>6. QED BY <1>1, <2>3, <3>2, <3>3, <3>4, <3>5 DEF HubCalm
  <2>12. QED BY <2>7, <2>8, <2>9, <2>10, <2>11 DEF HubIInv
<1>5. QED BY <1>3, <1>4

(* The row is deleted unless it is another one by now.                     *)
LEMMA HubDeleteKeeps ==
    ASSUME HubBounds, HubIInv, NEW w \in Threads, Hub!Delete(w) PROVE HubIInv'
<1>0. PICK u \in Users : u = work[w].user
  BY DEF HubIInv, Hub!TypeOK, Hub!Work
<1> USE <1>0
<1>1. /\ Hub!Done(w) /\ UNCHANGED <<owner, pairs, good, lost, crossed>> /\ crossed \in BOOLEAN
      /\ work[w] \in Hub!Work /\ HubSound(work[w]) /\ Hub!Is(w, "delete") /\ u \in Users
      /\ conn \in [Users -> Hub!Conn]
  BY DEF Hub!Delete, HubIInv, Hub!TypeOK, Hub!Work
<1>2. PICK request \in Hub!Work :
          /\ work' = [work EXCEPT ![w] = request]
          /\ request.op = "idle" /\ request.read = 0 /\ request.new = 0
  BY <1>1, HubEnded DEF HubIInv
<1>3. /\ work' \in [Threads -> Hub!Work] /\ work'[w] = request
      /\ \A x \in Threads : x # w => work'[x] = work[x]
  BY <1>2, HubServes DEF HubIInv
<1>4. /\ conn' \in [Users -> Hub!Conn]
      /\ \A v \in Users : conn'[v] = conn[v] \/ (v = u /\ Hub!Same(w) /\ conn'[v] = Hub!NoRow)
  BY <1>1, HubNoRowIs DEF Hub!Delete
<1>5. Hub!TypeOK'
  <2>1. \A v, x \in Users : (v # x /\ conn'[v].login = conn'[x].login) => conn'[v].login = Nobody
    BY <1>4, HubNoRowIs DEF HubIInv, Hub!TypeOK
  <2>2. QED BY <1>1, <1>3, <1>4, <2>1 DEF HubIInv, Hub!TypeOK
<1>6. HubLedger'
  BY <1>1, <1>4, HubNoRowIs DEF HubIInv, HubLedger, HubGiven
<1>7. ASSUME NEW x \in Threads PROVE HubSound(work[x])'
  <2>1. CASE x = w
    <3>1. 0 \in 0..pairs
      BY DEF HubIInv, Hub!TypeOK
    <3>2. QED BY <1>1, <1>2, <1>3, <2>1, <3>1 DEF HubSound
  <2>2. CASE x # w
    <3>1. HubSound(work[x])
      BY DEF HubIInv
    <3>2. \A v \in Users : conn'[v].pair = conn[v].pair \/ conn'[v].pair = 0
      BY <1>4, HubNoRowIs
    <3>3. QED BY <1>1, <1>3, <2>2, <3>1, <3>2 DEF HubSound
  <2>3. QED BY <2>1, <2>2
<1>8. HubApart'
  BY <1>2, <1>3 DEF HubIInv, HubApart, HubSound
<1>9. HubCalm'
  <2> SUFFICES ASSUME ~crossed PROVE HubCalm'
    BY <1>1 DEF HubCalm
  <2>1. /\ HubAlone /\ \A x \in Threads : work[x].new # 0 => work[x].new \in good
        /\ \A v \in Users : conn[v].id # 0 => HubWorks(v)
    BY DEF HubIInv, HubCalm
  <2>2. HubAlone'
    <3>1. \A x \in Threads : ~Hub!Is(x, "revoke")
      BY <1>1, <2>1 DEF HubAlone, Hub!Is
    <3>2. QED BY <1>2, <1>3, <3>1 DEF HubAlone, Hub!Is
  <2>3. \A x \in Threads : work'[x].new # 0 => work'[x].new \in good
    BY <1>2, <1>3, <2>1
  <2>4. ASSUME NEW v \in Users, conn'[v].id # 0 PROVE HubWorks(v)'
    <3>1. conn'[v] = conn[v] /\ ~(v = u /\ Hub!Same(w))
      BY <1>1, <1>4, <2>4, HubNoRowIs DEF Hub!Delete
    <3>2. ~HubSuccessor(w, v) /\ ~HubLeaving(w, v)
      BY <1>1, <3>1 DEF HubSuccessor, HubLeaving, Hub!Same, HubSound, Hub!Is
    <3>3. HubWorks(v)
      BY <2>1, <2>4, <3>1
    <3>4. QED BY <1>1, <1>3, <3>1, <3>2, <3>3 DEF HubWorks, HubSuccessor, HubLeaving, Hub!Is
  <2>5. QED BY <1>1, <2>2, <2>3, <2>4 DEF HubCalm
<1>10. QED BY <1>5, <1>6, <1>7, <1>8, <1>9 DEF HubIInv

(* The grant of one GitHub account is revoked: no other row is of it.      *)
LEMMA HubRevokeKeeps ==
    ASSUME HubBounds, HubIInv, NEW w \in Threads, Hub!Revoke(w) PROVE HubIInv'
<1>0. PICK u \in Users : u = work[w].user
  BY DEF HubIInv, Hub!TypeOK, Hub!Work
<1> USE <1>0
<1>1. /\ UNCHANGED <<conn, owner, pairs, lost, crossed>> /\ crossed \in BOOLEAN /\ good' \subseteq good
      /\ good' = good \/ good' = {n \in good : owner[n] # owner[work[w].read]}
      /\ work[w] \in Hub!Work /\ HubSound(work[w]) /\ Hub!Is(w, "revoke") /\ u \in Users
  BY DEF Hub!Revoke, HubIInv, Hub!TypeOK, Hub!Work
<1>2. PICK request : request = [work[w] EXCEPT !.op = "delete"]
  OBVIOUS
<1>3. /\ request \in Hub!Work /\ request.op = "delete" /\ request.user = u /\ request.row = work[w].row
      /\ request.read = work[w].read /\ request.new = work[w].new /\ work[w].new = 0
  BY <1>1, <1>2 DEF Hub!Work, HubSound, Hub!Is
<1>4. work' = [work EXCEPT ![w] = request]
  BY <1>2 DEF Hub!Revoke, Hub!Step
<1>5. /\ work' \in [Threads -> Hub!Work] /\ work'[w] = request
      /\ \A x \in Threads : x # w => work'[x] = work[x]
  BY <1>3, <1>4, HubServes DEF HubIInv
<1>6. Hub!TypeOK' /\ HubLedger'
  BY <1>1, <1>5 DEF HubIInv, Hub!TypeOK, HubLedger, HubGiven
<1>7. ASSUME NEW x \in Threads PROVE HubSound(work[x])'
  <2>1. HubSound(work'[x])
    <3>1. HubSound(request)
      BY <1>1, <1>3 DEF HubSound
    <3>2. QED BY <1>5, <3>1 DEF HubIInv
  <2>2. QED BY <1>1, <2>1 DEF HubSound
<1>8. HubApart'
  BY <1>3, <1>5 DEF HubIInv, HubApart
<1>9. HubCalm'
  <2> SUFFICES ASSUME ~crossed PROVE HubCalm'
    BY <1>1 DEF HubCalm
  <2>1. /\ \A x \in Threads : x # w => Hub!Is(x, "idle")
        /\ work[w].row # 0 /\ conn[u].id = work[w].row /\ conn[u].pair = work[w].read
        /\ \A v \in Users : conn[v].id # 0 => HubWorks(v)
    BY <1>1 DEF HubIInv, HubCalm, HubAlone
  <2>2. \A x \in Threads : work[x].new = 0
    BY <1>3, <2>1 DEF HubIInv, HubSound, Hub!Is
  <2>3. HubAlone' /\ \A x \in Threads : work'[x].new = 0
    BY <1>3, <1>5, <2>1, <2>2 DEF HubAlone, Hub!Is
  <2>4. HubWorks(u)'
    BY <1>1, <1>3, <1>5, <2>1 DEF HubWorks, HubLeaving, Hub!Is
  <2>5. ASSUME NEW v \in Users, v # u, conn[v].id # 0 PROVE HubWorks(v)'
    <3>1. conn[v].login = owner[conn[v].pair] /\ conn[v].login \in Logins
      BY <2>5, HubOwnPair DEF HubIInv, HubLedger
    <3>2. conn[u].login = owner[work[w].read]
      BY <1>1, <2>1 DEF HubIInv, HubLedger
    <3>3. conn[v].login # conn[u].login
      BY <1>1, <2>5, <3>1 DEF HubIInv, Hub!TypeOK, HubBounds
    <3>4. conn[v].pair \in good => conn[v].pair \in good'
      BY <1>1, <3>1, <3>2, <3>3
    <3>5. \A x \in Threads : ~HubSuccessor(x, v) /\ ~HubLeaving(x, v)
      BY <1>1, <2>1, <2>2 DEF HubSuccessor, HubLeaving, Hub!Is
    <3>6. QED BY <1>1, <2>1, <2>5, <3>4, <3>5 DEF HubWorks
  <2>6. QED BY <1>1, <2>3, <2>4, <2>5 DEF HubCalm
<1>10. QED BY <1>6, <1>7, <1>8, <1>9 DEF HubIInv

LEMMA HubNextIInv == ASSUME HubBounds, HubIInv, [Hub!Next]_Hub!vars PROVE HubIInv'
<1>1. ASSUME NEW w \in Threads, NEW u \in Users,
             Hub!Use(w, u) \/ Hub!Disconnect(w, u) \/ \E g \in Logins : Hub!Connect(w, u, g)
      PROVE  HubIInv'
  BY <1>1, HubUseKeeps, HubDisconnectKeeps, HubConnectKeeps
<1>2. ASSUME NEW w \in Threads,
             \/ Hub!Refresh(w) \/ Hub!Refused(w) \/ Hub!Expire(w) \/ Hub!Save(w) \/ Hub!Insert(w)
             \/ Hub!Revoke(w) \/ Hub!Delete(w) \/ Hub!Stop(w)
      PROVE  HubIInv'
  BY <1>2, HubRefreshKeeps, HubRefusedKeeps, HubExpireKeeps, HubSaveKeeps, HubInsertKeeps,
     HubRevokeKeeps, HubDeleteKeeps, HubStopKeeps
<1>3. ASSUME NEW u \in Users, Hub!Age(u) PROVE HubIInv'
  BY <1>3, HubAgeKeeps
<1>4. CASE UNCHANGED Hub!vars
  <2>1. UNCHANGED <<conn, owner, pairs, good, lost, crossed, work>>
    BY <1>4 DEF Hub!vars
  <2>2. Hub!TypeOK' /\ HubLedger' /\ HubApart' /\ HubCalm'
    BY <2>1 DEF HubIInv, Hub!TypeOK, HubLedger, HubGiven, HubApart, HubCalm, HubAlone, HubWorks,
       HubSuccessor, HubLeaving, Hub!Is
  <2>3. ASSUME NEW w \in Threads PROVE HubSound(work[w])'
    <3>1. HubSound(work[w])
      BY DEF HubIInv
    <3>2. QED BY <2>1, <3>1 DEF HubSound
  <2>4. QED BY <2>2, <2>3 DEF HubIInv
<1>5. QED BY <1>1, <1>2, <1>3, <1>4 DEF Hub!Next

(* A behaviour of the composition is one of GitHubToken, with steps that   *)
(* leave it alone.                                                         *)
LEMMA HubSpec == PeopleSpec => Hub!Spec
<1>1. PeopleInit => Hub!Init
  BY DEF PeopleInit
<1>2. [PeopleNext]_peopleVars => [Hub!Next]_Hub!vars
  BY DEF PeopleNext, peopleVars, gitHubVars, Hub!vars
<1>3. QED BY <1>1, <1>2, PTL DEF PeopleSpec, Hub!Spec

LEMMA HubInvariant == PeopleSpec => []HubIInv
<1>1. Hub!Init => HubIInv
  BY HubInitIInv, NobodyAssumption DEF HubBounds
<1>2. HubIInv /\ [Hub!Next]_Hub!vars => HubIInv'
  BY HubNextIInv, NobodyAssumption DEF HubBounds
<1>3. QED BY <1>1, <1>2, HubSpec, PTL DEF Hub!Spec

(* However many requests refresh, connect and disconnect at once: a stored *)
(* refresh token is one GitHub still takes, its successor is with the      *)
(* request that will store it, or a pair of the account was given and      *)
(* never stored.                                                           *)
THEOREM StoredPairWorksAlways == PeopleSpec => []StoredPairWorks
<1>1. HubIInv => StoredPairWorks
  BY HubHolds DEF StoredPairWorks
<1>2. QED BY <1>1, HubInvariant, PTL

-----------------------------------------------------------------------------
(* Visibility: who may open what of one person's work.                     *)

(* A visitor without an account is none of the people; only others join;   *)
(* Absent is no project.                                                   *)
ViewBounds ==
    /\ Nobody \notin View!People /\ Joiners \subseteq OtherPeople /\ Subject \notin OtherPeople
    /\ Absent \notin View!ProjectRows

-----------------------------------------------------------------------------
(* The two ways the rule is written.                                       *)
LEMMA ViewProfileIs ==
    ASSUME View!TypeOK
    PROVE  /\ profile.profile_visibility \in View!Audience /\ profile.activity_visibility \in View!Audience
           /\ profile.comment_policy \in {"anyone", "connections"}
BY DEF View!TypeOK, View!Settings

LEMMA ViewDefaultIs ==
    /\ View!Default.profile_visibility = "public" /\ View!Default.activity_visibility = "public"
    /\ View!Default.comment_policy = "anyone"
BY DEF View!Default

(* A project's page opens for whom the SQL condition lets through.         *)
LEMMA ViewOneCondition ==
    ASSUME ViewBounds, NEW v \in View!Viewers, NEW p
    PROVE  View!ProjectAccess(v, p).view <=> View!VisibleProjectFilter(v, p)
<1>1. View!ProjectAccess(v, p).view <=>
          (v = Subject \/ View!Member(v, p) \/ (project[p].public /\ View!ProfileOpenTo(Subject, v)))
  BY DEF View!ProjectAccess
<1>2. ASSUME v # Subject PROVE View!ProfileOpenTo(Subject, v) <=> View!AudienceClause(Subject, "profile_visibility", v)
  BY <1>2 DEF View!ProfileOpenTo, View!AudienceClause, View!IsConnected, View!Setting
<1>3. QED BY <1>1, <1>2 DEF View!VisibleProjectFilter, View!PublicProjectFilter

LEMMA ViewSamePages ==
    ASSUME ViewBounds, NEW v \in View!Viewers
    PROVE  View!CanView(v) = View!OpensPage(v) /\ View!ListPublic(v) \subseteq View!OpensPage(v)
<1>1. View!CanView(v) = View!OpensPage(v)
  BY ViewOneCondition DEF View!CanView, View!OpensPage
<1>2. View!ListPublic(v) \subseteq View!CanView(v)
  BY DEF View!ListPublic, View!CanView, View!VisibleProjectFilter
<1>3. QED BY <1>1, <1>2

(* What the response says of commenting is what the handler asks.          *)
LEMMA ViewSameComments ==
    ASSUME ViewBounds, NEW v \in View!Viewers, v # Nobody, NEW p
    PROVE  View!ProjectAccess(v, p).comment = View!AddsComment(v, p)
<1>1. View!ProjectAccess(v, p).comment <=> View!AddsComment(v, p)
  <2>1. View!ProjectAccess(v, p).comment <=>
            \/ v = Subject
            \/ View!Member(v, p) /\ View!LevelCanComment(View!AccessOf(v, p))
            \/ ~View!Member(v, p) /\ v # Nobody /\ (project[p].public /\ View!ProfileOpenTo(Subject, v))
                 /\ View!MayComment(v, Subject)
    BY DEF View!ProjectAccess
  <2>2. View!ProjectAccess(v, p).view <=>
            (v = Subject \/ View!Member(v, p) \/ (project[p].public /\ View!ProfileOpenTo(Subject, v)))
    BY DEF View!ProjectAccess
  <2>3. View!AddsComment(v, p) <=> View!ProjectAccess(v, p).view /\ View!MayCommentOnProject(v, p)
    BY ViewOneCondition DEF View!AddsComment
  <2>4. QED BY <2>1, <2>2, <2>3 DEF View!MayCommentOnProject
<1>2. View!ProjectAccess(v, p).comment \in BOOLEAN /\ View!AddsComment(v, p) \in BOOLEAN
  BY Zenon DEF View!ProjectAccess, View!AddsComment
<1>3. QED BY <1>1, <1>2

LEMMA ViewNamesGrow ==
    ASSUME NEW S, NEW R, S \subseteq R PROVE View!Names(S) \subseteq View!Names(R)
BY DEF View!Names

LEMMA ViewProjectRuleHolds ==
    ASSUME ViewBounds, View!TypeOK, NEW v \in View!Viewers PROVE View!ProjectPagesAgree(v)
<1>1. View!CanView(v) = View!OpensPage(v) /\ View!ListPublic(v) \subseteq View!OpensPage(v) /\ View!FilesPage(v) = View!OpensPage(v)
  BY ViewSamePages DEF View!FilesPage, View!OpensPage
<1>2. {View!CommentsPage(v), View!ReportPage(v), View!ProjectLog(v), View!Insights(v), View!FilesPage(v)} = {View!OpensPage(v)}
  BY <1>1 DEF View!CommentsPage, View!ReportPage, View!ProjectLog, View!Insights
<1>3. View!Refreshes(v) = {p \in View!Live : View!ProjectAccess(v, p).edit}
  <2>1. ASSUME NEW p \in View!Live, View!ProjectAccess(v, p).edit PROVE View!ProjectAccess(v, p).view
    BY <2>1 DEF View!ProjectAccess, View!Member, View!CanEdit
  <2>2. QED BY <1>1, <2>1 DEF View!Refreshes, View!ReportPage, View!OpensPage
<1>4. v # Nobody => \A p \in View!Live : View!ProjectAccess(v, p).comment = View!AddsComment(v, p)
  BY ViewSameComments
<1>5. ASSUME NEW a \in View!Feed(v) PROVE a \in posts /\ a.about \in View!OpensPage(v)
  <2>1. a \in posts /\ View!VisibleProjectFilter(v, a.about)
    BY DEF View!Feed
  <2>2. a.about \in View!Live
    BY <2>1 DEF View!TypeOK, View!Live
  <2>3. QED BY <2>1, <2>2, ViewOneCondition DEF View!OpensPage
<1>6. \A e \in View!FeedPage(v) : e.post.about \in View!OpensPage(v) /\ e.tech \subseteq View!AnalysisPage(v)
  <2> SUFFICES ASSUME NEW a \in View!Feed(v), NEW e,
                      e = [post |-> a, tech |-> View!Preview(a), can_edit |-> v = a.author]
               PROVE  e.post.about \in View!OpensPage(v) /\ e.tech \subseteq View!AnalysisPage(v)
    BY DEF View!FeedPage
  <2>1. e.post = a /\ e.tech = project[a.about].tech
    BY DEF View!Preview
  <2>2. project[a.about].tech \subseteq View!AnalysisPage(v)
    BY <1>5 DEF View!AnalysisPage, View!Names, View!OpensPage
  <2>3. QED BY <1>5, <2>1, <2>2
<1>7. ASSUME v # Nobody, NEW a \in posts, View!IsConnected(v, a.author), a.about \in View!OpensPage(v)
      PROVE  a \in View!Following(v)
  <2>1. View!VisibleProjectFilter(v, a.about)
    BY <1>7, ViewOneCondition DEF View!OpensPage
  <2>2. View!AudienceClause(a.author, "activity_visibility", v)
    BY <1>7 DEF View!AudienceClause, View!IsConnected
  <2>3. QED BY <1>7, <2>1, <2>2 DEF View!Following, View!Feed
<1>8. QED BY <1>1, <1>2, <1>3, <1>4, <1>6, <1>7 DEF View!ProjectPagesAgree

-----------------------------------------------------------------------------
(* Skills: what one page hides, a page that shows more projects hides too   *)
(* or names itself.                                                        *)
LEMMA ViewHidesLess ==
    ASSUME NEW u, NEW fewer, NEW more, fewer \subseteq more
    PROVE  \A x \in View!HiddenOnly(u, more) : x \in View!HiddenOnly(u, fewer)
<1> SUFFICES ASSUME NEW x \in View!HiddenOnly(u, more) PROVE x \in View!HiddenOnly(u, fewer)
  OBVIOUS
<1>1. x \in View!Names(View!OwnedBy(u) \ more) /\ x \notin View!Names(View!OwnedBy(u) \cap more)
  BY DEF View!HiddenOnly
<1>2. View!Names(View!OwnedBy(u) \ more) \subseteq View!Names(View!OwnedBy(u) \ fewer)
  BY ViewNamesGrow
<1>3. View!Names(View!OwnedBy(u) \cap fewer) \subseteq View!Names(View!OwnedBy(u) \cap more)
  BY ViewNamesGrow
<1>4. QED BY <1>1, <1>2, <1>3 DEF View!HiddenOnly

LEMMA ViewMatchShowsNoMore ==
    ASSUME ViewBounds, NEW u \in View!People, NEW v \in View!Viewers PROVE View!Match(u, v) \subseteq View!SkillMatrix(u, v)
<1> DEFINE few == (View!OwnedBy(u) \cup View!JoinedBy(u)) \cap View!ListPublic(v)
           many == View!ProjectsFor(u, v) \cup View!JoinedFor(u, v)
<1>1. View!ListPublic(v) \subseteq View!CanView(v)
  BY ViewSamePages
<1>2. View!Names(few) \subseteq View!Names(many)
  <2>1. few \subseteq many
    BY <1>1 DEF View!ProjectsFor, View!JoinedFor
  <2>2. QED BY <2>1, ViewNamesGrow
<1>3. ASSUME NEW x \in View!HiddenOnly(u, many) PROVE x \in View!HiddenOnly(u, View!ListPublic(v))
  <2>1. View!OwnedBy(u) \cap View!ListPublic(v) \subseteq many
    BY <1>1 DEF View!ProjectsFor
  <2>2. x \in View!Names(View!OwnedBy(u) \ many) /\ x \notin View!Names(View!OwnedBy(u) \cap many)
    BY <1>3 DEF View!HiddenOnly
  <2>3. View!Names(View!OwnedBy(u) \ many) \subseteq View!Names(View!OwnedBy(u) \ View!ListPublic(v))
    <3>1. View!OwnedBy(u) \ many \subseteq View!OwnedBy(u) \ View!ListPublic(v)
      BY <2>1
    <3>2. QED BY <3>1, ViewNamesGrow
  <2>4. View!Names(View!OwnedBy(u) \cap View!ListPublic(v)) \subseteq View!Names(View!OwnedBy(u) \cap many)
    <3>1. View!OwnedBy(u) \cap View!ListPublic(v) \subseteq View!OwnedBy(u) \cap many
      BY <2>1
    <3>2. QED BY <3>1, ViewNamesGrow
  <2>5. QED BY <2>2, <2>3, <2>4 DEF View!HiddenOnly
<1>4. View!Match(u, v) = IF View!ProfileOpenTo(u, v)
                         THEN View!Names(few) \cup (View!ProfileSkills(u) \ View!HiddenOnly(u, View!ListPublic(v))) ELSE {}
  BY DEF View!Match
<1>5. View!SkillMatrix(u, v) =
          View!Names(many) \cup (IF View!ProfileOpenTo(u, v) THEN View!ProfileSkills(u) \ View!HiddenOnly(u, many) ELSE {})
  BY DEF View!SkillMatrix
<1> HIDE DEF few, many
<1>6. QED BY <1>2, <1>3, <1>4, <1>5

LEMMA ViewRestriction ==
    ASSUME ViewBounds, View!TypeOK, NEW u \in View!People, NEW v \in View!Viewers
    PROVE  View!Restricted(u, v) <=> ~View!ProfileOpenTo(u, v)
BY DEF View!Restricted, View!ProfileOpenTo

LEMMA ViewWrapsAre ==
    ASSUME ViewBounds, View!TypeOK, NEW u \in View!People, NEW v \in View!Viewers
    PROVE  View!WrapsOpen(u, v) = View!AudienceClause(u, "activity_visibility", v)
<1>1. View!Setting(u, "activity_visibility") \in View!Audience
  <2>1. "activity_visibility" \in {"profile_visibility", "activity_visibility", "comment_policy"}
    OBVIOUS
  <2>2. QED BY ViewProfileIs, ViewDefaultIs DEF View!Setting, View!Audience
<1>2. u # Nobody
  BY DEF ViewBounds
<1>3. View!WrapsOpen(u, v) <=> View!AudienceClause(u, "activity_visibility", v)
  BY <1>1, <1>2 DEF View!WrapsOpen, View!AudienceOpen, View!AudienceClause, View!IsConnected,
     View!Audience
<1>4. View!WrapsOpen(u, v) \in BOOLEAN /\ View!AudienceClause(u, "activity_visibility", v) \in BOOLEAN
  BY Zenon DEF View!WrapsOpen, View!AudienceOpen, View!AudienceClause
<1>5. QED BY <1>3, <1>4

LEMMA ViewPeopleRuleHolds ==
    ASSUME ViewBounds, View!TypeOK, NEW v \in View!Viewers, NEW u \in View!People PROVE View!PeoplePagesAgree(u, v)
<1>1. View!CanView(v) = View!OpensPage(v) /\ View!ListPublic(v) \subseteq View!OpensPage(v)
  BY ViewSamePages
<1>2. PICK candidate : candidate = View!CandidatePage(u, v)
  OBVIOUS
<1>3. PICK profilePage : profilePage = View!ProfilePage(u, v)
  OBVIOUS
<1>4. /\ candidate.projects = View!ProjectsFor(u, v) /\ candidate.joined = View!JoinedFor(u, v)
      /\ candidate.standing.projects = View!Cardinality(View!ProjectsFor(u, v))
      /\ candidate.standing.tech = View!Names(View!ProjectsFor(u, v))
      /\ candidate.wraps = View!WrapsOpen(u, v)
  BY <1>2 DEF View!CandidatePage, View!Standing, View!JoinedPage
<1>5. /\ profilePage.restricted = View!Restricted(u, v) /\ profilePage.counts = View!ProfileCounts(u, v)
      /\ profilePage.skills = IF View!Restricted(u, v) THEN {} ELSE View!ProfileSkills(u)
  BY <1>3 DEF View!ProfilePage
<1>6. View!GroupsFor(u, v) \cup View!Board(u, v) \cup View!PersonLog(u, v) \cup View!TeamLog(u, v)
          \cup candidate.projects \cup candidate.joined \subseteq View!OpensPage(v)
  BY <1>1, <1>4 DEF View!GroupsFor, View!Board, View!PersonLog, View!TeamLog, View!ProjectsFor,
     View!JoinedFor
<1>7. ASSUME NEW p \in DOMAIN View!JoinedPage(u, v), NEW m \in View!JoinedPage(u, v)[p] PROVE p \in View!OpensPage(m)
  <2>1. p \in View!JoinedFor(u, v) /\ View!JoinedPage(u, v)[p] = View!Team(p)
    BY DEF View!JoinedPage
  <2>2. p \in View!Live /\ (m = Subject \/ View!Member(m, p))
    BY <2>1 DEF View!JoinedFor, View!JoinedBy, View!Team
  <2>3. QED BY <2>2 DEF View!OpensPage, View!ProjectAccess
<1>8. View!OwnedPage(u, v) = View!OwnedBy(u) \cap View!OpensPage(v)
  BY <1>1 DEF View!OwnedPage, View!ProjectsFor
<1>9. profilePage.counts = <<candidate.standing.projects, View!Cardinality(candidate.joined)>>
  BY <1>4, <1>5 DEF View!ProfileCounts
<1>10. profilePage.restricted = ~View!ProfileOpenTo(u, v)
  <2>1. View!Restricted(u, v) \in BOOLEAN /\ View!ProfileOpenTo(u, v) \in BOOLEAN
    BY Zenon DEF View!Restricted, View!ProfileOpenTo
  <2>2. QED BY <1>5, <2>1, ViewRestriction
<1>11. candidate.wraps = View!AudienceClause(u, "activity_visibility", v)
  BY <1>4, ViewWrapsAre
<1>12. View!Match(u, v) \cup candidate.standing.tech \subseteq View!SkillMatrix(u, v)
  <2>1. View!Names(View!ProjectsFor(u, v)) \subseteq View!Names(View!ProjectsFor(u, v) \cup View!JoinedFor(u, v))
    BY ViewNamesGrow
  <2>2. View!Names(View!ProjectsFor(u, v)) \subseteq View!SkillMatrix(u, v)
    BY <2>1 DEF View!SkillMatrix
  <2>3. QED BY <1>4, <2>2, ViewMatchShowsNoMore
<1>13. View!SkillMatrix(u, v) \subseteq profilePage.skills \cup View!AnalysisPage(v)
  <2>1. View!Names(View!ProjectsFor(u, v) \cup View!JoinedFor(u, v)) \subseteq View!AnalysisPage(v)
    <3>1. View!ProjectsFor(u, v) \cup View!JoinedFor(u, v) \subseteq {p \in View!Live : View!ProjectAccess(v, p).view}
      BY <1>1 DEF View!ProjectsFor, View!JoinedFor, View!OpensPage
    <3>2. QED BY <3>1, ViewNamesGrow DEF View!AnalysisPage
  <2>2. View!ProfileOpenTo(u, v) => profilePage.skills = View!ProfileSkills(u)
    BY <1>5, ViewRestriction
  <2>3. QED BY <2>1, <2>2 DEF View!SkillMatrix
<1>14. QED BY <1>2, <1>3, <1>6, <1>7, <1>8, <1>9, <1>10, <1>11, <1>12, <1>13 DEF View!PeoplePagesAgree

LEMMA ViewRuleHolds == ASSUME ViewBounds, View!TypeOK PROVE View!OneRule
BY ViewProjectRuleHolds, ViewPeopleRuleHolds DEF View!OneRule

-----------------------------------------------------------------------------
(* The rule speaks of any state of this kind: that is all that is needed.  *)
ViewIInv == View!TypeOK

LEMMA ViewHolds == ASSUME ViewBounds, ViewIInv PROVE View!TypeOK /\ View!OneRule
BY ViewRuleHolds DEF ViewIInv

LEMMA ViewInitIInv == ASSUME View!Init PROVE ViewIInv
<1>1. View!Default \in View!Settings
  BY DEF View!Default, View!Settings, View!Audience
<1>2. QED BY <1>1 DEF View!Init, View!TypeOK, ViewIInv

LEMMA ViewSyncedIs ==
    ASSUME NEW s \in SUBSET Techs, NEW rows \in [Projects -> View!ProjectRows \cup {Absent}]
    PROVE  View!Synced(s, rows) \subseteq Techs
<1>1. ASSUME NEW p \in Projects, rows[p] # Absent PROVE rows[p].tech \subseteq Techs
  BY <1>1 DEF View!ProjectRows
<1>2. QED BY <1>1 DEF View!Synced

(* A project is changed and stays one.                                     *)
LEMMA ViewProjectKeeps ==
    ASSUME ViewBounds, ViewIInv, NEW p \in Projects, NEW shown \in View!ProjectRows,
           project' = [project EXCEPT ![p] = shown],
           UNCHANGED <<profile, friends>>, skills' \in {skills, View!Synced(skills, project')},
           posts' \subseteq posts \cup [author : View!People, about : {p}]
    PROVE  ViewIInv'
<1>1. /\ project' \in [Projects -> View!ProjectRows \cup {Absent}] /\ project'[p] # Absent
      /\ \A q \in Projects : q # p => project'[q] = project[q]
  BY DEF ViewBounds, ViewIInv, View!TypeOK
<1>2. skills' \subseteq Techs
  <2>1. skills \in SUBSET Techs
    BY DEF ViewIInv, View!TypeOK
  <2>2. View!Synced(skills, project') \subseteq Techs
    BY <1>1, <2>1, ViewSyncedIs
  <2>3. QED BY <2>1, <2>2
<1>3. posts' \subseteq [author : View!People, about : Projects]
  BY DEF ViewIInv, View!TypeOK
<1>4. \A a \in posts' : project'[a.about] # Absent
  BY <1>1, <1>3 DEF ViewIInv, View!TypeOK
<1>5. QED BY <1>1, <1>2, <1>3, <1>4 DEF ViewIInv, View!TypeOK

LEMMA ViewNextIInv == ASSUME ViewBounds, ViewIInv, [View!Next]_View!vars PROVE ViewIInv'
<1>1. ASSUME View!UpdateMyProfile PROVE ViewIInv'
  <2>1. profile' \in View!Settings /\ UNCHANGED <<friends, project, posts>>
    BY <1>1 DEF View!UpdateMyProfile, ViewIInv, View!TypeOK
  <2>2. skills' \subseteq Techs
    BY <1>1, ViewSyncedIs DEF View!UpdateMyProfile, ViewIInv, View!TypeOK
  <2>3. QED BY <2>1, <2>2 DEF ViewIInv, View!TypeOK
<1>2. ASSUME NEW u \in OtherPeople, View!Connect(u) \/ View!Disconnect(u) PROVE ViewIInv'
  BY <1>2 DEF View!Connect, View!Disconnect, ViewIInv, View!TypeOK
<1>3. ASSUME NEW p \in Projects, View!DeleteProject(p) PROVE ViewIInv'
  <2>1. /\ project' = [project EXCEPT ![p] = Absent] /\ posts' = {a \in posts : a.about # p}
        /\ UNCHANGED <<profile, friends, skills>>
    BY <1>3 DEF View!DeleteProject
  <2>2. QED BY <2>1 DEF ViewIInv, View!TypeOK
<1>4. ASSUME NEW p \in Projects, NEW public \in BOOLEAN, NEW tech \in SUBSET Techs,
             View!CreateProject(p, public, tech)
      PROVE  ViewIInv'
  <2>1. PICK shown : shown = [public |-> public, tech |-> tech, access |-> [u \in Joiners |-> "none"]]
    OBVIOUS
  <2>2. shown \in View!ProjectRows
    BY <2>1 DEF View!ProjectRows, View!Access
  <2>3. /\ project' = [project EXCEPT ![p] = shown] /\ UNCHANGED <<profile, friends>>
        /\ skills' = View!Synced(skills, project')
        /\ posts' \in {posts, posts \cup {[author |-> Subject, about |-> p]}}
    BY <1>4, <2>1 DEF View!CreateProject
  <2>4. [author |-> Subject, about |-> p] \in [author : View!People, about : {p}]
    BY DEF View!People
  <2>5. QED BY <2>2, <2>3, <2>4, ViewProjectKeeps
<1>5. ASSUME NEW p \in Projects, NEW public \in BOOLEAN, NEW tech \in SUBSET Techs,
             NEW u, View!UpdateProject(u, p, public, tech)
      PROVE  ViewIInv'
  <2>1. project[p] \in View!ProjectRows /\ project \in [Projects -> View!ProjectRows \cup {Absent}]
    BY <1>5 DEF View!UpdateProject, View!Live, ViewIInv, View!TypeOK
  <2>2. PICK shown : shown = [project[p] EXCEPT !.public = public, !.tech = tech]
    OBVIOUS
  <2>3. shown \in View!ProjectRows
    BY <2>1, <2>2 DEF View!ProjectRows
  <2>4. project' = [project EXCEPT ![p] = shown]
    <3>1. project' = [project EXCEPT ![p].public = public, ![p].tech = tech]
      BY <1>5 DEF View!UpdateProject
    <3>2. QED BY <2>1, <2>2, <3>1
  <2>5. UNCHANGED <<profile, friends, posts>> /\ skills' = View!Synced(skills, project')
    BY <1>5 DEF View!UpdateProject
  <2>6. QED BY <2>3, <2>4, <2>5, ViewProjectKeeps
<1>6. ASSUME NEW u \in Joiners, NEW p \in Projects, NEW level \in View!Access, View!SetAccess(u, p, level)
      PROVE  ViewIInv'
  <2>1. project[p] \in View!ProjectRows
    BY <1>6 DEF View!SetAccess, View!Live, ViewIInv, View!TypeOK
  <2>2. PICK shown : shown = [project[p] EXCEPT !.access[u] = level]
    OBVIOUS
  <2>3. shown \in View!ProjectRows
    BY <2>1, <2>2 DEF View!ProjectRows
  <2>4. project' = [project EXCEPT ![p] = shown] /\ UNCHANGED <<profile, friends, posts, skills>>
    BY <1>6, <2>2 DEF View!SetAccess
  <2>5. QED BY <2>3, <2>4, ViewProjectKeeps
<1>7. ASSUME NEW u \in Joiners, NEW p \in Projects, NEW share \in BOOLEAN, View!CreatePost(u, p, share)
      PROVE  ViewIInv'
  <2>1. [author |-> u, about |-> p] \in [author : View!People, about : Projects] /\ project[p] # Absent
    BY <1>7 DEF View!CreatePost, View!Live, View!People, ViewBounds
  <2>2. QED BY <1>7, <2>1 DEF View!CreatePost, ViewIInv, View!TypeOK
<1>8. ASSUME NEW u \in Joiners, NEW p \in Projects, View!DeletePost(u, p) PROVE ViewIInv'
  BY <1>8 DEF View!DeletePost, ViewIInv, View!TypeOK
<1>9. CASE UNCHANGED View!vars
  BY <1>9 DEF View!vars, ViewIInv, View!TypeOK
<1>10. QED BY <1>1, <1>2, <1>3, <1>4, <1>5, <1>6, <1>7, <1>8, <1>9 DEF View!Next

(* A behaviour of the composition is one of Visibility, with steps that    *)
(* leave it alone.                                                         *)
LEMMA ViewSpec == PeopleSpec => View!Spec
<1>1. PeopleInit => View!Init
  BY DEF PeopleInit
<1>2. [PeopleNext]_peopleVars => [View!Next]_View!vars
  BY DEF PeopleNext, peopleVars, viewVars, View!vars
<1>3. QED BY <1>1, <1>2, PTL DEF PeopleSpec, View!Spec

LEMMA ViewInvariant == PeopleSpec => []ViewIInv
<1>1. View!Init => ViewIInv
  BY ViewInitIInv
<1>2. ViewIInv /\ [View!Next]_View!vars => ViewIInv'
  BY ViewNextIInv, ViewersAssumption DEF ViewBounds
<1>3. QED BY <1>1, <1>2, ViewSpec, PTL DEF View!Spec

(* For every viewer, person and project, whatever the settings, the        *)
(* connections and the teams are: the pages that ask the SQL condition and *)
(* the pages that ask project_access agree on what is open, and no page    *)
(* names what the skill matrix hides.                                      *)
THEOREM OneRuleAlways == PeopleSpec => []OneRule
<1>1. ViewIInv => OneRule
  BY ViewHolds, ViewersAssumption DEF OneRule, ViewBounds
<1>2. QED BY <1>1, ViewInvariant, PTL

-----------------------------------------------------------------------------
(* The parts together.                                                     *)
Parts == {"connection", "account", "signup", "github", "view", "wraps"}

LEMMA PartStays == PeopleSpec => [](part \in Parts)
<1>1. PeopleInit => part \in Parts
  BY DEF PeopleInit, Parts
<1>2. part \in Parts /\ [PeopleNext]_peopleVars => (part \in Parts)'
  BY DEF PeopleNext, peopleVars
<1>3. QED BY <1>1, <1>2, PTL DEF PeopleSpec

LEMMA ConnectionSpec == PeopleSpec => Spec
<1>1. PeopleInit => Init
  BY DEF PeopleInit
<1>2. [PeopleNext]_peopleVars => [Next]_vars
  BY DEF PeopleNext, peopleVars, vars
<1>3. QED BY <1>1, <1>2, PTL DEF PeopleSpec, Spec

(* Each part that moves keeps its rows, its requests and what it counts of *)
(* their kinds.                                                            *)
THEOREM TypesHold == PeopleSpec => []PartsTypeOK
<1>1. AccountIInv /\ SignIInv /\ HubIInv /\ ViewIInv /\ MonthIInv
      => Account!TypeOK /\ Sign!TypeOK /\ Hub!TypeOK /\ View!TypeOK /\ Month!TypeOK
  <2>1. AccountIInv => Account!TypeOK
    BY DEF AccountIInv
  <2>2. SignIInv => Sign!TypeOK
    BY SignHolds
  <2>3. HubIInv => Hub!TypeOK
    BY HubHolds
  <2>4. ViewIInv => View!TypeOK
    BY ViewHolds, ViewersAssumption DEF ViewBounds
  <2>5. MonthIInv => Month!TypeOK
    BY DEF MonthIInv
  <2>6. QED BY <2>1, <2>2, <2>3, <2>4, <2>5
<1>2. /\ part \in Parts
      /\ TypeOK /\ Account!TypeOK /\ Sign!TypeOK /\ Hub!TypeOK /\ View!TypeOK /\ Month!TypeOK
      => PartsTypeOK
  BY DEF PartsTypeOK, Parts
<1>3. QED BY <1>1, <1>2, PartStays, ConnectionSpec, TypeCorrect, AccountInvariant, SignInvariant,
             HubInvariant, ViewInvariant, MonthInvariant, PTL
=============================================================================
