--------------------------- MODULE ExchangeProofs ---------------------------
(***************************************************************************)
(* For any number of threads, developers, people, messages, requests and   *)
(* lists: what the parts of Exchange promise. Each part is proved on its   *)
(* own, with the inductive invariant it needs; what it is of the           *)
(* composition follows because a step of another part leaves it alone.     *)
(***************************************************************************)
EXTENDS Exchange, Sequences, SequenceTheorems, FiniteSetTheorems, TLAPS

-----------------------------------------------------------------------------
(* Challenges: one technical challenge.                                    *)

(* A request serves a developer or changes a column it knows; a submission *)
(* has room for another revision; a review was not released, of work that  *)
(* was not withdrawn; while the challenge is there, what is being shared   *)
(* has been released.                                                      *)
ForOne == {"invite", "uninvite", "answer", "submit", "withdraw", "review", "share"}
Sound(request) ==
    /\ request.op \in ForOne => request.who \in Developers
    /\ request.op = "update" => request.column \in Columns
    /\ request.op = "submit" => request.sub.revision < MaxRevision
    /\ request.op = "review" =>
           request.review # "released" /\ request.sub.status \notin {"none", "withdrawn"}
    /\ (request.op = "share" /\ There) => review[request.who].status = "released"

(* While nothing crosses a review: what it read is still so; a rubric is   *)
(* changed only before any review, work only before its own.               *)
Current(request) ==
    /\ (request.op = "review" /\ There) =>
           /\ request.rubric = ch.rubric /\ request.review = review[request.who].status
           /\ request.sub.status = sub[request.who].status
           /\ request.sub.revision = sub[request.who].revision
    /\ (request.op = "update" /\ request.column = "rubric") => ~Begun
    /\ request.op \in {"submit", "withdraw"} => review[request.who].status = "none"

(* ... and a review that is being saved is alone with what it read.        *)
Alone ==
    \A s, t \in Servers :
        (s # t /\ Is(s, "review")) => job[t].op \notin Disturbing \cup {"review"}

Undisturbed == ~crossed => Alone /\ \A s \in Servers : Current(job[s])

IInv ==
    /\ TypeOK /\ ReviewedAsWritten /\ SharedIsReleased /\ Undisturbed
    /\ \A s \in Servers : Sound(job[s])

LEMMA NoSubIs ==
    /\ NoSub \in Submission /\ NoSub.status = "none" /\ NoSub.revision = 0
    /\ NoSub.ratings = FALSE /\ NoSub.feedback = FALSE
BY RevisionsAssumption DEF NoSub, Submission, Locked

LEMMA NoReviewIs == NoReview \in Review /\ NoReview.status = "none"
BY RevisionsAssumption DEF NoReview, Review, Rubrics

LEMMA NoChallengeIs == NoChallenge \in Challenge /\ NoChallenge.status = "none"
BY DEF NoChallenge, Challenge, Rubrics

LEMMA IdleIsJob == Idle \in Job /\ Idle.op = "idle" /\ Idle.sub = NoSub
BY NoSubIs DEF Idle, Job, Rubrics, Invite

LEMMA TextIs ==
    ASSUME TypeOK, NEW d \in Developers
    PROVE  /\ Text(d) \in Submission
           /\ Text(d).status = sub[d].status /\ Text(d).revision = sub[d].revision
           /\ Shares(d) \in Submission
BY NoSubIs DEF Text, Shares, TypeOK, Submission

(* A request is asked or answered, the others stay.                        *)
LEMMA Asked ==
    ASSUME TypeOK, NEW s \in Servers, NEW request \in Job, job' = [job EXCEPT ![s] = request]
    PROVE  /\ job' \in [Servers -> Job] /\ job'[s] = request
           /\ \A t \in Servers : t # s => job'[t] = job[t]
BY DEF TypeOK

LEMMA Ended ==
    ASSUME TypeOK, NEW s \in Servers, End(s)
    PROVE  /\ job' \in [Servers -> Job] /\ job'[s].op = "idle"
           /\ \A t \in Servers : t # s => job'[t] = job[t]
BY IdleIsJob DEF TypeOK, End

LEMMA InitIInv == ASSUME Init PROVE IInv
<1>1. TypeOK
  <2>1. ch \in Challenge /\ crossed \in BOOLEAN /\ invite \in [Developers -> Invite]
    BY NoChallengeIs DEF Init, Invite
  <2>2. sub \in [Developers -> Submission] /\ review \in [Developers -> Review]
    BY NoSubIs, NoReviewIs DEF Init
  <2>3. job \in [Servers -> Job]
    BY IdleIsJob DEF Init
  <2>4. \A d \in Developers : review[d].status = "none" /\ sub[d] = NoSub /\ invite[d] = "none"
    BY NoReviewIs DEF Init
  <2>5. QED BY <2>1, <2>2, <2>3, <2>4 DEF TypeOK
<1>2. \A s \in Servers : job[s].op = "idle"
  BY IdleIsJob DEF Init
<1>3. ReviewedAsWritten /\ SharedIsReleased
  BY NoSubIs, NoReviewIs DEF Init, ReviewedAsWritten, ReviewLocks, SharedIsReleased
<1>4. Undisturbed /\ \A s \in Servers : Sound(job[s])
  BY <1>2 DEF Undisturbed, Alone, Is, Current, Sound, ForOne
<1>5. QED BY <1>1, <1>3, <1>4 DEF IInv

-----------------------------------------------------------------------------
(* A request that is sound begins; if it is a review or disturbs one, it   *)
(* is current and alone with that unless something crosses from now on.    *)
LEMMA BeginKeeps ==
    ASSUME IInv, NEW s \in Servers, NEW request \in Job, Ask(s, request), RowsSame,
           Sound(request), crossed' \in BOOLEAN,
           ~crossed' =>
               /\ ~crossed /\ Current(request)
               /\ request.op \in Disturbing \cup {"review"} =>
                      \A t \in Servers : ~Is(t, "review")
               /\ request.op = "review" => \A t \in Servers : job[t].op \notin Disturbing
    PROVE  IInv'
<1>1. /\ job' \in [Servers -> Job] /\ job'[s] = request
      /\ \A t \in Servers : t # s => job'[t] = job[t]
  BY Asked DEF Ask, IInv
<1>2. TypeOK'
  BY <1>1 DEF IInv, TypeOK, RowsSame
<1>3. ReviewedAsWritten' /\ SharedIsReleased'
  BY DEF IInv, ReviewedAsWritten, ReviewLocks, SharedIsReleased, RowsSame
<1>4. ASSUME NEW t \in Servers PROVE Sound(job[t])'
  <2>1. Sound(job'[t])
    BY <1>1 DEF IInv
  <2>2. QED BY <2>1 DEF RowsSame, Sound, There
<1>5. Undisturbed'
  <2> SUFFICES ASSUME ~crossed' PROVE Alone' /\ \A t \in Servers : Current(job[t])'
    BY DEF Undisturbed
  <2>1. Alone'
    BY <1>1 DEF IInv, Undisturbed, Alone, Is
  <2>2. ASSUME NEW t \in Servers PROVE Current(job[t])'
    <3>1. Current(job'[t])
      BY <1>1 DEF IInv, Undisturbed
    <3>2. QED BY <3>1 DEF RowsSame, Current, Begun, There
  <2>3. QED BY <2>1, <2>2
<1>6. QED BY <1>2, <1>3, <1>4, <1>5 DEF IInv

LEMMA AskUpdateKeeps ==
    ASSUME IInv, NEW s \in Servers, NEW column \in Columns, AskUpdate(s, column)
    PROVE  IInv'
<1>1. ch.rubric \in Rubrics /\ OtherRubric(ch.rubric) \in Rubrics
  <2>1. ch.rubric \in Rubrics
    BY DEF IInv, TypeOK, Challenge
  <2>2. \E rubric \in Rubrics : rubric # ch.rubric
    BY DEF Rubrics
  <2>3. QED BY <2>1, <2>2 DEF OtherRubric
<1>2. PICK request : request = [Idle EXCEPT !.op = "update", !.column = column,
               !.rubric = IF column = "rubric" THEN OtherRubric(ch.rubric) ELSE "first",
               !.yes = (column = "public" /\ ~ch.public)]
  OBVIOUS
<1>3. request \in Job /\ request.op = "update" /\ request.column = column
  BY <1>1, <1>2, IdleIsJob DEF Job, Rubrics
<1>4. Ask(s, request) /\ (column = "rubric" => ~Begun)
  BY <1>2 DEF AskUpdate, Columns
<1>5. Sound(request) /\ Current(request)
  BY <1>3, <1>4 DEF Sound, Current, ForOne
<1>6. crossed' \in BOOLEAN /\ (~crossed' => ~crossed /\ \A t \in Servers : ~Is(t, "review"))
  BY DEF AskUpdate, Meets, Is, IInv, TypeOK
<1>7. QED BY <1>3, <1>4, <1>5, <1>6, BeginKeeps DEF AskUpdate

(* A request that neither reviews nor disturbs a review.                   *)
LEMMA BeginsApart ==
    ASSUME IInv, NEW s \in Servers, NEW request \in Job, Ask(s, request), RowsSame,
           Sound(request), UNCHANGED crossed,
           request.op \in {"publish", "close", "delete", "invite", "uninvite", "answer", "share"}
    PROVE  IInv'
<1>1. Current(request) /\ request.op \notin Disturbing \cup {"review"}
  BY DEF Current, Disturbing
<1>2. crossed' \in BOOLEAN
  BY DEF IInv, TypeOK
<1>3. QED BY <1>1, <1>2, BeginKeeps, Zenon

LEMMA AskStatusKeeps ==
    ASSUME IInv, NEW s \in Servers, AskPublish(s) \/ AskClose(s) \/ AskDelete(s)
    PROVE  IInv'
<1>1. PICK request : /\ Ask(s, request)
                     /\ \E op \in {"publish", "close", "delete"} : request = [Idle EXCEPT !.op = op]
  BY DEF AskPublish, AskClose, AskDelete
<1>2. request \in Job /\ request.op \in {"publish", "close", "delete"}
  BY <1>1, IdleIsJob DEF Job
<1>3. Sound(request)
  BY <1>2 DEF Sound, ForOne
<1>4. QED BY <1>1, <1>2, <1>3, BeginsApart DEF AskPublish, AskClose, AskDelete

LEMMA AskInviteKeeps ==
    ASSUME IInv, NEW s \in Servers, NEW d \in Developers, AskInvite(s, d)
    PROVE  IInv'
<1>1. PICK request : request = [Idle EXCEPT !.op = "invite", !.who = d, !.answer = invite[d]]
  OBVIOUS
<1>2. request \in Job /\ request.op = "invite" /\ request.who = d
  <2>1. invite[d] \in Invite
    BY DEF IInv, TypeOK
  <2>2. QED BY <1>1, <2>1, IdleIsJob DEF Job
<1>3. Sound(request)
  BY <1>2 DEF Sound, ForOne
<1>4. QED BY <1>1, <1>2, <1>3, BeginsApart DEF AskInvite

LEMMA AskAnswerKeeps ==
    ASSUME IInv, NEW s \in Servers, NEW d \in Developers,
           NEW answer \in {"accepted", "declined", "withdrawn"}, AskAnswer(s, d, answer)
    PROVE  IInv'
<1>1. PICK request : request = [Idle EXCEPT
               !.op = IF answer = "withdrawn" THEN "uninvite" ELSE "answer",
               !.who = d, !.answer = answer]
  OBVIOUS
<1>2. request \in Job /\ request.op \in {"uninvite", "answer"} /\ request.who = d
  BY <1>1, IdleIsJob DEF Job, Invite
<1>3. Sound(request)
  BY <1>2 DEF Sound, ForOne
<1>4. QED BY <1>1, <1>2, <1>3, BeginsApart DEF AskAnswer

LEMMA AskShareKeeps ==
    ASSUME IInv, NEW s \in Servers, NEW d \in Developers,
           NEW ratings \in BOOLEAN, NEW feedback \in BOOLEAN, AskShare(s, d, ratings, feedback)
    PROVE  IInv'
<1>1. PICK request : request = [Idle EXCEPT !.op = "share", !.who = d, !.sub = Shares(d),
                           !.yes = ratings, !.also = (ratings /\ feedback)]
  OBVIOUS
<1>2. request \in Job /\ request.op = "share" /\ request.who = d
  BY <1>1, IdleIsJob, TextIs DEF Job, IInv
<1>3. Sound(request)
  BY <1>2 DEF Sound, ForOne, AskShare, Shareable
<1>4. QED BY <1>1, <1>2, <1>3, BeginsApart DEF AskShare

(* Work that is not under review has none.                                 *)
LEMMA UnlockedIsUnreviewed ==
    ASSUME IInv, ~crossed, NEW d \in Developers, sub[d].status \notin Locked
    PROVE  review[d].status = "none"
BY DEF IInv, ReviewedAsWritten, ReviewLocks

LEMMA AskWorkKeeps ==
    ASSUME IInv, NEW s \in Servers, NEW d \in Developers, AskSubmit(s, d) \/ AskWithdraw(s, d)
    PROVE  IInv'
<1>1. PICK request : /\ Ask(s, request)
                     /\ \/ /\ request = [Idle EXCEPT !.op = "submit", !.who = d, !.sub = Text(d)]
                           /\ sub[d].revision < MaxRevision
                        \/ request = [Idle EXCEPT !.op = "withdraw", !.who = d]
  BY DEF AskSubmit, AskWithdraw
<1>2. /\ request \in Job /\ request.op \in {"submit", "withdraw"} /\ request.who = d
      /\ request.op = "submit" => request.sub = Text(d) /\ sub[d].revision < MaxRevision
  <2>1. Text(d) \in Submission
    BY TextIs DEF IInv
  <2>2. QED BY <1>1, <2>1, IdleIsJob DEF Job
<1>3. Sound(request)
  BY <1>2, TextIs DEF Sound, ForOne, IInv
<1>4. ~crossed => Current(request)
  <2>1. sub[d].status \notin Locked
    BY DEF AskSubmit, Unlocked, AskWithdraw, Locked
  <2>2. QED BY <1>2, <2>1, UnlockedIsUnreviewed DEF Current
<1>5. crossed' \in BOOLEAN /\ (~crossed' => ~crossed /\ \A t \in Servers : ~Is(t, "review"))
  BY DEF AskSubmit, AskWithdraw, Meets, Is, IInv, TypeOK
<1>6. RowsSame
  BY DEF AskSubmit, AskWithdraw
<1>7. QED BY <1>1, <1>2, <1>3, <1>4, <1>5, <1>6, BeginKeeps

LEMMA AskReviewKeeps ==
    ASSUME IInv, NEW s \in Servers, NEW d \in Developers, NEW release \in BOOLEAN,
           AskReview(s, d, release)
    PROVE  IInv'
<1>1. PICK request : request = [Idle EXCEPT !.op = "review", !.who = d, !.rubric = ch.rubric,
                           !.sub = Text(d), !.review = review[d].status, !.yes = release]
  OBVIOUS
<1>2. /\ request \in Job /\ request.op = "review" /\ request.who = d
      /\ request.rubric = ch.rubric /\ request.sub = Text(d) /\ request.review = review[d].status
  <2>1. Text(d) \in Submission /\ ch.rubric \in Rubrics
    BY TextIs DEF IInv, TypeOK, Challenge
  <2>2. review[d].status \in {"none", "draft", "released"}
    BY DEF IInv, TypeOK, Review
  <2>3. QED BY <1>1, <2>1, <2>2, IdleIsJob DEF Job
<1>3. Sound(request) /\ Current(request)
  BY <1>2, TextIs DEF Sound, Current, ForOne, AskReview, IInv
<1>4. /\ crossed' \in BOOLEAN
      /\ ~crossed' => ~crossed /\ \A t \in Servers : job[t].op \notin Disturbing \cup {"review"}
  BY DEF AskReview, Meets, IInv, TypeOK
<1>5. QED BY <1>1, <1>2, <1>3, <1>4, BeginKeeps DEF AskReview, Is

-----------------------------------------------------------------------------
(* A request ends: what it wrote leaves the requests of the others sound   *)
(* and current.                                                            *)
LEMMA EndKeeps ==
    ASSUME IInv, NEW s \in Servers, End(s), UNCHANGED crossed, There' => There,
           /\ ch' \in Challenge /\ invite' \in [Developers -> Invite]
           /\ sub' \in [Developers -> Submission] /\ review' \in [Developers -> Review],
           \A d \in Developers : review'[d].status # "none" => sub'[d].status # "none",
           ~There' => \A d \in Developers : sub'[d] = NoSub /\ invite'[d] = "none",
           ReviewedAsWritten', SharedIsReleased',
           There' => \A d \in Developers :
               review[d].status = "released" => review'[d].status = "released",
           ~crossed => \A t \in Servers : t # s => Current(job[t])'
    PROVE  IInv'
<1>1. /\ job' \in [Servers -> Job] /\ job'[s].op = "idle"
      /\ \A t \in Servers : t # s => job'[t] = job[t]
  BY Ended DEF IInv
<1>2. TypeOK'
  BY <1>1 DEF IInv, TypeOK, There
<1>3. ASSUME NEW t \in Servers PROVE Sound(job[t])'
  <2>1. CASE t = s
    BY <1>1, <2>1 DEF Sound, ForOne
  <2>2. CASE t # s
    <3>1. job'[t] = job[t] /\ Sound(job[t])
      BY <1>1, <2>2 DEF IInv
    <3>2. QED BY <3>1 DEF Sound, ForOne
  <2>3. QED BY <2>1, <2>2
<1>4. Undisturbed'
  <2> SUFFICES ASSUME ~crossed PROVE Alone' /\ \A t \in Servers : Current(job[t])'
    BY DEF Undisturbed
  <2>1. Alone'
    BY <1>1 DEF IInv, Undisturbed, Alone, Is, Disturbing
  <2>2. Current(job[s])'
    BY <1>1 DEF Current
  <2>3. QED BY <2>1, <2>2
<1>5. QED BY <1>2, <1>3, <1>4 DEF IInv

(* What no review reads may change.                                        *)
LEMMA AsidesKeep ==
    ASSUME IInv, NEW s \in Servers, End(s), UNCHANGED <<review, crossed>>, There' <=> There,
           /\ ch' \in Challenge /\ invite' \in [Developers -> Invite]
           /\ sub' \in [Developers -> Submission],
           ~There => UNCHANGED <<invite, sub>>,
           ch'.rubric = ch.rubric,
           \A d \in Developers :
               /\ sub'[d].status = sub[d].status /\ sub'[d].revision = sub[d].revision
               /\ (sub'[d].ratings \/ sub'[d].feedback) =>
                      sub[d].ratings \/ sub[d].feedback \/ review[d].status = "released"
    PROVE  IInv'
<1>1. ReviewedAsWritten' /\ SharedIsReleased'
  BY DEF IInv, ReviewedAsWritten, ReviewLocks, SharedIsReleased
<1>2. ASSUME ~crossed, NEW t \in Servers, t # s PROVE Current(job[t])'
  <2>1. job'[t] = job[t] /\ Current(job[t])
    BY <1>2, Ended DEF IInv, Undisturbed
  <2>2. (Is(t, "review") \/ job[t].op \in {"submit", "withdraw"}) => job[t].who \in Developers
    BY DEF IInv, Sound, ForOne, Is
  <2>3. QED BY <2>1, <2>2 DEF Current, Begun, Is
<1>3. ~There' => \A d \in Developers : sub'[d] = NoSub /\ invite'[d] = "none"
  BY DEF IInv, TypeOK, There
<1>4. \A d \in Developers : review'[d].status # "none" => sub'[d].status # "none"
  BY DEF IInv, TypeOK
<1>5. review' \in [Developers -> Review]
  BY DEF IInv, TypeOK
<1>6. QED BY <1>1, <1>2, <1>3, <1>4, <1>5, EndKeeps

LEMMA SetStatusKeeps == ASSUME IInv, NEW s \in Servers, SetStatus(s) PROVE IInv'
<1>1. /\ ch' \in Challenge /\ ch'.rubric = ch.rubric /\ (There' <=> There)
  BY DEF SetStatus, There, IInv, TypeOK, Challenge
<1>2. QED BY <1>1, AsidesKeep DEF SetStatus, IInv, TypeOK

LEMMA DoInviteKeeps == ASSUME IInv, NEW s \in Servers, DoInvite(s) PROVE IInv'
<1>1. invite' \in [Developers -> Invite] /\ (~There => invite' = invite)
  BY DEF DoInvite, IInv, TypeOK, Invite
<1>2. QED BY <1>1, AsidesKeep DEF DoInvite, There, IInv, TypeOK

LEMMA AnswerKeeps == ASSUME IInv, NEW s \in Servers, Answer(s) PROVE IInv'
<1>1. job[s].answer \in Invite
  BY DEF IInv, TypeOK, Job
<1>2. invite' \in [Developers -> Invite] /\ (~There => invite' = invite)
  BY <1>1 DEF Answer, IInv, TypeOK
<1>3. QED BY <1>2, AsidesKeep DEF Answer, There, IInv, TypeOK

LEMMA ShareKeeps == ASSUME IInv, NEW s \in Servers, Share(s) PROVE IInv'
<1> DEFINE d == job[s].who
           ratings == Column(job[s].sub.ratings, job[s].yes, sub[d].ratings)
           feedback == Column(job[s].sub.feedback, job[s].also, sub[d].feedback)
<1>1. d \in Developers /\ (There => review[d].status = "released")
  BY DEF Share, Is, IInv, Sound, ForOne
<1>2. ratings \in BOOLEAN /\ feedback \in BOOLEAN
  <2>1. sub[d] \in Submission /\ job[s] \in Job
    BY <1>1 DEF IInv, TypeOK
  <2>2. QED BY <2>1 DEF Column, Submission, Job
<1>3. sub' = IF sub[d].status = "none" THEN sub
             ELSE [sub EXCEPT ![d].ratings = ratings, ![d].feedback = feedback]
  BY DEF Share, Column
<1> HIDE DEF ratings, feedback
<1>4. sub[d].status # "none" => There
  BY <1>1, NoSubIs DEF IInv, TypeOK, There
<1>5. sub' \in [Developers -> Submission]
  BY <1>1, <1>2, <1>3 DEF IInv, TypeOK, Submission
<1>6. \A e \in Developers :
          /\ sub'[e].status = sub[e].status /\ sub'[e].revision = sub[e].revision
          /\ (e # d \/ sub[d].status = "none") => sub'[e] = sub[e]
  BY <1>1, <1>3 DEF IInv, TypeOK, Submission
<1>7. ~There => sub' = sub
  BY <1>3, <1>4
<1>8. QED BY <1>1, <1>4, <1>5, <1>6, <1>7, AsidesKeep DEF Share, There, IInv, TypeOK

LEMMA UpdateKeeps == ASSUME IInv, NEW s \in Servers, Update(s) PROVE IInv'
<1>1. /\ ch' \in Challenge /\ (There' <=> There)
      /\ ch'.rubric # ch.rubric => job[s].column = "rubric"
  <2>1. job[s].column \in Columns /\ job[s].yes \in BOOLEAN /\ job[s].rubric \in Rubrics
    BY DEF Update, Is, IInv, TypeOK, Job, Sound
  <2>2. ch \in Challenge
    BY DEF IInv, TypeOK
  <2>3. CASE There /\ job[s].column = "past"
    BY <2>2, <2>3 DEF Update, There, Challenge
  <2>4. CASE There /\ job[s].column = "public"
    BY <2>1, <2>2, <2>4 DEF Update, There, Challenge
  <2>5. CASE There /\ job[s].column = "rubric"
    BY <2>1, <2>2, <2>5 DEF Update, There, Challenge
  <2>6. CASE ~There
    BY <2>2, <2>6 DEF Update, There
  <2>7. QED BY <2>1, <2>3, <2>4, <2>5, <2>6 DEF Columns
<1>2. ASSUME ~crossed PROVE (ch'.rubric # ch.rubric => ~Begun) /\ \A t \in Servers : ~Is(t, "review")
  <2>1. Is(s, "update") /\ Current(job[s]) /\ Alone
    BY <1>2 DEF Update, IInv, Undisturbed
  <2>2. ch'.rubric # ch.rubric => ~Begun
    BY <1>1, <2>1 DEF Current, Is
  <2>3. \A t \in Servers : ~Is(t, "review")
    BY <2>1 DEF Alone, Is, Disturbing
  <2>4. QED BY <2>2, <2>3
<1>3. ReviewedAsWritten' /\ SharedIsReleased'
  BY <1>2 DEF Update, Begun, IInv, ReviewedAsWritten, ReviewLocks, SharedIsReleased
<1>4. ASSUME ~crossed, NEW t \in Servers, t # s PROVE Current(job[t])'
  <2>1. job'[t] = job[t] /\ Current(job[t]) /\ ~Is(t, "review")
    BY <1>2, <1>4, Ended DEF IInv, Undisturbed, Update
  <2>2. QED BY <2>1 DEF Current, Begun, Is, Update
<1>5. QED BY <1>1, <1>3, <1>4, EndKeeps DEF Update, IInv, TypeOK, There

LEMMA DeleteKeeps == ASSUME IInv, NEW s \in Servers, Delete(s) PROVE IInv'
<1>1. /\ ch' \in Challenge /\ ~There'
      /\ invite' \in [Developers -> Invite] /\ sub' \in [Developers -> Submission]
      /\ review' \in [Developers -> Review]
      /\ \A d \in Developers : sub'[d] = NoSub /\ invite'[d] = "none" /\ review'[d] = NoReview
  BY NoChallengeIs, NoSubIs, NoReviewIs DEF Delete, There, Invite
<1>2. ReviewedAsWritten' /\ SharedIsReleased'
  BY <1>1, NoSubIs, NoReviewIs DEF ReviewedAsWritten, ReviewLocks, SharedIsReleased
<1>3. ASSUME ~crossed, NEW t \in Servers, t # s PROVE Current(job[t])'
  <2>1. job'[t] = job[t]
    BY <1>3, Ended DEF IInv, Delete
  <2>2. job[t].op \in {"submit", "withdraw"} => job[t].who \in Developers
    BY DEF IInv, Sound, ForOne
  <2>3. QED BY <1>1, <2>1, <2>2, NoReviewIs DEF Current, Begun
<1>4. QED BY <1>1, <1>2, <1>3, NoReviewIs, EndKeeps DEF Delete

(* Work is handed in or taken back: its review has not begun unless        *)
(* something crossed.                                                      *)
LEMMA WorkKeeps ==
    ASSUME IInv, NEW s \in Servers, job[s].op \in {"submit", "withdraw"}, End(s),
           UNCHANGED <<ch, invite, review, crossed>>,
           sub' \in [Developers -> Submission], ~There => sub' = sub,
           \A d \in Developers :
               /\ d # job[s].who => sub'[d] = sub[d]
               /\ sub[d].status # "none" => sub'[d].status # "none"
               /\ sub'[d].ratings = sub[d].ratings /\ sub'[d].feedback = sub[d].feedback
    PROVE  IInv'
<1>1. ASSUME ~crossed PROVE review[job[s].who].status = "none" /\ \A t \in Servers : ~Is(t, "review")
  BY <1>1 DEF IInv, Undisturbed, Current, Alone, Is, Disturbing
<1>2. ReviewedAsWritten' /\ SharedIsReleased'
  BY <1>1 DEF IInv, ReviewedAsWritten, ReviewLocks, SharedIsReleased
<1>3. ASSUME ~crossed, NEW t \in Servers, t # s PROVE Current(job[t])'
  <2>1. job'[t] = job[t] /\ Current(job[t]) /\ ~Is(t, "review")
    BY <1>1, <1>3, Ended DEF IInv, Undisturbed
  <2>2. QED BY <2>1 DEF Current, Begun, Is
<1>4. /\ \A d \in Developers : review'[d].status # "none" => sub'[d].status # "none"
      /\ ~There' => \A d \in Developers : sub'[d] = NoSub /\ invite'[d] = "none"
      /\ ch' \in Challenge /\ invite' \in [Developers -> Invite] /\ review' \in [Developers -> Review]
  BY DEF IInv, TypeOK, There
<1>5. There' <=> There
  BY DEF There
<1>6. QED BY <1>2, <1>3, <1>4, <1>5, EndKeeps

LEMMA SubmitKeeps == ASSUME IInv, NEW s \in Servers, Submit(s) PROVE IInv'
<1> DEFINE d == job[s].who
           seen == job[s].sub
           status == Column(seen.status, "submitted", sub[d].status)
<1>1. d \in Developers /\ seen.revision + 1 \in 0..MaxRevision
  <2>1. d \in Developers /\ seen \in Submission /\ seen.revision < MaxRevision
    BY DEF Submit, Is, IInv, TypeOK, Job, Sound, ForOne
  <2>2. QED BY <2>1, RevisionsAssumption DEF Submission
<1>2. sub[d] \in Submission
  BY <1>1 DEF IInv, TypeOK
<1>3. /\ status \in {"none", "submitted", "withdrawn"} \cup Locked
      /\ (seen.status = "none") = (sub[d].status = "none") => status # "none"
  BY <1>2 DEF Column, Submission
<1>4. sub' = IF There /\ (seen.status = "none") = (sub[d].status = "none")
             THEN [sub EXCEPT ![d].revision = seen.revision + 1, ![d].status = status]
             ELSE sub
  BY DEF Submit, Column
<1> HIDE DEF status, d, seen
<1>5. sub' \in [Developers -> Submission] /\ (~There => sub' = sub)
  BY <1>1, <1>2, <1>3, <1>4 DEF IInv, TypeOK, Submission
<1>6. \A e \in Developers :
          /\ e # d => sub'[e] = sub[e]
          /\ sub[e].status # "none" => sub'[e].status # "none"
          /\ sub'[e].ratings = sub[e].ratings /\ sub'[e].feedback = sub[e].feedback
  BY <1>1, <1>2, <1>3, <1>4 DEF IInv, TypeOK, Submission
<1>7. QED BY <1>5, <1>6, WorkKeeps DEF Submit, Is, d

LEMMA WithdrawKeeps == ASSUME IInv, NEW s \in Servers, Withdraw(s) PROVE IInv'
<1> DEFINE d == job[s].who
<1>1. d \in Developers
  BY DEF Withdraw, Is, IInv, Sound, ForOne
<1>2. sub' = IF sub[d].status = "none" THEN sub ELSE [sub EXCEPT ![d].status = "withdrawn"]
  BY DEF Withdraw
<1>3. sub' \in [Developers -> Submission]
  BY <1>1, <1>2 DEF IInv, TypeOK, Submission
<1>4. ~There => sub' = sub
  BY <1>1, <1>2, NoSubIs DEF IInv, TypeOK, There
<1>5. \A e \in Developers :
          /\ e # d => sub'[e] = sub[e]
          /\ sub[e].status # "none" => sub'[e].status # "none"
          /\ sub'[e].ratings = sub[e].ratings /\ sub'[e].feedback = sub[e].feedback
  BY <1>1, <1>2 DEF IInv, TypeOK, Submission
<1>6. QED BY <1>3, <1>4, <1>5, WorkKeeps DEF Withdraw, Is

(* A review is saved: undisturbed, of the revision it began with, by the   *)
(* rubric of the challenge; a released one stays so.                       *)
LEMMA SaveReviewKeeps ==
    ASSUME IInv, NEW s \in Servers, SaveReview(s)
    PROVE  /\ IInv'
           /\ \A d \in Developers : review[d].status = "released" => review'[d].status = "released"
<1> DEFINE d == job[s].who
           first == job[s].review = "none"
           wanted == IF job[s].yes THEN "released" ELSE "draft"
           made == [status |-> Column(job[s].review, wanted, review[d].status),
                     of |-> IF first THEN job[s].sub.revision ELSE review[d].of,
                     rubric |-> job[s].rubric, complete |-> job[s].yes]
           locked == Column(job[s].sub.status, IF job[s].yes THEN "reviewed" ELSE "in_review",
                            sub[d].status)
           skip == sub[d].status = "none" \/ first # (review[d].status = "none")
<1>1. d \in Developers /\ job[s] \in Job /\ job[s].review # "released"
  BY DEF SaveReview, Is, IInv, TypeOK, Sound, ForOne
<1>2. review[d] \in Review /\ sub[d] \in Submission
  BY <1>1 DEF IInv, TypeOK
<1>3. CASE skip
  <2>1. UNCHANGED <<sub, review>>
    BY <1>3 DEF SaveReview
  <2>2. IInv'
    BY <2>1, AsidesKeep DEF SaveReview, There, IInv, TypeOK
  <2>3. QED BY <2>1, <2>2
<1>4. CASE ~skip
  <2>1. /\ review' = [review EXCEPT ![d] = made]
        /\ sub' = [sub EXCEPT ![d].status = locked]
    BY <1>4 DEF SaveReview, Written, Column
  <2>2. made \in Review /\ made.status # "none"
    BY <1>1, <1>2, <1>4 DEF Column, Review, Job, Submission
  <2>3. locked \in {"none", "submitted", "withdrawn"} \cup Locked /\ locked # "none"
    BY <1>2, <1>4 DEF Column, Submission, Locked
  <2>4. review[d].status = "released" => made.status = "released"
    BY <1>1, <1>2, <1>4 DEF Column, Job
  <2>5. There
    BY <1>1, <1>4, NoSubIs DEF IInv, TypeOK, There
  <2>6. ASSUME ~crossed
        PROVE  /\ locked \in Locked /\ made.of = sub[d].revision
               /\ made.rubric = ch.rubric /\ (made.status = "released" => made.complete)
    <3>1. /\ job[s].rubric = ch.rubric /\ job[s].review = review[d].status
          /\ job[s].sub.status = sub[d].status /\ job[s].sub.revision = sub[d].revision
      BY <2>5, <2>6 DEF SaveReview, IInv, Undisturbed, Current, Is
    <3>2. ~first => review[d].of = sub[d].revision
      BY <1>1, <2>6, <3>1 DEF IInv, ReviewedAsWritten, ReviewLocks
    <3>3. QED BY <3>1, <3>2 DEF Column, Locked
  <2> HIDE DEF made, locked, skip, first, wanted, d
  <2>7. /\ review' \in [Developers -> Review] /\ review'[d] = made
        /\ \A e \in Developers : e # d => review'[e] = review[e]
    BY <1>1, <2>1, <2>2 DEF IInv, TypeOK
  <2>8. /\ sub' \in [Developers -> Submission]
        /\ sub'[d].status = locked /\ sub'[d].revision = sub[d].revision
        /\ sub'[d].ratings = sub[d].ratings /\ sub'[d].feedback = sub[d].feedback
        /\ \A e \in Developers : e # d => sub'[e] = sub[e]
    BY <1>1, <2>1, <2>3 DEF IInv, TypeOK, Submission
  <2>9. \A e \in Developers : review[e].status = "released" => review'[e].status = "released"
    BY <2>4, <2>7
  <2>10. ReviewedAsWritten'
    BY <1>1, <2>6, <2>7, <2>8 DEF SaveReview, IInv, ReviewedAsWritten, ReviewLocks
  <2>11. SharedIsReleased'
    BY <1>1, <2>8, <2>9 DEF IInv, SharedIsReleased
  <2>12. ASSUME ~crossed, NEW t \in Servers, t # s PROVE Current(job[t])'
    <3>1. job'[t] = job[t] /\ job[t].op \notin Disturbing \cup {"review"}
      BY <2>12, Ended DEF SaveReview, IInv, Undisturbed, Alone
    <3>2. QED BY <3>1 DEF Current, Disturbing
  <2>13. \A e \in Developers : review'[e].status # "none" => sub'[e].status # "none"
    BY <2>2, <2>3, <2>7, <2>8 DEF IInv, TypeOK
  <2>14. There'
    BY <2>5 DEF SaveReview, There
  <2>15. /\ UNCHANGED <<ch, crossed>> /\ End(s)
         /\ ch' \in Challenge /\ invite' \in [Developers -> Invite]
    BY DEF SaveReview, IInv, TypeOK
  <2>16. IInv'
    BY <2>5, <2>7, <2>8, <2>9, <2>10, <2>11, <2>12, <2>13, <2>14, <2>15, EndKeeps
  <2>17. QED BY <2>9, <2>16
<1>5. QED BY <1>3, <1>4

LEMMA CreateKeeps == ASSUME IInv, Create PROVE IInv'
<1>1. \A d \in Developers : review[d].status = "none" /\ sub[d] = NoSub /\ invite[d] = "none"
  BY NoSubIs DEF Create, There, IInv, TypeOK
<1>2. ch' \in Challenge /\ crossed' \in BOOLEAN /\ There'
  <2>1. PICK public \in BOOLEAN :
            ch' = [status |-> "draft", past |-> FALSE, public |-> public, rubric |-> "first"]
    BY DEF Create
  <2>2. ch' \in Challenge
    BY <2>1 DEF Challenge, Rubrics
  <2>3. ch'.status = "draft"
    BY <2>1
  <2>4. QED BY <2>2, <2>3 DEF Create, There
<1>3. TypeOK'
  BY <1>1, <1>2 DEF Create, IInv, TypeOK, There
<1>4. ReviewedAsWritten' /\ SharedIsReleased'
  BY <1>1, NoSubIs DEF Create, ReviewedAsWritten, ReviewLocks, SharedIsReleased
<1>5. \A s \in Servers : job'[s].op = "idle"
  BY DEF Create, Is
<1>6. Undisturbed' /\ \A s \in Servers : Sound(job[s])'
  BY <1>5 DEF Undisturbed, Alone, Is, Current, Sound, ForOne
<1>7. QED BY <1>3, <1>4, <1>6 DEF IInv

LEMMA DeadlineKeeps == ASSUME IInv, DeadlinePasses PROVE IInv'
<1>1. ch' \in Challenge /\ ch'.status = ch.status /\ ch'.rubric = ch.rubric
  BY DEF DeadlinePasses, IInv, TypeOK, Challenge
<1>2. TypeOK'
  BY <1>1 DEF DeadlinePasses, IInv, TypeOK
<1>3. ReviewedAsWritten' /\ SharedIsReleased'
  BY <1>1 DEF DeadlinePasses, IInv, ReviewedAsWritten, ReviewLocks, SharedIsReleased
<1>4. ASSUME NEW s \in Servers PROVE Sound(job[s])' /\ (Current(job[s]) => Current(job[s])')
  <2>1. Sound(job[s])
    BY DEF IInv
  <2>2. QED BY <1>1, <2>1 DEF DeadlinePasses, Sound, Current, Begun, There
<1>5. Undisturbed'
  BY <1>4 DEF DeadlinePasses, IInv, Undisturbed, Alone, Is
<1>6. QED BY <1>2, <1>3, <1>4, <1>5 DEF IInv

LEMMA NextIInv == ASSUME IInv, [Next]_vars PROVE IInv'
<1>1. CASE Create \/ DeadlinePasses
  BY <1>1, CreateKeeps, DeadlineKeeps
<1>2. ASSUME NEW s \in Servers, NEW column \in Columns, AskUpdate(s, column) PROVE IInv'
  BY <1>2, AskUpdateKeeps
<1>3. ASSUME NEW s \in Servers, AskPublish(s) \/ AskClose(s) \/ AskDelete(s) PROVE IInv'
  BY <1>3, AskStatusKeeps
<1>4. ASSUME NEW s \in Servers, NEW d \in Developers,
             AskInvite(s, d) \/ AskSubmit(s, d) \/ AskWithdraw(s, d)
      PROVE  IInv'
  BY <1>4, AskInviteKeeps, AskWorkKeeps
<1>5. ASSUME NEW s \in Servers, NEW d \in Developers,
             \/ \E answer \in {"accepted", "declined", "withdrawn"} : AskAnswer(s, d, answer)
             \/ \E release \in BOOLEAN : AskReview(s, d, release)
             \/ \E ratings, feedback \in BOOLEAN : AskShare(s, d, ratings, feedback)
      PROVE  IInv'
  BY <1>5, AskAnswerKeeps, AskReviewKeeps, AskShareKeeps
<1>6. ASSUME NEW s \in Servers,
             \/ Update(s) \/ SetStatus(s) \/ Delete(s) \/ DoInvite(s) \/ Answer(s)
             \/ Submit(s) \/ Withdraw(s) \/ SaveReview(s) \/ Share(s)
      PROVE  IInv'
  BY <1>6, UpdateKeeps, SetStatusKeeps, DeleteKeeps, DoInviteKeeps, AnswerKeeps,
     SubmitKeeps, WithdrawKeeps, SaveReviewKeeps, ShareKeeps
<1>7. CASE UNCHANGED vars
  <2>1. UNCHANGED <<ch, invite, sub, review, crossed, job>>
    BY <1>7 DEF vars
  <2>2. TypeOK' /\ ReviewedAsWritten' /\ SharedIsReleased'
    BY <2>1 DEF IInv, TypeOK, ReviewedAsWritten, ReviewLocks, SharedIsReleased
  <2>3. Undisturbed' /\ \A s \in Servers : Sound(job[s])'
    BY <2>1 DEF IInv, Undisturbed, Alone, Is, Current, Begun, There, Sound
  <2>4. QED BY <2>2, <2>3 DEF IInv
<1>8. QED BY <1>1, <1>2, <1>3, <1>4, <1>5, <1>6, <1>7 DEF Next

(* Only saving a review, or losing the challenge, changes a released one.  *)
LEMMA ReleasedStep ==
    ASSUME IInv, [Next]_vars, NEW d \in Developers, review[d].status = "released"
    PROVE  review'[d].status = "released" \/ ch'.status = "none"
<1>1. ASSUME NEW s \in Servers, SaveReview(s) PROVE review'[d].status = "released"
  BY <1>1, SaveReviewKeeps
<1>2. ASSUME NEW s \in Servers, Delete(s) PROVE ch'.status = "none"
  BY <1>2, NoChallengeIs DEF Delete
<1>3. CASE UNCHANGED review
  BY <1>3
<1>4. UNCHANGED review \/ \E s \in Servers : SaveReview(s) \/ Delete(s)
  BY DEF Next, vars, Create, DeadlinePasses, AskUpdate, AskPublish, AskClose, AskDelete,
         AskInvite, AskSubmit, AskWithdraw, AskAnswer, AskReview, AskShare, RowsSame,
         Update, SetStatus, DoInvite, Answer, Submit, Withdraw, Share
<1>5. QED BY <1>1, <1>2, <1>3, <1>4

THEOREM Invariant == Spec => []IInv
<1>1. Init => IInv
  BY InitIInv
<1>2. IInv /\ [Next]_vars => IInv'
  BY NextIInv
<1>3. QED BY <1>1, <1>2, PTL DEF Spec

(* However requests about one submission overlap, what the portfolio shows *)
(* was released; until a review overlaps what changes what it reads, it    *)
(* locks the work, keeps the rubric and is released complete               *)
(* (routes/challenges.py: save_review, set_sharing, submit_work).          *)
THEOREM ReviewsHoldAlways == Spec => []ReviewsHold
<1>1. IInv => ReviewsHold
  BY DEF IInv, ReviewsHold
<1>2. QED BY <1>1, Invariant, PTL

(* A released review never becomes a draft again (save_review).            *)
THEOREM ReleasedStaysAlways == Spec => ReleasedStays
<1>1. IInv /\ [Next]_vars =>
          [\A d \in Developers :
              review[d].status = "released" => review'[d].status = "released" \/ ch'.status = "none"]_vars
  BY ReleasedStep
<1>2. QED BY <1>1, Invariant, PTL DEF Spec, ReleasedStays

-----------------------------------------------------------------------------
(* Groups: the members of a group chat.                                    *)

(* NoOne is no person.                                                     *)
GroupDistinct == Nobody \notin People

(* Who makes a group is in it; who leaves is one person, and hands on      *)
(* nothing but what was theirs.                                            *)
GroupSound(request) ==
    /\ request.op = "create" => request.by \in request.about
    /\ request.op = "leave" => request.by \in People /\ request.about = {request.by}
    /\ (request.op = "leave" /\ ~request.started) => request.heir = Nobody

(* While a group is made nobody else is served.                            *)
GroupMakes ==
    \A g, h \in Servers : Group!Is(h, "create") => ~open /\ (g # h => Group!Is(g, "idle"))

(* Until a leave overlaps another leave or a removal: nobody else takes a  *)
(* member away; what it read of the starter is still so, and the heir is   *)
(* still there; a removal is not of the starter.                           *)
GroupCalm ==
    ~collided =>
        /\ \A g, h \in Servers :
               (g # h /\ Group!Is(h, "leave")) => task[g].op \notin {"leave", "remove"}
        /\ \A h \in Servers : (Group!Is(h, "leave") /\ open) =>
               /\ task[h].started <=> (starter = task[h].by)
               /\ (task[h].cut /\ ~task[h].last /\ task[h].started) =>
                      task[h].heir \in members \ task[h].about
        /\ \A h \in Servers : (Group!Is(h, "remove") /\ open) => starter \notin task[h].about

GroupIInv ==
    /\ Group!TypeOK /\ Group!InGoodHands /\ GroupMakes /\ GroupCalm
    /\ \A h \in Servers : GroupSound(task[h])

LEMMA GroupIdleIsTask ==
    Group!Idle \in Group!Task /\ Group!Idle.op = "idle" /\ Group!Idle.cut = FALSE /\ Group!Idle.last = FALSE /\ Group!Idle.heir = Nobody
BY DEF Group!Idle, Group!Task

(* A request begins, goes on or ends, the others stay.                     *)
LEMMA GroupServes ==
    ASSUME Group!TypeOK, NEW h \in Servers, NEW request \in Group!Task, task' = [task EXCEPT ![h] = request]
    PROVE  /\ task' \in [Servers -> Group!Task] /\ task'[h] = request
           /\ \A g \in Servers : g # h => task'[g] = task[g]
BY DEF Group!TypeOK

LEMMA GroupEnded ==
    ASSUME Group!TypeOK, NEW h \in Servers, Group!End(h)
    PROVE  /\ task' \in [Servers -> Group!Task] /\ task'[h].op = "idle"
           /\ \A g \in Servers : g # h => task'[g] = task[g]
BY GroupIdleIsTask DEF Group!TypeOK, Group!End

LEMMA GroupInitIInv == ASSUME Group!Init PROVE GroupIInv
<1>1. Group!TypeOK
  <2>1. task \in [Servers -> Group!Task]
    BY GroupIdleIsTask DEF Group!Init
  <2>2. QED BY <2>1 DEF Group!Init, Group!TypeOK
<1>2. \A h \in Servers : task[h].op = "idle"
  BY GroupIdleIsTask DEF Group!Init
<1>3. QED BY <1>1, <1>2 DEF Group!Init, GroupIInv, Group!InGoodHands, GroupMakes, GroupCalm,
             GroupSound, Group!Is

-----------------------------------------------------------------------------
(* A request other than the making of a group begins or goes on.           *)
LEMMA GroupRequestKeeps ==
    ASSUME GroupIInv, NEW h \in Servers, NEW request \in Group!Task, task' = [task EXCEPT ![h] = request],
           Group!GroupSame, collided' \in BOOLEAN, collided => collided',
           GroupSound(request), request.op # "create",
           request.op # "idle" => \A g \in Servers : ~Group!Is(g, "create"),
           ~collided' =>
               /\ request.op = "leave" => \A g \in Servers : g # h => task[g].op \notin {"leave", "remove"}
               /\ request.op = "remove" => \A g \in Servers : g # h => ~Group!Is(g, "leave")
               /\ (request.op = "leave" /\ open) =>
                      /\ request.started <=> (starter = request.by)
                      /\ (request.cut /\ ~request.last /\ request.started) =>
                             request.heir \in members \ request.about
               /\ (request.op = "remove" /\ open) => starter \notin request.about
    PROVE  GroupIInv'
<1>1. /\ task' \in [Servers -> Group!Task] /\ task'[h] = request
      /\ \A g \in Servers : g # h => task'[g] = task[g]
  BY GroupServes DEF GroupIInv
<1>2. Group!TypeOK' /\ Group!InGoodHands'
  BY <1>1 DEF GroupIInv, Group!TypeOK, Group!InGoodHands, Group!GroupSame
<1>3. GroupMakes'
  BY <1>1 DEF GroupIInv, GroupMakes, Group!Is, Group!GroupSame
<1>4. GroupCalm'
  BY <1>1 DEF GroupIInv, GroupCalm, Group!Is, Group!GroupSame
<1>5. ASSUME NEW g \in Servers PROVE GroupSound(task[g])'
  BY <1>1 DEF GroupIInv, GroupSound
<1>6. QED BY <1>2, <1>3, <1>4, <1>5 DEF GroupIInv

(* A group has people to make requests only when it is there.              *)
LEMMA GroupNobodyMakes ==
    ASSUME GroupIInv, open
    PROVE  \A g \in Servers : ~Group!Is(g, "create")
BY DEF GroupIInv, GroupMakes

LEMMA GroupAskCreateKeeps ==
    ASSUME GroupIInv, NEW h \in Servers, NEW p \in People, NEW who \in SUBSET People, Group!AskCreate(h, p, who)
    PROVE  GroupIInv'
<1>1. PICK request : request = [Group!Idle EXCEPT !.op = "create", !.by = p, !.about = who \cup {p}]
  OBVIOUS
<1>2. request \in Group!Task /\ request.op = "create" /\ GroupSound(request)
  BY <1>1, GroupIdleIsTask DEF Group!Task, GroupSound
<1>3. /\ task' \in [Servers -> Group!Task] /\ task'[h] = request
      /\ \A g \in Servers : g # h => task'[g] = task[g]
  BY <1>1, <1>2, GroupServes DEF Group!AskCreate, Group!Begin, GroupIInv
<1>4. Group!TypeOK' /\ Group!InGoodHands' /\ GroupMakes' /\ GroupCalm'
  BY <1>2, <1>3 DEF Group!AskCreate, Group!Unchanged, Group!GroupSame, GroupIInv, Group!TypeOK,
     Group!InGoodHands, GroupMakes, GroupCalm, Group!Is
<1>5. ASSUME NEW g \in Servers PROVE GroupSound(task[g])'
  BY <1>2, <1>3 DEF GroupIInv, GroupSound
<1>6. QED BY <1>4, <1>5 DEF GroupIInv

LEMMA GroupAskAddKeeps ==
    ASSUME GroupIInv, NEW h \in Servers, NEW p \in People, NEW who \in SUBSET People, Group!AskAdd(h, p, who)
    PROVE  GroupIInv'
<1>1. PICK request : request = [Group!Idle EXCEPT !.op = "add", !.by = p, !.about = who \ members]
  OBVIOUS
<1>2. request \in Group!Task /\ request.op = "add" /\ GroupSound(request)
  BY <1>1, GroupIdleIsTask DEF Group!Task, GroupSound
<1>3. open
  BY DEF Group!AskAdd, Group!Admin, GroupIInv, Group!TypeOK
<1>4. QED BY <1>1, <1>2, <1>3, GroupNobodyMakes, GroupRequestKeeps DEF Group!AskAdd, Group!Begin,
             Group!Unchanged, GroupIInv, Group!TypeOK

LEMMA GroupAskRemoveKeeps ==
    ASSUME GroupIInv, NEW h \in Servers, NEW p \in People, NEW q \in People, Group!AskRemove(h, p, q)
    PROVE  GroupIInv'
<1>1. PICK request : request = [Group!Idle EXCEPT !.op = "remove", !.by = p, !.about = {q}]
  OBVIOUS
<1>2. request \in Group!Task /\ request.op = "remove" /\ request.about = {q} /\ GroupSound(request)
  BY <1>1, GroupIdleIsTask DEF Group!Task, GroupSound
<1>3. open /\ starter # q
  BY DEF Group!AskRemove, Group!Admin, GroupIInv, Group!TypeOK
<1>4. collided' \in BOOLEAN /\ (collided => collided')
  BY DEF Group!AskRemove, Group!Meets, GroupIInv, Group!TypeOK
<1>5. ~collided' => \A g \in Servers : ~Group!Is(g, "leave")
  BY DEF Group!AskRemove, Group!Meets, Group!Is
<1>6. QED BY <1>1, <1>2, <1>3, <1>4, <1>5, GroupNobodyMakes, GroupRequestKeeps DEF Group!AskRemove,
             Group!Begin

LEMMA GroupAskLeaveKeeps ==
    ASSUME GroupIInv, NEW h \in Servers, NEW p \in People, Group!AskLeave(h, p)
    PROVE  GroupIInv'
<1>1. PICK request : request = [Group!Idle EXCEPT !.op = "leave", !.by = p, !.about = {p},
                                                  !.started = (starter = p)]
  OBVIOUS
<1>2. /\ request \in Group!Task /\ request.op = "leave" /\ request.by = p
      /\ request.started <=> (starter = p)
      /\ request.cut = FALSE /\ GroupSound(request)
  BY <1>1, GroupIdleIsTask DEF Group!Task, GroupSound
<1>3. open
  BY DEF Group!AskLeave, GroupIInv, Group!TypeOK
<1>4. collided' \in BOOLEAN /\ (collided => collided')
  BY DEF Group!AskLeave, Group!Meets, GroupIInv, Group!TypeOK
<1>5. ~collided' => \A g \in Servers : task[g].op \notin {"leave", "remove"}
  BY DEF Group!AskLeave, Group!Meets
<1>6. QED BY <1>1, <1>2, <1>3, <1>4, <1>5, GroupNobodyMakes, GroupRequestKeeps DEF Group!AskLeave,
             Group!Begin

LEMMA GroupAskAdminKeeps ==
    ASSUME GroupIInv, NEW h \in Servers, NEW p \in People, NEW q \in People, NEW value \in BOOLEAN,
           Group!AskAdmin(h, p, q, value)
    PROVE  GroupIInv'
<1>1. PICK request : request = [Group!Idle EXCEPT !.op = IF value THEN "promote" ELSE "demote",
                                                  !.by = p, !.about = {q}]
  OBVIOUS
<1>2. request \in Group!Task /\ request.op \in {"promote", "demote"} /\ GroupSound(request)
  BY <1>1, GroupIdleIsTask DEF Group!Task, GroupSound
<1>3. open
  BY DEF Group!AskAdmin, Group!Admin, GroupIInv, Group!TypeOK
<1>4. QED BY <1>1, <1>2, <1>3, GroupNobodyMakes, GroupRequestKeeps DEF Group!AskAdmin, Group!Begin,
             Group!Unchanged, GroupIInv, Group!TypeOK

(* The heir is one of those who remain.                                    *)
LEMMA GroupCutRowKeeps ==
    ASSUME GroupDistinct, GroupIInv, NEW h \in Servers, NEW p \in People, Group!CutRow(h, p)
    PROVE  GroupIInv'
<1> DEFINE rest == members \ {p}
<1>1. /\ task[h] \in Group!Task /\ GroupSound(task[h]) /\ task[h].about = {p}
      /\ ~collided => GroupCalm
  BY DEF Group!CutRow, GroupIInv, Group!TypeOK
<1>2. CASE Group!Is(h, "remove")
  <2>1. PICK request : /\ task' = [task EXCEPT ![h] = request]
                       /\ request = [task[h] EXCEPT !.cut = TRUE] \/ request = Group!Idle
    BY <1>2 DEF Group!CutRow, Group!End, Group!Is
  <2>2. CASE request = Group!Idle
    BY <2>1, <2>2, GroupIdleIsTask, GroupRequestKeeps DEF GroupSound, Group!CutRow, Group!Unchanged,
       GroupIInv, Group!TypeOK
  <2>3. CASE request = [task[h] EXCEPT !.cut = TRUE]
    <3>1. request \in Group!Task /\ request.op = "remove" /\ request.about = {p}
      BY <1>1, <1>2, <2>3 DEF Group!Task, Group!Is
    <3>2. GroupSound(request)
      BY <3>1 DEF GroupSound
    <3>3. \A g \in Servers : ~Group!Is(g, "create")
      BY <1>2 DEF GroupIInv, GroupMakes, Group!Is
    <3>4. ~collided => /\ \A g \in Servers : g # h => ~Group!Is(g, "leave")
                       /\ open => starter \notin {p}
      BY <1>1, <1>2 DEF GroupCalm, Group!Is
    <3>5. QED BY <2>1, <3>1, <3>2, <3>3, <3>4, GroupRequestKeeps DEF Group!CutRow, Group!Unchanged,
                 GroupIInv, Group!TypeOK
  <2>4. QED BY <2>1, <2>2, <2>3
<1>3. CASE Group!Is(h, "leave")
  <2>1. PICK request :
            /\ task' = [task EXCEPT ![h] = request]
            /\ \/ request = [task[h] EXCEPT !.cut = TRUE, !.last = TRUE]
               \/ \E heir \in (IF task[h].started THEN Group!Heirs(rest) ELSE {Nobody}) :
                      request = [task[h] EXCEPT !.cut = TRUE, !.heir = heir]
    BY <1>3 DEF Group!CutRow, Group!Is
  <2>2. Group!Heirs(rest) \subseteq rest /\ rest \subseteq People
    BY DEF Group!Heirs, GroupIInv, Group!TypeOK
  <2>3. /\ request \in Group!Task /\ request.op = "leave" /\ request.about = {p}
        /\ request.by = task[h].by /\ request.started = task[h].started
        /\ (~request.last /\ request.started) => request.heir \in rest
        /\ ~request.started => request.heir = Nobody
    <3>1. CASE request = [task[h] EXCEPT !.cut = TRUE, !.last = TRUE]
      BY <1>1, <1>3, <3>1 DEF Group!Task, Group!Is, GroupSound
    <3>2. CASE \E heir \in (IF task[h].started THEN Group!Heirs(rest) ELSE {Nobody}) :
                      request = [task[h] EXCEPT !.cut = TRUE, !.heir = heir]
      <4>1. PICK heir \in (IF task[h].started THEN Group!Heirs(rest) ELSE {Nobody}) :
                      request = [task[h] EXCEPT !.cut = TRUE, !.heir = heir]
        BY <3>2
      <4>2. heir \in People \cup {Nobody}
        BY <2>2
      <4>3. request \in Group!Task /\ request.heir = heir
        BY <1>1, <4>1, <4>2 DEF Group!Task
      <4>4. QED BY <1>1, <1>3, <2>2, <4>1, <4>3 DEF Group!Task, Group!Is
    <3>3. QED BY <2>1, <3>1, <3>2
  <2>4. GroupSound(request)
    BY <1>1, <1>3, <2>3 DEF GroupSound, Group!Is
  <2>5. \A g \in Servers : ~Group!Is(g, "create")
    BY <1>3 DEF GroupIInv, GroupMakes, Group!Is
  <2>6. ~collided => /\ \A g \in Servers : g # h => task[g].op \notin {"leave", "remove"}
                     /\ open => (request.started <=> (starter = request.by))
    BY <1>1, <1>3, <2>3 DEF GroupCalm, Group!Is
  <2>7. QED BY <2>1, <2>3, <2>4, <2>5, <2>6, GroupRequestKeeps DEF Group!CutRow, Group!Unchanged,
               GroupIInv, Group!TypeOK
<1>4. QED BY <1>2, <1>3 DEF Group!CutRow

-----------------------------------------------------------------------------
(* The group changes as a request ends: the others' requests stay sound.   *)
LEMMA GroupCreateKeeps == ASSUME GroupIInv, NEW h \in Servers, Group!Create(h) PROVE GroupIInv'
<1>1. /\ task[h] \in Group!Task /\ task[h].by \in task[h].about
      /\ \A g \in Servers : g # h => Group!Is(g, "idle")
  BY DEF Group!Create, Group!Is, GroupIInv, Group!TypeOK, GroupMakes, GroupSound
<1>2. \A g \in Servers : task'[g].op = "idle"
  BY <1>1, GroupEnded DEF Group!Create, Group!Is, GroupIInv
<1>3. Group!TypeOK' /\ Group!InGoodHands'
  BY <1>1, GroupEnded DEF Group!Create, GroupIInv, Group!TypeOK, Group!InGoodHands, Group!Task
<1>4. GroupMakes' /\ GroupCalm' /\ \A g \in Servers : GroupSound(task[g])'
  BY <1>2 DEF GroupMakes, GroupCalm, GroupSound, Group!Is
<1>5. QED BY <1>3, <1>4 DEF GroupIInv

(* Who is added is nobody's starter or heir to lose.                       *)
LEMMA GroupAddKeeps == ASSUME GroupIInv, NEW h \in Servers, Group!Add(h) PROVE GroupIInv'
<1>1. /\ task' \in [Servers -> Group!Task] /\ task'[h].op = "idle"
      /\ \A g \in Servers : g # h => task'[g] = task[g]
  BY GroupEnded DEF Group!Add, GroupIInv
<1>2. /\ members \subseteq members' /\ members' \subseteq People /\ (members' # members => open)
  <2>1. task[h] \in Group!Task
    BY DEF GroupIInv, Group!TypeOK
  <2>2. QED BY <2>1 DEF Group!Add, GroupIInv, Group!TypeOK, Group!Task
<1>3. Group!TypeOK' /\ Group!InGoodHands'
  BY <1>1, <1>2 DEF Group!Add, GroupIInv, Group!TypeOK, Group!InGoodHands
<1>4. GroupMakes' /\ GroupCalm' /\ \A g \in Servers : GroupSound(task[g])'
  BY <1>1, <1>2 DEF Group!Add, GroupIInv, GroupMakes, GroupCalm, GroupSound, Group!Is
<1>5. QED BY <1>3, <1>4 DEF GroupIInv

(* Members go: undisturbed, no leave of another is under way, and if the   *)
(* group stays there is one in charge who stays.                           *)
LEMMA GroupPartKeeps ==
    ASSUME GroupIInv, NEW h \in Servers, task[h].op \in {"leave", "remove"}, Group!End(h), UNCHANGED collided,
           open' \in BOOLEAN, open' => open, starter' \in People \cup {Nobody},
           members' \subseteq members, admins' \subseteq members' \cap admins, members' # {} => open',
           Group!Is(h, "remove") => starter' = starter,
           (open' /\ ~collided) => starter' \in members'
    PROVE  GroupIInv'
<1>1. /\ task' \in [Servers -> Group!Task] /\ task'[h].op = "idle"
      /\ \A g \in Servers : g # h => task'[g] = task[g]
  BY GroupEnded DEF GroupIInv
<1>2. Group!TypeOK' /\ Group!InGoodHands'
  BY <1>1 DEF GroupIInv, Group!TypeOK, Group!InGoodHands
<1>3. GroupMakes'
  BY <1>1 DEF GroupIInv, GroupMakes, Group!Is
<1>4. GroupCalm'
  <2> SUFFICES ASSUME ~collided PROVE GroupCalm'
    BY DEF GroupCalm
  <2>1. /\ \A g \in Servers : g # h => task[g].op # "leave"
        /\ Group!Is(h, "leave") => \A g \in Servers : g # h => ~Group!Is(g, "remove")
    BY DEF GroupIInv, GroupCalm, Group!Is
  <2>2. QED BY <1>1, <2>1 DEF GroupIInv, GroupCalm, Group!Is
<1>5. ASSUME NEW g \in Servers PROVE GroupSound(task[g])'
  BY <1>1 DEF GroupIInv, GroupSound
<1>6. QED BY <1>2, <1>3, <1>4, <1>5 DEF GroupIInv

LEMMA GroupRemoveKeeps == ASSUME GroupIInv, NEW h \in Servers, Group!Remove(h) PROVE GroupIInv'
<1>1. /\ members' = members \ task[h].about /\ admins' = admins \ task[h].about
      /\ UNCHANGED <<open, starter, collided>> /\ Group!Is(h, "remove") /\ Group!End(h)
  BY DEF Group!Remove
<1>2. (open' /\ ~collided) => starter' \in members'
  BY <1>1 DEF GroupIInv, GroupCalm, Group!InGoodHands
<1>3. open' \in BOOLEAN /\ starter' \in People \cup {Nobody} /\ (members' # {} => open')
      /\ admins' \subseteq members' \cap admins
  BY <1>1 DEF GroupIInv, Group!TypeOK
<1>4. QED BY <1>1, <1>2, <1>3, GroupPartKeeps DEF Group!Is

LEMMA GroupLeaveKeeps ==
    ASSUME GroupDistinct, GroupIInv, NEW h \in Servers, Group!Leave(h)
    PROVE GroupIInv'
<1>1. /\ task[h] \in Group!Task /\ Group!Is(h, "leave") /\ task[h].cut /\ Group!End(h) /\ UNCHANGED collided
      /\ task[h].by \in People /\ task[h].about = {task[h].by}
  BY DEF Group!Leave, Group!Is, GroupIInv, Group!TypeOK, GroupSound
<1>2. CASE task[h].last
  BY <1>1, <1>2, GroupPartKeeps DEF Group!Leave, Group!Is
<1>3. CASE ~task[h].last
  <2>1. /\ members' = members \ task[h].about /\ admins' = admins \ task[h].about
        /\ open' = open /\ starter' = IF open THEN Group!Heir(h) ELSE starter
    BY <1>3 DEF Group!Leave
  <2>2. starter' \in People \cup {Nobody}
    BY <1>1, <2>1 DEF Group!Heir, GroupIInv, Group!TypeOK, Group!Task
  <2>3. ASSUME open, ~collided PROVE starter' \in members'
    <3>1. /\ task[h].started <=> (starter = task[h].by)
          /\ task[h].started => task[h].heir \in members \ task[h].about
      BY <1>1, <1>3, <2>3 DEF GroupIInv, GroupCalm
    <3>2. CASE task[h].started
      BY <2>1, <2>3, <3>1, <3>2 DEF Group!Heir, GroupDistinct, GroupIInv, Group!TypeOK
    <3>3. CASE ~task[h].started
      <4>1. task[h].heir = Nobody
        BY <1>1, <3>3 DEF GroupIInv, GroupSound, Group!Is
      <4>2. QED BY <1>1, <2>1, <2>3, <3>1, <3>3, <4>1 DEF Group!Heir, GroupIInv, Group!InGoodHands
    <3>4. QED BY <3>2, <3>3
  <2>4. open' \in BOOLEAN /\ (members' # {} => open') /\ admins' \subseteq members' \cap admins
    BY <2>1 DEF GroupIInv, Group!TypeOK
  <2>5. QED BY <1>1, <2>1, <2>2, <2>3, <2>4, GroupPartKeeps DEF Group!Is
<1>4. QED BY <1>2, <1>3

LEMMA GroupSetAdminKeeps == ASSUME GroupIInv, NEW h \in Servers, Group!SetAdmin(h) PROVE GroupIInv'
<1>1. /\ task' \in [Servers -> Group!Task] /\ task'[h].op = "idle"
      /\ \A g \in Servers : g # h => task'[g] = task[g]
  BY GroupEnded DEF Group!SetAdmin, GroupIInv
<1>2. admins' \subseteq members
  BY DEF Group!SetAdmin, Group!StillThere, GroupIInv, Group!TypeOK
<1>3. Group!TypeOK' /\ Group!InGoodHands'
  BY <1>1, <1>2 DEF Group!SetAdmin, GroupIInv, Group!TypeOK, Group!InGoodHands
<1>4. GroupMakes' /\ GroupCalm' /\ \A g \in Servers : GroupSound(task[g])'
  BY <1>1 DEF Group!SetAdmin, GroupIInv, GroupMakes, GroupCalm, GroupSound, Group!Is
<1>5. QED BY <1>3, <1>4 DEF GroupIInv

LEMMA GroupNextIInv == ASSUME GroupDistinct, GroupIInv, [Group!Next]_Group!vars PROVE GroupIInv'
<1>1. ASSUME NEW h \in Servers, NEW p \in People, NEW who \in SUBSET People,
             Group!AskCreate(h, p, who) \/ Group!AskAdd(h, p, who)
      PROVE  GroupIInv'
  BY <1>1, GroupAskCreateKeeps, GroupAskAddKeeps
<1>2. ASSUME NEW h \in Servers, NEW p \in People, NEW q \in People,
             Group!AskRemove(h, p, q) \/ \E value \in BOOLEAN : Group!AskAdmin(h, p, q, value)
      PROVE  GroupIInv'
  BY <1>2, GroupAskRemoveKeeps, GroupAskAdminKeeps
<1>3. ASSUME NEW h \in Servers, NEW p \in People, Group!AskLeave(h, p) \/ Group!CutRow(h, p) PROVE GroupIInv'
  BY <1>3, GroupAskLeaveKeeps, GroupCutRowKeeps
<1>4. ASSUME NEW h \in Servers, Group!Create(h) \/ Group!Add(h) \/ Group!Remove(h) \/ Group!Leave(h) \/ Group!SetAdmin(h)
      PROVE  GroupIInv'
  BY <1>4, GroupCreateKeeps, GroupAddKeeps, GroupRemoveKeeps, GroupLeaveKeeps, GroupSetAdminKeeps
<1>5. CASE UNCHANGED Group!vars
  BY <1>5 DEF Group!vars, GroupIInv, Group!TypeOK, Group!InGoodHands, GroupMakes, GroupCalm,
     GroupSound, Group!Is
<1>6. QED BY <1>1, <1>2, <1>3, <1>4, <1>5 DEF Group!Next

LEMMA GroupHolds == ASSUME GroupIInv PROVE Group!TypeOK /\ Group!InGoodHands
BY DEF GroupIInv

(* A behaviour of the composition is one of Groups, with steps that leave  *)
(* it alone.                                                               *)
LEMMA GroupSpec == ExchangeSpec => Group!Spec
<1>1. ExchangeInit => Group!Init
  BY DEF ExchangeInit
<1>2. [ExchangeNext]_exchangeVars => [Group!Next]_Group!vars
  BY DEF ExchangeNext, exchangeVars, groupVars, Group!vars
<1>3. QED BY <1>1, <1>2, PTL DEF ExchangeSpec, Group!Spec

LEMMA GroupInvariant == ExchangeSpec => []GroupIInv
<1>1. Group!Init => GroupIInv
  BY GroupInitIInv
<1>2. GroupIInv /\ [Group!Next]_Group!vars => GroupIInv'
  BY GroupNextIInv, NobodyAssumption DEF GroupDistinct
<1>3. QED BY <1>1, <1>2, GroupSpec, PTL DEF Group!Spec

(* Whatever leaves, transfers, removals and promotions of one group        *)
(* overlap: a group that still has members has one of them as its owner,   *)
(* unless two of those requests met.                                       *)
THEOREM InGoodHandsAlways == ExchangeSpec => []InGoodHands
<1>1. GroupIInv => InGoodHands
  BY GroupHolds DEF InGoodHands
<1>2. QED BY <1>1, GroupInvariant, PTL

-----------------------------------------------------------------------------
(* DirectChat: two people write to each other.                             *)

ChatBounds == MaxChoices \in Nat

(* A request is about a message; a message marked or reacted to is there.  *)
(* While Bob has not changed his mind: one being sent was not refused, a   *)
(* notification was wanted, and an announcement of a reading.              *)
ChatSound(request) ==
    /\ request.since <= choices
    /\ request.op \in {"send", "stored", "rung"} => request.about \in Messages
    /\ request.op = "react" => request.about \in sent
    /\ request.op = "mark" => request.set \subseteq sent
    /\ request.since = choices =>
           /\ request.op \in {"send", "stored"} => choice # "block"
           /\ (request.op = "stored" /\ request.found) => ~Chat!Silent
           /\ (request.op = "mark" /\ request.found) => choice # "restrict"

(* What is hidden is hidden by a restriction.                              *)
ChatHidden == hidden # {} => choice = "restrict"

ChatIInv == Chat!TypeOK /\ ChatHidden /\ Chat!WishesHold /\ \A t \in Servers : ChatSound(asked[t])

LEMMA ChatIdleIsAsked ==
    ASSUME ChatBounds
    PROVE Chat!Idle \in Chat!Asked /\ Chat!Idle.op = "idle" /\ Chat!Idle.since = 0
BY DEF Chat!Idle, Chat!Asked, ChatBounds

LEMMA ChatIdleIsSound == ASSUME ChatBounds, Chat!TypeOK PROVE ChatSound(Chat!Idle)
<1>1. Chat!Idle.op = "idle" /\ Chat!Idle.since = 0 /\ choices \in Nat
  BY ChatIdleIsAsked DEF Chat!TypeOK, ChatBounds
<1>2. QED BY <1>1 DEF ChatSound

LEMMA ChatServes ==
    ASSUME Chat!TypeOK, NEW t \in Servers, NEW request \in Chat!Asked, Chat!Step(t, request)
    PROVE  /\ asked' \in [Servers -> Chat!Asked] /\ asked'[t] = request
           /\ \A u \in Servers : u # t => asked'[u] = asked[u]
BY DEF Chat!TypeOK, Chat!Step

LEMMA ChatInitIInv == ASSUME ChatBounds, Chat!Init PROVE ChatIInv
<1>1. Chat!TypeOK
  <2>1. asked \in [Servers -> Chat!Asked]
    BY ChatIdleIsAsked DEF Chat!Init
  <2>2. choices \in 0..MaxChoices
    BY DEF Chat!Init, ChatBounds
  <2>3. muted \in BOOLEAN
    BY DEF Chat!Init
  <2>4. QED BY <2>1, <2>2, <2>3 DEF Chat!Init, Chat!TypeOK
<1>2. \A t \in Servers : ChatSound(asked[t])
  BY <1>1, ChatIdleIsSound DEF Chat!Init
<1>3. QED BY <1>1, <1>2 DEF Chat!Init, ChatIInv, ChatHidden, Chat!WishesHold, Chat!ReadsStayPrivate,
             Chat!ChoicesHold

(* A request of one of them begins, goes on or ends; Bob's choice stays.   *)
LEMMA ChatStepKeeps ==
    ASSUME ChatIInv, NEW t \in Servers, NEW request \in Chat!Asked, Chat!Step(t, request), Chat!BobSame,
           sent' \subseteq Messages, sent \subseteq sent', read' \subseteq sent', liked' \subseteq sent',
           hidden' \subseteq read', ChatHidden', revealed' = {}, defied' = {},
           ChatSound(request)
    PROVE  ChatIInv'
<1>1. /\ asked' \in [Servers -> Chat!Asked] /\ asked'[t] = request
      /\ \A u \in Servers : u # t => asked'[u] = asked[u]
  BY ChatServes DEF ChatIInv
<1>2. Chat!TypeOK' /\ Chat!WishesHold'
  BY <1>1 DEF ChatIInv, Chat!TypeOK, Chat!WishesHold, Chat!ReadsStayPrivate, Chat!ChoicesHold,
     Chat!BobSame
<1>3. ASSUME NEW u \in Servers PROVE ChatSound(asked[u])'
  <2>1. ChatSound(asked'[u])
    BY <1>1 DEF ChatIInv
  <2>2. QED BY <2>1 DEF ChatSound, Chat!Silent, Chat!BobSame
<1>4. QED BY <1>2, <1>3 DEF ChatIInv

(* ... of what was sent, read and told, too.                               *)
LEMMA ChatQuietKeeps ==
    ASSUME ChatIInv, NEW t \in Servers, NEW request \in Chat!Asked, Chat!Step(t, request), ChatSound(request),
           UNCHANGED <<sent, read, liked, hidden, revealed, defied>>, Chat!BobSame
    PROVE  ChatIInv'
<1>1. ChatHidden'
  BY DEF ChatIInv, ChatHidden, Chat!BobSame
<1>2. QED BY <1>1, ChatStepKeeps DEF ChatIInv, Chat!TypeOK, Chat!WishesHold, Chat!ReadsStayPrivate,
             Chat!ChoicesHold

-----------------------------------------------------------------------------
LEMMA ChatChooseKeeps ==
    ASSUME ChatBounds, ChatIInv, NEW kind \in {"none", "restrict", "block"}, Chat!Choose(kind) \/ Chat!Mute
    PROVE  ChatIInv'
<1>1. /\ choices' = choices + 1 /\ choices' \in 0..MaxChoices /\ choices \in Nat
      /\ choice' \in {"none", "restrict", "block"} /\ muted' \in BOOLEAN
      /\ UNCHANGED <<sent, read, liked, revealed, defied, asked>>
      /\ hidden' \subseteq hidden /\ (hidden' # {} => choice' = choice)
  <2>1. choices \in 0..MaxChoices /\ choices < MaxChoices /\ choices' = choices + 1
    BY DEF Chat!Choose, Chat!Mute, ChatIInv, Chat!TypeOK
  <2>2. choices' \in 0..MaxChoices /\ choices \in Nat
    BY <2>1 DEF ChatBounds
  <2>3. choice' \in {"none", "restrict", "block"} /\ muted' \in BOOLEAN
    BY DEF Chat!Choose, Chat!Mute, ChatIInv, Chat!TypeOK
  <2>4. /\ UNCHANGED <<sent, read, liked, revealed, defied, asked>>
        /\ hidden' \subseteq hidden /\ (hidden' # {} => choice' = choice)
    BY DEF Chat!Choose, Chat!Mute
  <2>5. QED BY <2>1, <2>2, <2>3, <2>4
<1>2. Chat!TypeOK' /\ ChatHidden' /\ Chat!WishesHold'
  BY <1>1 DEF ChatIInv, Chat!TypeOK, ChatHidden, Chat!WishesHold, Chat!ReadsStayPrivate,
     Chat!ChoicesHold
<1>3. ASSUME NEW t \in Servers PROVE ChatSound(asked[t])'
  <2>1. ChatSound(asked[t]) /\ asked'[t] = asked[t] /\ asked[t].since \in Nat
    BY <1>1 DEF ChatIInv, Chat!TypeOK, Chat!Asked
  <2>2. asked[t].since <= choices' /\ asked[t].since # choices'
    BY <1>1, <2>1 DEF ChatSound
  <2>3. QED BY <1>1, <2>1, <2>2 DEF ChatSound
<1>4. QED BY <1>2, <1>3 DEF ChatIInv

LEMMA ChatAskKeeps ==
    ASSUME ChatBounds, ChatIInv, NEW t \in Servers, NEW request \in Chat!Asked, Chat!Ask(t, request), Chat!BobSame,
           UNCHANGED <<sent, read, liked, hidden, revealed, defied>>,
           request.op \notin {"stored", "rung", "mark"},
           request.op = "send" => request.about \in Messages /\ choice # "block",
           request.op = "react" => request.about \in sent
    PROVE  ChatIInv'
<1>1. PICK dated : dated = [request EXCEPT !.since = choices]
  OBVIOUS
<1>2. /\ dated \in Chat!Asked /\ dated.op = request.op /\ dated.about = request.about
      /\ dated.since = choices /\ Chat!Step(t, dated)
  BY <1>1 DEF Chat!Asked, Chat!Ask, Chat!Step, ChatIInv, Chat!TypeOK
<1>3. choices <= choices
  BY DEF ChatIInv, Chat!TypeOK, ChatBounds
<1>4. ChatSound(dated)
  BY <1>2, <1>3 DEF ChatSound
<1>5. QED BY <1>2, <1>4, ChatQuietKeeps

LEMMA ChatSendKeeps ==
    ASSUME ChatBounds, ChatIInv, NEW t \in Servers, NEW m \in Messages, Chat!Send(t, m)
    PROVE ChatIInv'
<1>1. PICK request : request = [Chat!Idle EXCEPT !.op = "send", !.about = m]
  OBVIOUS
<1>2. request \in Chat!Asked /\ request.op = "send" /\ request.about = m
  BY <1>1, ChatIdleIsAsked DEF Chat!Asked
<1>3. QED BY <1>1, <1>2, ChatAskKeeps DEF Chat!Send, Chat!BlockedBetween

LEMMA ChatReactKeeps ==
    ASSUME ChatBounds, ChatIInv, NEW t \in Servers, NEW m \in Messages, Chat!React(t, m)
    PROVE ChatIInv'
<1> DEFINE found == m \in liked
<1>0. found \in BOOLEAN
  OBVIOUS
<1>1. PICK request : Chat!Ask(t, request) /\ request = [Chat!Idle EXCEPT !.op = "react", !.about = m, !.found = found]
  BY DEF Chat!React
<1> HIDE DEF found
<1>2. request \in Chat!Asked /\ request.op = "react" /\ request.about = m
  BY <1>0, <1>1, ChatIdleIsAsked DEF Chat!Asked
<1>3. QED BY <1>1, <1>2, ChatAskKeeps DEF Chat!React

LEMMA ChatLookKeeps ==
    ASSUME ChatBounds, ChatIInv, NEW t \in Servers,
           Chat!View(t) \/ Chat!Open(t) \/ \E m \in Messages : Chat!ViewLast(t, m)
    PROVE  ChatIInv'
<1>1. PICK request : /\ Chat!Ask(t, request)
                     /\ \/ \E set \in SUBSET read : request = [Chat!Idle EXCEPT !.op = "view", !.set = set]
                        \/ request = [Chat!Idle EXCEPT !.op = "open"]
  BY DEF Chat!View, Chat!Open, Chat!ViewLast
<1>2. request \in Chat!Asked /\ request.op \in {"view", "open"}
  <2>1. read \subseteq Messages
    BY DEF ChatIInv, Chat!TypeOK
  <2>2. QED BY <1>1, <2>1, ChatIdleIsAsked DEF Chat!Asked
<1>3. Chat!BobSame /\ UNCHANGED <<sent, read, liked, hidden, revealed, defied>>
  BY DEF Chat!View, Chat!Open, Chat!ViewLast
<1>4. QED BY <1>1, <1>2, <1>3, ChatAskKeeps

LEMMA ChatNotifyKeeps == ASSUME ChatIInv, NEW t \in Servers, Chat!Notify(t) PROVE ChatIInv'
<1>1. PICK request : request = [asked[t] EXCEPT !.op = "stored", !.found = ~Chat!Silent]
  OBVIOUS
<1>2. /\ request \in Chat!Asked /\ request.op = "stored" /\ (request.found <=> ~Chat!Silent)
      /\ request.about = asked[t].about /\ request.since = asked[t].since
      /\ ChatSound(asked[t])
  BY <1>1 DEF Chat!Asked, ChatIInv, Chat!TypeOK
<1>3. ChatSound(request)
  BY <1>2 DEF ChatSound, Chat!Notify, Chat!Is
<1>4. QED BY <1>1, <1>2, <1>3, ChatQuietKeeps DEF Chat!Notify

LEMMA ChatStoreKeeps == ASSUME ChatBounds, ChatIInv, NEW t \in Servers, Chat!Store(t) PROVE ChatIInv'
<1>1. PICK request : request = [asked[t] EXCEPT !.op = "rung"]
  OBVIOUS
<1>2. /\ request \in Chat!Asked /\ request.op = "rung" /\ request.about = asked[t].about
      /\ request.since = asked[t].since /\ ChatSound(asked[t])
  BY <1>1 DEF Chat!Asked, ChatIInv, Chat!TypeOK
<1>3. ChatSound(request) /\ asked[t].about \in Messages
  BY <1>2 DEF ChatSound, Chat!Store, Chat!Is
<1>4. ~(Chat!Lasted(t) /\ (choice = "block" \/ (Chat!Silent /\ asked[t].found)))
  BY <1>2 DEF Chat!Store, Chat!Is, ChatSound, Chat!Lasted
<1>5. /\ sent' = sent \cup {asked[t].about} /\ defied' = defied
      /\ UNCHANGED <<read, liked, hidden, revealed>> /\ Chat!BobSame /\ Chat!Step(t, request)
  BY <1>1, <1>4 DEF Chat!Store
<1>6. QED BY <1>2, <1>3, <1>5, ChatStepKeeps
          DEF ChatIInv, Chat!TypeOK, ChatHidden, Chat!WishesHold, Chat!ReadsStayPrivate,
              Chat!ChoicesHold, Chat!BobSame

LEMMA ChatRingKeeps == ASSUME ChatBounds, ChatIInv, NEW t \in Servers, Chat!Ring(t) PROVE ChatIInv'
BY ChatIdleIsAsked, ChatIdleIsSound, ChatQuietKeeps DEF Chat!Ring, Chat!Quiet, ChatIInv

LEMMA ChatAnswerViewKeeps ==
    ASSUME ChatBounds, ChatIInv, NEW t \in Servers, Chat!AnswerView(t)
    PROVE ChatIInv'
<1>1. revealed' = revealed
  BY DEF Chat!AnswerView, Chat!Shown, Chat!HideRead, ChatIInv, ChatHidden
<1>2. QED BY <1>1, ChatIdleIsAsked, ChatIdleIsSound, ChatQuietKeeps DEF Chat!AnswerView, ChatIInv

LEMMA ChatMarkKeeps == ASSUME ChatBounds, ChatIInv, NEW t \in Servers, Chat!Mark(t) PROVE ChatIInv'
<1>1. PICK request :
          /\ Chat!Step(t, request)
          /\ \/ request = Chat!Idle
             \/ request = [asked[t] EXCEPT !.op = "mark", !.set = sent \ read, !.found = Chat!Announces]
  BY DEF Chat!Mark
<1>2. CASE request = Chat!Idle
  BY <1>1, <1>2, ChatIdleIsAsked, ChatIdleIsSound, ChatQuietKeeps DEF Chat!Mark, ChatIInv
<1>3. CASE request = [asked[t] EXCEPT !.op = "mark", !.set = sent \ read, !.found = Chat!Announces]
  <2>1. /\ request \in Chat!Asked /\ request.op = "mark" /\ request.set = sent \ read
        /\ (request.found <=> Chat!Announces) /\ request.since = asked[t].since /\ ChatSound(asked[t])
    BY <1>3 DEF Chat!Asked, ChatIInv, Chat!TypeOK, Chat!Announces
  <2>2. ChatSound(request)
    BY <2>1 DEF ChatSound, Chat!Announces
  <2>3. QED BY <1>1, <2>1, <2>2, ChatQuietKeeps DEF Chat!Mark
<1>4. QED BY <1>1, <1>2, <1>3

LEMMA ChatCommitReadKeeps ==
    ASSUME ChatBounds, ChatIInv, NEW t \in Servers, Chat!CommitRead(t)
    PROVE ChatIInv'
<1> DEFINE private == IF choice = "restrict" /\ Chat!Lasted(t) THEN asked[t].set ELSE {}
<1>1. asked[t].set \subseteq sent /\ (asked[t].found => private = {}) /\ private \subseteq asked[t].set
  BY DEF Chat!CommitRead, Chat!Is, Chat!Lasted, ChatIInv, ChatSound
<1>2. /\ read' = read \cup asked[t].set /\ hidden' = hidden \cup private
      /\ revealed' = revealed /\ (private # {} => choice = "restrict")
  BY <1>1 DEF Chat!CommitRead
<1> HIDE DEF private
<1>3. ChatHidden'
  BY <1>2 DEF Chat!CommitRead, ChatIInv, ChatHidden, Chat!BobSame
<1>4. read' \subseteq sent' /\ liked' \subseteq sent' /\ hidden' \subseteq read'
  BY <1>1, <1>2 DEF Chat!CommitRead, ChatIInv, Chat!TypeOK
<1>5. sent' \subseteq Messages /\ sent \subseteq sent' /\ revealed' = {} /\ defied' = {}
  BY <1>2 DEF Chat!CommitRead, ChatIInv, Chat!TypeOK, Chat!WishesHold, Chat!ReadsStayPrivate,
     Chat!ChoicesHold
<1>6. QED BY <1>3, <1>4, <1>5, ChatIdleIsAsked, ChatIdleIsSound, ChatStepKeeps DEF Chat!CommitRead,
             ChatIInv

LEMMA ChatToggleKeeps == ASSUME ChatBounds, ChatIInv, NEW t \in Servers, Chat!Toggle(t) PROVE ChatIInv'
<1>1. asked[t].about \in sent
  BY DEF Chat!Toggle, Chat!Is, ChatIInv, ChatSound
<1>2. liked' \subseteq sent' /\ ChatHidden'
  BY <1>1 DEF Chat!Toggle, ChatIInv, Chat!TypeOK, ChatHidden, Chat!BobSame
<1>3. QED BY <1>2, ChatIdleIsAsked, ChatIdleIsSound, ChatStepKeeps
          DEF Chat!Toggle, ChatIInv, Chat!TypeOK, Chat!WishesHold, Chat!ReadsStayPrivate,
              Chat!ChoicesHold

LEMMA ChatReactOwnKeeps == ASSUME ChatIInv, NEW m \in Messages, Chat!ReactOwn(m) PROVE ChatIInv'
<1>1. Chat!TypeOK' /\ ChatHidden' /\ Chat!WishesHold'
  BY DEF Chat!ReactOwn, Chat!BobSame, ChatIInv, Chat!TypeOK, ChatHidden, Chat!WishesHold,
     Chat!ReadsStayPrivate, Chat!ChoicesHold
<1>2. ASSUME NEW t \in Servers PROVE ChatSound(asked[t])'
  BY DEF Chat!ReactOwn, Chat!BobSame, ChatIInv, ChatSound, Chat!Silent
<1>3. QED BY <1>1, <1>2 DEF ChatIInv

LEMMA ChatNextIInv == ASSUME ChatBounds, ChatIInv, [Chat!Next]_Chat!vars PROVE ChatIInv'
<1>1. ASSUME NEW kind \in {"none", "restrict", "block"}, Chat!Choose(kind) PROVE ChatIInv'
  BY <1>1, ChatChooseKeeps
<1>2. CASE Chat!Mute
  BY <1>2, ChatChooseKeeps
<1>3. ASSUME NEW m \in Messages, Chat!ReactOwn(m) PROVE ChatIInv'
  BY <1>3, ChatReactOwnKeeps
<1>4. ASSUME NEW t \in Servers, NEW m \in Messages, Chat!Send(t, m) \/ Chat!React(t, m) \/ Chat!ViewLast(t, m)
      PROVE  ChatIInv'
  BY <1>4, ChatSendKeeps, ChatReactKeeps, ChatLookKeeps
<1>5. ASSUME NEW t \in Servers,
             \/ Chat!Notify(t) \/ Chat!Store(t) \/ Chat!Ring(t) \/ Chat!View(t) \/ Chat!AnswerView(t)
             \/ Chat!Open(t) \/ Chat!Mark(t) \/ Chat!CommitRead(t) \/ Chat!Toggle(t)
      PROVE  ChatIInv'
  BY <1>5, ChatNotifyKeeps, ChatStoreKeeps, ChatRingKeeps, ChatLookKeeps, ChatAnswerViewKeeps,
     ChatMarkKeeps,
     ChatCommitReadKeeps, ChatToggleKeeps
<1>6. CASE UNCHANGED Chat!vars
  <2>1. Chat!TypeOK' /\ ChatHidden' /\ Chat!WishesHold'
    BY <1>6 DEF Chat!vars, ChatIInv, Chat!TypeOK, ChatHidden, Chat!WishesHold, Chat!ReadsStayPrivate,
       Chat!ChoicesHold
  <2>2. ASSUME NEW t \in Servers PROVE ChatSound(asked[t])'
    BY <1>6 DEF Chat!vars, ChatIInv, ChatSound, Chat!Silent
  <2>3. QED BY <2>1, <2>2 DEF ChatIInv
<1>7. QED BY <1>1, <1>2, <1>3, <1>4, <1>5, <1>6 DEF Chat!Next

LEMMA ChatHolds == ASSUME ChatIInv PROVE Chat!TypeOK /\ Chat!WishesHold
BY DEF ChatIInv

(* A behaviour of the composition is one of DirectChat, with steps that    *)
(* leave it alone.                                                         *)
LEMMA ChatSpec == ExchangeSpec => Chat!Spec
<1>1. ExchangeInit => Chat!Init
  BY DEF ExchangeInit
<1>2. [ExchangeNext]_exchangeVars => [Chat!Next]_Chat!vars
  BY DEF ExchangeNext, exchangeVars, chatVars, Chat!vars
<1>3. QED BY <1>1, <1>2, PTL DEF ExchangeSpec, Chat!Spec

LEMMA ChatInvariant == ExchangeSpec => []ChatIInv
<1>1. Chat!Init => ChatIInv
  BY ChatInitIInv, BoundsAssumption DEF ChatBounds
<1>2. ChatIInv /\ [Chat!Next]_Chat!vars => ChatIInv'
  BY ChatNextIInv, BoundsAssumption DEF ChatBounds
<1>3. QED BY <1>1, <1>2, ChatSpec, PTL DEF Chat!Spec

(* However sends, choices, blocks and reveals of one direct chat overlap,  *)
(* what each of the two has asked for is kept.                             *)
THEOREM WishesHoldAlways == ExchangeSpec => []WishesHold
<1>1. ChatIInv => WishesHold
  BY ChatHolds DEF WishesHold
<1>2. QED BY <1>1, ChatInvariant, PTL

-----------------------------------------------------------------------------
(* Recruiting: the contact requests of a recruiter and a candidate.        *)

(* The part counts as FiniteSets does.                                     *)
LEMMA TalkCounts == ASSUME NEW S PROVE Talk!Cardinality(S) = Cardinality(S)
BY DEF Talk!Cardinality, Cardinality

(* Some requests a day are allowed.                                        *)
TalkBounds == IsFiniteSet(Servers) /\ MaxDaily \in Nat \ {0} /\ MaxRequests \in Nat

(* An answer is to a request there is.                                     *)
TalkAnswers == {"accepted", "declined", "withdrawn"}
TalkRows == 1..Len(asks)
TalkSound(request) == request.op \in TalkAnswers => request.row \in TalkRows

(* Until requests that decide on the same rows overlap: one sender and one *)
(* answer at a time, and no sender beside an accepting one; an answer is   *)
(* to a pending request; who sends has found none accepted, who inserts    *)
(* none that is live; what was refused is a fresh refusal.                 *)
TalkCalm ==
    ~overlap =>
        /\ \A c, d \in Servers :
               (c # d /\ desk[c].op \in {"send", "insert"}) =>
                   desk[d].op \notin {"send", "insert", "accepted"}
        /\ \A c, d \in Servers : (c # d /\ desk[c].op \in TalkAnswers) => desk[d].op \notin TalkAnswers
        /\ \A d \in Servers : desk[d].op \in TalkAnswers => asks[desk[d].row].status = "pending"
        /\ \A d \in Servers : Talk!Is(d, "send") => \A i \in TalkRows : asks[i].status # "accepted"
        /\ \A d \in Servers : Talk!Is(d, "insert") => \A i \in TalkRows : ~Talk!Live(asks[i])
        /\ refused => \E i \in TalkRows : asks[i].status = "declined" /\ asks[i].recent
        /\ \A i, j \in TalkRows : Talk!Live(asks[i]) /\ Talk!Live(asks[j]) => i = j
        /\ opener <=> \E i \in TalkRows : asks[i].status = "accepted"

(* Who is about to send has been counted, or will be: each passes the      *)
(* limit by one at most.                                                   *)
TalkSenders == {d \in Servers : desk[d].op \in {"send", "insert"}}
TalkCounted == today \in Nat /\ today + Cardinality(TalkSenders) <= MaxDaily + Cardinality(Servers) - 1

TalkTypes ==
    /\ asks \in Seq(Talk!Ask) /\ Len(asks) <= MaxRequests /\ terms \in Talk!Terms
    /\ opener \in BOOLEAN /\ refused \in BOOLEAN /\ overlap \in BOOLEAN
    /\ desk \in [Servers -> Talk!Desk]

TalkIInv == TalkTypes /\ TalkCounted /\ TalkCalm /\ \A d \in Servers : TalkSound(desk[d])

LEMMA TalkIdleIsDesk == ASSUME TalkBounds PROVE Talk!Idle \in Talk!Desk /\ Talk!Idle.op = "idle"
BY DEF Talk!Idle, Talk!Desk, TalkBounds

LEMMA TalkRowsAre == ASSUME TalkTypes PROVE DOMAIN asks = TalkRows /\ Len(asks) \in Nat
BY DEF TalkTypes, TalkRows

LEMMA TalkRowIs == ASSUME TalkTypes, NEW i \in TalkRows PROVE asks[i] \in Talk!Ask
BY DEF TalkTypes, TalkRows

LEMMA TalkServes ==
    ASSUME TalkTypes, NEW d \in Servers, NEW request \in Talk!Desk, desk' = [desk EXCEPT ![d] = request]
    PROVE  /\ desk' \in [Servers -> Talk!Desk] /\ desk'[d] = request
           /\ \A c \in Servers : c # d => desk'[c] = desk[c]
BY DEF TalkTypes

(* Senders are counted: one more, one less, never more than all desks.     *)
LEMMA TalkSendersAre ==
    ASSUME TalkBounds
    PROVE  /\ Cardinality(Servers) \in Nat /\ IsFiniteSet(TalkSenders)
           /\ Cardinality(TalkSenders) \in Nat /\ Cardinality(TalkSenders) <= Cardinality(Servers)
<1>1. TalkSenders \subseteq Servers
  BY DEF TalkSenders
<1>2. QED BY <1>1, FS_Subset, FS_CardinalityType DEF TalkBounds

LEMMA TalkSendersLessOne ==
    ASSUME TalkBounds, NEW d \in TalkSenders
    PROVE  Cardinality(TalkSenders \ {d}) = Cardinality(TalkSenders) - 1
BY TalkSendersAre, FS_RemoveElement

LEMMA TalkCountKeeps ==
    ASSUME TalkBounds, TalkIInv, TalkTypes', today' = today, TalkSenders' \subseteq TalkSenders
    PROVE  TalkCounted'
<1>1. Cardinality(TalkSenders') <= Cardinality(TalkSenders) /\ Cardinality(TalkSenders') \in Nat
  BY TalkSendersAre, FS_Subset, FS_CardinalityType
<1>2. QED BY <1>1, TalkSendersAre DEF TalkIInv, TalkCounted, TalkBounds

LEMMA TalkTypeHolds == ASSUME TalkBounds, TalkIInv PROVE Talk!TypeOK
<1>1. today \in 0..(MaxDaily + Cardinality(Servers) - 1)
  BY TalkSendersAre DEF TalkIInv, TalkCounted, TalkBounds
<1>2. QED BY <1>1, TalkCounts DEF TalkIInv, TalkTypes, Talk!TypeOK

LEMMA TalkTalkHolds == ASSUME TalkIInv PROVE Talk!OneTalk
<1> SUFFICES ASSUME ~overlap PROVE Talk!OneTalk
  BY DEF Talk!OneTalk
<1>1. DOMAIN asks = TalkRows /\ TalkCalm
  BY TalkRowsAre DEF TalkIInv
<1>2. \A i, j \in DOMAIN asks : Talk!Live(asks[i]) /\ Talk!Live(asks[j]) => i = j
  BY <1>1 DEF TalkCalm
<1>3. refused => ~Talk!Some("pending")
  BY <1>1, <1>2 DEF TalkCalm, Talk!Some, Talk!Live
<1>4. opener <=> Talk!Some("accepted")
  BY <1>1, Zenon DEF TalkCalm, Talk!Some
<1>5. opener /\ ~terms.blocked => Talk!MayMessage
  BY <1>4, Zenon DEF Talk!MayMessage
<1>6. QED BY <1>2, <1>3, <1>4, <1>5, Zenon DEF Talk!OneTalk

LEMMA TalkInitIInv == ASSUME TalkBounds, Talk!Init PROVE TalkIInv
<1>1. TalkTypes /\ asks = <<>> /\ TalkRows = {}
  <2>1. asks = <<>> /\ asks \in Seq(Talk!Ask) /\ Len(asks) = 0
    BY DEF Talk!Init
  <2>2. desk \in [Servers -> Talk!Desk]
    BY TalkIdleIsDesk DEF Talk!Init
  <2>3. opener \in BOOLEAN /\ refused \in BOOLEAN /\ overlap \in BOOLEAN /\ terms \in Talk!Terms
    BY DEF Talk!Init
  <2>4. TalkTypes
    BY <2>1, <2>2, <2>3 DEF TalkTypes, TalkBounds
  <2>5. TalkRows = {}
    BY <2>1 DEF TalkRows
  <2>6. QED BY <2>1, <2>4, <2>5
<1>2. \A d \in Servers : desk[d].op = "idle"
  BY TalkIdleIsDesk DEF Talk!Init
<1>3. TalkSenders = {}
  BY <1>2 DEF TalkSenders
<1>4. TalkCounted
  <2>1. Cardinality(TalkSenders) = 0
    BY <1>3, FS_EmptySet
  <2>2. QED BY <2>1, TalkSendersAre DEF Talk!Init, TalkCounted, TalkBounds
<1>5. TalkCalm
  <2>1. refused = FALSE /\ opener = FALSE
    BY DEF Talk!Init
  <2>2. QED BY <1>1, <1>2, <2>1 DEF TalkCalm, TalkAnswers, Talk!Is
<1>6. QED BY <1>1, <1>2, <1>4, <1>5 DEF TalkIInv, TalkSound, TalkAnswers

-----------------------------------------------------------------------------
(* A request begins, goes on or is dropped; the rows stay.                 *)
LEMMA TalkRequestKeeps ==
    ASSUME TalkBounds, TalkIInv, NEW d \in Servers, NEW request \in Talk!Desk, desk' = [desk EXCEPT ![d] = request],
           UNCHANGED <<asks, today, terms, opener, refused>>, overlap' \in BOOLEAN,
           overlap => overlap', TalkSound(request), TalkCounted',
           ~overlap' =>
               /\ request.op \in {"send", "insert"} =>
                      \A c \in Servers : c # d => desk[c].op \notin {"send", "insert", "accepted"}
               /\ request.op = "accepted" =>
                      \A c \in Servers : c # d => desk[c].op \notin {"send", "insert"}
               /\ request.op \in TalkAnswers =>
                      /\ asks[request.row].status = "pending"
                      /\ \A c \in Servers : c # d => desk[c].op \notin TalkAnswers
               /\ request.op = "send" => \A i \in TalkRows : asks[i].status # "accepted"
               /\ request.op = "insert" => \A i \in TalkRows : ~Talk!Live(asks[i])
    PROVE  TalkIInv'
<1>1. /\ desk' \in [Servers -> Talk!Desk] /\ desk'[d] = request
      /\ \A c \in Servers : c # d => desk'[c] = desk[c]
  BY TalkServes DEF TalkIInv
<1>2. TalkTypes'
  BY <1>1 DEF TalkIInv, TalkTypes
<1>3. ASSUME NEW c \in Servers PROVE TalkSound(desk[c])'
  BY <1>1 DEF TalkIInv, TalkSound, TalkRows
<1>4. TalkCalm'
  <2> SUFFICES ASSUME ~overlap' PROVE TalkCalm'
    BY DEF TalkCalm
  <2>1. TalkCalm /\ ~overlap
    BY DEF TalkIInv
  <2>2. \A b, c \in Servers : (b # c /\ desk'[b].op \in {"send", "insert"}) =>
            desk'[c].op \notin {"send", "insert", "accepted"}
    BY <1>1, <2>1 DEF TalkCalm
  <2>3. \A b, c \in Servers : (b # c /\ desk'[b].op \in TalkAnswers) => desk'[c].op \notin TalkAnswers
    BY <1>1, <2>1 DEF TalkCalm
  <2>4. \A c \in Servers :
            /\ desk'[c].op \in TalkAnswers => asks[desk'[c].row].status = "pending"
            /\ desk'[c].op = "send" => \A i \in TalkRows : asks[i].status # "accepted"
            /\ desk'[c].op = "insert" => \A i \in TalkRows : ~Talk!Live(asks[i])
    BY <1>1, <2>1 DEF TalkCalm, Talk!Is
  <2>5. /\ refused => \E i \in TalkRows : asks[i].status = "declined" /\ asks[i].recent
        /\ \A i, j \in TalkRows : Talk!Live(asks[i]) /\ Talk!Live(asks[j]) => i = j
        /\ opener <=> \E i \in TalkRows : asks[i].status = "accepted"
    BY <2>1, Zenon DEF TalkCalm
  <2>6. UNCHANGED <<asks, refused, opener>> /\ TalkRows' = TalkRows
    BY DEF TalkRows
  <2>7. QED BY <2>2, <2>3, <2>4, <2>5, <2>6 DEF TalkCalm, Talk!Is
<1>5. QED BY <1>2, <1>3, <1>4 DEF TalkIInv

LEMMA TalkAskSendKeeps ==
    ASSUME TalkBounds, TalkIInv, NEW d \in Servers, Talk!AskSend(d)
    PROVE TalkIInv'
<1>1. PICK request : request = [Talk!Idle EXCEPT !.op = "send"]
  OBVIOUS
<1>2. request \in Talk!Desk /\ request.op = "send" /\ TalkSound(request)
  BY <1>1, TalkIdleIsDesk DEF Talk!Desk, TalkSound, TalkAnswers
<1>3. overlap' \in BOOLEAN /\ (overlap => overlap')
  BY DEF Talk!AskSend, Talk!Meets, TalkIInv, TalkTypes
<1>4. /\ ~overlap' => \A c \in Servers : desk[c].op \notin {"send", "insert", "accepted"}
      /\ \A i \in TalkRows : asks[i].status # "accepted"
  BY TalkRowsAre DEF Talk!AskSend, Talk!Meets, Talk!Some, TalkIInv
<1>5. TalkCounted'
  <2>1. TalkSenders' \subseteq Servers
    BY DEF TalkSenders
  <2>2. Cardinality(TalkSenders') \in Nat /\ Cardinality(TalkSenders') <= Cardinality(Servers)
    BY <2>1, FS_Subset, FS_CardinalityType DEF TalkBounds
  <2>3. QED BY <2>2, TalkSendersAre DEF Talk!AskSend, Talk!BelowLimit, TalkIInv, TalkCounted, TalkBounds
<1>6. QED BY <1>1, <1>2, <1>3, <1>4, <1>5, TalkRequestKeeps DEF Talk!AskSend, Talk!Take, TalkAnswers

LEMMA TalkCheckKeeps == ASSUME TalkBounds, TalkIInv, NEW d \in Servers, Talk!Check(d) PROVE TalkIInv'
<1>1. PICK request : /\ desk' = [desk EXCEPT ![d] = request]
                     /\ \/ request = [desk[d] EXCEPT !.op = "insert"] /\ ~Talk!Some("pending") /\ Talk!NotDeclined
                        \/ request = Talk!Idle
  BY DEF Talk!Check, Talk!End
<1>2. request \in Talk!Desk /\ request.op \in {"insert", "idle"} /\ TalkSound(request)
  <2>1. desk[d] \in Talk!Desk
    BY DEF TalkIInv, TalkTypes
  <2>2. QED BY <1>1, <2>1, TalkIdleIsDesk DEF Talk!Desk, TalkSound, TalkAnswers
<1>3. ~overlap => /\ \A c \in Servers : c # d => desk[c].op \notin {"send", "insert", "accepted"}
                  /\ request.op = "insert" => \A i \in TalkRows : ~Talk!Live(asks[i])
  <2> SUFFICES ASSUME ~overlap
               PROVE  /\ \A c \in Servers : c # d => desk[c].op \notin {"send", "insert", "accepted"}
                      /\ request.op = "insert" => \A i \in TalkRows : ~Talk!Live(asks[i])
    OBVIOUS
  <2>1. /\ \A c \in Servers : c # d => desk[c].op \notin {"send", "insert", "accepted"}
        /\ \A i \in TalkRows : asks[i].status # "accepted"
    BY DEF Talk!Check, Talk!Is, TalkIInv, TalkCalm
  <2>2. request.op = "insert" => ~Talk!Some("pending") /\ Talk!NotDeclined
    BY <1>1, TalkIdleIsDesk
  <2>3. QED BY <2>1, <2>2, TalkRowsAre DEF Talk!Some, Talk!NotDeclined, Talk!Live, TalkIInv
<1>4. TalkCounted'
  <2>1. TalkTypes'
    BY <1>1, <1>2, TalkServes DEF Talk!Check, Talk!AsksSame, TalkIInv, TalkTypes
  <2>2. TalkSenders' \subseteq TalkSenders
    BY <1>1, <1>2, TalkServes DEF Talk!Check, Talk!Is, TalkSenders, TalkIInv
  <2>3. QED BY <2>1, <2>2, TalkCountKeeps DEF Talk!Check, Talk!AsksSame
<1>5. QED BY <1>1, <1>2, <1>3, <1>4, TalkRequestKeeps DEF Talk!Check, Talk!AsksSame, TalkAnswers,
             TalkIInv, TalkTypes

LEMMA TalkAskAnswerKeeps ==
    ASSUME TalkBounds, TalkIInv, NEW d \in Servers, NEW i \in DOMAIN asks,
           NEW answer \in Talk!Statuses \ {"pending"}, Talk!AskAnswer(d, i, answer)
    PROVE  TalkIInv'
<1>1. PICK request : request = [Talk!Idle EXCEPT !.op = answer, !.row = i]
  OBVIOUS
<1>2. /\ request \in Talk!Desk /\ request.op = answer /\ answer \in TalkAnswers
      /\ request.row = i /\ i \in TalkRows /\ TalkSound(request)
  <2>1. i \in TalkRows /\ i \in 0..MaxRequests
    BY TalkRowsAre DEF TalkIInv, TalkTypes, TalkRows, TalkBounds
  <2>2. QED BY <1>1, <2>1, TalkIdleIsDesk DEF Talk!Desk, TalkSound, TalkAnswers, Talk!Statuses
<1>3. /\ overlap' \in BOOLEAN /\ (overlap => overlap')
      /\ ~overlap' => \A c \in Servers :
             desk[c].op \notin TalkAnswers \cup (IF answer = "accepted" THEN {"send", "insert"} ELSE {})
  BY DEF Talk!AskAnswer, Talk!Meets, TalkIInv, TalkTypes, TalkAnswers
<1>4. TalkCounted'
  <2>1. TalkTypes'
    BY <1>1, <1>2, <1>3, TalkServes DEF Talk!AskAnswer, Talk!Take, TalkIInv, TalkTypes
  <2>2. TalkSenders' \subseteq TalkSenders
    BY <1>1, <1>2, TalkServes DEF Talk!AskAnswer, Talk!Take, TalkSenders, TalkIInv, TalkAnswers
  <2>3. QED BY <2>1, <2>2, TalkCountKeeps DEF Talk!AskAnswer
<1>5. QED BY <1>1, <1>2, <1>3, <1>4, TalkRequestKeeps DEF Talk!AskAnswer, Talk!Take, TalkAnswers

-----------------------------------------------------------------------------
(* A request is inserted: it is the only live one.                         *)
LEMMA TalkSendKeeps == ASSUME TalkBounds, TalkIInv, NEW d \in Servers, Talk!Send(d) PROVE TalkIInv'
<1>1. PICK new : new = [status |-> "pending", recent |-> FALSE]
  OBVIOUS
<1>2. new \in Talk!Ask /\ new.status = "pending"
  BY <1>1 DEF Talk!Ask, Talk!Statuses
<1>3. /\ asks' \in Seq(Talk!Ask) /\ Len(asks') = Len(asks) + 1 /\ Len(asks') <= MaxRequests
      /\ \A i \in TalkRows : asks'[i] = asks[i]
      /\ asks'[Len(asks) + 1] = new
  BY <1>1, <1>2 DEF Talk!Send, TalkIInv, TalkTypes, TalkRows, TalkBounds
<1>4. TalkRows' = TalkRows \cup {Len(asks) + 1} /\ Len(asks) + 1 \notin TalkRows
  BY <1>3, TalkRowsAre DEF TalkRows, TalkIInv
<1>5. /\ desk' \in [Servers -> Talk!Desk] /\ desk'[d].op = "idle"
      /\ \A c \in Servers : c # d => desk'[c] = desk[c]
  BY TalkIdleIsDesk, TalkServes DEF Talk!Send, Talk!End, TalkIInv
<1>6. TalkTypes'
  BY <1>3, <1>5 DEF Talk!Send, TalkIInv, TalkTypes
<1>7. TalkCounted'
  <2>1. d \in TalkSenders /\ TalkSenders' \subseteq TalkSenders \ {d}
    BY <1>5 DEF Talk!Send, Talk!Is, TalkSenders
  <2>2. IsFiniteSet(TalkSenders \ {d}) /\ Cardinality(TalkSenders \ {d}) = Cardinality(TalkSenders) - 1
    BY <2>1, TalkSendersAre, TalkSendersLessOne, FS_RemoveElement
  <2>3. Cardinality(TalkSenders') <= Cardinality(TalkSenders) - 1 /\ Cardinality(TalkSenders') \in Nat
    BY <2>1, <2>2, FS_Subset, FS_CardinalityType
  <2>4. QED BY <2>3, TalkSendersAre DEF Talk!Send, TalkIInv, TalkCounted, TalkBounds
<1>8. TalkCalm'
  <2> SUFFICES ASSUME ~overlap PROVE TalkCalm'
    BY DEF Talk!Send, TalkCalm
  <2>1. /\ \A i \in TalkRows : ~Talk!Live(asks[i])
        /\ \A c \in Servers : c # d => desk[c].op \notin {"send", "insert", "accepted"}
    BY DEF Talk!Send, Talk!Is, TalkIInv, TalkCalm
  <2>2. \A c \in Servers : desk'[c].op \notin TalkAnswers
    <3>1. ASSUME NEW c \in Servers, c # d, desk[c].op \in TalkAnswers PROVE FALSE
      <4>1. desk[c].row \in TalkRows /\ asks[desk[c].row].status = "pending"
        BY <3>1 DEF TalkIInv, TalkSound, TalkCalm
      <4>2. QED BY <2>1, <4>1 DEF Talk!Live
    <3>2. QED BY <1>5, <3>1 DEF TalkAnswers
  <2>3. \A c \in Servers : desk'[c].op \notin {"send", "insert"}
    BY <1>5, <2>1
  <2>4. ~refused
    BY <2>1 DEF TalkIInv, TalkCalm, Talk!Live
  <2>5. \A i, j \in TalkRows' : Talk!Live(asks'[i]) /\ Talk!Live(asks'[j]) => i = j
    BY <1>3, <1>4, <2>1
  <2>6. opener <=> \E i \in TalkRows : asks[i].status = "accepted"
    BY DEF TalkIInv, TalkCalm
  <2>7. (\E i \in TalkRows' : asks'[i].status = "accepted") <=> \E i \in TalkRows : asks[i].status = "accepted"
    BY <1>2, <1>3, <1>4
  <2>8. UNCHANGED <<refused, opener>>
    BY DEF Talk!Send
  <2>9. QED BY <2>2, <2>3, <2>4, <2>5, <2>6, <2>7, <2>8 DEF TalkCalm, Talk!Is
<1>9. ASSUME NEW c \in Servers PROVE TalkSound(desk[c])'
  BY <1>4, <1>5 DEF TalkIInv, TalkSound, TalkAnswers
<1>10. QED BY <1>6, <1>7, <1>8, <1>9 DEF TalkIInv

(* An answer is set: what was pending is answered, and nothing else.       *)
LEMMA TalkAnswerKeeps == ASSUME TalkBounds, TalkIInv, NEW d \in Servers, Talk!Answer(d) PROVE TalkIInv'
<1> DEFINE k == desk[d].row
<1>1. PICK new : new = [status |-> desk[d].op, recent |-> TRUE]
  OBVIOUS
<1>2. /\ new \in Talk!Ask /\ new.status = desk[d].op /\ new.recent = TRUE
      /\ desk[d].op \in TalkAnswers /\ k \in TalkRows
  BY <1>1 DEF Talk!Answer, Talk!Ask, Talk!Statuses, TalkAnswers, TalkIInv, TalkSound
<1>3. asks' = [asks EXCEPT ![k] = new]
  BY <1>1 DEF Talk!Answer
<1> HIDE DEF k
<1>4. /\ asks' \in Seq(Talk!Ask) /\ Len(asks') = Len(asks) /\ asks'[k] = new
      /\ \A i \in TalkRows : i # k => asks'[i] = asks[i]
  BY <1>2, <1>3 DEF TalkIInv, TalkTypes, TalkRows
<1>5. TalkRows' = TalkRows
  BY <1>4 DEF TalkRows
<1>6. /\ desk' \in [Servers -> Talk!Desk] /\ desk'[d].op = "idle"
      /\ \A c \in Servers : c # d => desk'[c] = desk[c]
  BY TalkIdleIsDesk, TalkServes DEF Talk!Answer, Talk!End, TalkIInv
<1>7. opener' \in BOOLEAN /\ refused' \in BOOLEAN
  BY DEF Talk!Answer, TalkIInv, TalkTypes
<1>8. TalkTypes'
  BY <1>4, <1>6, <1>7 DEF Talk!Answer, TalkIInv, TalkTypes
<1>9. TalkCounted'
  <2>1. TalkSenders' \subseteq TalkSenders
    BY <1>6 DEF TalkSenders
  <2>2. QED BY <1>8, <2>1, TalkCountKeeps DEF Talk!Answer
<1>10. TalkCalm'
  <2> SUFFICES ASSUME ~overlap PROVE TalkCalm'
    BY DEF Talk!Answer, TalkCalm
  <2>1. /\ asks[k].status = "pending" /\ Talk!Live(asks[k])
        /\ \A c \in Servers : c # d => desk[c].op \notin TalkAnswers
        /\ \A i \in TalkRows : Talk!Live(asks[i]) => i = k
    BY <1>2 DEF TalkIInv, TalkCalm, Talk!Live, k
  <2>2. /\ \A c \in Servers : c # d => desk[c].op # "insert"
        /\ Talk!Is(d, "accepted") => \A c \in Servers : c # d => desk[c].op # "send"
    BY <1>2, <2>1 DEF TalkIInv, TalkCalm, Talk!Is
  <2>3. \A b, c \in Servers :
            (b # c /\ desk'[b].op \in {"send", "insert"}) => desk'[c].op \notin {"send", "insert", "accepted"}
    BY <1>6 DEF TalkIInv, TalkCalm
  <2>4. \A c \in Servers : desk'[c].op \notin TalkAnswers \cup {"insert"}
    BY <1>6, <2>1, <2>2 DEF TalkAnswers
  <2>5. \A c \in Servers : desk'[c].op = "send" => \A i \in TalkRows : asks'[i].status # "accepted"
    BY <1>2, <1>4, <1>6, <2>2 DEF TalkIInv, TalkCalm, Talk!Is
  <2>6. \A i, j \in TalkRows : Talk!Live(asks'[i]) /\ Talk!Live(asks'[j]) => i = j
    BY <1>4, <2>1
  <2>7. refused' => \E i \in TalkRows : asks'[i].status = "declined" /\ asks'[i].recent
    <3>1. CASE Talk!Is(d, "declined")
      BY <1>2, <1>4, <3>1 DEF Talk!Is
    <3>2. CASE ~Talk!Is(d, "declined")
      <4>1. refused' <=> refused
        BY <3>2 DEF Talk!Answer
      <4>2. refused => \E i \in TalkRows : asks[i].status = "declined" /\ asks[i].recent
        BY DEF TalkIInv, TalkCalm
      <4>3. QED BY <1>4, <2>1, <4>1, <4>2
    <3>3. QED BY <3>1, <3>2
  <2>8. opener' <=> \E i \in TalkRows : asks'[i].status = "accepted"
    <3>1. opener <=> \E i \in TalkRows : asks[i].status = "accepted"
      BY DEF TalkIInv, TalkCalm
    <3>2. (\E i \in TalkRows : asks'[i].status = "accepted")
             <=> Talk!Is(d, "accepted") \/ \E i \in TalkRows : asks[i].status = "accepted"
      BY <1>2, <1>4, <2>1 DEF Talk!Is
    <3>3. opener' <=> opener \/ Talk!Is(d, "accepted")
      BY DEF Talk!Answer
    <3>4. QED BY <3>1, <3>2, <3>3
  <2>9. QED BY <1>5, <2>3, <2>4, <2>5, <2>6, <2>7, <2>8 DEF TalkCalm, Talk!Is
<1>11. ASSUME NEW c \in Servers PROVE TalkSound(desk[c])'
  BY <1>5, <1>6 DEF TalkIInv, TalkSound, TalkAnswers
<1>12. QED BY <1>8, <1>9, <1>10, <1>11 DEF TalkIInv

-----------------------------------------------------------------------------
(* Settings, days and cooldowns.                                           *)
LEMMA TalkSettleKeeps == ASSUME TalkBounds, TalkIInv, Talk!Settle PROVE TalkIInv'
<1>1. TalkTypes'
  BY DEF Talk!Settle, TalkIInv, TalkTypes
<1>2. TalkCounted'
  <2>1. TalkSenders' \subseteq TalkSenders
    BY DEF Talk!Settle, TalkSenders
  <2>2. QED BY <1>1, <2>1, TalkCountKeeps DEF Talk!Settle
<1>3. UNCHANGED <<asks, opener, refused, overlap, desk>>
  BY DEF Talk!Settle
<1>4. TalkCalm' <=> TalkCalm
  BY <1>3 DEF TalkCalm, Talk!Is, TalkRows
<1>5. \A d \in Servers : TalkSound(desk[d])'
  BY <1>3 DEF TalkIInv, TalkSound, TalkRows
<1>6. QED BY <1>1, <1>2, <1>4, <1>5 DEF TalkIInv

LEMMA TalkNextDayKeeps == ASSUME TalkBounds, TalkIInv, Talk!NextDay PROVE TalkIInv'
<1>1. UNCHANGED <<asks, terms, opener, refused, overlap, desk>>
  BY DEF Talk!NextDay
<1>2. TalkTypes'
  BY <1>1 DEF TalkIInv, TalkTypes
<1>3. TalkCounted'
  <2>1. TalkSenders' = TalkSenders
    BY <1>1 DEF TalkSenders
  <2>2. QED BY <2>1, TalkSendersAre DEF Talk!NextDay, TalkCounted, TalkBounds
<1>4. TalkCalm' <=> TalkCalm
  BY <1>1 DEF TalkCalm, Talk!Is, TalkRows
<1>5. \A d \in Servers : TalkSound(desk[d])'
  BY <1>1 DEF TalkIInv, TalkSound, TalkRows
<1>6. QED BY <1>2, <1>3, <1>4, <1>5 DEF TalkIInv

LEMMA TalkCoolDownKeeps == ASSUME TalkBounds, TalkIInv, Talk!CoolDown PROVE TalkIInv'
<1>1. \A d \in Servers : desk[d].op = "idle"
  BY DEF Talk!CoolDown, Talk!Is
<1>2. asks' = [i \in TalkRows |-> [asks[i] EXCEPT !.recent = FALSE]]
  BY TalkRowsAre DEF Talk!CoolDown, TalkIInv
<1>3. \A i \in TalkRows : /\ asks'[i] \in Talk!Ask /\ asks'[i].status = asks[i].status /\ asks'[i].recent = FALSE
  BY <1>2, TalkRowIs DEF Talk!Ask, TalkIInv
<1>4. asks' \in Seq(Talk!Ask) /\ Len(asks') = Len(asks) /\ TalkRows' = TalkRows
  <2>1. asks' \in Seq(Talk!Ask) /\ Len(asks') = Len(asks)
    BY <1>2, <1>3, TalkRowsAre DEF TalkRows, TalkIInv
  <2>2. QED BY <2>1 DEF TalkRows
<1>5. TalkTypes'
  BY <1>4 DEF Talk!CoolDown, TalkIInv, TalkTypes
<1>6. TalkCounted'
  <2>1. TalkSenders' \subseteq TalkSenders
    BY DEF Talk!CoolDown, TalkSenders
  <2>2. QED BY <1>5, <2>1, TalkCountKeeps DEF Talk!CoolDown
<1>7. TalkCalm'
  <2> SUFFICES ASSUME ~overlap PROVE TalkCalm'
    BY DEF Talk!CoolDown, TalkCalm
  <2>1. \A d \in Servers : desk'[d].op = "idle"
    BY <1>1 DEF Talk!CoolDown
  <2>2. \A i \in TalkRows : Talk!Live(asks'[i]) => Talk!Live(asks[i])
    BY <1>3 DEF Talk!Live
  <2>3. \A i, j \in TalkRows : Talk!Live(asks'[i]) /\ Talk!Live(asks'[j]) => i = j
    BY <2>2 DEF TalkIInv, TalkCalm
  <2>4. opener <=> \E i \in TalkRows : asks[i].status = "accepted"
    BY DEF TalkIInv, TalkCalm
  <2>5. (\E i \in TalkRows : asks'[i].status = "accepted") <=> \E i \in TalkRows : asks[i].status = "accepted"
    BY <1>3
  <2>6. ~refused' /\ UNCHANGED opener
    BY DEF Talk!CoolDown
  <2>7. QED BY <1>4, <2>1, <2>3, <2>4, <2>5, <2>6 DEF TalkCalm, TalkAnswers, Talk!Is
<1>8. ASSUME NEW d \in Servers PROVE TalkSound(desk[d])'
  BY <1>1 DEF Talk!CoolDown, TalkSound, TalkAnswers
<1>9. QED BY <1>5, <1>6, <1>7, <1>8 DEF TalkIInv

LEMMA TalkNextIInv == ASSUME TalkBounds, TalkIInv, [Talk!Next]_Talk!vars PROVE TalkIInv'
<1>1. CASE Talk!Settle \/ Talk!NextDay \/ Talk!CoolDown
  BY <1>1, TalkSettleKeeps, TalkNextDayKeeps, TalkCoolDownKeeps
<1>2. ASSUME NEW d \in Servers, Talk!AskSend(d) \/ Talk!Check(d) \/ Talk!Send(d) \/ Talk!Answer(d) PROVE TalkIInv'
  BY <1>2, TalkAskSendKeeps, TalkCheckKeeps, TalkSendKeeps, TalkAnswerKeeps
<1>3. ASSUME NEW d \in Servers, NEW i \in DOMAIN asks, NEW answer \in Talk!Statuses \ {"pending"},
             Talk!AskAnswer(d, i, answer)
      PROVE  TalkIInv'
  BY <1>3, TalkAskAnswerKeeps
<1>4. CASE UNCHANGED Talk!vars
  <2>1. UNCHANGED <<asks, today, terms, opener, refused, overlap, desk>>
    BY <1>4 DEF Talk!vars
  <2>2. TalkTypes' /\ TalkCounted'
    BY <2>1 DEF TalkIInv, TalkTypes, TalkCounted, TalkSenders
  <2>3. TalkCalm' <=> TalkCalm
    BY <2>1 DEF TalkCalm, Talk!Is, TalkRows
  <2>4. \A d \in Servers : TalkSound(desk[d])'
    BY <2>1 DEF TalkIInv, TalkSound, TalkRows
  <2>5. QED BY <2>2, <2>3, <2>4 DEF TalkIInv
<1>5. QED BY <1>1, <1>2, <1>3, <1>4 DEF Talk!Next

LEMMA TalkHolds == ASSUME TalkBounds, TalkIInv PROVE Talk!TypeOK /\ Talk!OneTalk
BY TalkTypeHolds, TalkTalkHolds

(* A behaviour of the composition is one of Recruiting, with steps that    *)
(* leave it alone.                                                         *)
LEMMA TalkSpec == ExchangeSpec => Talk!Spec
<1>1. ExchangeInit => Talk!Init
  BY DEF ExchangeInit
<1>2. [ExchangeNext]_exchangeVars => [Talk!Next]_Talk!vars
  BY DEF ExchangeNext, exchangeVars, talkVars, Talk!vars
<1>3. QED BY <1>1, <1>2, PTL DEF ExchangeSpec, Talk!Spec

LEMMA TalkInvariant == ExchangeSpec => []TalkIInv
<1>1. Talk!Init => TalkIInv
  BY TalkInitIInv, BoundsAssumption DEF TalkBounds
<1>2. TalkIInv /\ [Talk!Next]_Talk!vars => TalkIInv'
  BY TalkNextIInv, BoundsAssumption DEF TalkBounds
<1>3. QED BY <1>1, <1>2, TalkSpec, PTL DEF Talk!Spec

(* One contact request is live at a time, a refusal is final and a         *)
(* conversation is open exactly when one was accepted, unless requests     *)
(* that decide on the same rows overlapped.                                *)
THEOREM OneTalkAlways == ExchangeSpec => []OneTalk
<1>1. TalkIInv => OneTalk
  BY TalkHolds, BoundsAssumption DEF OneTalk, TalkBounds
<1>2. QED BY <1>1, TalkInvariant, PTL

-----------------------------------------------------------------------------
(* Shortlists: the candidate on the recruiter's shortlists.                *)

(* The part counts as FiniteSets does.                                     *)
LEMMA ShortCounts == ASSUME NEW S PROVE Short!Cardinality(S) = Cardinality(S)
BY DEF Short!Cardinality, Cardinality

(* A recruiter may keep some shortlists.                                   *)
ShortBounds == IsFiniteSet(Servers) /\ MaxLists \in Nat \ {0}

(* Who is about to create a shortlist counted fewer than the limit then:   *)
(* those that are kept and those about to be pass it by less than there    *)
(* are desks.                                                              *)
ShortCreators == {d \in Servers : doing[d].op = "create"}
ShortCounted ==
    /\ IsFiniteSet(kept)
    /\ Cardinality(kept) + Cardinality(ShortCreators) < MaxLists + Cardinality(Servers)

ShortTypes ==
    /\ kept \subseteq Lists /\ entry \in [Lists -> Short!Entries] /\ doing \in [Servers -> Short!Doing]
    /\ \A l \in Lists \ kept : entry[l] = "none"

ShortIInv == ShortTypes /\ ShortCounted /\ \A d \in Servers : doing[d].op # "idle" => doing[d].list \in Lists

LEMMA ShortSizesAre ==
    ASSUME ShortBounds, IsFiniteSet(kept)
    PROVE  /\ Cardinality(Servers) \in Nat /\ IsFiniteSet(ShortCreators) /\ Cardinality(kept) \in Nat
           /\ Cardinality(ShortCreators) \in Nat /\ Cardinality(ShortCreators) <= Cardinality(Servers)
<1>1. ShortCreators \subseteq Servers
  BY DEF ShortCreators
<1>2. QED BY <1>1, FS_Subset, FS_CardinalityType DEF ShortBounds

LEMMA ShortHolds == ASSUME ShortBounds, ShortIInv PROVE Short!TypeOK
<1>1. Cardinality(kept) < MaxLists + Cardinality(Servers)
  BY ShortSizesAre DEF ShortIInv, ShortCounted, ShortBounds
<1>2. QED BY <1>1, ShortCounts DEF ShortIInv, ShortTypes, Short!TypeOK

LEMMA ShortIdleIs == Short!Idle \in Short!Doing /\ Short!Idle.op = "idle"
BY DEF Short!Idle, Short!Doing

LEMMA ShortInitIInv == ASSUME ShortBounds, Short!Init PROVE ShortIInv
<1>1. \A d \in Servers : doing[d].op = "idle"
  BY ShortIdleIs DEF Short!Init
<1>2. ShortCreators = {}
  BY <1>1 DEF ShortCreators
<1>3. ShortCounted
  <2>1. Cardinality(kept) = 0 /\ IsFiniteSet(kept) /\ Cardinality(ShortCreators) = 0
    BY <1>2, FS_EmptySet DEF Short!Init
  <2>2. QED BY <2>1, ShortSizesAre DEF ShortCounted, ShortBounds
<1>4. ShortTypes
  BY ShortIdleIs DEF Short!Init, ShortTypes, Short!Entries
<1>5. QED BY <1>1, <1>3, <1>4 DEF ShortIInv

LEMMA ShortServes ==
    ASSUME ShortIInv, NEW d \in Servers, NEW request \in Short!Doing, doing' = [doing EXCEPT ![d] = request]
    PROVE  /\ doing' \in [Servers -> Short!Doing] /\ doing'[d] = request
           /\ \A c \in Servers : c # d => doing'[c] = doing[c]
BY DEF ShortIInv, ShortTypes

(* Fewer or as many are kept, and nobody joins those about to create.      *)
LEMMA ShortFewerKeeps ==
    ASSUME ShortBounds, ShortIInv, NEW d \in Servers, NEW request \in Short!Doing, doing' = [doing EXCEPT ![d] = request],
           request.op # "create", request.op # "idle" => request.list \in Lists,
           kept' \subseteq kept, entry' \in [Lists -> Short!Entries],
           \A l \in Lists \ kept' : entry'[l] = "none"
    PROVE  ShortIInv'
<1>1. /\ doing' \in [Servers -> Short!Doing] /\ doing'[d] = request
      /\ \A c \in Servers : c # d => doing'[c] = doing[c]
  BY ShortServes
<1>2. ShortCreators' \subseteq ShortCreators
  BY <1>1 DEF ShortCreators
<1>3. ShortCounted'
  <2>1. IsFiniteSet(kept') /\ Cardinality(kept') <= Cardinality(kept)
    BY FS_Subset DEF ShortIInv, ShortCounted
  <2>2. Cardinality(ShortCreators') <= Cardinality(ShortCreators) /\ IsFiniteSet(ShortCreators')
    BY <1>2, ShortSizesAre, FS_Subset DEF ShortIInv, ShortCounted
  <2>3. /\ Cardinality(kept) \in Nat /\ Cardinality(ShortCreators) \in Nat /\ Cardinality(Servers) \in Nat
        /\ Cardinality(kept') \in Nat /\ Cardinality(ShortCreators') \in Nat
    BY <2>1, <2>2, ShortSizesAre, FS_CardinalityType DEF ShortIInv, ShortCounted
  <2>4. QED BY <2>1, <2>2, <2>3 DEF ShortIInv, ShortCounted, ShortBounds
<1>4. QED BY <1>1, <1>3 DEF ShortIInv, ShortTypes

LEMMA ShortAskCreateKeeps ==
    ASSUME ShortBounds, ShortIInv, NEW d \in Servers, NEW l \in Lists, Short!AskCreate(d, l) PROVE ShortIInv'
<1>1. PICK request : request = [op |-> "create", list |-> l]
  OBVIOUS
<1>2. request \in Short!Doing /\ request.op = "create" /\ request.list = l
  BY <1>1 DEF Short!Doing
<1>3. doing' = [doing EXCEPT ![d] = request] /\ kept' = kept /\ entry' = entry
  BY <1>1 DEF Short!AskCreate, Short!Take
<1>4. /\ doing' \in [Servers -> Short!Doing] /\ doing'[d] = request
      /\ \A c \in Servers : c # d => doing'[c] = doing[c]
  BY <1>2, <1>3, ShortServes
<1>5. ShortCounted'
  <2>1. ShortCreators' \subseteq Servers
    BY DEF ShortCreators
  <2>2. IsFiniteSet(ShortCreators') /\ Cardinality(ShortCreators') <= Cardinality(Servers)
    BY <2>1, FS_Subset DEF ShortBounds
  <2>3. Cardinality(ShortCreators') \in Nat /\ Cardinality(Servers) \in Nat /\ Cardinality(kept) \in Nat
    BY <2>2, FS_CardinalityType DEF ShortBounds, ShortIInv, ShortCounted
  <2>4. Cardinality(kept) < MaxLists
    BY ShortCounts DEF Short!AskCreate, Short!BelowLimit
  <2>5. QED BY <1>3, <2>2, <2>3, <2>4 DEF ShortIInv, ShortCounted, ShortBounds
<1>6. QED BY <1>2, <1>3, <1>4, <1>5 DEF ShortIInv, ShortTypes

LEMMA ShortCreateKeeps ==
    ASSUME ShortBounds, ShortIInv, NEW d \in Servers, Short!Create(d) PROVE ShortIInv'
<1>1. PICK l : l = doing[d].list
  OBVIOUS
<1>2. /\ doing[d].op = "create" /\ l \in Lists /\ kept' = kept \cup {l} /\ entry' = entry
      /\ doing' = [doing EXCEPT ![d] = Short!Idle]
  BY <1>1 DEF Short!Create, Short!Is, Short!End, ShortIInv
<1>3. /\ doing' \in [Servers -> Short!Doing] /\ doing'[d].op = "idle"
      /\ \A c \in Servers : c # d => doing'[c] = doing[c]
  BY <1>2, ShortServes, ShortIdleIs
<1>4. ShortCounted'
  <2>1. ShortCreators' = ShortCreators \ {d} /\ d \in ShortCreators
    BY <1>2, <1>3 DEF ShortCreators
  <2>2. IsFiniteSet(ShortCreators) /\ IsFiniteSet(kept)
    BY ShortSizesAre DEF ShortIInv, ShortCounted
  <2>3. Cardinality(ShortCreators') = Cardinality(ShortCreators) - 1
    BY <2>1, <2>2, FS_RemoveElement
  <2>4. IsFiniteSet(kept') /\ Cardinality(kept') <= Cardinality(kept) + 1
    <3>1. /\ IsFiniteSet(kept \cup {l})
          /\ \/ Cardinality(kept \cup {l}) = Cardinality(kept)
             \/ Cardinality(kept \cup {l}) = Cardinality(kept) + 1
      BY <2>2, FS_AddElement
    <3>2. Cardinality(kept) \in Nat
      BY <2>2, FS_CardinalityType
    <3>3. QED BY <1>2, <3>1, <3>2
  <2>5. /\ Cardinality(kept') \in Nat /\ Cardinality(kept) \in Nat /\ Cardinality(ShortCreators) \in Nat
        /\ Cardinality(Servers) \in Nat
    BY <2>2, <2>4, FS_CardinalityType DEF ShortBounds
  <2>6. QED BY <2>3, <2>4, <2>5 DEF ShortIInv, ShortCounted, ShortBounds
<1>5. QED BY <1>2, <1>3, <1>4 DEF ShortIInv, ShortTypes

LEMMA ShortOwnKeeps ==
    ASSUME ShortBounds, ShortIInv, NEW d \in Servers, NEW l \in Lists, Short!OwnList(d, l) \/ Short!OwnEntry(d, l) PROVE ShortIInv'
<1>1. PICK op \in {"edit", "delete", "add", "update", "remove"} : Short!Take(d, op, l)
  BY DEF Short!OwnList, Short!OwnEntry
<1>2. PICK request : request = [op |-> op, list |-> l]
  OBVIOUS
<1>3. request \in Short!Doing /\ request.op = op /\ request.list = l
  BY <1>2 DEF Short!Doing
<1>4. doing' = [doing EXCEPT ![d] = request] /\ kept' = kept /\ entry' = entry
  BY <1>1, <1>2 DEF Short!OwnList, Short!OwnEntry, Short!Take
<1>5. QED BY <1>3, <1>4, ShortFewerKeeps DEF ShortIInv, ShortTypes

(* A request ends, with the entries it leaves.                             *)
LEMMA ShortEndKeeps ==
    ASSUME ShortBounds, ShortIInv, NEW d \in Servers, Short!End(d), kept' \subseteq kept, entry' \in [Lists -> Short!Entries],
           \A l \in Lists \ kept' : entry'[l] = "none"
    PROVE  ShortIInv'
BY ShortIdleIs, ShortFewerKeeps DEF Short!End

LEMMA ShortEntryKeeps ==
    ASSUME ShortBounds, ShortIInv, NEW d \in Servers, Short!Delete(d) \/ Short!Add(d) \/ Short!UpdateEntry(d) \/ Short!RemoveEntry(d)
    PROVE  ShortIInv'
<1>1. PICK l : l = doing[d].list
  OBVIOUS
<1>2. l \in Lists /\ entry \in [Lists -> Short!Entries] /\ \A x \in Lists \ kept : entry[x] = "none"
  BY <1>1 DEF ShortIInv, ShortTypes, Short!Delete, Short!Add, Short!UpdateEntry, Short!RemoveEntry,
     Short!Is
<1>3. CASE Short!Delete(d)
  <2>1. kept' = kept \ {l} /\ entry' = [entry EXCEPT ![l] = "none"] /\ Short!End(d)
    BY <1>1, <1>3 DEF Short!Delete
  <2>2. QED BY <1>2, <2>1, ShortEndKeeps DEF Short!Entries
<1>4. CASE Short!Add(d)
  <2>1. PICK status \in Short!Entries : entry' = IF Short!Insertable(l) THEN [entry EXCEPT ![l] = status] ELSE entry
    BY <1>1, <1>4 DEF Short!Add
  <2>2. Short!End(d) /\ kept' = kept
    BY <1>4 DEF Short!Add
  <2>3. QED BY <1>2, <2>1, <2>2, ShortEndKeeps DEF Short!Insertable
<1>5. CASE Short!UpdateEntry(d)
  <2>1. PICK status \in Short!Entries : entry' = IF entry[l] # "none" THEN [entry EXCEPT ![l] = status] ELSE entry
    BY <1>1, <1>5 DEF Short!UpdateEntry
  <2>2. Short!End(d) /\ kept' = kept
    BY <1>5 DEF Short!UpdateEntry
  <2>3. QED BY <1>2, <2>1, <2>2, ShortEndKeeps
<1>6. CASE Short!RemoveEntry(d)
  <2>1. kept' = kept /\ entry' = [entry EXCEPT ![l] = "none"] /\ Short!End(d)
    BY <1>1, <1>6 DEF Short!RemoveEntry
  <2>2. QED BY <1>2, <2>1, ShortEndKeeps DEF Short!Entries
<1>7. QED BY <1>3, <1>4, <1>5, <1>6

LEMMA ShortNextIInv == ASSUME ShortBounds, ShortIInv, [Short!Next]_Short!vars PROVE ShortIInv'
<1>1. ASSUME NEW d \in Servers, NEW l \in Lists, Short!AskCreate(d, l) \/ Short!OwnList(d, l) \/ Short!OwnEntry(d, l)
      PROVE  ShortIInv'
  BY <1>1, ShortAskCreateKeeps, ShortOwnKeeps
<1>2. ASSUME NEW d \in Servers, Short!Edit(d) PROVE ShortIInv'
  BY <1>2, ShortEndKeeps DEF Short!Edit, ShortIInv, ShortTypes
<1>3. ASSUME NEW d \in Servers,
             Short!Create(d) \/ Short!Delete(d) \/ Short!Add(d) \/ Short!UpdateEntry(d) \/ Short!RemoveEntry(d)
      PROVE  ShortIInv'
  BY <1>3, ShortCreateKeeps, ShortEntryKeeps
<1>4. CASE UNCHANGED Short!vars
  BY <1>4 DEF Short!vars, ShortIInv, ShortTypes, ShortCounted, ShortCreators
<1>5. QED BY <1>1, <1>2, <1>3, <1>4 DEF Short!Next

(* A behaviour of the composition is one of Shortlists, with steps that    *)
(* leave it alone.                                                         *)
LEMMA ShortSpec == ExchangeSpec => Short!Spec
<1>1. ExchangeInit => Short!Init
  BY DEF ExchangeInit
<1>2. [ExchangeNext]_exchangeVars => [Short!Next]_Short!vars
  BY DEF ExchangeNext, exchangeVars, listVars, Short!vars
<1>3. QED BY <1>1, <1>2, PTL DEF ExchangeSpec, Short!Spec

LEMMA ShortInvariant == ExchangeSpec => []ShortIInv
<1>1. Short!Init => ShortIInv
  BY ShortInitIInv, BoundsAssumption DEF ShortBounds
<1>2. ShortIInv /\ [Short!Next]_Short!vars => ShortIInv'
  BY ShortNextIInv, BoundsAssumption DEF ShortBounds
<1>3. QED BY <1>1, <1>2, ShortSpec, PTL DEF Short!Spec

-----------------------------------------------------------------------------
(* RoomChat: the messages of a group chat.                                 *)

(* The part counts as FiniteSets does.                                     *)
LEMMA RoomCounts == ASSUME NEW S PROVE Room!Cardinality(S) = Cardinality(S)
BY DEF Room!Cardinality, Cardinality

(* NoOne is no person, NoMessage no message, and messages are finite.      *)
RoomDistinct == Nobody \notin Members /\ Nobody \notin Messages /\ IsFiniteSet(Messages)

(* What a member has not been slipped under a request of theirs.           *)
RoomClear(p, m) == <<p, m>> \notin slipped

(* A request found messages that are there for good; when it takes the     *)
(* time, all that had begun by then; what had begun and it did not find    *)
(* was being sent meanwhile, as is what began after; an update holds the   *)
(* row of a member.                                                        *)
RoomTaken(request) == IF request.at = "asked" THEN Room!Begun ELSE request.seen
RoomSound(request) ==
    request.at # "idle" =>
        /\ request.by \in Members /\ request.there \subseteq Room!Sent
        /\ \A m \in RoomTaken(request) :
               m # request.about /\ RoomClear(request.by, m) => m \in request.there
        /\ request.at \in {"stamped", "written"} =>
               /\ request.there \subseteq request.seen
               /\ \A m \in Room!Begun : RoomClear(request.by, m) => m \in request.seen
               /\ \A m \in request.seen : m \in Room!Begun
        /\ (request.at = "written" /\ request.hit) => request.by \in inside

(* A message is sent by one request, once.                                 *)
RoomOnce ==
    \A t \in Servers : (posting[t].about # Nobody) =>
        /\ posting[t].about \notin Room!Sent /\ posting[t].at # "idle"
        /\ \A u \in Servers : u # t => posting[u].about # posting[t].about

(* What lies behind last_read_at, and what was noticed, is there.          *)
RoomPast ==
    /\ \A p \in Members : \A m \in before[p] : RoomClear(p, m) => m \in Room!Sent
    /\ \A p \in Members, m \in Messages : <<p, m>> \in noticed => p \in inside /\ m \in Room!Sent

RoomIInv == Room!TypeOK /\ Room!UnreadIsNew /\ RoomOnce /\ RoomPast /\ \A t \in Servers : RoomSound(posting[t])

LEMMA RoomIdleIsAsked ==
    Room!Idle \in Room!Asked /\ Room!Idle.at = "idle" /\ Room!Idle.about = Nobody /\ Room!Idle.hit = FALSE
BY DEF Room!Idle, Room!Asked

LEMMA RoomServes ==
    ASSUME Room!TypeOK, NEW t \in Servers, NEW request \in Room!Asked, Room!Step(t, request)
    PROVE  /\ posting' \in [Servers -> Room!Asked] /\ posting'[t] = request
           /\ \A u \in Servers : u # t => posting'[u] = posting[u]
BY DEF Room!TypeOK, Room!Step

LEMMA RoomInitIInv == ASSUME Room!Init PROVE RoomIInv
<1>1. Room!TypeOK
  <2>1. posting \in [Servers -> Room!Asked]
    BY RoomIdleIsAsked DEF Room!Init
  <2>2. QED BY <2>1 DEF Room!Init, Room!TypeOK
<1>2. \A t \in Servers : posting[t].at = "idle" /\ posting[t].about = Nobody
  BY RoomIdleIsAsked DEF Room!Init
<1>3. Room!UnreadIsNew /\ RoomPast
  BY DEF Room!Init, Room!UnreadIsNew, Room!Unread, RoomPast, Room!Sent
<1>4. RoomOnce /\ \A t \in Servers : RoomSound(posting[t])
  BY <1>2 DEF RoomOnce, RoomSound
<1>5. QED BY <1>1, <1>3, <1>4 DEF RoomIInv

-----------------------------------------------------------------------------
(* A request begins: what is being sent at that moment slips by it, and a  *)
(* message that begins with it slips by whoever is served.                 *)
LEMMA RoomAskKeeps ==
    ASSUME RoomIInv, NEW t \in Servers, NEW p \in inside, NEW a \in Messages \cup {Nobody},
           NEW request \in Room!Asked, Room!Step(t, request), Room!Is(t, "idle"), Room!ChatSame,
           request.at = "asked", request.by = p, request.about = a, request.there = Room!Sent,
           a # Nobody => a \notin Room!Begun,
           slipped' = slipped \cup ({p} \X Room!Sending)
                      \cup ({q \in Members : a # Nobody /\ Room!Serving(q)} \X {a})
    PROVE  RoomIInv'
<1>1. /\ posting' \in [Servers -> Room!Asked] /\ posting'[t] = request
      /\ \A u \in Servers : u # t => posting'[u] = posting[u]
  BY RoomServes DEF RoomIInv
<1>2. UNCHANGED <<inside, before, sender, noticed>> /\ Room!Sent' = Room!Sent /\ posting[t].at = "idle"
  BY DEF Room!ChatSame, Room!Sent, Room!Is
<1>3. /\ slipped \subseteq slipped' /\ slipped' \subseteq Members \X Messages
      /\ \A n \in Room!Sending : <<p, n>> \in slipped'
      /\ a # Nobody => \A q \in Members : Room!Serving(q) => <<q, a>> \in slipped'
  <2>1. Room!Sending \subseteq Messages /\ p \in Members
    BY DEF Room!Sending, RoomIInv, Room!TypeOK, Room!Asked
  <2>2. QED BY <2>1 DEF RoomIInv, Room!TypeOK
<1>4. Room!TypeOK'
  BY <1>1, <1>2, <1>3 DEF RoomIInv, Room!TypeOK
<1>5. Room!UnreadIsNew' /\ RoomPast'
  BY <1>2, <1>3 DEF RoomIInv, Room!UnreadIsNew, Room!Unread, RoomPast, RoomClear
<1>6. posting[t].about = Nobody
  BY <1>2 DEF RoomIInv, RoomOnce
<1>7. Room!Sending' = Room!Sending \cup ({a} \ {Nobody})
  BY <1>1, <1>6 DEF Room!Sending
<1>8. Room!Begun' = Room!Begun \cup ({a} \ {Nobody})
  BY <1>2, <1>7 DEF Room!Begun
<1>9. RoomOnce'
  <2>1. a # Nobody => a \notin Room!Sent /\ \A u \in Servers : posting[u].about # a
    BY DEF Room!Begun, Room!Sending
  <2>2. QED BY <1>1, <1>2, <2>1 DEF RoomIInv, RoomOnce
<1>10. ASSUME NEW u \in Servers PROVE RoomSound(posting[u])'
  <2>1. CASE u = t
    BY <1>1, <1>2, <1>3, <1>8, <2>1 DEF RoomSound, RoomTaken, RoomClear, Room!Begun, RoomIInv,
       Room!TypeOK
  <2>2. CASE u # t
    <3>1. posting'[u] = posting[u] /\ RoomSound(posting[u])
      BY <1>1, <2>2 DEF RoomIInv
    <3>2. posting[u].at # "idle" =>
              posting[u].by \in Members /\ (a # Nobody => <<posting[u].by, a>> \in slipped')
      BY <1>3, <3>1 DEF RoomSound, Room!Serving
    <3>3. QED BY <1>2, <1>3, <1>8, <3>1, <3>2 DEF RoomSound, RoomTaken, RoomClear
  <2>3. QED BY <2>1, <2>2
<1>11. QED BY <1>4, <1>5, <1>9, <1>10 DEF RoomIInv

LEMMA RoomReadKeeps ==
    ASSUME RoomIInv, NEW t \in Servers, NEW p \in Members, Room!Read(t, p)
    PROVE RoomIInv'
<1>1. PICK request : request = [Room!Idle EXCEPT !.at = "asked", !.by = p, !.there = Room!Sent]
  OBVIOUS
<1>2. /\ request \in Room!Asked /\ request.at = "asked" /\ request.by = p
      /\ request.about = Nobody /\ request.there = Room!Sent
  BY <1>1, RoomIdleIsAsked DEF Room!Asked, Room!Sent
<1>3. slipped' = slipped \cup ({p} \X Room!Sending)
                 \cup ({q \in Members : Nobody # Nobody /\ Room!Serving(q)} \X {Nobody})
  BY DEF Room!Read
<1>4. Room!Step(t, request) /\ Room!Is(t, "idle") /\ Room!ChatSame /\ p \in inside
  BY <1>1 DEF Room!Read, Room!InRoom
<1>5. Nobody \in Messages \cup {Nobody}
  OBVIOUS
<1>6. QED BY <1>2, <1>3, <1>4, <1>5, RoomAskKeeps, SMTT(60)

LEMMA RoomPostKeeps ==
    ASSUME RoomDistinct, RoomIInv, NEW t \in Servers, NEW p \in Members, NEW m \in Messages, Room!Post(t, p, m)
    PROVE  RoomIInv'
<1>1. PICK request : request = [Room!Idle EXCEPT !.at = "asked", !.by = p, !.about = m, !.there = Room!Sent]
  OBVIOUS
<1>2. /\ request \in Room!Asked /\ request.at = "asked" /\ request.by = p
      /\ request.about = m /\ request.there = Room!Sent
  BY <1>1, RoomIdleIsAsked DEF Room!Asked, Room!Sent
<1>3. slipped' = slipped \cup ({p} \X Room!Sending)
                 \cup ({q \in Members : m # Nobody /\ Room!Serving(q)} \X {m})
  BY DEF Room!Post, RoomDistinct
<1>4. QED BY <1>1, <1>2, <1>3, RoomAskKeeps DEF Room!Post, Room!InRoom

(* A request goes on: the chat stays, and what is being sent.              *)
LEMMA RoomStepKeeps ==
    ASSUME RoomIInv, NEW t \in Servers, NEW request \in Room!Asked, Room!Step(t, request), request.at # "idle",
           request.about = posting[t].about, UNCHANGED slipped, Room!ChatSame, RoomSound(request)
    PROVE  RoomIInv'
<1>1. /\ posting' \in [Servers -> Room!Asked] /\ posting'[t] = request
      /\ \A u \in Servers : u # t => posting'[u] = posting[u]
  BY RoomServes DEF RoomIInv
<1>2. Room!TypeOK' /\ Room!UnreadIsNew' /\ RoomPast'
  BY <1>1 DEF RoomIInv, Room!TypeOK, Room!UnreadIsNew, Room!Unread, RoomPast, RoomClear, Room!Sent,
     Room!ChatSame
<1>3. \A u \in Servers : posting'[u].about = posting[u].about
  BY <1>1
<1>4. Room!Sent' = Room!Sent /\ Room!Begun' = Room!Begun
  BY <1>3 DEF Room!ChatSame, Room!Sent, Room!Begun, Room!Sending
<1>5. RoomOnce'
  BY <1>1, <1>3, <1>4 DEF RoomIInv, RoomOnce
<1>6. ASSUME NEW u \in Servers PROVE RoomSound(posting[u])'
  <2>1. RoomSound(posting'[u])
    BY <1>1 DEF RoomIInv
  <2>2. QED BY <1>4, <2>1 DEF RoomSound, RoomTaken, RoomClear, Room!ChatSame
<1>7. QED BY <1>2, <1>5, <1>6 DEF RoomIInv

LEMMA RoomStampKeeps == ASSUME RoomIInv, NEW t \in Servers, Room!Stamp(t) PROVE RoomIInv'
<1>1. PICK request : request = [posting[t] EXCEPT !.at = "stamped", !.seen = Room!Begun]
  OBVIOUS
<1>2. Room!Begun \subseteq Messages \cup {Nobody} /\ Nobody \notin Room!Sending /\ Room!Begun \subseteq Messages
  BY DEF Room!Begun, Room!Sent, Room!Sending, RoomIInv, Room!TypeOK, Room!Asked
<1>3. /\ request \in Room!Asked /\ request.at = "stamped" /\ request.seen = Room!Begun
      /\ request.by = posting[t].by /\ request.about = posting[t].about
      /\ request.there = posting[t].there /\ RoomSound(posting[t])
  BY <1>1, <1>2 DEF Room!Asked, RoomIInv, Room!TypeOK
<1>4. RoomSound(request)
  BY <1>3 DEF Room!Stamp, Room!Is, RoomSound, RoomTaken, Room!Begun
<1>5. QED BY <1>1, <1>3, <1>4, RoomStepKeeps DEF Room!Stamp

LEMMA RoomWriteKeeps == ASSUME RoomIInv, NEW t \in Servers, Room!Write(t) PROVE RoomIInv'
<1> DEFINE hit == Room!InRoom(posting[t].by)
<1>1. hit \in BOOLEAN /\ (hit => posting[t].by \in inside)
  BY DEF Room!InRoom
<1>2. PICK request : /\ Room!Step(t, request)
                     /\ request = [posting[t] EXCEPT !.at = "written", !.hit = hit]
  BY DEF Room!Write
<1> HIDE DEF hit
<1>3. /\ request \in Room!Asked /\ request.at = "written" /\ request.hit = hit
      /\ request.by = posting[t].by /\ request.about = posting[t].about
      /\ request.there = posting[t].there /\ request.seen = posting[t].seen /\ RoomSound(posting[t])
  BY <1>1, <1>2 DEF Room!Asked, RoomIInv, Room!TypeOK
<1>4. RoomSound(request)
  BY <1>1, <1>3 DEF Room!Write, Room!Is, RoomSound, RoomTaken
<1>5. QED BY <1>2, <1>3, <1>4, RoomStepKeeps DEF Room!Write

-----------------------------------------------------------------------------
(* A request commits: its message is there, and if it found the row of the *)
(* member, they have noticed what lies behind it, and nothing else.        *)
LEMMA RoomCommitKeeps ==
    ASSUME RoomDistinct, RoomIInv, NEW t \in Servers, Room!Commit(t)
    PROVE RoomIInv'
<1> DEFINE p == posting[t].by
           a == posting[t].about
<1>1. /\ p \in Members /\ p # Nobody /\ posting[t].at = "written" /\ RoomSound(posting[t])
      /\ posting[t].hit => p \in inside
      /\ posting[t] \in Room!Asked
  BY DEF Room!Commit, Room!Is, RoomIInv, RoomSound, Room!TypeOK, RoomDistinct
<1>2. /\ posting' \in [Servers -> Room!Asked] /\ posting'[t] = Room!Idle
      /\ \A u \in Servers : u # t => posting'[u] = posting[u]
  BY RoomIdleIsAsked, RoomServes DEF Room!Commit, RoomIInv
<1>3. /\ before' = [q \in Members |-> IF posting[t].hit /\ q = p THEN posting[t].seen ELSE before[q]]
      /\ sender' = [m \in Messages |-> IF m = a THEN p ELSE sender[m]]
      /\ noticed' = IF posting[t].hit THEN noticed \cup ({p} \X posting[t].there) ELSE noticed
      /\ UNCHANGED <<inside, slipped>>
  BY DEF Room!Commit, Room!OwnRow
<1>4. a \in Messages \cup {Nobody} /\ posting[t].seen \subseteq Messages /\ posting[t].there \subseteq Messages
  BY <1>1 DEF Room!Asked
<1>5. Room!Sent' = Room!Sent \cup ({a} \ {Nobody})
  BY <1>1, <1>3, <1>4 DEF Room!Sent, RoomDistinct
<1>6. Room!Begun' = Room!Begun
  <2>1. \A u \in Servers : posting'[u].about = IF u = t THEN Nobody ELSE posting[u].about
    BY <1>2, RoomIdleIsAsked
  <2>2. Room!Sending = Room!Sending' \cup ({a} \ {Nobody})
    BY <2>1 DEF Room!Sending
  <2>3. QED BY <1>5, <2>2 DEF Room!Begun
<1>7. Room!TypeOK'
  <2>1. sender' \in [Messages -> Members \cup {Nobody}]
    BY <1>1, <1>3 DEF RoomIInv, Room!TypeOK
  <2>2. before' \in [Members -> SUBSET Messages] /\ \A q \in Members \ inside : before'[q] = {}
    BY <1>1, <1>3, <1>4 DEF RoomIInv, Room!TypeOK
  <2>3. noticed' \subseteq Members \X Messages
    BY <1>1, <1>3, <1>4 DEF RoomIInv, Room!TypeOK
  <2>4. QED BY <1>2, <1>3, <2>1, <2>2, <2>3 DEF RoomIInv, Room!TypeOK
<1>8. RoomOnce'
  <2>1. \A u \in Servers \ {t} : posting[u].about # Nobody => posting[u].about # a
    BY DEF RoomIInv, RoomOnce
  <2>2. QED BY <1>2, <1>5, <2>1, RoomIdleIsAsked DEF RoomIInv, RoomOnce
<1>9. RoomPast'
  <2>1. ASSUME NEW q \in Members, NEW m \in before'[q], RoomClear(q, m) PROVE m \in Room!Sent'
    <3>1. CASE posting[t].hit /\ q = p
      BY <1>1, <1>3, <1>5, <2>1, <3>1 DEF RoomSound, RoomTaken, Room!Asked, Room!Begun, Room!Sending,
         RoomIInv, Room!TypeOK
    <3>2. CASE ~(posting[t].hit /\ q = p)
      BY <1>3, <1>5, <2>1, <3>2 DEF RoomIInv, RoomPast
    <3>3. QED BY <3>1, <3>2
  <2>2. ASSUME NEW q \in Members, NEW m \in Messages, <<q, m>> \in noticed'
        PROVE  q \in inside /\ m \in Room!Sent'
    BY <1>1, <1>3, <1>5, <2>2 DEF RoomIInv, RoomPast, RoomSound
  <2>3. QED BY <1>3, <2>1, <2>2 DEF RoomPast, RoomClear
<1>10. Room!UnreadIsNew'
  <2> SUFFICES ASSUME NEW q \in inside, NEW m \in Room!Sent', sender'[m] # q, <<q, m>> \notin slipped
               PROVE  m \notin before'[q] <=> <<q, m>> \notin noticed'
    BY <1>3 DEF Room!UnreadIsNew, Room!Unread
  <2>1. q \in Members /\ m \in Messages /\ m \in Room!Begun
    BY <1>6 DEF RoomIInv, Room!TypeOK, Room!Sent, Room!Begun
  <2>2. CASE posting[t].hit /\ q = p
    <3>1. m # a
      BY <1>3, <2>1, <2>2
    <3>2. m \in posting[t].seen /\ m \in posting[t].there
      BY <1>1, <2>1, <2>2, <3>1 DEF RoomSound, RoomTaken, RoomClear
    <3>3. QED BY <1>3, <2>1, <2>2, <3>2
  <2>3. CASE ~(posting[t].hit /\ q = p)
    <3>1. before'[q] = before[q] /\ (<<q, m>> \in noticed' <=> <<q, m>> \in noticed)
      BY <1>3, <2>1, <2>3
    <3>2. CASE m = a
      <4>1. m \notin Room!Sent
        BY <2>1, <3>2 DEF RoomIInv, RoomOnce, RoomDistinct
      <4>2. QED BY <2>1, <3>1, <4>1 DEF RoomIInv, RoomPast, RoomClear
    <3>3. CASE m # a
      <4>1. m \in Room!Sent /\ sender[m] # q
        BY <1>3, <1>5, <2>1, <3>3
      <4>2. QED BY <3>1, <4>1 DEF RoomIInv, Room!UnreadIsNew, Room!Unread
    <3>4. QED BY <3>2, <3>3
  <2>4. QED BY <2>2, <2>3
<1>11. ASSUME NEW u \in Servers PROVE RoomSound(posting[u])'
  <2>1. CASE u = t
    BY <1>2, <2>1, RoomIdleIsAsked DEF RoomSound
  <2>2. CASE u # t
    <3>1. posting'[u] = posting[u] /\ RoomSound(posting[u])
      BY <1>2, <2>2 DEF RoomIInv
    <3>2. QED BY <1>3, <1>5, <1>6, <3>1 DEF RoomSound, RoomTaken, RoomClear
  <2>3. QED BY <2>1, <2>2
<1>12. QED BY <1>7, <1>8, <1>9, <1>10, <1>11 DEF RoomIInv

LEMMA RoomMembersKeep ==
    ASSUME RoomIInv, NEW p \in Members, Room!Join(p) \/ Room!Leave(p)
    PROVE  RoomIInv'
<1>1. /\ inside' \subseteq Members /\ inside \ {p} \subseteq inside' /\ inside' \subseteq inside \cup {p}
      /\ before' = [before EXCEPT ![p] = {}]
      /\ noticed' = {n \in noticed : n[1] # p}
      /\ UNCHANGED <<sender, slipped, posting>>
  <2>1. CASE Room!Join(p)
    <3>1. before[p] = {} /\ \A n \in noticed : n[1] # p
      BY <2>1 DEF Room!Join, Room!InRoom, RoomIInv, Room!TypeOK, RoomPast
    <3>2. before = [before EXCEPT ![p] = {}]
      BY <3>1 DEF RoomIInv, Room!TypeOK
    <3>3. QED BY <2>1, <3>1, <3>2 DEF Room!Join, RoomIInv, Room!TypeOK
  <2>2. CASE Room!Leave(p)
    BY <2>2 DEF Room!Leave, RoomIInv, Room!TypeOK
  <2>3. QED BY <2>1, <2>2
<1>2. /\ before' \in [Members -> SUBSET Messages] /\ before'[p] = {}
      /\ \A q \in Members : q # p => before'[q] = before[q]
  BY <1>1 DEF RoomIInv, Room!TypeOK
<1>3. /\ noticed' \subseteq noticed
      /\ \A q, m : <<q, m>> \in noticed' <=> (<<q, m>> \in noticed /\ q # p)
  BY <1>1
<1>4. Room!Sent' = Room!Sent /\ Room!Begun' = Room!Begun
  BY <1>1 DEF Room!Sent, Room!Begun, Room!Sending
<1>5. Room!TypeOK'
  BY <1>1, <1>2, <1>3 DEF RoomIInv, Room!TypeOK
<1>6. RoomPast'
  BY <1>1, <1>2, <1>3, <1>4 DEF RoomIInv, RoomPast, RoomClear
<1>7. Room!UnreadIsNew'
  <2> SUFFICES ASSUME NEW q \in inside', NEW m \in Room!Sent, sender[m] # q, <<q, m>> \notin slipped
               PROVE  m \notin before'[q] <=> <<q, m>> \notin noticed'
    BY <1>1, <1>4 DEF Room!UnreadIsNew, Room!Unread
  <2>1. CASE q = p
    BY <1>2, <1>3, <2>1
  <2>2. CASE q # p
    BY <1>1, <1>2, <1>3, <2>2 DEF RoomIInv, Room!TypeOK, Room!UnreadIsNew, Room!Unread
  <2>3. QED BY <2>1, <2>2
<1>8. RoomOnce'
  BY <1>1, <1>4 DEF RoomIInv, RoomOnce
<1>9. ASSUME NEW t \in Servers PROVE RoomSound(posting[t])'
  <2>1. RoomSound(posting[t]) /\ posting'[t] = posting[t]
    BY <1>1 DEF RoomIInv
  <2>2. (posting[t].at = "written" /\ posting[t].hit) => posting[t].by \in inside'
    <3>1. CASE Room!Join(p)
      BY <2>1, <3>1 DEF Room!Join, RoomSound
    <3>2. CASE Room!Leave(p)
      BY <1>1, <2>1, <3>2 DEF Room!Leave, Room!Is, RoomSound
    <3>3. QED BY <3>1, <3>2
  <2>3. QED BY <1>1, <1>4, <2>1, <2>2 DEF RoomSound, RoomTaken, RoomClear
<1>10. QED BY <1>5, <1>6, <1>7, <1>8, <1>9 DEF RoomIInv

LEMMA RoomNextIInv == ASSUME RoomDistinct, RoomIInv, [Room!Next]_Room!vars PROVE RoomIInv'
<1>1. ASSUME NEW t \in Servers, NEW p \in Members, Room!Read(t, p) PROVE RoomIInv'
  BY <1>1, RoomReadKeeps
<1>2. ASSUME NEW t \in Servers, NEW p \in Members, NEW m \in Messages, Room!Post(t, p, m) PROVE RoomIInv'
  BY <1>2, RoomPostKeeps
<1>3. ASSUME NEW t \in Servers, Room!Stamp(t) \/ Room!Write(t) \/ Room!Commit(t) PROVE RoomIInv'
  BY <1>3, RoomStampKeeps, RoomWriteKeeps, RoomCommitKeeps
<1>4. ASSUME NEW p \in Members, Room!Join(p) \/ Room!Leave(p) PROVE RoomIInv'
  BY <1>4, RoomMembersKeep
<1>5. CASE UNCHANGED Room!vars
  <2>1. UNCHANGED <<inside, before, sender, noticed, slipped, posting>>
    BY <1>5 DEF Room!vars
  <2>2. Room!TypeOK' /\ Room!UnreadIsNew' /\ RoomOnce' /\ RoomPast'
    BY <2>1 DEF RoomIInv, Room!TypeOK, Room!UnreadIsNew, Room!Unread, RoomOnce, RoomPast, RoomClear,
       Room!Sent
  <2>3. \A t \in Servers : RoomSound(posting[t])'
    BY <2>1 DEF RoomIInv, RoomSound, RoomTaken, RoomClear, Room!Begun, Room!Sending, Room!Sent
  <2>4. QED BY <2>2, <2>3 DEF RoomIInv
<1>6. QED BY <1>1, <1>2, <1>3, <1>4, <1>5 DEF Room!Next

(* The badge counts one pair for each message the list counts.             *)
LEMMA RoomBadgeHolds ==
    ASSUME RoomDistinct, Room!TypeOK, NEW p \in inside
    PROVE Room!Badge(p) = Room!Summary(p)
<1> DEFINE pairs == {x \in Room!Sent \X {q \in inside : q = p} :
                         sender[x[1]] # x[2] /\ x[1] \notin before[x[2]]}
           f == [m \in Room!Unread(p) |-> <<m, p>>]
<1>1. \A x : x \in pairs <=> \E m \in Room!Unread(p) : x = <<m, p>>
  BY DEF Room!Unread
<1>2. f \in Bijection(Room!Unread(p), pairs)
  <2>1. f \in [Room!Unread(p) -> pairs] /\ \A x \in pairs : \E m \in Room!Unread(p) : f[m] = x
    BY <1>1
  <2>2. \A m, n \in Room!Unread(p) : f[m] = f[n] => m = n
    OBVIOUS
  <2>3. DOMAIN f = Room!Unread(p)
    OBVIOUS
  <2> HIDE DEF f, pairs
  <2>4. QED BY <2>1, <2>2, <2>3 DEF Bijection, Injection, Surjection, IsInjective
<1>3. IsFiniteSet(Room!Unread(p))
  <2>1. Room!Unread(p) \subseteq Messages
    BY DEF Room!Unread, Room!Sent
  <2>2. QED BY <2>1, FS_Subset DEF RoomDistinct
<1>4. Cardinality(pairs) = Cardinality(Room!Unread(p))
  BY <1>2, <1>3, FS_Bijection DEF ExistsBijection
<1>5. QED BY <1>4, RoomCounts DEF Room!Badge, Room!Summary

LEMMA RoomHolds == ASSUME RoomDistinct, RoomIInv PROVE Room!TypeOK /\ Room!UnreadHolds
BY RoomBadgeHolds DEF RoomIInv, Room!UnreadHolds, Room!BadgeAgrees

(* A behaviour of the composition is one of RoomChat, with steps that      *)
(* leave it alone.                                                         *)
LEMMA RoomSpec == ExchangeSpec => Room!Spec
<1>1. ExchangeInit => Room!Init
  BY DEF ExchangeInit
<1>2. [ExchangeNext]_exchangeVars => [Room!Next]_Room!vars
  BY DEF ExchangeNext, exchangeVars, roomVars, Room!vars
<1>3. QED BY <1>1, <1>2, PTL DEF ExchangeSpec, Room!Spec

LEMMA RoomInvariant == ExchangeSpec => []RoomIInv
<1>1. Room!Init => RoomIInv
  BY RoomInitIInv
<1>2. RoomIInv /\ [Room!Next]_Room!vars => RoomIInv'
  BY RoomNextIInv, NobodyAssumption, BoundsAssumption DEF RoomDistinct
<1>3. QED BY <1>1, <1>2, RoomSpec, PTL DEF Room!Spec

(* However messages, deletions, reads and membership changes of a group    *)
(* chat overlap: what a member has not read is told to them, by the badge  *)
(* and by the summary alike.                                               *)
THEOREM UnreadHoldsAlways == ExchangeSpec => []UnreadHolds
<1>1. RoomIInv => UnreadHolds
  BY RoomHolds, NobodyAssumption, BoundsAssumption DEF UnreadHolds, RoomDistinct
<1>2. QED BY <1>1, RoomInvariant, PTL

-----------------------------------------------------------------------------
(* Realtime: the events of one user.                                       *)

(* A queue has a size.                                                     *)
FeedBounds == QueueSize \in Nat

(* Sequences: what the actions do with them.                               *)
LEMMA FeedSeqInto ==
    ASSUME NEW S, NEW T, NEW s \in Seq(S), \A i \in 1..Len(s) : s[i] \in T
    PROVE  s \in Seq(T)
<1>1. Len(s) \in Nat /\ s \in [1..Len(s) -> S]
  BY LenProperties
<1>2. s \in [1..Len(s) -> T]
  BY <1>1
<1>3. QED BY <1>1, <1>2, SeqDef

LEMMA FeedSetOfSeq ==
    ASSUME NEW S, NEW s \in Seq(S)
    PROVE  Feed!ToSet(s) \subseteq S /\ s \in Seq(Feed!ToSet(s)) /\ \A T : s \in Seq(T) => Feed!ToSet(s) \subseteq T
<1>1. Feed!ToSet(s) = {s[i] : i \in 1..Len(s)}
  BY LenProperties DEF Feed!ToSet
<1>2. \A i \in 1..Len(s) : s[i] \in Feed!ToSet(s)
  BY <1>1
<1>3. \A T : s \in Seq(T) => Feed!ToSet(s) \subseteq T
  BY <1>1, ElementOfSeq
<1>4. QED BY <1>2, <1>3, FeedSeqInto

LEMMA FeedPutSame ==
    ASSUME NEW S, NEW g \in Seq(S), NEW q \in Seq(S), NEW e \in S
    PROVE  g \o Append(q, e) = Append(g \o q, e)
<1>1. <<e>> \in Seq(S)
  OBVIOUS
<1>2. Append(q, e) = q \o <<e>> /\ g \o q \in Seq(S)
  BY AppendIsConcat, ConcatProperties
<1>3. Append(g \o q, e) = (g \o q) \o <<e>>
  BY <1>2, AppendIsConcat
<1>4. QED BY <1>1, <1>2, <1>3, ConcatAssociative

LEMMA FeedPumpSame ==
    ASSUME NEW S, NEW g \in Seq(S), NEW q \in Seq(S), q # <<>>
    PROVE  Append(g, Head(q)) \o Tail(q) = g \o q
<1>1. /\ Head(q) \in S /\ Tail(q) \in Seq(S) /\ Len(Tail(q)) = Len(q) - 1
      /\ \A i \in 1..Len(Tail(q)) : Tail(q)[i] = q[i + 1]
  BY HeadTailProperties
<1>2. Head(q) = q[1] /\ Len(q) \in Nat \ {0} /\ Len(g) \in Nat
  BY EmptySeq, LenProperties
<1> DEFINE left == Append(g, Head(q))
<1>3. /\ left \in Seq(S) /\ Len(left) = Len(g) + 1 /\ left[Len(g) + 1] = q[1]
      /\ \A i \in 1..Len(g) : left[i] = g[i]
  BY <1>1, <1>2, AppendProperties
<1> HIDE DEF left
<1>4. /\ left \o Tail(q) \in Seq(S) /\ Len(left \o Tail(q)) = Len(left) + Len(Tail(q))
      /\ \A i \in 1..Len(left) + Len(Tail(q)) :
             (left \o Tail(q))[i] = IF i <= Len(left) THEN left[i] ELSE Tail(q)[i - Len(left)]
  BY <1>1, <1>3, ConcatProperties
<1>5. /\ g \o q \in Seq(S) /\ Len(g \o q) = Len(g) + Len(q)
      /\ \A i \in 1..Len(g) + Len(q) : (g \o q)[i] = IF i <= Len(g) THEN g[i] ELSE q[i - Len(g)]
  BY ConcatProperties
<1>6. Len(left \o Tail(q)) = Len(g \o q)
  BY <1>1, <1>2, <1>3, <1>4, <1>5
<1>7. ASSUME NEW i \in 1..Len(left \o Tail(q)) PROVE (left \o Tail(q))[i] = (g \o q)[i]
  <2>0. i \in 1..Len(left) + Len(Tail(q)) /\ i \in 1..Len(g) + Len(q) /\ i \in Nat
    BY <1>2, <1>4, <1>5, <1>6
  <2>1. CASE i <= Len(g)
    <3>1. i \in 1..Len(g) /\ i <= Len(left)
      BY <1>2, <1>3, <2>0, <2>1
    <3>2. QED BY <1>3, <1>4, <1>5, <2>0, <2>1, <3>1
  <2>2. CASE i = Len(g) + 1
    <3>1. i <= Len(left) /\ ~(i <= Len(g)) /\ i - Len(g) = 1
      BY <1>2, <1>3, <2>2
    <3>2. QED BY <1>3, <1>4, <1>5, <2>0, <2>2, <3>1
  <2>3. CASE i > Len(g) + 1
    <3>1. ~(i <= Len(left)) /\ ~(i <= Len(g)) /\ (i - Len(left)) + 1 = i - Len(g)
          /\ i - Len(left) \in 1..Len(Tail(q))
      BY <1>1, <1>2, <1>3, <2>0, <2>3
    <3>2. (left \o Tail(q))[i] = Tail(q)[i - Len(left)] /\ (g \o q)[i] = q[i - Len(g)]
      BY <1>4, <1>5, <2>0, <3>1
    <3>3. Tail(q)[i - Len(left)] = q[(i - Len(left)) + 1]
      BY <1>1, <3>1
    <3>4. QED BY <3>1, <3>2, <3>3
  <2>4. QED BY <1>2, <2>0, <2>1, <2>2, <2>3
<1>8. left \o Tail(q) = g \o q
  BY <1>4, <1>5, <1>6, <1>7, SeqEqual
<1>9. QED BY <1>8 DEF left

(* All of all but M are in some, in their order.                           *)
FeedComplete(some, all, M) ==
    \E at \in [1..Len(some) -> 1..Len(all)] :
        Feed!InOrder(at, some, all) /\ Feed!LeftOut(at, some, all) \subseteq M

(* What is sent stays in order and complete when an event comes that the   *)
(* socket takes ...                                                        *)
LEMMA FeedTakes ==
    ASSUME NEW S, NEW some \in Seq(S), NEW all \in Seq(S), NEW e \in S, NEW M,
           FeedComplete(some, all, M)
    PROVE  FeedComplete(Append(some, e), Append(all, e), M)
<1>0. PICK at \in [1..Len(some) -> 1..Len(all)] : Feed!InOrder(at, some, all) /\ Feed!LeftOut(at, some, all) \subseteq M
  BY DEF FeedComplete
<1>1. /\ Len(some) \in Nat /\ Len(all) \in Nat
      /\ Len(Append(some, e)) = Len(some) + 1 /\ Len(Append(all, e)) = Len(all) + 1
      /\ \A i \in 1..Len(some) : Append(some, e)[i] = some[i]
      /\ \A i \in 1..Len(all) : Append(all, e)[i] = all[i]
      /\ Append(some, e)[Len(some) + 1] = e /\ Append(all, e)[Len(all) + 1] = e
  BY AppendProperties, LenProperties
<1> DEFINE l == Len(some)
           n == Len(all)
           longer == Append(some, e)
           whole == Append(all, e)
           to == [i \in 1..l + 1 |-> IF i = l + 1 THEN n + 1 ELSE at[i]]
<1>2. \A i \in 1..l + 1 : i = l + 1 \/ i \in 1..l
  BY <1>1
<1>3. \A i \in 1..l : to[i] = at[i] /\ to[i] \in 1..n /\ i \in 1..l + 1
  BY <1>0, <1>1
<1>4. to[l + 1] = n + 1
  BY <1>1
<1>5. to \in [1..l + 1 -> 1..n + 1]
  BY <1>0, <1>1, <1>2
<1> HIDE DEF to
<1>6. ASSUME NEW i \in 1..l + 1 PROVE longer[i] = whole[to[i]]
  BY <1>0, <1>1, <1>2, <1>3, <1>4 DEF Feed!InOrder
<1>7. ASSUME NEW i \in 1..l + 1, NEW j \in 1..l + 1, i < j PROVE to[i] < to[j]
  <2>1. i \in 1..l
    BY <1>1, <1>2, <1>7
  <2>2. CASE j = l + 1
    BY <1>1, <1>3, <1>4, <2>1, <2>2
  <2>3. CASE j \in 1..l
    BY <1>0, <1>3, <1>7, <2>1, <2>3 DEF Feed!InOrder
  <2>4. QED BY <1>2, <2>2, <2>3
<1>8. ASSUME NEW m \in 1..n + 1, \A i \in 1..l + 1 : to[i] # m PROVE whole[m] \in M
  <2>1. m # n + 1
    BY <1>1, <1>4, <1>8
  <2>2. m \in 1..n /\ \A i \in 1..l : at[i] # m
    BY <1>1, <1>3, <1>8, <2>1
  <2>3. all[m] \in Feed!LeftOut(at, some, all)
    BY <2>2 DEF Feed!LeftOut
  <2>4. QED BY <1>0, <1>1, <2>2, <2>3
<1>9. Feed!InOrder(to, longer, whole)
  BY <1>1, <1>6, <1>7 DEF Feed!InOrder
<1>10. Feed!LeftOut(to, longer, whole) \subseteq M
  BY <1>1, <1>8 DEF Feed!LeftOut
<1>11. QED BY <1>1, <1>5, <1>9, <1>10 DEF FeedComplete

(* ... and one that it does not take.                                      *)
LEMMA FeedMisses ==
    ASSUME NEW S, NEW some \in Seq(S), NEW all \in Seq(S), NEW e \in S, NEW M,
           FeedComplete(some, all, M)
    PROVE  FeedComplete(some, Append(all, e), M \cup {e})
<1>0. PICK at \in [1..Len(some) -> 1..Len(all)] : Feed!InOrder(at, some, all) /\ Feed!LeftOut(at, some, all) \subseteq M
  BY DEF FeedComplete
<1>1. /\ Len(some) \in Nat /\ Len(all) \in Nat /\ Len(Append(all, e)) = Len(all) + 1
      /\ \A i \in 1..Len(all) : Append(all, e)[i] = all[i]
      /\ Append(all, e)[Len(all) + 1] = e
  BY AppendProperties, LenProperties
<1>2. at \in [1..Len(some) -> 1..Len(Append(all, e))] /\ \A i \in 1..Len(some) : at[i] \in 1..Len(all)
  BY <1>1
<1>3. Feed!InOrder(at, some, Append(all, e))
  BY <1>0, <1>1, <1>2 DEF Feed!InOrder
<1>4. ASSUME NEW m \in 1..Len(all) + 1, \A i \in 1..Len(some) : at[i] # m
      PROVE  Append(all, e)[m] \in M \cup {e}
  <2>1. CASE m = Len(all) + 1
    BY <1>1, <2>1
  <2>2. CASE m \in 1..Len(all)
    <3>1. all[m] \in Feed!LeftOut(at, some, all)
      BY <1>4, <2>2 DEF Feed!LeftOut
    <3>2. QED BY <1>0, <1>1, <2>2, <3>1
  <2>3. QED BY <1>1, <2>1, <2>2
<1>5. Feed!LeftOut(at, some, Append(all, e)) \subseteq M \cup {e}
  BY <1>1, <1>4 DEF Feed!LeftOut
<1>6. QED BY <1>2, <1>3, <1>5 DEF FeedComplete

(* What is on its way or delivered was committed.                          *)
FeedCommitted ==
    /\ \A s \in Servers : publishing[s] \in Seq(saved)
    /\ loop \in Seq(saved) /\ handed \in Seq(saved)
    /\ \A k \in Sockets : socket[k].queue \in Seq(saved) /\ socket[k].got \in Seq(saved)
                          /\ socket[k].wanted \in Seq(saved)

(* The loop holds the last of what was handed over ...                     *)
FeedLine ==
    /\ Len(loop) <= Len(handed)
    /\ \A i \in 1..Len(loop) : loop[i] = handed[Len(handed) - Len(loop) + i]

(* ... a socket wants what came before that, since it subscribed, and is   *)
(* sent it in order but for what it missed.                                *)
FeedWants(k) ==
    /\ Len(socket[k].wanted) + Len(loop) <= Len(handed)
    /\ \A i \in 1..Len(socket[k].wanted) :
           socket[k].wanted[i] = handed[Len(handed) - Len(loop) - Len(socket[k].wanted) + i]
FeedGets(k) == FeedComplete(Feed!Sent(k), socket[k].wanted, missed)
FeedEmpty(k) == socket[k].queue = <<>> /\ socket[k].got = <<>> /\ socket[k].wanted = <<>>

FeedIInv ==
    /\ Feed!TypeOK /\ FeedCommitted /\ FeedLine
    /\ \A k \in Sockets : socket[k].state = "new" => FeedEmpty(k)
    /\ \A k \in Sockets : socket[k].state = "open" => FeedWants(k) /\ FeedGets(k)

LEMMA FeedInitIInv == ASSUME FeedBounds, Feed!Init PROVE FeedIInv
<1>1. \A S : <<>> \in Seq(S)
  OBVIOUS
<1>2. Len(<<>>) = 0
  OBVIOUS
<1>3. \A k \in Sockets : socket[k] = [state |-> "new", queue |-> <<>>, got |-> <<>>, wanted |-> <<>>]
  BY DEF Feed!Init
<1>4. Feed!TypeOK
  <2>1. socket \in [Sockets -> Feed!Socket]
    BY <1>1 DEF Feed!Init, Feed!Socket
  <2>2. \A k \in Sockets : Len(socket[k].queue) <= QueueSize
    BY <1>2, <1>3 DEF FeedBounds
  <2>3. session \in [Servers -> Seq(Events)] /\ publishing \in [Servers -> Seq(Events)]
    BY <1>1 DEF Feed!Init
  <2>4. loop \in Seq(Events) /\ handed \in Seq(Events) /\ saved \subseteq Events /\ missed \subseteq Events
    BY <1>1 DEF Feed!Init
  <2>5. QED BY <2>1, <2>2, <2>3, <2>4 DEF Feed!TypeOK
<1>5. FeedCommitted
  <2>1. \A s \in Servers : publishing[s] = <<>>
    BY DEF Feed!Init
  <2>2. loop = <<>> /\ handed = <<>>
    BY DEF Feed!Init
  <2>3. \A k \in Sockets : FeedEmpty(k)
    BY <1>3 DEF FeedEmpty
  <2>4. <<>> \in Seq(saved)
    BY <1>1
  <2>5. QED BY <2>1, <2>2, <2>3, <2>4 DEF FeedCommitted, FeedEmpty
<1>6. FeedLine
  <2>1. loop = <<>> /\ handed = <<>>
    BY DEF Feed!Init
  <2>2. QED BY <1>2, <2>1 DEF FeedLine
<1>7. \A k \in Sockets : socket[k].state = "new" /\ FeedEmpty(k)
  BY <1>3 DEF FeedEmpty
<1>8. QED BY <1>4, <1>5, <1>6, <1>7 DEF FeedIInv

(* A step that leaves the loop and the sockets alone keeps what they say.  *)
LEMMA FeedSocketsStay ==
    ASSUME FeedIInv, Feed!TypeOK', FeedCommitted', UNCHANGED <<loop, handed, socket, missed>>
    PROVE  FeedIInv'
<1>1. FeedLine'
  BY DEF FeedIInv, FeedLine
<1>2. \A k \in Sockets : (socket[k].state = "new" => FeedEmpty(k))'
  BY DEF FeedIInv, FeedEmpty
<1>3. ASSUME NEW k \in Sockets, socket'[k].state = "open" PROVE FeedWants(k)' /\ FeedGets(k)'
  <2>1. FeedWants(k) /\ FeedGets(k)
    BY <1>3 DEF FeedIInv
  <2>2. Feed!Sent(k)' = Feed!Sent(k) /\ socket'[k] = socket[k]
    BY DEF Feed!Sent
  <2>3. FeedWants(k)'
    BY <2>1, <2>2 DEF FeedWants
  <2>4. FeedGets(k)'
    BY <2>1, <2>2 DEF FeedGets
  <2>5. QED BY <2>3, <2>4
<1>4. QED BY <1>1, <1>2, <1>3 DEF FeedIInv

LEMMA FeedSessionKeeps ==
    ASSUME FeedIInv, NEW s \in Servers, (\E e \in Events : Feed!QueueEvent(s, e)) \/ Feed!Commit(s) \/ Feed!Rollback(s)
    PROVE  FeedIInv'
<1>0. Feed!TypeOK /\ FeedCommitted
  BY DEF FeedIInv
<1>1. session[s] \in Seq(Events) /\ <<>> \in Seq(Events)
  BY <1>0 DEF Feed!TypeOK
<1>2. CASE \E e \in Events : Feed!QueueEvent(s, e)
  <2>1. PICK e \in Events : Feed!QueueEvent(s, e)
    BY <1>2
  <2>2. Append(session[s], e) \in Seq(Events)
    BY <1>1, AppendProperties
  <2>3. Feed!TypeOK'
    BY <1>0, <2>1, <2>2 DEF Feed!TypeOK, Feed!QueueEvent
  <2>4. FeedCommitted'
    BY <1>0, <2>1 DEF FeedCommitted, Feed!QueueEvent
  <2>5. QED BY <2>1, <2>3, <2>4, FeedSocketsStay DEF Feed!QueueEvent
<1>3. CASE Feed!Rollback(s)
  <2>1. Feed!TypeOK'
    BY <1>0, <1>1, <1>3 DEF Feed!TypeOK, Feed!Rollback, Feed!NoEvents
  <2>2. FeedCommitted'
    BY <1>0, <1>3 DEF FeedCommitted, Feed!Rollback
  <2>3. QED BY <1>3, <2>1, <2>2, FeedSocketsStay DEF Feed!Rollback
<1>4. CASE Feed!Commit(s)
  <2>1. saved' = saved \cup Feed!ToSet(session[s]) /\ Feed!ToSet(session[s]) \subseteq Events
        /\ session[s] \in Seq(Feed!ToSet(session[s]))
    BY <1>1, <1>4, FeedSetOfSeq DEF Feed!Commit
  <2>2. Feed!TypeOK'
    BY <1>0, <1>1, <1>4, <2>1 DEF Feed!TypeOK, Feed!Commit, Feed!NoEvents
  <2>3. \A q : q \in Seq(saved) => q \in Seq(saved')
    BY <2>1, SeqMonotonic
  <2>4. session[s] \in Seq(saved')
    BY <2>1, SeqMonotonic
  <2>5. publishing' = [publishing EXCEPT ![s] = session[s]] /\ UNCHANGED <<loop, handed, socket>>
    BY <1>4 DEF Feed!Commit
  <2>6. \A x \in Servers : publishing'[x] = IF x = s THEN session[s] ELSE publishing[x]
    BY <1>0, <2>5 DEF Feed!TypeOK
  <2>7. FeedCommitted'
    BY <1>0, <2>3, <2>4, <2>5, <2>6 DEF FeedCommitted
  <2>8. QED BY <1>4, <2>2, <2>7, FeedSocketsStay DEF Feed!Commit
<1>5. QED BY <1>2, <1>3, <1>4

LEMMA FeedPublishKeeps == ASSUME FeedIInv, NEW s \in Servers, Feed!Publish(s) PROVE FeedIInv'
<1>0. /\ Feed!TypeOK /\ FeedCommitted /\ FeedLine /\ publishing[s] # <<>>
      /\ loop' = Append(loop, Head(publishing[s])) /\ handed' = Append(handed, Head(publishing[s]))
      /\ publishing' = [publishing EXCEPT ![s] = Tail(publishing[s])]
      /\ UNCHANGED <<session, saved, socket, missed>>
  BY DEF FeedIInv, Feed!Publish
<1> DEFINE e == Head(publishing[s])
<1>1. /\ publishing[s] \in Seq(saved) /\ loop \in Seq(saved) /\ handed \in Seq(saved) /\ saved \subseteq Events
      /\ publishing \in [Servers -> Seq(Events)]
  BY <1>0 DEF FeedCommitted, Feed!TypeOK
<1>2. e \in saved /\ Tail(publishing[s]) \in Seq(saved)
  BY <1>0, <1>1, HeadTailProperties
<1> HIDE DEF e
<1>3. /\ loop' \in Seq(saved) /\ Len(loop') = Len(loop) + 1 /\ loop'[Len(loop) + 1] = e
      /\ \A i \in 1..Len(loop) : loop'[i] = loop[i]
  BY <1>0, <1>1, <1>2, AppendProperties DEF e
<1>4. /\ handed' \in Seq(saved) /\ Len(handed') = Len(handed) + 1 /\ handed'[Len(handed) + 1] = e
      /\ \A i \in 1..Len(handed) : handed'[i] = handed[i]
  BY <1>0, <1>1, <1>2, AppendProperties DEF e
<1>5. \A x \in Servers : publishing'[x] = IF x = s THEN Tail(publishing[s]) ELSE publishing[x]
  BY <1>0, <1>1
<1>6. FeedCommitted'
  BY <1>0, <1>2, <1>3, <1>4, <1>5 DEF FeedCommitted
<1>7. \A q : q \in Seq(saved) => q \in Seq(Events)
  BY <1>1, SeqMonotonic
<1>8. Feed!TypeOK'
  <2>1. Tail(publishing[s]) \in Seq(Events) /\ loop' \in Seq(Events) /\ handed' \in Seq(Events)
    BY <1>2, <1>3, <1>4, <1>7
  <2>2. QED BY <1>0, <2>1 DEF Feed!TypeOK
<1>9. Len(loop) \in Nat /\ Len(handed) \in Nat
  BY <1>1, LenProperties
<1>10. FeedLine'
  <2>1. Len(loop') <= Len(handed')
    BY <1>0, <1>3, <1>4, <1>9 DEF FeedLine
  <2>2. ASSUME NEW i \in 1..Len(loop') PROVE loop'[i] = handed'[Len(handed') - Len(loop') + i]
    <3>1. CASE i = Len(loop) + 1
      <4>1. Len(handed') - Len(loop') + i = Len(handed) + 1
        BY <1>3, <1>4, <1>9, <3>1
      <4>2. QED BY <1>3, <1>4, <3>1, <4>1
    <3>2. CASE i \in 1..Len(loop)
      <4>1. Len(handed') - Len(loop') + i = Len(handed) - Len(loop) + i
            /\ Len(handed) - Len(loop) + i \in 1..Len(handed)
        BY <1>0, <1>3, <1>4, <1>9, <3>2 DEF FeedLine
      <4>2. QED BY <1>0, <1>3, <1>4, <3>2, <4>1 DEF FeedLine
    <3>3. QED BY <1>3, <1>9, <3>1, <3>2
  <2>3. QED BY <2>1, <2>2 DEF FeedLine
<1>11. \A k \in Sockets : (socket[k].state = "new" => FeedEmpty(k))'
  BY <1>0 DEF FeedIInv, FeedEmpty
<1>12. ASSUME NEW k \in Sockets, socket'[k].state = "open" PROVE FeedWants(k)' /\ FeedGets(k)'
  <2>1. FeedWants(k) /\ FeedGets(k) /\ socket'[k] = socket[k] /\ Feed!Sent(k)' = Feed!Sent(k) /\ missed' = missed
    BY <1>0, <1>12 DEF FeedIInv, Feed!Sent
  <2>2. FeedGets(k)'
    BY <2>1 DEF FeedGets
  <2>3. socket[k].wanted \in Seq(saved)
    BY <1>0 DEF FeedCommitted
  <2>4. Len(socket[k].wanted) \in Nat
    BY <2>3, LenProperties
  <2>5. Len(handed') - Len(loop') = Len(handed) - Len(loop)
    BY <1>3, <1>4, <1>9
  <2>10. Len(socket[k].wanted) + Len(loop') <= Len(handed')
    <3>1. Len(socket[k].wanted) + Len(loop) <= Len(handed)
      BY <2>1 DEF FeedWants
    <3>2. Len(loop') = Len(loop) + 1 /\ Len(handed') = Len(handed) + 1
      BY <1>3, <1>4
    <3>3. \A a, b, c \in Nat : a + b <= c => a + (b + 1) <= c + 1
      OBVIOUS
    <3>4. Len(socket[k].wanted) + (Len(loop) + 1) <= Len(handed) + 1
      BY <1>9, <2>4, <3>1, <3>3
    <3>5. QED BY <3>2, <3>4
  <2>6. ASSUME NEW i \in 1..Len(socket[k].wanted)
        PROVE  socket[k].wanted[i] = handed'[Len(handed') - Len(loop') - Len(socket[k].wanted) + i]
    <3>1. Len(handed) - Len(loop) - Len(socket[k].wanted) + i \in 1..Len(handed)
      BY <1>9, <2>1, <2>4 DEF FeedWants
    <3>2. QED BY <1>4, <2>1, <2>5, <3>1 DEF FeedWants
  <2>7. FeedWants(k)'
    BY <2>1, <2>6, <2>10 DEF FeedWants
  <2>8. QED BY <2>2, <2>7
<1>13. QED BY <1>6, <1>8, <1>10, <1>11, <1>12 DEF FeedIInv

(* What a delivery makes of an open socket.                                *)
LEMMA FeedDelivered ==
    ASSUME Feed!TypeOK, NEW k \in Sockets, socket[k].state = "open", NEW e, NEW reached,
           socket'[k] = [socket[k] EXCEPT !.wanted = Append(@, e), !.queue = IF k \in reached THEN Feed!Put(k, e) ELSE @]
    PROVE  /\ socket'[k].state = "open" /\ socket'[k].got = socket[k].got
           /\ socket'[k].wanted = Append(socket[k].wanted, e)
           /\ socket'[k].queue = IF k \in reached THEN Append(socket[k].queue, e) ELSE socket[k].queue
           /\ socket'[k] = [state |-> "open", queue |-> socket'[k].queue, got |-> socket'[k].got,
                            wanted |-> socket'[k].wanted]
<1>1. PICK q, g, w : q = socket[k].queue /\ g = socket[k].got /\ w = socket[k].wanted
  OBVIOUS
<1>2. PICK held : held = socket[k]
  OBVIOUS
<1>3. held = [state |-> "open", queue |-> q, got |-> g, wanted |-> w]
  BY <1>1, <1>2 DEF Feed!TypeOK, Feed!Socket
<1>4. PICK p, x : p = (IF k \in reached THEN Feed!Put(k, e) ELSE q) /\ x = Append(w, e)
  OBVIOUS
<1>5. socket'[k] = [held EXCEPT !.wanted = x, !.queue = p]
  BY <1>1, <1>2, <1>4
<1>6. [held EXCEPT !.wanted = x, !.queue = p] = [state |-> "open", queue |-> p, got |-> g, wanted |-> x]
  <2>1. PICK half : half = [held EXCEPT !.wanted = x]
    OBVIOUS
  <2>2. half = [state |-> "open", queue |-> q, got |-> g, wanted |-> x]
    BY <1>3, <2>1
  <2>3. [half EXCEPT !.queue = p] = [state |-> "open", queue |-> p, got |-> g, wanted |-> x]
    BY <2>2
  <2>4. [held EXCEPT !.wanted = x, !.queue = p] = [half EXCEPT !.queue = p]
    BY <2>1
  <2>5. QED BY <2>3, <2>4
<1>7. socket'[k] = [state |-> "open", queue |-> p, got |-> g, wanted |-> x]
  BY <1>5, <1>6
<1>8. QED BY <1>1, <1>4, <1>7 DEF Feed!Put

LEMMA FeedDeliverKeeps == ASSUME FeedBounds, FeedIInv, Feed!Deliver PROVE FeedIInv'
<1> DEFINE e == Head(loop)
           subs == {k \in Sockets : socket[k].state = "open"}
           full == {k \in subs : Feed!Full(k)}
<1>1. PICK reached \in SUBSET (subs \ full) :
          /\ full = {} => reached = subs
          /\ socket' = [k \in Sockets |->
                 IF k \notin subs THEN socket[k]
                 ELSE [socket[k] EXCEPT !.wanted = Append(@, e),
                                        !.queue = IF k \in reached THEN Feed!Put(k, e) ELSE @]]
          /\ missed' = IF full = {} THEN missed ELSE missed \cup {e}
  BY DEF Feed!Deliver
<1>2. /\ Feed!TypeOK /\ FeedCommitted /\ FeedLine
      /\ loop # <<>> /\ loop' = Tail(loop) /\ UNCHANGED <<session, publishing, handed, saved>>
  BY DEF FeedIInv, Feed!Deliver
<1>3. /\ loop \in Seq(saved) /\ handed \in Seq(saved) /\ saved \subseteq Events
      /\ socket \in [Sockets -> Feed!Socket] /\ missed \subseteq Events
  BY <1>2 DEF Feed!TypeOK, FeedCommitted
<1>4. /\ e \in saved /\ loop' \in Seq(saved) /\ Len(loop') = Len(loop) - 1
      /\ \A i \in 1..Len(loop') : loop'[i] = loop[i + 1]
  BY <1>2, <1>3, HeadTailProperties
<1>5. e = loop[1] /\ Len(loop) \in Nat \ {0} /\ Len(handed) \in Nat
  BY <1>2, <1>3, EmptySeq, LenProperties
<1>6. missed \subseteq missed' /\ missed' \subseteq Events
  BY <1>1, <1>3, <1>4
<1>7. ASSUME NEW k \in Sockets
      PROVE  /\ socket[k].state \in {"new", "open", "closed"}
             /\ socket[k].queue \in Seq(saved) /\ socket[k].got \in Seq(saved) /\ socket[k].wanted \in Seq(saved)
             /\ Len(socket[k].queue) \in Nat /\ Len(socket[k].queue) <= QueueSize
             /\ Len(socket[k].wanted) \in Nat
             /\ socket[k] = [state |-> socket[k].state, queue |-> socket[k].queue, got |-> socket[k].got,
                             wanted |-> socket[k].wanted]
  <2>1. socket[k] \in Feed!Socket /\ Len(socket[k].queue) <= QueueSize
    BY <1>2, <1>3 DEF Feed!TypeOK
  <2>2. socket[k].queue \in Seq(saved) /\ socket[k].got \in Seq(saved) /\ socket[k].wanted \in Seq(saved)
    BY <1>2 DEF FeedCommitted
  <2>3. QED BY <2>1, <2>2, LenProperties DEF Feed!Socket
<1>8. ASSUME NEW k \in Sockets, k \notin subs PROVE socket'[k] = socket[k]
  BY <1>1, <1>8
<1> HIDE DEF e
<1>9. ASSUME NEW k \in subs
      PROVE  /\ socket'[k].state = "open" /\ socket'[k].got = socket[k].got
             /\ socket'[k].wanted = Append(socket[k].wanted, e)
             /\ socket'[k].queue = IF k \in reached THEN Append(socket[k].queue, e) ELSE socket[k].queue
             /\ socket'[k] = [state |-> "open", queue |-> socket'[k].queue, got |-> socket'[k].got,
                              wanted |-> socket'[k].wanted]
  <2>1. /\ k \in Sockets /\ socket[k].state = "open"
        /\ socket'[k] = [socket[k] EXCEPT !.wanted = Append(@, e), !.queue = IF k \in reached THEN Feed!Put(k, e) ELSE @]
    BY <1>1, <1>9
  <2>2. QED BY <1>2, <2>1, FeedDelivered
<1>10. ASSUME NEW k \in subs
       PROVE  /\ socket'[k].got \in Seq(saved) /\ socket'[k].wanted \in Seq(saved) /\ socket'[k].queue \in Seq(saved)
              /\ Len(socket'[k].queue) <= QueueSize
  <2>0. \A q \in Seq(saved) : Append(q, e) \in Seq(saved) /\ Len(Append(q, e)) = Len(q) + 1
    BY <1>4, AppendProperties
  <2>1. socket'[k].got \in Seq(saved) /\ socket'[k].wanted \in Seq(saved)
    BY <1>7, <1>9, <1>10, <2>0
  <2>2. CASE k \in reached
    <3>1. Len(socket[k].queue) # QueueSize
      BY <1>1, <2>2 DEF Feed!Full
    <3>2. Append(socket[k].queue, e) \in Seq(saved) /\ Len(Append(socket[k].queue, e)) = Len(socket[k].queue) + 1
      BY <1>7, <1>10, <2>0
    <3>3. Len(socket[k].queue) + 1 <= QueueSize
      <4>1. \A a, b \in Nat : a <= b /\ a # b => a + 1 <= b
        OBVIOUS
      <4>2. Len(socket[k].queue) \in Nat /\ Len(socket[k].queue) <= QueueSize
        BY <1>7, <1>10
      <4>3. QED BY <3>1, <4>1, <4>2 DEF FeedBounds
    <3>4. QED BY <1>9, <1>10, <2>1, <2>2, <3>2, <3>3
  <2>3. CASE k \notin reached
    <3>1. socket'[k].queue = socket[k].queue
      BY <1>9, <2>3
    <3>2. QED BY <1>7, <1>10, <2>1, <3>1
  <2>4. QED BY <2>2, <2>3
<1>11. FeedCommitted'
  <2>1. \A k \in Sockets : socket'[k].queue \in Seq(saved) /\ socket'[k].got \in Seq(saved)
                           /\ socket'[k].wanted \in Seq(saved)
    BY <1>7, <1>8, <1>10
  <2>2. QED BY <1>2, <1>4, <2>1 DEF FeedCommitted
<1>12. Feed!TypeOK'
  <2>1. \A q : q \in Seq(saved) => q \in Seq(Events)
    BY <1>3, SeqMonotonic
  <2>2. ASSUME NEW k \in Sockets PROVE socket'[k] \in Feed!Socket /\ Len(socket'[k].queue) <= QueueSize
    <3>1. CASE k \in subs
      <4>1. /\ socket'[k].queue \in Seq(Events) /\ socket'[k].got \in Seq(Events)
            /\ socket'[k].wanted \in Seq(Events) /\ Len(socket'[k].queue) <= QueueSize
        BY <1>10, <2>1, <3>1
      <4>2. socket'[k] = [state |-> "open", queue |-> socket'[k].queue, got |-> socket'[k].got,
                          wanted |-> socket'[k].wanted]
        BY <1>9, <3>1
      <4>3. QED BY <4>1, <4>2 DEF Feed!Socket
    <3>2. CASE k \notin subs
      BY <1>2, <1>8, <3>2 DEF Feed!TypeOK
    <3>3. QED BY <3>1, <3>2
  <2>3. socket' \in [Sockets -> Feed!Socket]
    <3>1. socket' = [k \in Sockets |-> socket'[k]]
      BY <1>1
    <3>2. QED BY <2>2, <3>1
  <2>4. loop' \in Seq(Events)
    BY <1>4, <2>1
  <2>5. QED BY <1>2, <1>6, <2>2, <2>3, <2>4 DEF Feed!TypeOK
<1>13. FeedLine'
  <2>1. Len(loop') <= Len(handed)
    BY <1>2, <1>4, <1>5 DEF FeedLine
  <2>2. ASSUME NEW i \in 1..Len(loop') PROVE loop'[i] = handed[Len(handed) - Len(loop') + i]
    <3>1. i + 1 \in 1..Len(loop) /\ Len(handed) - Len(loop') + i = Len(handed) - Len(loop) + (i + 1)
      BY <1>4, <1>5
    <3>2. QED BY <1>2, <1>4, <3>1 DEF FeedLine
  <2>3. QED BY <1>2, <2>1, <2>2 DEF FeedLine
<1>14. \A k \in Sockets : (socket[k].state = "new" => FeedEmpty(k))'
  <2>1. ASSUME NEW k \in Sockets, socket'[k].state = "new" PROVE FeedEmpty(k)'
    <3>1. k \notin subs
      BY <1>9, <2>1
    <3>2. socket'[k] = socket[k]
      BY <1>8, <3>1
    <3>3. FeedEmpty(k)
      BY <2>1, <3>2 DEF FeedIInv
    <3>4. QED BY <3>2, <3>3 DEF FeedEmpty
  <2>2. QED BY <2>1
<1>15. ASSUME NEW k \in Sockets, socket'[k].state = "open" PROVE FeedWants(k)' /\ FeedGets(k)'
  <2>1. k \in subs
    BY <1>8, <1>15
  <2>2. FeedWants(k) /\ FeedGets(k)
    BY <2>1 DEF FeedIInv
  <2>3. /\ socket'[k].wanted = Append(socket[k].wanted, e) /\ Len(socket'[k].wanted) = Len(socket[k].wanted) + 1
        /\ \A i \in 1..Len(socket[k].wanted) : socket'[k].wanted[i] = socket[k].wanted[i]
        /\ socket'[k].wanted[Len(socket[k].wanted) + 1] = e
    <3>1. socket'[k].wanted = Append(socket[k].wanted, e)
      BY <1>9, <2>1
    <3>2. socket[k].wanted \in Seq(saved)
      BY <1>7
    <3>3. QED BY <1>4, <3>1, <3>2, AppendProperties
  <2>4. FeedWants(k)'
    <3> DEFINE n == Len(socket[k].wanted)
               h == Len(handed)
               l == Len(loop)
    <3>0. n \in Nat /\ h \in Nat /\ l \in Nat \ {0} /\ n + l <= h /\ Len(loop') = l - 1
          /\ Len(socket'[k].wanted) = n + 1 /\ Len(handed') = h /\ l <= h
      BY <1>2, <1>4, <1>5, <1>7, <2>2, <2>3 DEF FeedWants, FeedLine
    <3>1. handed[h - l + 1] = e
      <4>1. 1 \in 1..l
        BY <3>0
      <4>2. QED BY <1>2, <1>5, <4>1 DEF FeedLine
    <3>2. \A i \in 1..n : socket[k].wanted[i] = handed[h - l - n + i]
      BY <2>2 DEF FeedWants
    <3> HIDE DEF n, h, l
    <3>3. \A i \in 1..n : h - l - n + i = h - (l - 1) - (n + 1) + i
      BY <3>0
    <3>4. (\A i \in 1..n + 1 : i = n + 1 \/ i \in 1..n) /\ h - (l - 1) - (n + 1) + (n + 1) = h - l + 1
      BY <3>0
    <3>5. ASSUME NEW i \in 1..n + 1 PROVE socket'[k].wanted[i] = handed[h - (l - 1) - (n + 1) + i]
      <4>1. CASE i = n + 1
        BY <2>3, <3>1, <3>4, <4>1 DEF n
      <4>2. CASE i \in 1..n
        BY <2>3, <3>2, <3>3, <4>2 DEF n
      <4>3. QED BY <3>4, <4>1, <4>2
    <3>6. (n + 1) + (l - 1) <= h
      BY <3>0
    <3>7. QED BY <1>2, <3>0, <3>5, <3>6 DEF FeedWants
  <2>5. PICK some, all : some = Feed!Sent(k) /\ all = socket[k].wanted
    OBVIOUS
  <2>6. some \in Seq(saved) /\ all \in Seq(saved) /\ FeedComplete(some, all, missed)
        /\ socket'[k].wanted = Append(all, e)
    <3>1. socket[k].got \in Seq(saved) /\ socket[k].queue \in Seq(saved) /\ socket[k].wanted \in Seq(saved)
      BY <1>7
    <3>2. Feed!Sent(k) \in Seq(saved)
      BY <3>1, ConcatProperties DEF Feed!Sent
    <3>3. QED BY <2>2, <2>3, <2>5, <3>1, <3>2 DEF FeedGets
  <2>7. CASE k \in reached
    <3>1. PICK g, q : g = socket[k].got /\ q = socket[k].queue
      OBVIOUS
    <3>2. g \in Seq(saved) /\ q \in Seq(saved) /\ some = g \o q
      BY <1>7, <2>5, <3>1 DEF Feed!Sent
    <3>3. g \o Append(q, e) = Append(some, e)
      BY <1>4, <3>2, FeedPutSame
    <3>4. Feed!Sent(k)' = Append(some, e)
      BY <1>9, <2>1, <2>7, <3>1, <3>3 DEF Feed!Sent
    <3>5. FeedComplete(Append(some, e), Append(all, e), missed)
      BY <1>4, <2>6, FeedTakes
    <3>6. FeedComplete(Append(some, e), Append(all, e), missed')
      BY <1>6, <3>5 DEF FeedComplete
    <3>7. FeedGets(k)'
      BY <2>6, <3>4, <3>6 DEF FeedGets
    <3>8. QED BY <2>4, <3>7
  <2>8. CASE k \notin reached
    <3>1. Feed!Sent(k)' = some
      BY <1>9, <2>1, <2>5, <2>8 DEF Feed!Sent
    <3>2. missed' = missed \cup {e}
      BY <1>1, <2>1, <2>8
    <3>3. FeedComplete(some, Append(all, e), missed \cup {e})
      BY <1>4, <2>6, FeedMisses
    <3>4. FeedGets(k)'
      BY <2>6, <3>1, <3>2, <3>3 DEF FeedGets
    <3>5. QED BY <2>4, <3>4
  <2>9. QED BY <2>7, <2>8
<1>16. QED BY <1>11, <1>12, <1>13, <1>14, <1>15 DEF FeedIInv

(* A step of one socket keeps the invariant if it keeps what that socket   *)
(* wants and is sent.                                                      *)
LEMMA FeedSocketKeeps ==
    ASSUME FeedIInv, NEW k \in Sockets, NEW into \in Feed!Socket, socket' = [socket EXCEPT ![k] = into],
           UNCHANGED <<session, publishing, loop, handed, saved, missed>>,
           into.queue \in Seq(saved), into.got \in Seq(saved), into.wanted = socket[k].wanted,
           Len(into.queue) <= QueueSize, into.state # "new",
           into.state = "open" => (FeedWants(k) /\ FeedGets(k))'
    PROVE  FeedIInv'
<1>0. Feed!TypeOK /\ FeedCommitted /\ FeedLine /\ socket \in [Sockets -> Feed!Socket]
  BY DEF FeedIInv, Feed!TypeOK
<1>1. socket'[k] = into /\ \A x \in Sockets : x # k => socket'[x] = socket[x]
  BY <1>0
<1>2. Feed!TypeOK'
  <2>1. socket' \in [Sockets -> Feed!Socket]
    BY <1>0
  <2>2. \A x \in Sockets : Len(socket'[x].queue) <= QueueSize
    BY <1>0, <1>1 DEF Feed!TypeOK
  <2>3. QED BY <1>0, <2>1, <2>2 DEF Feed!TypeOK
<1>3. FeedCommitted'
  BY <1>0, <1>1 DEF FeedCommitted
<1>4. FeedLine'
  BY <1>0 DEF FeedLine
<1>5. ASSUME NEW x \in Sockets
      PROVE  /\ socket'[x].state = "new" => FeedEmpty(x)'
             /\ socket'[x].state = "open" => FeedWants(x)' /\ FeedGets(x)'
  <2>1. CASE x = k
    BY <1>1, <2>1
  <2>2. CASE x # k
    <3>1. socket'[x] = socket[x] /\ Feed!Sent(x)' = Feed!Sent(x)
      BY <1>1, <2>2 DEF Feed!Sent
    <3>2. socket[x].state = "new" => FeedEmpty(x)
      BY DEF FeedIInv
    <3>3. socket[x].state = "open" => FeedWants(x) /\ FeedGets(x)
      BY DEF FeedIInv
    <3>4. FeedEmpty(x) => FeedEmpty(x)'
      BY <3>1 DEF FeedEmpty
    <3>5. FeedWants(x) => FeedWants(x)'
      BY <3>1 DEF FeedWants
    <3>6. FeedGets(x) => FeedGets(x)'
      BY <3>1 DEF FeedGets
    <3>7. QED BY <3>1, <3>2, <3>3, <3>4, <3>5, <3>6
  <2>3. QED BY <2>1, <2>2
<1>6. QED BY <1>2, <1>3, <1>4, <1>5 DEF FeedIInv

LEMMA FeedSubscribeKeeps ==
    ASSUME FeedBounds, FeedIInv, NEW k \in Sockets, Feed!Subscribe(k)
    PROVE FeedIInv'
<1>1. /\ socket[k].state = "new" /\ socket[k] \in Feed!Socket /\ socket \in [Sockets -> Feed!Socket]
      /\ socket' = [socket EXCEPT ![k].state = "open"]
      /\ UNCHANGED <<session, publishing, loop, handed, saved, missed>> /\ FeedCommitted /\ FeedLine
  BY DEF FeedIInv, Feed!TypeOK, Feed!Subscribe
<1>2. FeedEmpty(k)
  BY <1>1 DEF FeedIInv
<1>3. PICK into : into = [state |-> "open", queue |-> <<>>, got |-> <<>>, wanted |-> <<>>]
  OBVIOUS
<1>4. socket[k] = [state |-> "new", queue |-> <<>>, got |-> <<>>, wanted |-> <<>>]
  BY <1>1, <1>2 DEF Feed!Socket, FeedEmpty
<1>5. socket' = [socket EXCEPT ![k] = into]
  <2>1. PICK held : held = socket[k]
    OBVIOUS
  <2>2. socket' = [socket EXCEPT ![k] = [held EXCEPT !.state = "open"]]
    BY <1>1, <2>1
  <2>3. [held EXCEPT !.state = "open"] = into
    BY <1>3, <1>4, <2>1
  <2>4. QED BY <2>2, <2>3
<1>6. \A S : <<>> \in Seq(S)
  OBVIOUS
<1>7. into \in Feed!Socket /\ into.state = "open" /\ Len(into.queue) = 0
      /\ into.queue = <<>> /\ into.got = <<>> /\ into.wanted = <<>>
  BY <1>3, <1>6 DEF Feed!Socket
<1>8. socket'[k] = into
  BY <1>1, <1>5
<1>9. FeedWants(k)'
  <2>1. Len(loop) <= Len(handed) /\ Len(loop) \in Nat /\ Len(handed) \in Nat
    BY <1>1, LenProperties DEF FeedLine, FeedCommitted
  <2>2. Len(socket'[k].wanted) = 0 /\ Len(loop') = Len(loop) /\ Len(handed') = Len(handed)
    BY <1>1, <1>7, <1>8
  <2>3. Len(socket'[k].wanted) + Len(loop') <= Len(handed')
    BY <2>1, <2>2
  <2>4. 1..0 = {}
    OBVIOUS
  <2>5. QED BY <2>2, <2>3, <2>4 DEF FeedWants
<1>10. FeedGets(k)'
  <2>1. Feed!Sent(k)' = <<>> \o <<>>
    BY <1>7, <1>8 DEF Feed!Sent
  <2>2. Feed!Sent(k)' = <<>>
    BY <2>1, <1>6, ConcatEmptySeq
  <2>3. FeedComplete(<<>>, <<>>, missed')
    <3>1. Len(<<>>) = 0 /\ 1..0 = {}
      OBVIOUS
    <3>2. [i \in 1..0 |-> 0] \in [1..0 -> 1..0]
      BY <3>1
    <3>3. Feed!InOrder([i \in 1..0 |-> 0], <<>>, <<>>)
      BY <3>1 DEF Feed!InOrder
    <3>4. Feed!LeftOut([i \in 1..0 |-> 0], <<>>, <<>>) \subseteq missed'
      BY <3>1 DEF Feed!LeftOut
    <3>5. QED BY <3>1, <3>2, <3>3, <3>4 DEF FeedComplete
  <2>4. QED BY <1>7, <1>8, <2>2, <2>3 DEF FeedGets
<1>11. into.queue \in Seq(saved) /\ into.got \in Seq(saved) /\ into.wanted = socket[k].wanted
       /\ Len(into.queue) <= QueueSize /\ into.state # "new"
  BY <1>2, <1>6, <1>7 DEF FeedEmpty, FeedBounds
<1>12. QED BY <1>1, <1>5, <1>7, <1>9, <1>10, <1>11, FeedSocketKeeps

LEMMA FeedPumpKeeps == ASSUME FeedBounds, FeedIInv, NEW k \in Sockets, Feed!Pump(k) PROVE FeedIInv'
<1>1. /\ socket[k].state = "open" /\ socket[k] \in Feed!Socket /\ socket \in [Sockets -> Feed!Socket]
      /\ socket[k].queue # <<>> /\ Len(socket[k].queue) <= QueueSize
      /\ socket' = [socket EXCEPT ![k].got = Append(@, Head(socket[k].queue)), ![k].queue = Tail(@)]
      /\ UNCHANGED <<session, publishing, loop, handed, saved, missed>>
      /\ FeedCommitted /\ FeedLine /\ FeedWants(k) /\ FeedGets(k) /\ saved \subseteq Events
  BY DEF FeedIInv, Feed!TypeOK, Feed!Pump
<1>2. PICK q, g, w : q = socket[k].queue /\ g = socket[k].got /\ w = socket[k].wanted
  OBVIOUS
<1>3. q \in Seq(saved) /\ g \in Seq(saved) /\ w \in Seq(saved) /\ q # <<>>
  BY <1>1, <1>2 DEF FeedCommitted
<1>4. socket[k] = [state |-> "open", queue |-> q, got |-> g, wanted |-> w]
  BY <1>1, <1>2 DEF Feed!Socket
<1>5. PICK into : into = [state |-> "open", queue |-> Tail(q), got |-> Append(g, Head(q)), wanted |-> w]
  OBVIOUS
<1>6. socket' = [socket EXCEPT ![k] = into]
  BY <1>1, <1>2, <1>4, <1>5
<1>7. Head(q) \in saved /\ Tail(q) \in Seq(saved) /\ Len(Tail(q)) = Len(q) - 1
  BY <1>3, HeadTailProperties
<1>8. Append(g, Head(q)) \in Seq(saved)
  BY <1>3, <1>7, AppendProperties
<1>9. /\ into.state = "open" /\ into.queue = Tail(q) /\ into.got = Append(g, Head(q)) /\ into.wanted = w
  BY <1>5
<1>10. into \in Feed!Socket
  <2>1. \A x : x \in Seq(saved) => x \in Seq(Events)
    BY <1>1, SeqMonotonic
  <2>2. QED BY <1>3, <1>5, <1>7, <1>8, <2>1 DEF Feed!Socket
<1>11. Len(Tail(q)) <= QueueSize
  <2>1. Len(q) \in Nat
    BY <1>3, LenProperties
  <2>2. Len(q) <= QueueSize
    BY <1>1, <1>2
  <2>3. QED BY <1>7, <2>1, <2>2 DEF FeedBounds
<1>12. socket'[k] = into
  BY <1>1, <1>6
<1>13. FeedWants(k)'
  <2>1. socket'[k].wanted = socket[k].wanted /\ loop' = loop /\ handed' = handed
    BY <1>1, <1>2, <1>9, <1>12
  <2>2. QED BY <1>1, <2>1 DEF FeedWants
<1>14. FeedGets(k)'
  <2>1. Append(g, Head(q)) \o Tail(q) = g \o q
    BY <1>3, FeedPumpSame
  <2>2. Feed!Sent(k)' = Feed!Sent(k)
    BY <1>2, <1>9, <1>12, <2>1 DEF Feed!Sent
  <2>3. socket'[k].wanted = socket[k].wanted /\ missed' = missed
    BY <1>1, <1>2, <1>9, <1>12
  <2>4. QED BY <1>1, <2>2, <2>3 DEF FeedGets
<1>15. into.wanted = socket[k].wanted /\ into.queue \in Seq(saved) /\ into.got \in Seq(saved)
       /\ Len(into.queue) <= QueueSize /\ into.state # "new"
  BY <1>2, <1>7, <1>8, <1>9, <1>11
<1>16. QED BY <1>1, <1>6, <1>10, <1>13, <1>14, <1>15, FeedSocketKeeps

LEMMA FeedUnsubscribeKeeps ==
    ASSUME FeedBounds, FeedIInv, NEW k \in Sockets, Feed!Unsubscribe(k)
    PROVE FeedIInv'
<1>1. /\ socket[k].state = "open" /\ socket[k] \in Feed!Socket /\ socket \in [Sockets -> Feed!Socket]
      /\ socket' = [socket EXCEPT ![k].state = "closed", ![k].queue = <<>>]
      /\ UNCHANGED <<session, publishing, loop, handed, saved, missed>> /\ FeedCommitted
  BY DEF FeedIInv, Feed!TypeOK, Feed!Unsubscribe
<1>2. PICK q, g, w : q = socket[k].queue /\ g = socket[k].got /\ w = socket[k].wanted
  OBVIOUS
<1>3. socket[k] = [state |-> "open", queue |-> q, got |-> g, wanted |-> w] /\ g \in Seq(saved)
  BY <1>1, <1>2 DEF Feed!Socket, FeedCommitted
<1>4. PICK into : into = [state |-> "closed", queue |-> <<>>, got |-> g, wanted |-> w]
  OBVIOUS
<1>5. socket' = [socket EXCEPT ![k] = into]
  <2>1. PICK held : held = socket[k]
    OBVIOUS
  <2>2. socket' = [socket EXCEPT ![k] = [held EXCEPT !.state = "closed", !.queue = <<>>]]
    BY <1>1, <2>1
  <2>3. [held EXCEPT !.state = "closed", !.queue = <<>>] = into
    <3>1. PICK half : half = [held EXCEPT !.state = "closed"]
      OBVIOUS
    <3>2. half = [state |-> "closed", queue |-> q, got |-> g, wanted |-> w]
      BY <1>3, <2>1, <3>1
    <3>3. [half EXCEPT !.queue = <<>>] = into
      BY <1>4, <3>2
    <3>4. [held EXCEPT !.state = "closed", !.queue = <<>>] = [half EXCEPT !.queue = <<>>]
      BY <3>1
    <3>5. QED BY <3>3, <3>4
  <2>4. QED BY <2>2, <2>3
<1>6. \A S : <<>> \in Seq(S)
  OBVIOUS
<1>7. into \in Feed!Socket
  BY <1>1, <1>2, <1>4, <1>6 DEF Feed!Socket
<1>8. into.wanted = socket[k].wanted /\ into.queue \in Seq(saved) /\ into.got \in Seq(saved)
      /\ Len(into.queue) <= QueueSize /\ into.state # "new" /\ into.state # "open"
  BY <1>2, <1>3, <1>4, <1>6 DEF FeedBounds
<1>9. QED BY <1>1, <1>5, <1>7, <1>8, FeedSocketKeeps

LEMMA FeedNextIInv == ASSUME FeedBounds, FeedIInv, [Feed!Next]_Feed!vars PROVE FeedIInv'
<1>1. CASE UNCHANGED Feed!vars
  <2>1. Feed!TypeOK'
    BY <1>1 DEF FeedIInv, Feed!TypeOK, Feed!vars
  <2>2. FeedCommitted'
    BY <1>1 DEF FeedIInv, FeedCommitted, Feed!vars
  <2>3. QED BY <1>1, <2>1, <2>2, FeedSocketsStay DEF Feed!vars
<1>2. ASSUME NEW s \in Servers, Feed!Commit(s) \/ Feed!Rollback(s) \/ \E e \in Events : Feed!QueueEvent(s, e) PROVE FeedIInv'
  BY <1>2, FeedSessionKeeps
<1>3. ASSUME NEW s \in Servers, Feed!Publish(s) PROVE FeedIInv'
  BY <1>3, FeedPublishKeeps
<1>4. CASE Feed!Deliver
  BY <1>4, FeedDeliverKeeps
<1>5. ASSUME NEW k \in Sockets, Feed!Subscribe(k) \/ Feed!Pump(k) \/ Feed!Unsubscribe(k) PROVE FeedIInv'
  BY <1>5, FeedSubscribeKeeps, FeedPumpKeeps, FeedUnsubscribeKeeps
<1>6. QED BY <1>1, <1>2, <1>3, <1>4, <1>5 DEF Feed!Next

LEMMA FeedHolds == ASSUME FeedIInv PROVE Feed!TypeOK /\ Feed!EventsReach
<1>1. ASSUME NEW k \in Sockets, socket[k].state = "open" PROVE Feed!OnlyTheMissed(k)
  <2>1. FeedWants(k) /\ FeedGets(k) /\ FeedCommitted /\ FeedLine
    BY <1>1 DEF FeedIInv
  <2>2. PICK g, q, w : g = socket[k].got /\ q = socket[k].queue /\ w = socket[k].wanted
    OBVIOUS
  <2>3. g \in Seq(saved) /\ q \in Seq(saved) /\ w \in Seq(saved) /\ handed \in Seq(saved) /\ loop \in Seq(saved)
    BY <2>1, <2>2 DEF FeedCommitted
  <2>4. Feed!ToSet(Feed!Sent(k)) \subseteq saved
    <3>1. g \o q \in Seq(saved)
      BY <2>3, ConcatProperties
    <3>2. QED BY <2>2, <3>1, FeedSetOfSeq DEF Feed!Sent
  <2>5. PICK n, h, l : n = Len(w) /\ h = Len(handed) /\ l = Len(loop)
    OBVIOUS
  <2>6. n \in Nat /\ h \in Nat /\ l \in Nat /\ n + l <= h
    BY <2>1, <2>2, <2>3, <2>5, LenProperties DEF FeedWants
  <2>7. \A i \in 1..n : w[i] = handed[h - l - n + i]
    BY <2>1, <2>2, <2>5 DEF FeedWants
  <2>8. h - l - n + 1 \in Int /\ h - l \in Int /\ (h - l) - (h - l - n + 1) + 1 = n
        /\ \A i \in (h - l - n + 1)..(h - l) : i \in 1..h
    BY <2>6
  <2>9. PICK a, b : a = h - l - n + 1 /\ b = h - l
    OBVIOUS
  <2>10. a \in Int /\ b \in Int /\ b - a + 1 = n /\ \A i \in a..b : handed[i] \in saved
    BY <2>3, <2>5, <2>8, <2>9, ElementOfSeq
  <2>11. PICK cut : cut = SubSeq(handed, a, b)
    OBVIOUS
  <2>12. /\ cut \in Seq(saved) /\ Len(cut) = IF a <= b THEN b - a + 1 ELSE 0
         /\ \A i \in 1..b - a + 1 : cut[i] = handed[a + i - 1]
    BY <2>10, <2>11, SubSeqProperties
  <2>13. Len(cut) = n
    BY <2>6, <2>9, <2>10, <2>12
  <2>14. \A i \in 1..n : a + i - 1 = h - l - n + i
    BY <2>6, <2>9
  <2>15. \A i \in 1..Len(w) : w[i] = cut[i]
    BY <2>5, <2>7, <2>10, <2>12, <2>14
  <2>16. w = cut
    BY <2>3, <2>5, <2>12, <2>13, <2>15, SeqEqual
  <2>17. \E at \in [1..Len(Feed!Sent(k)) -> 1..Len(socket[k].wanted)] :
             Feed!InOrder(at, Feed!Sent(k), socket[k].wanted) /\ Feed!LeftOut(at, Feed!Sent(k), socket[k].wanted) \subseteq missed
    BY <2>1 DEF FeedGets, FeedComplete
  <2>18. QED BY <2>2, <2>4, <2>5, <2>9, <2>11, <2>16, <2>17 DEF Feed!OnlyTheMissed
<1>2. QED BY <1>1 DEF Feed!EventsReach, FeedIInv

(* A behaviour of the composition is one of Realtime, with steps that      *)
(* leave it alone.                                                         *)
LEMMA FeedSpec == ExchangeSpec => Feed!Spec
<1>1. ExchangeInit => Feed!Init
  BY DEF ExchangeInit
<1>2. [ExchangeNext]_exchangeVars => [Feed!Next]_Feed!vars
  BY DEF ExchangeNext, exchangeVars, eventVars, Feed!vars
<1>3. QED BY <1>1, <1>2, PTL DEF ExchangeSpec, Feed!Spec

LEMMA FeedInvariant == ExchangeSpec => []FeedIInv
<1>1. Feed!Init => FeedIInv
  BY FeedInitIInv, BoundsAssumption DEF FeedBounds
<1>2. FeedIInv /\ [Feed!Next]_Feed!vars => FeedIInv'
  BY FeedNextIInv, BoundsAssumption DEF FeedBounds
<1>3. QED BY <1>1, <1>2, FeedSpec, PTL DEF Feed!Spec

(* However commits, rollbacks, subscriptions and slow sockets interleave:  *)
(* every socket gets the events delivered since it subscribed, in order,   *)
(* but for those a full queue dropped.                                     *)
THEOREM EventsReachAlways == ExchangeSpec => []EventsReach
<1>1. FeedIInv => EventsReach
  BY FeedHolds DEF EventsReach
<1>2. QED BY <1>1, FeedInvariant, PTL

(* EventLine: what sockets listen to.                                      *)

(* Sequences: what is taken off the middle of a line, and its beginning.   *)
LEMMA FeedTakenOff ==
    ASSUME NEW S, NEW q \in Seq(S), NEW l \in Seq(S), l # <<>>
    PROVE  /\ Len(q) + 1 \in 1..Len(q \o l) /\ (q \o l)[Len(q) + 1] = Head(l)
           /\ q \o Tail(l) = Feed!Line!RemoveAt(q \o l, Len(q) + 1)
<1>1. /\ Head(l) = l[1] /\ Tail(l) \in Seq(S) /\ Len(l) \in Nat \ {0} /\ Len(q) \in Nat
      /\ Tail(l) = SubSeq(l, 2, Len(l)) /\ Len(Tail(l)) = Len(l) - 1
      /\ \A i \in 1..Len(Tail(l)) : Tail(l)[i] = l[i + 1]
  BY HeadTailProperties, EmptySeq, LenProperties, TailIsSubSeq
<1> DEFINE n == Len(q)
           m == Len(l)
           all == q \o l
           front == SubSeq(all, 1, n)
           rear == SubSeq(all, n + 2, n + m)
<1>2. /\ all \in Seq(S) /\ Len(all) = n + m
      /\ \A i \in 1..n + m : all[i] = IF i <= n THEN q[i] ELSE l[i - n]
  BY ConcatProperties
<1>3. n \in Nat /\ m \in Nat /\ m >= 1
  BY <1>1
<1> HIDE DEF n, m, all
<1>4. n + 1 \in 1..n + m /\ all[n + 1] = l[1]
  <2>1. n + 1 \in 1..n + m /\ ~(n + 1 <= n) /\ (n + 1) - n = 1
    BY <1>3
  <2>2. QED BY <1>2, <2>1
<1>5. \A i \in 1..n + m : all[i] \in S
  BY <1>2, ElementOfSeq
<1>6. front \in Seq(S) /\ Len(front) = n /\ \A i \in 1..n : front[i] = all[i]
  <2>1. \A i \in 1..n : all[i] \in S
    BY <1>3, <1>5
  <2>2. Len(front) = IF 1 <= n THEN n - 1 + 1 ELSE 0
    BY <1>3, <2>1, SubSeqProperties
  <2>3. front \in Seq(S) /\ \A i \in 1..n - 1 + 1 : front[i] = all[1 + i - 1]
    BY <1>3, <2>1, SubSeqProperties
  <2>4. \A i \in 1..n : 1 + i - 1 = i /\ i \in 1..n - 1 + 1
    BY <1>3
  <2>5. Len(front) = n
    BY <1>3, <2>2
  <2>6. QED BY <2>3, <2>4, <2>5
<1>7. front = q
  <2>1. \A i \in 1..n : front[i] = q[i]
    <3>1. \A i \in 1..n : i \in 1..n + m /\ i <= n
      BY <1>3
    <3>2. QED BY <1>2, <1>6, <3>1
  <2>2. QED BY <1>6, <2>1, SeqEqual DEF n
<1>8. rear = Tail(l)
  <2>1. \A i \in n + 2..n + m : all[i] \in S
    BY <1>3, <1>5
  <2>2. /\ rear \in Seq(S) /\ Len(rear) = (IF n + 2 <= n + m THEN (n + m) - (n + 2) + 1 ELSE 0)
        /\ \A i \in 1..(n + m) - (n + 2) + 1 : rear[i] = all[(n + 2) + i - 1]
    BY <1>3, <2>1, SubSeqProperties
  <2>3. Len(rear) = Len(Tail(l))
    <3>1. (IF n + 2 <= n + m THEN (n + m) - (n + 2) + 1 ELSE 0) = m - 1
      BY <1>3
    <3>2. QED BY <1>1, <2>2, <3>1 DEF m
  <2>4. ASSUME NEW i \in 1..Len(rear) PROVE rear[i] = Tail(l)[i]
    <3>0. Len(rear) = m - 1 /\ m - 1 \in Nat
      BY <1>1, <1>3, <2>3 DEF m
    <3>1. i \in 1..m - 1 /\ i \in Nat
      BY <1>3, <2>4, <3>0
    <3>2. /\ i \in 1..(n + m) - (n + 2) + 1 /\ (n + 2) + i - 1 \in 1..n + m /\ ~((n + 2) + i - 1 <= n)
          /\ ((n + 2) + i - 1) - n = i + 1
      BY <1>3, <3>1
    <3>3. rear[i] = l[i + 1]
      BY <1>2, <2>2, <3>2
    <3>4. QED BY <1>1, <2>3, <3>3
  <2>5. QED BY <1>1, <2>2, <2>3, <2>4, SeqEqual
<1>9. Feed!Line!RemoveAt(all, n + 1) = front \o rear
  <2>1. (n + 1) - 1 = n /\ (n + 1) + 1 = n + 2
    BY <1>3
  <2>2. QED BY <1>2, <2>1 DEF Feed!Line!RemoveAt
<1>10. QED BY <1>1, <1>2, <1>4, <1>7, <1>8, <1>9 DEF n, m, all

LEMMA FeedFirst ==
    ASSUME NEW S, NEW q \in Seq(S), NEW l \in Seq(S), q # <<>>
    PROVE  q \o l # <<>> /\ Head(q \o l) = Head(q) /\ Tail(q \o l) = Tail(q) \o l
<1>1. /\ Head(q) = q[1] /\ Tail(q) \in Seq(S) /\ Len(q) \in Nat \ {0} /\ Len(l) \in Nat
      /\ Len(Tail(q)) = Len(q) - 1 /\ \A i \in 1..Len(Tail(q)) : Tail(q)[i] = q[i + 1]
  BY HeadTailProperties, EmptySeq, LenProperties
<1>2. /\ q \o l \in Seq(S) /\ Len(q \o l) = Len(q) + Len(l)
      /\ \A i \in 1..Len(q) + Len(l) : (q \o l)[i] = IF i <= Len(q) THEN q[i] ELSE l[i - Len(q)]
  BY ConcatProperties
<1>3. /\ Tail(q) \o l \in Seq(S) /\ Len(Tail(q) \o l) = Len(Tail(q)) + Len(l)
      /\ \A i \in 1..Len(Tail(q)) + Len(l) :
             (Tail(q) \o l)[i] = IF i <= Len(Tail(q)) THEN Tail(q)[i] ELSE l[i - Len(Tail(q))]
  BY <1>1, ConcatProperties
<1> DEFINE all == q \o l
<1>4. all # <<>> /\ Len(all) \in Nat \ {0}
  <2>1. Len(all) \in Nat \ {0}
    BY <1>1, <1>2
  <2>2. Len(<<>>) = 0
    OBVIOUS
  <2>3. QED BY <2>1, <2>2
<1> HIDE DEF all
<1>5. /\ Head(all) = all[1] /\ Tail(all) \in Seq(S) /\ Len(Tail(all)) = Len(all) - 1
      /\ \A i \in 1..Len(Tail(all)) : Tail(all)[i] = all[i + 1]
  BY <1>2, <1>4, HeadTailProperties DEF all
<1>6. Head(all) = Head(q)
  <2>1. 1 \in 1..Len(q) + Len(l) /\ 1 <= Len(q)
    BY <1>1
  <2>2. QED BY <1>1, <1>2, <1>5, <2>1 DEF all
<1>7. Len(Tail(all)) = Len(Tail(q) \o l)
  BY <1>1, <1>2, <1>3, <1>5 DEF all
<1>8. ASSUME NEW i \in 1..Len(Tail(all)) PROVE Tail(all)[i] = (Tail(q) \o l)[i]
  <2>1. i \in Nat /\ i \in 1..Len(Tail(q)) + Len(l) /\ i + 1 \in 1..Len(q) + Len(l)
    BY <1>1, <1>2, <1>3, <1>7
  <2>2. CASE i <= Len(Tail(q))
    <3>1. i \in 1..Len(Tail(q)) /\ i + 1 <= Len(q)
      BY <1>1, <2>1, <2>2
    <3>2. QED BY <1>1, <1>2, <1>3, <1>5, <2>1, <2>2, <3>1 DEF all
  <2>3. CASE ~(i <= Len(Tail(q)))
    <3>1. ~(i + 1 <= Len(q)) /\ i + 1 - Len(q) = i - Len(Tail(q))
      BY <1>1, <2>1, <2>3
    <3>2. QED BY <1>2, <1>3, <1>5, <2>1, <2>3, <3>1 DEF all
  <2>4. QED BY <2>2, <2>3
<1>9. Tail(all) = Tail(q) \o l
  BY <1>3, <1>5, <1>7, <1>8, SeqEqual
<1>10. QED BY <1>4, <1>6, <1>9 DEF all

(* Each event is queued once: it waits in one session, or is published by  *)
(* one, or was handed over.                                                *)
FeedDistinct(q) == \A i, j \in 1..Len(q) : q[i] = q[j] => i = j
FeedOnce ==
    /\ \A s \in Servers : /\ FeedDistinct(session[s]) /\ FeedDistinct(publishing[s])
                          /\ Feed!ToSet(session[s]) \cap saved = {}
                          /\ Feed!ToSet(publishing[s]) \cap Feed!ToSet(handed) = {}
    /\ \A s, o \in Servers : s # o => /\ Feed!ToSet(session[s]) \cap Feed!ToSet(session[o]) = {}
                                      /\ Feed!ToSet(publishing[s]) \cap Feed!ToSet(publishing[o]) = {}

LEMMA FeedSetIs == ASSUME NEW S, NEW q \in Seq(S) PROVE Feed!ToSet(q) = {q[i] : i \in 1..Len(q)}
BY LenProperties DEF Feed!ToSet

LEMMA FeedNothing == FeedDistinct(<<>>) /\ Feed!ToSet(<<>>) = {}
<1>1. Len(<<>>) = 0 /\ 1..0 = {}
  OBVIOUS
<1>2. <<>> \in Seq({})
  OBVIOUS
<1>3. Feed!ToSet(<<>>) = {}
  BY <1>1, <1>2, FeedSetIs
<1>4. QED BY <1>1, <1>3 DEF FeedDistinct

(* One event more, and one less.                                           *)
LEMMA FeedOneMore ==
    ASSUME NEW S, NEW q \in Seq(S), NEW e \in S
    PROVE  /\ Feed!ToSet(Append(q, e)) = Feed!ToSet(q) \cup {e}
           /\ FeedDistinct(q) /\ e \notin Feed!ToSet(q) => FeedDistinct(Append(q, e))
<1>1. /\ Append(q, e) \in Seq(S) /\ Len(q) \in Nat /\ Len(Append(q, e)) = Len(q) + 1
      /\ Append(q, e)[Len(q) + 1] = e /\ \A i \in 1..Len(q) : Append(q, e)[i] = q[i]
  BY AppendProperties, LenProperties
<1> DEFINE n == Len(q)
           more == Append(q, e)
<1>2. n \in Nat /\ \A i \in 1..n + 1 : i = n + 1 \/ i \in 1..n
  BY <1>1
<1> HIDE DEF n, more
<1>3. Feed!ToSet(more) = {more[i] : i \in 1..n + 1} /\ Feed!ToSet(q) = {q[i] : i \in 1..n}
  BY <1>1, FeedSetIs DEF n, more
<1>4. /\ Len(more) = n + 1 /\ more[n + 1] = e /\ \A i \in 1..n : more[i] = q[i] /\ i \in 1..n + 1
      /\ n + 1 \in 1..n + 1
  BY <1>1, <1>2 DEF n, more
<1>5. Feed!ToSet(more) = Feed!ToSet(q) \cup {e}
  BY <1>2, <1>3, <1>4
<1>6. FeedDistinct(q) /\ e \notin Feed!ToSet(q) => FeedDistinct(more)
  BY <1>2, <1>3, <1>4 DEF FeedDistinct, n
<1>7. QED BY <1>5, <1>6 DEF more

LEMMA FeedOneLess ==
    ASSUME NEW S, NEW q \in Seq(S), q # <<>>, FeedDistinct(q)
    PROVE  /\ Head(q) \in Feed!ToSet(q) /\ Feed!ToSet(Tail(q)) \subseteq Feed!ToSet(q) \ {Head(q)}
           /\ FeedDistinct(Tail(q))
<1>1. /\ Head(q) = q[1] /\ Tail(q) \in Seq(S) /\ Len(q) \in Nat \ {0}
      /\ Len(Tail(q)) = Len(q) - 1 /\ \A i \in 1..Len(Tail(q)) : Tail(q)[i] = q[i + 1]
  BY HeadTailProperties, EmptySeq
<1> DEFINE n == Len(q)
           less == Tail(q)
<1>2. n \in Nat /\ 1 \in 1..n /\ \A i \in 1..n - 1 : i + 1 \in 1..n /\ i + 1 # 1 /\ i \in Nat
  BY <1>1
<1> HIDE DEF n, less
<1>3. Feed!ToSet(less) = {less[i] : i \in 1..n - 1} /\ Feed!ToSet(q) = {q[i] : i \in 1..n}
  BY <1>1, FeedSetIs DEF n, less
<1>4. Len(less) = n - 1 /\ \A i \in 1..n - 1 : less[i] = q[i + 1]
  BY <1>1 DEF n, less
<1>5. Head(q) \in Feed!ToSet(q)
  BY <1>1, <1>2, <1>3
<1>6. \A i \in 1..n - 1 : less[i] \in Feed!ToSet(q) /\ less[i] # Head(q)
  BY <1>1, <1>2, <1>3, <1>4 DEF FeedDistinct, n
<1>7. ASSUME NEW i \in 1..n - 1, NEW j \in 1..n - 1, less[i] = less[j] PROVE i = j
  <2>1. i + 1 = j + 1
    BY <1>2, <1>4, <1>7 DEF FeedDistinct, n
  <2>2. QED BY <1>2, <2>1
<1>8. QED BY <1>3, <1>4, <1>5, <1>6, <1>7 DEF FeedDistinct, less

LEMMA FeedOnceInit == ASSUME Feed!Init PROVE FeedOnce
<1>1. \A s \in Servers : session[s] = <<>> /\ publishing[s] = <<>>
  BY DEF Feed!Init
<1>2. QED BY <1>1, FeedNothing DEF FeedOnce

(* Sessions: an event is queued that is nowhere yet ...                    *)
LEMMA FeedOnceQueues ==
    ASSUME Feed!TypeOK, FeedOnce, NEW s \in Servers, NEW e \in Events, Feed!QueueEvent(s, e)
    PROVE  FeedOnce'
<1>1. session[s] \in Seq(Events) /\ session' = [session EXCEPT ![s] = Append(session[s], e)]
      /\ UNCHANGED <<publishing, handed, saved>> /\ e \notin Feed!Everywhere
  BY DEF Feed!TypeOK, Feed!QueueEvent
<1>2. e \notin saved /\ \A o \in Servers : e \notin Feed!ToSet(session[o])
  BY <1>1 DEF Feed!Everywhere
<1>3. /\ Feed!ToSet(Append(session[s], e)) = Feed!ToSet(session[s]) \cup {e}
      /\ FeedDistinct(Append(session[s], e))
  BY <1>1, <1>2, FeedOneMore DEF FeedOnce
<1>4. session'[s] = Append(session[s], e) /\ \A o \in Servers : o # s => session'[o] = session[o]
  BY <1>1 DEF Feed!TypeOK
<1>5. \A o \in Servers : /\ FeedDistinct(session'[o])
                         /\ Feed!ToSet(session'[o]) = IF o = s THEN Feed!ToSet(session[s]) \cup {e} ELSE Feed!ToSet(session[o])
  BY <1>3, <1>4 DEF FeedOnce
<1>6. \A o, x \in Servers : o # x => Feed!ToSet(session'[o]) \cap Feed!ToSet(session'[x]) = {}
  BY <1>2, <1>5 DEF FeedOnce
<1>7. \A o \in Servers : Feed!ToSet(session'[o]) \cap saved = {}
  BY <1>2, <1>5 DEF FeedOnce
<1>8. QED BY <1>1, <1>5, <1>6, <1>7 DEF FeedOnce

(* ... and leaves the session with all others at its end.                  *)
LEMMA FeedOnceEnds ==
    ASSUME FeedIInv, FeedOnce, NEW s \in Servers, Feed!Commit(s) \/ Feed!Rollback(s) PROVE FeedOnce'
<1>1. /\ session' = [session EXCEPT ![s] = <<>>] /\ handed' = handed /\ session[s] \in Seq(Events)
      /\ Feed!TypeOK /\ FeedCommitted
  BY DEF Feed!Commit, Feed!Rollback, Feed!NoEvents, FeedIInv, Feed!TypeOK
<1>2. session'[s] = <<>> /\ \A o \in Servers : o # s => session'[o] = session[o]
  BY <1>1 DEF Feed!TypeOK
<1>3. \A o \in Servers : /\ FeedDistinct(session'[o])
                         /\ Feed!ToSet(session'[o]) = IF o = s THEN {} ELSE Feed!ToSet(session[o])
  BY <1>2, FeedNothing DEF FeedOnce
<1>4. \A o, x \in Servers : o # x => Feed!ToSet(session'[o]) \cap Feed!ToSet(session'[x]) = {}
  BY <1>3 DEF FeedOnce
<1>5. CASE Feed!Rollback(s)
  <2>1. UNCHANGED <<publishing, saved>>
    BY <1>5 DEF Feed!Rollback
  <2>2. \A o \in Servers : Feed!ToSet(session'[o]) \cap saved' = {}
    BY <1>3, <2>1 DEF FeedOnce
  <2>3. \A o \in Servers : FeedDistinct(publishing'[o]) /\ Feed!ToSet(publishing'[o]) \cap Feed!ToSet(handed') = {}
    BY <1>1, <2>1 DEF FeedOnce
  <2>4. \A o, x \in Servers : o # x => Feed!ToSet(publishing'[o]) \cap Feed!ToSet(publishing'[x]) = {}
    BY <2>1 DEF FeedOnce
  <2>5. QED BY <1>3, <1>4, <2>2, <2>3, <2>4 DEF FeedOnce
<1>6. CASE Feed!Commit(s)
  <2>1. saved' = saved \cup Feed!ToSet(session[s]) /\ publishing' = [publishing EXCEPT ![s] = session[s]]
    BY <1>6 DEF Feed!Commit
  <2>2. publishing'[s] = session[s] /\ \A o \in Servers : o # s => publishing'[o] = publishing[o]
    BY <1>1, <2>1 DEF Feed!TypeOK
  <2>3. Feed!ToSet(handed) \subseteq saved /\ \A o \in Servers : Feed!ToSet(publishing[o]) \subseteq saved
    BY <1>1, FeedSetOfSeq DEF FeedCommitted
  <2>4. \A o \in Servers : FeedDistinct(publishing'[o]) /\ Feed!ToSet(publishing'[o]) \cap Feed!ToSet(handed) = {}
    BY <2>2, <2>3 DEF FeedOnce
  <2>5. \A o, x \in Servers : o # x => Feed!ToSet(publishing'[o]) \cap Feed!ToSet(publishing'[x]) = {}
    <3>1. \A o \in Servers : o # s => Feed!ToSet(publishing[o]) \cap Feed!ToSet(session[s]) = {}
      BY <2>3 DEF FeedOnce
    <3>2. QED BY <2>2, <3>1 DEF FeedOnce
  <2>6. \A o \in Servers : Feed!ToSet(session'[o]) \cap saved' = {}
    BY <1>3, <2>1 DEF FeedOnce
  <2>7. QED BY <1>1, <1>3, <1>4, <2>4, <2>5, <2>6 DEF FeedOnce
<1>7. QED BY <1>5, <1>6

(* What is handed over is no longer to be published by anyone.             *)
LEMMA FeedHandsOver ==
    ASSUME FeedIInv, FeedOnce, NEW s \in Servers, Feed!Publish(s)
    PROVE  /\ FeedOnce' /\ Head(publishing[s]) \in saved /\ Head(publishing[s]) \notin Feed!ToSet(handed)
           /\ handed \in Seq(Events) /\ loop \in Seq(Events)
<1> DEFINE e == Head(publishing[s])
<1>1. /\ publishing[s] # <<>> /\ handed' = Append(handed, e) /\ publishing' = [publishing EXCEPT ![s] = Tail(publishing[s])]
      /\ UNCHANGED <<session, saved>> /\ Feed!TypeOK /\ FeedCommitted
  BY DEF Feed!Publish, FeedIInv
<1>2. publishing[s] \in Seq(saved) /\ handed \in Seq(saved) /\ handed \in Seq(Events) /\ loop \in Seq(Events)
  BY <1>1 DEF FeedCommitted, Feed!TypeOK
<1>3. e \in saved /\ FeedDistinct(publishing[s])
  BY <1>1, <1>2, HeadTailProperties DEF FeedOnce
<1>4. /\ e \in Feed!ToSet(publishing[s]) /\ FeedDistinct(Tail(publishing[s]))
      /\ Feed!ToSet(Tail(publishing[s])) \subseteq Feed!ToSet(publishing[s]) \ {e}
  BY <1>1, <1>2, <1>3, FeedOneLess
<1>5. e \notin Feed!ToSet(handed)
  BY <1>4 DEF FeedOnce
<1>6. Feed!ToSet(handed') = Feed!ToSet(handed) \cup {e}
  BY <1>1, <1>2, <1>3, FeedOneMore
<1>7. publishing'[s] = Tail(publishing[s]) /\ \A o \in Servers : o # s => publishing'[o] = publishing[o]
  BY <1>1 DEF Feed!TypeOK
<1>8. \A o \in Servers : /\ FeedDistinct(publishing'[o]) /\ e \notin Feed!ToSet(publishing'[o])
                         /\ Feed!ToSet(publishing'[o]) \subseteq Feed!ToSet(publishing[o])
  BY <1>4, <1>7 DEF FeedOnce
<1>9. \A o \in Servers : Feed!ToSet(publishing'[o]) \cap Feed!ToSet(handed') = {}
  BY <1>6, <1>8 DEF FeedOnce
<1>10. \A o, x \in Servers : o # x => Feed!ToSet(publishing'[o]) \cap Feed!ToSet(publishing'[x]) = {}
  BY <1>8 DEF FeedOnce
<1>11. FeedOnce'
  BY <1>1, <1>8, <1>9, <1>10 DEF FeedOnce
<1>12. QED BY <1>2, <1>3, <1>5, <1>11

(* The sockets as EventLine sees them.                                     *)
FeedOpen == {k \in Sockets : socket[k].state = "open"}
FeedLines == [k \in Sockets |-> IF socket[k].state = "open" THEN socket[k].queue \o loop ELSE <<>>]
FeedGot == [k \in Sockets |-> socket[k].got]

LEMMA LineInit == ASSUME Feed!Init PROVE Feed!Line!Init
<1>1. \A k \in Sockets : socket[k].state = "new" /\ socket[k].got = <<>>
  BY DEF Feed!Init
<1>2. FeedOpen = {} /\ FeedLines = [k \in Sockets |-> <<>>] /\ FeedGot = [k \in Sockets |-> <<>>]
  BY <1>1 DEF FeedOpen, FeedLines, FeedGot
<1>3. saved = {} /\ handed = <<>>
  BY DEF Feed!Init
<1>4. QED BY <1>2, <1>3 DEF Feed!Line!Init, FeedOpen, FeedLines, FeedGot

(* A transaction says nothing yet: its commit saves.                       *)
LEMMA LineTransaction ==
    ASSUME Feed!TypeOK, NEW s \in Servers, (\E e \in Events : Feed!QueueEvent(s, e)) \/ Feed!Commit(s) \/ Feed!Rollback(s)
    PROVE  [Feed!Line!Next]_Feed!Line!vars
<1>1. UNCHANGED <<loop, handed, socket>>
  BY DEF Feed!QueueEvent, Feed!Commit, Feed!Rollback
<1>2. FeedOpen' = FeedOpen /\ FeedLines' = FeedLines /\ FeedGot' = FeedGot
  BY <1>1 DEF FeedOpen, FeedLines, FeedGot
<1>3. CASE (\E e \in Events : Feed!QueueEvent(s, e)) \/ Feed!Rollback(s)
  <2>1. saved' = saved
    BY <1>3 DEF Feed!QueueEvent, Feed!Rollback
  <2>2. QED BY <1>1, <1>2, <2>1 DEF Feed!Line!vars, FeedOpen, FeedLines, FeedGot
<1>4. CASE Feed!Commit(s)
  <2>1. PICK S : S = Feed!ToSet(session[s])
    OBVIOUS
  <2>2. saved' = saved \cup S /\ S \in SUBSET Events
    BY <1>4, <2>1, FeedSetOfSeq DEF Feed!Commit, Feed!TypeOK
  <2>3. Feed!Line!Save(S)
    BY <1>1, <1>2, <2>2 DEF Feed!Line!Save, FeedOpen, FeedLines, FeedGot
  <2>4. QED BY <2>2, <2>3 DEF Feed!Line!Next
<1>5. QED BY <1>3, <1>4

LEMMA LineSays ==
    ASSUME FeedIInv, FeedOnce, NEW s \in Servers, Feed!Publish(s) PROVE Feed!Line!Next
<1>1. PICK e \in Events : e = Head(publishing[s]) /\ e \in saved /\ e \notin Feed!ToSet(handed)
  BY FeedHandsOver DEF FeedIInv, Feed!TypeOK
<1>2. /\ loop' = Append(loop, e) /\ handed' = Append(handed, e) /\ UNCHANGED <<saved, socket>>
      /\ loop \in Seq(Events) /\ Feed!TypeOK
  BY <1>1 DEF Feed!Publish, FeedIInv, Feed!TypeOK
<1>3. FeedOpen' = FeedOpen /\ FeedGot' = FeedGot
  BY <1>2 DEF FeedOpen, FeedGot
<1>4. ASSUME NEW k \in Sockets PROVE socket[k].queue \o Append(loop, e) = Append(socket[k].queue \o loop, e)
  <2>1. socket[k] \in Feed!Socket
    BY <1>2, <1>4 DEF Feed!TypeOK
  <2>2. PICK q \in Seq(Events) : q = socket[k].queue
    BY <2>1 DEF Feed!Socket
  <2>3. q \o Append(loop, e) = Append(q \o loop, e)
    BY <1>2, FeedPutSame
  <2>4. QED BY <2>2, <2>3
<1>5. FeedLines' = [k \in Sockets |-> IF k \in FeedOpen THEN Append(FeedLines[k], e) ELSE FeedLines[k]]
  <2>1. FeedLines' = [k \in Sockets |-> IF socket[k].state = "open" THEN socket[k].queue \o Append(loop, e) ELSE <<>>]
    BY <1>2 DEF FeedLines
  <2>2. ASSUME NEW k \in Sockets
        PROVE  (IF socket[k].state = "open" THEN socket[k].queue \o Append(loop, e) ELSE <<>>)
               = IF k \in FeedOpen THEN Append(FeedLines[k], e) ELSE FeedLines[k]
    BY <1>4, <2>2 DEF FeedOpen, FeedLines
  <2>3. QED BY <2>1, <2>2
<1>6. e \notin Feed!Line!ToSet(handed)
  BY <1>1 DEF Feed!ToSet, Feed!Line!ToSet
<1>7. Feed!Line!Say(e)
  BY <1>1, <1>2, <1>3, <1>5, <1>6 DEF Feed!Line!Say, FeedOpen, FeedLines, FeedGot
<1>8. QED BY <1>7 DEF Feed!Line!Next

(* A delivery that a full queue ends takes its event off the lines of the  *)
(* sockets it has not reached; any other moves it within them.             *)
LEMMA LineDelivers ==
    ASSUME FeedBounds, FeedIInv, Feed!Deliver PROVE [Feed!Line!Next]_Feed!Line!vars
<1> DEFINE full == {k \in FeedOpen : Feed!Full(k)}
<1>1. PICK e \in Events : e = Head(loop)
  <2>1. loop \in Seq(Events) /\ loop # <<>>
    BY DEF FeedIInv, Feed!TypeOK, Feed!Deliver
  <2>2. QED BY <2>1, HeadTailProperties
<1>2. PICK reached \in SUBSET (FeedOpen \ full) :
          /\ full = {} => reached = FeedOpen
          /\ socket' = [k \in Sockets |->
                 IF k \notin FeedOpen THEN socket[k]
                 ELSE [socket[k] EXCEPT !.wanted = Append(@, e),
                                        !.queue = IF k \in reached THEN Feed!Put(k, e) ELSE @]]
  BY <1>1 DEF Feed!Deliver, FeedOpen
<1>3. /\ Feed!TypeOK /\ loop \in Seq(Events) /\ loop # <<>> /\ loop' = Tail(loop) /\ UNCHANGED <<handed, saved>>
  BY DEF FeedIInv, Feed!TypeOK, Feed!Deliver
<1>4. \A k \in Sockets : k \notin FeedOpen => socket'[k] = socket[k]
  BY <1>2
<1>5. ASSUME NEW k \in FeedOpen
      PROVE  /\ socket'[k].state = "open" /\ socket'[k].got = socket[k].got
             /\ socket'[k].queue = IF k \in reached THEN Append(socket[k].queue, e) ELSE socket[k].queue
             /\ socket[k].queue \in Seq(Events)
  <2>1. /\ k \in Sockets /\ socket[k].state = "open"
        /\ socket'[k] = [socket[k] EXCEPT !.wanted = Append(@, e), !.queue = IF k \in reached THEN Feed!Put(k, e) ELSE @]
    BY <1>2, <1>5 DEF FeedOpen
  <2>2. socket[k].queue \in Seq(Events)
    BY <1>3, <2>1 DEF Feed!TypeOK, Feed!Socket
  <2>3. QED BY <1>3, <2>1, <2>2, FeedDelivered
<1>6. FeedOpen' = FeedOpen
  BY <1>4, <1>5 DEF FeedOpen
<1>7. FeedGot' = FeedGot
  BY <1>4, <1>5 DEF FeedGot
<1>8. FeedLines' = [k \in Sockets |-> IF k \in FeedOpen THEN socket'[k].queue \o Tail(loop) ELSE <<>>]
  BY <1>3, <1>6 DEF FeedLines, FeedOpen
<1>9. ASSUME NEW k \in Sockets, k \notin FeedOpen \ reached PROVE FeedLines'[k] = FeedLines[k]
  <2>1. CASE k \in FeedOpen
    <3>1. PICK q \in Seq(Events) : q = socket[k].queue
      BY <1>5, <2>1
    <3>2. Append(q, e) \o Tail(loop) = q \o loop
      BY <1>1, <1>3, <3>1, FeedPumpSame
    <3>3. socket'[k].queue = Append(q, e)
      BY <1>5, <1>9, <2>1, <3>1
    <3>4. FeedLines'[k] = q \o loop
      BY <1>8, <2>1, <3>2, <3>3
    <3>5. QED BY <2>1, <3>1, <3>4 DEF FeedLines, FeedOpen
  <2>2. CASE k \notin FeedOpen
    BY <1>8, <2>2 DEF FeedLines, FeedOpen
  <2>3. QED BY <2>1, <2>2
<1>10. CASE full = {}
  <2>1. \A k \in Sockets : FeedLines'[k] = FeedLines[k]
    BY <1>2, <1>9, <1>10
  <2>2. FeedLines' = FeedLines
    BY <1>8, <2>1 DEF FeedLines
  <2>3. QED BY <1>3, <1>6, <1>7, <2>2 DEF Feed!Line!vars, FeedOpen, FeedLines, FeedGot
<1>11. CASE full # {}
  <2>1. PICK some : some = FeedOpen \ reached
    OBVIOUS
  <2>2. \E k \in Sockets : k \in FeedOpen /\ Len(FeedLines[k]) > QueueSize
    <3>1. PICK k \in FeedOpen : Len(socket[k].queue) = QueueSize
      BY <1>11 DEF Feed!Full
    <3>2. PICK q \in Seq(Events) : q = socket[k].queue
      BY <1>5, <3>1
    <3>3. Len(q \o loop) = Len(q) + Len(loop)
      BY <1>3, <3>2, ConcatProperties
    <3>4. Len(loop) \in Nat \ {0}
      BY <1>3, EmptySeq, LenProperties
    <3>5. Len(q \o loop) > QueueSize
      BY <3>1, <3>2, <3>3, <3>4 DEF FeedBounds
    <3>6. FeedLines[k] = q \o loop /\ k \in Sockets
      BY <3>1, <3>2 DEF FeedLines, FeedOpen
    <3>7. QED BY <3>1, <3>5, <3>6
  <2>3. ASSUME NEW k \in some
        PROVE  \E i \in 1..Len(FeedLines[k]) : FeedLines[k][i] = e /\ FeedLines'[k] = Feed!Line!RemoveAt(FeedLines[k], i)
    <3>1. k \in FeedOpen /\ k \in Sockets /\ k \notin reached
      BY <2>1, <2>3 DEF FeedOpen
    <3>2. PICK q \in Seq(Events) : q = socket[k].queue
      BY <1>5, <3>1
    <3>3. FeedLines[k] = q \o loop /\ FeedLines'[k] = q \o Tail(loop)
      <4>1. FeedLines[k] = q \o loop
        BY <3>1, <3>2 DEF FeedLines, FeedOpen
      <4>2. socket'[k].queue = q
        BY <1>5, <3>1, <3>2
      <4>3. QED BY <1>8, <3>1, <4>1, <4>2
    <3>4. /\ Len(q) + 1 \in 1..Len(q \o loop) /\ (q \o loop)[Len(q) + 1] = e
          /\ q \o Tail(loop) = Feed!Line!RemoveAt(q \o loop, Len(q) + 1)
      BY <1>1, <1>3, <3>2, FeedTakenOff
    <3>5. QED BY <3>3, <3>4
  <2>4. \A k \in Sockets \ some : FeedLines'[k] = FeedLines[k]
    BY <1>9, <2>1
  <2>5. Feed!Line!Lose(e, some)
    BY <1>3, <1>6, <1>7, <2>2, <2>3, <2>4 DEF Feed!Line!Lose, Feed!Line!Lags, FeedOpen, FeedLines, FeedGot
  <2>6. some \in SUBSET FeedOpen
    BY <2>1
  <2>7. QED BY <2>5, <2>6 DEF Feed!Line!Next, FeedOpen
<1>12. QED BY <1>10, <1>11

(* A step of one socket is a step of its line.                             *)
LEMMA LineOfSocket ==
    ASSUME NEW k \in Sockets, loop' = loop, \A x \in Sockets \ {k} : socket'[x] = socket[x]
    PROVE  /\ FeedOpen' = IF socket'[k].state = "open" THEN FeedOpen \cup {k} ELSE FeedOpen \ {k}
           /\ FeedLines' = [FeedLines EXCEPT ![k] = IF socket'[k].state = "open" THEN socket'[k].queue \o loop ELSE <<>>]
           /\ FeedGot' = [FeedGot EXCEPT ![k] = socket'[k].got]
<1>1. FeedOpen' = IF socket'[k].state = "open" THEN FeedOpen \cup {k} ELSE FeedOpen \ {k}
  BY DEF FeedOpen
<1>2. FeedLines' = [FeedLines EXCEPT ![k] = IF socket'[k].state = "open" THEN socket'[k].queue \o loop ELSE <<>>]
  BY DEF FeedLines
<1>3. FeedGot' = [FeedGot EXCEPT ![k] = socket'[k].got]
  BY DEF FeedGot
<1>4. QED BY <1>1, <1>2, <1>3

LEMMA LineJoins ==
    ASSUME FeedIInv, NEW k \in Sockets, Feed!Subscribe(k) PROVE Feed!Line!Next
<1>1. /\ socket[k].state = "new" /\ socket[k] \in Feed!Socket /\ socket \in [Sockets -> Feed!Socket]
      /\ socket' = [socket EXCEPT ![k].state = "open"] /\ UNCHANGED <<loop, handed, saved>>
      /\ loop \in Seq(Events) /\ handed \in Seq(Events) /\ FeedLine /\ FeedEmpty(k)
  BY DEF FeedIInv, Feed!TypeOK, Feed!Subscribe
<1>2. \A x \in Sockets \ {k} : socket'[x] = socket[x]
  BY <1>1
<1>3. socket'[k].state = "open" /\ socket'[k].queue = <<>> /\ socket'[k].got = <<>> /\ socket[k].got = <<>>
  <2>1. PICK held \in Feed!Socket : held = socket[k] /\ held.queue = <<>> /\ held.got = <<>>
    BY <1>1 DEF FeedEmpty
  <2>2. socket'[k] = [held EXCEPT !.state = "open"]
    BY <1>1, <2>1
  <2>3. /\ [held EXCEPT !.state = "open"].state = "open" /\ [held EXCEPT !.state = "open"].queue = held.queue
        /\ [held EXCEPT !.state = "open"].got = held.got
    BY <2>1 DEF Feed!Socket
  <2>4. QED BY <2>1, <2>2, <2>3
<1>4. <<>> \o loop = loop
  BY <1>1, ConcatEmptySeq
<1>5. /\ FeedOpen' = FeedOpen \cup {k} /\ k \notin FeedOpen
      /\ FeedLines' = [FeedLines EXCEPT ![k] = loop] /\ FeedGot' = FeedGot /\ FeedGot[k] = <<>>
  <2>1. FeedGot' = [FeedGot EXCEPT ![k] = <<>>] /\ FeedGot[k] = <<>>
    BY <1>1, <1>2, <1>3, LineOfSocket DEF FeedGot
  <2>2. FeedGot' = FeedGot
    BY <2>1 DEF FeedGot
  <2>3. FeedLines' = [FeedLines EXCEPT ![k] = <<>> \o loop] /\ FeedOpen' = FeedOpen \cup {k}
    BY <1>1, <1>2, <1>3, LineOfSocket
  <2>4. FeedLines' = [FeedLines EXCEPT ![k] = loop]
    BY <1>4, <2>3
  <2>5. k \notin FeedOpen
    BY <1>1 DEF FeedOpen
  <2>6. QED BY <2>1, <2>2, <2>3, <2>4, <2>5
<1>6. PICK l, h : l = Len(loop) /\ h = Len(handed)
  OBVIOUS
<1>7. l \in Nat /\ h \in Nat /\ l <= h /\ \A i \in 1..l : loop[i] = handed[h - l + i]
  BY <1>1, <1>6, LenProperties DEF FeedLine
<1>8. PICK n \in 0..h : n = h - l
  BY <1>7
<1>9. loop = SubSeq(handed, n + 1, h)
  <2>1. PICK cut : cut = SubSeq(handed, n + 1, h)
    OBVIOUS
  <2>2. n + 1 \in Int /\ h \in Int /\ \A i \in n + 1..h : i \in 1..h
    BY <1>7, <1>8
  <2>3. \A i \in n + 1..h : handed[i] \in Events
    BY <1>1, <1>6, <2>2, ElementOfSeq
  <2>4. /\ cut \in Seq(Events) /\ Len(cut) = (IF n + 1 <= h THEN h - (n + 1) + 1 ELSE 0)
        /\ \A i \in 1..h - (n + 1) + 1 : cut[i] = handed[(n + 1) + i - 1]
    BY <2>1, <2>2, <2>3, SubSeqProperties
  <2>5. /\ (IF n + 1 <= h THEN h - (n + 1) + 1 ELSE 0) = l /\ h - (n + 1) + 1 = l
        /\ \A i \in 1..l : (n + 1) + i - 1 = h - l + i
    BY <1>7, <1>8
  <2>6. \A i \in 1..l : loop[i] = cut[i]
    BY <1>7, <2>4, <2>5
  <2>7. QED BY <1>1, <1>6, <2>1, <2>4, <2>5, <2>6, SeqEqual
<1>10. \E m \in 0..Len(handed) : FeedLines' = [FeedLines EXCEPT ![k] = SubSeq(handed, m + 1, Len(handed))]
  BY <1>5, <1>6, <1>8, <1>9
<1>11. Feed!Line!Join(k)
  BY <1>1, <1>5, <1>10 DEF Feed!Line!Join, FeedOpen, FeedLines, FeedGot
<1>12. QED BY <1>11 DEF Feed!Line!Next

LEMMA LineGets ==
    ASSUME FeedIInv, NEW k \in Sockets, Feed!Pump(k) PROVE Feed!Line!Next
<1>1. /\ socket[k].state = "open" /\ socket[k] \in Feed!Socket /\ socket \in [Sockets -> Feed!Socket]
      /\ socket[k].queue # <<>> /\ loop \in Seq(Events)
      /\ socket' = [socket EXCEPT ![k].got = Append(@, Head(socket[k].queue)), ![k].queue = Tail(@)]
      /\ UNCHANGED <<loop, handed, saved>>
  BY DEF FeedIInv, Feed!TypeOK, Feed!Pump
<1>2. PICK q, g, w : q = socket[k].queue /\ g = socket[k].got /\ w = socket[k].wanted
  OBVIOUS
<1>3. socket[k] = [state |-> "open", queue |-> q, got |-> g, wanted |-> w] /\ q \in Seq(Events) /\ q # <<>>
  BY <1>1, <1>2 DEF Feed!Socket
<1>4. PICK into : into = [state |-> "open", queue |-> Tail(q), got |-> Append(g, Head(q)), wanted |-> w]
  OBVIOUS
<1>5. socket' = [socket EXCEPT ![k] = into]
  BY <1>1, <1>2, <1>3, <1>4
<1>6. /\ socket'[k].state = "open" /\ socket'[k].queue = Tail(q) /\ socket'[k].got = Append(g, Head(q))
      /\ \A x \in Sockets \ {k} : socket'[x] = socket[x]
  BY <1>1, <1>4, <1>5
<1>7. /\ FeedOpen' = FeedOpen \cup {k} /\ FeedLines' = [FeedLines EXCEPT ![k] = Tail(q) \o loop]
      /\ FeedGot' = [FeedGot EXCEPT ![k] = Append(g, Head(q))]
  BY <1>1, <1>6, LineOfSocket
<1>8. k \in FeedOpen /\ FeedLines[k] = q \o loop /\ FeedGot[k] = g
  BY <1>1, <1>2 DEF FeedOpen, FeedLines, FeedGot
<1>9. q \o loop # <<>> /\ Head(q \o loop) = Head(q) /\ Tail(q \o loop) = Tail(q) \o loop
  BY <1>1, <1>3, FeedFirst
<1>10. /\ FeedLines[k] # <<>> /\ FeedOpen' = FeedOpen
       /\ FeedGot' = [FeedGot EXCEPT ![k] = Append(FeedGot[k], Head(FeedLines[k]))]
       /\ FeedLines' = [FeedLines EXCEPT ![k] = Tail(FeedLines[k])]
  BY <1>7, <1>8, <1>9
<1>11. Feed!Line!Get(k)
  BY <1>1, <1>10 DEF Feed!Line!Get, FeedOpen, FeedLines, FeedGot
<1>12. QED BY <1>11 DEF Feed!Line!Next

LEMMA LineLeaves ==
    ASSUME FeedIInv, NEW k \in Sockets, Feed!Unsubscribe(k) PROVE Feed!Line!Next
<1>1. /\ socket[k] \in Feed!Socket /\ socket \in [Sockets -> Feed!Socket]
      /\ socket' = [socket EXCEPT ![k].state = "closed", ![k].queue = <<>>] /\ UNCHANGED <<loop, handed, saved>>
  BY DEF FeedIInv, Feed!TypeOK, Feed!Unsubscribe
<1>2. \A x \in Sockets \ {k} : socket'[x] = socket[x]
  BY <1>1
<1>3. socket'[k].state = "closed" /\ socket'[k].got = socket[k].got
  <2>1. PICK held \in Feed!Socket : held = socket[k]
    BY <1>1
  <2>2. PICK half : half = [held EXCEPT !.state = "closed"]
    OBVIOUS
  <2>3. [half EXCEPT !.queue = <<>>].state = "closed" /\ [half EXCEPT !.queue = <<>>].got = held.got
    <3>1. half \in Feed!Socket /\ half.state = "closed" /\ half.got = held.got
      BY <2>2 DEF Feed!Socket
    <3>2. QED BY <3>1 DEF Feed!Socket
  <2>4. [held EXCEPT !.state = "closed", !.queue = <<>>] = [half EXCEPT !.queue = <<>>]
    BY <2>2
  <2>5. socket'[k] = [held EXCEPT !.state = "closed", !.queue = <<>>]
    BY <1>1, <2>1
  <2>6. QED BY <2>1, <2>3, <2>4, <2>5
<1>4. FeedOpen' = FeedOpen \ {k} /\ FeedLines' = [FeedLines EXCEPT ![k] = <<>>] /\ FeedGot' = FeedGot
  <2>1. FeedGot' = [FeedGot EXCEPT ![k] = socket[k].got]
    BY <1>1, <1>2, <1>3, LineOfSocket
  <2>2. FeedGot' = FeedGot
    BY <2>1 DEF FeedGot
  <2>3. QED BY <1>1, <1>2, <1>3, <2>2, LineOfSocket
<1>5. Feed!Line!Leave(k)
  BY <1>1, <1>4 DEF Feed!Line!Leave, FeedOpen, FeedLines, FeedGot
<1>6. QED BY <1>5 DEF Feed!Line!Next

(* A step is one of the line, or none, and queues no event twice.          *)
LEMMA LineNext ==
    ASSUME FeedBounds, FeedIInv, FeedOnce, [Feed!Next]_Feed!vars
    PROVE  [Feed!Line!Next]_Feed!Line!vars /\ FeedOnce'
<1>0. Feed!TypeOK
  BY DEF FeedIInv
<1>1. CASE UNCHANGED Feed!vars
  <2>1. FeedOpen' = FeedOpen /\ FeedLines' = FeedLines /\ FeedGot' = FeedGot
    BY <1>1 DEF Feed!vars, FeedOpen, FeedLines, FeedGot
  <2>2. UNCHANGED Feed!Line!vars
    BY <1>1, <2>1 DEF Feed!vars, Feed!Line!vars, FeedOpen, FeedLines, FeedGot
  <2>3. FeedOnce'
    BY <1>1 DEF Feed!vars, FeedOnce
  <2>4. QED BY <2>2, <2>3
<1>2. ASSUME NEW s \in Servers, Feed!Commit(s) \/ Feed!Rollback(s) \/ \E e \in Events : Feed!QueueEvent(s, e)
      PROVE  [Feed!Line!Next]_Feed!Line!vars /\ FeedOnce'
  BY <1>0, <1>2, LineTransaction, FeedOnceQueues, FeedOnceEnds
<1>3. ASSUME NEW s \in Servers, Feed!Publish(s) PROVE Feed!Line!Next /\ FeedOnce'
  BY <1>3, LineSays, FeedHandsOver
<1>4. ASSUME UNCHANGED <<session, publishing, handed, saved>> PROVE FeedOnce'
  BY <1>4 DEF FeedOnce
<1>5. CASE Feed!Deliver
  BY <1>4, <1>5, LineDelivers DEF Feed!Deliver
<1>6. ASSUME NEW k \in Sockets, Feed!Subscribe(k) \/ Feed!Pump(k) \/ Feed!Unsubscribe(k)
      PROVE  Feed!Line!Next /\ FeedOnce'
  <2>1. UNCHANGED <<session, publishing, handed, saved>>
    BY <1>6 DEF Feed!Subscribe, Feed!Pump, Feed!Unsubscribe
  <2>2. QED BY <1>4, <1>6, <2>1, LineJoins, LineGets, LineLeaves
<1>7. QED BY <1>1, <1>2, <1>3, <1>5, <1>6 DEF Feed!Next

(* However commits, deliveries and slow sockets interleave: sessions, loop *)
(* and queues implement EventLine. What a client gets next is the first of *)
(* its line, and a line loses an event only while a queue has no room.     *)
THEOREM EventsInLineAlways == ExchangeSpec => EventsInLine
<1>1. Feed!Init => Feed!Line!Init /\ FeedOnce
  BY LineInit, FeedOnceInit
<1>2. FeedIInv /\ FeedOnce /\ [Feed!Next]_Feed!vars => [Feed!Line!Next]_Feed!Line!vars /\ FeedOnce'
  BY LineNext, BoundsAssumption DEF FeedBounds
<1>3. QED BY <1>1, <1>2, FeedSpec, FeedInvariant, PTL
          DEF Feed!Spec, EventsInLine, Feed!EventsInLine, Feed!Line!Spec

-----------------------------------------------------------------------------
(* The parts together.                                                     *)
Parts == {"challenge", "group", "events", "chat", "talk", "lists", "room"}

LEMMA PartStays == ExchangeSpec => [](part \in Parts)
<1>1. ExchangeInit => part \in Parts
  BY DEF ExchangeInit, Parts
<1>2. part \in Parts /\ [ExchangeNext]_exchangeVars => (part \in Parts)'
  BY DEF ExchangeNext, exchangeVars
<1>3. QED BY <1>1, <1>2, PTL DEF ExchangeSpec

LEMMA ChallengeSpec == ExchangeSpec => Spec
<1>1. ExchangeInit => Init
  BY DEF ExchangeInit
<1>2. [ExchangeNext]_exchangeVars => [Next]_vars
  BY DEF ExchangeNext, exchangeVars, vars
<1>3. QED BY <1>1, <1>2, PTL DEF ExchangeSpec, Spec

(* Each part that moves keeps its rows, its requests, its queues and what  *)
(* it counts of their kinds and within their bounds.                       *)
THEOREM TypesHold == ExchangeSpec => []PartsTypeOK
<1>1. IInv => TypeOK
  BY DEF IInv
<1>2. GroupIInv => Group!TypeOK
  BY GroupHolds
<1>3. ChatIInv => Chat!TypeOK
  BY ChatHolds
<1>4. TalkIInv => Talk!TypeOK
  BY TalkHolds, BoundsAssumption DEF TalkBounds
<1>5. ShortIInv => Short!TypeOK
  BY ShortHolds, BoundsAssumption DEF ShortBounds
<1>6. RoomIInv => Room!TypeOK
  BY RoomHolds, NobodyAssumption, BoundsAssumption DEF RoomDistinct
<1>7. FeedIInv => Feed!TypeOK
  BY FeedHolds
<1>8. /\ part \in Parts /\ TypeOK /\ Group!TypeOK /\ Chat!TypeOK /\ Talk!TypeOK
      /\ Short!TypeOK /\ Room!TypeOK /\ Feed!TypeOK
      => PartsTypeOK
  BY DEF PartsTypeOK, Parts
<1>9. QED BY <1>1, <1>2, <1>3, <1>4, <1>5, <1>6, <1>7, <1>8, PartStays, ChallengeSpec, Invariant,
             GroupInvariant, ChatInvariant, TalkInvariant, ShortInvariant, RoomInvariant,
             FeedInvariant, PTL
=============================================================================
