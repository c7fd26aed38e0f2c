----------------------------- MODULE Challenges -----------------------------
(***************************************************************************)
(* One technical challenge of a recruiter (app/routes/challenges.py,       *)
(* app/models/challenge.py): its drafts and its publication, invitations,  *)
(* submissions, reviews and what a developer shares of them.               *)
(*                                                                         *)
(* A request reads and checks, then commits.  The database session is      *)
(* SQLAlchemy's: an update writes the columns that differ from what the    *)
(* request read, and fails when the row is gone; an insert fails when the  *)
(* unique row is there by now or the challenge is gone.                    *)
(***************************************************************************)
EXTENDS Naturals, FiniteSets

CONSTANTS
    Servers,       \* threads that serve requests
    Developers,
    Nobody,        \* no developer
    DailyInvites,  \* invitations a recruiter may send in a day (50)
    MaxRevision    \* bound on the revisions of a submission

ASSUME RevisionsAssumption == MaxRevision \in Nat

VARIABLES
    ch,            \* the challenge
    invite,        \* invite[d]: the status of d's invitation
    sub,           \* sub[d]: d's submission
    review,        \* review[d]: the review of it
    crossed,       \* a review request has overlapped another that changes what it read
    job            \* the request each thread serves

vars == <<ch, invite, sub, review, crossed, job>>

Rubrics == {"first", "second"}
Columns == {"past", "public", "rubric"}
Challenge == [status : {"none", "draft", "open", "closed"}, past : BOOLEAN,
              public : BOOLEAN, rubric : Rubrics]
NoChallenge == [status |-> "none", past |-> FALSE, public |-> FALSE, rubric |-> "first"]
Invite == {"none", "pending", "accepted", "declined", "withdrawn"}
Locked == {"in_review", "reviewed"}
Submission == [status : {"none", "submitted", "withdrawn"} \cup Locked,
               revision : 0..MaxRevision, ratings : BOOLEAN, feedback : BOOLEAN]
NoSub == [status |-> "none", revision |-> 0, ratings |-> FALSE, feedback |-> FALSE]

(* of: the revision there was when the review began; rubric, complete:     *)
(* what the ratings are of.                                                *)
Review == [status : {"none", "draft", "released"}, of : 0..MaxRevision,
           rubric : Rubrics, complete : BOOLEAN]
NoReview == [status |-> "none", of |-> 0, rubric |-> "first", complete |-> FALSE]

(* A request: what it read of the rubric, the submission and the review,   *)
(* and what it wants; an update changes one column.                        *)
Job == [op : {"idle", "update", "publish", "close", "delete", "invite", "uninvite", "answer",
              "submit", "withdraw", "review", "share"},
        who : Developers \cup {Nobody}, rubric : Rubrics, sub : Submission,
        review : {"none", "draft", "released"}, column : Columns \cup {"none"},
        answer : Invite, yes : BOOLEAN, also : BOOLEAN]
Idle == [op |-> "idle", who |-> Nobody, rubric |-> "first", sub |-> NoSub, review |-> "none",
         column |-> "none", answer |-> "none", yes |-> FALSE, also |-> FALSE]

(* Rows and requests hold only values of their kinds; a challenge that is  *)
(* gone has taken its rows along.                                          *)
TypeOK ==
    /\ ch \in Challenge /\ invite \in [Developers -> Invite]
    /\ sub \in [Developers -> Submission] /\ review \in [Developers -> Review]
    /\ \A d \in Developers : review[d].status # "none" => sub[d].status # "none"
    /\ ch.status = "none" => \A d \in Developers : sub[d] = NoSub /\ invite[d] = "none"
    /\ crossed \in BOOLEAN /\ job \in [Servers -> Job]

Init ==
    /\ ch = NoChallenge /\ crossed = FALSE
    /\ invite = [d \in Developers |-> "none"]
    /\ sub = [d \in Developers |-> NoSub] /\ review = [d \in Developers |-> NoReview]
    /\ job = [s \in Servers |-> Idle]

Is(s, op) == job[s].op = op
Ask(s, request) == Is(s, "idle") /\ job' = [job EXCEPT ![s] = request]
End(s) == job' = [job EXCEPT ![s] = Idle]
RowsSame == UNCHANGED <<ch, invite, sub, review>>
There == ch.status # "none"
Accepting == ch.status = "open" /\ ~ch.past
Invited == {d \in Developers : invite[d] # "none"}
Begun == \E d \in Developers : review[d].status # "none"

(* A review begins, or what it reads is about to change under it.          *)
Meets(ops) == crossed' = (crossed \/ \E s \in Servers : job[s].op \in ops)
Disturbing == {"submit", "withdraw", "update"}

(* What a request needs of the submission it reads.                        *)
Text(d) == [NoSub EXCEPT !.status = sub[d].status, !.revision = sub[d].revision]
Shares(d) == [NoSub EXCEPT !.ratings = sub[d].ratings, !.feedback = sub[d].feedback]

(* What a request writes into a column it has read as "from".              *)
Column(from, to, now) == IF to = from THEN now ELSE to

-----------------------------------------------------------------------------
(* The recruiter and the challenge.  create_challenge makes a draft; after *)
(* a deletion it is another challenge.                                     *)
Create ==
    /\ ~There /\ \A s \in Servers : Is(s, "idle")
    /\ \E public \in BOOLEAN :
           ch' = [status |-> "draft", past |-> FALSE, public |-> public, rubric |-> "first"]
    /\ crossed' = FALSE /\ UNCHANGED <<invite, sub, review, job>>

(* update_challenge: not once closed; the rubric not once a review has     *)
(* begun; the visibility only of a draft; a new deadline lies ahead.       *)
OtherRubric(read) == CHOOSE rubric \in Rubrics : rubric # read
AskUpdate(s, column) ==
    /\ ch.status \in {"draft", "open"}
    /\ \/ column = "past" /\ ch.past
       \/ column = "rubric" /\ ~Begun
       \/ column = "public" /\ ch.status = "draft"
    /\ Ask(s, [Idle EXCEPT !.op = "update", !.column = column,
                           !.rubric = IF column = "rubric" THEN OtherRubric(ch.rubric) ELSE "first",
                           !.yes = (column = "public" /\ ~ch.public)])
    /\ Meets({"review"}) /\ RowsSame

Update(s) ==
    /\ Is(s, "update")
    /\ ch' = IF ~There THEN ch
             ELSE CASE job[s].column = "past" -> [ch EXCEPT !.past = FALSE]
                    [] job[s].column = "public" -> [ch EXCEPT !.public = job[s].yes]
                    [] job[s].column = "rubric" -> [ch EXCEPT !.rubric = job[s].rubric]
    /\ End(s) /\ UNCHANGED <<invite, sub, review, crossed>>

(* publish_challenge, also of one that was closed; close_challenge.        *)
AskPublish(s) ==
    /\ There /\ ch.status # "open" /\ ~ch.past
    /\ Ask(s, [Idle EXCEPT !.op = "publish"])
    /\ RowsSame /\ UNCHANGED crossed

AskClose(s) ==
    /\ ch.status = "open"
    /\ Ask(s, [Idle EXCEPT !.op = "close"])
    /\ RowsSame /\ UNCHANGED crossed

SetStatus(s) ==
    /\ job[s].op \in {"publish", "close"}
    /\ ch' = IF There THEN [ch EXCEPT !.status = IF Is(s, "publish") THEN "open" ELSE "closed"] ELSE ch
    /\ End(s) /\ UNCHANGED <<invite, sub, review, crossed>>

(* delete_challenge: only without submissions when it looks; the database  *)
(* takes every row of the challenge along.                                 *)
AskDelete(s) ==
    /\ There /\ \A d \in Developers : sub[d].status = "none"
    /\ Ask(s, [Idle EXCEPT !.op = "delete"])
    /\ RowsSame /\ UNCHANGED crossed

Delete(s) ==
    /\ Is(s, "delete")
    /\ ch' = NoChallenge
    /\ invite' = [d \in Developers |-> "none"]
    /\ sub' = [d \in Developers |-> NoSub] /\ review' = [d \in Developers |-> NoReview]
    /\ End(s) /\ UNCHANGED crossed

DeadlinePasses ==
    /\ There /\ ~ch.past /\ ch' = [ch EXCEPT !.past = TRUE]
    /\ UNCHANGED <<invite, sub, review, crossed, job>>

-----------------------------------------------------------------------------
(* invite_developers, one developer at a time: a withdrawn invitation is   *)
(* made pending again, any other is skipped; the day's invitations are     *)
(* counted once.  Who may be invited is left out.                          *)
AskInvite(s, d) ==
    /\ Accepting /\ invite[d] \in {"none", "withdrawn"}
    /\ Cardinality(Invited) < DailyInvites
    /\ Ask(s, [Idle EXCEPT !.op = "invite", !.who = d, !.answer = invite[d]])
    /\ RowsSame /\ UNCHANGED crossed

DoInvite(s) ==
    LET d == job[s].who IN
    /\ Is(s, "invite")
    /\ invite' = IF There /\ (job[s].answer = "none") = (invite[d] = "none")
                 THEN [invite EXCEPT ![d] = "pending"] ELSE invite
    /\ End(s) /\ UNCHANGED <<ch, sub, review, crossed>>

(* withdraw_invitation; accept_invitation and decline_invitation: only a   *)
(* pending one when it is read.                                            *)
AskAnswer(s, d, answer) ==
    /\ invite[d] = "pending"
    /\ Ask(s, [Idle EXCEPT !.op = IF answer = "withdrawn" THEN "uninvite" ELSE "answer",
                           !.who = d, !.answer = answer])
    /\ RowsSame /\ UNCHANGED crossed

Answer(s) ==
    /\ job[s].op \in {"uninvite", "answer"}
    /\ invite' = IF There THEN [invite EXCEPT ![job[s].who] = job[s].answer] ELSE invite
    /\ End(s) /\ UNCHANGED <<ch, sub, review, crossed>>

-----------------------------------------------------------------------------
(* submit_work: the challenge must be open to the developer and accept     *)
(* work; nothing is changed once a review has begun ...                    *)
MayView(d) ==
    /\ There /\ ch.status # "draft"
    /\ \/ sub[d].status # "none"
       \/ invite[d] \in {"pending", "accepted"}
       \/ ch.public /\ ch.status = "open"

AlwaysOpen(d) == TRUE
Unlocked(d) == sub[d].status \notin Locked
AskSubmit(s, d) ==
    /\ MayView(d) /\ Accepting /\ (ch.public \/ invite[d] = "accepted")
    /\ Unlocked(d) /\ sub[d].revision < MaxRevision
    /\ Ask(s, [Idle EXCEPT !.op = "submit", !.who = d, !.sub = Text(d)])
    /\ Meets({"review"}) /\ RowsSame

(* ... and the row gets a new revision, or is inserted.                    *)
Submit(s) ==
    LET d == job[s].who
        read == job[s].sub IN
    /\ Is(s, "submit")
    /\ sub' = IF There /\ (read.status = "none") = (sub[d].status = "none")
              THEN [sub EXCEPT ![d].revision = read.revision + 1,
                               ![d].status = Column(read.status, "submitted", @)]
              ELSE sub
    /\ End(s) /\ UNCHANGED <<ch, invite, review, crossed>>

(* withdraw_submission *)
AskWithdraw(s, d) ==
    /\ sub[d].status = "submitted"
    /\ Ask(s, [Idle EXCEPT !.op = "withdraw", !.who = d])
    /\ Meets({"review"}) /\ RowsSame

Withdraw(s) ==
    LET d == job[s].who IN
    /\ Is(s, "withdraw")
    /\ sub' = IF sub[d].status = "none" THEN sub ELSE [sub EXCEPT ![d].status = "withdrawn"]
    /\ End(s) /\ UNCHANGED <<ch, invite, review, crossed>>

(* save_review: of a submission that is not withdrawn, not once released;  *)
(* a release (yes) rates every criterion ...                               *)
AskReview(s, d, release) ==
    /\ sub[d].status \notin {"none", "withdrawn"} /\ review[d].status # "released"
    /\ Ask(s, [Idle EXCEPT !.op = "review", !.who = d, !.rubric = ch.rubric,
                           !.sub = Text(d), !.review = review[d].status, !.yes = release])
    /\ Meets(Disturbing \cup {"review"}) /\ RowsSame

(* ... ratings and feedback are written anew, the two statuses as far as   *)
(* they differ from what was read.                                         *)
WrittenPlainly(s, status) == status
Written(s, status) == Column(job[s].review, status, review[job[s].who].status)
SaveReview(s) ==
    LET d == job[s].who
        first == job[s].review = "none" IN
    /\ Is(s, "review")
    /\ IF sub[d].status = "none" \/ first # (review[d].status = "none")
       THEN UNCHANGED <<sub, review>>
       ELSE /\ review' = [review EXCEPT ![d] =
                   [status |-> Written(s, IF job[s].yes THEN "released" ELSE "draft"),
                    of |-> IF first THEN job[s].sub.revision ELSE @.of,
                    rubric |-> job[s].rubric, complete |-> job[s].yes]]
            /\ sub' = [sub EXCEPT ![d].status =
                   Column(job[s].sub.status, IF job[s].yes THEN "reviewed" ELSE "in_review", @)]
    /\ End(s) /\ UNCHANGED <<ch, invite, crossed>>

(* set_sharing: of a released review; the feedback only with the ratings.  *)
UnreleasedToo(d) == review[d].status # "none"
Shareable(d) == review[d].status = "released"
AskShare(s, d, ratings, feedback) ==
    /\ sub[d].status # "none" /\ Shareable(d)
    /\ Ask(s, [Idle EXCEPT !.op = "share", !.who = d, !.sub = Shares(d),
                           !.yes = ratings, !.also = (ratings /\ feedback)])
    /\ RowsSame /\ UNCHANGED crossed

Share(s) ==
    LET d == job[s].who IN
    /\ Is(s, "share")
    /\ sub' = IF sub[d].status = "none" THEN sub
              ELSE [sub EXCEPT ![d].ratings = Column(job[s].sub.ratings, job[s].yes, @),
                               ![d].feedback = Column(job[s].sub.feedback, job[s].also, @)]
    /\ End(s) /\ UNCHANGED <<ch, invite, review, crossed>>

Next ==
    \/ Create \/ DeadlinePasses
    \/ \E s \in Servers :
           \/ \E column \in Columns : AskUpdate(s, column)
           \/ AskPublish(s) \/ AskClose(s) \/ AskDelete(s)
           \/ \E d \in Developers :
                  \/ AskInvite(s, d) \/ AskSubmit(s, d) \/ AskWithdraw(s, d)
                  \/ \E answer \in {"accepted", "declined", "withdrawn"} : AskAnswer(s, d, answer)
                  \/ \E release \in BOOLEAN : AskReview(s, d, release)
                  \/ \E ratings, feedback \in BOOLEAN : AskShare(s, d, ratings, feedback)
           \/ Update(s) \/ SetStatus(s) \/ Delete(s) \/ DoInvite(s) \/ Answer(s)
           \/ Submit(s) \/ Withdraw(s) \/ SaveReview(s) \/ Share(s)

Spec == Init /\ [][Next]_vars

-----------------------------------------------------------------------------
(* Properties.                                                             *)

(* "Saving starts the review, which locks resubmission" (challenges.py:    *)
(* 360): a submission under review is the revision the review began with.  *)
ReviewLocks ==
    \A d \in Developers : review[d].status # "none" =>
        sub[d].status \in Locked /\ sub[d].revision = review[d].of

(* ... which holds, as do "The rubric cannot change once a review has      *)
(* started" (181) and "Rate every criterion and write feedback before      *)
(* releasing" (370), until a review overlaps another review, a submission, *)
(* a withdrawal or an update of the challenge.                             *)
ReviewedAsWritten ==
    ~crossed =>
        /\ ReviewLocks
        /\ \A d \in Developers :
               /\ review[d].status # "none" => review[d].rubric = ch.rubric
               /\ review[d].status = "released" => review[d].complete

(* A developer has been shown a released review: whatever requests         *)
(* overlap, a draft saved at the same moment included, it does not turn    *)
(* into a draft again and is only lost with the challenge.                 *)
ReleasedStays ==
    [][\A d \in Developers :
           review[d].status = "released" => review'[d].status = "released" \/ ch'.status = "none"]_vars

(* "A review stays between the developer and the recruiter until the       *)
(* developer chooses to show it" (models/challenge.py:3), "Show a released *)
(* review" (challenges.py:532): what the portfolio shows has been released.*)
SharedIsReleased ==
    \A d \in Developers : (sub[d].ratings \/ sub[d].feedback) => review[d].status = "released"

(* However requests about one submission overlap, both hold.               *)
ReviewsHold == ReviewedAsWritten /\ SharedIsReleased
=============================================================================
