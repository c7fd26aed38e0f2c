------------------------- MODULE ConnectionsProofs -------------------------
(***************************************************************************)
(* Proofs about module Connections, for any number of worker threads: type *)
(* correctness, that a connection takes two, and that a decline is quiet.  *)
(***************************************************************************)
EXTENDS Connections, TLAPS

(* What a request q that is being served may count on: its caller is one   *)
(* of the pair; the row it read is there; the person it accepts has asked; *)
(* and if the row names somebody else than it read, that person has asked. *)
Sound(q) ==
    /\ q.op # "idle" => q.by \in Pair
    /\ q.op = "choose" => q.kind \in Kinds
    /\ q.read = "row" => row \in Row
    /\ (q.op = "accept" /\ q.read = "row") => Other(q.by) \in row.said
    /\ (q.op = "send" /\ q.read = "row" /\ ~q.turns) =>
           (row.from = q.by \/ row.from \in row.said)

Inv ==
    /\ TypeOK
    /\ row.status = "pending" => row.from \in row.said
    /\ \A t \in Threads : Sound(tx[t])
    /\ TakesTwo

LEMMA OtherFacts ==
    \A u \in Pair : Other(u) \in Pair /\ Other(u) # u /\ Pair = {u, Other(u)}
BY PairAssumption DEF Pair, Other

LEMMA InitInv == Init => Inv
BY DEF Init, Inv, TypeOK, Row, NoRow, Tx, Idle, Kinds, Statuses, Pair, Sound, TakesTwo

(* Either there is no row, or it has the columns of one.                   *)
LEMMA RowOrNone ==
    ASSUME TypeOK
    PROVE  /\ row = NoRow \/ row \in Row
           /\ row # NoRow => row \in Row
           /\ row.status # "none" => row \in Row
           /\ NoRow \notin Row
BY PairAssumption DEF TypeOK, Row, NoRow, Pair, Statuses

-----------------------------------------------------------------------------
(* Starting a request and finishing one.                                   *)

LEMMA StartInv ==
    ASSUME Inv, NEW t \in Threads, NEW q \in Tx, Sound(q), Start(t, q)
    PROVE  Inv'
<1>1. TypeOK'
  BY DEF Inv, TypeOK, Start
<1>2. UNCHANGED row /\ \A s \in Threads : tx'[s] = tx[s] \/ tx'[s] = q
  BY DEF Inv, TypeOK, Start
<1>3. \A s \in Threads : Sound(tx[s])'
  BY <1>2 DEF Inv, Sound
<1> QED
  BY <1>1, <1>2, <1>3 DEF Inv, TakesTwo

LEMMA FinishType ==
    ASSUME TypeOK, NEW t \in Threads, Finish(t) \/ FinishAndLose(t)
    PROVE  tx' \in [Threads -> Tx]
<1>1. Idle \in Tx
  BY DEF Idle, Tx
<1>2. CASE Finish(t)
  BY <1>1, <1>2 DEF TypeOK, Finish
<1>3. CASE FinishAndLose(t)
  <2>1. ASSUME NEW s \in Threads PROVE tx'[s] \in Tx
    BY <1>1, <1>3 DEF TypeOK, FinishAndLose, Tx
  <2>2. tx' = [s \in Threads |-> tx'[s]]
    BY <1>3 DEF FinishAndLose
  <2> QED BY <2>1, <2>2
<1> QED BY <1>2, <1>3

(* The row is deleted: nobody counts on it any more.                       *)
LEMMA LoseInv ==
    ASSUME Inv, NEW t \in Threads, row' = NoRow, FinishAndLose(t),
           choice' \in [Pair -> Kinds \cup {"none"}], UNCHANGED cooling
    PROVE  Inv'
<1>1. TypeOK'
  BY FinishType DEF Inv, TypeOK
<1>2. ASSUME NEW s \in Threads PROVE Sound(tx[s])'
  <2>1. tx[s] \in Tx
    BY DEF Inv, TypeOK
  <2>2. tx'[s].read # "row"
    BY <2>1 DEF FinishAndLose, Idle, Tx
  <2>3. /\ tx'[s].op # "idle" => tx'[s].op = tx[s].op
        /\ tx'[s].op # "idle" => tx'[s].by = tx[s].by /\ tx'[s].kind = tx[s].kind
    BY <2>1 DEF FinishAndLose, Idle, Tx
  <2> QED BY <2>2, <2>3 DEF Inv, Sound
<1>3. TakesTwo' /\ (row.status = "pending" => row.from \in row.said)'
  BY DEF TakesTwo, NoRow
<1> QED BY <1>1, <1>2, <1>3 DEF Inv

(* The row is written, or left as it is.                                   *)
LEMMA WriteInv ==
    ASSUME Inv, NEW t \in Threads, Finish(t), cooling' \in SUBSET Pair,
           choice' \in [Pair -> Kinds \cup {"none"}],
           row' = row \/
           (/\ row \in Row /\ row' \in Row /\ row.said \subseteq row'.said
            /\ row'.from = row.from \/ row'.from \in row'.said),
           row'.status = "pending" => row'.from \in row'.said,
           row'.status = "accepted" => row'.said = Pair
    PROVE  Inv'
<1>1. TypeOK'
  BY FinishType DEF Inv, TypeOK
<1>2. ASSUME NEW s \in Threads PROVE Sound(tx[s])'
  <2>1. tx'[s] = tx[s] \/ tx'[s] = Idle
    BY DEF Inv, TypeOK, Finish
  <2>2. CASE row' = row
    BY <2>1, <2>2 DEF Inv, Sound, Idle
  <2>3. CASE row' # row
    BY <2>1, <2>3 DEF Inv, Sound, Idle
  <2> QED BY <2>2, <2>3
<1> QED BY <1>1, <1>2 DEF Inv, TakesTwo

(* A first row is inserted: nobody can have read one.                      *)
LEMMA InsertInv ==
    ASSUME Inv, NEW t \in Threads, Finish(t), UNCHANGED <<choice, cooling>>,
           tx[t].by \in Pair, row = NoRow,
           row' = [from |-> tx[t].by, status |-> "pending", said |-> {tx[t].by}]
    PROVE  Inv'
<1>1. TypeOK'
  BY FinishType DEF Inv, TypeOK, Row, Statuses
<1>2. ASSUME NEW s \in Threads PROVE Sound(tx[s])'
  <2>1. tx'[s] = tx[s] \/ tx'[s] = Idle
    BY DEF Inv, TypeOK, Finish
  <2>2. tx[s].read # "row"
    BY RowOrNone DEF Inv, Sound
  <2> QED BY <2>1, <2>2 DEF Inv, Sound, Idle
<1>3. TakesTwo' /\ (row.status = "pending" => row.from \in row.said)'
  BY DEF TakesTwo
<1> QED BY <1>1, <1>2, <1>3 DEF Inv

-----------------------------------------------------------------------------
(* One lemma per action.                                                   *)

LEMMA SendInv ==
    ASSUME Inv, NEW t \in Threads, NEW me \in Pair, Send(t, me)
    PROVE  Inv'
<1> DEFINE q == [Idle EXCEPT !.op = "send", !.pc = "commit", !.by = me,
                             !.read = IF Between THEN "row" ELSE "nothing",
                             !.turns = Between /\ row.from # me]
<1>1. q \in Tx
  BY DEF Idle, Tx
<1>2. Sound(q)
  BY RowOrNone DEF Sound, Idle, Between, Inv
<1> HIDE DEF q
<1>3. Start(t, q)
  BY DEF Send, q
<1> QED BY <1>1, <1>2, <1>3, StartInv

(* Accepting and declining start alike, from a pending request of the      *)
(* other person.                                                           *)
LEMMA AnswerInv ==
    ASSUME Inv, NEW t \in Threads, NEW me \in Pair, Accept(t, me) \/ Decline(t, me)
    PROVE  Inv'
<1>1. row \in Row /\ Other(me) \in row.said
  BY RowOrNone DEF Accept, Decline, IncomingPending, Inv
<1>2. ASSUME NEW op \in {"accept", "decline"},
             Start(t, [Idle EXCEPT !.op = op, !.pc = "commit", !.by = me, !.read = "row"])
      PROVE  Inv'
  <2> DEFINE q == [Idle EXCEPT !.op = op, !.pc = "commit", !.by = me, !.read = "row"]
  <2>1. q \in Tx
    BY DEF Idle, Tx
  <2>2. Sound(q)
    BY <1>1 DEF Sound, Idle
  <2> QED BY <1>2, <2>1, <2>2, StartInv
<1> QED BY <1>2 DEF Accept, Decline

LEMMA RemoveInv ==
    ASSUME Inv, NEW t \in Threads, NEW me \in Pair, Remove(t, me)
    PROVE  Inv'
<1> DEFINE q == [Idle EXCEPT !.op = "remove", !.pc = "commit", !.by = me, !.read = "row"]
<1>1. q \in Tx
  BY DEF Idle, Tx
<1>2. row \in Row
  BY RowOrNone DEF Remove, Inv
<1>3. Sound(q)
  BY <1>2 DEF Sound, Idle
<1>4. Start(t, q)
  BY DEF Remove
<1> QED BY <1>1, <1>3, <1>4, StartInv

LEMMA ChooseInv ==
    ASSUME Inv, NEW t \in Threads, NEW me \in Pair, NEW kind \in Kinds, Choose(t, me, kind)
    PROVE  Inv'
<1> DEFINE q == [Idle EXCEPT !.op = "choose",
                             !.pc = IF kind = "block" THEN "cut" ELSE "commit",
                             !.by = me, !.kind = kind, !.was = choice[me]]
<1>1. q \in Tx
  BY DEF Idle, Tx, Inv, TypeOK
<1>2. Sound(q)
  BY DEF Sound, Idle
<1> HIDE DEF q
<1>3. Start(t, q)
  BY DEF Choose, q
<1> QED BY <1>1, <1>2, <1>3, StartInv

LEMMA CutInv ==
    ASSUME Inv, NEW t \in Threads, Cut(t)
    PROVE  Inv'
<1> DEFINE q == [tx[t] EXCEPT !.pc = "commit", !.cut = Between]
<1>1. tx[t] \in Tx /\ Sound(tx[t])
  BY DEF Inv, TypeOK
<1>2. q \in Tx
  BY <1>1 DEF Tx, Between
<1>3. Sound(q)
  BY <1>1 DEF Sound, Tx
<1> HIDE DEF q
<1>4. tx' = [tx EXCEPT ![t] = q] /\ UNCHANGED <<row, choice, cooling>>
  BY DEF Cut, q, Inv, TypeOK
<1>5. TypeOK'
  BY <1>2, <1>4 DEF Inv, TypeOK
<1>6. \A s \in Threads : tx'[s] = tx[s] \/ tx'[s] = q
  BY <1>4 DEF Inv, TypeOK
<1>7. \A s \in Threads : Sound(tx[s])'
  BY <1>3, <1>4, <1>6 DEF Inv, Sound
<1> QED BY <1>4, <1>5, <1>7 DEF Inv, TakesTwo

LEMMA CommitSendInv ==
    ASSUME Inv, NEW t \in Threads, CommitSend(t)
    PROVE  Inv'
<1>1. tx[t] \in Tx /\ Sound(tx[t]) /\ tx[t].op = "send" /\ tx[t].by \in Pair
  BY DEF Inv, TypeOK, CommitSend, AtCommit, Sound
<1>2. Finish(t) /\ UNCHANGED <<choice, cooling>>
  BY DEF CommitSend
<1>3. CASE tx[t].read = "row"
  <2>1. row \in Row /\ row' = Requested(t)
    BY <1>1, <1>3 DEF CommitSend, Sound
  <2>2. /\ row'.status = "pending" /\ row'.said = row.said \cup {tx[t].by}
        /\ row'.from = (IF tx[t].turns THEN tx[t].by ELSE row.from)
        /\ row' \in Row
    BY <1>1, <2>1 DEF Requested, Row, Statuses
  <2>3. row'.from \in row'.said
    BY <1>1, <1>3, <2>2 DEF Sound, Tx
  <2>4. row'.from = row.from \/ row'.from \in row'.said
    BY <2>3
  <2> QED BY <1>2, <2>1, <2>2, <2>3, <2>4, WriteInv DEF Inv, TypeOK
<1>4. CASE tx[t].read = "nothing" /\ ~Between
  <2>1. row' = [from |-> tx[t].by, status |-> "pending", said |-> {tx[t].by}]
    BY <1>4 DEF CommitSend
  <2>2. row = NoRow
    BY <1>4 DEF Between
  <2> QED BY <1>1, <1>2, <2>1, <2>2, InsertInv
<1>5. CASE tx[t].read # "row" /\ ~(tx[t].read = "nothing" /\ ~Between)
  <2>1. row' = row
    BY <1>5 DEF CommitSend
  <2> QED BY <1>2, <2>1, WriteInv DEF Inv, TypeOK, TakesTwo
<1> QED BY <1>3, <1>4, <1>5

LEMMA CommitAcceptInv ==
    ASSUME Inv, NEW t \in Threads, CommitAccept(t)
    PROVE  Inv'
<1>1. tx[t] \in Tx /\ Sound(tx[t]) /\ tx[t].op = "accept" /\ tx[t].by \in Pair
  BY DEF Inv, TypeOK, CommitAccept, AtCommit, Sound
<1>2. Finish(t) /\ UNCHANGED <<choice, cooling>>
  BY DEF CommitAccept
<1>3. CASE tx[t].read = "row"
  <2>1. row \in Row /\ Other(tx[t].by) \in row.said
    BY <1>1, <1>3 DEF Sound
  <2>2. row' = [row EXCEPT !.status = "accepted", !.said = row.said \cup {tx[t].by}]
    BY <1>3 DEF CommitAccept
  <2>3. /\ row'.status = "accepted" /\ row'.said = row.said \cup {tx[t].by}
        /\ row'.from = row.from /\ row' \in Row
    BY <1>1, <2>1, <2>2 DEF Row, Statuses
  <2>4. row'.said = Pair
    BY <1>1, <2>1, <2>3, OtherFacts DEF Row
  <2> QED BY <1>2, <2>1, <2>3, <2>4, WriteInv DEF Inv, TypeOK
<1>4. CASE tx[t].read # "row"
  <2>1. row' = row
    BY <1>4 DEF CommitAccept
  <2> QED BY <1>2, <2>1, WriteInv DEF Inv, TypeOK, TakesTwo
<1> QED BY <1>3, <1>4

LEMMA CommitDeclineInv ==
    ASSUME Inv, NEW t \in Threads, CommitDecline(t)
    PROVE  Inv'
<1>1. tx[t] \in Tx /\ Sound(tx[t])
  BY DEF Inv, TypeOK
<1>2. Finish(t) /\ UNCHANGED choice
  BY DEF CommitDecline
<1>3. CASE tx[t].read = "row"
  <2>1. row \in Row
    BY <1>1, <1>3 DEF Sound
  <2>2. /\ row' = [row EXCEPT !.status = "declined"]
        /\ cooling' = cooling \cup {row.from}
    BY <1>3 DEF CommitDecline
  <2>3. /\ row'.status = "declined" /\ row'.said = row.said
        /\ row'.from = row.from /\ row' \in Row
        /\ cooling' \in SUBSET Pair
    BY <2>1, <2>2 DEF Row, Statuses, Inv, TypeOK
  <2> QED BY <1>2, <2>1, <2>3, WriteInv DEF Inv, TypeOK
<1>4. CASE tx[t].read # "row"
  <2>1. row' = row /\ cooling' = cooling
    BY <1>4 DEF CommitDecline
  <2> QED BY <1>2, <2>1, WriteInv DEF Inv, TypeOK, TakesTwo
<1> QED BY <1>3, <1>4

LEMMA CommitRemoveInv ==
    ASSUME Inv, NEW t \in Threads, CommitRemove(t)
    PROVE  Inv'
<1>1. CASE tx[t].read = "row"
  BY <1>1, LoseInv DEF CommitRemove, Inv, TypeOK
<1>2. CASE tx[t].read # "row"
  BY <1>2, WriteInv DEF CommitRemove, Inv, TypeOK, TakesTwo
<1> QED BY <1>1, <1>2

LEMMA CommitChooseInv ==
    ASSUME Inv, NEW t \in Threads, CommitChoose(t)
    PROVE  Inv'
<1>1. tx[t] \in Tx /\ Sound(tx[t]) /\ tx[t].op = "choose" /\ tx[t].kind \in Kinds
  BY DEF Inv, TypeOK, CommitChoose, AtCommit, Sound
<1>2. choice' \in [Pair -> Kinds \cup {"none"}] /\ UNCHANGED cooling
  BY <1>1 DEF CommitChoose, Inv, TypeOK
<1>3. CASE row' = NoRow /\ FinishAndLose(t)
  BY <1>2, <1>3, LoseInv
<1>4. CASE UNCHANGED row /\ Finish(t)
  BY <1>2, <1>4, WriteInv DEF Inv, TypeOK, TakesTwo
<1> QED BY <1>3, <1>4 DEF CommitChoose

LEMMA NextInv == Inv /\ [Next]_vars => Inv'
<1> SUFFICES ASSUME Inv, [Next]_vars PROVE Inv'
  OBVIOUS
<1>1. CASE UNCHANGED <<row, tx>> /\ cooling' \in SUBSET Pair
                          /\ choice' \in [Pair -> Kinds \cup {"none"}]
  BY <1>1 DEF Inv, TypeOK, Sound, TakesTwo
<1>2. ASSUME NEW t \in Threads, Request(t) PROVE Inv'
  BY <1>2, SendInv, AnswerInv, RemoveInv, ChooseInv DEF Request
<1>3. ASSUME NEW t \in Threads, Proceed(t) PROVE Inv'
  BY <1>3, CutInv, CommitSendInv, CommitAcceptInv, CommitDeclineInv, CommitRemoveInv,
     CommitChooseInv DEF Proceed
<1>4. ASSUME NEW u \in Pair, Clear(u) \/ CooldownPasses(u) PROVE Inv'
  BY <1>1, <1>4 DEF Clear, CooldownPasses, Inv, TypeOK
<1>5. CASE UNCHANGED vars
  BY <1>1, <1>5 DEF vars, Inv, TypeOK
<1> QED BY <1>2, <1>3, <1>4, <1>5 DEF Next

(* The pair's row keeps its columns and statuses (models/connection.py).   *)
THEOREM TypeCorrect == Spec => []TypeOK
<1>1. Inv => TypeOK
  BY DEF Inv
<1> QED BY <1>1, InitInv, NextInv, PTL DEF Spec

(* Both people of a connection have asked for it or accepted it, however   *)
(* many requests and answers of both are being served at once              *)
(* (connections.py:1).                                                     *)
THEOREM TakesTwoHolds == Spec => []TakesTwo
<1>1. Inv => TakesTwo
  BY DEF Inv
<1> QED BY <1>1, InitInv, NextInv, PTL DEF Spec

-----------------------------------------------------------------------------
(* What a step shows to somebody who sees their request as sent.           *)

Quiet(u) ==
    (StateSeen(u) = "pending_sent" /\ Pages(u)' # Pages(u)) =>
        \/ row' = NoRow \/ row'.status = "accepted" \/ row'.from = Other(u)
        \/ u \in cooling /\ u \notin cooling'

LEMMA SameView ==
    ASSUME NEW u \in Pair, UNCHANGED <<row, cooling>>
    PROVE  Quiet(u)
<1>1. Pages(u)' = Pages(u)
  BY DEF Pages, StateSeen, IncomingPending, Outgoing, Connected, Suggested, CoolingDown, Between
<1> QED BY <1>1 DEF Quiet

(* Whoever sees a request of theirs as sent sees it so on every page.      *)
SentOnEveryPage == [state |-> "pending_sent", incoming |-> FALSE, outgoing |-> TRUE,
                    connected |-> FALSE, suggested |-> FALSE]

LEMMA PagesAgree ==
    ASSUME NEW u \in Pair
    PROVE  /\ StateSeen(u) = "pending_sent" => Pages(u) = SentOnEveryPage
           /\ StateSeen(u)' = "pending_sent" => Pages(u)' = SentOnEveryPage
<1>1. ASSUME StateSeen(u) = "pending_sent" PROVE Pages(u) = SentOnEveryPage
  <2>1. /\ row.status = "pending" \/ CoolingDown
        /\ row.from = u /\ row.status # "accepted" /\ row # NoRow
    BY <1>1 DEF StateSeen, CoolingDown, NoRow
  <2>2. IncomingPending(u) = FALSE
    BY <2>1, OtherFacts DEF IncomingPending
  <2>3. Outgoing(u) = TRUE
    BY <2>1 DEF Outgoing
  <2>4. Connected = FALSE /\ Suggested = FALSE
    BY <2>1 DEF Connected, Suggested, Between
  <2> QED BY <1>1, <2>2, <2>3, <2>4 DEF Pages, SentOnEveryPage
<1>2. ASSUME StateSeen(u)' = "pending_sent" PROVE Pages(u)' = SentOnEveryPage
  <2>1. /\ row'.status = "pending" \/ CoolingDown'
        /\ row'.from = u /\ row'.status # "accepted" /\ row' # NoRow
    BY <1>2 DEF StateSeen, CoolingDown, NoRow
  <2>2. IncomingPending(u)' = FALSE
    BY <2>1, OtherFacts DEF IncomingPending
  <2>3. Outgoing(u)' = TRUE
    BY <2>1 DEF Outgoing
  <2>4. Connected' = FALSE /\ Suggested' = FALSE
    BY <2>1 DEF Connected, Suggested, Between
  <2> QED BY <1>2, <2>2, <2>3, <2>4 DEF Pages, SentOnEveryPage
<1> QED BY <1>1, <1>2

(* So it is enough to look at the state.                                   *)
LEMMA StateTellsAll ==
    ASSUME NEW u \in Pair, StateSeen(u) = "pending_sent" => StateSeen(u)' = "pending_sent"
    PROVE  Quiet(u)
BY PagesAgree DEF Quiet

LEMMA QuietStep ==
    ASSUME Inv, [Next]_vars, NEW u \in Pair
    PROVE  Quiet(u)
<1>1. ASSUME NEW t \in Threads, Request(t) PROVE Quiet(u)
  BY <1>1, SameView DEF Request, Send, Accept, Decline, Remove, Choose, Start
<1>2. ASSUME NEW t \in Threads, CommitSend(t), row' # row PROVE Quiet(u)
  <2>1. tx[t] \in Tx /\ Sound(tx[t]) /\ tx[t].by \in Pair
    BY <1>2 DEF Inv, TypeOK, CommitSend, AtCommit, Sound
  <2>2. row'.status = "pending" /\ row' \in Row
    <3>1. CASE tx[t].read = "row"
      BY <1>2, <2>1, <3>1 DEF CommitSend, Requested, Sound, Row, Statuses
    <3>2. CASE tx[t].read # "row"
      BY <1>2, <2>1, <3>2 DEF CommitSend, Row, Statuses
    <3> QED BY <3>1, <3>2
  <2>3. row'.from = u \/ row'.from = Other(u)
    BY <2>2, OtherFacts DEF Row
  <2> QED BY <2>2, <2>3, StateTellsAll DEF Quiet, StateSeen
<1>3. ASSUME NEW t \in Threads, CommitAccept(t), row' # row PROVE Quiet(u)
  <2>1. tx[t] \in Tx /\ Sound(tx[t]) /\ tx[t].read = "row"
    BY <1>3 DEF Inv, TypeOK, CommitAccept
  <2>2. row'.status = "accepted"
    BY <1>3, <2>1 DEF CommitAccept, Sound, Row
  <2> QED BY <2>2 DEF Quiet
<1>4. ASSUME NEW t \in Threads, CommitDecline(t), tx[t].read = "row" PROVE Quiet(u)
  <2>1. row \in Row
    BY <1>4 DEF Inv, Sound
  <2>2. /\ row'.status = "declined" /\ row'.from = row.from
        /\ cooling' = cooling \cup {row.from}
    BY <1>4, <2>1 DEF CommitDecline, Row
  <2>3. row.from = u \/ row.from = Other(u)
    BY <2>1, OtherFacts DEF Row
  <2> QED BY <2>2, <2>3, StateTellsAll DEF Quiet, StateSeen, CoolingDown
<1>5. ASSUME NEW t \in Threads, Proceed(t) PROVE Quiet(u)
  <2>1. CASE Cut(t)
    BY <2>1, SameView DEF Cut
  <2>2. CASE CommitSend(t)
    BY <1>2, <2>2, SameView DEF CommitSend
  <2>3. CASE CommitAccept(t)
    BY <1>3, <2>3, SameView DEF CommitAccept
  <2>4. CASE CommitDecline(t)
    BY <1>4, <2>4, SameView DEF CommitDecline
  <2>5. CASE CommitRemove(t)
    BY <2>5, SameView DEF CommitRemove, Quiet
  <2>6. CASE CommitChoose(t)
    BY <2>6, SameView DEF CommitChoose, Quiet
  <2> QED BY <1>5, <2>1, <2>2, <2>3, <2>4, <2>5, <2>6 DEF Proceed
<1>6. ASSUME NEW v \in Pair, Clear(v) PROVE Quiet(u)
  BY <1>6, SameView DEF Clear
<1>7. ASSUME NEW v \in Pair, CooldownPasses(v) PROVE Quiet(u)
  <2>1. CASE v = u
    BY <1>7, <2>1 DEF CooldownPasses, Quiet
  <2>2. CASE v # u
    BY <1>7, <2>2, StateTellsAll DEF CooldownPasses, Quiet, StateSeen, CoolingDown
  <2> QED BY <2>1, <2>2
<1>8. CASE UNCHANGED vars
  BY <1>8, SameView DEF vars
<1> QED BY <1>1, <1>5, <1>6, <1>7, <1>8 DEF Next

(* What the requester sees of a request changes only when it is removed,   *)
(* accepted, asked back or forgotten with the cooldown, never because it   *)
(* was declined (connections.py:54).                                       *)
THEOREM QuietDeclineHolds == Spec => QuietDecline
<1>1. Inv /\ [Next]_vars => \A u \in Pair : Quiet(u)
  BY QuietStep
<1>2. Inv /\ [Next]_vars =>
          [\A u \in Pair :
              (StateSeen(u) = "pending_sent" /\ Pages(u)' # Pages(u)) =>
                  \/ row' = NoRow \/ row'.status = "accepted" \/ row'.from = Other(u)
                  \/ u \in cooling /\ u \notin cooling']_vars
  BY <1>1 DEF Quiet
<1> QED BY <1>2, InitInv, NextInv, PTL DEF Spec, QuietDecline
=============================================================================
