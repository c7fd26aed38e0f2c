---------------------------- MODULE Connections ----------------------------
(***************************************************************************)
(* The connection of one pair of people, and what each chose about the     *)
(* other: block, restrict or nothing (app/routes/connections.py,           *)
(* app/routes/safety.py, app/services/safety.py).  No handler touches the  *)
(* rows of two pairs, so one pair is the whole component.                  *)
(*                                                                         *)
(* As in module Collaboration a handler reads and checks when it starts    *)
(* and writes when it commits; tx[t] is what thread t means to write.      *)
(* A request that is refused, or answered without a write, changes nothing *)
(* and is not an action.                                                   *)
(***************************************************************************)
EXTENDS Naturals

CONSTANTS
    Threads,     \* worker threads, each serving one request at a time
    A, B,        \* the two people
    Open,        \* who of them accepts connection requests
    Nobody       \* nobody

ASSUME PairAssumption == A # B /\ Nobody \notin {A, B} /\ Open \subseteq {A, B}

Pair == {A, B}
Other(u) == IF u = A THEN B ELSE A

VARIABLES
    row,         \* the pair's row of connections, or NoRow
    choice,      \* choice[u]: the kind of u's user_blocks row, or "none"
    cooling,     \* whose request was declined less than DECLINE_COOLDOWN ago
    tx           \* tx[t]: the request thread t is serving

vars == <<row, choice, cooling, tx>>

Kinds == {"block", "restrict"}
Statuses == {"pending", "accepted", "declined", "removed"}

(* said: who asked or accepted since the row exists, kept for TakesTwo.    *)
Row == [from : Pair, status : Statuses, said : SUBSET Pair]
NoRow == [from |-> Nobody, status |-> "none", said |-> {}]

(* A request being served.                                                 *)
(*   by      the caller                                                    *)
(*   read    the connections row it read, "gone" once somebody deleted it  *)
(*           (a row inserted later is another one), or "nothing"           *)
(*   turns   it will write itself into the row as the requester            *)
(*   kind    what it will choose about the other person                    *)
(*   was     the choice it read                                            *)
(*   cut     its bulk delete has run: it holds the pair's row              *)
Tx == [op : {"idle", "send", "accept", "decline", "remove", "choose"},
       pc : {"idle", "cut", "commit"}, by : Pair \cup {Nobody},
       read : {"nothing", "row", "gone"}, turns : BOOLEAN, kind : Kinds \cup {"none"},
       was : Kinds \cup {"none"}, cut : BOOLEAN]
Idle == [op |-> "idle", pc |-> "idle", by |-> Nobody, read |-> "nothing",
         turns |-> FALSE, kind |-> "none", was |-> "none", cut |-> FALSE]

(* The row is a request or a connection of the pair, in a known status.    *)
TypeOK ==
    /\ row \in Row \cup {NoRow}
    /\ choice \in [Pair -> Kinds \cup {"none"}]
    /\ cooling \in SUBSET Pair
    /\ tx \in [Threads -> Tx]

(* The pair may have a row left from when connections were not deleted but *)
(* marked "removed".                                                       *)
Init ==
    /\ row \in {NoRow} \cup [from : Pair, status : {"removed"}, said : {{}}]
    /\ choice = [u \in Pair |-> "none"]
    /\ cooling = {}
    /\ tx = [t \in Threads |-> Idle]

-----------------------------------------------------------------------------
(* What the handlers read.                                                 *)

Blocked == \E u \in Pair : choice[u] = "block"
Between == row # NoRow
CoolingDown == row.status = "declined" /\ row.from \in cooling

(* connection_state, as `me` should see it.                                *)
StateSeenPlainly(me) ==
    CASE row.status = "accepted" -> "accepted"
      [] row.status = "pending" -> IF row.from = me THEN "pending_sent" ELSE "pending_received"
      [] OTHER -> "none"
StateSeen(me) ==
    CASE row.status = "accepted" -> "accepted"
      [] row.status = "pending" -> IF row.from = me THEN "pending_sent" ELSE "pending_received"
      [] CoolingDown /\ row.from = me -> "pending_sent"
      [] OTHER -> "none"

(* _incoming_pending, and the requests listed as incoming.                 *)
AnyPending(me) == row.status = "pending"
IncomingPending(me) == row.status = "pending" /\ row.from = Other(me)

(* What the pages show `me` of the pair: connection_requests lists what    *)
(* was declined as outgoing while it cools down, my_connections only       *)
(* what was accepted, get_suggested_developers only whom no row is about.  *)
Outgoing(me) == row.from = me /\ (row.status = "pending" \/ CoolingDown)
Connected == row.status = "accepted"
Suggested == ~Between
Pages(me) == [state |-> StateSeen(me), incoming |-> IncomingPending(me),
              outgoing |-> Outgoing(me), connected |-> Connected, suggested |-> Suggested]

-----------------------------------------------------------------------------
(* The handlers up to their last read.                                     *)

Start(t, request) ==
    /\ tx[t] = Idle /\ tx' = [tx EXCEPT ![t] = request]
    /\ UNCHANGED <<row, choice, cooling>>

(* send_connection_request: a new row, or a row declined long enough ago,  *)
(* declined by the caller, or left as "removed".                           *)
Send(t, me) ==
    /\ ~Blocked /\ Other(me) \in Open
    /\ row.status \in {"none", "declined", "removed"}
    /\ ~(CoolingDown /\ row.from = me)
    /\ Start(t, [Idle EXCEPT !.op = "send", !.pc = "commit", !.by = me,
                             !.read = IF Between THEN "row" ELSE "nothing",
                             !.turns = Between /\ row.from # me])

Accept(t, me) ==
    /\ IncomingPending(me)
    /\ Start(t, [Idle EXCEPT !.op = "accept", !.pc = "commit", !.by = me, !.read = "row"])

Decline(t, me) ==
    /\ IncomingPending(me)
    /\ Start(t, [Idle EXCEPT !.op = "decline", !.pc = "commit", !.by = me, !.read = "row"])

(* remove_or_withdraw_connection: a declined row stays.                    *)
Remove(t, me) ==
    /\ \/ row.status = "pending" /\ row.from = me
       \/ row.status \in {"accepted", "removed"}
    /\ Start(t, [Idle EXCEPT !.op = "remove", !.pc = "commit", !.by = me, !.read = "row"])

(* _apply: set_person_safety, by id or by username.                        *)
Choose(t, me, kind) ==
    Start(t, [Idle EXCEPT !.op = "choose", !.pc = IF kind = "block" THEN "cut" ELSE "commit",
                          !.by = me, !.kind = kind, !.was = choice[me]])

-----------------------------------------------------------------------------
(* The handlers' later steps.                                              *)

RowFree(t) == \A s \in Threads \ {t} : ~tx[s].cut
AtCommit(t, op) == tx[t].op = op /\ tx[t].pc = "commit"
Finish(t) == tx' = [tx EXCEPT ![t] = Idle]

(* Once the row is deleted nobody's update or delete finds it.             *)
FinishAndLose(t) ==
    tx' = [s \in Threads |->
              IF s = t THEN Idle
              ELSE [tx[s] EXCEPT !.read = IF @ = "row" THEN "gone" ELSE @]]

(* _apply's bulk delete, run at once: it waits for one of the other's.     *)
Cut(t) ==
    /\ tx[t].pc = "cut" /\ RowFree(t)
    /\ tx' = [tx EXCEPT ![t].pc = "commit", ![t].cut = Between]
    /\ UNCHANGED <<row, choice, cooling>>

(* The update writes the columns that differ from what was read.           *)
Requested(t) ==
    [row EXCEPT !.status = "pending", !.said = row.said \cup {tx[t].by},
                !.from = IF tx[t].turns THEN tx[t].by ELSE row.from]

(* The unique index on the pair refuses a second row, and an update of a   *)
(* row that is gone fails: either way the handler is rolled back.          *)
CommitSend(t) ==
    /\ AtCommit(t, "send") /\ RowFree(t)
    /\ row' = CASE tx[t].read = "row" -> Requested(t)
               [] tx[t].read = "nothing" /\ ~Between ->
                      [from |-> tx[t].by, status |-> "pending", said |-> {tx[t].by}]
               [] OTHER -> row
    /\ Finish(t) /\ UNCHANGED <<choice, cooling>>

CommitAcceptBlindly(t) ==
    /\ AtCommit(t, "accept") /\ RowFree(t)
    /\ row' = [row EXCEPT !.status = "accepted", !.said = row.said \cup {tx[t].by}]
    /\ Finish(t) /\ UNCHANGED <<choice, cooling>>
CommitAccept(t) ==
    /\ AtCommit(t, "accept") /\ RowFree(t)
    /\ row' = IF tx[t].read = "row"
              THEN [row EXCEPT !.status = "accepted", !.said = row.said \cup {tx[t].by}]
              ELSE row
    /\ Finish(t) /\ UNCHANGED <<choice, cooling>>

CommitDecline(t) ==
    /\ AtCommit(t, "decline") /\ RowFree(t)
    /\ IF tx[t].read = "row"
       THEN /\ row' = [row EXCEPT !.status = "declined"]
            /\ cooling' = cooling \cup {row.from}
       ELSE UNCHANGED <<row, cooling>>
    /\ Finish(t) /\ UNCHANGED choice

CommitRemove(t) ==
    /\ AtCommit(t, "remove") /\ RowFree(t)
    /\ IF tx[t].read = "row" THEN row' = NoRow /\ FinishAndLose(t)
       ELSE UNCHANGED row /\ Finish(t)
    /\ UNCHANGED <<choice, cooling>>

(* The choice is inserted, updated, or not written at all if the caller    *)
(* had made it before; the key of user_blocks and the row count of the     *)
(* update refuse what a second handler of the caller's has overtaken.      *)
ChoiceRefused(t) ==
    IF tx[t].was = "none" THEN choice[tx[t].by] # "none"
    ELSE tx[t].was # tx[t].kind /\ choice[tx[t].by] = "none"

CommitChoose(t) ==
    /\ AtCommit(t, "choose")
    /\ IF ChoiceRefused(t) THEN UNCHANGED <<row, choice>> /\ Finish(t)
       ELSE /\ choice' = IF tx[t].was = tx[t].kind THEN choice
                         ELSE [choice EXCEPT ![tx[t].by] = tx[t].kind]
            /\ IF tx[t].cut THEN row' = NoRow /\ FinishAndLose(t)
               ELSE UNCHANGED row /\ Finish(t)
    /\ UNCHANGED cooling

(* clear_person_safety: one bulk delete and its commit.                    *)
Clear(me) ==
    /\ choice[me] # "none"
    /\ choice' = [choice EXCEPT ![me] = "none"]
    /\ UNCHANGED <<row, cooling, tx>>

(* Seven days pass since u's request was last declined.                    *)
CooldownPasses(u) ==
    /\ u \in cooling
    /\ cooling' = cooling \ {u}
    /\ UNCHANGED <<row, choice, tx>>

-----------------------------------------------------------------------------
Request(t) ==
    \E me \in Pair : \/ Send(t, me) \/ Accept(t, me) \/ Decline(t, me) \/ Remove(t, me)
                     \/ \E kind \in Kinds : Choose(t, me, kind)

Proceed(t) == \/ Cut(t) \/ CommitSend(t) \/ CommitAccept(t) \/ CommitDecline(t)
              \/ CommitRemove(t) \/ CommitChoose(t)

Next == \/ \E t \in Threads : Request(t) \/ Proceed(t)
        \/ \E u \in Pair : Clear(u) \/ CooldownPasses(u)

Spec == Init /\ [][Next]_vars

-----------------------------------------------------------------------------
(* Properties.                                                             *)

(* "Request, then the recipient explicitly accepts" (connections.py:1): in *)
(* whatever order requests, answers and turned requests commit, both people*)
(* of a connection have asked for it or accepted it.                       *)
TakesTwo == row.status = "accepted" => row.said = Pair

(* "The requester never learns about a decline" (connections.py:54): what  *)
(* any page shows them of their own request changes only when they or a    *)
(* block removed it, when it was accepted, when the other person asks back,*)
(* or when the cooldown is over.                                           *)
QuietDecline ==
    [][\A u \in Pair :
          (StateSeen(u) = "pending_sent" /\ Pages(u)' # Pages(u)) =>
              \/ row' = NoRow \/ row'.status = "accepted" \/ row'.from = Other(u)
              \/ u \in cooling /\ u \notin cooling']_vars

(* "block: neither person can [...] send a connection request; any         *)
(* connection ends" (services/safety.py:3).                                *)
BlockedApart == (Blocked /\ \A t \in Threads : tx[t] = Idle) => row.status # "accepted"

(* A request that was declined cannot be made again before the cooldown is *)
(* over: "declined rows stay for the re-request cooldown"                  *)
(* (models/connection.py:9).                                               *)
CooldownKept ==
    [][\A u \in Pair :
          (row'.status = "pending" /\ row'.from = u /\ u \in cooling) => row' = row]_vars
=============================================================================
