------------------------------ MODULE Realtime ------------------------------
(***************************************************************************)
(* How an event reaches the open sockets of one user (app/realtime/        *)
(* broadcaster.py, app/routes/realtime.py).  A request queues events in    *)
(* its database session; the commit hands them to the event loop, a        *)
(* rollback drops them; the loop puts each into the bounded queue of every *)
(* socket, and each socket's pump sends what its queue holds.              *)
(***************************************************************************)
EXTENDS Naturals, Sequences, SequencesExt

CONSTANTS
    Senders,     \* threads that serve requests
    Sockets,     \* the user's WebSocket connections
    Events,      \* the events, each queued once
    QueueSize    \* asyncio.Queue(maxsize=100)

VARIABLES
    session,     \* session[s]: the events queued in the transaction of s
    publishing,  \* publishing[s]: those of a committed one, not yet handed over
    loop,        \* calls scheduled in the event loop, in order
    handed,      \* every event ever handed over, in order
    saved,       \* events of committed transactions
    socket,      \* socket[k]: its state, its queue, how many events it got
    missed       \* events a socket missed because a queue was full

vars == <<session, publishing, loop, handed, saved, socket, missed>>

(* from: how many events had been handed over when it subscribed; wanted:  *)
(* those delivered by the loop since; got: those sent to the client.       *)
Socket == [state : {"new", "open", "closed"}, queue : Seq(Events), got : Seq(Events),
           wanted : Seq(Events)]

Init ==
    /\ session = [s \in Senders |-> <<>>] /\ publishing = [s \in Senders |-> <<>>]
    /\ loop = <<>> /\ handed = <<>> /\ saved = {} /\ missed = {}
    /\ socket = [k \in Sockets |-> [state |-> "new", queue |-> <<>>, got |-> <<>>, wanted |-> <<>>]]

(* Sessions, queues and sockets hold only values of their kinds; a queue   *)
(* never holds more than its size.                                         *)
TypeOK ==
    /\ session \in [Senders -> Seq(Events)] /\ publishing \in [Senders -> Seq(Events)]
    /\ loop \in Seq(Events) /\ handed \in Seq(Events)
    /\ saved \subseteq Events /\ missed \subseteq Events
    /\ socket \in [Sockets -> Socket]
    /\ \A k \in Sockets : Len(socket[k].queue) <= QueueSize

Everywhere == saved \cup ToSet(loop) \cup ToSet(handed)
              \cup UNION {ToSet(session[s]) \cup ToSet(publishing[s]) : s \in Senders}

-----------------------------------------------------------------------------
(* queue_event: events wait in the session of a request that may write.    *)
QueueEvent(s, e) ==
    /\ publishing[s] = <<>> /\ e \notin Everywhere
    /\ session' = [session EXCEPT ![s] = Append(@, e)]
    /\ UNCHANGED <<publishing, loop, handed, saved, socket, missed>>

(* _publish_after_commit takes the events of the session, which then has   *)
(* none ...                                                                *)
KeepsEvents(s) == session[s]
NoEvents(s) == <<>>
Commit(s) ==
    /\ session[s] # <<>>
    /\ saved' = saved \cup ToSet(session[s])
    /\ publishing' = [publishing EXCEPT ![s] = session[s]]
    /\ session' = [session EXCEPT ![s] = NoEvents(s)]
    /\ UNCHANGED <<loop, handed, socket, missed>>

(* ... and _drop_after_rollback forgets them.                              *)
Rollback(s) ==
    /\ session[s] # <<>>
    /\ session' = [session EXCEPT ![s] = NoEvents(s)]
    /\ UNCHANGED <<publishing, loop, handed, saved, socket, missed>>

(* publish: the loop is called from the thread, one event at a time.       *)
Publish(s) ==
    /\ publishing[s] # <<>>
    /\ loop' = Append(loop, Head(publishing[s])) /\ handed' = Append(handed, Head(publishing[s]))
    /\ publishing' = [publishing EXCEPT ![s] = Tail(@)]
    /\ UNCHANGED <<session, saved, socket, missed>>

(* _deliver puts the event into one queue after the other, in the order of *)
(* a set; the first full one raises and ends the call.                     *)
Full(k) == Len(socket[k].queue) = QueueSize
NewestFirst(k, e) == <<e>> \o socket[k].queue
Put(k, e) == Append(socket[k].queue, e)
Deliver ==
    LET e == Head(loop)
        subs == {k \in Sockets : socket[k].state = "open"}
        full == {k \in subs : Full(k)} IN
    /\ loop # <<>> /\ loop' = Tail(loop)
    /\ \E reached \in SUBSET (subs \ full) :
           /\ full = {} => reached = subs
           /\ socket' = [k \in Sockets |->
                  IF k \notin subs THEN socket[k]
                  ELSE [socket[k] EXCEPT !.wanted = Append(@, e),
                                         !.queue = IF k \in reached THEN Put(k, e) ELSE @]]
           /\ missed' = IF full = {} THEN missed ELSE missed \cup {e}
    /\ UNCHANGED <<session, publishing, handed, saved>>

(* realtime_socket: subscribed once the first message's token is that of a *)
(* user; pump sends what the queue gives; closing unsubscribes.            *)
Subscribe(k) ==
    /\ socket[k].state = "new"
    /\ socket' = [socket EXCEPT ![k].state = "open"]
    /\ UNCHANGED <<session, publishing, loop, handed, saved, missed>>

Pump(k) ==
    /\ socket[k].state = "open" /\ socket[k].queue # <<>>
    /\ socket' = [socket EXCEPT ![k].got = Append(@, Head(socket[k].queue)), ![k].queue = Tail(@)]
    /\ UNCHANGED <<session, publishing, loop, handed, saved, missed>>

Unsubscribe(k) ==
    /\ socket[k].state = "open"
    /\ socket' = [socket EXCEPT ![k].state = "closed", ![k].queue = <<>>]
    /\ UNCHANGED <<session, publishing, loop, handed, saved, missed>>

Next == \/ \E s \in Senders : Commit(s) \/ Rollback(s) \/ Publish(s) \/ \E e \in Events : QueueEvent(s, e)
        \/ Deliver \/ \E k \in Sockets : Subscribe(k) \/ Pump(k) \/ Unsubscribe(k)

Spec == Init /\ [][Next]_vars

-----------------------------------------------------------------------------
(* Properties.                                                             *)

(* "Send payload to user_id once the current transaction commits (dropped  *)
(* on rollback)" (broadcaster.py:75): sessions, loop and queues implement   *)
(* EventLine, where the line of a socket is its queue and then the loop.    *)
Line == INSTANCE EventLine WITH
            said <- handed,
            open <- {k \in Sockets : socket[k].state = "open"},
            line <- [k \in Sockets |-> IF socket[k].state = "open" THEN socket[k].queue \o loop ELSE <<>>],
            got <- [k \in Sockets |-> socket[k].got]
EventsInLine == Line!Spec

(* So a client only ever gets events of transactions that have committed,  *)
(* in the order in which they were handed over, and none of those handed   *)
(* over since it subscribed is left out or doubled unless a queue was full. *)
Sent(k) == socket[k].got \o socket[k].queue
(* at[i]: which of the events of all is the i-th of some.                  *)
InOrder(at, some, all) ==
    /\ \A i \in 1..Len(some) : some[i] = all[at[i]]
    /\ \A i, j \in 1..Len(some) : i < j => at[i] < at[j]
LeftOut(at, some, all) == {all[n] : n \in {m \in 1..Len(all) : \A i \in 1..Len(some) : at[i] # m}}
OnlyTheMissed(k) ==
    /\ ToSet(Sent(k)) \subseteq saved
    /\ \E at \in [1..Len(Sent(k)) -> 1..Len(socket[k].wanted)] :
           /\ InOrder(at, Sent(k), socket[k].wanted)
           /\ LeftOut(at, Sent(k), socket[k].wanted) \subseteq missed
    /\ socket[k].wanted = SubSeq(handed, Len(handed) - Len(loop) - Len(socket[k].wanted) + 1,
                                 Len(handed) - Len(loop))
EventsReach == \A k \in Sockets : socket[k].state = "open" => OnlyTheMissed(k)
=============================================================================
