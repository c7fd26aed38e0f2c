----------------------------- MODULE EventLine ------------------------------
(***************************************************************************)
(* What the event channel promises each open socket of a user              *)
(* (app/realtime/broadcaster.py: "Send payload to user_id once the current *)
(* transaction commits"): a line on which events of committed transactions *)
(* come one after the other, each said once.  A line loses an event only   *)
(* while some socket has more of them outstanding than its queue holds.    *)
(***************************************************************************)
EXTENDS Naturals, Sequences, SequencesExt

CONSTANTS Events, Sockets, QueueSize

VARIABLES
    saved,    \* the events of committed transactions
    said,     \* those said, in order
    open,     \* the sockets that listen
    line,     \* line[k]: what is said and has not reached k
    got       \* got[k]: what the client of k was sent

vars == <<saved, said, open, line, got>>

Init ==
    /\ saved = {} /\ said = <<>> /\ open = {}
    /\ line = [k \in Sockets |-> <<>>] /\ got = [k \in Sockets |-> <<>>]

Save(S) == saved' = saved \cup S /\ UNCHANGED <<said, open, line, got>>

Say(e) ==
    /\ e \in saved /\ e \notin ToSet(said) /\ said' = Append(said, e)
    /\ line' = [k \in Sockets |-> IF k \in open THEN Append(line[k], e) ELSE line[k]]
    /\ UNCHANGED <<saved, open, got>>

(* A socket listens once, to what is said next or still on its way.        *)
Join(k) ==
    /\ k \notin open /\ got[k] = <<>> /\ open' = open \cup {k}
    /\ \E n \in 0..Len(said) : line' = [line EXCEPT ![k] = SubSeq(said, n + 1, Len(said))]
    /\ UNCHANGED <<saved, said, got>>
Get(k) ==
    /\ line[k] # <<>>
    /\ got' = [got EXCEPT ![k] = Append(got[k], Head(line[k]))]
    /\ line' = [line EXCEPT ![k] = Tail(line[k])] /\ UNCHANGED <<saved, said, open>>
Leave(k) ==
    /\ open' = open \ {k} /\ line' = [line EXCEPT ![k] = <<>>] /\ UNCHANGED <<saved, said, got>>

(* One event is taken off the lines of some sockets.                       *)
Lags(k) == k \in open /\ Len(line[k]) > QueueSize
Lose(e, some) ==
    /\ \E k \in Sockets : Lags(k)
    /\ \A k \in some : \E i \in 1..Len(line[k]) : line[k][i] = e /\ line'[k] = RemoveAt(line[k], i)
    /\ \A k \in Sockets \ some : line'[k] = line[k]
    /\ UNCHANGED <<saved, said, open, got>>

Next == \/ \E S \in SUBSET Events : Save(S)
        \/ \E e \in Events : Say(e) \/ \E some \in SUBSET open : Lose(e, some)
        \/ \E k \in Sockets : Join(k) \/ Get(k) \/ Leave(k)

Spec == Init /\ [][Next]_vars
=============================================================================
