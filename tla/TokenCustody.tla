---------------------------- MODULE TokenCustody ----------------------------
(***************************************************************************)
(* What becomes of the OAuth tokens a server is given ("forget the handle  *)
(* and revoke the token at GitHub", app/routes/github_import.py:8): a      *)
(* token is kept by its handle until one request takes it out, and that    *)
(* request alone revokes it, once.  A token that GitHub still accepts is   *)
(* kept, in one request's hands, or lost.                                  *)
(***************************************************************************)
CONSTANTS Tokens, Threads

VARIABLES
    issued,     \* the tokens GitHub has given out
    valid,      \* those it accepts
    kept,       \* those a handle stands for
    revoking,   \* revoking[t]: those request t has taken out and is to revoke
    lost        \* those nothing will revoke

vars == <<issued, valid, kept, revoking, lost>>

Init ==
    /\ issued = {} /\ valid = {} /\ kept = {} /\ lost = {}
    /\ revoking = [t \in Threads |-> {}]

(* A request takes tokens out, and may have been given one.                *)
Take(t, out) ==
    /\ revoking[t] = {} /\ revoking' = [revoking EXCEPT ![t] = out]
    /\ kept' = kept \ out /\ UNCHANGED <<issued, valid, lost>>
Receive(t, h, out) ==
    /\ revoking[t] = {} /\ revoking' = [revoking EXCEPT ![t] = out]
    /\ h \notin issued /\ issued' = issued \cup {h} /\ valid' = valid \cup {h}
    /\ kept' = (kept \ out) \cup {h} /\ UNCHANGED lost

(* It has tried to revoke what it took out.                                *)
Revoke(t, done) ==
    /\ done \subseteq revoking[t] /\ valid' = valid \ done
    /\ lost' = lost \cup (revoking[t] \ done)
    /\ revoking' = [revoking EXCEPT ![t] = {}] /\ UNCHANGED <<issued, kept>>

(* The server stops, and with it go the handles and the requests.          *)
Stop ==
    /\ lost' = lost \cup kept \cup UNION {revoking[t] : t \in Threads}
    /\ kept' = {} /\ revoking' = [t \in Threads |-> {}] /\ UNCHANGED <<issued, valid>>

Next == \/ Stop
        \/ \E t \in Threads :
              \/ \E out \in SUBSET kept : Take(t, out) \/ \E h \in Tokens : Receive(t, h, out)
              \/ \E done \in SUBSET revoking[t] : Revoke(t, done)

Spec == Init /\ [][Next]_vars
=============================================================================
