------------------------------- MODULE Branch -------------------------------
(***************************************************************************)
(* What committing through the workspace promises an author (the refusals  *)
(* of app/services/workspace_git.py: "changed on GitHub. Refresh it before *)
(* committing."): the branch only grows, and a commit made here replaces   *)
(* nothing but what its author had seen.  Pushes from outside are free.    *)
(***************************************************************************)
EXTENDS Naturals, Sequences

CONSTANTS
    Paths,    \* the files of the branch
    Keys,     \* idempotency keys: one for each commit an author composes
    Outside   \* the key of a commit pushed from elsewhere

VARIABLES
    log,      \* the commits, as records with a key and the paths it touches
    blob,     \* the content of each file
    seen      \* seen[k]: the content each file had when commit k was composed

Init == log = <<>> /\ seen \in [Keys -> {blob}]

Look(k) == seen' = [seen EXCEPT ![k] = blob] /\ UNCHANGED <<log, blob>>

Grow(k, paths) ==
    /\ log' = Append(log, [key |-> k, paths |-> paths])
    /\ \A p \in Paths \ paths : blob'[p] = blob[p]
    /\ UNCHANGED seen

Replace(k, paths) == Grow(k, paths) /\ \A p \in paths : blob[p] = seen[k][p]

Next == \/ \E k \in Keys : Look(k) \/ \E paths \in SUBSET Paths : Replace(k, paths)
        \/ \E paths \in SUBSET Paths : Grow(Outside, paths)

Spec == Init /\ [][Next]_<<log, blob, seen>>
=============================================================================
