--------------------------- MODULE SourceInstall ---------------------------
(***************************************************************************)
(* Installing an archive as the stored copy of a project                   *)
(* (install_workspace_zip of app/routes/workspace_upload.py, the marks of  *)
(* app/services/source_state.py), on a local disk or in a bucket, with     *)
(* installs that meet, that fail at any step, a server that stops, and the *)
(* deletion of the project.  The disk changes at once and is not undone by *)
(* a rollback; the database changes at a commit.                           *)
(*                                                                         *)
(* A tree is the set of archives whose files it holds.                     *)
(***************************************************************************)
EXTENDS Naturals

CONSTANTS
    Archives,   \* the archives that are uploaded or downloaded, one install each
    Old,        \* the archive installed before
    None        \* no directory

VARIABLES
    mode,       \* where storage.py keeps files: "local" or "bucket"
    live,       \* project_<id>: the stored copy
    incoming,   \* project_<id>.incoming
    previous,   \* project_<id>.previous
    indexed,    \* the tree the rows of the files table were built from
    state,      \* the project's sync_state, or "gone" with the project's row
    run,        \* run[i]: how far the install of archive i is
    latest,     \* the install that began last, or Old
    deleting    \* the project's owner has begun to delete it

disk == <<live, incoming, previous>>
vars == <<mode, live, incoming, previous, indexed, state, run, latest, deleting>>

Trees == SUBSET (Archives \cup {Old})
Steps == {"extract", "index", "drop", "retire", "promote", "purge", "upload",
          "commit", "tidy", "undo", "mark"}
Run == [pc : {"new", "clear", "ok", "failed", "stopped"} \cup Steps,
        tree : Trees,                  \* what new_rows were built from
        before : Trees \cup {None},    \* what was live when it began
        swapped : BOOLEAN,
        shared : BOOLEAN]              \* another install ran at the same time

(* Directories hold trees, indexed and runs hold values of their kinds.       *)
TypeOK ==
    /\ mode \in {"local", "bucket"} /\ deleting \in BOOLEAN
    /\ {live, incoming, previous} \subseteq Trees \cup {None} /\ indexed \in Trees
    /\ state \in {"pending", "ok", "failed", "gone"}
    /\ run \in [Archives -> Run]
    /\ latest \in Archives \cup {Old}

Init ==
    /\ mode \in {"local", "bucket"} /\ deleting = FALSE
    /\ live \in {None, {Old}} /\ indexed = (IF live = None THEN {} ELSE live)
    /\ incoming = None /\ previous = None
    /\ state = "ok" /\ latest = Old
    /\ run = [i \in Archives |-> [pc |-> "new", tree |-> {}, before |-> None,
                                  swapped |-> FALSE, shared |-> FALSE]]

Running(i) == run[i].pc \in Steps \cup {"clear"}
At(i, pc) == run[i].pc = pc
Go(i, pc) == run' = [run EXCEPT ![i].pc = pc]
Held(dir) == IF dir = None THEN {} ELSE dir

-----------------------------------------------------------------------------
(* The copy is marked pending in a commit of its own.                      *)
Unmarked == state
Mark == "pending"
Begin(i) ==
    LET others == {j \in Archives \ {i} : Running(j)} IN
    /\ At(i, "new") /\ state # "gone"
    /\ state' = Mark /\ latest' = i
    /\ run' = [j \in Archives |->
                  IF j = i THEN [run[i] EXCEPT !.pc = IF mode = "local" THEN "clear" ELSE "extract",
                                               !.before = live, !.shared = others # {}]
                  ELSE [run[j] EXCEPT !.shared = @ \/ j \in others]]
    /\ UNCHANGED <<mode, disk, indexed, deleting>>

Clear(i) ==
    /\ At(i, "clear")
    /\ incoming' = {}
    /\ Go(i, "extract")
    /\ UNCHANGED <<mode, live, previous, indexed, state, latest, deleting>>

(* In a bucket's case the archive is extracted to a directory of its own.  *)
Extract(i) ==
    /\ At(i, "extract")
    /\ incoming' = IF mode = "local" THEN Held(incoming) \cup {i} ELSE incoming
    /\ Go(i, "index")
    /\ UNCHANGED <<mode, live, previous, indexed, state, latest, deleting>>

Index(i) ==
    /\ At(i, "index")
    /\ run' = [run EXCEPT ![i].tree = IF mode = "local" THEN Held(incoming) ELSE {i},
                          ![i].pc = IF mode = "local" THEN "drop" ELSE "purge"]
    /\ UNCHANGED <<mode, disk, indexed, state, latest, deleting>>

(* Local: what an earlier install set aside goes, the live tree is set     *)
(* aside, the new one takes its place.  A directory is not renamed onto    *)
(* one that holds files.                                                   *)
DropPrevious(i) ==
    /\ At(i, "drop")
    /\ previous' = None
    /\ Go(i, "retire")
    /\ UNCHANGED <<mode, live, incoming, indexed, state, latest, deleting>>

Retire(i) ==
    /\ At(i, "retire")
    /\ live = None \/ Held(previous) = {}
    /\ previous' = IF live = None THEN previous ELSE live
    /\ live' = None
    /\ Go(i, "promote")
    /\ UNCHANGED <<mode, incoming, indexed, state, latest, deleting>>

Promote(i) ==
    /\ At(i, "promote")
    /\ incoming # None /\ Held(live) = {}
    /\ live' = incoming /\ incoming' = None
    /\ run' = [run EXCEPT ![i].pc = "commit", ![i].swapped = TRUE]
    /\ UNCHANGED <<mode, previous, indexed, state, latest, deleting>>

(* Bucket: the old objects are deleted and the new ones uploaded.          *)
Purge(i) ==
    /\ At(i, "purge")
    /\ live' = {}
    /\ Go(i, "upload")
    /\ UNCHANGED <<mode, incoming, previous, indexed, state, latest, deleting>>

Upload(i) ==
    /\ At(i, "upload")
    /\ live' = live \cup {i}
    /\ Go(i, "commit")
    /\ UNCHANGED <<mode, incoming, previous, indexed, state, latest, deleting>>

(* Rows, facts, stacks and record_snapshot in one transaction.             *)
Commit(i) ==
    /\ At(i, "commit") /\ state # "gone"
    /\ indexed' = run[i].tree /\ state' = "ok"
    /\ Go(i, IF mode = "local" THEN "tidy" ELSE "ok")
    /\ UNCHANGED <<mode, disk, latest, deleting>>

Tidy(i) ==
    /\ At(i, "tidy")
    /\ previous' = None
    /\ Go(i, "ok")
    /\ UNCHANGED <<mode, live, incoming, indexed, state, latest, deleting>>

(* Anything up to the commit may raise, as a rename that is refused or a   *)
(* project that is gone does; the transaction is rolled back ...           *)
Raise(i) ==
    /\ run[i].pc \in {"clear", "extract", "index", "drop", "retire", "promote",
                      "purge", "upload", "commit"}
    /\ Go(i, "undo")
    /\ UNCHANGED <<mode, disk, indexed, state, latest, deleting>>

(* ... _restore_local puts the set-aside tree back if the live one is new  *)
(* or missing (not in a bucket) ...                                        *)
RestoreIfMissing(i) == live = None
Restores(i) == run[i].swapped \/ live = None
Undo(i) ==
    /\ At(i, "undo")
    /\ IF mode = "bucket" THEN UNCHANGED disk
       ELSE /\ incoming' = None
            /\ IF previous # None /\ Restores(i) THEN live' = previous /\ previous' = None
               ELSE UNCHANGED <<live, previous>>
    /\ Go(i, "mark")
    /\ UNCHANGED <<mode, indexed, state, latest, deleting>>

(* ... and the failure is marked, again in a commit of its own.            *)
MarkRolledBack(i) == state
MarkedError(i) == "error"
Marked(i) == IF state = "gone" THEN "gone" ELSE "failed"
MarkFailed(i) ==
    /\ At(i, "mark")
    /\ state' = Marked(i)
    /\ Go(i, "failed")
    /\ UNCHANGED <<mode, disk, indexed, latest, deleting>>

(* The server stops: nothing takes an install up again.                    *)
Stop ==
    /\ \E i \in Archives : Running(i)
    /\ run' = [i \in Archives |-> IF Running(i) THEN [run[i] EXCEPT !.pc = "stopped"] ELSE run[i]]
    /\ UNCHANGED <<mode, disk, indexed, state, latest, deleting>>

(* delete_project removes the live copy, then the rows; in between it may  *)
(* stop.                                                                   *)
DeleteFiles ==
    /\ state # "gone" /\ ~deleting
    /\ deleting' = TRUE
    /\ live' = (IF mode = "local" THEN None ELSE {})
    /\ UNCHANGED <<mode, incoming, previous, indexed, state, run, latest>>

DeleteRows ==
    /\ deleting /\ state # "gone"
    /\ indexed' = {} /\ state' = "gone"
    /\ UNCHANGED <<mode, disk, run, latest, deleting>>

Work(i) ==
    \/ Begin(i) \/ Clear(i) \/ Extract(i) \/ Index(i)
    \/ DropPrevious(i) \/ Retire(i) \/ Promote(i) \/ Purge(i) \/ Upload(i)
    \/ Commit(i) \/ Tidy(i) \/ Raise(i) \/ Undo(i) \/ MarkFailed(i)

Next == (\E i \in Archives : Work(i)) \/ Stop \/ DeleteFiles \/ DeleteRows

Spec == Init /\ [][Next]_vars

-----------------------------------------------------------------------------
(* Properties.                                                             *)

Undisturbed(i) == ~run[i].shared /\ ~deleting

(* "The stored copy now holds a ZIP upload, or one GitHub branch at one    *)
(* commit" (source_state.py:36): unless two installs met or the project is *)
(* being deleted, a copy that says ok is one archive, the one its rows        *)
(* were built from, however often installs failed or the server stopped    *)
(* before.                                                                 *)
OkIsWhole ==
    (state = "ok" /\ ~deleting /\ \A i \in Archives : ~run[i].shared) =>
        /\ indexed = Held(live)
        /\ \A i, j \in indexed : i = j

(* "A failed ZIP leaves the previous files in place" (workspace_upload.py: *)
(* 281), on a local disk and without another install at the same time: an  *)
(* install that fails ends with the tree live that was live when it began, *)
(* if there was one.                                                       *)
FailedKeepsFiles ==
    [][\A i \in Archives :
          (/\ At(i, "mark") /\ run'[i].pc = "failed" /\ mode = "local"
           /\ Undisturbed(i) /\ run[i].before # None)
              => live' = run[i].before]_vars

(* "so a failed upload or import is visible" (source_state.py:5): once the *)
(* install that began last has failed the copy no longer says ok, though   *)
(* its transaction was rolled back.                                        *)
FailureShows ==
    (latest # Old /\ ~run[latest].shared /\ run[latest].pc = "failed") => state \in {"failed", "gone"}

(* Whatever stops or overlaps, the state shown tells both.                 *)
StateTells == OkIsWhole /\ FailureShows
=============================================================================
