-------------------------- MODULE WorkspaceProofs ---------------------------
(***************************************************************************)
(* For any number of archives, uploads, files, readers and requests: what  *)
(* the parts of Workspace promise. Each part is proved on its own, with    *)
(* the inductive invariant it needs; what it is of the composition follows *)
(* because a step of another part leaves it alone. The commits themselves  *)
(* are in WorkspaceCommitProofs.                                           *)
(***************************************************************************)
EXTENDS Workspace, WorkspaceCommitProofs, Integers, FiniteSetTheorems

-----------------------------------------------------------------------------
(* SourceInstall: archives that replace the stored copy.                   *)

(* No directory is no tree, and the archive installed before is none of    *)
(* those installed now.                                                    *)
SourceDistinct == None \notin Source!Trees /\ Old \notin Archives

(* Installs that run together know of each other, and so does the latest   *)
(* one, wherever it has got, if another outlives its beginning.            *)
SourceAlone ==
    \A i, j \in Archives : (i # j /\ Source!Running(i) /\ Source!Running(j)) => run[i].shared /\ run[j].shared
SourceOvertaken ==
    \A i \in Archives : (Source!Running(i) /\ i # latest) => latest # Old /\ run[latest].shared

(* A local install renames, one in a bucket uploads; the swap comes late.  *)
SourceInMode ==
    \A i \in Archives :
        /\ run[i].pc \in {"clear", "drop", "retire", "promote", "tidy"} => mode = "local"
        /\ run[i].pc \in {"purge", "upload"} => mode = "bucket"
        /\ Source!At(i, "upload") => live # None
        /\ run[i].swapped => run[i].pc \notin {"new", "clear", "extract", "index", "drop", "retire", "promote"}

(* What an install that nothing disturbs has made so far.                  *)
SourceMade(i) ==
          /\ ~Source!At(i, "tidy") => state # "ok"
          /\ run[i].pc \in {"drop", "retire", "promote", "purge", "upload", "commit"} => run[i].tree = {i}
          /\ Source!At(i, "commit") => live = {i}
          /\ Source!At(i, "upload") => live = {}
          /\ Source!At(i, "extract") /\ mode = "local" => incoming = {}
          /\ Source!At(i, "index") /\ mode = "local" => incoming = {i}
          /\ run[i].pc \in {"drop", "retire", "promote"} => incoming = {i}

(* Where the tree is that such an install found, on a local disk.          *)
SourcePut(i) == run[i].before # None /\ live = run[i].before
SourceSetAside(i) == run[i].before # None /\ previous = run[i].before
SourceSaved(i) ==
    (mode = "local" /\ run[i].before # None) =>
        /\ run[i].pc \in {"clear", "extract", "index", "drop", "retire", "mark"} => SourcePut(i)
        /\ Source!At(i, "retire") => previous = None
        /\ Source!At(i, "promote") => SourceSetAside(i) /\ live = None
        /\ Source!At(i, "commit") => SourceSetAside(i) /\ run[i].swapped
        /\ Source!At(i, "undo") => \/ SourcePut(i) /\ ~run[i].swapped
                                   \/ SourceSetAside(i) /\ (run[i].swapped \/ live = None)

SourceUnderway == \A i \in Archives : (Source!Running(i) /\ Source!Undisturbed(i)) => SourceMade(i) /\ SourceSaved(i)

SourceIInv == Source!TypeOK /\ SourceAlone /\ SourceOvertaken /\ SourceInMode /\ SourceUnderway /\ Source!StateTells

USE DEF Source!Steps

-----------------------------------------------------------------------------
LEMMA SourceInitIInv == ASSUME SourceDistinct, Source!Init PROVE SourceIInv
<1>1. /\ live \in Source!Trees \cup {None} /\ indexed \in Source!Trees /\ incoming = None /\ previous = None
      /\ indexed = Source!Held(live) /\ \A i, j \in indexed : i = j
  BY DEF Source!Init, Source!Held, Source!Trees, SourceDistinct
<1>2. Source!TypeOK
  <2>1. run \in [Archives -> Source!Run]
    BY DEF Source!Init, Source!Run, Source!Trees
  <2>2. deleting \in BOOLEAN
    BY DEF Source!Init
  <2>3. QED BY <1>1, <2>1, <2>2 DEF Source!Init, Source!TypeOK
<1>3. SourceAlone /\ SourceOvertaken /\ SourceInMode /\ SourceUnderway
  BY DEF Source!Init, SourceAlone, SourceOvertaken, SourceInMode, SourceUnderway, Source!Running,
     Source!At
<1>4. Source!StateTells
  BY <1>1 DEF Source!Init, Source!StateTells, Source!OkIsWhole, Source!FailureShows
<1>5. QED BY <1>2, <1>3, <1>4 DEF SourceIInv

(* An install goes one step on: what it has made and saved is what must be *)
(* seen, and what the state tells then.                                    *)
LEMMA SourceWorkKeeps ==
    ASSUME SourceDistinct, SourceIInv, NEW i \in Archives, Source!Running(i),
           NEW r \in Source!Run, run' = [run EXCEPT ![i] = r],
           r.shared = run[i].shared, r.pc # "new",
           UNCHANGED <<mode, latest, deleting>>,
           {live', incoming', previous'} \subseteq Source!Trees \cup {None},
           indexed' \in Source!Trees, state' \in {"pending", "ok", "failed", "gone"},
           r.pc \in {"clear", "drop", "retire", "promote", "tidy"} => mode = "local",
           r.pc \in {"purge", "upload"} => mode = "bucket",
           r.pc = "upload" \/ (mode = "bucket" /\ live # None) => live' # None,
           r.swapped => r.pc \notin {"new", "clear", "extract", "index", "drop", "retire", "promote"},
           (Source!Running(i)' /\ Source!Undisturbed(i) /\ SourceMade(i) /\ SourceSaved(i)) => SourceMade(i)' /\ SourceSaved(i)',
           Source!OkIsWhole', r.pc = "failed" => state' \in {"failed", "gone"}
    PROVE  SourceIInv'
<1>1. /\ run'[i] = r /\ run' \in [Archives -> Source!Run]
      /\ \A j \in Archives : j # i => run'[j] = run[j]
  BY DEF SourceIInv, Source!TypeOK
<1>2. Source!TypeOK'
  BY <1>1 DEF SourceIInv, Source!TypeOK
<1>3. \A j \in Archives : j # i /\ Source!Running(j) => run[j].shared /\ run[i].shared
  BY DEF SourceIInv, SourceAlone
<1>4. /\ \A j \in Archives : run'[j].shared = run[j].shared
      /\ \A j \in Archives : Source!Running(j)' => Source!Running(j)
  BY <1>1 DEF Source!Running
<1>5. SourceAlone' /\ SourceInMode'
  BY <1>1, <1>4 DEF SourceIInv, SourceAlone, SourceInMode, Source!At
<1>6. SourceOvertaken'
  BY <1>4 DEF SourceIInv, SourceOvertaken, Source!TypeOK
<1>7. SourceUnderway'
  <2>1. ASSUME NEW j \in Archives, Source!Running(j)', Source!Undisturbed(j)' PROVE SourceMade(j)' /\ SourceSaved(j)'
    <3>1. j = i
      BY <1>3, <1>4, <2>1 DEF Source!Undisturbed
    <3>2. Source!Undisturbed(i) /\ Source!Running(i)'
      BY <1>4, <2>1, <3>1 DEF Source!Undisturbed
    <3>3. QED BY <3>1, <3>2 DEF SourceIInv, SourceUnderway
  <2>2. QED BY <2>1 DEF SourceUnderway
<1>8. Source!FailureShows'
  BY <1>1, <1>4 DEF Source!FailureShows, SourceIInv, SourceOvertaken, Source!TypeOK
<1>9. QED BY <1>2, <1>5, <1>6, <1>7, <1>8 DEF SourceIInv, Source!StateTells

(* A step that leaves the database alone, before the copy can be ok.       *)
LEMMA SourceStepKeeps ==
    ASSUME SourceDistinct, SourceIInv, NEW i \in Archives, Source!Running(i), ~Source!At(i, "tidy"),
           NEW r \in Source!Run, run' = [run EXCEPT ![i] = r],
           r.shared = run[i].shared, r.pc \notin {"new", "failed"},
           UNCHANGED <<mode, indexed, state, latest, deleting>>,
           {live', incoming', previous'} \subseteq Source!Trees \cup {None},
           r.pc \in {"clear", "drop", "retire", "promote", "tidy"} => mode = "local",
           r.pc \in {"purge", "upload"} => mode = "bucket",
           r.pc = "upload" \/ (mode = "bucket" /\ live # None) => live' # None,
           r.swapped => r.pc \notin {"new", "clear", "extract", "index", "drop", "retire", "promote"},
           (Source!Running(i)' /\ Source!Undisturbed(i) /\ SourceMade(i) /\ SourceSaved(i)) => SourceMade(i)' /\ SourceSaved(i)'
    PROVE  SourceIInv'
<1>1. run'[i] = r
  BY DEF SourceIInv, Source!TypeOK
<1>2. ~deleting /\ ~run[i].shared => state # "ok"
  BY DEF SourceIInv, SourceUnderway, Source!Undisturbed, SourceMade
<1>3. Source!OkIsWhole'
  BY <1>1, <1>2 DEF Source!OkIsWhole
<1>4. QED BY <1>3, SourceWorkKeeps DEF SourceIInv, Source!TypeOK

(* An install that only moves on.                                          *)
LEMMA SourceGoTo ==
    ASSUME SourceIInv, NEW i \in Archives, NEW pc \in {"ok", "failed", "stopped"} \cup Source!Steps, Source!Go(i, pc),
           NEW r, r = [run[i] EXCEPT !.pc = pc]
    PROVE  /\ r \in Source!Run /\ run' = [run EXCEPT ![i] = r] /\ run'[i] = r
           /\ r.pc = pc /\ r.tree = run[i].tree /\ r.before = run[i].before
           /\ r.swapped = run[i].swapped /\ r.shared = run[i].shared
BY DEF Source!Go, SourceIInv, Source!TypeOK, Source!Run

USE DEF Source!disk

LEMMA SourceClearKeeps ==
    ASSUME SourceDistinct, SourceIInv, NEW i \in Archives, Source!Clear(i)
    PROVE SourceIInv'
<1>1. PICK r : r = [run[i] EXCEPT !.pc = "extract"]
  OBVIOUS
<1>2. /\ r \in Source!Run /\ run' = [run EXCEPT ![i] = r] /\ run'[i] = r
      /\ r.pc = "extract" /\ r.tree = run[i].tree /\ r.before = run[i].before
      /\ r.swapped = run[i].swapped /\ r.shared = run[i].shared
  BY <1>1, SourceGoTo DEF Source!Clear
<1>3. Source!Running(i) /\ Source!At(i, "clear") /\ ~Source!At(i, "tidy") /\ ~run[i].swapped
  BY DEF Source!Clear, Source!At, Source!Running, SourceIInv, SourceInMode
<1>4. (SourceMade(i) /\ SourceSaved(i)) => SourceMade(i)' /\ SourceSaved(i)'
  BY <1>2, <1>3 DEF Source!Clear, SourceMade, SourceSaved, SourcePut, SourceSetAside, Source!At
<1>5. /\ {live', incoming', previous'} \subseteq Source!Trees \cup {None}
      /\ r.pc = "upload" \/ (mode = "bucket" /\ live # None) => live' # None
  BY <1>2, <1>3 DEF SourceDistinct, SourceInMode, Source!At, Source!Clear, SourceIInv, Source!TypeOK,
     Source!Trees
<1>6. QED BY <1>2, <1>3, <1>4, <1>5, SourceStepKeeps DEF Source!Clear, Source!At, SourceIInv,
             SourceInMode

LEMMA SourceExtractKeeps ==
    ASSUME SourceDistinct, SourceIInv, NEW i \in Archives, Source!Extract(i)
    PROVE SourceIInv'
<1>1. PICK r : r = [run[i] EXCEPT !.pc = "index"]
  OBVIOUS
<1>2. /\ r \in Source!Run /\ run' = [run EXCEPT ![i] = r] /\ run'[i] = r
      /\ r.pc = "index" /\ r.tree = run[i].tree /\ r.before = run[i].before
      /\ r.swapped = run[i].swapped /\ r.shared = run[i].shared
  BY <1>1, SourceGoTo DEF Source!Extract
<1>3. Source!Running(i) /\ Source!At(i, "extract") /\ ~Source!At(i, "tidy") /\ ~run[i].swapped
  BY DEF Source!Extract, Source!At, Source!Running, SourceIInv, SourceInMode
<1>4. (SourceMade(i) /\ SourceSaved(i)) => SourceMade(i)' /\ SourceSaved(i)'
  BY <1>2, <1>3 DEF Source!Extract, SourceMade, SourceSaved, SourcePut, SourceSetAside, Source!At,
     Source!Held
<1>5. /\ {live', incoming', previous'} \subseteq Source!Trees \cup {None}
      /\ r.pc = "upload" \/ (mode = "bucket" /\ live # None) => live' # None
  BY <1>2, <1>3 DEF SourceDistinct, SourceInMode, Source!At, Source!Extract, SourceIInv, Source!TypeOK,
     Source!Trees, Source!Held
<1>6. QED BY <1>2, <1>3, <1>4, <1>5, SourceStepKeeps DEF Source!Extract, Source!At, SourceIInv,
             SourceInMode

LEMMA SourceDropPreviousKeeps ==
    ASSUME SourceDistinct, SourceIInv, NEW i \in Archives, Source!DropPrevious(i)
    PROVE SourceIInv'
<1>1. PICK r : r = [run[i] EXCEPT !.pc = "retire"]
  OBVIOUS
<1>2. /\ r \in Source!Run /\ run' = [run EXCEPT ![i] = r] /\ run'[i] = r
      /\ r.pc = "retire" /\ r.tree = run[i].tree /\ r.before = run[i].before
      /\ r.swapped = run[i].swapped /\ r.shared = run[i].shared
  BY <1>1, SourceGoTo DEF Source!DropPrevious
<1>3. Source!Running(i) /\ Source!At(i, "drop") /\ ~Source!At(i, "tidy") /\ ~run[i].swapped
  BY DEF Source!DropPrevious, Source!At, Source!Running, SourceIInv, SourceInMode
<1>4. (SourceMade(i) /\ SourceSaved(i)) => SourceMade(i)' /\ SourceSaved(i)'
  BY <1>2, <1>3 DEF Source!DropPrevious, SourceMade, SourceSaved, SourcePut, SourceSetAside, Source!At
<1>5. /\ {live', incoming', previous'} \subseteq Source!Trees \cup {None}
      /\ r.pc = "upload" \/ (mode = "bucket" /\ live # None) => live' # None
  BY <1>2, <1>3 DEF SourceDistinct, SourceInMode, Source!At, Source!DropPrevious, SourceIInv,
     Source!TypeOK, Source!Trees
<1>6. QED BY <1>2, <1>3, <1>4, <1>5, SourceStepKeeps DEF Source!DropPrevious, Source!At, SourceIInv,
             SourceInMode

LEMMA SourceRetireKeeps ==
    ASSUME SourceDistinct, SourceIInv, NEW i \in Archives, Source!Retire(i)
    PROVE SourceIInv'
<1>1. PICK r : r = [run[i] EXCEPT !.pc = "promote"]
  OBVIOUS
<1>2. /\ r \in Source!Run /\ run' = [run EXCEPT ![i] = r] /\ run'[i] = r
      /\ r.pc = "promote" /\ r.tree = run[i].tree /\ r.before = run[i].before
      /\ r.swapped = run[i].swapped /\ r.shared = run[i].shared
  BY <1>1, SourceGoTo DEF Source!Retire
<1>3. Source!Running(i) /\ Source!At(i, "retire") /\ ~Source!At(i, "tidy") /\ ~run[i].swapped
  BY DEF Source!Retire, Source!At, Source!Running, SourceIInv, SourceInMode
<1>4. (SourceMade(i) /\ SourceSaved(i)) => SourceMade(i)' /\ SourceSaved(i)'
  BY <1>2, <1>3 DEF Source!Retire, SourceMade, SourceSaved, SourcePut, SourceSetAside, Source!At,
     Source!Held
<1>5. /\ {live', incoming', previous'} \subseteq Source!Trees \cup {None}
      /\ r.pc = "upload" \/ (mode = "bucket" /\ live # None) => live' # None
  BY <1>2, <1>3 DEF SourceDistinct, SourceInMode, Source!At, Source!Retire, SourceIInv, Source!TypeOK,
     Source!Trees, Source!Held
<1>6. QED BY <1>2, <1>3, <1>4, <1>5, SourceStepKeeps DEF Source!Retire, Source!At, SourceIInv,
             SourceInMode

LEMMA SourcePurgeKeeps ==
    ASSUME SourceDistinct, SourceIInv, NEW i \in Archives, Source!Purge(i)
    PROVE SourceIInv'
<1>1. PICK r : r = [run[i] EXCEPT !.pc = "upload"]
  OBVIOUS
<1>2. /\ r \in Source!Run /\ run' = [run EXCEPT ![i] = r] /\ run'[i] = r
      /\ r.pc = "upload" /\ r.tree = run[i].tree /\ r.before = run[i].before
      /\ r.swapped = run[i].swapped /\ r.shared = run[i].shared
  BY <1>1, SourceGoTo DEF Source!Purge
<1>3. Source!Running(i) /\ Source!At(i, "purge") /\ ~Source!At(i, "tidy")
  BY DEF Source!Purge, Source!At, Source!Running, SourceIInv, SourceInMode
<1>4. (SourceMade(i) /\ SourceSaved(i)) => SourceMade(i)' /\ SourceSaved(i)'
  BY <1>2, <1>3 DEF Source!Purge, SourceMade, SourceSaved, SourcePut, SourceSetAside, Source!At
<1>5. /\ {live', incoming', previous'} \subseteq Source!Trees \cup {None}
      /\ r.pc = "upload" \/ (mode = "bucket" /\ live # None) => live' # None
  BY <1>2, <1>3 DEF SourceDistinct, SourceInMode, Source!At, Source!Purge, SourceIInv, Source!TypeOK,
     Source!Trees
<1>6. QED BY <1>2, <1>3, <1>4, <1>5, SourceStepKeeps DEF Source!Purge, Source!At, SourceIInv,
             SourceInMode

LEMMA SourceUploadKeeps ==
    ASSUME SourceDistinct, SourceIInv, NEW i \in Archives, Source!Upload(i)
    PROVE SourceIInv'
<1>1. PICK r : r = [run[i] EXCEPT !.pc = "commit"]
  OBVIOUS
<1>2. /\ r \in Source!Run /\ run' = [run EXCEPT ![i] = r] /\ run'[i] = r
      /\ r.pc = "commit" /\ r.tree = run[i].tree /\ r.before = run[i].before
      /\ r.swapped = run[i].swapped /\ r.shared = run[i].shared
  BY <1>1, SourceGoTo DEF Source!Upload
<1>3. Source!Running(i) /\ mode = "bucket" /\ Source!At(i, "upload") /\ ~Source!At(i, "tidy")
  BY DEF Source!Upload, Source!At, Source!Running, SourceIInv, SourceInMode
<1>4. (SourceMade(i) /\ SourceSaved(i)) => SourceMade(i)' /\ SourceSaved(i)'
  BY <1>2, <1>3 DEF Source!Upload, SourceMade, SourceSaved, SourcePut, SourceSetAside, Source!At
<1>5. /\ {live', incoming', previous'} \subseteq Source!Trees \cup {None}
      /\ live' # None
  <2>1. live \in Source!Trees
    BY <1>3 DEF Source!At, SourceIInv, SourceInMode, Source!TypeOK
  <2>2. live' \in Source!Trees
    BY <2>1 DEF Source!Upload, Source!Trees
  <2>3. QED BY <2>2 DEF Source!Upload, SourceDistinct, SourceIInv, Source!TypeOK
<1>6. QED BY <1>2, <1>3, <1>4, <1>5, SourceStepKeeps DEF Source!Upload, Source!At, SourceIInv,
             SourceInMode

LEMMA SourceIndexKeeps ==
    ASSUME SourceDistinct, SourceIInv, NEW i \in Archives, Source!Index(i)
    PROVE SourceIInv'
<1> DEFINE tree == IF mode = "local" THEN Source!Held(incoming) ELSE {i}
           pc == IF mode = "local" THEN "drop" ELSE "purge"
<1>1. PICK r : r = [run[i] EXCEPT !.tree = tree, !.pc = pc]
  OBVIOUS
<1>2. tree \in Source!Trees
  BY DEF SourceIInv, Source!TypeOK, Source!Held, Source!Trees
<1>3. /\ r \in Source!Run /\ run' = [run EXCEPT ![i] = r] /\ run'[i] = r
      /\ r.pc = pc /\ r.tree = tree /\ r.before = run[i].before
      /\ r.swapped = run[i].swapped /\ r.shared = run[i].shared
  BY <1>1, <1>2 DEF Source!Index, SourceIInv, Source!TypeOK, Source!Run
<1>4. /\ Source!Running(i) /\ Source!At(i, "index") /\ ~Source!At(i, "tidy") /\ ~run[i].swapped
      /\ mode \in {"local", "bucket"}
  BY DEF Source!Index, Source!At, Source!Running, SourceIInv, Source!TypeOK, SourceInMode
<1>5. (SourceMade(i) /\ SourceSaved(i)) => SourceMade(i)' /\ SourceSaved(i)'
  <2>1. CASE mode = "local"
    BY <1>3, <1>4, <2>1 DEF Source!Index, SourceMade, SourceSaved, SourcePut, SourceSetAside,
       Source!At, Source!Held, SourceDistinct, Source!Trees
  <2>2. CASE mode = "bucket"
    BY <1>3, <1>4, <2>2 DEF Source!Index, SourceMade, SourceSaved, SourcePut, SourceSetAside, Source!At
  <2>3. QED BY <1>4, <2>1, <2>2
<1>6. /\ UNCHANGED <<mode, live, incoming, previous, indexed, state, latest, deleting>>
      /\ {live', incoming', previous'} \subseteq Source!Trees \cup {None}
      /\ (mode = "bucket" /\ live # None) => live' # None
  BY DEF Source!Index, SourceIInv, Source!TypeOK
<1>7. /\ r.pc \in {"drop", "purge"} /\ ~r.swapped
      /\ r.pc = "drop" => mode = "local"
      /\ r.pc = "purge" => mode = "bucket"
  BY <1>3, <1>4
<1> HIDE DEF tree, pc
<1>8. QED BY <1>3, <1>4, <1>5, <1>6, <1>7, SourceStepKeeps

LEMMA SourcePromoteKeeps ==
    ASSUME SourceDistinct, SourceIInv, NEW i \in Archives, Source!Promote(i)
    PROVE SourceIInv'
<1>1. PICK r : r = [run[i] EXCEPT !.pc = "commit", !.swapped = TRUE]
  OBVIOUS
<1>2. /\ r \in Source!Run /\ run' = [run EXCEPT ![i] = r] /\ run'[i] = r
      /\ r.pc = "commit" /\ r.tree = run[i].tree /\ r.before = run[i].before
      /\ r.swapped /\ r.shared = run[i].shared
  BY <1>1 DEF Source!Promote, SourceIInv, Source!TypeOK, Source!Run
<1>3. Source!Running(i) /\ Source!At(i, "promote") /\ ~Source!At(i, "tidy") /\ mode = "local"
  BY DEF Source!Promote, Source!At, Source!Running, SourceIInv, SourceInMode
<1>4. (SourceMade(i) /\ SourceSaved(i)) => SourceMade(i)' /\ SourceSaved(i)'
  BY <1>2, <1>3 DEF Source!Promote, SourceMade, SourceSaved, SourcePut, SourceSetAside, Source!At
<1>5. {live', incoming', previous'} \subseteq Source!Trees \cup {None}
  BY DEF Source!Promote, SourceIInv, Source!TypeOK
<1>6. QED BY <1>2, <1>3, <1>4, <1>5, SourceStepKeeps DEF Source!Promote

LEMMA SourceRaiseKeeps ==
    ASSUME SourceDistinct, SourceIInv, NEW i \in Archives, Source!Raise(i)
    PROVE SourceIInv'
<1>1. PICK r : r = [run[i] EXCEPT !.pc = "undo"]
  OBVIOUS
<1>2. /\ r \in Source!Run /\ run' = [run EXCEPT ![i] = r] /\ run'[i] = r
      /\ r.pc = "undo" /\ r.tree = run[i].tree /\ r.before = run[i].before
      /\ r.swapped = run[i].swapped /\ r.shared = run[i].shared
  BY <1>1, SourceGoTo DEF Source!Raise
<1>3. /\ Source!Running(i) /\ ~Source!At(i, "tidy") /\ mode \in {"local", "bucket"}
      /\ run[i].pc \in {"clear", "extract", "index", "drop", "retire", "promote",
                        "purge", "upload", "commit"}
      /\ run[i].swapped => Source!At(i, "commit") \/ run[i].pc \in {"purge", "upload"}
      /\ run[i].pc \in {"purge", "upload"} => mode = "bucket"
  BY DEF Source!Raise, Source!At, Source!Running, SourceIInv, Source!TypeOK, SourceInMode
<1>4. SourceMade(i) => SourceMade(i)'
  BY <1>2, <1>3 DEF Source!Raise, SourceMade, Source!At
<1>5. SourceSaved(i) => SourceSaved(i)'
  BY <1>2, <1>3 DEF Source!Raise, SourceSaved, SourcePut, SourceSetAside, Source!At
<1>6. QED BY <1>2, <1>3, <1>4, <1>5, SourceStepKeeps DEF Source!Raise, SourceIInv, Source!TypeOK

LEMMA SourceUndoKeeps ==
    ASSUME SourceDistinct, SourceIInv, NEW i \in Archives, Source!Undo(i)
    PROVE SourceIInv'
<1>1. PICK r : r = [run[i] EXCEPT !.pc = "mark"]
  OBVIOUS
<1>2. /\ r \in Source!Run /\ run' = [run EXCEPT ![i] = r] /\ run'[i] = r
      /\ r.pc = "mark" /\ r.tree = run[i].tree /\ r.before = run[i].before
      /\ r.swapped = run[i].swapped /\ r.shared = run[i].shared
  BY <1>1, SourceGoTo DEF Source!Undo
<1>3. Source!Running(i) /\ Source!At(i, "undo") /\ ~Source!At(i, "tidy")
  BY DEF Source!Undo, Source!At, Source!Running
<1>4. SourceMade(i) => SourceMade(i)'
  BY <1>2, <1>3 DEF Source!Undo, SourceMade, Source!At
<1>5. SourceSaved(i) => SourceSaved(i)'
  <2>1. SUFFICES ASSUME SourceSaved(i), mode = "local", run[i].before # None PROVE live' = run[i].before
    BY <1>2, <1>3 DEF Source!Undo, SourceSaved, SourcePut, Source!At
  <2>2. CASE SourcePut(i) /\ ~run[i].swapped
    BY <2>1, <2>2 DEF Source!Undo, SourcePut, Source!Restores
  <2>3. CASE SourceSetAside(i) /\ (run[i].swapped \/ live = None)
    BY <2>1, <2>3 DEF Source!Undo, SourceSetAside, Source!Restores
  <2>4. QED BY <1>3, <2>1, <2>2, <2>3 DEF SourceSaved
<1>6. /\ {live', incoming', previous'} \subseteq Source!Trees \cup {None}
      /\ mode = "bucket" /\ live # None => live' # None
  BY DEF Source!Undo, SourceIInv, Source!TypeOK
<1>7. QED BY <1>2, <1>3, <1>4, <1>5, <1>6, SourceStepKeeps DEF Source!Undo

-----------------------------------------------------------------------------
(* The end of an install.                                                  *)

(* The rows are of the tree that is live, which is the archive's.          *)
LEMMA SourceCommitKeeps ==
    ASSUME SourceDistinct, SourceIInv, NEW i \in Archives, Source!Commit(i)
    PROVE SourceIInv'
<1> DEFINE pc == IF mode = "local" THEN "tidy" ELSE "ok"
<1>1. PICK r : r = [run[i] EXCEPT !.pc = pc]
  OBVIOUS
<1>2. /\ r \in Source!Run /\ run' = [run EXCEPT ![i] = r] /\ run'[i] = r
      /\ r.pc = pc /\ r.tree = run[i].tree /\ r.before = run[i].before
      /\ r.swapped = run[i].swapped /\ r.shared = run[i].shared
  BY <1>1, SourceGoTo DEF Source!Commit
<1>3. Source!Running(i) /\ Source!At(i, "commit") /\ indexed' = run[i].tree /\ state' = "ok"
      /\ UNCHANGED <<mode, live, incoming, previous, latest, deleting>>
  BY DEF Source!Commit, Source!At, Source!Running
<1>4. (Source!Running(i)' /\ SourceMade(i) /\ SourceSaved(i)) => SourceMade(i)' /\ SourceSaved(i)'
  BY <1>2, <1>3 DEF SourceMade, SourceSaved, SourcePut, SourceSetAside, Source!At, Source!Running
<1>5. Source!OkIsWhole'
  <2>1. (~run[i].shared /\ ~deleting) => live = {i} /\ run[i].tree = {i}
    BY <1>3 DEF Source!At, SourceIInv, SourceUnderway, Source!Undisturbed, SourceMade
  <2>2. {i} # None
    BY DEF SourceDistinct, Source!Trees
  <2>3. QED BY <1>2, <1>3, <2>1, <2>2 DEF Source!OkIsWhole, Source!Held
<1>6. run[i].tree \in Source!Trees
  BY DEF SourceIInv, Source!TypeOK, Source!Run
<1>7. QED BY <1>2, <1>3, <1>4, <1>5, <1>6, SourceWorkKeeps DEF SourceIInv, Source!TypeOK

LEMMA SourceTidyKeeps ==
    ASSUME SourceDistinct, SourceIInv, NEW i \in Archives, Source!Tidy(i)
    PROVE SourceIInv'
<1>1. PICK r : r = [run[i] EXCEPT !.pc = "ok"]
  OBVIOUS
<1>2. /\ r \in Source!Run /\ run' = [run EXCEPT ![i] = r] /\ run'[i] = r
      /\ r.pc = "ok" /\ r.swapped = run[i].swapped /\ r.shared = run[i].shared
  BY <1>1, SourceGoTo DEF Source!Tidy
<1>3. Source!Running(i) /\ ~Source!Running(i)' /\ previous' = None
      /\ UNCHANGED <<mode, live, incoming, indexed, state, latest, deleting>>
  BY <1>2 DEF Source!Tidy, Source!At, Source!Running
<1>4. \A j \in Archives : run'[j].shared = run[j].shared
  BY <1>2 DEF SourceIInv, Source!TypeOK
<1>5. Source!OkIsWhole'
  BY <1>3, <1>4 DEF SourceIInv, Source!StateTells, Source!OkIsWhole, Source!Held
<1>6. QED BY <1>2, <1>3, <1>5, SourceWorkKeeps DEF SourceIInv, Source!TypeOK

LEMMA SourceMarkFailedKeeps ==
    ASSUME SourceDistinct, SourceIInv, NEW i \in Archives, Source!MarkFailed(i)
    PROVE SourceIInv'
<1>1. PICK r : r = [run[i] EXCEPT !.pc = "failed"]
  OBVIOUS
<1>2. /\ r \in Source!Run /\ run' = [run EXCEPT ![i] = r] /\ run'[i] = r
      /\ r.pc = "failed" /\ r.swapped = run[i].swapped /\ r.shared = run[i].shared
  BY <1>1, SourceGoTo DEF Source!MarkFailed
<1>3. Source!Running(i) /\ ~Source!Running(i)' /\ state' \in {"failed", "gone"}
      /\ UNCHANGED <<mode, live, incoming, previous, indexed, latest, deleting>>
  BY <1>2 DEF Source!MarkFailed, Source!Marked, Source!At, Source!Running
<1>4. Source!OkIsWhole'
  BY <1>3 DEF Source!OkIsWhole
<1>5. QED BY <1>2, <1>3, <1>4, SourceWorkKeeps DEF SourceIInv, Source!TypeOK

-----------------------------------------------------------------------------
(* An install begins: alone, or it and the others know.                    *)
LEMMA SourceBeginKeeps ==
    ASSUME SourceDistinct, SourceIInv, NEW i \in Archives, Source!Begin(i)
    PROVE SourceIInv'
<1> DEFINE others == {j \in Archives \ {i} : Source!Running(j)}
<1>1. /\ Source!At(i, "new") /\ state' = "pending" /\ latest' = i
      /\ UNCHANGED <<mode, live, incoming, previous, indexed, deleting>>
      /\ run' = [j \in Archives |->
                  IF j = i THEN [run[i] EXCEPT !.pc = IF mode = "local" THEN "clear" ELSE "extract",
                                               !.before = live, !.shared = others # {}]
                  ELSE [run[j] EXCEPT !.shared = @ \/ j \in others]]
  BY DEF Source!Begin, Source!Mark
<1>2. /\ run'[i].pc = IF mode = "local" THEN "clear" ELSE "extract"
      /\ run'[i].before = live /\ run'[i].shared = (others # {}) /\ run'[i].swapped = run[i].swapped
      /\ run'[i] \in Source!Run
  BY <1>1 DEF SourceIInv, Source!TypeOK, Source!Run
<1>3. ASSUME NEW j \in Archives, j # i
      PROVE  /\ run'[j].pc = run[j].pc /\ run'[j].swapped = run[j].swapped
             /\ run'[j].shared = (run[j].shared \/ Source!Running(j)) /\ run'[j] \in Source!Run
  BY <1>1, <1>3 DEF SourceIInv, Source!TypeOK, Source!Run
<1> HIDE DEF others
<1>4. /\ ~run[i].swapped /\ mode' = mode
      /\ (run'[i].pc = "clear" /\ mode = "local") \/ (run'[i].pc = "extract" /\ mode = "bucket")
  BY <1>1, <1>2 DEF Source!At, SourceIInv, SourceInMode, Source!TypeOK
<1>5. Source!TypeOK'
  <2>1. run' \in [Archives -> Source!Run]
    BY <1>1, <1>2, <1>3
  <2>2. QED BY <1>1, <2>1 DEF SourceIInv, Source!TypeOK
<1>6. \A j \in Archives : j # i => (Source!Running(j)' <=> Source!Running(j))
  BY <1>3 DEF Source!Running
<1>7. \A j \in Archives : j # i /\ Source!Running(j) => run'[j].shared /\ run'[i].shared
  BY <1>2, <1>3 DEF others
<1>8. SourceAlone' /\ SourceOvertaken'
  BY <1>1, <1>6, <1>7 DEF SourceAlone, SourceOvertaken, SourceDistinct
<1>9. SourceInMode'
  <2>1. ASSUME NEW j \in Archives, j # i
        PROVE  /\ run'[j].pc \in {"clear", "drop", "retire", "promote", "tidy"} => mode' = "local"
               /\ run'[j].pc \in {"purge", "upload"} => mode' = "bucket"
               /\ run'[j].pc = "upload" => live' # None
               /\ run'[j].swapped => run'[j].pc \notin {"new", "clear", "extract", "index", "drop", "retire", "promote"}
    BY <1>1, <1>3, <2>1 DEF SourceIInv, SourceInMode, Source!At
  <2>2. /\ run'[i].pc = "clear" => mode' = "local"
        /\ run'[i].pc \in {"clear", "extract"} /\ ~run'[i].swapped
    BY <1>2, <1>4
  <2>3. QED BY <2>1, <2>2 DEF SourceInMode, Source!At
<1>10. SourceUnderway'
  <2>1. ASSUME NEW j \in Archives, Source!Running(j)', Source!Undisturbed(j)' PROVE j = i
    BY <1>6, <1>7, <2>1 DEF Source!Undisturbed
  <2>2. SourceMade(i)' /\ SourceSaved(i)'
    <3>1. /\ run'[i].pc \in {"clear", "extract"} /\ state' = "pending" /\ run'[i].before = live'
          /\ ~(run'[i].pc = "extract" /\ mode' = "local")
      BY <1>1, <1>2, <1>4
    <3>2. QED BY <3>1 DEF SourceMade, SourceSaved, SourcePut, Source!At
  <2>3. QED BY <2>1, <2>2 DEF SourceUnderway
<1>11. Source!StateTells'
  BY <1>1, <1>4 DEF Source!StateTells, Source!OkIsWhole, Source!FailureShows
<1>12. QED BY <1>5, <1>8, <1>9, <1>10, <1>11 DEF SourceIInv

LEMMA SourceStopKeeps == ASSUME SourceDistinct, SourceIInv, Source!Stop PROVE SourceIInv'
<1>1. /\ run' = [i \in Archives |-> IF Source!Running(i) THEN [run[i] EXCEPT !.pc = "stopped"] ELSE run[i]]
      /\ UNCHANGED <<mode, live, incoming, previous, indexed, state, latest, deleting>>
  BY DEF Source!Stop
<1>2. ASSUME NEW i \in Archives
      PROVE  /\ run'[i] \in Source!Run /\ run'[i].shared = run[i].shared /\ run'[i].swapped = run[i].swapped
             /\ run'[i].pc = run[i].pc \/ run'[i].pc = "stopped"
             /\ ~Source!Running(i)'
  BY <1>1 DEF SourceIInv, Source!TypeOK, Source!Run, Source!Running
<1>3. Source!TypeOK'
  BY <1>1, <1>2 DEF SourceIInv, Source!TypeOK
<1>4. SourceAlone' /\ SourceOvertaken' /\ SourceUnderway'
  BY <1>2 DEF SourceAlone, SourceOvertaken, SourceUnderway
<1>5. SourceInMode'
  BY <1>1, <1>2 DEF SourceIInv, SourceInMode, Source!At
<1>6. Source!StateTells'
  BY <1>1, <1>2 DEF SourceIInv, Source!StateTells, Source!OkIsWhole, Source!FailureShows, Source!TypeOK
<1>7. QED BY <1>3, <1>4, <1>5, <1>6 DEF SourceIInv

LEMMA SourceDeleteKeeps ==
    ASSUME SourceDistinct, SourceIInv, Source!DeleteFiles \/ Source!DeleteRows
    PROVE SourceIInv'
<1>1. /\ deleting' /\ deleting' \in BOOLEAN /\ UNCHANGED <<mode, incoming, previous, run, latest>>
      /\ live' \in Source!Trees \cup {None} /\ indexed' \in Source!Trees
      /\ mode = "bucket" /\ live # None => live' # None
      /\ state' = state \/ state' = "gone"
  <2>1. CASE Source!DeleteFiles
    BY <2>1 DEF Source!DeleteFiles, SourceIInv, Source!TypeOK, Source!Trees, SourceDistinct
  <2>2. CASE Source!DeleteRows
    BY <2>2 DEF Source!DeleteRows, SourceIInv, Source!TypeOK, Source!Trees
  <2>3. QED BY <2>1, <2>2
<1>2. Source!TypeOK'
  BY <1>1 DEF SourceIInv, Source!TypeOK
<1>3. SourceAlone' /\ SourceOvertaken' /\ SourceInMode' /\ SourceUnderway'
  BY <1>1 DEF SourceIInv, SourceAlone, SourceOvertaken, SourceInMode, SourceUnderway, Source!Running,
     Source!Undisturbed, Source!At
<1>4. Source!StateTells'
  BY <1>1 DEF SourceIInv, Source!StateTells, Source!OkIsWhole, Source!FailureShows
<1>5. QED BY <1>2, <1>3, <1>4 DEF SourceIInv

LEMMA SourceNextIInv == ASSUME SourceDistinct, SourceIInv, [Source!Next]_Source!vars PROVE SourceIInv'
<1>1. ASSUME NEW i \in Archives, Source!Work(i) PROVE SourceIInv'
  BY <1>1, SourceBeginKeeps, SourceClearKeeps, SourceExtractKeeps, SourceIndexKeeps,
     SourceDropPreviousKeeps, SourceRetireKeeps, SourcePromoteKeeps,
     SourcePurgeKeeps, SourceUploadKeeps, SourceCommitKeeps, SourceTidyKeeps, SourceRaiseKeeps,
     SourceUndoKeeps, SourceMarkFailedKeeps DEF Source!Work
<1>2. CASE UNCHANGED Source!vars
  BY <1>2 DEF Source!vars, SourceIInv, Source!TypeOK, SourceAlone, SourceOvertaken, SourceInMode,
     SourceUnderway, Source!Running, Source!Undisturbed, SourceMade, SourceSaved,
              SourcePut, SourceSetAside, Source!At, Source!StateTells, Source!OkIsWhole,
              Source!FailureShows, Source!Held
<1>3. QED BY <1>1, <1>2, SourceStopKeeps, SourceDeleteKeeps DEF Source!Next

LEMMA SourceHolds == ASSUME SourceIInv PROVE Source!StateTells
BY DEF SourceIInv

(* A step that fails an undisturbed install on a local disk leaves the      *)
(* files that were live when it began.                                     *)
LEMMA SourceFailureKeepsFiles ==
    ASSUME SourceIInv, [Source!Next]_Source!vars, NEW i \in Archives, Source!At(i, "mark"), run'[i].pc = "failed",
           mode = "local", Source!Undisturbed(i), run[i].before # None
    PROVE  live' = run[i].before
<1>1. Source!Running(i) /\ live = run[i].before
  BY DEF Source!At, Source!Running, SourceIInv, SourceUnderway, SourceSaved, SourcePut
<1>2. \A j \in Archives : Source!Running(j) => j = i
  BY <1>1 DEF SourceIInv, SourceAlone, Source!Undisturbed
<1>3. run'[i].pc # run[i].pc
  BY DEF Source!At
<1>4. CASE \E j \in Archives : Source!Begin(j)
  BY <1>3, <1>4, <1>1 DEF Source!Begin
<1>5. CASE \E j \in Archives : Source!Work(j) /\ ~Source!Begin(j)
  <2>1. PICK j \in Archives : Source!Work(j) /\ ~Source!Begin(j)
    BY <1>5
  <2>2. Source!Running(j)
    BY <2>1 DEF Source!Work, Source!Clear, Source!Extract, Source!Index, Source!DropPrevious,
       Source!Retire, Source!Promote, Source!Purge, Source!Upload, Source!Commit, Source!Tidy,
                Source!Raise, Source!Undo, Source!MarkFailed, Source!At, Source!Running
  <2>3. Source!MarkFailed(i)
    BY <1>2, <2>1, <2>2 DEF Source!Work, Source!Clear, Source!Extract, Source!Index,
       Source!DropPrevious, Source!Retire, Source!Promote, Source!Purge, Source!Upload,
                Source!Commit, Source!Tidy, Source!Raise, Source!Undo, Source!At
  <2>4. QED BY <1>1, <2>3 DEF Source!MarkFailed
<1>6. CASE Source!Stop
  BY <1>1, <1>6 DEF Source!Stop, SourceIInv, Source!TypeOK
<1>7. CASE Source!DeleteFiles \/ Source!DeleteRows \/ UNCHANGED Source!vars
  BY <1>3, <1>7 DEF Source!DeleteFiles, Source!DeleteRows, Source!vars
<1>8. QED BY <1>4, <1>5, <1>6, <1>7 DEF Source!Next

(* A behaviour of the composition is one of SourceInstall, with steps that *)
(* leave it alone.                                                         *)
LEMMA SourceSpec == WorkspaceSpec => Source!Spec
<1>1. WorkspaceInit => Source!Init
  BY DEF WorkspaceInit
<1>2. [WorkspaceNext]_workspaceVars => [Source!Next]_Source!vars
  BY DEF WorkspaceNext, workspaceVars, sourceVars, Source!vars
<1>3. QED BY <1>1, <1>2, PTL DEF WorkspaceSpec, Source!Spec

LEMMA SourceInvariant == WorkspaceSpec => []SourceIInv
<1>1. Source!Init => SourceIInv
  BY SourceInitIInv, NamesAssumption DEF SourceDistinct
<1>2. SourceIInv /\ [Source!Next]_Source!vars => SourceIInv'
  BY SourceNextIInv, NamesAssumption DEF SourceDistinct
<1>3. QED BY <1>1, <1>2, SourceSpec, PTL DEF Source!Spec

(* A copy that says ok is one archive, the one its rows are of, unless     *)
(* installs met; a copy whose last install failed does not say ok          *)
(* (install_workspace_zip, source_state.py).                               *)
THEOREM StateTellsAlways == WorkspaceSpec => []StateTells
<1>1. SourceIInv => StateTells
  BY SourceHolds DEF StateTells
<1>2. QED BY <1>1, SourceInvariant, PTL

(* On a local disk an undisturbed install that fails ends with the tree    *)
(* live that was live when it began (_restore_local).                      *)
THEOREM FailedKeepsFilesAlways == WorkspaceSpec => FailedKeepsFiles
<1>1. SourceIInv /\ [Source!Next]_Source!vars =>
          [\A i \in Archives :
              (/\ Source!At(i, "mark") /\ run'[i].pc = "failed" /\ mode = "local"
               /\ Source!Undisturbed(i) /\ run[i].before # None)
                  => live' = run[i].before]_Source!vars
  BY SourceFailureKeepsFiles
<1>2. QED BY <1>1, SourceInvariant, SourceSpec, PTL DEF Source!Spec, FailedKeepsFiles, Source!FailedKeepsFiles

-----------------------------------------------------------------------------
(* FilePreview: reading the files of a project.                            *)

(* parse_range returns the ends of exactly the positions the header asks   *)
(* for, within the file, and calls a range unsatisfiable only when it asks *)
(* for none.                                                               *)
THEOREM ViewRangeIsExact ==
    ASSUME NEW n \in Nat, NEW first \in Nat \cup {View!Blank}, NEW last \in Nat \cup {View!Blank}
    PROVE  LET range == [first |-> first, last |-> last] IN
           /\ View!Positions(View!ParseRange(range, n), n) = View!Wanted(range, n)
           /\ View!ParseRange(range, n) = View!Unsatisfiable => View!Wanted(range, n) = {}
<1> DEFINE range == [first |-> first, last |-> last]
<1> USE DEF View!Blank
<1>1. range = View!Whole <=> first = View!Blank /\ last = View!Blank
  BY DEF View!Whole
<1>2. CASE n = 0 \/ range = View!Whole
  BY <1>1, <1>2 DEF View!ParseRange, View!Positions, View!All, View!Unsatisfiable, View!Wanted,
     View!Ignored, View!Whole
<1>3. CASE n # 0 /\ range # View!Whole /\ first # View!Blank
  <2>1. CASE last # View!Blank /\ last < first
    BY <1>1, <1>3, <2>1 DEF View!ParseRange, View!Positions, View!All, View!Unsatisfiable, View!Wanted,
       View!Ignored
  <2>2. CASE ~(last # View!Blank /\ last < first) /\ first >= n
    BY <1>1, <1>3, <2>2 DEF View!ParseRange, View!Positions, View!Unsatisfiable, View!Wanted,
       View!Ignored
  <2>3. CASE ~(last # View!Blank /\ last < first) /\ ~(first >= n)
    BY <1>1, <1>3, <2>3 DEF View!ParseRange, View!Positions, View!Span, View!EndOf, View!Least,
       View!Unsatisfiable, View!Wanted, View!Ignored
  <2>4. QED BY <2>1, <2>2, <2>3
<1>4. CASE n # 0 /\ range # View!Whole /\ first = View!Blank
  BY <1>1, <1>4 DEF View!ParseRange, View!Positions, View!Span, View!Most, View!Unsatisfiable,
     View!Wanted, View!Ignored
<1>5. QED BY <1>2, <1>3, <1>4

-----------------------------------------------------------------------------
(* What the bounds have to satisfy: a preview's range is one of the ranges *)
(* that are enumerated.                                                    *)
ViewBounds == /\ MaxSize \in Nat /\ MaxPosition \in Nat /\ HeadSize \in 1..MaxPosition + 1
              /\ Asked # {}

(* The size that was read is still the size of a file that nobody replaced.*)
ViewFresh ==
    \A t \in Reads : reading[t].at = "open" /\ ~reading[t].changed => size[reading[t].path] = reading[t].size

ViewIInv == View!TypeOK /\ ViewFresh /\ View!RangesExact /\ View!LinksGiveNoMore

(* A thread's request is replaced, the others stay.                        *)
LEMMA ViewGoes ==
    ASSUME reading \in [Reads -> View!Work], NEW t \in Reads, NEW request \in View!Work, View!Go(t, request)
    PROVE  /\ reading' \in [Reads -> View!Work] /\ reading'[t] = request
           /\ \A u \in Reads : u # t => reading'[u] = reading[u]
BY DEF View!Go

LEMMA ViewIdleIsWork == ASSUME ViewBounds PROVE View!Idle \in View!Work
BY DEF ViewBounds, View!Idle, View!Work, View!Ranges, View!Whole, View!Readers, View!Blank

(* The bytes sent are a part of the file whose size was read.              *)
LEMMA ViewSentIsWanted ==
    ASSUME NEW n \in Nat, NEW now \in Int, NEW range \in View!Ranges, ViewBounds
    PROVE  LET sent == {i \in View!Positions(View!ParseRange(range, n), n) : i < now} IN
           /\ sent \subseteq View!Wanted(range, n) /\ sent \subseteq 0..n - 1
           /\ now = n => sent = View!Wanted(range, n)
<1>1. PICK first \in Nat \cup {View!Blank}, last \in Nat \cup {View!Blank} :
        range = [first |-> first, last |-> last]
  BY DEF View!Ranges, View!Blank, ViewBounds
<1>2. View!Positions(View!ParseRange(range, n), n) = View!Wanted(range, n)
  BY <1>1, ViewRangeIsExact
<1>3. View!Wanted(range, n) \subseteq 0..n - 1
  BY DEF View!Wanted
<1>4. QED BY <1>2, <1>3

LEMMA ViewInitIInv == ASSUME ViewBounds, View!Init PROVE ViewIInv
<1>1. View!TypeOK
  BY ViewIdleIsWork DEF View!Init, View!TypeOK, ViewBounds, View!Missing
<1>2. QED
  BY <1>1 DEF View!Init, ViewIInv, ViewFresh, View!RangesExact, View!LinksGiveNoMore, View!Idle

(* A request that begins has found its reader entitled.                    *)
LEMMA ViewAskKeeps ==
    ASSUME ViewBounds, ViewIInv, NEW t \in Reads, NEW u \in View!Readers, NEW p \in Asked,
           NEW range \in View!Ranges, View!Ask(t, u, p, range)
    PROVE  ViewIInv'
<1> DEFINE request == [View!Idle EXCEPT !.at = "asked", !.path = p, !.range = range,
                                        !.entitled = View!MayRead(u, p)]
<1>1. request \in View!Work /\ request.at = "asked" /\ request.entitled
  <2>1. View!MayRead(u, p) /\ View!MayRead(u, p) \in BOOLEAN
    BY DEF View!Ask, View!MayRead
  <2>2. QED BY <2>1, ViewIdleIsWork DEF View!Idle, View!Work
<1>2. View!Go(t, request) /\ UNCHANGED <<rights, size, links>>
  BY DEF View!Ask
<1> HIDE DEF request
<1>3. QED BY <1>1, <1>2, ViewGoes DEF ViewIInv, View!TypeOK, ViewFresh, View!RangesExact,
             View!LinksGiveNoMore

LEMMA ViewFollowLinkKeeps ==
    ASSUME ViewBounds, ViewIInv, NEW t \in Reads, NEW u \in View!Readers, NEW link \in links,
           NEW range \in View!Ranges, View!FollowLink(t, u, link, range)
    PROVE  ViewIInv'
<1>1. link.path \in Asked /\ View!StandsFor(u, link) \in View!Readers
  BY DEF ViewIInv, View!TypeOK, View!Links, View!StandsFor
<1>2. View!Ask(t, View!StandsFor(u, link), link.path, range)
  BY DEF View!FollowLink, View!Ask, View!Granting
<1>3. QED BY <1>1, <1>2, ViewAskKeeps

LEMMA ViewDescribeKeeps ==
    ASSUME ViewBounds, ViewIInv, NEW t \in Reads, View!Describe(t)
    PROVE ViewIInv'
<1> DEFINE n == size[reading[t].path]
<1>1. CASE n = View!Missing
  BY <1>1, ViewIdleIsWork, ViewGoes DEF View!Describe, ViewIInv, View!TypeOK, ViewFresh,
     View!RangesExact, View!LinksGiveNoMore, View!Idle
<1>2. CASE n # View!Missing
  <2> DEFINE request == [reading[t] EXCEPT !.at = "open", !.size = n]
  <2>1. n \in 0..MaxSize
    BY <1>2 DEF ViewIInv, View!TypeOK, View!Work, View!Missing, ViewBounds
  <2>2. request \in View!Work /\ request.at = "open" /\ request.entitled /\ request.size = n
            /\ request.path = reading[t].path
    BY <2>1 DEF ViewIInv, View!TypeOK, View!Work, View!LinksGiveNoMore, View!Describe
  <2>3. View!Go(t, request) /\ UNCHANGED <<rights, size, links>>
    BY <1>2 DEF View!Describe
  <2> HIDE DEF request
  <2>4. QED BY <2>2, <2>3, ViewGoes DEF ViewIInv, View!TypeOK, ViewFresh, View!RangesExact,
               View!LinksGiveNoMore
<1>3. QED BY <1>1, <1>2

LEMMA ViewSendKeeps == ASSUME ViewBounds, ViewIInv, NEW t \in Reads, View!Send(t) PROVE ViewIInv'
<1> DEFINE n == size[reading[t].path]
           was == reading[t].size
           range == reading[t].range
           sent == {i \in View!Positions(View!ParseRange(range, was), was) : i < n}
           request == [reading[t] EXCEPT !.at = "sent", !.sent = sent, !.path = View!Idle.path]
<1>1. reading[t] \in View!Work /\ n \in Int /\ was \in Nat /\ was \in 0..MaxSize /\ range \in View!Ranges
  BY DEF ViewIInv, View!TypeOK, View!Work, View!Missing, ViewBounds
<1>2. /\ sent \subseteq View!Wanted(range, was) /\ sent \subseteq 0..was - 1
      /\ n = was => sent = View!Wanted(range, was)
  BY <1>1, ViewSentIsWanted
<1>3. sent \subseteq 0..MaxSize - 1
  BY <1>1, <1>2 DEF ViewBounds
<1>4. ~reading[t].changed => n = was
  BY DEF ViewIInv, ViewFresh, View!Send
<1>5. View!Idle.path \in Asked
  BY ViewIdleIsWork DEF View!Work
<1>6. View!Go(t, request) /\ UNCHANGED <<rights, size, links>>
  BY DEF View!Send
<1> HIDE DEF sent, n
<1>7. /\ request \in View!Work /\ request.at = "sent" /\ request.sent = sent /\ request.range = range
      /\ request.size = was /\ request.changed = reading[t].changed
      /\ request.entitled = reading[t].entitled
  BY <1>1, <1>3, <1>5 DEF View!Work
<1>8. reading[t].entitled
  BY DEF ViewIInv, View!LinksGiveNoMore, View!Send
<1> HIDE DEF request
<1>9. reading' \in [Reads -> View!Work] /\ reading'[t] = request
      /\ \A v \in Reads : v # t => reading'[v] = reading[v]
  BY <1>6, <1>7, ViewGoes DEF ViewIInv, View!TypeOK
<1>10. View!TypeOK' /\ ViewFresh'
  BY <1>6, <1>7, <1>9 DEF ViewIInv, View!TypeOK, ViewFresh
<1>11. View!RangesExact'
  BY <1>2, <1>4, <1>7, <1>9 DEF ViewIInv, View!RangesExact
<1>12. View!LinksGiveNoMore'
  BY <1>7, <1>8, <1>9 DEF ViewIInv, View!LinksGiveNoMore
<1>13. QED BY <1>10, <1>11, <1>12 DEF ViewIInv

LEMMA ViewMetaKeeps ==
    ASSUME ViewBounds, ViewIInv, NEW t \in Reads,
           (\E u \in View!Readers, p \in Asked : View!AskMeta(t, u, p)) \/ View!IssueLink(t)
    PROVE  ViewIInv'
<1>1. ASSUME NEW u \in View!Readers, NEW p \in Asked, View!AskMeta(t, u, p) PROVE ViewIInv'
  <2> DEFINE request == [View!Idle EXCEPT !.at = "meta", !.reader = u, !.path = p]
  <2>1. request \in View!Work /\ request.at = "meta"
    BY ViewIdleIsWork DEF View!Idle, View!Work
  <2>2. View!Go(t, request) /\ UNCHANGED <<rights, size, links>>
    BY <1>1 DEF View!AskMeta
  <2> HIDE DEF request
  <2>3. QED BY <2>1, <2>2, ViewGoes DEF ViewIInv, View!TypeOK, ViewFresh, View!RangesExact,
               View!LinksGiveNoMore
<1>2. ASSUME View!IssueLink(t) PROVE ViewIInv'
  <2>1. links' \subseteq View!Links
    BY <1>2 DEF View!IssueLink, ViewIInv, View!TypeOK, View!Links, View!Work
  <2>2. View!Go(t, View!Idle) /\ UNCHANGED <<rights, size>> /\ View!Idle.at = "idle"
    BY <1>2 DEF View!IssueLink, View!Idle
  <2>3. QED
    BY <2>1, <2>2, ViewIdleIsWork, ViewGoes DEF ViewIInv, View!TypeOK, ViewFresh, View!RangesExact,
       View!LinksGiveNoMore
<1>3. QED BY <1>1, <1>2

(* A file that is replaced marks every response that has read its size.    *)
LEMMA ViewReplaceKeeps ==
    ASSUME ViewBounds, ViewIInv, NEW p \in Asked, NEW n \in View!Missing..MaxSize, View!Replace(p, n) PROVE ViewIInv'
<1>1. reading' \in [Reads -> View!Work]
  <2>1. \A t \in Reads : [reading[t] EXCEPT !.changed = TRUE] \in View!Work
    BY DEF ViewIInv, View!TypeOK, View!Work
  <2>2. QED BY <2>1 DEF View!Replace, ViewIInv, View!TypeOK
<1>2. \A t \in Reads :
          /\ reading'[t].at = reading[t].at /\ reading'[t].path = reading[t].path
          /\ reading'[t].range = reading[t].range /\ reading'[t].size = reading[t].size
          /\ reading'[t].sent = reading[t].sent /\ reading'[t].entitled = reading[t].entitled
          /\ reading[t].at # "open" => reading'[t] = reading[t]
          /\ reading[t].at = "open" /\ reading[t].path = p => reading'[t].changed
          /\ reading[t].path # p => reading'[t] = reading[t]
  BY DEF View!Replace, ViewIInv, View!TypeOK, View!Work
<1>3. View!TypeOK'
  BY <1>1 DEF View!Replace, ViewIInv, View!TypeOK
<1>4. size' = [size EXCEPT ![p] = n] /\ size \in [Asked -> View!Missing..MaxSize]
  BY DEF View!Replace, ViewIInv, View!TypeOK
<1>5. ViewFresh'
  BY <1>2, <1>4 DEF ViewIInv, ViewFresh, View!TypeOK, View!Work
<1>6. View!RangesExact' /\ View!LinksGiveNoMore'
  BY <1>2 DEF ViewIInv, View!RangesExact, View!LinksGiveNoMore
<1>7. QED BY <1>3, <1>5, <1>6 DEF ViewIInv

LEMMA ViewNextIInv == ASSUME ViewBounds, ViewIInv, [View!Next]_View!vars PROVE ViewIInv'
<1>1. ASSUME NEW t \in Reads, View!Serve(t) PROVE ViewIInv'
  <2>1. ASSUME NEW u \in View!Readers, NEW p \in Asked, View!Preview(t, u, p) \/ View!ListArchive(t, u, p) PROVE ViewIInv'
    <3>1. [first |-> 0, last |-> HeadSize - 1] \in View!Ranges /\ View!Whole \in View!Ranges
      BY DEF View!Ranges, View!Whole, View!Blank, ViewBounds
    <3>2. QED BY <2>1, <3>1, ViewAskKeeps DEF View!Preview, View!ListArchive
  <2>2. QED
    BY <1>1, <2>1, ViewAskKeeps, ViewFollowLinkKeeps, ViewDescribeKeeps, ViewSendKeeps,
       ViewMetaKeeps DEF View!Serve
<1>2. ASSUME NEW link \in links, View!Expire(link) PROVE ViewIInv'
  BY <1>2 DEF View!Expire, ViewIInv, View!TypeOK, ViewFresh, View!RangesExact, View!LinksGiveNoMore
<1>3. ASSUME NEW u \in View!Readers, NEW level \in {"none", "view", "secrets"}, View!SetRights(u, level)
      PROVE ViewIInv'
  BY <1>3 DEF View!SetRights, ViewIInv, View!TypeOK, ViewFresh, View!RangesExact, View!LinksGiveNoMore
<1>4. CASE UNCHANGED View!vars
  BY <1>4 DEF View!vars, ViewIInv, View!TypeOK, ViewFresh, View!RangesExact, View!LinksGiveNoMore
<1>5. QED BY <1>1, <1>2, <1>3, <1>4, ViewReplaceKeeps DEF View!Next

LEMMA ViewHolds == ASSUME ViewIInv PROVE View!StreamsHold
BY DEF ViewIInv, View!StreamsHold

(* A behaviour of the composition is one of FilePreview, with steps that   *)
(* leave it alone.                                                         *)
LEMMA ViewSpec == WorkspaceSpec => View!Spec
<1>1. WorkspaceInit => View!Init
  BY DEF WorkspaceInit
<1>2. [WorkspaceNext]_workspaceVars => [View!Next]_View!vars
  BY DEF WorkspaceNext, workspaceVars, readVars, View!vars
<1>3. QED BY <1>1, <1>2, PTL DEF WorkspaceSpec, View!Spec

LEMMA ViewInvariant == WorkspaceSpec => []ViewIInv
<1>1. View!Init => ViewIInv
  BY ViewInitIInv, ReadingAssumption DEF ViewBounds
<1>2. ViewIInv /\ [View!Next]_View!vars => ViewIInv'
  BY ViewNextIInv, ReadingAssumption DEF ViewBounds
<1>3. QED BY <1>1, <1>2, ViewSpec, PTL DEF View!Spec

-----------------------------------------------------------------------------
(* Media: what is uploaded, and the rows and messages that name it.        *)

(* NoFile is no file.                                                      *)
UploadsDistinct == None \notin Files

(* A file of the project may be gone once its deletion has begun.          *)
UploadsRemoved(f) == place[f] \in Uploads!OfProject /\ standing # "there"

(* What a request is storing has its place, what it has stored is there.   *)
UploadsFiled(f) == place[f] # "none" /\ (store[f] # "none" \/ UploadsRemoved(f))
UploadsComplete(f) == place[f] # "none" /\ (store[f] = "whole" \/ UploadsRemoved(f))
UploadsKept ==
    \A t \in Threads, f \in Files :
        /\ upload[t].file = f => UploadsFiled(f)
        /\ f \in upload[t].made => UploadsComplete(f)

(* What was told to a client was stored before, for that place.            *)
UploadsTold ==
    /\ \A f \in shown : place[f] \in Uploads!OfProject /\ (standing = "there" => store[f] = "whole")
    /\ \A f \in offered : place[f] = "chat" /\ store[f] = "whole"
    /\ messages \subseteq offered

(* Nothing for the project after its files were removed, but by an upload  *)
(* that met the deletion.                                                  *)
UploadsCleared ==
    (standing # "there" /\ ~crossing) =>
        /\ \A f \in Files : place[f] \in Uploads!OfProject => store[f] = "none"
        /\ \A t \in Threads : ~Uploads!ForProject(t)

UploadsIInv == Uploads!TypeOK /\ UploadsKept /\ UploadsTold /\ Uploads!NamedIsWhole /\ UploadsCleared

USE DEF Uploads!Columns, Uploads!OfProject, Uploads!Places

(* A thread's request is replaced, the others stay.                        *)
LEMMA UploadsSteps ==
    ASSUME Uploads!TypeOK, NEW t \in Threads, NEW request \in Uploads!Upload, Uploads!Step(t, request)
    PROVE  /\ upload' \in [Threads -> Uploads!Upload] /\ upload'[t] = request
           /\ \A u \in Threads : u # t => upload'[u] = upload[u]
BY DEF Uploads!Step, Uploads!TypeOK

LEMMA UploadsIdleIsUpload == Uploads!Idle \in Uploads!Upload /\ Uploads!Idle.file = None /\ Uploads!Idle.made = {} /\ Uploads!Idle.wants = {}
BY DEF Uploads!Idle, Uploads!Upload

LEMMA UploadsInitIInv == ASSUME UploadsDistinct, Uploads!Init PROVE UploadsIInv
BY UploadsIdleIsUpload DEF Uploads!Init, UploadsDistinct, UploadsIInv, Uploads!TypeOK, UploadsKept,
   UploadsTold, Uploads!NamedIsWhole, UploadsCleared

(* A request that ends without effect.                                     *)
LEMMA UploadsFailKeeps ==
    ASSUME UploadsDistinct, UploadsIInv, NEW t \in Threads, Uploads!Fail(t)
    PROVE UploadsIInv'
<1>1. /\ upload' \in [Threads -> Uploads!Upload] /\ upload'[t] = Uploads!Idle
      /\ \A u \in Threads : u # t => upload'[u] = upload[u]
  BY UploadsIdleIsUpload, UploadsSteps DEF Uploads!Fail, UploadsIInv
<1>2. UNCHANGED <<store, place, Uploads!rows, standing, crossing>>
  BY DEF Uploads!Fail
<1>3. Uploads!TypeOK' /\ UploadsTold' /\ Uploads!NamedIsWhole'
  BY <1>1, <1>2 DEF Uploads!rows, UploadsIInv, Uploads!TypeOK, UploadsTold, Uploads!NamedIsWhole
<1>4. UploadsKept'
  BY <1>1, <1>2, UploadsIdleIsUpload, UploadsDistinct DEF UploadsDistinct, UploadsIInv, UploadsKept,
     UploadsFiled, UploadsComplete, UploadsRemoved
<1>5. UploadsCleared'
  BY <1>1, <1>2, UploadsIdleIsUpload DEF UploadsIInv, UploadsCleared, Uploads!ForProject
<1>6. QED BY <1>3, <1>4, <1>5 DEF UploadsIInv

LEMMA UploadsAskKeeps ==
    ASSUME UploadsDistinct, UploadsIInv, NEW t \in Threads, NEW wants \in SUBSET Uploads!Places, Uploads!Ask(t, wants),
           crossing' \in BOOLEAN, crossing => crossing',
           wants \cap Uploads!OfProject # {} => standing = "there" \/ crossing'
    PROVE  UploadsIInv'
<1> DEFINE request == [Uploads!Idle EXCEPT !.wants = wants]
<1>1. request \in Uploads!Upload /\ request.file = None /\ request.made = {} /\ request.wants = wants
  BY DEF Uploads!Idle, Uploads!Upload
<1>2. Uploads!Step(t, request) /\ UNCHANGED <<store, place, Uploads!rows, standing>>
  BY DEF Uploads!Ask
<1> HIDE DEF request
<1>3. /\ upload' \in [Threads -> Uploads!Upload] /\ upload'[t] = request
      /\ \A u \in Threads : u # t => upload'[u] = upload[u]
  BY <1>1, <1>2, UploadsSteps DEF UploadsIInv
<1>4. Uploads!TypeOK' /\ UploadsTold' /\ Uploads!NamedIsWhole'
  BY <1>2, <1>3 DEF Uploads!rows, UploadsIInv, Uploads!TypeOK, UploadsTold, Uploads!NamedIsWhole
<1>5. UploadsKept'
  BY <1>1, <1>2, <1>3, UploadsDistinct DEF UploadsDistinct, UploadsIInv, UploadsKept, UploadsFiled,
     UploadsComplete, UploadsRemoved
<1>6. UploadsCleared'
  BY <1>1, <1>2, <1>3 DEF UploadsIInv, UploadsCleared, Uploads!ForProject, Uploads!TypeOK
<1>7. QED BY <1>4, <1>5, <1>6 DEF UploadsIInv

LEMMA UploadsOpenKeeps ==
    ASSUME UploadsDistinct, UploadsIInv, NEW t \in Threads, NEW f \in Files, Uploads!Open(t, f) PROVE UploadsIInv'
<1>1. PICK p \in upload[t].wants :
        place' = [place EXCEPT ![f] = p] /\ Uploads!Step(t, [upload[t] EXCEPT !.file = f, !.wants = @ \ {p}])
  BY DEF Uploads!Open
<1> DEFINE request == [upload[t] EXCEPT !.file = f, !.wants = @ \ {p}]
<1>2. /\ request \in Uploads!Upload /\ request.file = f /\ request.made = upload[t].made
      /\ request.wants = upload[t].wants \ {p} /\ p \in Uploads!Places
  BY DEF UploadsIInv, Uploads!TypeOK, Uploads!Upload
<1>3. Uploads!Step(t, request)
  BY <1>1
<1> HIDE DEF request
<1>4. /\ upload' \in [Threads -> Uploads!Upload] /\ upload'[t] = request
      /\ \A u \in Threads : u # t => upload'[u] = upload[u]
  BY <1>2, <1>3, UploadsSteps DEF UploadsIInv
<1>5. /\ store' = [store EXCEPT ![f] = "part"] /\ store[f] = "none" /\ place[f] = "none"
      /\ UNCHANGED <<Uploads!rows, standing, crossing>>
  BY DEF Uploads!Open
<1>6. \A g \in Files : g # f => store'[g] = store[g] /\ place'[g] = place[g]
  BY <1>1, <1>5 DEF UploadsIInv, Uploads!TypeOK
<1>7. store'[f] = "part" /\ place'[f] = p
  BY <1>1, <1>5 DEF UploadsIInv, Uploads!TypeOK
<1>8. Uploads!TypeOK'
  BY <1>1, <1>2, <1>4, <1>5, <1>6 DEF Uploads!rows, UploadsIInv, Uploads!TypeOK
<1>9. UploadsKept'
  <2>1. ASSUME NEW u \in Threads, NEW g \in Files
        PROVE  (upload'[u].file = g => UploadsFiled(g)') /\ (g \in upload'[u].made => UploadsComplete(g)')
    <3>1. CASE g = f
      <4>1. upload[u].file # g /\ g \notin upload[u].made
        BY <1>5, <3>1 DEF UploadsIInv, UploadsKept, UploadsFiled, UploadsComplete
      <4>2. upload'[u].made = upload[u].made
        BY <1>2, <1>4
      <4>3. UploadsFiled(g)'
        BY <1>2, <1>7, <3>1 DEF UploadsFiled
      <4>4. QED BY <4>1, <4>2, <4>3
    <3>2. CASE g # f
      <4>1. (UploadsFiled(g) => UploadsFiled(g)') /\ (UploadsComplete(g) => UploadsComplete(g)')
        BY <1>5, <1>6, <3>2 DEF UploadsFiled, UploadsComplete, UploadsRemoved
      <4>2. /\ upload'[u].made = upload[u].made
            /\ upload'[u].file = g => upload[u].file = g
        BY <1>2, <1>4, <3>2
      <4>3. QED BY <4>1, <4>2 DEF UploadsIInv, UploadsKept
    <3>3. QED BY <3>1, <3>2
  <2>2. QED BY <2>1 DEF UploadsKept
<1>10. UploadsTold'
  BY <1>5, <1>6 DEF Uploads!rows, UploadsIInv, UploadsTold, Uploads!TypeOK
<1>11. Uploads!NamedIsWhole'
  BY <1>5, <1>6 DEF Uploads!rows, UploadsIInv, Uploads!NamedIsWhole, Uploads!TypeOK
<1>12. UploadsCleared'
  <2>1. CASE standing # "there" /\ ~crossing
    <3>1. /\ \A g \in Files : place[g] \in Uploads!OfProject => store[g] = "none"
          /\ \A u \in Threads : ~Uploads!ForProject(u)
      BY <2>1 DEF UploadsIInv, UploadsCleared
    <3>2. p \notin Uploads!OfProject
      BY <3>1 DEF Uploads!ForProject
    <3>3. \A g \in Files : place'[g] \in Uploads!OfProject => store'[g] = "none"
      BY <3>1, <3>2, <1>6, <1>7
    <3>4. \A u \in Threads : upload'[u].wants \subseteq upload[u].wants
      BY <1>2, <1>4
    <3>5. \A u \in Threads : \A g \in upload'[u].made \cup ({upload'[u].file} \ {None}) :
              g = f \/ (g \in Files /\ g \in upload[u].made \cup ({upload[u].file} \ {None}))
      BY <1>2, <1>4 DEF UploadsIInv, Uploads!TypeOK, Uploads!Upload
    <3>6. \A u \in Threads : ~Uploads!ForProject(u)'
      BY <3>1, <3>2, <3>4, <3>5, <1>6, <1>7 DEF Uploads!ForProject
    <3>7. QED BY <3>3, <3>6 DEF UploadsCleared
  <2>2. CASE ~(standing # "there" /\ ~crossing)
    BY <2>2, <1>5 DEF UploadsCleared
  <2>3. QED BY <2>1, <2>2
<1>13. QED BY <1>8, <1>9, <1>10, <1>11, <1>12 DEF UploadsIInv

LEMMA UploadsWriteKeeps ==
    ASSUME UploadsDistinct, UploadsIInv, NEW t \in Threads, Uploads!Write(t)
    PROVE UploadsIInv'
<1>1. PICK f \in Files : f = upload[t].file
  BY DEF Uploads!Write, UploadsIInv, Uploads!TypeOK, Uploads!Upload
<1> DEFINE request == [upload[t] EXCEPT !.file = None, !.made = @ \cup {f}]
<1>0. upload[t] \in Uploads!Upload
  BY DEF UploadsIInv, Uploads!TypeOK
<1>2. /\ request \in Uploads!Upload /\ request.file = None /\ request.made = upload[t].made \cup {f}
      /\ request.wants = upload[t].wants
  BY <1>0 DEF Uploads!Upload
<1>3. Uploads!Step(t, request) /\ UNCHANGED <<place, Uploads!rows, standing, crossing>>
  BY <1>1 DEF Uploads!Write
<1> HIDE DEF request
<1>4. /\ upload' \in [Threads -> Uploads!Upload] /\ upload'[t] = request
      /\ \A u \in Threads : u # t => upload'[u] = upload[u]
  BY <1>2, <1>3, UploadsSteps DEF UploadsIInv
<1>5. /\ store' \in [Files -> {"none", "part", "whole"}]
      /\ \A g \in Files : store'[g] = store[g] \/ (g = f /\ store'[g] = "whole")
      /\ store'[f] = "whole" \/ store[f] = "none"
  BY <1>1 DEF Uploads!Write, UploadsIInv, Uploads!TypeOK
<1>6. f # None /\ place[f] # "none" /\ (store[f] # "none" \/ UploadsRemoved(f))
  BY <1>1, UploadsDistinct DEF Uploads!Write, UploadsIInv, UploadsKept, UploadsFiled, UploadsDistinct
<1>7. Uploads!TypeOK'
  BY <1>3, <1>4, <1>5 DEF Uploads!rows, UploadsIInv, Uploads!TypeOK
<1>8. UploadsKept'
  <2>1. ASSUME NEW u \in Threads, NEW g \in Files
        PROVE  (upload'[u].file = g => UploadsFiled(g)') /\ (g \in upload'[u].made => UploadsComplete(g)')
    <3>1. (UploadsFiled(g) => UploadsFiled(g)') /\ (UploadsComplete(g) => UploadsComplete(g)')
      BY <1>3, <1>5 DEF UploadsFiled, UploadsComplete, UploadsRemoved
    <3>2. UploadsComplete(f)'
      BY <1>3, <1>5, <1>6 DEF UploadsComplete, UploadsRemoved
    <3>3. /\ g \in upload'[u].made => g \in upload[u].made \/ g = f
          /\ upload'[u].file = g => upload[u].file = g \/ g = None
      BY <1>2, <1>4
    <3>4. QED BY <3>1, <3>2, <3>3, UploadsDistinct DEF UploadsIInv, UploadsKept, UploadsDistinct
  <2>2. QED BY <2>1 DEF UploadsKept
<1>9. UploadsTold' /\ Uploads!NamedIsWhole'
  BY <1>3, <1>5 DEF Uploads!rows, UploadsIInv, UploadsTold, Uploads!NamedIsWhole, Uploads!TypeOK
<1>10. UploadsCleared'
  <2>1. CASE standing # "there" /\ ~crossing
    <3>1. /\ \A g \in Files : place[g] \in Uploads!OfProject => store[g] = "none"
          /\ \A u \in Threads : ~Uploads!ForProject(u)
      BY <2>1 DEF UploadsIInv, UploadsCleared
    <3>2. place[f] \notin Uploads!OfProject
      BY <3>1, <1>1, <1>6 DEF Uploads!ForProject
    <3>3. \A u \in Threads : ~Uploads!ForProject(u)'
      BY <3>1, <3>2, <1>1, <1>2, <1>3, <1>4 DEF Uploads!ForProject
    <3>4. QED BY <3>1, <3>2, <3>3, <1>3, <1>5 DEF UploadsCleared
  <2>2. CASE ~(standing # "there" /\ ~crossing)
    BY <2>2, <1>3 DEF UploadsCleared
  <2>3. QED BY <2>1, <2>2
<1>11. QED BY <1>7, <1>8, <1>9, <1>10 DEF UploadsIInv

(* The commit names files that are stored, unless the project is gone.     *)
LEMMA UploadsCommitKeeps ==
    ASSUME UploadsDistinct, UploadsIInv, NEW t \in Threads, Uploads!Commit(t)
    PROVE UploadsIInv'
<1>1. /\ upload' \in [Threads -> Uploads!Upload] /\ upload'[t] = Uploads!Idle
      /\ \A u \in Threads : u # t => upload'[u] = upload[u]
  BY UploadsIdleIsUpload, UploadsSteps DEF Uploads!Commit, UploadsIInv
<1>2. UNCHANGED <<store, place, standing, crossing>>
  BY DEF Uploads!Commit
<1>3. UploadsKept'
  BY <1>1, <1>2, UploadsIdleIsUpload, UploadsDistinct DEF UploadsDistinct, UploadsIInv, UploadsKept,
     UploadsFiled, UploadsComplete, UploadsRemoved
<1>4. UploadsCleared'
  BY <1>1, <1>2, UploadsIdleIsUpload DEF UploadsIInv, UploadsCleared, Uploads!ForProject
<1>5. CASE UNCHANGED Uploads!rows
  <2>1. Uploads!TypeOK' /\ UploadsTold' /\ Uploads!NamedIsWhole'
    BY <1>1, <1>2, <1>5 DEF Uploads!rows, UploadsIInv, Uploads!TypeOK, UploadsTold, Uploads!NamedIsWhole
  <2>2. QED BY <1>3, <1>4, <2>1 DEF UploadsIInv
<1>6. CASE ~UNCHANGED Uploads!rows
  <2>1. \A p \in Uploads!Places : \A f \in Uploads!For(t, p) :
            /\ f \in Files /\ place[f] = p
            /\ store[f] = "whole" \/ UploadsRemoved(f)
    BY DEF Uploads!Commit, Uploads!Stored, Uploads!For, UploadsIInv, Uploads!TypeOK, Uploads!Upload,
       UploadsKept, UploadsComplete
  <2>2. /\ named' = [c \in Uploads!Columns |-> IF Uploads!For(t, c) = {} THEN named[c]
                                                ELSE CHOOSE f \in Uploads!For(t, c) : TRUE]
        /\ shown' = shown \cup Uploads!For(t, "cover") \cup Uploads!For(t, "video")
        /\ offered' = offered \cup Uploads!For(t, "chat")
        /\ UNCHANGED messages
    BY <1>6 DEF Uploads!Commit
  <2>3. \A c \in Uploads!Columns : named'[c] = named[c] \/ named'[c] \in Uploads!For(t, c)
    BY <2>2
  <2>4. named' \in [Uploads!Columns -> Files \cup {None}]
    <3>1. \A c \in Uploads!Columns : named'[c] \in Files \cup {None}
      BY <2>1, <2>3 DEF UploadsIInv, Uploads!TypeOK
    <3>2. QED BY <2>2, <3>1
  <2>5. Uploads!TypeOK'
    <3>1. shown' \subseteq Files /\ offered' \subseteq Files /\ messages' \subseteq Files
      BY <2>1, <2>2 DEF UploadsIInv, Uploads!TypeOK
    <3>2. \A c \in Uploads!Columns : named'[c] # None => place'[named'[c]] = c
      BY <1>2, <2>1, <2>3 DEF UploadsIInv, Uploads!TypeOK
    <3>3. QED BY <1>1, <1>2, <2>4, <3>1, <3>2 DEF UploadsIInv, Uploads!TypeOK
  <2>6. UploadsTold'
    BY <1>2, <2>1, <2>2 DEF UploadsIInv, UploadsTold, UploadsRemoved
  <2>7. Uploads!NamedIsWhole'
    BY <1>2, <2>1, <2>2, <2>3 DEF UploadsIInv, Uploads!NamedIsWhole, UploadsRemoved
  <2>8. QED BY <1>3, <1>4, <2>5, <2>6, <2>7 DEF UploadsIInv
<1>7. QED BY <1>5, <1>6

LEMMA UploadsRowsKeep ==
    ASSUME UploadsDistinct, UploadsIInv,
           \/ \E f \in Files : Uploads!Send(f)
           \/ \E c \in Uploads!Columns, f \in Files \cup {None} : Uploads!Edit(c, f)
    PROVE  UploadsIInv'
<1>1. ASSUME NEW f \in Files, Uploads!Send(f) PROVE UploadsIInv'
  BY <1>1 DEF Uploads!Send, UploadsIInv, Uploads!TypeOK, UploadsKept, UploadsFiled, UploadsComplete,
     UploadsRemoved, UploadsTold, Uploads!NamedIsWhole, UploadsCleared, Uploads!ForProject
<1>2. ASSUME NEW c \in Uploads!Columns, NEW f \in Files \cup {None}, Uploads!Edit(c, f) PROVE UploadsIInv'
  <2>1. /\ named' = [named EXCEPT ![c] = f] /\ c \in Uploads!OfProject
        /\ UNCHANGED <<store, place, shown, offered, messages, standing, crossing, upload>>
        /\ f = None \/ (f \in shown /\ place[f] = c)
    BY <1>2 DEF Uploads!Edit
  <2>2. Uploads!TypeOK'
    BY <2>1 DEF UploadsIInv, Uploads!TypeOK
  <2>3. Uploads!NamedIsWhole'
    BY <2>1 DEF UploadsIInv, Uploads!NamedIsWhole, UploadsTold, Uploads!TypeOK
  <2>4. UploadsKept' /\ UploadsTold' /\ UploadsCleared'
    BY <2>1 DEF UploadsIInv, UploadsKept, UploadsFiled, UploadsComplete, UploadsRemoved, UploadsTold,
       UploadsCleared, Uploads!ForProject
  <2>5. QED BY <2>2, <2>3, <2>4 DEF UploadsIInv
<1>3. QED BY <1>1, <1>2

LEMMA UploadsDeleteFilesKeeps ==
    ASSUME UploadsDistinct, UploadsIInv, Uploads!DeleteFiles
    PROVE UploadsIInv'
<1>1. /\ standing' = "deleting" /\ UNCHANGED <<place, Uploads!rows, upload>>
      /\ crossing' = \E t \in Threads : Uploads!ForProject(t)
      /\ store' = [f \in Files |-> IF place[f] \in Uploads!OfProject THEN "none" ELSE store[f]]
  BY DEF Uploads!DeleteFiles, Uploads!Stores
<1>2. Uploads!TypeOK'
  BY <1>1 DEF Uploads!rows, UploadsIInv, Uploads!TypeOK
<1>3. \A f \in Files : UploadsRemoved(f)' = (place[f] \in Uploads!OfProject)
  BY <1>1 DEF UploadsRemoved
<1>4. UploadsKept'
  BY <1>1, <1>3 DEF UploadsIInv, UploadsKept, UploadsFiled, UploadsComplete, UploadsRemoved,
     Uploads!TypeOK, Uploads!Upload
<1>5. UploadsTold' /\ Uploads!NamedIsWhole'
  BY <1>1 DEF Uploads!rows, UploadsIInv, UploadsTold, Uploads!NamedIsWhole, Uploads!TypeOK
<1>6. UploadsCleared'
  BY <1>1 DEF UploadsCleared, Uploads!ForProject
<1>7. QED BY <1>2, <1>4, <1>5, <1>6 DEF UploadsIInv

LEMMA UploadsDeleteRowKeeps == ASSUME UploadsDistinct, UploadsIInv, Uploads!DeleteRow PROVE UploadsIInv'
<1>1. /\ standing = "deleting" /\ standing' = "gone"
      /\ named' = [c \in Uploads!Columns |-> IF c \in Uploads!OfProject THEN None ELSE named[c]]
      /\ UNCHANGED <<store, place, shown, offered, messages, crossing, upload>>
  BY DEF Uploads!DeleteRow
<1>2. Uploads!TypeOK'
  BY <1>1 DEF UploadsIInv, Uploads!TypeOK
<1>3. Uploads!NamedIsWhole'
  BY <1>1 DEF UploadsIInv, Uploads!NamedIsWhole
<1>4. UploadsKept' /\ UploadsTold' /\ UploadsCleared'
  BY <1>1 DEF UploadsIInv, UploadsKept, UploadsFiled, UploadsComplete, UploadsRemoved, UploadsTold,
     UploadsCleared, Uploads!ForProject
<1>5. QED BY <1>2, <1>3, <1>4 DEF UploadsIInv

LEMMA UploadsNextIInv ==
    ASSUME UploadsDistinct, UploadsIInv, [Uploads!Next]_Uploads!vars
    PROVE UploadsIInv'
<1>1. ASSUME NEW t \in Threads, Uploads!Serve(t) PROVE UploadsIInv'
  <2>1. ASSUME NEW p \in {"avatar", "resume", "photo", "chat"}, Uploads!Ask(t, {p}), UNCHANGED crossing PROVE UploadsIInv'
    BY <2>1, UploadsAskKeeps DEF UploadsIInv, Uploads!TypeOK
  <2>2. ASSUME NEW wants \in (SUBSET Uploads!OfProject) \ {{}}, Uploads!UploadProjectMedia(t, wants) PROVE UploadsIInv'
    BY <2>2, UploadsAskKeeps DEF Uploads!UploadProjectMedia, UploadsIInv, Uploads!TypeOK
  <2>3. QED
    BY <1>1, <2>1, <2>2, UploadsOpenKeeps, UploadsWriteKeeps, UploadsCommitKeeps, UploadsFailKeeps
       DEF Uploads!Serve, Uploads!UploadMyAvatar, Uploads!UploadMyResume, Uploads!SetGroupPhoto,
           Uploads!UploadAttachment
<1>2. CASE UNCHANGED Uploads!vars
  BY <1>2 DEF Uploads!vars, Uploads!rows, UploadsIInv, Uploads!TypeOK, UploadsKept, UploadsFiled,
     UploadsComplete, UploadsRemoved, UploadsTold, Uploads!NamedIsWhole, UploadsCleared,
     Uploads!ForProject
<1>3. QED BY <1>1, <1>2, UploadsRowsKeep, UploadsDeleteFilesKeeps, UploadsDeleteRowKeeps
             DEF Uploads!Next

LEMMA UploadsHolds == ASSUME UploadsIInv PROVE Uploads!StoreInSync
BY DEF UploadsIInv, Uploads!StoreInSync, UploadsCleared, Uploads!NothingLeft

(* A behaviour of the composition is one of Media, with steps that leave   *)
(* it alone.                                                               *)
LEMMA UploadsSpec == WorkspaceSpec => Uploads!Spec
<1>1. WorkspaceInit => Uploads!Init
  BY DEF WorkspaceInit
<1>2. [WorkspaceNext]_workspaceVars => [Uploads!Next]_Uploads!vars
  BY DEF WorkspaceNext, workspaceVars, mediaVars, Uploads!rows, Uploads!vars
<1>3. QED BY <1>1, <1>2, PTL DEF WorkspaceSpec, Uploads!Spec

LEMMA UploadsInvariant == WorkspaceSpec => []UploadsIInv
<1>1. Uploads!Init => UploadsIInv
  BY UploadsInitIInv, NamesAssumption DEF UploadsDistinct
<1>2. UploadsIInv /\ [Uploads!Next]_Uploads!vars => UploadsIInv'
  BY UploadsNextIInv, NamesAssumption DEF UploadsDistinct
<1>3. QED BY <1>1, <1>2, UploadsSpec, PTL DEF Uploads!Spec

(* Every response carries exactly what was asked for, unless the file is   *)
(* replaced under it, and only for readers who may have it; what rows and  *)
(* messages name is stored in full, and a project that is gone leaves      *)
(* nothing, wherever requests fail, stop or overlap.                       *)
THEOREM FilesHoldAlways == WorkspaceSpec => []FilesHold
<1>1. ViewIInv /\ UploadsIInv => FilesHold
  BY ViewHolds, UploadsHolds DEF FilesHold
<1>2. QED BY <1>1, ViewInvariant, UploadsInvariant, PTL

-----------------------------------------------------------------------------
(* GitHubImport: importing one repository.                                 *)

(* The part counts as FiniteSets does.                                     *)
LEMMA ImportCounts == ASSUME NEW S PROVE Import!Cardinality(S) = Cardinality(S)
BY DEF Import!Cardinality, Cardinality

(* NoSlot is no slot of a project.                                         *)
ImportDistinct == None \notin Slots

(* A token somebody revokes has no handle any more.                        *)
ImportOldGone == \A t \in Threads : \A h \in serving[t].old : handle[h] = "gone"

(* A request has a project from its creation to the end of the import, and *)
(* nobody else has; until its archive is installed it says nothing.        *)
ImportSlotted(t) == IF serving[t].at \in {"capture", "install"} THEN serving[t].p \in Slots ELSE serving[t].p = None
ImportBare(t) == serving[t].p \in Slots => copies[serving[t].p] \in {"none", "unset"} /\ serving[t].p \notin source
ImportApart == \A t, o \in Threads : serving[t].p \in Slots /\ serving[t].p = serving[o].p => t = o
ImportTells == \A p \in Slots \ cut : (\A t \in Threads : serving[t].p # p) => (p \in source <=> copies[p] = "ok")

(* Unless imports meet, one may create a project, and only if there is     *)
(* none.                                                                   *)
ImportOne ==
          ~raced =>
              /\ \A t, o \in Threads : serving[t].at = "create" /\ serving[o].at = "create" => t = o
              /\ \A t \in Threads, p \in Slots : serving[t].at = "create" => copies[p] = "none"
              /\ \A p, q \in Slots : copies[p] # "none" /\ copies[q] # "none" => p = q

ImportRequest == [op : Import!Ops, at : Import!Steps, h : Handles \cup {None}, old : SUBSET Handles, p : Slots \cup {None}]

ImportHandlesIInv == ImportOldGone /\ Import!HandlesWork
ImportProjectsIInv == (\A t \in Threads : ImportSlotted(t) /\ ImportBare(t)) /\ ImportApart /\ ImportTells /\ ImportOne
ImportIInv == Import!TypeOK /\ ImportHandlesIInv /\ ImportProjectsIInv

LEMMA ImportInitIInv == ASSUME ImportDistinct, Import!Init PROVE ImportIInv
<1>1. Import!Idle \in ImportRequest /\ Import!Idle.at = "idle" /\ Import!Idle.p = None /\ Import!Idle.old = {}
  BY DEF Import!Idle, ImportRequest, Import!Ops, Import!Steps
<1>2. \A t \in Threads : serving[t] = Import!Idle
  BY DEF Import!Init
<1>3. Import!TypeOK
  BY <1>1 DEF Import!Init, Import!TypeOK, ImportRequest
<1>4. ImportHandlesIInv
  BY <1>1, <1>2 DEF ImportHandlesIInv, ImportOldGone, Import!HandlesWork, Import!Init
<1>5. \A t \in Threads : ImportSlotted(t) /\ ImportBare(t)
  BY <1>1, <1>2 DEF ImportSlotted, ImportBare, ImportDistinct
<1>6. ImportApart
  BY <1>1, <1>2 DEF ImportApart, ImportDistinct
<1>7. ImportTells
  BY DEF ImportTells, Import!Init
<1>8. ImportOne
  BY <1>1, <1>2 DEF ImportOne, Import!Init
<1>9. QED BY <1>3, <1>4, <1>5, <1>6, <1>7, <1>8 DEF ImportIInv, ImportProjectsIInv

(* One request becomes another.                                            *)
LEMMA ImportServes ==
    ASSUME Import!TypeOK, NEW t \in Threads, NEW w \in ImportRequest, Import!Becomes(t, w)
    PROVE  /\ serving' \in [Threads -> ImportRequest] /\ serving'[t] = w
           /\ \A o \in Threads : o # t => serving'[o] = serving[o]
BY DEF Import!TypeOK, Import!Becomes, ImportRequest

LEMMA ImportIdleIsRequest == Import!Idle \in ImportRequest
BY DEF Import!Idle, ImportRequest, Import!Ops, Import!Steps

(* A step that leaves the projects alone, and what the requests have of    *)
(* them.                                                                   *)
LEMMA ImportProjectsStay ==
    ASSUME ImportProjectsIInv, UNCHANGED <<copies, source, cut, raced>>,
           \A o \in Threads : /\ serving'[o].p = serving[o].p
                              /\ serving'[o].at = "create" => serving[o].at = "create"
                              /\ serving'[o].at \in {"capture", "install"} <=> serving[o].at \in {"capture", "install"}
    PROVE  ImportProjectsIInv'
<1>1. \A t \in Threads : (ImportSlotted(t) /\ ImportBare(t))'
  BY DEF ImportProjectsIInv, ImportSlotted, ImportBare
<1>2. ImportApart'
  BY DEF ImportProjectsIInv, ImportApart
<1>3. ImportTells'
  BY DEF ImportProjectsIInv, ImportTells
<1>4. ImportOne'
  BY DEF ImportProjectsIInv, ImportOne
<1>5. QED BY <1>1, <1>2, <1>3, <1>4 DEF ImportProjectsIInv

(* A step that leaves the handles and the revocations alone.               *)
LEMMA ImportHandlesStay ==
    ASSUME ImportHandlesIInv, UNCHANGED <<handle, valid, dropped>>,
           \A o \in Threads : serving'[o].old \subseteq serving[o].old /\ (serving[o].at = "revoke" => serving'[o] = serving[o])
    PROVE  ImportHandlesIInv'
<1>1. ImportOldGone'
  BY DEF ImportHandlesIInv, ImportOldGone
<1>2. Import!HandlesWork'
  BY DEF ImportHandlesIInv, Import!HandlesWork
<1>3. QED BY <1>1, <1>2 DEF ImportHandlesIInv

(* Taking handles out: their tokens are valid, or nothing is left of them. *)
LEMMA ImportHandlesOut ==
    ASSUME Import!TypeOK, ImportHandlesIInv, NEW t \in Threads, serving[t].at # "revoke", NEW w \in ImportRequest, Import!Becomes(t, w),
           NEW gone \in SUBSET Handles, w.at = "revoke", w.old = gone, UNCHANGED dropped,
           \A h \in gone : handle'[h] = "gone",
           \A h \in Handles \ gone :
               handle'[h] = handle[h] \/ (handle[h] = "new" /\ handle'[h] = "live" /\ h \in valid'),
           valid \subseteq valid', \A h \in valid' \ valid : handle'[h] = "live"
    PROVE  ImportHandlesIInv'
<1>1. serving'[t] = w /\ \A o \in Threads : o # t => serving'[o] = serving[o]
  BY ImportServes
<1>2. ImportOldGone'
  <2>1. ASSUME NEW o \in Threads, NEW h \in serving'[o].old PROVE handle'[h] = "gone"
    <3>1. CASE o = t
      BY <1>1, <2>1, <3>1
    <3>2. CASE o # t
      <4>1. h \in serving[o].old /\ h \in Handles
        BY <1>1, <2>1, <3>2 DEF Import!TypeOK
      <4>2. handle[h] = "gone"
        BY <4>1 DEF ImportHandlesIInv, ImportOldGone
      <4>3. QED BY <4>1, <4>2
    <3>3. QED BY <3>1, <3>2
  <2>2. QED BY <2>1 DEF ImportOldGone
<1>3. \A h \in Handles : handle'[h] \in {"live", "stale"} => h \in valid'
  BY DEF ImportHandlesIInv, Import!HandlesWork
<1>4. ASSUME NEW h \in valid', handle'[h] = "gone"
      PROVE  h \in dropped' \/ \E o \in Threads : serving'[o].at = "revoke" /\ h \in serving'[o].old
  <2>1. CASE h \in gone
    BY <1>1, <2>1
  <2>2. CASE h \notin gone
    <3>1. h \in valid /\ h \in Handles
      BY <1>4 DEF Import!TypeOK
    <3>2. handle[h] = "gone"
      BY <1>4, <2>2, <3>1
    <3>3. h \in dropped \/ \E o \in Threads : serving[o].at = "revoke" /\ h \in serving[o].old
      BY <3>1, <3>2 DEF ImportHandlesIInv, Import!HandlesWork
    <3>4. QED BY <1>1, <3>3
  <2>3. QED BY <2>1, <2>2
<1>5. QED BY <1>2, <1>3, <1>4 DEF ImportHandlesIInv, Import!HandlesWork

(* A request that begins with handles taken out keeps the invariant.       *)
LEMMA ImportTakesKeeps ==
    ASSUME ImportIInv, NEW t \in Threads, serving[t].at \in {"idle", "list"}, NEW w \in ImportRequest, Import!Becomes(t, w),
           w.at = "revoke", w.p = None, Import!Projects, ImportHandlesIInv', Import!TypeOK'
    PROVE  ImportIInv'
<1>1. serving'[t] = w /\ \A o \in Threads : o # t => serving'[o] = serving[o]
  BY ImportServes DEF ImportIInv
<1>2. serving[t].p = None
  BY DEF ImportIInv, ImportProjectsIInv, ImportSlotted
<1>3. \A o \in Threads : /\ serving'[o].p = serving[o].p
                         /\ serving'[o].at = "create" => serving[o].at = "create"
                         /\ serving'[o].at \in {"capture", "install"} <=> serving[o].at \in {"capture", "install"}
  <2>1. ASSUME NEW o \in Threads, o = t
        PROVE  /\ serving'[o].p = serving[o].p /\ serving'[o].at = "revoke" /\ serving[o].at \in {"idle", "list"}
    BY <1>1, <1>2, <2>1
  <2>2. QED BY <1>1, <2>1
<1>4. ImportProjectsIInv'
  BY <1>3, ImportProjectsStay DEF ImportIInv, Import!Projects
<1>5. QED BY <1>4 DEF ImportIInv

LEMMA ImportAsks ==
    ASSUME NEW op \in Import!Ops, NEW h \in Handles, NEW old \in SUBSET Handles
    PROVE  [Import!Idle EXCEPT !.op = op, !.at = "revoke", !.h = h, !.old = old]
               = [op |-> op, at |-> "revoke", h |-> h, old |-> old, p |-> None]
<1>1. PICK a \in ImportRequest : a = [Import!Idle EXCEPT !.op = op]
  BY ImportIdleIsRequest DEF ImportRequest
<1>2. PICK b \in ImportRequest : b = [a EXCEPT !.at = "revoke"]
  BY <1>1 DEF ImportRequest, Import!Steps
<1>3. PICK c \in ImportRequest : c = [b EXCEPT !.h = h]
  BY <1>2 DEF ImportRequest
<1>4. PICK w \in ImportRequest : w = [c EXCEPT !.old = old]
  BY <1>3 DEF ImportRequest
<1>5. Import!Idle.p = None
  BY DEF Import!Idle
<1>6. a.op = op /\ a.p = None
  BY <1>1, <1>5, ImportIdleIsRequest DEF ImportRequest
<1>7. b.op = op /\ b.p = None /\ b.at = "revoke"
  BY <1>2, <1>6 DEF ImportRequest
<1>8. c.op = op /\ c.p = None /\ c.at = "revoke" /\ c.h = h
  BY <1>3, <1>7 DEF ImportRequest
<1>9. w.op = op /\ w.p = None /\ w.at = "revoke" /\ w.h = h /\ w.old = old
  BY <1>4, <1>8 DEF ImportRequest
<1>10. w = [op |-> op, at |-> "revoke", h |-> h, old |-> old, p |-> None]
  BY <1>4, <1>9 DEF ImportRequest
<1>11. [Import!Idle EXCEPT !.op = op, !.at = "revoke", !.h = h, !.old = old] = w
  BY <1>1, <1>2, <1>3, <1>4, ImportIdleIsRequest DEF ImportRequest
<1>12. QED BY <1>10, <1>11

LEMMA ImportStaleIsGone ==
    ASSUME Import!TypeOK
    PROVE  /\ Import!Purged \in [Handles -> {"new", "live", "stale", "gone"}] /\ Import!Stale \in SUBSET Handles
           /\ \A h \in Handles : Import!Purged[h] = IF h \in Import!Stale THEN "gone" ELSE handle[h]
           /\ \A h \in Handles : h \in Import!Stale <=> handle[h] = "stale"
BY DEF Import!TypeOK, Import!Purged, Import!Stale

LEMMA ImportOpenKeeps ==
    ASSUME ImportIInv, NEW t \in Threads, NEW h \in Handles, Import!Open(t, h)
    PROVE ImportIInv'
<1>0. Import!TypeOK /\ ImportHandlesIInv
  BY DEF ImportIInv
<1>1. PICK w : w = [op |-> "open", at |-> "revoke", h |-> h, old |-> Import!Stale, p |-> None]
  OBVIOUS
<1>2. w \in ImportRequest /\ w.at = "revoke" /\ w.old = Import!Stale /\ w.p = None
  BY <1>0, <1>1, ImportStaleIsGone DEF ImportRequest, Import!Ops, Import!Steps
<1>3. Import!Becomes(t, w)
  <2>1. "open" \in Import!Ops /\ Import!Stale \in SUBSET Handles
    BY <1>0, ImportStaleIsGone DEF Import!Ops
  <2>2. [Import!Idle EXCEPT !.op = "open", !.at = "revoke", !.h = h, !.old = Import!Stale] = w
    BY <2>1, <1>1, ImportAsks
  <2>3. Import!Becomes(t, [Import!Idle EXCEPT !.op = "open", !.at = "revoke", !.h = h, !.old = Import!Stale])
    BY DEF Import!Open
  <2>4. QED BY <2>2, <2>3
<1>4. /\ serving[t].at = "idle" /\ handle[h] = "new" /\ handle' = [Import!Purged EXCEPT ![h] = "live"]
      /\ valid' = valid \cup {h} /\ UNCHANGED dropped /\ Import!Projects
  BY DEF Import!Open
<1>5. h \notin Import!Stale
  BY <1>0, <1>4, ImportStaleIsGone
<1>6. \A x \in Handles : handle'[x] = IF x = h THEN "live" ELSE IF x \in Import!Stale THEN "gone" ELSE handle[x]
  BY <1>0, <1>4, ImportStaleIsGone
<1>7. handle' \in [Handles -> {"new", "live", "stale", "gone"}]
  BY <1>0, <1>4, ImportStaleIsGone
<1>8. Import!TypeOK'
  <2>1. serving' \in [Threads -> ImportRequest]
    BY <1>0, <1>2, <1>3, ImportServes
  <2>2. QED BY <1>0, <1>4, <1>7, <2>1 DEF Import!TypeOK, Import!Projects, ImportRequest
<1>9. ImportHandlesIInv'
  <2>1. \A x \in Import!Stale : handle'[x] = "gone"
    BY <1>0, <1>5, <1>6, ImportStaleIsGone
  <2>2. \A x \in Handles \ Import!Stale :
            handle'[x] = handle[x] \/ (handle[x] = "new" /\ handle'[x] = "live" /\ x \in valid')
    BY <1>4, <1>6
  <2>3. valid \subseteq valid' /\ \A x \in valid' \ valid : handle'[x] = "live"
    BY <1>4, <1>6
  <2>4. Import!Stale \in SUBSET Handles
    BY <1>0, ImportStaleIsGone
  <2>5. serving[t].at # "revoke" /\ UNCHANGED dropped
    BY <1>4
  <2>6. QED BY <1>0, <1>2, <1>3, <2>1, <2>2, <2>3, <2>4, <2>5, ImportHandlesOut
<1>10. QED BY <1>2, <1>3, <1>4, <1>8, <1>9, ImportTakesKeeps

LEMMA ImportUseKeeps ==
    ASSUME ImportIInv, NEW t \in Threads, NEW h \in Handles, Import!Use(t, h)
    PROVE ImportIInv'
<1>0. Import!TypeOK /\ ImportHandlesIInv
  BY DEF ImportIInv
<1>1. PICK o \in {"import", "none"} : o = IF handle[h] = "live" THEN "import" ELSE "none"
  OBVIOUS
<1>2. PICK w : w = [op |-> o, at |-> "revoke", h |-> h, old |-> Import!Stale, p |-> None]
  OBVIOUS
<1>3. w \in ImportRequest /\ w.at = "revoke" /\ w.old = Import!Stale /\ w.p = None
  BY <1>0, <1>2, ImportStaleIsGone DEF ImportRequest, Import!Ops, Import!Steps
<1>4. Import!Becomes(t, w)
  <2>1. o \in Import!Ops /\ Import!Stale \in SUBSET Handles
    BY <1>0, <1>1, ImportStaleIsGone DEF Import!Ops
  <2>2. [Import!Idle EXCEPT !.op = o, !.at = "revoke", !.h = h, !.old = Import!Stale] = w
    BY <2>1, <1>2, ImportAsks
  <2>3. Import!Becomes(t, [Import!Idle EXCEPT !.op = o, !.at = "revoke", !.h = h, !.old = Import!Stale])
    BY <1>1 DEF Import!Use
  <2>4. QED BY <2>2, <2>3
<1>5. serving[t].at = "idle" /\ handle' = Import!Purged /\ UNCHANGED <<valid, dropped>> /\ Import!Projects
  BY DEF Import!Use
<1>6. Import!TypeOK'
  <2>1. serving' \in [Threads -> ImportRequest]
    BY <1>0, <1>3, <1>4, ImportServes
  <2>2. QED BY <1>0, <1>5, <2>1, ImportStaleIsGone DEF Import!TypeOK, Import!Projects, ImportRequest
<1>7. ImportHandlesIInv'
  <2>1. \A x \in Import!Stale : handle'[x] = "gone"
    BY <1>0, <1>5, ImportStaleIsGone
  <2>2. \A x \in Handles \ Import!Stale :
            handle'[x] = handle[x] \/ (handle[x] = "new" /\ handle'[x] = "live" /\ x \in valid')
    BY <1>0, <1>5, ImportStaleIsGone
  <2>3. valid \subseteq valid' /\ \A x \in valid' \ valid : handle'[x] = "live"
    BY <1>5
  <2>4. Import!Stale \in SUBSET Handles
    BY <1>0, ImportStaleIsGone
  <2>5. serving[t].at # "revoke" /\ UNCHANGED dropped
    BY <1>5
  <2>6. QED BY <1>0, <1>3, <1>4, <2>1, <2>2, <2>3, <2>4, <2>5, ImportHandlesOut
<1>8. QED BY <1>3, <1>4, <1>5, <1>6, <1>7, ImportTakesKeeps

LEMMA ImportCloseKeeps ==
    ASSUME ImportIInv, NEW t \in Threads, NEW h \in Handles, Import!Close(t, h)
    PROVE ImportIInv'
<1>0. Import!TypeOK /\ ImportHandlesIInv
  BY DEF ImportIInv
<1>1. PICK w : w = [op |-> "close", at |-> "revoke", h |-> h, old |-> {h}, p |-> None]
  OBVIOUS
<1>2. w \in ImportRequest /\ w.at = "revoke" /\ w.old = {h} /\ w.p = None
  BY <1>1 DEF ImportRequest, Import!Ops, Import!Steps
<1>3. Import!Becomes(t, w)
  <2>1. "close" \in Import!Ops /\ {h} \in SUBSET Handles
    BY DEF Import!Ops
  <2>2. [Import!Idle EXCEPT !.op = "close", !.at = "revoke", !.h = h, !.old = {h}] = w
    BY <2>1, <1>1, ImportAsks
  <2>3. Import!Becomes(t, [Import!Idle EXCEPT !.op = "close", !.at = "revoke", !.h = h, !.old = {h}])
    BY DEF Import!Close, Import!TakenOut
  <2>4. QED BY <2>2, <2>3
<1>4. /\ serving[t].at \in {"idle", "list"} /\ handle' = [handle EXCEPT ![h] = "gone"] /\ valid' = valid
      /\ UNCHANGED dropped /\ Import!Projects
  BY DEF Import!Close, Import!TakenOut
<1>5. \A x \in Handles : handle'[x] = IF x = h THEN "gone" ELSE handle[x]
  BY <1>0, <1>4 DEF Import!TypeOK
<1>6. Import!TypeOK'
  <2>1. serving' \in [Threads -> ImportRequest]
    BY <1>0, <1>2, <1>3, ImportServes
  <2>2. QED BY <1>0, <1>4, <2>1 DEF Import!TypeOK, Import!Projects, ImportRequest
<1>7. ImportHandlesIInv'
  <2>1. \A x \in {h} : handle'[x] = "gone"
    BY <1>5
  <2>2. \A x \in Handles \ {h} :
            handle'[x] = handle[x] \/ (handle[x] = "new" /\ handle'[x] = "live" /\ x \in valid')
    BY <1>5
  <2>3. valid \subseteq valid' /\ \A x \in valid' \ valid : handle'[x] = "live"
    BY <1>4
  <2>4. {h} \in SUBSET Handles
    OBVIOUS
  <2>5. serving[t].at # "revoke" /\ UNCHANGED dropped
    BY <1>4
  <2>6. QED BY <1>0, <1>2, <1>3, <2>1, <2>2, <2>3, <2>4, <2>5, ImportHandlesOut
<1>8. QED BY <1>2, <1>3, <1>4, <1>6, <1>7, ImportTakesKeeps

LEMMA ImportRevokeKeeps == ASSUME ImportIInv, NEW t \in Threads, Import!Revoke(t) PROVE ImportIInv'
<1>0. Import!TypeOK /\ ImportHandlesIInv /\ ImportProjectsIInv
  BY DEF ImportIInv
<1>1. PICK r \in ImportRequest : r = serving[t]
  BY <1>0 DEF Import!TypeOK, ImportRequest
<1>2. r = [op |-> r.op, at |-> r.at, h |-> r.h, old |-> r.old, p |-> r.p]
      /\ r.op \in Import!Ops /\ r.h \in Handles \cup {None} /\ r.p \in Slots \cup {None} /\ r.old \in SUBSET Handles
  BY DEF ImportRequest
<1>3. PICK w : w = IF Import!After(r.op) = "idle" THEN Import!Idle ELSE [r EXCEPT !.at = Import!After(r.op), !.old = {}]
  OBVIOUS
<1>4. Import!Becomes(t, w) /\ r.at = "revoke" /\ UNCHANGED handle /\ Import!Projects
  BY <1>1, <1>3 DEF Import!Revoke
<1>5. Import!After(r.op) \in {"idle", "list", "look"}
  BY DEF Import!After
<1>6. r.p = None
  BY <1>0, <1>1, <1>4 DEF ImportProjectsIInv, ImportSlotted
<1>7. w \in ImportRequest /\ w.at \in {"idle", "list", "look"} /\ w.old = {} /\ w.p = None
  <2>1. CASE Import!After(r.op) = "idle"
    BY <1>3, <2>1, ImportIdleIsRequest DEF Import!Idle
  <2>2. CASE Import!After(r.op) # "idle"
    <3>1. PICK half : half = [r EXCEPT !.at = Import!After(r.op)]
      OBVIOUS
    <3>2. half = [op |-> r.op, at |-> Import!After(r.op), h |-> r.h, old |-> r.old, p |-> r.p]
      BY <1>2, <3>1
    <3>3. [half EXCEPT !.old = {}] = [op |-> r.op, at |-> Import!After(r.op), h |-> r.h, old |-> {}, p |-> r.p]
      BY <3>2
    <3>4. w = [half EXCEPT !.old = {}]
      BY <1>3, <2>2, <3>1
    <3>5. w = [op |-> r.op, at |-> Import!After(r.op), h |-> r.h, old |-> {}, p |-> r.p]
      BY <3>3, <3>4
    <3>6. QED BY <1>2, <1>5, <1>6, <3>5 DEF ImportRequest, Import!Steps
  <2>3. QED BY <2>1, <2>2
<1>8. serving' \in [Threads -> ImportRequest] /\ serving'[t] = w /\ \A o \in Threads : o # t => serving'[o] = serving[o]
  BY <1>0, <1>4, <1>7, ImportServes
<1>9. PICK done \in SUBSET r.old : valid' = valid \ done /\ dropped' = dropped \cup (r.old \ done)
  BY <1>1 DEF Import!Revoke
<1>10. Import!TypeOK'
  BY <1>0, <1>2, <1>4, <1>8, <1>9 DEF Import!TypeOK, Import!Projects, ImportRequest
<1>11. \A x \in r.old : handle[x] = "gone"
  BY <1>0, <1>1 DEF ImportHandlesIInv, ImportOldGone
<1>12. ImportOldGone'
  BY <1>0, <1>4, <1>7, <1>8 DEF ImportHandlesIInv, ImportOldGone
<1>13. Import!HandlesWork'
  <2>1. \A h \in Handles : handle'[h] \in {"live", "stale"} => h \in valid'
    BY <1>0, <1>4, <1>9, <1>11 DEF ImportHandlesIInv, Import!HandlesWork
  <2>2. ASSUME NEW h \in valid', handle'[h] = "gone"
        PROVE  h \in dropped' \/ \E o \in Threads : serving'[o].at = "revoke" /\ h \in serving'[o].old
    <3>1. h \in valid /\ h \notin done
      BY <1>9, <2>2
    <3>2. h \in dropped \/ \E o \in Threads : serving[o].at = "revoke" /\ h \in serving[o].old
      BY <1>0, <1>4, <2>2, <3>1 DEF ImportHandlesIInv, Import!HandlesWork
    <3>3. CASE h \in dropped \/ h \in r.old
      BY <1>9, <3>1, <3>3
    <3>4. CASE \E o \in Threads : o # t /\ serving[o].at = "revoke" /\ h \in serving[o].old
      BY <1>8, <3>4
    <3>5. QED BY <1>1, <3>2, <3>3, <3>4
  <2>3. QED BY <2>1, <2>2 DEF Import!HandlesWork
<1>14. \A o \in Threads : /\ serving'[o].p = serving[o].p
                          /\ serving'[o].at = "create" => serving[o].at = "create"
                          /\ serving'[o].at \in {"capture", "install"} <=> serving[o].at \in {"capture", "install"}
  <2>1. ASSUME NEW o \in Threads, o = t
        PROVE  serving'[o].p = serving[o].p /\ serving'[o].at \in {"idle", "list", "look"} /\ serving[o].at = "revoke"
    BY <1>1, <1>4, <1>6, <1>7, <1>8, <2>1
  <2>2. QED BY <1>8, <2>1
<1>15. ImportProjectsIInv'
  BY <1>0, <1>4, <1>14, ImportProjectsStay DEF Import!Projects
<1>16. QED BY <1>10, <1>12, <1>13, <1>15 DEF ImportIInv, ImportHandlesIInv

(* A request goes back to rest or on to another step with its handle: the  *)
(* handles keep what they say.                                             *)
LEMMA ImportGoesOn ==
    ASSUME ImportIInv, NEW t \in Threads, NEW w \in ImportRequest, Import!Becomes(t, w), serving[t].at # "revoke",
           w.old \subseteq serving[t].old, UNCHANGED <<handle, valid, dropped>>,
           ImportProjectsIInv', Import!TypeOK'
    PROVE  ImportIInv'
<1>1. serving'[t] = w /\ \A o \in Threads : o # t => serving'[o] = serving[o]
  BY ImportServes DEF ImportIInv
<1>2. \A o \in Threads : serving'[o].old \subseteq serving[o].old /\ (serving[o].at = "revoke" => serving'[o] = serving[o])
  BY <1>1
<1>3. ImportHandlesIInv'
  BY <1>2, ImportHandlesStay DEF ImportIInv
<1>4. QED BY <1>3 DEF ImportIInv

LEMMA ImportIdleHas == Import!Idle.op = "none" /\ Import!Idle.at = "idle" /\ Import!Idle.old = {} /\ Import!Idle.p = None
BY DEF Import!Idle

(* What a request that is not revoking becomes, if it has another step.    *)
LEMMA ImportNextStep ==
    ASSUME ImportIInv, NEW t \in Threads, NEW to \in Import!Steps, NEW w, w = [serving[t] EXCEPT !.at = to]
    PROVE  w \in ImportRequest /\ w.at = to /\ w.p = serving[t].p /\ w.old = serving[t].old
<1>1. PICK r \in ImportRequest : r = serving[t]
  BY DEF ImportIInv, Import!TypeOK, ImportRequest
<1>2. r = [op |-> r.op, at |-> r.at, h |-> r.h, old |-> r.old, p |-> r.p]
      /\ r.op \in Import!Ops /\ r.h \in Handles \cup {None} /\ r.p \in Slots \cup {None} /\ r.old \in SUBSET Handles
  BY DEF ImportRequest
<1>3. w = [op |-> r.op, at |-> to, h |-> r.h, old |-> r.old, p |-> r.p]
  BY <1>1, <1>2
<1>4. QED BY <1>1, <1>2, <1>3 DEF ImportRequest

LEMMA ImportListedKeeps == ASSUME ImportIInv, NEW t \in Threads, Import!Listed(t) PROVE ImportIInv'
<1>1. /\ serving[t].at = "list" /\ Import!Becomes(t, Import!Idle) /\ UNCHANGED <<handle, valid, dropped>> /\ Import!Projects
      /\ Import!TypeOK /\ ImportProjectsIInv
  BY DEF Import!Listed, ImportIInv
<1>2. serving' \in [Threads -> ImportRequest] /\ serving'[t] = Import!Idle /\ \A o \in Threads : o # t => serving'[o] = serving[o]
  BY <1>1, ImportIdleIsRequest, ImportServes
<1>3. Import!TypeOK'
  BY <1>1, <1>2 DEF Import!TypeOK, Import!Projects, ImportRequest
<1>4. serving[t].p = None
  BY <1>1 DEF ImportProjectsIInv, ImportSlotted
<1>5. \A o \in Threads : /\ serving'[o].p = serving[o].p
                         /\ serving'[o].at = "create" => serving[o].at = "create"
                         /\ serving'[o].at \in {"capture", "install"} <=> serving[o].at \in {"capture", "install"}
  <2>1. ASSUME NEW o \in Threads, o = t
        PROVE  serving'[o].p = serving[o].p /\ serving'[o].at = "idle" /\ serving[o].at = "list"
    BY <1>1, <1>2, <1>4, <2>1, ImportIdleHas
  <2>2. QED BY <1>2, <2>1
<1>6. ImportProjectsIInv'
  BY <1>1, <1>5, ImportProjectsStay DEF Import!Projects
<1>7. Import!Idle.old \subseteq serving[t].old /\ serving[t].at # "revoke"
  BY <1>1, ImportIdleHas
<1>8. QED BY <1>1, <1>3, <1>6, <1>7, ImportGoesOn, ImportIdleIsRequest

LEMMA ImportLookKeeps == ASSUME ImportIInv, NEW t \in Threads, Import!Look(t) PROVE ImportIInv'
<1>1. /\ serving[t].at = "look" /\ UNCHANGED <<handle, valid, dropped, copies, source, cut>>
      /\ raced' \in BOOLEAN /\ (~raced' => ~raced /\ \A o \in Threads \ {t} : serving[o].at # "create")
      /\ Import!TypeOK /\ ImportProjectsIInv
  <2>1. raced' \in BOOLEAN /\ (~raced' => ~raced /\ \A o \in Threads \ {t} : serving[o].at # "create")
    BY Zenon DEF Import!Look
  <2>2. QED BY <2>1 DEF Import!Look, ImportIInv
<1>2. PICK w : /\ Import!Becomes(t, w)
               /\ w = Import!Idle \/ (w = [serving[t] EXCEPT !.at = "create"] /\ ~Import!Imported)
  BY DEF Import!Look
<1>3. serving[t].p = None
  BY <1>1 DEF ImportProjectsIInv, ImportSlotted
<1>4. w \in ImportRequest /\ w.p = None /\ w.at \in {"idle", "create"} /\ w.old \subseteq serving[t].old
      /\ (w.at = "create" => \A p \in Slots : copies[p] = "none")
  <2>1. CASE w = Import!Idle
    BY <2>1, ImportIdleIsRequest, ImportIdleHas
  <2>2. CASE w = [serving[t] EXCEPT !.at = "create"] /\ ~Import!Imported
    BY <1>3, <2>2, ImportNextStep DEF Import!Imported, Import!Steps
  <2>3. QED BY <1>2, <2>1, <2>2
<1>5. serving' \in [Threads -> ImportRequest] /\ serving'[t] = w /\ \A o \in Threads : o # t => serving'[o] = serving[o]
  BY <1>1, <1>2, <1>4, ImportServes
<1>6. Import!TypeOK'
  BY <1>1, <1>5 DEF Import!TypeOK, ImportRequest
<1>7. \A o \in Threads : /\ serving'[o].p = serving[o].p
                         /\ serving'[o].at \in {"capture", "install"} <=> serving[o].at \in {"capture", "install"}
  <2>1. ASSUME NEW o \in Threads, o = t
        PROVE  serving'[o].p = serving[o].p /\ serving'[o].at \in {"idle", "create"} /\ serving[o].at = "look"
    BY <1>1, <1>3, <1>4, <1>5, <2>1
  <2>2. QED BY <1>5, <2>1
<1>8. \A o \in Threads : (ImportSlotted(o) /\ ImportBare(o))'
  BY <1>1, <1>7 DEF ImportProjectsIInv, ImportSlotted, ImportBare
<1>9. ImportApart' /\ ImportTells'
  BY <1>1, <1>7 DEF ImportProjectsIInv, ImportApart, ImportTells
<1>10. ImportOne'
  <2>1. ASSUME ~raced'
        PROVE  /\ \A a, o \in Threads : serving'[a].at = "create" /\ serving'[o].at = "create" => a = o
               /\ \A o \in Threads, p \in Slots : serving'[o].at = "create" => copies'[p] = "none"
               /\ \A p, q \in Slots : copies'[p] # "none" /\ copies'[q] # "none" => p = q
    <3>1. ImportOne /\ ~raced /\ copies' = copies
      BY <1>1, <2>1 DEF ImportProjectsIInv
    <3>2. \A o \in Threads : serving'[o].at = "create" => o = t
      BY <1>1, <1>5, <2>1
    <3>3. QED BY <1>4, <1>5, <3>1, <3>2 DEF ImportOne
  <2>2. QED BY <2>1 DEF ImportOne
<1>11. ImportProjectsIInv'
  BY <1>8, <1>9, <1>10 DEF ImportProjectsIInv
<1>12. QED BY <1>1, <1>2, <1>4, <1>6, <1>11, ImportGoesOn

LEMMA ImportCreateKeeps ==
    ASSUME ImportDistinct, ImportIInv, NEW t \in Threads, NEW p \in Slots, Import!Create(t, p)
    PROVE ImportIInv'
<1>1. /\ serving[t].at = "create" /\ copies[p] = "none" /\ \A o \in Threads : serving[o].p # p
      /\ copies' = [copies EXCEPT ![p] = "unset"] /\ cut' = cut \ {p} /\ source' = source \ {p}
      /\ UNCHANGED <<handle, valid, dropped, raced>> /\ Import!TypeOK /\ ImportProjectsIInv
  BY DEF Import!Create, ImportIInv
<1>2. PICK half : half = [serving[t] EXCEPT !.at = "capture"]
  OBVIOUS
<1>3. half \in ImportRequest /\ half.at = "capture" /\ half.old = serving[t].old
  BY <1>2, ImportNextStep DEF Import!Steps
<1>4. PICK w : w = [half EXCEPT !.p = p]
  OBVIOUS
<1>5. w = [serving[t] EXCEPT !.at = "capture", !.p = p]
  BY <1>2, <1>4
<1>6. w \in ImportRequest /\ w.at = "capture" /\ w.p = p /\ w.old = serving[t].old
  <2>1. half = [op |-> half.op, at |-> half.at, h |-> half.h, old |-> half.old, p |-> half.p]
        /\ half.op \in Import!Ops /\ half.h \in Handles \cup {None} /\ half.old \in SUBSET Handles
    BY <1>3 DEF ImportRequest
  <2>2. w = [op |-> half.op, at |-> half.at, h |-> half.h, old |-> half.old, p |-> p]
    BY <1>4, <2>1
  <2>3. QED BY <1>3, <2>1, <2>2 DEF ImportRequest, Import!Steps
<1>7. Import!Becomes(t, w)
  BY <1>5 DEF Import!Create
<1>8. serving' \in [Threads -> ImportRequest] /\ serving'[t] = w /\ \A o \in Threads : o # t => serving'[o] = serving[o]
  BY <1>1, <1>6, <1>7, ImportServes
<1>9. \A q \in Slots : copies'[q] = IF q = p THEN "unset" ELSE copies[q]
  BY <1>1 DEF Import!TypeOK
<1>10. Import!TypeOK'
  BY <1>1, <1>8 DEF Import!TypeOK, ImportRequest
<1>11. \A o \in Threads : ImportSlotted(o)'
  BY <1>1, <1>6, <1>8 DEF ImportProjectsIInv, ImportSlotted
<1>12. ASSUME NEW o \in Threads PROVE ImportBare(o)'
  <2>1. CASE o = t
    BY <1>1, <1>6, <1>8, <1>9, <2>1 DEF ImportBare
  <2>2. CASE o # t
    BY <1>1, <1>8, <1>9, <2>2 DEF ImportProjectsIInv, ImportBare
  <2>3. QED BY <2>1, <2>2
<1>13. ImportApart'
  BY <1>1, <1>6, <1>8 DEF ImportProjectsIInv, ImportApart
<1>14. ImportTells'
  <2>1. ASSUME NEW q \in Slots \ cut', \A o \in Threads : serving'[o].p # q PROVE q \in source' <=> copies'[q] = "ok"
    <3>1. q # p
      BY <1>6, <1>8, <2>1
    <3>2. q \notin cut /\ \A o \in Threads : serving[o].p # q
      <4>1. serving[t].p = None
        BY <1>1 DEF ImportProjectsIInv, ImportSlotted
      <4>2. QED BY <1>1, <1>8, <2>1, <3>1, <4>1 DEF ImportDistinct
    <3>3. QED BY <1>1, <1>9, <2>1, <3>1, <3>2 DEF ImportProjectsIInv, ImportTells
  <2>2. QED BY <2>1 DEF ImportTells
<1>15. ImportOne'
  <2>1. ASSUME ~raced'
        PROVE  /\ \A a, o \in Threads : serving'[a].at = "create" /\ serving'[o].at = "create" => a = o
               /\ \A o \in Threads, q \in Slots : serving'[o].at = "create" => copies'[q] = "none"
               /\ \A q, r \in Slots : copies'[q] # "none" /\ copies'[r] # "none" => q = r
    <3>1. ImportOne /\ ~raced
      BY <1>1, <2>1 DEF ImportProjectsIInv
    <3>2. \A o \in Threads : serving'[o].at # "create"
      BY <1>1, <1>6, <1>8, <3>1 DEF ImportOne
    <3>3. \A q \in Slots : copies'[q] # "none" => q = p
      BY <1>1, <1>9, <3>1 DEF ImportOne
    <3>4. QED BY <3>2, <3>3
  <2>2. QED BY <2>1 DEF ImportOne
<1>16. ImportProjectsIInv'
  BY <1>11, <1>12, <1>13, <1>14, <1>15 DEF ImportProjectsIInv
<1>17. UNCHANGED <<handle, valid, dropped>> /\ serving[t].at # "revoke" /\ w.old \subseteq serving[t].old
  BY <1>1, <1>6
<1>18. QED BY <1>6, <1>7, <1>10, <1>16, <1>17, ImportGoesOn

LEMMA ImportCaptureKeeps ==
    ASSUME ImportDistinct, ImportIInv, NEW t \in Threads, Import!Capture(t)
    PROVE ImportIInv'
<1>1. /\ serving[t].at = "capture" /\ UNCHANGED <<handle, valid, dropped, copies, source, cut, raced>>
      /\ Import!TypeOK /\ ImportProjectsIInv
  BY DEF Import!Capture, Import!Projects, ImportIInv
<1>2. serving[t].p \in Slots /\ copies[serving[t].p] \in {"none", "unset"} /\ serving[t].p \notin source
  BY <1>1 DEF ImportProjectsIInv, ImportSlotted, ImportBare
<1>3. PICK w : Import!Becomes(t, w) /\ ((w = Import!Idle /\ copies[serving[t].p] = "none") \/ w = [serving[t] EXCEPT !.at = "install"])
  BY DEF Import!Capture
<1>4. w \in ImportRequest /\ w.old \subseteq serving[t].old
      /\ ((w.at = "idle" /\ w.p = None /\ copies[serving[t].p] = "none") \/ (w.at = "install" /\ w.p = serving[t].p))
  <2>1. CASE w = Import!Idle /\ copies[serving[t].p] = "none"
    BY <2>1, ImportIdleIsRequest, ImportIdleHas
  <2>2. CASE w = [serving[t] EXCEPT !.at = "install"]
    BY <2>2, ImportNextStep DEF Import!Steps
  <2>3. QED BY <1>3, <2>1, <2>2
<1>5. serving' \in [Threads -> ImportRequest] /\ serving'[t] = w /\ \A o \in Threads : o # t => serving'[o] = serving[o]
  BY <1>1, <1>3, <1>4, ImportServes
<1>6. Import!TypeOK'
  BY <1>1, <1>5 DEF Import!TypeOK, ImportRequest
<1>7. \A o \in Threads : (ImportSlotted(o) /\ ImportBare(o))'
  BY <1>1, <1>2, <1>4, <1>5 DEF ImportProjectsIInv, ImportSlotted, ImportBare, ImportDistinct
<1>8. ImportApart'
  BY <1>1, <1>4, <1>5 DEF ImportProjectsIInv, ImportApart, ImportDistinct
<1>9. ImportTells'
  BY <1>1, <1>2, <1>4, <1>5 DEF ImportProjectsIInv, ImportTells
<1>10. ImportOne'
  BY <1>1, <1>4, <1>5 DEF ImportProjectsIInv, ImportOne
<1>11. ImportProjectsIInv'
  BY <1>7, <1>8, <1>9, <1>10 DEF ImportProjectsIInv
<1>12. UNCHANGED <<handle, valid, dropped>> /\ serving[t].at # "revoke"
  BY <1>1
<1>13. QED BY <1>3, <1>4, <1>6, <1>11, <1>12, ImportGoesOn

LEMMA ImportInstallKeeps ==
    ASSUME ImportDistinct, ImportIInv, NEW t \in Threads, Import!Install(t)
    PROVE ImportIInv'
<1> DEFINE p == serving[t].p
<1>1. /\ serving[t].at = "install" /\ Import!Becomes(t, Import!Idle) /\ UNCHANGED <<handle, valid, dropped, cut, raced>>
      /\ Import!TypeOK /\ ImportProjectsIInv
  BY DEF Import!Install, ImportIInv
<1>2. p \in Slots /\ copies[p] \in {"none", "unset"} /\ p \notin source
  BY <1>1 DEF ImportProjectsIInv, ImportSlotted, ImportBare
<1>3. \/ copies[p] = "none" /\ UNCHANGED <<copies, source>>
      \/ /\ copies[p] # "none"
         /\ \E o \in {"failed", "ok", "unset"} :
                /\ copies' = [copies EXCEPT ![p] = o]
                /\ source' = IF o = "ok" THEN source \cup {p} ELSE source
  BY DEF Import!Install, Import!Outcomes
<1>4. /\ \A q \in Slots : q # p => (copies'[q] = copies[q] /\ (q \in source' <=> q \in source))
      /\ (p \in source' <=> copies'[p] = "ok") /\ (copies'[p] # "none" => copies[p] # "none")
  BY <1>1, <1>2, <1>3 DEF Import!TypeOK
<1>5. copies' \in [Slots -> {"none", "unset", "ok", "failed"}] /\ source' \subseteq Slots
  BY <1>1, <1>2, <1>3 DEF Import!TypeOK
<1>6. serving' \in [Threads -> ImportRequest] /\ serving'[t] = Import!Idle /\ \A o \in Threads : o # t => serving'[o] = serving[o]
  BY <1>1, ImportIdleIsRequest, ImportServes
<1>7. Import!TypeOK'
  BY <1>1, <1>5, <1>6 DEF Import!TypeOK, ImportRequest
<1>8. \A o \in Threads : o # t => serving[o].p # p
  BY <1>1, <1>2 DEF ImportProjectsIInv, ImportApart
<1> HIDE DEF p
<1>9. \A o \in Threads : ImportSlotted(o)'
  BY <1>1, <1>6, ImportIdleHas DEF ImportProjectsIInv, ImportSlotted
<1>10. ASSUME NEW o \in Threads PROVE ImportBare(o)'
  <2>1. CASE o = t
    BY <1>6, <2>1, ImportIdleHas DEF ImportBare, ImportDistinct
  <2>2. CASE o # t
    BY <1>1, <1>4, <1>6, <1>8, <2>2 DEF ImportProjectsIInv, ImportBare
  <2>3. QED BY <2>1, <2>2
<1>11. ImportApart'
  BY <1>1, <1>6, ImportIdleHas DEF ImportProjectsIInv, ImportApart, ImportDistinct
<1>12. ImportTells'
  <2>1. ASSUME NEW q \in Slots \ cut', \A o \in Threads : serving'[o].p # q PROVE q \in source' <=> copies'[q] = "ok"
    <3>1. CASE q = p
      BY <1>4, <3>1
    <3>2. CASE q # p
      <4>1. \A o \in Threads : serving[o].p # q
        BY <1>6, <2>1, <3>2 DEF p
      <4>2. QED BY <1>1, <1>4, <2>1, <3>2, <4>1 DEF ImportProjectsIInv, ImportTells
    <3>3. QED BY <3>1, <3>2
  <2>2. QED BY <2>1 DEF ImportTells
<1>13. ImportOne'
  <2>1. \A q \in Slots : copies'[q] # "none" => copies[q] # "none"
    BY <1>4
  <2>2. \A o \in Threads : serving'[o].at = "create" => serving[o].at = "create"
    BY <1>6, ImportIdleHas
  <2>3. QED BY <1>1, <2>1, <2>2 DEF ImportProjectsIInv, ImportOne
<1>14. ImportProjectsIInv'
  BY <1>9, <1>10, <1>11, <1>12, <1>13 DEF ImportProjectsIInv
<1>15. UNCHANGED <<handle, valid, dropped>> /\ serving[t].at # "revoke" /\ Import!Idle.old \subseteq serving[t].old
  BY <1>1, ImportIdleHas
<1>16. QED BY <1>1, <1>7, <1>14, <1>15, ImportGoesOn, ImportIdleIsRequest

LEMMA ImportAgeKeeps == ASSUME ImportIInv, NEW h \in Handles, Import!Age(h) PROVE ImportIInv'
<1>1. /\ handle[h] = "live" /\ handle' = [handle EXCEPT ![h] = "stale"]
      /\ UNCHANGED <<valid, dropped, serving>> /\ Import!Projects /\ Import!TypeOK /\ ImportHandlesIInv
  BY DEF Import!Age, ImportIInv
<1>2. \A x \in Handles : handle'[x] = IF x = h THEN "stale" ELSE handle[x]
  BY <1>1 DEF Import!TypeOK
<1>3. Import!TypeOK'
  BY <1>1 DEF Import!TypeOK, Import!Projects
<1>4. ImportOldGone'
  <2>1. \A t \in Threads : serving[t].old \subseteq Handles
    BY <1>1 DEF Import!TypeOK
  <2>2. QED BY <1>1, <1>2, <2>1 DEF ImportHandlesIInv, ImportOldGone
<1>5. Import!HandlesWork'
  <2>1. valid \subseteq Handles
    BY <1>1 DEF Import!TypeOK
  <2>2. QED BY <1>1, <1>2, <2>1 DEF ImportHandlesIInv, Import!HandlesWork
<1>6. ImportProjectsIInv'
  BY <1>1, ImportProjectsStay DEF ImportIInv, Import!Projects
<1>7. QED BY <1>3, <1>4, <1>5, <1>6 DEF ImportIInv, ImportHandlesIInv

LEMMA ImportDeleteKeeps == ASSUME ImportIInv, NEW p \in Slots, Import!Delete(p) PROVE ImportIInv'
<1>1. /\ copies' = [copies EXCEPT ![p] = "none"] /\ source' = source \ {p}
      /\ UNCHANGED <<handle, valid, dropped, cut, raced, serving>> /\ Import!TypeOK /\ ImportProjectsIInv
  BY DEF Import!Delete, ImportIInv
<1>2. \A q \in Slots : copies'[q] = IF q = p THEN "none" ELSE copies[q]
  BY <1>1 DEF Import!TypeOK
<1>3. Import!TypeOK'
  BY <1>1 DEF Import!TypeOK
<1>4. \A o \in Threads : (ImportSlotted(o) /\ ImportBare(o))'
  BY <1>1, <1>2 DEF ImportProjectsIInv, ImportSlotted, ImportBare
<1>5. ImportApart' /\ ImportTells'
  BY <1>1, <1>2 DEF ImportProjectsIInv, ImportApart, ImportTells
<1>6. ImportOne'
  BY <1>1, <1>2 DEF ImportProjectsIInv, ImportOne
<1>7. ImportHandlesIInv'
  BY <1>1, ImportHandlesStay DEF ImportIInv
<1>8. QED BY <1>3, <1>4, <1>5, <1>6, <1>7 DEF ImportIInv, ImportProjectsIInv

LEMMA ImportStopKeeps == ASSUME ImportDistinct, ImportIInv, Import!Stop PROVE ImportIInv'
<1>1. /\ handle' = [h \in Handles |-> IF handle[h] = "new" THEN "new" ELSE "gone"]
      /\ dropped' = valid /\ cut' = cut \cup ({serving[t].p : t \in Threads} \ {None})
      /\ serving' = [t \in Threads |-> Import!Idle]
      /\ UNCHANGED <<valid, copies, source, raced>> /\ Import!TypeOK /\ ImportProjectsIInv
  BY DEF Import!Stop, ImportIInv
<1>2. \A t \in Threads : serving'[t] = Import!Idle
  BY <1>1
<1>3. \A t \in Threads : serving[t].p \in Slots \cup {None}
  BY <1>1 DEF Import!TypeOK
<1>4. Import!TypeOK'
  <2>1. cut' \subseteq Slots
    BY <1>1, <1>3 DEF Import!TypeOK
  <2>2. serving' \in [Threads -> ImportRequest]
    BY <1>1, ImportIdleIsRequest
  <2>3. QED BY <1>1, <2>1, <2>2 DEF Import!TypeOK, ImportRequest
<1>5. ImportHandlesIInv'
  BY <1>1, <1>2, ImportIdleHas DEF ImportHandlesIInv, ImportOldGone, Import!HandlesWork
<1>6. \A t \in Threads : (ImportSlotted(t) /\ ImportBare(t))'
  BY <1>2, ImportIdleHas DEF ImportSlotted, ImportBare, ImportDistinct
<1>7. ImportApart'
  BY <1>2, ImportIdleHas DEF ImportApart, ImportDistinct
<1>8. ImportTells'
  <2>1. ASSUME NEW p \in Slots \ cut' PROVE p \in source <=> copies[p] = "ok"
    <3>1. p \notin cut /\ \A t \in Threads : serving[t].p # p
      BY <1>1, <2>1 DEF ImportDistinct
    <3>2. QED BY <1>1, <2>1, <3>1 DEF ImportProjectsIInv, ImportTells
  <2>2. QED BY <1>1, <2>1 DEF ImportTells
<1>9. ImportOne'
  BY <1>1, <1>2, ImportIdleHas DEF ImportProjectsIInv, ImportOne
<1>10. QED BY <1>4, <1>5, <1>6, <1>7, <1>8, <1>9 DEF ImportIInv, ImportProjectsIInv

LEMMA ImportNextIInv == ASSUME ImportDistinct, ImportIInv, [Import!Next]_Import!vars PROVE ImportIInv'
<1>1. CASE UNCHANGED Import!vars
  <2>1. Import!TypeOK'
    BY <1>1 DEF ImportIInv, Import!TypeOK, Import!vars
  <2>2. ImportHandlesIInv'
    BY <1>1, ImportHandlesStay DEF ImportIInv, Import!vars
  <2>3. ImportProjectsIInv'
    BY <1>1, ImportProjectsStay DEF ImportIInv, Import!vars
  <2>4. QED BY <2>1, <2>2, <2>3 DEF ImportIInv
<1>2. ASSUME NEW t \in Threads, NEW h \in Handles, Import!Open(t, h) \/ Import!Use(t, h) \/ Import!Close(t, h) PROVE ImportIInv'
  BY <1>2, ImportOpenKeeps, ImportUseKeeps, ImportCloseKeeps
<1>3. ASSUME NEW t \in Threads, Import!Revoke(t) \/ Import!Listed(t) \/ Import!Look(t) \/ Import!Capture(t) \/ Import!Install(t) PROVE ImportIInv'
  BY <1>3, ImportRevokeKeeps, ImportListedKeeps, ImportLookKeeps, ImportCaptureKeeps, ImportInstallKeeps
<1>4. ASSUME NEW t \in Threads, NEW p \in Slots, Import!Create(t, p) PROVE ImportIInv'
  BY <1>4, ImportCreateKeeps
<1>5. ASSUME NEW h \in Handles, Import!Age(h) PROVE ImportIInv'
  BY <1>5, ImportAgeKeeps
<1>6. ASSUME NEW p \in Slots, Import!Delete(p) PROVE ImportIInv'
  BY <1>6, ImportDeleteKeeps
<1>7. CASE Import!Stop
  BY <1>7, ImportStopKeeps
<1>8. QED BY <1>1, <1>2, <1>3, <1>4, <1>5, <1>6, <1>7 DEF Import!Next

LEMMA ImportHolds == ASSUME ImportIInv PROVE Import!HandlesWork /\ Import!OneCopyThatTells
<1>1. Import!HandlesWork /\ ImportOne /\ ImportTells
  BY DEF ImportIInv, ImportHandlesIInv, ImportProjectsIInv
<1>2. ASSUME ~raced PROVE Cardinality({p \in Slots : copies[p] # "none"}) <= 1
  <2> DEFINE S == {p \in Slots : copies[p] # "none"}
  <2>1. \A p, q \in S : p = q
    BY <1>1, <1>2 DEF ImportOne
  <2>2. S = {} \/ \E x : S = {x}
    BY <2>1
  <2>3. CASE S = {}
    BY <2>3, FS_EmptySet
  <2>4. CASE \E x : S = {x}
    BY <2>4, FS_Singleton
  <2>5. QED BY <2>2, <2>3, <2>4
<1>3. QED BY <1>1, <1>2, ImportCounts DEF Import!OneCopyThatTells, ImportTells

(* A behaviour of the composition is one of Import, with steps that leave  *)
(* it alone.                                                               *)
LEMMA ImportSpec == WorkspaceSpec => Import!Spec
<1>1. WorkspaceInit => Import!Init
  BY DEF WorkspaceInit
<1>2. [WorkspaceNext]_workspaceVars => [Import!Next]_Import!vars
  BY DEF WorkspaceNext, workspaceVars, importVars, Import!vars
<1>3. QED BY <1>1, <1>2, PTL DEF WorkspaceSpec, Import!Spec

LEMMA ImportInvariant == WorkspaceSpec => []ImportIInv
<1>1. Import!Init => ImportIInv
  BY ImportInitIInv, NamesAssumption DEF ImportDistinct
<1>2. ImportIInv /\ [Import!Next]_Import!vars => ImportIInv'
  BY ImportNextIInv, NamesAssumption DEF ImportDistinct
<1>3. QED BY <1>1, <1>2, ImportSpec, PTL DEF Import!Spec

(* However opens, closes, imports and stops overlap: a handle in the       *)
(* dictionary stands for a token that works, and a token without one is    *)
(* revoked or about to be, unless a revocation failed or the server        *)
(* stopped.                                                                *)
THEOREM HandlesWorkAlways == WorkspaceSpec => []HandlesWork
<1>1. ImportIInv => HandlesWork
  BY ImportHolds DEF HandlesWork
<1>2. QED BY <1>1, ImportInvariant, PTL

(* Unless two imports look for the repository before either is stored it   *)
(* becomes one project, and an import that ended without a stop tells what *)
(* became of it.                                                           *)
THEOREM OneCopyThatTellsAlways == WorkspaceSpec => []OneCopyThatTells
<1>1. ImportIInv => OneCopyThatTells
  BY ImportHolds DEF OneCopyThatTells
<1>2. QED BY <1>1, ImportInvariant, PTL

(* The tokens a request holds are taken out for it to revoke.              *)
ImportEmptyHands == \A t \in Threads : serving[t].at # "revoke" => serving[t].old = {}

(* The state of TokenCustody that the import's is seen as.                 *)
CustodyIssued == {h \in Handles : handle[h] # "new"}
CustodyKept == {h \in Handles : handle[h] \in {"live", "stale"}}
CustodyRevoking == [t \in Threads |-> serving[t].old]

(* A token GitHub accepts is in one place: with its handle, with the one   *)
(* request that is to revoke it, or lost.                                  *)
CustodyHeld == UNION {CustodyRevoking[t] : t \in Threads}
CustodyInv ==
    /\ valid = CustodyKept \cup dropped \cup CustodyHeld /\ valid \subseteq CustodyIssued
    /\ dropped \cap CustodyKept = {} /\ CustodyHeld \cap (CustodyKept \cup dropped) = {}
    /\ \A t, o \in Threads : t # o => CustodyRevoking[t] \cap CustodyRevoking[o] = {}

LEMMA CustodyInit == ASSUME Import!Init PROVE Import!Custody!Init /\ CustodyInv /\ ImportEmptyHands
<1>1. \A t \in Threads : serving[t].old = {}
  BY ImportIdleHas DEF Import!Init
<1>2. CustodyIssued = {} /\ CustodyKept = {} /\ CustodyHeld = {} /\ \A t \in Threads : CustodyRevoking[t] = {}
  BY <1>1 DEF Import!Init, CustodyIssued, CustodyKept, CustodyHeld, CustodyRevoking
<1>3. valid = {} /\ dropped = {}
  BY DEF Import!Init
<1>4. Import!Custody!Init
  BY <1>1, <1>2, <1>3 DEF Import!Custody!Init, CustodyIssued, CustodyKept
<1>5. CustodyInv
  BY <1>2, <1>3 DEF CustodyInv
<1>6. QED BY <1>1, <1>4, <1>5 DEF ImportEmptyHands

(* TokenCustody keeps every token in one place.                            *)
LEMMA CustodyKeeps ==
    ASSUME CustodyInv, Import!Custody!Next PROVE CustodyInv'
<1>1. CustodyRevoking' = CustodyRevoking' /\ CustodyRevoking = [t \in Threads |-> CustodyRevoking[t]]
  BY DEF CustodyRevoking
<1>2. CASE Import!Custody!Stop
  <2>1. /\ dropped' = dropped \cup CustodyKept \cup CustodyHeld /\ CustodyKept' = {}
        /\ CustodyRevoking' = [t \in Threads |-> {}] /\ CustodyIssued' = CustodyIssued /\ valid' = valid
    BY <1>2 DEF Import!Custody!Stop, CustodyKept, CustodyHeld, CustodyRevoking, CustodyIssued
  <2>2. \A t \in Threads : CustodyRevoking'[t] = {}
    BY <2>1
  <2>3. CustodyHeld' = {}
    BY <2>2 DEF CustodyHeld
  <2>4. QED BY <2>1, <2>2, <2>3 DEF CustodyInv
<1>3. ASSUME NEW t \in Threads, NEW out \in SUBSET CustodyKept,
             Import!Custody!Take(t, out) \/ \E h \in Handles : Import!Custody!Receive(t, h, out)
      PROVE  CustodyInv'
  <2>1. CustodyRevoking[t] = {} /\ CustodyRevoking' = [CustodyRevoking EXCEPT ![t] = out] /\ dropped' = dropped
    BY <1>3 DEF Import!Custody!Take, Import!Custody!Receive, CustodyRevoking
  <2>2. PICK new \in SUBSET (Handles \ CustodyIssued) :
            valid' = valid \cup new /\ CustodyIssued' = CustodyIssued \cup new /\ CustodyKept' = (CustodyKept \ out) \cup new
    <3>1. CASE Import!Custody!Take(t, out)
      <4>1. valid' = valid /\ CustodyIssued' = CustodyIssued /\ CustodyKept' = CustodyKept \ out
        BY <3>1 DEF Import!Custody!Take, CustodyIssued, CustodyKept
      <4>2. {} \in SUBSET (Handles \ CustodyIssued) /\ \A S : S \cup {} = S
        OBVIOUS
      <4>3. QED BY <4>1, <4>2
    <3>2. CASE \E h \in Handles : Import!Custody!Receive(t, h, out)
      <4>1. PICK h \in Handles : Import!Custody!Receive(t, h, out)
        BY <3>2
      <4>2. /\ h \notin CustodyIssued /\ valid' = valid \cup {h} /\ CustodyIssued' = CustodyIssued \cup {h}
            /\ CustodyKept' = (CustodyKept \ out) \cup {h}
        BY <4>1 DEF Import!Custody!Receive, CustodyIssued, CustodyKept
      <4>3. {h} \in SUBSET (Handles \ CustodyIssued)
        BY <4>2
      <4>4. QED BY <4>2, <4>3
    <3>3. QED BY <1>3, <3>1, <3>2
  <2>3. CustodyRevoking'[t] = out /\ \A o \in Threads : o # t => CustodyRevoking'[o] = CustodyRevoking[o]
    BY <1>1, <2>1
  <2>4. CustodyHeld' = CustodyHeld \cup out
    BY <2>1, <2>3 DEF CustodyHeld
  <2>5. \A o \in Threads : CustodyRevoking[o] \subseteq CustodyHeld
    BY DEF CustodyHeld
  <2>6. CustodyKept \subseteq valid /\ dropped \subseteq valid /\ CustodyHeld \subseteq valid
    BY DEF CustodyInv
  <2>7. \A o, q \in Threads : o # q => CustodyRevoking'[o] \cap CustodyRevoking'[q] = {}
    BY <2>3, <2>5 DEF CustodyInv
  <2>8. QED BY <2>1, <2>2, <2>4, <2>6, <2>7 DEF CustodyInv
<1>4. ASSUME NEW t \in Threads, NEW done \in SUBSET CustodyRevoking[t], Import!Custody!Revoke(t, done) PROVE CustodyInv'
  <2>1. /\ valid' = valid \ done /\ dropped' = dropped \cup (CustodyRevoking[t] \ done)
        /\ CustodyRevoking' = [CustodyRevoking EXCEPT ![t] = {}] /\ CustodyIssued' = CustodyIssued /\ CustodyKept' = CustodyKept
    BY <1>4 DEF Import!Custody!Revoke, CustodyRevoking, CustodyIssued, CustodyKept
  <2>2. CustodyRevoking'[t] = {} /\ \A o \in Threads : o # t => CustodyRevoking'[o] = CustodyRevoking[o]
    BY <1>1, <2>1
  <2>3. CustodyHeld' = CustodyHeld \ CustodyRevoking[t]
    BY <2>2 DEF CustodyHeld, CustodyInv
  <2>4. CustodyRevoking[t] \subseteq CustodyHeld
    BY DEF CustodyHeld
  <2>5. \A o, q \in Threads : o # q => CustodyRevoking'[o] \cap CustodyRevoking'[q] = {}
    BY <2>2 DEF CustodyInv
  <2>6. QED BY <2>1, <2>3, <2>4, <2>5 DEF CustodyInv
<1>5. QED BY <1>2, <1>3, <1>4 DEF Import!Custody!Next, CustodyKept, CustodyRevoking

(* A step of the import is one of TokenCustody, or none.                   *)
LEMMA CustodySame ==
    ASSUME UNCHANGED <<handle, valid, dropped>>, \A t \in Threads : serving'[t].old = serving[t].old
    PROVE  UNCHANGED Import!Custody!vars
<1>1. CustodyRevoking' = CustodyRevoking
  BY DEF CustodyRevoking
<1>2. QED BY <1>1 DEF Import!Custody!vars, CustodyRevoking

LEMMA CustodyServes ==
    ASSUME Import!TypeOK, NEW t \in Threads, NEW w \in ImportRequest, Import!Becomes(t, w),
           w.at = "revoke" \/ w.old = {}, ImportEmptyHands
    PROVE  CustodyRevoking' = [CustodyRevoking EXCEPT ![t] = w.old] /\ ImportEmptyHands'
<1>1. serving'[t] = w /\ \A o \in Threads : o # t => serving'[o] = serving[o]
  BY ImportServes
<1>2. \A o \in Threads : serving'[o].old = IF o = t THEN w.old ELSE serving[o].old
  BY <1>1
<1>3. CustodyRevoking' = [CustodyRevoking EXCEPT ![t] = w.old]
  BY <1>2 DEF CustodyRevoking
<1>4. ImportEmptyHands'
  BY <1>1 DEF ImportEmptyHands
<1>5. QED BY <1>3, <1>4

LEMMA CustodyTakes ==
    ASSUME ImportIInv, ImportEmptyHands, NEW t \in Threads, NEW h \in Handles, Import!Open(t, h) \/ Import!Use(t, h) \/ Import!Close(t, h)
    PROVE  Import!Custody!Next /\ ImportEmptyHands'
<1>0. Import!TypeOK
  BY DEF ImportIInv
<1>1. serving[t].at \in {"idle", "list"} /\ CustodyRevoking[t] = {} /\ dropped' = dropped
  BY DEF Import!Open, Import!Use, Import!Close, ImportEmptyHands, CustodyRevoking
<1>2. ASSUME NEW op \in Import!Ops, NEW out \in SUBSET Handles,
             Import!Becomes(t, [Import!Idle EXCEPT !.op = op, !.at = "revoke", !.h = h, !.old = out])
      PROVE  CustodyRevoking' = [CustodyRevoking EXCEPT ![t] = out] /\ ImportEmptyHands'
  <2>1. PICK w : w = [op |-> op, at |-> "revoke", h |-> h, old |-> out, p |-> None]
    OBVIOUS
  <2>2. Import!Becomes(t, w)
    BY <1>2, <2>1, ImportAsks
  <2>3. w \in ImportRequest /\ w.at = "revoke" /\ w.old = out
    BY <2>1 DEF ImportRequest, Import!Steps
  <2>4. QED BY <1>0, <2>2, <2>3, CustodyServes
<1>3. PICK stale \in SUBSET CustodyKept : stale = Import!Stale /\ stale \in SUBSET Handles
  BY <1>0, ImportStaleIsGone DEF CustodyKept
<1>4. CASE Import!Open(t, h)
  <2>1. CustodyRevoking' = [CustodyRevoking EXCEPT ![t] = stale] /\ ImportEmptyHands'
    BY <1>2, <1>3, <1>4 DEF Import!Open, Import!Ops
  <2>2. handle[h] = "new" /\ valid' = valid \cup {h} /\ handle' = [Import!Purged EXCEPT ![h] = "live"]
    BY <1>4 DEF Import!Open
  <2>3. h \notin stale /\ h \notin CustodyIssued
    BY <1>0, <1>3, <2>2, ImportStaleIsGone DEF CustodyIssued
  <2>4. \A x \in Handles : handle'[x] = IF x = h THEN "live" ELSE IF x \in stale THEN "gone" ELSE handle[x]
    BY <1>0, <1>3, <2>2, ImportStaleIsGone
  <2>5. CustodyIssued' = CustodyIssued \cup {h}
    BY <1>0, <1>3, <2>4, ImportStaleIsGone DEF CustodyIssued
  <2>6. CustodyKept' = (CustodyKept \ stale) \cup {h}
    BY <1>0, <1>3, <2>3, <2>4, ImportStaleIsGone DEF CustodyKept
  <2>7. Import!Custody!Receive(t, h, stale)
    BY <1>1, <2>1, <2>2, <2>3, <2>5, <2>6 DEF Import!Custody!Receive, CustodyRevoking, CustodyIssued, CustodyKept
  <2>8. Import!Custody!Next
    BY <1>3, <2>7 DEF Import!Custody!Next, CustodyKept
  <2>9. QED BY <2>1, <2>8
<1>5. CASE Import!Use(t, h)
  <2>1. PICK op \in {"import", "none"} : op = IF handle[h] = "live" THEN "import" ELSE "none"
    OBVIOUS
  <2>2. CustodyRevoking' = [CustodyRevoking EXCEPT ![t] = stale] /\ ImportEmptyHands'
    <3>1. Import!Becomes(t, [Import!Idle EXCEPT !.op = op, !.at = "revoke", !.h = h, !.old = stale])
      BY <1>3, <1>5, <2>1 DEF Import!Use
    <3>2. op \in Import!Ops
      BY DEF Import!Ops
    <3>3. QED BY <1>2, <1>3, <3>1, <3>2
  <2>3. valid' = valid /\ \A x \in Handles : handle'[x] = IF x \in stale THEN "gone" ELSE handle[x]
    BY <1>0, <1>3, <1>5, ImportStaleIsGone DEF Import!Use
  <2>4. CustodyIssued' = CustodyIssued /\ CustodyKept' = CustodyKept \ stale
    BY <1>0, <1>3, <2>3, ImportStaleIsGone DEF CustodyIssued, CustodyKept
  <2>5. Import!Custody!Take(t, stale)
    BY <1>1, <2>2, <2>3, <2>4 DEF Import!Custody!Take, CustodyRevoking, CustodyIssued, CustodyKept
  <2>6. Import!Custody!Next
    BY <1>3, <2>5 DEF Import!Custody!Next, CustodyKept
  <2>7. QED BY <2>2, <2>6
<1>6. CASE Import!Close(t, h)
  <2>1. CustodyRevoking' = [CustodyRevoking EXCEPT ![t] = {h}] /\ ImportEmptyHands'
    <3>1. Import!Becomes(t, [Import!Idle EXCEPT !.op = "close", !.at = "revoke", !.h = h, !.old = {h}])
      BY <1>6 DEF Import!Close, Import!TakenOut
    <3>2. "close" \in Import!Ops /\ {h} \in SUBSET Handles
      BY DEF Import!Ops
    <3>3. QED BY <1>2, <3>1, <3>2
  <2>2. h \in CustodyKept /\ valid' = valid /\ \A x \in Handles : handle'[x] = IF x = h THEN "gone" ELSE handle[x]
    BY <1>0, <1>6 DEF Import!Close, Import!TakenOut, Import!TypeOK, CustodyKept
  <2>3. CustodyIssued' = CustodyIssued /\ CustodyKept' = CustodyKept \ {h}
    BY <2>2 DEF CustodyIssued, CustodyKept
  <2>4. Import!Custody!Take(t, {h})
    BY <1>1, <2>1, <2>2, <2>3 DEF Import!Custody!Take, CustodyRevoking, CustodyIssued, CustodyKept
  <2>5. QED BY <2>1, <2>2, <2>4 DEF Import!Custody!Next, CustodyKept
<1>7. QED BY <1>4, <1>5, <1>6

LEMMA CustodyRevokes ==
    ASSUME ImportIInv, ImportEmptyHands, NEW t \in Threads, Import!Revoke(t)
    PROVE  Import!Custody!Next /\ ImportEmptyHands'
<1>0. Import!TypeOK
  BY DEF ImportIInv
<1>1. PICK w : Import!Becomes(t, w) /\ w \in ImportRequest /\ w.old = {}
  <2>1. PICK r \in ImportRequest : r = serving[t]
    BY <1>0 DEF Import!TypeOK, ImportRequest
  <2>2. CASE Import!After(r.op) = "idle"
    BY <2>1, <2>2, ImportIdleIsRequest, ImportIdleHas DEF Import!Revoke
  <2>3. CASE Import!After(r.op) # "idle"
    <3>1. Import!Becomes(t, [r EXCEPT !.at = Import!After(r.op), !.old = {}])
      BY <2>1, <2>3 DEF Import!Revoke
    <3>2. Import!After(r.op) \in Import!Steps
      BY DEF Import!After, Import!Steps
    <3>3. PICK half \in ImportRequest : half = [r EXCEPT !.at = Import!After(r.op)]
      BY <3>2 DEF ImportRequest
    <3>4. [half EXCEPT !.old = {}] \in ImportRequest /\ [half EXCEPT !.old = {}].old = {}
      BY DEF ImportRequest
    <3>5. [r EXCEPT !.at = Import!After(r.op), !.old = {}] = [half EXCEPT !.old = {}]
      BY <3>3 DEF ImportRequest
    <3>6. QED BY <3>1, <3>4, <3>5
  <2>4. QED BY <2>2, <2>3
<1>2. CustodyRevoking' = [CustodyRevoking EXCEPT ![t] = {}] /\ ImportEmptyHands'
  BY <1>0, <1>1, CustodyServes
<1>3. CustodyRevoking[t] = serving[t].old
  BY DEF CustodyRevoking
<1>4. PICK done \in SUBSET CustodyRevoking[t] : valid' = valid \ done /\ dropped' = dropped \cup (CustodyRevoking[t] \ done)
  BY <1>3 DEF Import!Revoke
<1>5. handle' = handle
  BY DEF Import!Revoke
<1>6. Import!Custody!Revoke(t, done)
  BY <1>2, <1>4, <1>5 DEF Import!Custody!Revoke, CustodyRevoking
<1>7. Import!Custody!Next
  BY <1>6 DEF Import!Custody!Next, CustodyRevoking
<1>8. QED BY <1>2, <1>7

(* The steps of an import that say nothing to its token.                   *)
LEMMA CustodyIsLeft ==
    ASSUME ImportIInv, ImportEmptyHands, NEW t \in Threads,
           \/ Import!Listed(t) \/ Import!Look(t) \/ Import!Capture(t) \/ Import!Install(t)
           \/ \E p \in Slots : Import!Create(t, p)
    PROVE  UNCHANGED Import!Custody!vars /\ ImportEmptyHands'
<1>1. UNCHANGED <<handle, valid, dropped>> /\ serving[t].at \in Import!Steps \ {"revoke"}
  BY DEF Import!Listed, Import!Look, Import!Capture, Import!Install, Import!Create, Import!Steps
<1>2. serving[t].old = {}
  BY <1>1 DEF ImportEmptyHands
<1>3. PICK r \in ImportRequest : r = serving[t]
  BY DEF ImportIInv, Import!TypeOK, ImportRequest
<1>4. \E w : Import!Becomes(t, w) /\ w \in ImportRequest /\ w.old = {}
  <2>1. ASSUME NEW to \in Import!Steps PROVE [r EXCEPT !.at = to] \in ImportRequest /\ [r EXCEPT !.at = to].old = {}
    BY <1>2, <1>3 DEF ImportRequest
  <2>2. ASSUME NEW p \in Slots
        PROVE  /\ [r EXCEPT !.at = "capture", !.p = p] \in ImportRequest
               /\ [r EXCEPT !.at = "capture", !.p = p].old = {}
    <3>1. PICK half \in ImportRequest : half = [r EXCEPT !.at = "capture"] /\ half.old = {}
      BY <2>1 DEF Import!Steps
    <3>2. [half EXCEPT !.p = p] \in ImportRequest /\ [half EXCEPT !.p = p].old = {}
      BY <3>1 DEF ImportRequest
    <3>3. [r EXCEPT !.at = "capture", !.p = p] = [half EXCEPT !.p = p]
      BY <3>1 DEF ImportRequest
    <3>4. QED BY <3>2, <3>3
  <2>3. CASE Import!Listed(t) \/ Import!Install(t)
    BY <2>3, ImportIdleIsRequest, ImportIdleHas DEF Import!Listed, Import!Install
  <2>4. CASE Import!Look(t)
    <3>1. Import!Becomes(t, Import!Idle) \/ Import!Becomes(t, [r EXCEPT !.at = "create"])
      BY <1>3, <2>4 DEF Import!Look
    <3>2. "create" \in Import!Steps
      BY DEF Import!Steps
    <3>3. QED BY <2>1, <3>1, <3>2, ImportIdleIsRequest, ImportIdleHas
  <2>5. CASE Import!Capture(t)
    <3>1. Import!Becomes(t, Import!Idle) \/ Import!Becomes(t, [r EXCEPT !.at = "install"])
      BY <1>3, <2>5 DEF Import!Capture
    <3>2. "install" \in Import!Steps
      BY DEF Import!Steps
    <3>3. QED BY <2>1, <3>1, <3>2, ImportIdleIsRequest, ImportIdleHas
  <2>6. CASE \E p \in Slots : Import!Create(t, p)
    <3>1. PICK p \in Slots : Import!Becomes(t, [r EXCEPT !.at = "capture", !.p = p])
      BY <1>3, <2>6 DEF Import!Create
    <3>2. QED BY <2>2, <3>1
  <2>7. QED BY <2>3, <2>4, <2>5, <2>6
<1>5. PICK w : Import!Becomes(t, w) /\ w \in ImportRequest /\ w.old = {}
  BY <1>4
<1>6. serving'[t] = w /\ \A o \in Threads : o # t => serving'[o] = serving[o]
  BY <1>5, ImportServes DEF ImportIInv
<1>7. \A o \in Threads : serving'[o].old = serving[o].old
  BY <1>2, <1>5, <1>6
<1>8. ImportEmptyHands'
  BY <1>5, CustodyServes DEF ImportIInv
<1>9. QED BY <1>1, <1>7, <1>8, CustodySame

LEMMA CustodyNext ==
    ASSUME ImportIInv, ImportEmptyHands, CustodyInv, [Import!Next]_Import!vars
    PROVE  [Import!Custody!Next]_Import!Custody!vars /\ ImportEmptyHands'
<1>0. Import!TypeOK
  BY DEF ImportIInv
<1>1. CASE UNCHANGED Import!vars
  BY <1>1, CustodySame DEF Import!vars, ImportEmptyHands
<1>2. ASSUME NEW t \in Threads, NEW h \in Handles, Import!Open(t, h) \/ Import!Use(t, h) \/ Import!Close(t, h)
      PROVE  Import!Custody!Next /\ ImportEmptyHands'
  BY <1>2, CustodyTakes
<1>3. ASSUME NEW t \in Threads, Import!Revoke(t) PROVE Import!Custody!Next /\ ImportEmptyHands'
  BY <1>3, CustodyRevokes
<1>4. ASSUME NEW t \in Threads,
             \/ Import!Listed(t) \/ Import!Look(t) \/ Import!Capture(t) \/ Import!Install(t)
             \/ \E p \in Slots : Import!Create(t, p)
      PROVE  UNCHANGED Import!Custody!vars /\ ImportEmptyHands'
  BY <1>4, CustodyIsLeft
<1>5. ASSUME NEW h \in Handles, Import!Age(h) PROVE UNCHANGED Import!Custody!vars /\ ImportEmptyHands'
  <2>1. handle[h] = "live" /\ handle' = [handle EXCEPT ![h] = "stale"] /\ UNCHANGED <<valid, dropped, serving>>
    BY <1>5 DEF Import!Age
  <2>2. \A x \in Handles : handle'[x] = IF x = h THEN "stale" ELSE handle[x]
    BY <1>0, <2>1 DEF Import!TypeOK
  <2>3. CustodyIssued' = CustodyIssued /\ CustodyKept' = CustodyKept
    BY <2>1, <2>2 DEF CustodyIssued, CustodyKept
  <2>4. QED BY <2>1, <2>3 DEF Import!Custody!vars, CustodyIssued, CustodyKept, ImportEmptyHands
<1>6. ASSUME NEW p \in Slots, Import!Delete(p) PROVE UNCHANGED Import!Custody!vars /\ ImportEmptyHands'
  BY <1>6, CustodySame DEF Import!Delete, ImportEmptyHands
<1>7. CASE Import!Stop
  <2>1. dropped' = valid /\ valid' = valid /\ serving' = [t \in Threads |-> Import!Idle]
        /\ handle' = [h \in Handles |-> IF handle[h] = "new" THEN "new" ELSE "gone"]
    BY <1>7 DEF Import!Stop
  <2>2. CustodyIssued' = CustodyIssued /\ CustodyKept' = {}
    BY <1>0, <2>1 DEF CustodyIssued, CustodyKept, Import!TypeOK
  <2>3. \A t \in Threads : serving'[t].old = {}
    BY <2>1, ImportIdleHas
  <2>4. CustodyRevoking' = [t \in Threads |-> {}]
    BY <2>3 DEF CustodyRevoking
  <2>5. dropped' = dropped \cup CustodyKept \cup CustodyHeld
    BY <2>1 DEF CustodyInv
  <2>6. Import!Custody!Stop
    BY <2>1, <2>2, <2>4, <2>5 DEF Import!Custody!Stop, CustodyIssued, CustodyKept, CustodyHeld, CustodyRevoking
  <2>7. QED BY <2>3, <2>6 DEF Import!Custody!Next, ImportEmptyHands
<1>8. QED BY <1>1, <1>2, <1>3, <1>4, <1>5, <1>6, <1>7 DEF Import!Next

(* However opens, closes, imports and stops overlap: the server's handles  *)
(* and requests implement TokenCustody. Each token is taken out by one     *)
(* request, which alone revokes it; none that GitHub accepts is forgotten. *)
THEOREM TokensKeptAlways == WorkspaceSpec => TokensKept
<1>1. Import!Init => Import!Custody!Init /\ CustodyInv /\ ImportEmptyHands
  BY CustodyInit
<1>2. ImportIInv /\ ImportEmptyHands /\ CustodyInv /\ [Import!Next]_Import!vars
          => [Import!Custody!Next]_Import!Custody!vars /\ ImportEmptyHands' /\ CustodyInv'
  <2>1. CustodyInv /\ UNCHANGED Import!Custody!vars => CustodyInv'
    BY DEF CustodyInv, Import!Custody!vars, CustodyIssued, CustodyKept, CustodyHeld, CustodyRevoking
  <2>2. QED BY <2>1, CustodyNext, CustodyKeeps
<1>3. QED BY <1>1, <1>2, ImportSpec, ImportInvariant, PTL
          DEF Import!Spec, TokensKept, Import!TokensKept, Import!Custody!Spec

-----------------------------------------------------------------------------
(* ProjectLife: one project from its creation to its deletion.             *)

(* A project that is not there yet or is gone has no row; the fans are     *)
(* people of the project.                                                  *)
LifeDistinct == None \notin Life!Rows /\ Old \notin Life!Rows /\ None # Old /\ Fans \subseteq Life!People

LifeRequest == [op : Life!Ops, by : Life!People, at : {"idle", "read", "held"}, saw : Life!Rows,
                want : Life!Rows, cascade : SUBSET Life!Posts, tell : BOOLEAN]

(* Before it is created nothing is asked of it or said about it; once it   *)
(* is gone no row inserted with its id waits for its commit.               *)
LifeBounded ==
    /\ project = None => posts = {} /\ \A t \in Threads : work[t] = Life!Idle
    /\ project = Old => \A t \in Threads : work[t].at # "held"

(* A deletion that met nobody takes every post along.                      *)
LifeTakesAll(posted, t) ==
    work[t].op = "delete" => posted \subseteq work[t].cascade /\ \A s \in Threads : work[s].op \notin Life!Adds
LifeCalm == ~met => \A t \in Threads : LifeTakesAll(posts, t)

(* Who likes and shares; one insert of a like is held at a time, and who   *)
(* holds it has looked for an earlier notification.                        *)
LifeByFans == \A t \in Threads : work[t].op \in {"like", "share"} => work[t].by \in Fans
LifeOneHolds == \A s, t \in Threads : Life!Is(s, "like", "held") /\ Life!Is(t, "like", "held") /\ work[s].by = work[t].by => s = t
LifeLooked == \A t \in Threads : Life!Is(t, "like", "held") /\ work[t].tell => told[<<"like", work[t].by>>] = 0

(* Shares that do not overlap.                                             *)
LifeOneShares == \A s, t \in Threads : work[s].op = "share" /\ work[t].op = "share" /\ work[s].by = work[t].by => s = t
LifeLookedToo == \A t \in Threads : work[t].op = "share" /\ work[t].tell => told[<<"share", work[t].by>>] = 0
LifeShares == ~doubled => LifeOneShares /\ LifeLookedToo

(* An editor's request keeps what it has read.                             *)
LifeKeeps == \A t \in Threads : work[t].op = "update" /\ work[t].by # Owner => work[t].want = work[t].saw

LifePostsIInv == LifeBounded /\ LifeCalm /\ Life!PostsLeave
LifeToldIInv == LifeByFans /\ LifeOneHolds /\ LifeLooked /\ LifeShares /\ Life!ToldOnce
LifeIInv == Life!TypeOK /\ LifePostsIInv /\ LifeToldIInv /\ LifeKeeps

LEMMA LifeIdleIs ==
    /\ Life!Idle \in LifeRequest /\ Life!Idle.op = "none" /\ Life!Idle.at = "idle"
BY DEF Life!Idle, LifeRequest, Life!Ops, Life!People, Life!Rows, Life!Unknown

LEMMA LifeToldIs == \A u \in Fans : <<"like", u>> \in Life!Kinds \X Fans /\ <<"share", u>> \in Life!Kinds \X Fans
BY DEF Life!Kinds

LEMMA LifeInitIInv == ASSUME LifeDistinct, Life!Init PROVE LifeIInv
<1>1. \A t \in Threads : work[t] = Life!Idle /\ work[t].op = "none" /\ work[t].at = "idle"
  BY LifeIdleIs DEF Life!Init
<1>2. work \in [Threads -> LifeRequest]
  BY LifeIdleIs DEF Life!Init
<1>3. \A u \in Fans : told[<<"like", u>>] = 0 /\ told[<<"share", u>>] = 0
  BY LifeToldIs DEF Life!Init
<1>4. told \in [Life!Kinds \X Fans -> Nat]
  BY DEF Life!Init
<1>5. Life!TypeOK
  BY <1>2, <1>4 DEF Life!TypeOK, Life!Init, LifeRequest
<1>6. LifePostsIInv
  BY <1>1 DEF LifePostsIInv, LifeBounded, LifeCalm, LifeTakesAll, Life!PostsLeave, Life!Init,
     LifeDistinct
<1>7. LifeToldIInv
  <2>1. LifeByFans /\ LifeOneHolds /\ LifeLooked /\ LifeShares
    BY <1>1 DEF LifeByFans, LifeOneHolds, LifeLooked, LifeShares, LifeOneShares, LifeLookedToo, Life!Is
  <2>2. \A u \in Fans : told[<<"like", u>>] <= 1 /\ told[<<"share", u>>] <= 1
    <3>1. \A n \in Nat : n = 0 => n <= 1
      OBVIOUS
    <3>2. 0 \in Nat
      OBVIOUS
    <3>3. QED BY <1>3, <3>1, <3>2, Zenon
  <2>3. Life!ToldOnce
    BY <2>2, Zenon DEF Life!ToldOnce
  <2>4. QED BY <2>1, <2>3 DEF LifeToldIInv
<1>8. LifeKeeps
  BY <1>1 DEF LifeKeeps
<1>9. QED BY <1>5, <1>6, <1>7, <1>8 DEF LifeIInv

(* One request becomes another.                                            *)
LEMMA LifeServes ==
    ASSUME Life!TypeOK, NEW t \in Threads, NEW w \in LifeRequest, work' = [work EXCEPT ![t] = w]
    PROVE  /\ work' \in [Threads -> LifeRequest] /\ work'[t] = w
           /\ \A o \in Threads : o # t => work'[o] = work[o]
BY DEF Life!TypeOK, LifeRequest

LEMMA LifeWorkIs ==
    ASSUME Life!TypeOK
    PROVE work \in [Threads -> LifeRequest] /\ \A t \in Threads : work[t] \in LifeRequest
BY DEF Life!TypeOK, LifeRequest

LEMMA LifeBegins ==
    ASSUME NEW t, NEW op \in Life!Ops, NEW u \in Life!People
    PROVE  /\ Life!Begin(t, op, u) \in LifeRequest /\ Life!Begin(t, op, u).op = op /\ Life!Begin(t, op, u).by = u
           /\ Life!Begin(t, op, u).at = "read" /\ Life!Begin(t, op, u).cascade = {}
           /\ Life!Begin(t, op, u) # Life!Idle
BY DEF Life!Begin, Life!Idle, LifeRequest, Life!Ops, Life!People, Life!Rows, Life!Unknown

(* A step that adds no post, does not end the project and begins neither   *)
(* a deletion nor what adds a post.                                        *)
LEMMA LifePostsStay ==
    ASSUME LifeDistinct, Life!TypeOK, LifePostsIInv, NEW t \in Threads, NEW w \in LifeRequest, work' = [work EXCEPT ![t] = w],
           w.op # "delete", w.op \in Life!Adds => work[t].op \in Life!Adds,
           posts' \subseteq posts, met' = met,
           project' = None => project = None /\ w = Life!Idle,
           project' = Old => project = Old /\ w.at # "held"
    PROVE  LifePostsIInv'
<1>1. work'[t] = w /\ \A o \in Threads : o # t => work'[o] = work[o]
  BY LifeServes
<1>2. LifeBounded'
  BY <1>1 DEF LifePostsIInv, LifeBounded
<1>3. LifeCalm'
  <2> SUFFICES ASSUME ~met, NEW s \in Threads, work'[s].op = "delete"
               PROVE posts' \subseteq work'[s].cascade /\ \A o \in Threads : work'[o].op \notin Life!Adds
    BY DEF LifeCalm, LifeTakesAll
  <2>1. s # t /\ work'[s] = work[s]
    BY <1>1
  <2>2. posts \subseteq work[s].cascade /\ \A o \in Threads : work[o].op \notin Life!Adds
    BY <2>1 DEF LifePostsIInv, LifeCalm, LifeTakesAll
  <2>3. \A o \in Threads : work'[o].op \notin Life!Adds
    BY <1>1, <2>2
  <2>4. QED BY <2>1, <2>2, <2>3
<1>4. Life!PostsLeave'
  BY DEF LifePostsIInv, Life!PostsLeave
<1>5. QED BY <1>2, <1>3, <1>4 DEF LifePostsIInv

(* A step that tells nothing and holds no like of its own.                 *)
LEMMA LifeToldStays ==
    ASSUME Life!TypeOK, LifeToldIInv, NEW t \in Threads, NEW w \in LifeRequest, work' = [work EXCEPT ![t] = w],
           w.op # "share", w.op = "like" => w.at # "held" /\ w.by \in Fans,
           told' = told, doubled' = doubled
    PROVE  LifeToldIInv'
<1>1. work'[t] = w /\ \A o \in Threads : o # t => work'[o] = work[o]
  BY LifeServes
<1>2. LifeByFans'
  BY <1>1 DEF LifeToldIInv, LifeByFans
<1>3. LifeOneHolds'
  BY <1>1 DEF LifeToldIInv, LifeOneHolds, Life!Is
<1>4. LifeLooked'
  BY <1>1 DEF LifeToldIInv, LifeLooked, Life!Is
<1>5. LifeOneShares /\ LifeLookedToo => LifeOneShares' /\ LifeLookedToo'
  BY <1>1 DEF LifeOneShares, LifeLookedToo
<1>6. LifeShares'
  BY <1>5 DEF LifeToldIInv, LifeShares
<1>7. Life!ToldOnce'
  BY DEF LifeToldIInv, Life!ToldOnce
<1>8. QED BY <1>2, <1>3, <1>4, <1>6, <1>7 DEF LifeToldIInv

LEMMA LifeEditorsKeep ==
    ASSUME Life!TypeOK, LifeKeeps, NEW t \in Threads, NEW w \in LifeRequest, work' = [work EXCEPT ![t] = w],
           w.op = "update" /\ w.by # Owner => w.want = w.saw
    PROVE  LifeKeeps'
BY LifeServes DEF LifeKeeps

(* The project's row: what a step leaves of it.                            *)
LEMMA LifeLiveIs == ASSUME LifeDistinct PROVE Life!Live => project # None /\ project # Old
BY DEF LifeDistinct, Life!Live

LEMMA LifeChangedIs ==
    ASSUME NEW row \in Life!Rows, NEW saw \in Life!Rows, NEW want \in Life!Rows
    PROVE  Life!Changed(row, saw, want) \in Life!Rows /\ (want = saw => Life!Changed(row, saw, want) = row)
<1>1. Life!Changed(row, saw, want) =
      [public |-> IF want.public = saw.public THEN row.public ELSE want.public,
       comments |-> IF want.comments = saw.comments THEN row.comments ELSE want.comments]
  BY DEF Life!Changed, Life!Rows
<1>2. Life!Changed(row, saw, want) \in Life!Rows
  BY <1>1 DEF Life!Rows
<1>3. ASSUME want = saw PROVE Life!Changed(row, saw, want) = row
  BY <1>1, <1>3 DEF Life!Rows
<1>4. QED BY <1>2, <1>3

(* What is held or done by t and told of it.                               *)
LEMMA LifeToldMore ==
    ASSUME Life!TypeOK, NEW k \in Life!Kinds, NEW u \in Fans, NEW more \in BOOLEAN,
           told' = [told EXCEPT ![<<k, u>>] = @ + (IF more THEN 1 ELSE 0)]
    PROVE  /\ told' \in [Life!Kinds \X Fans -> Nat]
           /\ told'[<<k, u>>] = told[<<k, u>>] + (IF more THEN 1 ELSE 0)
           /\ \A j \in Life!Kinds, v \in Fans : <<j, v>> # <<k, u>> => told'[<<j, v>>] = told[<<j, v>>]
<1> DEFINE at == <<k, u>>
           n == told[at] + (IF more THEN 1 ELSE 0)
<1>1. at \in Life!Kinds \X Fans /\ told \in [Life!Kinds \X Fans -> Nat]
  BY DEF Life!TypeOK
<1>2. n \in Nat
  BY <1>1
<1>3. told' = [told EXCEPT ![at] = n]
  OBVIOUS
<1>4. \A j \in Life!Kinds, v \in Fans : <<j, v>> \in Life!Kinds \X Fans
  OBVIOUS
<1> HIDE DEF at, n
<1>5. told' \in [Life!Kinds \X Fans -> Nat] /\ told'[at] = n
  BY <1>1, <1>2, <1>3
<1>6. \A c \in Life!Kinds \X Fans : c # at => told'[c] = told[c]
  BY <1>1, <1>3
<1>7. QED BY <1>4, <1>5, <1>6 DEF at, n

LEMMA LifeCreateKeeps ==
    ASSUME LifeDistinct, LifeIInv, NEW t \in Threads, NEW public \in BOOLEAN, Life!Create(t, public) PROVE LifeIInv'
<1> DEFINE w == Life!Begin(t, "create", Owner)
<1>1. Life!TypeOK /\ LifePostsIInv /\ LifeToldIInv /\ LifeKeeps
  BY DEF LifeIInv
<1>2. w \in LifeRequest /\ w.op = "create" /\ w.at = "read" /\ w.by = Owner
  BY LifeBegins DEF Life!Ops, Life!People
<1>3. project' \in Life!Rows /\ project = None /\ work' = [work EXCEPT ![t] = w]
      /\ UNCHANGED <<posts, likes, told, met, doubled>>
  BY DEF Life!Create, Life!Rows
<1> HIDE DEF w
<1>4. work' \in [Threads -> LifeRequest] /\ work'[t] = w /\ \A o \in Threads : o # t => work'[o] = work[o]
  BY <1>1, <1>2, <1>3, LifeServes
<1>5. Life!TypeOK'
  BY <1>1, <1>3, <1>4 DEF Life!TypeOK, LifeRequest
<1>6. LifePostsIInv'
  <2>1. \A o \in Threads : o # t => work'[o] = Life!Idle /\ work'[o].op = "none"
    BY <1>1, <1>3, <1>4, LifeIdleIs DEF LifePostsIInv, LifeBounded
  <2>2. LifeBounded' /\ Life!PostsLeave'
    BY <1>3 DEF LifeBounded, Life!PostsLeave, LifeDistinct
  <2>3. LifeCalm'
    BY <1>2, <1>4, <2>1 DEF LifeCalm, LifeTakesAll
  <2>4. QED BY <2>2, <2>3 DEF LifePostsIInv
<1>7. LifeToldIInv'
  BY <1>1, <1>2, <1>3, LifeToldStays
<1>8. LifeKeeps'
  BY <1>1, <1>2, <1>3, LifeEditorsKeep
<1>9. QED BY <1>5, <1>6, <1>7, <1>8 DEF LifeIInv

(* The common step: nothing is told, no post is added.                     *)
LEMMA LifeGoes ==
    ASSUME LifeDistinct, LifeIInv, NEW t \in Threads, NEW w \in LifeRequest, work' = [work EXCEPT ![t] = w],
           w.op \notin {"delete", "share"}, w.op \in Life!Adds => work[t].op \in Life!Adds,
           w.op = "like" => w.at # "held" /\ w.by \in Fans,
           w.op = "update" /\ w.by # Owner => w.want = w.saw,
           posts' \subseteq posts, likes' \subseteq Fans, UNCHANGED <<told, met, doubled>>,
           project' = project \/ (project \in Life!Rows /\ project' \in Life!Rows),
           project = None => w = Life!Idle, project = Old => w.at # "held"
    PROVE  LifeIInv'
<1>1. Life!TypeOK /\ LifePostsIInv /\ LifeToldIInv /\ LifeKeeps
  BY DEF LifeIInv
<1>2. work' \in [Threads -> LifeRequest]
  BY <1>1, LifeServes
<1>3. Life!TypeOK'
  BY <1>1, <1>2 DEF Life!TypeOK, LifeRequest
<1>4. project' = None => project = None /\ w = Life!Idle
  BY DEF LifeDistinct
<1>5. project' = Old => project = Old /\ w.at # "held"
  BY DEF LifeDistinct
<1>6. LifePostsIInv'
  BY <1>1, <1>4, <1>5, LifePostsStay
<1>7. LifeToldIInv'
  BY <1>1, LifeToldStays
<1>8. LifeKeeps'
  BY <1>1, LifeEditorsKeep
<1>9. QED BY <1>3, <1>6, <1>7, <1>8 DEF LifeIInv

LEMMA LifeFinishGoes ==
    ASSUME LifeDistinct, LifeIInv, NEW t \in Threads, Life!Finish(t),
           posts' \subseteq posts, likes' \subseteq Fans, UNCHANGED <<told, met, doubled>>,
           project' = project \/ (project \in Life!Rows /\ project' \in Life!Rows)
    PROVE  LifeIInv'
<1> DEFINE w == Life!Idle
<1>1. w \in LifeRequest /\ w.op = "none" /\ w.at = "idle" /\ work' = [work EXCEPT ![t] = w] /\ w = Life!Idle
  BY LifeIdleIs DEF Life!Finish
<1> HIDE DEF w
<1>2. w.op \notin {"delete", "share", "like", "update"} /\ w.op \notin Life!Adds /\ w.at # "held"
  BY <1>1 DEF Life!Adds
<1>3. QED BY <1>1, <1>2, LifeGoes

LEMMA LifeBeginGoes ==
    ASSUME LifeDistinct, LifeIInv, NEW t \in Threads, NEW op \in {"unpost", "like", "unlike"}, NEW u \in Life!People,
           op = "like" => u \in Fans, project # None, work' = [work EXCEPT ![t] = Life!Begin(t, op, u)],
           UNCHANGED <<project, posts, likes, told, met, doubled>>
    PROVE  LifeIInv'
<1> DEFINE w == Life!Begin(t, op, u)
<1>1. w \in LifeRequest /\ w.op = op /\ w.by = u /\ w.at = "read" /\ work' = [work EXCEPT ![t] = w]
  BY LifeBegins DEF Life!Ops
<1> HIDE DEF w
<1>2. w.op \notin {"delete", "share", "update"} /\ w.op \notin Life!Adds /\ w.at # "held"
  BY <1>1 DEF Life!Adds
<1>3. likes' \subseteq Fans
  BY DEF LifeIInv, Life!TypeOK
<1>4. QED BY <1>1, <1>2, <1>3, LifeGoes

LEMMA LifeUpdateKeeps ==
    ASSUME LifeDistinct, LifeIInv, NEW t \in Threads, NEW u \in Life!People, NEW want \in Life!Rows, Life!Update(t, u, want)
    PROVE  LifeIInv'
<1>1. "update" \in Life!Ops /\ project \in Life!Rows
  BY DEF Life!Ops, Life!Update, Life!Live
<1>2. /\ Life!Begin(t, "update", u) \in LifeRequest /\ Life!Begin(t, "update", u).op = "update"
      /\ Life!Begin(t, "update", u).by = u /\ Life!Begin(t, "update", u).at = "read"
  BY <1>1, LifeBegins
<1> DEFINE fresh == Life!Begin(t, "update", u)
<1> HIDE DEF fresh
<1>3. PICK one \in LifeRequest : one = [fresh EXCEPT !.saw = project]
  BY <1>1, <1>2 DEF LifeRequest, fresh
<1>0. PICK w \in LifeRequest : w = [one EXCEPT !.want = want]
  BY <1>3 DEF LifeRequest
<1>4. one.op = "update" /\ one.by = u /\ one.at = "read" /\ one.saw = project
  BY <1>2, <1>3 DEF LifeRequest, fresh
<1>5. w.op = "update" /\ w.by = u /\ w.at = "read" /\ w.saw = project /\ w.want = want
  BY <1>0, <1>4 DEF LifeRequest
<1>6. [Life!Begin(t, "update", u) EXCEPT !.saw = project, !.want = want] = w
  BY <1>0, <1>2, <1>3 DEF LifeRequest, fresh
<1>7. work' = [work EXCEPT ![t] = w] /\ UNCHANGED <<project, posts, likes, told, met, doubled>>
      /\ (u # Owner => want = project) /\ Life!Live
  BY <1>6 DEF Life!Update
<1>8. project # None /\ likes' \subseteq Fans
  BY <1>7, LifeLiveIs DEF LifeIInv, Life!TypeOK
<1>9. w.op \notin {"delete", "share", "like"} /\ w.op \notin Life!Adds /\ w.at # "held"
  BY <1>5 DEF Life!Adds
<1>10. QED BY <1>0, <1>5, <1>7, <1>8, <1>9, LifeGoes

LEMMA LifeSaveKeeps == ASSUME LifeDistinct, LifeIInv, NEW t \in Threads, Life!Save(t) PROVE LifeIInv'
<1>1. work[t] \in LifeRequest /\ Life!TypeOK
  BY LifeWorkIs DEF LifeIInv
<1>2. work[t].saw \in Life!Rows /\ work[t].want \in Life!Rows
  BY <1>1 DEF LifeRequest
<1>3. project' = project \/ (project \in Life!Rows /\ project' \in Life!Rows)
  BY <1>2, LifeChangedIs DEF Life!Save, Life!Live
<1>4. likes' \subseteq Fans
  BY <1>1 DEF Life!Save, Life!TypeOK
<1>5. QED BY <1>3, <1>4, LifeFinishGoes DEF Life!Save

(* AddEntry, CommitPost: a request that adds a post ends.                  *)
LEMMA LifeAddsPost ==
    ASSUME LifeDistinct, LifeIInv, NEW t \in Threads, Life!Finish(t), work[t].op \in Life!Adds, NEW a \in Life!Posts,
           posts' = posts \cup {a}, project # Old,
           UNCHANGED <<project, likes, told, met, doubled>>
    PROVE  LifeIInv'
<1> DEFINE w == Life!Idle
<1>1. w \in LifeRequest /\ w.op = "none" /\ w.at = "idle" /\ work' = [work EXCEPT ![t] = w] /\ w = Life!Idle
  BY LifeIdleIs DEF Life!Finish
<1> HIDE DEF w
<1>2. Life!TypeOK /\ LifePostsIInv /\ LifeToldIInv /\ LifeKeeps
  BY DEF LifeIInv
<1>3. work' \in [Threads -> LifeRequest] /\ work'[t] = w /\ \A o \in Threads : o # t => work'[o] = work[o]
  BY <1>1, <1>2, LifeServes
<1>4. Life!TypeOK'
  BY <1>2, <1>3 DEF Life!TypeOK, LifeRequest
<1>5. LifePostsIInv'
  <2>1. LifeBounded'
    <3>1. project # None
      BY <1>2, LifeIdleIs DEF LifePostsIInv, LifeBounded, Life!Adds
    <3>2. QED BY <3>1 DEF LifeBounded
  <2>2. Life!PostsLeave'
    BY DEF Life!PostsLeave
  <2>3. ASSUME ~met', NEW s \in Threads PROVE LifeTakesAll(posts, s)'
    <3>1. work[s].op # "delete"
      BY <1>2, <2>3 DEF LifePostsIInv, LifeCalm, LifeTakesAll
    <3>2. work'[s].op # "delete"
      BY <1>1, <1>3, <3>1
    <3>3. QED BY <3>2 DEF LifeTakesAll
  <2>4. LifeCalm'
    BY <2>3 DEF LifeCalm, LifeTakesAll
  <2>5. QED BY <2>1, <2>2, <2>4 DEF LifePostsIInv
<1>6. LifeToldIInv'
  BY <1>1, <1>2, LifeToldStays
<1>7. LifeKeeps'
  BY <1>1, <1>2, LifeEditorsKeep
<1>8. QED BY <1>4, <1>5, <1>6, <1>7 DEF LifeIInv

LEMMA LifeAddEntryKeeps ==
    ASSUME LifeDistinct, LifeIInv, NEW t \in Threads, Life!AddEntry(t)
    PROVE LifeIInv'
<1>1. likes' \subseteq Fans
  BY DEF LifeIInv, Life!TypeOK, Life!AddEntry
<1>2. CASE posts' = posts
  BY <1>1, <1>2, LifeFinishGoes DEF Life!AddEntry
<1>3. CASE Life!Live /\ posts' = posts \cup {[by |-> Owner, linked |-> TRUE]}
  <2>1. [by |-> Owner, linked |-> TRUE] \in Life!Posts /\ work[t].op \in Life!Adds /\ project # Old
    BY <1>3, LifeLiveIs DEF Life!Posts, Life!People, Life!AddEntry, Life!Is, Life!Adds
  <2>2. QED BY <1>3, <2>1, LifeAddsPost DEF Life!AddEntry
<1>4. QED BY <1>2, <1>3 DEF Life!AddEntry

LEMMA LifeCommitPostKeeps ==
    ASSUME LifeDistinct, LifeIInv, NEW t \in Threads, Life!CommitPost(t)
    PROVE LifeIInv'
<1>1. work[t] \in LifeRequest /\ work[t].op \in Life!Adds /\ project # Old
  BY LifeWorkIs DEF LifeIInv, Life!CommitPost, Life!Is, Life!Adds, LifePostsIInv, LifeBounded
<1>2. [by |-> work[t].by, linked |-> TRUE] \in Life!Posts
  BY <1>1 DEF LifeRequest, Life!Posts
<1>3. QED BY <1>1, <1>2, LifeAddsPost DEF Life!CommitPost

LEMMA LifeDeleteKeeps ==
    ASSUME LifeDistinct, LifeIInv, NEW t \in Threads, Life!Delete(t)
    PROVE LifeIInv'
<1>1. Life!TypeOK /\ LifePostsIInv /\ LifeToldIInv /\ LifeKeeps /\ project # None /\ project # Old
  BY LifeLiveIs DEF LifeIInv, Life!Delete
<1>3. /\ Life!Begin(t, "delete", Owner) \in LifeRequest /\ Life!Begin(t, "delete", Owner).op = "delete"
      /\ Life!Begin(t, "delete", Owner).by = Owner /\ Life!Begin(t, "delete", Owner).at = "read"
  BY DEF Life!Begin, Life!Idle, LifeRequest, Life!Ops, Life!People, Life!Rows, Life!Unknown
<1> DEFINE fresh == Life!Begin(t, "delete", Owner)
<1> HIDE DEF fresh
<1>2. PICK w \in LifeRequest : w = [fresh EXCEPT !.cascade = posts]
  BY <1>1, <1>3 DEF LifeRequest, Life!TypeOK, fresh
<1>4. w.op = "delete" /\ w.at = "read" /\ w.cascade = posts
  BY <1>2, <1>3 DEF LifeRequest, fresh
<1>5. work' = [work EXCEPT ![t] = w] /\ UNCHANGED <<project, posts, likes, told, doubled>>
  BY <1>2 DEF Life!Delete, fresh
<1>6. work' \in [Threads -> LifeRequest] /\ work'[t] = w /\ \A o \in Threads : o # t => work'[o] = work[o]
  BY <1>1, <1>2, <1>5, LifeServes
<1>7. met' \in BOOLEAN /\ (met => met') /\ (~met' => \A s \in Threads : work[s].op \notin Life!Adds)
  BY <1>1, Zenon DEF Life!Delete, Life!Meets, Life!TypeOK
<1>8. Life!TypeOK'
  BY <1>1, <1>5, <1>6, <1>7 DEF Life!TypeOK, LifeRequest
<1>9. LifePostsIInv'
  <2>1. LifeBounded' /\ Life!PostsLeave'
    BY <1>1, <1>4, <1>5, <1>6 DEF LifePostsIInv, LifeBounded, Life!PostsLeave
  <2>2. ASSUME ~met', NEW s \in Threads PROVE LifeTakesAll(posts, s)'
    <3>1. \A o \in Threads : work'[o].op \notin Life!Adds
      BY <1>4, <1>6, <1>7, <2>2 DEF Life!Adds
    <3>2. CASE s = t
      BY <1>4, <1>5, <1>6, <3>1, <3>2 DEF LifeTakesAll
    <3>3. CASE s # t
      <4>1. work'[s] = work[s] /\ LifeTakesAll(posts, s)
        BY <1>1, <1>6, <1>7, <2>2, <3>3 DEF LifePostsIInv, LifeCalm
      <4>2. QED BY <1>5, <3>1, <4>1 DEF LifeTakesAll
    <3>4. QED BY <3>2, <3>3
  <2>3. LifeCalm'
    BY <2>2 DEF LifeCalm, LifeTakesAll
  <2>4. QED BY <2>1, <2>3 DEF LifePostsIInv
<1>10. LifeToldIInv'
  BY <1>1, <1>2, <1>4, <1>5, LifeToldStays
<1>11. LifeKeeps'
  BY <1>1, <1>2, <1>4, <1>5, LifeEditorsKeep
<1>12. QED BY <1>8, <1>9, <1>10, <1>11 DEF LifeIInv

LEMMA LifeCommitDeleteKeeps ==
    ASSUME LifeDistinct, LifeIInv, NEW t \in Threads, Life!CommitDelete(t)
    PROVE LifeIInv'
<1> DEFINE w == Life!Idle
<1>1. w \in LifeRequest /\ w.op = "none" /\ w.at = "idle" /\ work' = [work EXCEPT ![t] = w]
  BY LifeIdleIs DEF Life!CommitDelete, Life!Finish
<1> HIDE DEF w
<1>2. Life!TypeOK /\ LifePostsIInv /\ LifeToldIInv /\ LifeKeeps
  BY DEF LifeIInv
<1>3. work' \in [Threads -> LifeRequest] /\ work'[t] = w /\ \A o \in Threads : o # t => work'[o] = work[o]
  BY <1>1, <1>2, LifeServes
<1>4. project' = Old /\ likes' = {} /\ posts' = {[a EXCEPT !.linked = FALSE] : a \in Life!Spared(t)}
      /\ work[t].op = "delete" /\ UNCHANGED <<told, met, doubled>>
  BY DEF Life!CommitDelete, Life!Is
<1>5. Life!Spared(t) \subseteq Life!Posts
  BY <1>2 DEF Life!Spared, Life!TypeOK
<1>6. posts' \subseteq Life!Posts
  BY <1>4, <1>5 DEF Life!Posts
<1>7. Life!TypeOK'
  BY <1>2, <1>3, <1>4, <1>6 DEF Life!TypeOK, LifeRequest
<1>8. ~met => posts' = {}
  <2> SUFFICES ASSUME ~met PROVE posts' = {}
    OBVIOUS
  <2>1. posts \subseteq work[t].cascade
    BY <1>2, <1>4 DEF LifePostsIInv, LifeCalm, LifeTakesAll
  <2>2. Life!Spared(t) = {}
    BY <2>1 DEF Life!Spared
  <2>3. QED BY <1>4, <2>2
<1>9. LifePostsIInv'
  <2>1. LifeBounded'
    BY <1>1, <1>3, <1>4 DEF LifeBounded, Life!CommitDelete, LifeDistinct
  <2>2. Life!PostsLeave'
    BY <1>4, <1>8 DEF Life!PostsLeave
  <2>3. ASSUME ~met', NEW s \in Threads PROVE LifeTakesAll(posts, s)'
    <3>1. CASE s = t
      BY <1>1, <1>3, <3>1 DEF LifeTakesAll
    <3>2. CASE s # t
      <4>1. work'[s] = work[s] /\ LifeTakesAll(posts, s) /\ posts' = {}
        BY <1>2, <1>3, <1>4, <1>8, <2>3, <3>2 DEF LifePostsIInv, LifeCalm
      <4>2. ASSUME work[s].op = "delete" PROVE \A o \in Threads : work'[o].op \notin Life!Adds
        <5>1. \A o \in Threads : work[o].op \notin Life!Adds
          BY <4>1, <4>2 DEF LifeTakesAll
        <5>2. w.op \notin Life!Adds
          BY <1>1 DEF Life!Adds
        <5>3. QED BY <1>3, <5>1, <5>2
      <4>3. QED BY <4>1, <4>2 DEF LifeTakesAll
    <3>3. QED BY <3>1, <3>2
  <2>4. LifeCalm'
    BY <2>3 DEF LifeCalm, LifeTakesAll
  <2>5. QED BY <2>1, <2>2, <2>4 DEF LifePostsIInv
<1>10. LifeToldIInv'
  BY <1>1, <1>2, <1>4, LifeToldStays
<1>11. LifeKeeps'
  BY <1>1, <1>2, LifeEditorsKeep
<1>12. QED BY <1>7, <1>9, <1>10, <1>11 DEF LifeIInv

LEMMA LifePostKeeps ==
    ASSUME LifeDistinct, LifeIInv, NEW t \in Threads, NEW u \in Life!People, Life!Post(t, u)
    PROVE LifeIInv'
<1> DEFINE w == Life!Begin(t, "post", u)
<1>1. w \in LifeRequest /\ w.op = "post" /\ w.at = "read" /\ work' = [work EXCEPT ![t] = w]
  BY LifeBegins DEF Life!Ops, Life!Post
<1> HIDE DEF w
<1>2. Life!TypeOK /\ LifePostsIInv /\ LifeToldIInv /\ LifeKeeps /\ project # None /\ project # Old
  BY LifeLiveIs DEF LifeIInv, Life!Post, Life!Sees
<1>3. work' \in [Threads -> LifeRequest] /\ work'[t] = w /\ \A o \in Threads : o # t => work'[o] = work[o]
  BY <1>1, <1>2, LifeServes
<1>4. UNCHANGED <<project, posts, likes, told, doubled>>
  BY DEF Life!Post
<1>5. met' \in BOOLEAN /\ (~met' => \A s \in Threads : work[s].op # "delete")
  BY <1>2, Zenon DEF Life!Post, Life!Meets, Life!TypeOK
<1>6. Life!TypeOK'
  BY <1>2, <1>3, <1>4, <1>5 DEF Life!TypeOK, LifeRequest
<1>7. LifePostsIInv'
  <2>1. LifeBounded' /\ Life!PostsLeave'
    BY <1>2, <1>4 DEF LifeBounded, Life!PostsLeave
  <2>2. ~met' => \A s \in Threads : work'[s].op # "delete"
    BY <1>1, <1>3, <1>5
  <2>3. LifeCalm'
    BY <2>2 DEF LifeCalm, LifeTakesAll
  <2>4. QED BY <2>1, <2>3 DEF LifePostsIInv
<1>8. LifeToldIInv'
  BY <1>1, <1>2, <1>4, LifeToldStays
<1>9. LifeKeeps'
  BY <1>1, <1>2, LifeEditorsKeep
<1>10. QED BY <1>6, <1>7, <1>8, <1>9 DEF LifeIInv

LEMMA LifeInsertPostKeeps ==
    ASSUME LifeDistinct, LifeIInv, NEW t \in Threads, Life!InsertPost(t)
    PROVE LifeIInv'
<1>1. work[t] \in LifeRequest /\ work[t].op = "post" /\ likes' \subseteq Fans
      /\ UNCHANGED <<project, posts, told, met, doubled>>
  BY LifeWorkIs DEF LifeIInv, Life!InsertPost, Life!Is, Life!TypeOK
<1>2. CASE Life!Live
  <2>1. PICK w \in LifeRequest : w = [work[t] EXCEPT !.at = "held"]
    BY <1>1 DEF LifeRequest
  <2>2. w.op = "post" /\ work' = [work EXCEPT ![t] = w] /\ project # None /\ project # Old
    BY <1>1, <1>2, <2>1, LifeLiveIs DEF Life!InsertPost, LifeRequest
  <2>3. w.op \in Life!Adds => work[t].op \in Life!Adds
    BY <1>1 DEF Life!Adds
  <2>4. w.op \notin {"delete", "share", "like", "update"}
    BY <2>2
  <2>5. QED BY <1>1, <2>1, <2>2, <2>3, <2>4, LifeGoes
<1>3. CASE ~Life!Live
  BY <1>1, <1>3, LifeFinishGoes DEF Life!InsertPost
<1>4. QED BY <1>2, <1>3

(* A step of a like or a share: the posts and the project stay.            *)
LEMMA LifeOnlyTells ==
    ASSUME LifeDistinct, LifeIInv, NEW t \in Threads, NEW w \in LifeRequest, work' = [work EXCEPT ![t] = w],
           w.op \in {"none", "like", "share"}, UNCHANGED <<project, posts, met>>,
           project = None => w = Life!Idle, project = Old => w.at # "held",
           likes' \subseteq Fans, told' \in [Life!Kinds \X Fans -> Nat], doubled' \in BOOLEAN,
           LifeToldIInv'
    PROVE  LifeIInv'
<1>1. Life!TypeOK /\ LifePostsIInv /\ LifeKeeps
  BY DEF LifeIInv
<1>2. work' \in [Threads -> LifeRequest]
  BY <1>1, LifeServes
<1>3. Life!TypeOK'
  BY <1>1, <1>2 DEF Life!TypeOK, LifeRequest
<1>4. w.op \notin {"delete", "update"} /\ w.op \notin Life!Adds
  BY DEF Life!Adds
<1>5. LifePostsIInv'
  BY <1>1, <1>4, LifePostsStay
<1>6. LifeKeeps'
  BY <1>1, <1>4, LifeEditorsKeep
<1>7. QED BY <1>3, <1>5, <1>6 DEF LifeIInv

LEMMA LifeInsertLikeKeeps ==
    ASSUME LifeDistinct, LifeIInv, NEW t \in Threads, Life!InsertLike(t)
    PROVE LifeIInv'
<1>1. Life!TypeOK /\ LifeToldIInv /\ work[t] \in LifeRequest /\ work[t].op = "like" /\ likes' \subseteq Fans
      /\ UNCHANGED <<project, posts, likes, told, met, doubled>>
  BY LifeWorkIs DEF LifeIInv, Life!InsertLike, Life!Is, Life!TypeOK
<1>2. CASE Life!MayInsertLike(t)
  <2> DEFINE u == work[t].by
             tell == told[<<"like", u>>] = 0
  <2>1. u \in Fans /\ tell \in BOOLEAN
    BY <1>1 DEF LifeToldIInv, LifeByFans
  <2> HIDE DEF tell
  <2>2. PICK half \in LifeRequest : half = [work[t] EXCEPT !.at = "held"]
    BY <1>1 DEF LifeRequest
  <2>3. PICK w \in LifeRequest : w = [half EXCEPT !.tell = tell]
    BY <2>1, <2>2 DEF LifeRequest
  <2>4. work' = [work EXCEPT ![t] = w]
    BY <1>1, <1>2, <2>2, <2>3 DEF Life!InsertLike, tell, LifeRequest
  <2>5. w.op = "like" /\ w.at = "held" /\ w.by = u /\ w.tell = tell
    BY <1>1, <2>2, <2>3 DEF LifeRequest
  <2>6. work'[t] = w /\ \A o \in Threads : o # t => work'[o] = work[o]
    BY <1>1, <2>3, <2>4, LifeServes
  <2>7. LifeByFans'
    BY <1>1, <2>1, <2>5, <2>6 DEF LifeToldIInv, LifeByFans
  <2>8. LifeOneHolds'
    <3>1. \A s \in Threads : ~(Life!Is(s, "like", "held") /\ work[s].by = u)
      BY DEF Life!InsertLike, Life!FreeToInsert
    <3>2. QED BY <1>1, <2>5, <2>6, <3>1 DEF LifeToldIInv, LifeOneHolds, Life!Is
  <2>9. LifeLooked'
    <3>1. tell => told[<<"like", u>>] = 0
      BY DEF tell
    <3>2. QED BY <1>1, <2>5, <2>6, <3>1 DEF LifeToldIInv, LifeLooked, Life!Is
  <2>10. LifeOneShares /\ LifeLookedToo => LifeOneShares' /\ LifeLookedToo'
    BY <1>1, <2>5, <2>6 DEF LifeOneShares, LifeLookedToo
  <2>11. LifeShares' /\ Life!ToldOnce'
    BY <1>1, <2>10 DEF LifeToldIInv, LifeShares, Life!ToldOnce
  <2>12. LifeToldIInv'
    BY <2>7, <2>8, <2>9, <2>11 DEF LifeToldIInv
  <2>13. project # None /\ project # Old
    BY <1>2, LifeLiveIs DEF Life!MayInsertLike
  <2>14. told' \in [Life!Kinds \X Fans -> Nat] /\ doubled' \in BOOLEAN
    BY <1>1 DEF Life!TypeOK
  <2>15. w.op \in {"none", "like", "share"}
    BY <2>5
  <2>16. QED BY <1>1, <2>3, <2>4, <2>12, <2>13, <2>14, <2>15, LifeOnlyTells
<1>3. CASE ~Life!MayInsertLike(t)
  BY <1>1, <1>3, LifeFinishGoes DEF Life!InsertLike
<1>4. QED BY <1>2, <1>3

LEMMA LifeCommitLikeKeeps ==
    ASSUME LifeDistinct, LifeIInv, NEW t \in Threads, Life!CommitLike(t)
    PROVE LifeIInv'
<1> DEFINE w == Life!Idle
           u == work[t].by
           more == work[t].tell
<1>1. w \in LifeRequest /\ w.op = "none" /\ w.at = "idle" /\ work' = [work EXCEPT ![t] = w] /\ w = Life!Idle
  BY LifeIdleIs DEF Life!CommitLike, Life!Finish
<1>2. Life!TypeOK /\ LifeToldIInv /\ work[t] \in LifeRequest /\ Life!Is(t, "like", "held")
      /\ UNCHANGED <<project, posts, met, doubled>>
  BY LifeWorkIs DEF LifeIInv, Life!CommitLike
<1>3. u \in Fans /\ more \in BOOLEAN
  BY <1>2 DEF LifeToldIInv, LifeByFans, Life!Is, LifeRequest
<1>4. told' = [told EXCEPT ![<<"like", u>>] = @ + (IF more THEN 1 ELSE 0)] /\ likes' = likes \cup {u}
  BY DEF Life!CommitLike
<1>5. more => told[<<"like", u>>] = 0
  BY <1>2 DEF LifeToldIInv, LifeLooked
<1> HIDE DEF w, more
<1>6. /\ told' \in [Life!Kinds \X Fans -> Nat]
      /\ told'[<<"like", u>>] = told[<<"like", u>>] + (IF more THEN 1 ELSE 0)
      /\ \A j \in Life!Kinds, v \in Fans : <<j, v>> # <<"like", u>> => told'[<<j, v>>] = told[<<j, v>>]
  <2>1. "like" \in Life!Kinds
    BY DEF Life!Kinds
  <2>2. QED BY <1>2, <1>3, <1>4, <2>1, LifeToldMore
<1>7. /\ \A v \in Fans : v # u => told'[<<"like", v>>] = told[<<"like", v>>]
      /\ \A v \in Fans : told'[<<"share", v>>] = told[<<"share", v>>]
  BY <1>6 DEF Life!Kinds
<1>8. work'[t] = w /\ \A o \in Threads : o # t => work'[o] = work[o]
  BY <1>1, <1>2, LifeServes
<1>9. LifeByFans' /\ LifeOneHolds'
  BY <1>1, <1>2, <1>8 DEF LifeToldIInv, LifeByFans, LifeOneHolds, Life!Is
<1>10. LifeLooked'
  <2> SUFFICES ASSUME NEW s \in Threads, Life!Is(s, "like", "held")', work'[s].tell
               PROVE told'[<<"like", work'[s].by>>] = 0
    BY DEF LifeLooked
  <2>1. s # t /\ work'[s] = work[s]
    BY <1>1, <1>8 DEF Life!Is
  <2>2. Life!Is(s, "like", "held") /\ work[s].tell
    BY <2>1 DEF Life!Is
  <2>3. work[s].by # u /\ work[s].by \in Fans /\ told[<<"like", work[s].by>>] = 0
    BY <1>2, <2>1, <2>2 DEF LifeToldIInv, LifeByFans, LifeOneHolds, LifeLooked, Life!Is
  <2>4. QED BY <1>7, <2>1, <2>3
<1>11. LifeOneShares /\ LifeLookedToo => LifeOneShares' /\ LifeLookedToo'
  <2> SUFFICES ASSUME LifeOneShares, LifeLookedToo PROVE LifeOneShares' /\ LifeLookedToo'
    OBVIOUS
  <2>1. LifeOneShares'
    BY <1>1, <1>8 DEF LifeOneShares
  <2>2. ASSUME NEW s \in Threads, work'[s].op = "share", work'[s].tell
        PROVE told'[<<"share", work'[s].by>>] = 0
    <3>1. s # t /\ work'[s] = work[s]
      BY <1>1, <1>8, <2>2
    <3>2. work[s].by \in Fans /\ told[<<"share", work[s].by>>] = 0
      BY <1>2, <2>2, <3>1 DEF LifeToldIInv, LifeByFans, LifeLookedToo
    <3>3. QED BY <1>7, <3>1, <3>2
  <2>3. QED BY <2>1, <2>2 DEF LifeLookedToo
<1>12. LifeShares'
  BY <1>2, <1>11 DEF LifeToldIInv, LifeShares
<1>13. \A v \in Fans : told[<<"like", v>>] \in Nat /\ told[<<"like", v>>] <= 1
  BY <1>2, LifeToldIs DEF LifeToldIInv, Life!ToldOnce, Life!TypeOK
<1>14. told'[<<"like", u>>] <= 1
  BY <1>3, <1>5, <1>6, <1>13
<1>15. Life!ToldOnce'
  BY <1>2, <1>7, <1>13, <1>14 DEF LifeToldIInv, Life!ToldOnce
<1>16. LifeToldIInv'
  BY <1>9, <1>10, <1>12, <1>15 DEF LifeToldIInv
<1>17. likes' \subseteq Fans /\ doubled' \in BOOLEAN
  BY <1>2, <1>3, <1>4 DEF Life!TypeOK
<1>18. w.op \in {"none", "like", "share"} /\ w.at # "held"
  BY <1>1
<1>19. QED BY <1>1, <1>2, <1>6, <1>16, <1>17, <1>18, LifeOnlyTells

LEMMA LifeShareKeeps ==
    ASSUME LifeDistinct, LifeIInv, NEW t \in Threads, NEW u \in Fans, Life!Share(t, u)
    PROVE LifeIInv'
<1> DEFINE tell == told[<<"share", u>>] = 0
<1>1. Life!TypeOK /\ LifeToldIInv /\ u \in Life!People /\ "share" \in Life!Ops /\ tell \in BOOLEAN
  BY DEF LifeIInv, LifeDistinct, Life!Ops
<1>2. UNCHANGED <<project, posts, likes, told, met>>
  BY DEF Life!Share
<1> DEFINE fresh == Life!Begin(t, "share", u)
<1>3. fresh \in LifeRequest /\ fresh.op = "share" /\ fresh.by = u /\ fresh.at = "read"
  BY <1>1, LifeBegins
<1>4. work' = [work EXCEPT ![t] = [fresh EXCEPT !.tell = tell]]
  BY DEF Life!Share
<1> HIDE DEF fresh, tell
<1>5. PICK w \in LifeRequest : w = [fresh EXCEPT !.tell = tell]
  BY <1>1, <1>3 DEF LifeRequest
<1>6. w.op = "share" /\ w.by = u /\ w.at = "read" /\ w.tell = tell
  BY <1>3, <1>5 DEF LifeRequest
<1>7. work' = [work EXCEPT ![t] = w]
  BY <1>4, <1>5
<1>8. work'[t] = w /\ \A o \in Threads : o # t => work'[o] = work[o]
  BY <1>1, <1>7, LifeServes
<1>9. LifeByFans' /\ LifeOneHolds' /\ LifeLooked'
  BY <1>1, <1>2, <1>6, <1>8 DEF LifeToldIInv, LifeByFans, LifeOneHolds, LifeLooked, Life!Is
<1>10. /\ doubled' \in BOOLEAN /\ (~doubled' => ~doubled)
       /\ ~doubled' => \A s \in Threads : ~(work[s].op = "share" /\ work[s].by = u)
  BY <1>1, Zenon DEF Life!Share, Life!TypeOK
<1>11. ASSUME ~doubled' PROVE LifeOneShares' /\ LifeLookedToo'
  <2>1. LifeOneShares /\ LifeLookedToo
    BY <1>1, <1>10, <1>11 DEF LifeToldIInv, LifeShares
  <2>2. LifeOneShares'
    BY <1>6, <1>8, <1>10, <1>11, <2>1 DEF LifeOneShares
  <2>3. tell => told[<<"share", u>>] = 0
    BY DEF tell
  <2>4. LifeLookedToo'
    BY <1>2, <1>6, <1>8, <2>1, <2>3 DEF LifeLookedToo
  <2>5. QED BY <2>2, <2>4
<1>12. LifeShares' /\ Life!ToldOnce'
  BY <1>1, <1>2, <1>10, <1>11 DEF LifeToldIInv, LifeShares, Life!ToldOnce
<1>13. LifeToldIInv'
  BY <1>9, <1>12 DEF LifeToldIInv
<1>14. project # None /\ likes' \subseteq Fans /\ told' \in [Life!Kinds \X Fans -> Nat]
  BY <1>1, <1>2, LifeLiveIs DEF Life!Share, Life!Sees, Life!TypeOK
<1>15. w.op \in {"none", "like", "share"} /\ w.at # "held"
  BY <1>6
<1>16. QED BY <1>2, <1>7, <1>10, <1>13, <1>14, <1>15, LifeOnlyTells

LEMMA LifeCommitShareKeeps ==
    ASSUME LifeDistinct, LifeIInv, NEW t \in Threads, Life!CommitShare(t)
    PROVE LifeIInv'
<1> DEFINE w == Life!Idle
           u == work[t].by
           more == work[t].tell
<1>1. w \in LifeRequest /\ w.op = "none" /\ w.at = "idle" /\ work' = [work EXCEPT ![t] = w] /\ w = Life!Idle
  BY LifeIdleIs DEF Life!CommitShare, Life!Finish
<1>2. Life!TypeOK /\ LifeToldIInv /\ work[t] \in LifeRequest /\ work[t].op = "share"
      /\ UNCHANGED <<project, posts, likes, met, doubled>>
  BY LifeWorkIs DEF LifeIInv, Life!CommitShare, Life!Is
<1>3. u \in Fans /\ more \in BOOLEAN
  BY <1>2 DEF LifeToldIInv, LifeByFans, LifeRequest
<1>4. told' = [told EXCEPT ![<<"share", u>>] = @ + (IF more THEN 1 ELSE 0)]
  BY DEF Life!CommitShare
<1>5. ~doubled /\ more => told[<<"share", u>>] = 0
  BY <1>2 DEF LifeToldIInv, LifeShares, LifeLookedToo
<1> HIDE DEF w, more
<1>6. /\ told' \in [Life!Kinds \X Fans -> Nat]
      /\ told'[<<"share", u>>] = told[<<"share", u>>] + (IF more THEN 1 ELSE 0)
      /\ \A j \in Life!Kinds, v \in Fans : <<j, v>> # <<"share", u>> => told'[<<j, v>>] = told[<<j, v>>]
  <2>1. "share" \in Life!Kinds
    BY DEF Life!Kinds
  <2>2. QED BY <1>2, <1>3, <1>4, <2>1, LifeToldMore
<1>7. /\ \A v \in Fans : v # u => told'[<<"share", v>>] = told[<<"share", v>>]
      /\ \A v \in Fans : told'[<<"like", v>>] = told[<<"like", v>>]
  BY <1>6 DEF Life!Kinds
<1>8. work'[t] = w /\ \A o \in Threads : o # t => work'[o] = work[o]
  BY <1>1, <1>2, LifeServes
<1>9. LifeByFans' /\ LifeOneHolds'
  BY <1>1, <1>2, <1>8 DEF LifeToldIInv, LifeByFans, LifeOneHolds, Life!Is
<1>10. LifeLooked'
  <2> SUFFICES ASSUME NEW s \in Threads, Life!Is(s, "like", "held")', work'[s].tell
               PROVE told'[<<"like", work'[s].by>>] = 0
    BY DEF LifeLooked
  <2>1. s # t /\ work'[s] = work[s]
    BY <1>1, <1>8 DEF Life!Is
  <2>2. work[s].by \in Fans /\ told[<<"like", work[s].by>>] = 0
    BY <1>2, <2>1 DEF LifeToldIInv, LifeByFans, LifeLooked, Life!Is
  <2>3. QED BY <1>7, <2>1, <2>2
<1>11. ASSUME ~doubled PROVE LifeOneShares' /\ LifeLookedToo'
  <2>1. LifeOneShares /\ LifeLookedToo
    BY <1>2, <1>11 DEF LifeToldIInv, LifeShares
  <2>2. LifeOneShares'
    BY <1>1, <1>8, <2>1 DEF LifeOneShares
  <2>3. ASSUME NEW s \in Threads, work'[s].op = "share", work'[s].tell
        PROVE told'[<<"share", work'[s].by>>] = 0
    <3>1. s # t /\ work'[s] = work[s]
      BY <1>1, <1>8, <2>3
    <3>2. work[s].by \in Fans /\ told[<<"share", work[s].by>>] = 0 /\ work[s].by # u
      BY <1>2, <2>1, <2>3, <3>1 DEF LifeToldIInv, LifeByFans, LifeLookedToo, LifeOneShares
    <3>3. QED BY <1>7, <3>1, <3>2
  <2>4. QED BY <2>2, <2>3 DEF LifeLookedToo
<1>12. doubled' = doubled /\ (~doubled' => LifeOneShares' /\ LifeLookedToo')
  BY <1>11 DEF Life!CommitShare
<1>13. LifeShares'
  BY <1>12 DEF LifeShares
<1>14. \A v \in Fans : /\ told[<<"share", v>>] \in Nat /\ told[<<"like", v>>] <= 1
                       /\ ~doubled => told[<<"share", v>>] <= 1
  BY <1>2, LifeToldIs DEF LifeToldIInv, Life!ToldOnce, Life!TypeOK
<1>15. told[<<"share", u>>] \in Nat /\ (~doubled => told[<<"share", u>>] <= 1)
  BY <1>3, <1>14
<1>16. ~doubled => told'[<<"share", u>>] <= 1
  BY <1>5, <1>6, <1>15
<1>17. ASSUME NEW v \in Fans PROVE told'[<<"like", v>>] <= 1 /\ (~doubled => told'[<<"share", v>>] <= 1)
  BY <1>7, <1>14, <1>16
<1>18. Life!ToldOnce'
  BY <1>12, <1>17 DEF Life!ToldOnce
<1>19. LifeToldIInv'
  BY <1>9, <1>10, <1>13, <1>18 DEF LifeToldIInv
<1>20. likes' \subseteq Fans /\ doubled' \in BOOLEAN
  BY <1>2, <1>12 DEF Life!TypeOK
<1>21. w.op \in {"none", "like", "share"} /\ w.at # "held"
  BY <1>1
<1>22. QED BY <1>1, <1>2, <1>6, <1>19, <1>20, <1>21, LifeOnlyTells

(* The steps that end a request, or begin one that waits.                  *)
LEMMA LifeSmallKeeps ==
    ASSUME LifeDistinct, LifeIInv, NEW t \in Threads,
           \/ \E u \in Life!People : Life!DeletePost(t, u)
           \/ \E u \in Fans : Life!Like(t, u) \/ Life!Unlike(t, u)
           \/ Life!CommitUnpost(t) \/ Life!CommitUnlike(t)
    PROVE  LifeIInv'
<1>1. posts \subseteq Life!Posts /\ likes \subseteq Fans /\ Fans \subseteq Life!People
  BY DEF LifeIInv, Life!TypeOK, LifeDistinct
<1>2. ASSUME NEW u \in Life!People, Life!DeletePost(t, u) PROVE LifeIInv'
  <2>1. project # None
    BY <1>2 DEF LifeIInv, LifePostsIInv, LifeBounded, Life!DeletePost
  <2>2. QED BY <1>2, <2>1, LifeBeginGoes DEF Life!DeletePost
<1>3. ASSUME NEW u \in Fans, Life!Like(t, u) \/ Life!Unlike(t, u) PROVE LifeIInv'
  <2>1. u \in Life!People /\ project # None
    BY <1>1, <1>3, LifeLiveIs DEF Life!Like, Life!Unlike, Life!Sees
  <2>2. QED BY <1>3, <2>1, LifeBeginGoes DEF Life!Like, Life!Unlike
<1>4. ASSUME Life!CommitUnpost(t) PROVE LifeIInv'
  BY <1>1, <1>4, LifeFinishGoes DEF Life!CommitUnpost
<1>5. ASSUME Life!CommitUnlike(t) PROVE LifeIInv'
  BY <1>1, <1>5, LifeFinishGoes DEF Life!CommitUnlike
<1>6. QED BY <1>2, <1>3, <1>4, <1>5

LEMMA LifeNextIInv == ASSUME LifeDistinct, LifeIInv, [Life!Next]_Life!vars PROVE LifeIInv'
<1>1. CASE UNCHANGED Life!vars
  BY <1>1 DEF Life!vars, LifeIInv, Life!TypeOK, LifePostsIInv, LifeBounded, LifeCalm, LifeTakesAll,
     Life!PostsLeave, LifeToldIInv,
              LifeByFans, LifeOneHolds, LifeLooked, LifeShares, LifeOneShares, LifeLookedToo,
              Life!ToldOnce, LifeKeeps, Life!Is
<1>2. CASE Life!Next
  <2>1. PICK t \in Threads :
           \/ \E public \in BOOLEAN : Life!Create(t, public)
           \/ \E u \in Life!People, want \in Life!Rows : Life!Update(t, u, want)
           \/ Life!AddEntry(t) \/ Life!Save(t) \/ Life!Delete(t) \/ Life!CommitDelete(t)
           \/ \E u \in Life!People : Life!Post(t, u) \/ Life!DeletePost(t, u)
           \/ \E u \in Fans : Life!Like(t, u) \/ Life!Unlike(t, u) \/ Life!Share(t, u)
           \/ Life!InsertPost(t) \/ Life!CommitPost(t) \/ Life!CommitUnpost(t)
           \/ Life!InsertLike(t) \/ Life!CommitLike(t) \/ Life!CommitUnlike(t) \/ Life!CommitShare(t)
    BY <1>2 DEF Life!Next
  <2>2. CASE \E public \in BOOLEAN : Life!Create(t, public)
    BY <2>2, LifeCreateKeeps
  <2>3. CASE \E u \in Life!People, want \in Life!Rows : Life!Update(t, u, want)
    BY <2>3, LifeUpdateKeeps
  <2>4. CASE Life!AddEntry(t) \/ Life!Save(t) \/ Life!Delete(t) \/ Life!CommitDelete(t)
    BY <2>4, LifeAddEntryKeeps, LifeSaveKeeps, LifeDeleteKeeps, LifeCommitDeleteKeeps
  <2>5. CASE \E u \in Life!People : Life!Post(t, u)
    BY <2>5, LifePostKeeps
  <2>6. CASE \/ \E u \in Life!People : Life!DeletePost(t, u)
             \/ \E u \in Fans : Life!Like(t, u) \/ Life!Unlike(t, u)
             \/ Life!CommitUnpost(t) \/ Life!CommitUnlike(t)
    BY <2>6, LifeSmallKeeps
  <2>7. CASE \E u \in Fans : Life!Share(t, u)
    BY <2>7, LifeShareKeeps
  <2>8. CASE Life!InsertPost(t) \/ Life!CommitPost(t) \/ Life!InsertLike(t) \/ Life!CommitLike(t) \/ Life!CommitShare(t)
    BY <2>8, LifeInsertPostKeeps, LifeCommitPostKeeps, LifeInsertLikeKeeps, LifeCommitLikeKeeps,
       LifeCommitShareKeeps
  <2>9. QED BY <2>1, <2>2, <2>3, <2>4, <2>5, <2>6, <2>7, <2>8
<1>3. QED BY <1>1, <1>2

LEMMA LifeIsSound == ASSUME LifeIInv PROVE Life!TypeOK /\ Life!LifeHolds
BY DEF LifeIInv, LifePostsIInv, LifeToldIInv, Life!LifeHolds

(* A step that changes the row is the end of one of the owner's saves.     *)
LEMMA LifeOnlyOwnerChanges ==
    ASSUME LifeDistinct, LifeIInv, [Life!Next]_Life!vars, Life!Live, Life!Live', project' # project
    PROVE  \E t \in Threads : Life!Is(t, "update", "read") /\ work[t].by = Owner /\ work'[t] = Life!Idle
<1>1. PICK t \in Threads : Life!Save(t)
  BY LifeLiveIs DEF Life!Next, Life!vars, Life!Create, Life!Update, Life!AddEntry, Life!Delete,
     Life!CommitDelete, Life!Post, Life!DeletePost, Life!Like,
                    Life!Unlike, Life!Share, Life!InsertPost, Life!CommitPost, Life!CommitUnpost,
                    Life!InsertLike, Life!CommitLike,
                    Life!CommitUnlike, Life!CommitShare, Life!Live, LifeDistinct
<1>2. Life!TypeOK /\ LifeKeeps /\ work[t] \in LifeRequest /\ work[t].op = "update"
  BY <1>1, LifeWorkIs DEF LifeIInv, Life!Save, Life!Is
<1>3. work[t].saw \in Life!Rows /\ work[t].want \in Life!Rows /\ project \in Life!Rows
  BY <1>2 DEF LifeRequest, Life!Live
<1>4. project' = Life!Changed(project, work[t].saw, work[t].want)
  BY <1>1 DEF Life!Save
<1>5. work[t].by = Owner
  BY <1>2, <1>3, <1>4, LifeChangedIs DEF LifeKeeps
<1>6. work'[t] = Life!Idle
  BY <1>1, <1>2, LifeIdleIs, LifeServes DEF Life!Save, Life!Finish
<1>7. QED BY <1>1, <1>5, <1>6 DEF Life!Save

(* A behaviour of the composition is one of Life, with steps that leave it *)
(* alone.                                                                  *)
LEMMA LifeSpec == WorkspaceSpec => Life!Spec
<1>1. WorkspaceInit => Life!Init
  BY DEF WorkspaceInit
<1>2. [WorkspaceNext]_workspaceVars => [Life!Next]_Life!vars
  BY DEF WorkspaceNext, workspaceVars, lifeVars, Life!vars
<1>3. QED BY <1>1, <1>2, PTL DEF WorkspaceSpec, Life!Spec

LEMMA LifeInvariant == WorkspaceSpec => []LifeIInv
<1>1. Life!Init => LifeIInv
  BY LifeInitIInv, NamesAssumption DEF LifeDistinct
<1>2. LifeIInv /\ [Life!Next]_Life!vars => LifeIInv'
  BY LifeNextIInv, NamesAssumption DEF LifeDistinct
<1>3. QED BY <1>1, <1>2, LifeSpec, PTL DEF Life!Spec

(* However requests about a project overlap: a deletion that met nothing   *)
(* that adds a post leaves none, and the owner is told of one person's     *)
(* likes once, and of shares that do not overlap once.                     *)
THEOREM LifeHoldsAlways == WorkspaceSpec => []LifeHolds
<1>1. LifeIInv => LifeHolds
  BY LifeIsSound DEF LifeHolds
<1>2. QED BY <1>1, LifeInvariant, PTL

(* Only a save of the owner changes who can see or comment                 *)
(* (projects.py:569).                                                      *)
THEOREM VisibilityByOwnerAlways == WorkspaceSpec => VisibilityByOwner
<1>1. LifeIInv /\ [Life!Next]_Life!vars =>
          [(Life!Live /\ Life!Live' /\ project' # project) =>
             \E t \in Threads : Life!Is(t, "update", "read") /\ work[t].by = Owner /\ work'[t] = Life!Idle]_Life!vars
  BY LifeOnlyOwnerChanges, NamesAssumption DEF LifeDistinct
<1>2. QED BY <1>1, LifeInvariant, LifeSpec, PTL DEF Life!Spec, VisibilityByOwner, Life!VisibilityByOwner

-----------------------------------------------------------------------------
(* The parts together.                                                     *)
Parts == {"commit", "install", "import", "life", "read", "media"}

LEMMA PartStays == WorkspaceSpec => [](part \in Parts)
<1>1. WorkspaceInit => part \in Parts
  BY DEF WorkspaceInit, Parts
<1>2. part \in Parts /\ [WorkspaceNext]_workspaceVars => (part \in Parts)'
  BY DEF WorkspaceNext, workspaceVars
<1>3. QED BY <1>1, <1>2, PTL DEF WorkspaceSpec

LEMMA CommitSpec == WorkspaceSpec => Spec
<1>1. WorkspaceInit => Init
  BY DEF WorkspaceInit
<1>2. [WorkspaceNext]_workspaceVars => [Next]_vars
  BY DEF WorkspaceNext, workspaceVars, vars
<1>3. QED BY <1>1, <1>2, PTL DEF WorkspaceSpec, Spec

(* Each part that moves keeps its rows, its requests and what it counts of *)
(* their kinds.                                                            *)
THEOREM TypesHold == WorkspaceSpec => []PartsTypeOK
<1>1. SourceIInv => Source!TypeOK
  BY DEF SourceIInv
<1>2. ImportIInv => Import!TypeOK
  BY DEF ImportIInv
<1>3. LifeIInv => Life!TypeOK
  BY LifeIsSound
<1>4. ViewIInv => View!TypeOK
  BY DEF ViewIInv
<1>5. UploadsIInv => Uploads!TypeOK
  BY DEF UploadsIInv
<1>6. /\ part \in Parts /\ TypeOK /\ Source!TypeOK /\ Import!TypeOK /\ Life!TypeOK
      /\ View!TypeOK /\ Uploads!TypeOK
      => PartsTypeOK
  BY DEF PartsTypeOK, Parts
<1>7. QED BY <1>1, <1>2, <1>3, <1>4, <1>5, <1>6, PartStays, CommitSpec, TypeCorrect, SourceInvariant,
             ImportInvariant, LifeInvariant, ViewInvariant, UploadsInvariant, PTL
=============================================================================
