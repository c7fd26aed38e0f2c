------------------------ MODULE WorkspaceCommitProofs ------------------------
(***************************************************************************)
(* For any number of threads, files, keys and commits: the workspace        *)
(* implements Branch (no commit replaces what its author has not seen), a   *)
(* second commit under one key is one of a file somebody has put back, and  *)
(* every commit made is recorded, in hand, or lost to a request cut short.  *)
(***************************************************************************)
EXTENDS WorkspaceCommit, TLAPS

-----------------------------------------------------------------------------
(* The branch and what the author composed.                                *)

(* A commit was composed on a head the branch has had; while it is the head *)
(* still, the files are those the author saw; he saw nothing under its key. *)
Composition ==
    \A k \in Keys : composed[k].kind # "none" =>
        /\ composed[k].parent <= Len(log)
        /\ composed[k].parent = Len(log) => blob = composed[k].base
        /\ \A p \in Paths : composed[k].base[p] # k

(* A key nobody has composed for names nothing.                            *)
Unused ==
    \A k \in Keys : composed[k].kind = "none" =>
        /\ \A p \in Paths : blob[p] # k
        /\ \A i \in 1..Len(log) : log[i].key # k

(* A commit made here came after its parent and touched what it said.      *)
Logged ==
    \A i \in 1..Len(log) : log[i].key \in Keys =>
        /\ composed[log[i].key].parent < i
        /\ log[i].paths = composed[log[i].key].paths

(* What a commit wrote stays until another commit touches the file.        *)
Latest ==
    \A i \in 1..Len(log) : log[i].key \in Keys =>
        \A p \in log[i].paths : blob[p] = log[i].key \/ Touched(p, i, Len(log) + 1)

BranchInv == Composition /\ Unused /\ Logged /\ Latest /\ CommitsOnce

-----------------------------------------------------------------------------
(* The requests.                                                           *)

(* A request serves a commit that was composed; it holds a commit exactly   *)
(* from its write on, one of its key, and after its audit there is a row.   *)
Serves(t) ==
    /\ tx[t].pc \notin {"idle", "save"} =>
           /\ tx[t].key \in Keys /\ composed[tx[t].key].kind # "none"
           /\ tx[t].paths = composed[tx[t].key].paths
    /\ tx[t].pc \in {"audit", "finish", "enqueue"} =>
           /\ tx[t].at \in 1..Len(log) /\ log[tx[t].at].key = tx[t].key
    /\ tx[t].pc \notin {"audit", "finish", "enqueue"} => tx[t].at = 0
    /\ tx[t].pc \in {"finish", "enqueue"} => audit[tx[t].key] # 0
Served == \A t \in Threads : Serves(t)

(* One request at most holds the lock of a draft.                          *)
OneLock == \A t, u \in Threads, p \in Paths : (LockedBy(t, p) /\ LockedBy(u, p)) => t = u

IInv == TypeOK /\ BranchInv /\ Served /\ OneLock /\ Recorded

-----------------------------------------------------------------------------
(* The branch grows by one commit.                                         *)
LEMMA Grows ==
    ASSUME TypeOK, NEW k \in Keys \cup {Outside}, NEW paths \in SUBSET Paths, NEW text \in Contents,
           Grow(k, paths, text)
    PROVE  /\ log' \in Seq(Commit) /\ Len(log') = Len(log) + 1 /\ Len(log') <= MaxCommits
           /\ \A i \in 1..Len(log) : log'[i] = log[i]
           /\ log'[Len(log) + 1].key = k /\ log'[Len(log) + 1].paths = paths
           /\ blob' \in [Paths -> Contents]
           /\ \A p \in Paths : blob'[p] = IF p \in paths THEN text ELSE blob[p]
<1> DEFINE c == [key |-> k, paths |-> paths]
<1>1. c \in Commit /\ c.key = k /\ c.paths = paths
  BY DEF Commit
<1>2. log' = Append(log, c) /\ Len(log) < MaxCommits
  BY DEF Grow
<1> HIDE DEF c
<1>3. /\ log' \in Seq(Commit) /\ Len(log') = Len(log) + 1 /\ Len(log') <= MaxCommits
      /\ \A i \in 1..Len(log) : log'[i] = log[i]
      /\ log'[Len(log) + 1] = c
  BY <1>1, <1>2, MaxCommitsAssumption DEF TypeOK
<1>4. /\ blob' \in [Paths -> Contents]
      /\ \A p \in Paths : blob'[p] = IF p \in paths THEN text ELSE blob[p]
  BY DEF Grow, TypeOK
<1>5. QED BY <1>1, <1>3, <1>4

(* The commits of before were touched where they were, and what the new     *)
(* one touches counts as touched for all of them.                           *)
LEMMA TouchedGrows ==
    ASSUME TypeOK, NEW k \in Keys \cup {Outside}, NEW paths \in SUBSET Paths, NEW text \in Contents,
           Grow(k, paths, text), NEW p, NEW i \in 1..Len(log)
    PROVE  /\ \A j \in 1..(Len(log) + 1) : Touched(p, i, j)' <=> Touched(p, i, j)
           /\ Touched(p, i, Len(log) + 1) => Touched(p, i, Len(log) + 1)'
           /\ p \in paths => Touched(p, i, Len(log) + 1)'
<1>0. Len(log) \in Nat
  BY DEF TypeOK
<1>1. /\ \A c \in 1..Len(log) : log'[c] = log[c]
      /\ Len(log') = Len(log) + 1 /\ log'[Len(log) + 1].paths = paths
  BY Grows
<1>2. ASSUME NEW j \in 1..(Len(log) + 1) PROVE Touched(p, i, j)' <=> Touched(p, i, j)
  <2>1. \A c \in (i + 1)..(j - 1) : c \in 1..Len(log)
    BY <1>0, <1>1
  <2>2. QED BY <1>1, <2>1 DEF Touched
<1>3. \A c \in (i + 1)..(Len(log) + 1 - 1) : c \in 1..Len(log) /\ c \in (i + 1)..(Len(log) + 2 - 1)
  BY <1>0, <1>1
<1>4. Len(log) + 1 \in (i + 1)..(Len(log) + 2 - 1)
  BY <1>0, <1>1
<1>5. Len(log') + 1 = Len(log) + 2
  BY <1>0, <1>1
<1>6. ASSUME Touched(p, i, Len(log) + 1) PROVE Touched(p, i, Len(log) + 1)'
  <2>1. PICK c \in (i + 1)..(Len(log) + 1 - 1) : p \in log[c].paths
    BY <1>6 DEF Touched
  <2>2. p \in log'[c].paths /\ c \in (i + 1)..(Len(log') + 1 - 1)
    BY <1>1, <1>3, <1>5, <2>1
  <2>3. QED BY <2>2 DEF Touched
<1>7. ASSUME p \in paths PROVE Touched(p, i, Len(log) + 1)'
  <2>1. p \in log'[Len(log) + 1].paths /\ Len(log) + 1 \in (i + 1)..(Len(log') + 1 - 1)
    BY <1>1, <1>4, <1>5, <1>7
  <2>2. QED BY <2>1 DEF Touched
<1>8. QED BY <1>2, <1>6, <1>7

(* What holds of the branch survives a push, or a commit that came after    *)
(* its parent and replaces no file that holds it already.                   *)
LEMMA GrowKeeps ==
    ASSUME TypeOK, BranchInv,
           NEW k \in Keys \cup {Outside}, NEW paths \in SUBSET Paths, NEW text \in Contents,
           Grow(k, paths, text), UNCHANGED composed,
           text \in Keys => text = k,
           k \in Keys => /\ text = k
                         /\ composed[k].kind # "none" /\ paths = composed[k].paths
                         /\ composed[k].kind = "many" => composed[k].parent = Len(log)
                         /\ \A p \in paths : blob[p] = composed[k].base[p]
    PROVE  BranchInv'
<1> DEFINE n == Len(log)
<1>0. n \in Nat
  BY DEF TypeOK
<1>1. /\ Len(log') = n + 1
      /\ \A i \in 1..n : log'[i] = log[i]
      /\ log'[n + 1].key = k /\ log'[n + 1].paths = paths
      /\ \A p \in Paths : blob'[p] = IF p \in paths THEN text ELSE blob[p]
  BY Grows
<1>9. ASSUME NEW i \in 1..n PROVE log[i].paths \subseteq Paths
  <2>1. log[i] \in Commit
    BY DEF TypeOK
  <2>2. QED BY <2>1 DEF Commit
<1>2. \A i \in 1..(n + 1) : i \in 1..n \/ i = n + 1
  BY <1>0, <1>1
<1>3. \A l \in Keys : composed[l].parent \in Nat /\ composed[l].kind \in {"none", "one", "many"}
  BY MaxCommitsAssumption DEF TypeOK, Composed
<1>4. Composition'
  BY <1>0, <1>1, <1>3 DEF BranchInv, Composition
<1>5. Unused'
  BY <1>0, <1>1, <1>2 DEF BranchInv, Unused
<1>6. Logged'
  BY <1>0, <1>1, <1>2, <1>3 DEF BranchInv, Logged, Composition
<1>7. Latest'
  <2> SUFFICES ASSUME NEW i \in 1..(n + 1), log'[i].key \in Keys, NEW p \in log'[i].paths
               PROVE  blob'[p] = log'[i].key \/ Touched(p, i, Len(log) + 1)'
    BY <1>0, <1>1 DEF Latest
  <2>1. CASE i = n + 1
    BY <1>0, <1>1, <2>1
  <2>2. CASE i \in 1..n
    <3>1. log'[i] = log[i] /\ p \in Paths
      BY <1>9, <1>1, <2>2
    <3>2. blob[p] = log[i].key \/ Touched(p, i, n + 1)
      BY <2>2, <3>1 DEF BranchInv, Latest
    <3>3. QED BY <1>0, <1>1, <2>2, <3>1, <3>2, TouchedGrows
  <2>3. QED BY <1>2, <2>1, <2>2
<1>8. CommitsOnce'
  <2> SUFFICES ASSUME NEW i \in 1..(n + 1), NEW j \in 1..(n + 1), i < j,
                      log'[i].key = log'[j].key, log'[i].key \in Keys
               PROVE  /\ composed[log'[i].key].kind = "one"
                      /\ \A p \in log'[j].paths : Touched(p, i, j)'
    BY <1>0, <1>1 DEF CommitsOnce
  <2>1. i \in 1..n /\ log'[i] = log[i]
    BY <1>0, <1>1
  <2>2. CASE j \in 1..n
    <3>1. log'[j] = log[j]
      BY <1>0, <1>1, <2>2
    <3>2. /\ composed[log[i].key].kind = "one"
          /\ \A p \in log[j].paths : Touched(p, i, j)
      BY <2>1, <2>2, <3>1 DEF BranchInv, CommitsOnce
    <3>3. \A p : Touched(p, i, j) => Touched(p, i, j)'
      BY <1>0, <1>1, <2>1, TouchedGrows
    <3>4. QED BY <2>1, <3>1, <3>2, <3>3
  <2>3. CASE j = n + 1
    <3>1. log[i].key = k /\ k \in Keys /\ log'[j].paths = paths
      BY <1>0, <1>1, <2>1, <2>3
    <3>2. composed[k].parent < i /\ log[i].paths = paths
      BY <2>1, <3>1 DEF BranchInv, Logged
    <3>3. composed[k].kind = "one"
      BY <1>0, <1>1, <1>3, <2>1, <3>1, <3>2
    <3>4. ASSUME NEW p \in paths PROVE Touched(p, i, n + 1)
      <4>1. blob[p] # k
        BY <3>1 DEF BranchInv, Composition
      <4>2. QED BY <2>1, <3>1, <3>2, <3>4, <4>1 DEF BranchInv, Latest
    <3>5. j \in 1..(Len(log) + 1) /\ j = n + 1 /\ n = Len(log)
      BY <1>0, <1>1, <2>3
    <3>6. \A p : Touched(p, i, j) => Touched(p, i, j)'
      BY <2>1, <3>5, TouchedGrows
    <3>7. QED BY <2>1, <2>3, <3>1, <3>3, <3>4, <3>6
  <2>4. QED BY <1>2, <2>2, <2>3
<1>10. QED BY <1>4, <1>5, <1>6, <1>7, <1>8 DEF BranchInv

(* What the author composes is a commit on the head, of what he saw.       *)
LEMMA ComposeKeeps ==
    ASSUME TypeOK, BranchInv, NEW k \in Keys, NEW kind \in {"one", "many"},
           NEW paths \in SUBSET Paths, Compose(k, kind, paths)
    PROVE  /\ BranchInv' /\ composed' \in [Keys -> Composed] /\ composed[k].kind = "none"
           /\ \A l \in Keys : l # k => composed'[l] = composed[l]
<1> DEFINE c == [kind |-> kind, paths |-> paths, base |-> blob, parent |-> Len(log)]
<1>1. /\ c \in Composed /\ c.kind = kind /\ c.base = blob /\ c.parent = Len(log)
      /\ Len(log) \in Nat
  BY MaxCommitsAssumption DEF TypeOK, Composed
<1>2. composed' = [composed EXCEPT ![k] = c] /\ composed[k].kind = "none" /\ UNCHANGED <<log, blob>>
  BY DEF Compose
<1> HIDE DEF c
<1>3. /\ composed' \in [Keys -> Composed] /\ composed'[k] = c
      /\ \A l \in Keys : l # k => composed'[l] = composed[l]
  BY <1>1, <1>2 DEF TypeOK
<1>4. \A i \in 1..Len(log) : log[i].key # k
  BY <1>2 DEF BranchInv, Unused
<1>5. Composition' /\ Unused'
  BY <1>1, <1>2, <1>3 DEF BranchInv, Composition, Unused
<1>6. Logged' /\ Latest' /\ CommitsOnce'
  BY <1>2, <1>3, <1>4 DEF BranchInv, Logged, Latest, CommitsOnce, Touched
<1>7. QED BY <1>2, <1>3, <1>5, <1>6 DEF BranchInv

LEMMA BranchKept == ASSUME BranchInv, UNCHANGED <<log, blob, composed>> PROVE BranchInv'
BY DEF BranchInv, Composition, Unused, Logged, Latest, CommitsOnce, Touched

-----------------------------------------------------------------------------
LEMMA IdleIsTx == /\ Idle \in Tx /\ Idle.pc = "idle" /\ Idle.key = NoKey /\ Idle.at = 0
                  /\ Idle.paths = {} /\ Idle.had = FALSE
BY MaxCommitsAssumption DEF Idle, Tx

(* A request moves on and keeps what it holds.                             *)
LEMMA Moves ==
    ASSUME TypeOK, NEW t \in Threads, NEW pc \in {"write", "finish", "enqueue"}, Move(t, pc)
    PROVE  /\ tx' \in [Threads -> Tx] /\ tx'[t].pc = pc /\ tx'[t].key = tx[t].key
           /\ tx'[t].at = tx[t].at /\ tx'[t].paths = tx[t].paths /\ tx'[t].had = tx[t].had
           /\ \A u \in Threads : u # t => tx'[u] = tx[u]
BY DEF Move, TypeOK, Tx

LEMMA Ends ==
    ASSUME TypeOK, NEW t \in Threads, End(t)
    PROVE  /\ tx' \in [Threads -> Tx] /\ tx'[t] = Idle
           /\ \A u \in Threads : u # t => tx'[u] = tx[u]
BY IdleIsTx DEF End, TypeOK

(* The branch and its records stay while one request goes on with the       *)
(* commit it holds, or none; it locks no draft that another has locked.     *)
LEMMA StepKeeps ==
    ASSUME IInv, NEW t \in Threads, tx' \in [Threads -> Tx],
           \A u \in Threads : u # t => tx'[u] = tx[u],
           tx'[t].at = tx[t].at, Serves(t)',
           \A p \in Paths : LockedBy(t, p)' => LockedBy(t, p) \/ ~Locked(p),
           UNCHANGED <<log, blob, composed, rows, lost>>,
           drafts' \in [Paths -> {"none", "based", "unbased"}]
    PROVE  IInv'
<1>1. TypeOK'
  BY DEF IInv, TypeOK, rows
<1>2. BranchInv'
  BY BranchKept DEF IInv
<1>3. Served'
  BY DEF IInv, Served, Serves, rows
<1>4. OneLock'
  BY DEF IInv, OneLock, LockedBy, Locked
<1>5. Recorded'
  BY DEF IInv, Recorded, InHand, rows
<1>6. QED BY <1>1, <1>2, <1>3, <1>4, <1>5 DEF IInv

(* A request ends: the commit it held, if any, is lost or recorded.         *)
LEMMA EndKeeps ==
    ASSUME IInv, NEW t \in Threads, End(t),
           UNCHANGED <<log, blob, composed, audit>>,
           jobs \subseteq jobs', jobs' \subseteq Commits, lost \subseteq lost', lost' \subseteq Commits,
           \/ tx[t].at = 0
           \/ tx[t].at \in lost'
           \/ audit[log[tx[t].at].key] # 0 /\ tx[t].at \in jobs',
           drafts' \in [Paths -> {"none", "based", "unbased"}]
    PROVE  IInv'
<1>1. /\ tx' \in [Threads -> Tx] /\ tx'[t] = Idle
      /\ \A u \in Threads : u # t => tx'[u] = tx[u]
  BY Ends DEF IInv
<1>2. TypeOK'
  BY <1>1 DEF IInv, TypeOK
<1>3. BranchInv'
  BY BranchKept DEF IInv
<1>4. Served'
  BY <1>1, IdleIsTx DEF IInv, Served, Serves
<1>5. OneLock'
  BY <1>1, IdleIsTx DEF IInv, OneLock, LockedBy
<1>6. Recorded'
  <2> SUFFICES ASSUME NEW c \in 1..Len(log), log[c].key \in Keys
               PROVE  InHand(c)' \/ c \in lost' \/ (audit[log[c].key] # 0 /\ c \in jobs')
    BY DEF Recorded
  <2>1. InHand(c) \/ c \in lost \/ (audit[log[c].key] # 0 /\ c \in jobs)
    BY DEF IInv, Recorded
  <2>2. CASE InHand(c)
    <3>1. PICK u \in Threads : tx[u].at = c
      BY <2>2 DEF InHand
    <3>2. CASE u = t
      BY <3>1, <3>2, MaxCommitsAssumption
    <3>3. CASE u # t
      BY <1>1, <3>1, <3>3 DEF InHand
    <3>4. QED BY <3>2, <3>3
  <2>3. QED BY <2>1, <2>2
<1>7. QED BY <1>2, <1>3, <1>4, <1>5, <1>6 DEF IInv

-----------------------------------------------------------------------------
(* One lemma for each action.                                              *)
LEMMA ComposeIInv ==
    ASSUME IInv, NEW k \in Keys, NEW kind \in {"one", "many"}, NEW paths \in SUBSET Paths,
           Compose(k, kind, paths)
    PROVE  IInv'
<1>1. /\ BranchInv' /\ composed' \in [Keys -> Composed] /\ composed[k].kind = "none"
      /\ \A l \in Keys : l # k => composed'[l] = composed[l]
  BY ComposeKeeps DEF IInv
<1>2. UNCHANGED <<log, blob, audit, jobs, lost, drafts, tx>>
  BY DEF Compose, rows
<1>3. TypeOK'
  BY <1>1, <1>2 DEF IInv, TypeOK
<1>4. Served'
  BY <1>1, <1>2 DEF IInv, Served, Serves
<1>5. OneLock' /\ Recorded'
  BY <1>2 DEF IInv, OneLock, LockedBy, Recorded, InHand
<1>6. QED BY <1>1, <1>3, <1>4, <1>5 DEF IInv

(* The branch grew, by a push or a commit: what was on record still is.     *)
LEMMA GrownKeeps ==
    ASSUME IInv, BranchInv',
           NEW k \in Keys \cup {Outside}, NEW paths \in SUBSET Paths, NEW text \in Contents,
           Grow(k, paths, text), UNCHANGED <<composed, rows, drafts>>,
           lost \subseteq lost', lost' \subseteq Commits, tx' \in [Threads -> Tx],
           \A u \in Threads : Serves(u)' /\ (tx[u].at # 0 => tx'[u].at = tx[u].at),
           \A u \in Threads, p \in Paths : LockedBy(u, p)' => LockedBy(u, p),
           k \in Keys => InHand(Len(log))' \/ Len(log') \in lost'
    PROVE  IInv'
<1>0. Len(log) \in Nat
  BY DEF IInv, TypeOK
<1>1. /\ log' \in Seq(Commit) /\ Len(log') = Len(log) + 1 /\ Len(log') <= MaxCommits
      /\ \A i \in 1..Len(log) : log'[i] = log[i]
      /\ log'[Len(log) + 1].key = k
      /\ blob' \in [Paths -> Contents]
  BY Grows DEF IInv
<1>2. TypeOK'
  BY <1>1 DEF IInv, TypeOK, rows
<1>3. Served' /\ OneLock'
  BY DEF IInv, Served, OneLock
<1>4. Recorded'
  <2> SUFFICES ASSUME NEW c \in 1..Len(log'), log'[c].key \in Keys
               PROVE  InHand(c)' \/ c \in lost' \/ (audit'[log'[c].key] # 0 /\ c \in jobs')
    BY DEF Recorded
  <2>1. CASE c = Len(log) + 1
    BY <1>1, <2>1
  <2>2. CASE c \in 1..Len(log)
    <3>1. log'[c] = log[c] /\ c # 0
      BY <1>0, <1>1, <2>2
    <3>2. InHand(c) \/ c \in lost \/ (audit[log[c].key] # 0 /\ c \in jobs)
      BY <2>2, <3>1 DEF IInv, Recorded
    <3>3. InHand(c) => InHand(c)'
      BY <3>1 DEF InHand
    <3>4. QED BY <3>1, <3>2, <3>3 DEF rows
  <2>3. QED BY <1>0, <1>1, <2>1, <2>2
<1>5. QED BY <1>2, <1>3, <1>4 DEF IInv

(* A commit at hand is where it was when the branch has grown.             *)
LEMMA ServesGrown ==
    ASSUME IInv, NEW k \in Keys \cup {Outside}, NEW paths \in SUBSET Paths, NEW text \in Contents,
           Grow(k, paths, text), UNCHANGED <<composed, rows>>, NEW t \in Threads, tx'[t] = tx[t]
    PROVE  Serves(t)'
<1>0. Len(log) \in Nat
  BY DEF IInv, TypeOK
<1>1. Len(log') = Len(log) + 1 /\ \A i \in 1..Len(log) : log'[i] = log[i]
  BY Grows DEF IInv
<1>2. QED BY <1>0, <1>1 DEF IInv, Served, Serves, rows

LEMMA PushIInv == ASSUME IInv, NEW p \in Paths, NEW text \in Texts, Push(p, text) PROVE IInv'
<1>1. /\ Grow(Outside, {p}, text) /\ UNCHANGED <<composed, rows, lost, drafts, tx>>
      /\ text \in Contents /\ text \notin Keys /\ {p} \in SUBSET Paths
  BY TextsAssumption DEF Push, Contents
<1>2. BranchInv'
  BY <1>1, KeysAssumption, GrowKeeps DEF IInv
<1>3. \A u \in Threads : Serves(u)'
  BY <1>1, ServesGrown
<1>4. /\ lost' \subseteq Commits /\ tx' \in [Threads -> Tx]
      /\ \A u \in Threads, q \in Paths : LockedBy(u, q)' => LockedBy(u, q)
  BY <1>1 DEF IInv, TypeOK, LockedBy
<1>5. QED BY <1>1, <1>2, <1>3, <1>4, KeysAssumption, GrownKeeps

LEMMA ReceiveIInv == ASSUME IInv, NEW t \in Threads, NEW k \in Keys, Receive(t, k) PROVE IInv'
<1> DEFINE pc == IF composed[k].kind = "one" THEN "lock" ELSE "check"
           r == [Idle EXCEPT !.pc = pc, !.key = k, !.paths = composed[k].paths]
<1>0. composed[k].paths \in SUBSET Paths
  BY DEF IInv, TypeOK, Composed
<1>8. pc \in {"lock", "check"}
  OBVIOUS
<1> HIDE DEF pc
<1>1. /\ r \in Tx /\ r.pc \in {"lock", "check"} /\ r.key = k /\ r.at = 0
      /\ r.paths = composed[k].paths /\ r.had = FALSE
  BY <1>0, <1>8, IdleIsTx DEF Tx
<1>2. tx' = [tx EXCEPT ![t] = r] /\ At(t, "idle") /\ composed[k].kind # "none"
      /\ UNCHANGED <<log, blob, composed, rows, lost, drafts>>
  BY DEF Receive, pc
<1> HIDE DEF r
<1>3. tx' \in [Threads -> Tx] /\ tx'[t] = r /\ \A u \in Threads : u # t => tx'[u] = tx[u]
  BY <1>1, <1>2 DEF IInv, TypeOK
<1>4. tx[t].at = 0
  BY <1>2 DEF At, IInv, Served, Serves
<1>5. Serves(t)'
  BY <1>1, <1>2, <1>3 DEF Serves
<1>6. \A p \in Paths : ~LockedBy(t, p)'
  BY <1>1, <1>3 DEF LockedBy
<1>7. QED BY <1>1, <1>2, <1>3, <1>4, <1>5, <1>6, StepKeeps DEF IInv, TypeOK

LEMMA ReadDraftIInv == ASSUME IInv, NEW t \in Threads, NEW p \in Paths, ReadDraft(t, p) PROVE IInv'
<1> DEFINE had == drafts[p] # "none"
           r == [Idle EXCEPT !.pc = "save", !.paths = {p}, !.had = had]
<1>2. tx' = [tx EXCEPT ![t] = r] /\ At(t, "idle")
      /\ UNCHANGED <<log, blob, composed, rows, lost, drafts>>
  BY DEF ReadDraft
<1>0. had \in BOOLEAN
  OBVIOUS
<1> HIDE DEF had
<1>1. r \in Tx /\ r.pc = "save" /\ r.at = 0
  BY <1>0, IdleIsTx DEF Tx
<1> HIDE DEF r
<1>3. tx' \in [Threads -> Tx] /\ tx'[t] = r /\ \A u \in Threads : u # t => tx'[u] = tx[u]
  BY <1>1, <1>2 DEF IInv, TypeOK
<1>4. tx[t].at = 0 /\ Serves(t)'
  BY <1>1, <1>2, <1>3 DEF At, IInv, Served, Serves
<1>5. \A q \in Paths : ~LockedBy(t, q)'
  BY <1>1, <1>3 DEF LockedBy
<1>6. QED BY <1>1, <1>2, <1>3, <1>4, <1>5, StepKeeps DEF IInv, TypeOK

LEMMA LockDraftIInv == ASSUME IInv, NEW t \in Threads, LockDraft(t) PROVE IInv'
<1> DEFINE had == \A p \in tx[t].paths : drafts[p] # "none"
           r == [tx[t] EXCEPT !.pc = "check", !.had = had]
<1>1. tx[t] \in Tx /\ tx[t].pc = "lock" /\ \A p \in tx[t].paths : ~Locked(p)
  BY DEF LockDraft, At, IInv, TypeOK
<1>2. /\ r \in Tx /\ r.pc = "check" /\ r.key = tx[t].key /\ r.at = tx[t].at
      /\ r.paths = tx[t].paths
  BY <1>1 DEF Tx
<1>3. tx' = [tx EXCEPT ![t] = r] /\ UNCHANGED <<log, blob, composed, rows, lost, drafts>>
  BY DEF LockDraft, IInv, TypeOK
<1> HIDE DEF r, had
<1>4. tx' \in [Threads -> Tx] /\ tx'[t] = r /\ \A u \in Threads : u # t => tx'[u] = tx[u]
  BY <1>2, <1>3 DEF IInv, TypeOK
<1>5. Serves(t)'
  BY <1>1, <1>2, <1>3, <1>4 DEF IInv, Served, Serves
<1>6. \A p \in Paths : LockedBy(t, p)' => ~Locked(p)
  BY <1>1, <1>2, <1>4 DEF LockedBy
<1>7. QED BY <1>2, <1>3, <1>4, <1>5, <1>6, StepKeeps DEF IInv, TypeOK

LEMMA CheckIInv == ASSUME IInv, NEW t \in Threads, Check(t) PROVE IInv'
<1>1. /\ tx' \in [Threads -> Tx] /\ tx'[t].pc = "write" /\ tx'[t].key = tx[t].key
      /\ tx'[t].at = tx[t].at /\ tx'[t].paths = tx[t].paths /\ tx'[t].had = tx[t].had
      /\ \A u \in Threads : u # t => tx'[u] = tx[u]
  BY Moves DEF Check, IInv
<1>2. tx[t].pc = "check" /\ UNCHANGED <<log, blob, composed, rows, lost, drafts>>
  BY DEF Check, At
<1>3. Serves(t)'
  BY <1>1, <1>2 DEF IInv, Served, Serves
<1>4. \A p \in Paths : LockedBy(t, p)' => LockedBy(t, p)
  BY <1>1, <1>2 DEF LockedBy
<1>5. QED BY <1>1, <1>2, <1>3, <1>4, StepKeeps DEF IInv, TypeOK

(* A write makes the commit that was composed, on a branch whose files of   *)
(* that commit are those the author saw.                                    *)
LEMMA WriteGrows ==
    ASSUME IInv, NEW t \in Threads, At(t, "write"), GitHubAccepts(t),
           Grow(tx[t].key, tx[t].paths, tx[t].key), UNCHANGED composed
    PROVE  /\ tx[t].key \in Keys /\ tx[t].key \in Contents /\ tx[t].paths \in SUBSET Paths
           /\ composed[tx[t].key].kind # "none" /\ tx[t].paths = composed[tx[t].key].paths
           /\ \A p \in tx[t].paths : blob[p] = composed[tx[t].key].base[p]
           /\ BranchInv'
<1>1. /\ tx[t].key \in Keys /\ composed[tx[t].key].kind # "none"
      /\ tx[t].paths = composed[tx[t].key].paths
  BY DEF IInv, Served, Serves, At
<1>2. tx[t].paths \in SUBSET Paths /\ tx[t].key \in Contents
  BY <1>1 DEF IInv, TypeOK, Tx, Contents
<1>3. composed[tx[t].key].kind \in {"one", "many"}
  BY <1>1 DEF IInv, TypeOK, Composed
<1>4. composed[tx[t].key].kind = "many" => composed[tx[t].key].parent = Len(log)
  BY <1>3 DEF GitHubAccepts, SameHead, Of
<1>5. \A p \in tx[t].paths : blob[p] = composed[tx[t].key].base[p]
  <2>1. CASE composed[tx[t].key].kind = "one"
    BY <2>1 DEF GitHubAccepts, SameBlobs, Of
  <2>2. CASE composed[tx[t].key].kind = "many"
    BY <1>1, <1>4, <2>2 DEF IInv, BranchInv, Composition
  <2>3. QED BY <1>3, <2>1, <2>2
<1>6. BranchInv'
  BY <1>1, <1>2, <1>4, <1>5, GrowKeeps DEF IInv
<1>7. QED BY <1>1, <1>2, <1>5, <1>6

LEMMA WriteIInv == ASSUME IInv, NEW t \in Threads, Write(t) PROVE IInv'
<1> DEFINE k == tx[t].key
           r == [tx[t] EXCEPT !.pc = "audit", !.at = Sha]
<1>0. Len(log) \in Nat
  BY DEF IInv, TypeOK
<1>1. At(t, "write") /\ GitHubAccepts(t) /\ Grow(k, tx[t].paths, k)
      /\ UNCHANGED <<composed, rows, lost, drafts>>
  BY DEF Write
<1>2. /\ k \in Keys /\ k \in Contents /\ tx[t].paths \in SUBSET Paths
      /\ composed[k].kind # "none" /\ tx[t].paths = composed[k].paths /\ BranchInv'
  BY <1>1, WriteGrows
<1>3. /\ Len(log') = Len(log) + 1 /\ Len(log') <= MaxCommits /\ log'[Len(log) + 1].key = k
  <2>1. TypeOK
    BY DEF IInv
  <2> HIDE DEF k, r
  <2>2. QED BY <1>1, <1>2, <2>1, Grows
<1>4. tx[t] \in Tx /\ Sha \in 0..MaxCommits
  BY <1>0, <1>3, MaxCommitsAssumption DEF IInv, TypeOK, Sha
<1>5. /\ r \in Tx /\ r.pc = "audit" /\ r.key = k /\ r.at = Len(log) + 1
      /\ r.paths = tx[t].paths /\ r.had = tx[t].had
  BY <1>4 DEF Tx, Sha
<1>6. tx' = [tx EXCEPT ![t] = r]
  BY DEF Write, IInv, TypeOK
<1> HIDE DEF r
<1>7. tx' \in [Threads -> Tx] /\ tx'[t] = r /\ \A u \in Threads : u # t => tx'[u] = tx[u]
  BY <1>5, <1>6 DEF IInv, TypeOK
<1>8. tx[t].at = 0
  BY <1>1 DEF At, IInv, Served, Serves
<1>9. Serves(t)'
  BY <1>0, <1>1, <1>2, <1>3, <1>5, <1>7 DEF Serves
<1>10. \A u \in Threads : Serves(u)' /\ (tx[u].at # 0 => tx'[u].at = tx[u].at)
  BY <1>1, <1>2, <1>7, <1>8, <1>9, ServesGrown
<1>11. \A u \in Threads, p \in Paths : LockedBy(u, p)' => LockedBy(u, p)
  BY <1>1, <1>5, <1>7 DEF LockedBy, At
<1>12. InHand(Len(log))'
  BY <1>3, <1>5, <1>7 DEF InHand
<1>13. lost' \subseteq Commits
  BY <1>1 DEF IInv, TypeOK
<1>14. QED BY <1>1, <1>2, <1>7, <1>10, <1>11, <1>12, <1>13, GrownKeeps

LEMMA WriteUnansweredIInv == ASSUME IInv, NEW t \in Threads, WriteUnanswered(t) PROVE IInv'
<1> DEFINE k == tx[t].key
<1>0. TypeOK /\ Len(log) \in Nat
  BY DEF IInv, TypeOK
<1>1. /\ At(t, "write") /\ GitHubAccepts(t) /\ Grow(k, tx[t].paths, k) /\ End(t)
      /\ lost' = lost \cup {Sha} /\ UNCHANGED <<composed, rows, drafts>>
  BY DEF WriteUnanswered
<1>2. /\ k \in Keys /\ k \in Contents /\ tx[t].paths \in SUBSET Paths /\ BranchInv'
  BY <1>1, WriteGrows
<1>3. /\ Len(log') = Len(log) + 1 /\ Len(log') <= MaxCommits
  <2> HIDE DEF k
  <2>1. QED BY <1>0, <1>1, <1>2, Grows
<1>4. /\ tx' \in [Threads -> Tx] /\ tx'[t] = Idle
      /\ \A u \in Threads : u # t => tx'[u] = tx[u]
  BY <1>0, <1>1, Ends
<1>5. tx[t].at = 0 /\ Serves(t)'
  BY <1>1, <1>4, IdleIsTx DEF At, IInv, Served, Serves
<1>6. \A u \in Threads : Serves(u)' /\ (tx[u].at # 0 => tx'[u].at = tx[u].at)
  BY <1>1, <1>2, <1>4, <1>5, ServesGrown
<1>7. \A u \in Threads, p \in Paths : LockedBy(u, p)' => LockedBy(u, p)
  BY <1>4, IdleIsTx DEF LockedBy
<1>8. /\ lost \subseteq lost' /\ lost' \subseteq Commits /\ Len(log') \in lost'
  <2>1. Sha = Len(log') /\ Sha \in Commits
    BY <1>0, <1>3, MaxCommitsAssumption DEF Sha, Commits
  <2>2. QED BY <1>0, <1>1, <2>1 DEF TypeOK
<1>9. QED BY <1>1, <1>2, <1>4, <1>6, <1>7, <1>8, GrownKeeps

LEMMA ConflictIInv == ASSUME IInv, NEW t \in Threads, Conflict(t) PROVE IInv'
<1>1. /\ End(t) /\ UNCHANGED <<log, blob, composed, rows, lost>>
      /\ tx[t].pc \in {"check", "write"} /\ drafts' \in {drafts, Unbased(t)}
  BY DEF Conflict, At
<1>2. tx[t].at = 0
  BY <1>1 DEF IInv, Served, Serves
<1>3. drafts' \in [Paths -> {"none", "based", "unbased"}]
  BY <1>1 DEF IInv, TypeOK, Unbased
<1>4. jobs \subseteq Commits /\ lost \subseteq Commits
  BY DEF IInv, TypeOK
<1>5. QED BY <1>1, <1>2, <1>3, <1>4, EndKeeps DEF rows

(* A row that was found for a key stays, and a key whose commit is audited  *)
(* has one.                                                                 *)
LEMMA AuditIInv == ASSUME IInv, NEW t \in Threads, Audit(t) PROVE IInv'
<1> DEFINE k == tx[t].key
<1>1. /\ tx' \in [Threads -> Tx] /\ tx'[t].pc = "finish" /\ tx'[t].key = k
      /\ tx'[t].at = tx[t].at /\ tx'[t].paths = tx[t].paths
      /\ \A u \in Threads : u # t => tx'[u] = tx[u]
  BY Moves DEF Audit, IInv
<1>2. /\ tx[t].pc = "audit" /\ UNCHANGED <<log, blob, composed, jobs, lost, drafts>>
      /\ audit' = Audited(t)
  BY DEF Audit, At
<1>3. k \in Keys /\ tx[t].at \in 1..Len(log) /\ Len(log) <= MaxCommits /\ Len(log) \in Nat
  BY <1>2 DEF IInv, Served, Serves, TypeOK
<1>4. /\ audit' \in [Keys -> 0..MaxCommits] /\ audit'[k] # 0
      /\ \A l \in Keys : audit[l] # 0 => audit'[l] # 0
  BY <1>2, <1>3, MaxCommitsAssumption DEF Audited, IInv, TypeOK
<1>5. TypeOK'
  BY <1>1, <1>2, <1>4 DEF IInv, TypeOK
<1>6. BranchInv'
  BY <1>2, BranchKept DEF IInv
<1>7. Served'
  BY <1>1, <1>2, <1>3, <1>4 DEF IInv, Served, Serves
<1>8. OneLock'
  BY <1>1 DEF IInv, OneLock, LockedBy
<1>9. Recorded'
  <2>1. \A c : InHand(c) => InHand(c)'
    BY <1>1 DEF InHand
  <2>2. QED BY <1>2, <1>4, <2>1 DEF IInv, Recorded
<1>10. QED BY <1>5, <1>6, <1>7, <1>8, <1>9 DEF IInv

LEMMA FinishIInv == ASSUME IInv, NEW t \in Threads, Finish(t) PROVE IInv'
<1>1. /\ tx' \in [Threads -> Tx] /\ tx'[t].pc = "enqueue" /\ tx'[t].key = tx[t].key
      /\ tx'[t].at = tx[t].at /\ tx'[t].paths = tx[t].paths
      /\ \A u \in Threads : u # t => tx'[u] = tx[u]
  BY Moves DEF Finish, IInv
<1>2. tx[t].pc = "finish" /\ UNCHANGED <<log, blob, composed, rows, lost>>
  BY DEF Finish, At
<1>3. drafts' \in [Paths -> {"none", "based", "unbased"}]
  BY DEF Finish, IInv, TypeOK
<1>4. Serves(t)'
  BY <1>1, <1>2 DEF IInv, Served, Serves, rows
<1>5. \A p \in Paths : ~LockedBy(t, p)'
  BY <1>1 DEF LockedBy
<1>6. QED BY <1>1, <1>2, <1>3, <1>4, <1>5, StepKeeps

LEMMA EnqueueIInv == ASSUME IInv, NEW t \in Threads, Enqueue(t) PROVE IInv'
<1>1. /\ End(t) /\ UNCHANGED <<log, blob, composed, audit, lost, drafts>>
      /\ tx[t].pc = "enqueue" /\ jobs' = jobs \cup {tx[t].at}
  BY DEF Enqueue, Queued, At
<1>2. /\ tx[t].at \in 1..Len(log) /\ audit[log[tx[t].at].key] # 0
      /\ Len(log) \in Nat /\ Len(log) <= MaxCommits
  BY <1>1 DEF IInv, Served, Serves, TypeOK
<1>3. jobs' \subseteq Commits /\ lost \subseteq Commits
  <2>1. tx[t].at \in Commits
    BY <1>2, MaxCommitsAssumption DEF Commits
  <2>2. QED BY <1>1, <2>1 DEF IInv, TypeOK
<1>4. drafts' \in [Paths -> {"none", "based", "unbased"}]
  BY <1>1 DEF IInv, TypeOK
<1>5. QED BY <1>1, <1>2, <1>3, <1>4, EndKeeps

LEMMA StopIInv == ASSUME IInv, NEW t \in Threads, Stop(t) PROVE IInv'
<1>1. /\ End(t) /\ UNCHANGED <<log, blob, composed, rows, drafts>>
      /\ lost' = IF tx[t].at = 0 THEN lost ELSE lost \cup {tx[t].at}
  BY DEF Stop
<1>2. tx[t].at # 0 => tx[t].at \in Commits
  BY MaxCommitsAssumption DEF IInv, TypeOK, Tx, Commits
<1>3. lost' \subseteq Commits /\ jobs \subseteq Commits
  BY <1>1, <1>2 DEF IInv, TypeOK
<1>4. drafts' \in [Paths -> {"none", "based", "unbased"}]
  BY <1>1 DEF IInv, TypeOK
<1>5. QED BY <1>1, <1>3, <1>4, EndKeeps DEF rows

LEMMA SaveDraftIInv == ASSUME IInv, NEW t \in Threads, NEW p \in Paths, SaveDraft(t, p) PROVE IInv'
<1>1. End(t) /\ UNCHANGED <<log, blob, composed, rows, lost>> /\ tx[t].pc = "save"
  BY DEF SaveDraft, At
<1>2. tx[t].at = 0
  BY <1>1 DEF IInv, Served, Serves
<1>3. drafts' \in [Paths -> {"none", "based", "unbased"}]
  BY DEF SaveDraft, IInv, TypeOK
<1>4. jobs \subseteq Commits /\ lost \subseteq Commits
  BY DEF IInv, TypeOK
<1>5. QED BY <1>1, <1>2, <1>3, <1>4, EndKeeps DEF rows

(* The drafts alone change.                                                *)
LEMMA DiscardIInv == ASSUME IInv, NEW p \in Paths, Discard(p) PROVE IInv'
<1>1. UNCHANGED <<log, blob, composed, rows, lost, tx>>
  BY DEF Discard
<1>2. drafts' \in [Paths -> {"none", "based", "unbased"}]
  BY DEF Discard, IInv, TypeOK
<1>3. TypeOK'
  BY <1>1, <1>2 DEF IInv, TypeOK, rows
<1>4. BranchInv'
  BY <1>1, BranchKept DEF IInv
<1>5. Served' /\ OneLock' /\ Recorded'
  BY <1>1 DEF IInv, Served, Serves, OneLock, LockedBy, Recorded, InHand, rows
<1>6. QED BY <1>3, <1>4, <1>5 DEF IInv

-----------------------------------------------------------------------------
LEMMA InitIInv == ASSUME Init PROVE IInv
<1>1. TypeOK
  <2>1. composed \in [Keys -> Composed]
    BY TextsAssumption, MaxCommitsAssumption DEF Init, Blank, Composed, Contents
  <2>2. tx \in [Threads -> Tx]
    BY IdleIsTx DEF Init
  <2>3. log \in Seq(Commit) /\ Len(log) = 0
    BY DEF Init
  <2>4. blob \in [Paths -> Contents]
    BY TextsAssumption DEF Init, Contents
  <2>5. QED BY <2>1, <2>2, <2>3, <2>4, MaxCommitsAssumption DEF Init, TypeOK
<1>2. Len(log) = 0 /\ \A k \in Keys : composed[k].kind = "none"
  BY DEF Init, Blank
<1>3. \A p \in Paths, k \in Keys : blob[p] # k
  BY TextsAssumption DEF Init
<1>4. BranchInv
  BY <1>2, <1>3 DEF BranchInv, Composition, Unused, Logged, Latest, CommitsOnce
<1>5. Served /\ OneLock /\ Recorded
  BY <1>2, IdleIsTx DEF Init, Served, Serves, OneLock, LockedBy, Recorded
<1>6. QED BY <1>1, <1>4, <1>5 DEF IInv

LEMMA NextIInv == ASSUME IInv, [Next]_vars PROVE IInv'
<1>1. CASE UNCHANGED vars
  <2>1. UNCHANGED <<log, blob, composed, audit, jobs, lost, drafts, tx>>
    BY <1>1 DEF vars, rows
  <2>2. BranchInv'
    BY <2>1, BranchKept DEF IInv
  <2>3. QED
    BY <2>1, <2>2 DEF IInv, TypeOK, Served, Serves, OneLock, LockedBy, Recorded, InHand
<1>2. ASSUME NEW t \in Threads, Work(t) PROVE IInv'
  BY <1>2, ReceiveIInv, LockDraftIInv, CheckIInv, WriteIInv, WriteUnansweredIInv, ConflictIInv,
     AuditIInv, FinishIInv, EnqueueIInv, StopIInv, ReadDraftIInv, SaveDraftIInv DEF Work
<1>3. QED BY <1>1, <1>2, ComposeIInv, DiscardIInv, PushIInv DEF Next

(* The inductive invariant; what follows from it at once.                  *)
THEOREM Invariant == Spec => []IInv
<1>1. Init => IInv
  BY InitIInv
<1>2. IInv /\ [Next]_vars => IInv'
  BY NextIInv
<1>3. QED BY <1>1, <1>2, PTL DEF Spec

(* Commits, rows, drafts and requests hold only values of their kinds,     *)
(* whatever the requests of workspace.py do.                               *)
THEOREM TypeCorrect == Spec => []TypeOK
<1>1. IInv => TypeOK
  BY DEF IInv
<1>2. QED BY <1>1, Invariant, PTL

(* A second commit under one idempotency key is a commit_one of a path      *)
(* that somebody has put back since the first (_prior and GitHub's check).  *)
THEOREM CommitsOnceAlways == Spec => []CommitsOnce
<1>1. IInv => CommitsOnce
  BY DEF IInv, BranchInv
<1>2. QED BY <1>1, Invariant, PTL

(* A commit made here has an audit row and a sync job, or is in hand, or    *)
(* its request was cut short (_audit, _finish, enqueue).                    *)
THEOREM RecordedAlways == Spec => []Recorded
<1>1. IInv => Recorded
  BY DEF IInv
<1>2. QED BY <1>1, Invariant, PTL

-----------------------------------------------------------------------------
(* A draft changes when the request that locks it gives it up, or while no  *)
(* request locks it.                                                        *)
LEMMA HeldStep ==
    ASSUME IInv, [Next]_vars, NEW t \in Threads, NEW p \in Paths,
           LockedBy(t, p), drafts'[p] # drafts[p]
    PROVE  tx'[t] = Idle
<1>1. CASE UNCHANGED vars
  BY <1>1 DEF vars
<1>2. ASSUME NEW k \in Keys, NEW kind \in {"one", "many"}, NEW paths \in SUBSET Paths,
             Compose(k, kind, paths)
      PROVE  FALSE
  BY <1>2 DEF Compose
<1>3. ASSUME NEW q \in Paths, Discard(q) PROVE FALSE
  BY <1>3 DEF Discard, Locked, IInv, TypeOK
<1>4. ASSUME NEW q \in Paths, NEW text \in Texts, Push(q, text) PROVE FALSE
  BY <1>4 DEF Push
<1>5. ASSUME NEW u \in Threads, Work(u) PROVE tx'[t] = Idle
  <2>1. CASE Conflict(u)
    <3>1. LockedBy(u, p) /\ End(u)
      BY <2>1 DEF Conflict, Unbased, IInv, TypeOK
    <3>2. u = t
      BY <3>1 DEF IInv, OneLock
    <3>3. QED BY <3>1, <3>2, Ends DEF IInv
  <2>2. ASSUME Finish(u) PROVE FALSE
    BY <2>2 DEF Finish, Locked, IInv, TypeOK
  <2>3. ASSUME NEW q \in Paths, SaveDraft(u, q) PROVE FALSE
    BY <2>3 DEF SaveDraft, Locked, IInv, TypeOK
  <2>4. CASE \/ \E k \in Keys : Receive(u, k)
             \/ LockDraft(u) \/ Check(u) \/ Write(u) \/ WriteUnanswered(u)
             \/ Audit(u) \/ Enqueue(u) \/ Stop(u) \/ \E q \in Paths : ReadDraft(u, q)
    BY <2>4 DEF Receive, LockDraft, Check, Write, WriteUnanswered, Audit, Enqueue, Stop, ReadDraft
  <2>5. QED BY <1>5, <2>1, <2>2, <2>3, <2>4 DEF Work
<1>6. QED BY <1>1, <1>2, <1>3, <1>4, <1>5 DEF Next

(* While commit_one holds the lock of a draft, no save, discard or _finish  *)
(* of another request changes or removes it.                                *)
THEOREM DraftHeldAlways == Spec => DraftHeld
<1>1. IInv /\ [Next]_vars =>
          [\A t \in Threads, p \in Paths :
              (LockedBy(t, p) /\ drafts'[p] # drafts[p]) => tx'[t] = Idle]_vars
  BY HeldStep
<1>2. QED BY <1>1, Invariant, PTL DEF Spec, DraftHeld

-----------------------------------------------------------------------------
(* The workspace implements Branch.                                        *)
SeenBy == [k \in Keys |-> composed[k].base]

LEMMA InitSeen == ASSUME Init PROVE Seen!Init
<1>1. \A k \in Keys : composed[k].base = blob
  BY DEF Init, Blank
<1>2. QED BY <1>1 DEF Seen!Init, Init

(* A commit made here replaces what its author saw.                        *)
LEMMA WriteSeen ==
    ASSUME IInv, NEW t \in Threads, At(t, "write"), GitHubAccepts(t),
           Grow(tx[t].key, tx[t].paths, tx[t].key), UNCHANGED composed
    PROVE  Seen!Next
<1> DEFINE k == tx[t].key
           paths == tx[t].paths
<1>1. k \in Keys /\ paths \in SUBSET Paths /\ \A p \in paths : blob[p] = composed[k].base[p]
  BY WriteGrows
<1>2. log' = Append(log, [key |-> k, paths |-> paths])
  BY DEF Grow
<1>3. \A p \in Paths \ paths : blob'[p] = blob[p]
  BY DEF Grow
<1>4. UNCHANGED SeenBy
  BY DEF SeenBy
<1>5. \A p \in paths : blob[p] = SeenBy[k][p]
  BY <1>1 DEF SeenBy
<1> HIDE DEF k, paths
<1>6. Seen!Replace(k, paths)
  BY <1>2, <1>3, <1>4, <1>5 DEF Seen!Replace, Seen!Grow, SeenBy
<1>7. QED BY <1>1, <1>6 DEF Seen!Next

LEMMA NextSeen == ASSUME IInv, [Next]_vars PROVE [Seen!Next]_<<log, blob, SeenBy>>
<1>1. CASE UNCHANGED <<log, blob, composed>>
  BY <1>1 DEF SeenBy
<1>2. ASSUME NEW k \in Keys, NEW kind \in {"one", "many"}, NEW paths \in SUBSET Paths,
             Compose(k, kind, paths)
      PROVE  Seen!Next
  <2>1. UNCHANGED <<log, blob>> /\ composed'[k].base = blob
        /\ \A l \in Keys : l # k => composed'[l] = composed[l]
    BY <1>2 DEF Compose, IInv, TypeOK
  <2>2. SeenBy' = [SeenBy EXCEPT ![k] = blob]
    BY <2>1 DEF SeenBy
  <2>3. QED BY <2>1, <2>2 DEF Seen!Next, Seen!Look, SeenBy
<1>3. ASSUME NEW p \in Paths, NEW text \in Texts, Push(p, text) PROVE Seen!Next
  <2>1. log' = Append(log, [key |-> Outside, paths |-> {p}])
    BY <1>3 DEF Push, Grow
  <2>2. (\A q \in Paths \ {p} : blob'[q] = blob[q]) /\ UNCHANGED SeenBy
    BY <1>3 DEF Push, Grow, SeenBy
  <2>3. Seen!Grow(Outside, {p})
    BY <2>1, <2>2 DEF Seen!Grow, SeenBy
  <2>4. QED BY <2>3 DEF Seen!Next
<1>4. ASSUME NEW t \in Threads, Work(t) PROVE Seen!Next \/ UNCHANGED <<log, blob, composed>>
  <2>1. CASE Write(t) \/ WriteUnanswered(t)
    BY <2>1, WriteSeen DEF Write, WriteUnanswered
  <2>2. CASE ~(Write(t) \/ WriteUnanswered(t))
    BY <1>4, <2>2 DEF Work, Receive, LockDraft, Check, Conflict, Audit, Finish, Enqueue, Stop,
                      ReadDraft, SaveDraft
  <2>3. QED BY <2>1, <2>2
<1>5. CASE \E p \in Paths : Discard(p)
  BY <1>1, <1>5 DEF Discard
<1>6. CASE UNCHANGED vars
  BY <1>1, <1>6 DEF vars
<1>7. QED BY <1>1, <1>2, <1>3, <1>4, <1>5, <1>6 DEF Next

(* Whatever tabs, retries and pushes do, no commit made here replaces what  *)
(* its author has not seen: the workspace implements Branch.                *)
THEOREM Implementation == Spec => NoLostUpdate
<1>1. Init => Seen!Init
  BY InitSeen
<1>2. IInv /\ [Next]_vars => [Seen!Next]_<<log, blob, SeenBy>>
  BY NextSeen
<1>3. QED BY <1>1, <1>2, Invariant, PTL DEF Spec, NoLostUpdate, Seen!Spec, SeenBy
=============================================================================
