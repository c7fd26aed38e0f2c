------------------------ MODULE WorkspaceSyncProofs ------------------------
(***************************************************************************)
(* Proofs about module WorkspaceSync, for any number of runners, jobs,     *)
(* files and commits.                                                      *)
(***************************************************************************)
EXTENDS WorkspaceSync, TLAPS

(* A job names a commit that is there, and a refresh names no file.        *)
SoundJob(j) ==
    /\ jobs[j].sha \in Commits => jobs[j].sha <= head
    /\ jobs[j].sha = Latest => jobs[j].paths = {}

(* A run has a job; the archive it holds is of a commit that is there; and *)
(* once past the snapshot its content is stored, or about to be recorded.  *)
SoundRun(r) ==
    /\ runs[r].pc # "idle" => runs[r].job \in JobIds
    /\ runs[r].pc = "install" => runs[r].from \in 0..head
    /\ runs[r].pc = "history" /\ ~runs[r].patches => runs[r].job \in stored
    /\ runs[r].pc = "conclude" => runs[r].job \in stored

Inv ==
    /\ TypeOK
    /\ \A j \in JobIds : SoundJob(j)
    /\ \A r \in Runners : SoundRun(r)
    /\ OkIsEarned
    /\ OnlyTracked
    /\ NoOrphans

USE BoundsAssumption, ValuesAssumption

LEMMA InitInv == Init => Inv
BY DEF Init, Inv, TypeOK, Job, NoJobRow, JobStatuses, Shas, Commits, Versions, Project, Run,
       Start, Idle, SoundJob, SoundRun, OkIsEarned, OnlyTracked, NoOrphans, Unfinished

-----------------------------------------------------------------------------
(* What the actions on jobs and commits have in common.                    *)

LEMMA RowTypes ==
    /\ NoJobRow \in Job /\ Idle \in Run
    /\ \A j \in JobIds, s \in JobStatuses : TypeOK => [jobs[j] EXCEPT !.status = s] \in Job
    /\ \A j \in JobIds, b \in BOOLEAN : TypeOK => [jobs[j] EXCEPT !.unread = b] \in Job
    /\ Commits \subseteq Versions
<1>1. NoJobRow \in Job
  BY DEF Job, NoJobRow, Shas, JobStatuses
<1>2. Idle \in Run
  BY DEF Idle, Run, Versions
<1>3. \A j \in JobIds : TypeOK => jobs[j] \in Job
  BY DEF TypeOK
<1>4. \A job \in Job : /\ \A s \in JobStatuses : [job EXCEPT !.status = s] \in Job
                       /\ \A b \in BOOLEAN : [job EXCEPT !.unread = b] \in Job
  BY DEF Job
<1>5. Commits \subseteq Versions
  BY DEF Commits, Versions
<1> QED
  BY <1>1, <1>2, <1>3, <1>4, <1>5

(* A new commit leaves the contents of those before it as they were.       *)
LEMMA GrowFacts ==
    ASSUME TypeOK, NEW paths \in SUBSET Files, Grow(paths)
    PROVE  /\ head \in Nat /\ head' = head + 1 /\ head' \in Commits /\ head' \in 0..MaxCommits
           /\ trees' \in [0..MaxCommits -> [Files -> 0..MaxCommits]]
           /\ \A c \in 0..head : trees'[c] = trees[c]
<1>1. head \in Nat /\ head + 1 \in Commits /\ head + 1 \in 0..MaxCommits /\ head' = head + 1
  BY DEF TypeOK, Grow, Commits
<1>2. [p \in Files |-> IF p \in paths THEN head + 1 ELSE trees[head][p]]
          \in [Files -> 0..MaxCommits]
  BY <1>1 DEF TypeOK, Commits
<1>3. trees' \in [0..MaxCommits -> [Files -> 0..MaxCommits]]
  BY <1>1, <1>2 DEF TypeOK, Grow
<1>4. \A c \in 0..head : trees'[c] = trees[c]
  BY <1>1 DEF TypeOK, Grow, Commits
<1> QED
  BY <1>1, <1>3, <1>4

(* A job that is queued keeps every invariant about jobs.                  *)
LEMMA EnqueueFacts ==
    ASSUME Inv, NEW sha \in Shas, NEW paths \in SUBSET Files, Enqueue(sha, paths),
           head' \in 0..MaxCommits, head <= head', sha \in Commits => sha <= head',
           sha = Latest => paths = {}, UNCHANGED <<runs, lost, stored>>
    PROVE  /\ jobs' \in [JobIds -> Job] /\ tasks' \in [JobIds -> 0..MaxTasks]
           /\ \A j \in JobIds : SoundJob(j)'
           /\ OkIsEarned' /\ NoOrphans'
<1> DEFINE row == [status |-> "pending", sha |-> sha, paths |-> paths, unread |-> FALSE]
<1>1. PICK k \in Unused : jobs' = [jobs EXCEPT ![k] = row] /\ tasks' = [tasks EXCEPT ![k] = 1]
  BY DEF Enqueue
<1>2. row \in Job /\ k \in JobIds
  BY DEF Job, JobStatuses, Unused
<1>3. jobs' \in [JobIds -> Job] /\ tasks' \in [JobIds -> 0..MaxTasks]
  BY <1>1, <1>2 DEF Inv, TypeOK
<1>4. \A j \in JobIds : SoundJob(j)'
  BY <1>1, <1>2 DEF Inv, TypeOK, SoundJob, Commits
<1>5. OkIsEarned'
  BY <1>1, <1>2 DEF Inv, TypeOK, OkIsEarned
<1>6. NoOrphans'
  <2>1. \A j \in JobIds : j # k => jobs'[j] = jobs[j] /\ tasks'[j] = tasks[j]
    BY <1>1, <1>2 DEF Inv, TypeOK
  <2>2. tasks'[k] > 0
    BY <1>1, <1>2 DEF Inv, TypeOK
  <2> QED
    BY <2>1, <2>2 DEF Inv, NoOrphans, Unfinished, Attended
<1> QED
  BY <1>3, <1>4, <1>5, <1>6

(* With more commits, runs and stored files stay what they were.           *)
LEMMA GrowKeeps ==
    ASSUME Inv, NEW paths \in SUBSET Files, Grow(paths), UNCHANGED <<runs, stored, disk>>
    PROVE  (\A r \in Runners : SoundRun(r)') /\ OnlyTracked'
<1>1. head \in Nat /\ head' = head + 1 /\ \A c \in 0..head : trees'[c] = trees[c]
  BY GrowFacts DEF Inv, TypeOK
<1>2. \A r \in Runners : SoundRun(r)'
  BY <1>1 DEF Inv, SoundRun
<1>3. OnlyTracked'
  <2> SUFFICES ASSUME NEW p \in Files PROVE \E c \in 0..head' : disk'[p] = trees'[c][p]
    BY DEF OnlyTracked
  <2>1. PICK c \in 0..head : disk[p] = trees[c][p]
    BY DEF Inv, OnlyTracked
  <2>2. c \in 0..head' /\ trees'[c] = trees[c]
    BY <1>1
  <2> QED
    BY <2>1, <2>2
<1> QED
  BY <1>2, <1>3

(* A commit to the tracked branch, and the job for it.                     *)
LEMMA CommitInv ==
    ASSUME Inv, NEW paths \in SUBSET Files, NEW named \in SUBSET Files,
           Grow(paths), Enqueue(head + 1, named),
           UNCHANGED <<retrying, runs, disk, project, lost, stored>>
    PROVE  Inv'
<1>1. /\ head \in Nat /\ head' = head + 1 /\ head' \in Commits
      /\ trees' \in [0..MaxCommits -> [Files -> 0..MaxCommits]]
  BY GrowFacts DEF Inv
<1>2. /\ head' \in 0..MaxCommits /\ head <= head'
      /\ head + 1 \in Shas /\ head + 1 # Latest /\ head + 1 <= head'
  BY <1>1 DEF Commits, Shas
<1>3. /\ jobs' \in [JobIds -> Job] /\ tasks' \in [JobIds -> 0..MaxTasks]
      /\ \A j \in JobIds : SoundJob(j)'
      /\ OkIsEarned' /\ NoOrphans'
  BY <1>1, <1>2, EnqueueFacts
<1>4. (\A r \in Runners : SoundRun(r)') /\ OnlyTracked'
  BY GrowKeeps
<1>5. TypeOK'
  BY <1>1, <1>2, <1>3 DEF Inv, TypeOK
<1> QED
  BY <1>3, <1>4, <1>5 DEF Inv

LEMMA ElsewhereInv ==
    ASSUME Inv, CommitElsewhere
    PROVE  Inv'
<1>1. Enqueue(Elsewhere, {})
  BY DEF CommitElsewhere
<1>2. UNCHANGED <<trees, head, retrying, runs, disk, project, lost, stored>>
  BY DEF CommitElsewhere, github
<1>3. head' \in 0..MaxCommits /\ head <= head' /\ Elsewhere \in Shas /\ Elsewhere \notin Commits
  BY <1>2 DEF Inv, TypeOK, Commits, Shas
<1>4. /\ jobs' \in [JobIds -> Job] /\ tasks' \in [JobIds -> 0..MaxTasks]
      /\ \A j \in JobIds : SoundJob(j)'
      /\ OkIsEarned' /\ NoOrphans'
  BY <1>1, <1>2, <1>3, EnqueueFacts
<1>5. TypeOK'
  BY <1>2, <1>4 DEF Inv, TypeOK
<1> QED
  BY <1>2, <1>4, <1>5 DEF Inv, SoundRun, OnlyTracked

LEMMA PushInv ==
    ASSUME Inv, NEW paths \in SUBSET Files, Push(paths)
    PROVE  Inv'
<1>1. Grow(paths) /\ UNCHANGED <<jobs, tasks, retrying, runs, disk, project, lost, stored>>
  BY DEF Push
<1>2. /\ head \in Nat /\ head' = head + 1 /\ head' \in 0..MaxCommits
      /\ trees' \in [0..MaxCommits -> [Files -> 0..MaxCommits]]
  BY <1>1, GrowFacts DEF Inv
<1>3. (\A r \in Runners : SoundRun(r)') /\ OnlyTracked'
  BY <1>1, GrowKeeps
<1>4. TypeOK'
  BY <1>1, <1>2 DEF Inv, TypeOK
<1>5. \A j \in JobIds : SoundJob(j)'
  BY <1>1, <1>2 DEF Inv, SoundJob, Commits
<1>6. OkIsEarned' /\ NoOrphans'
  BY <1>1 DEF Inv, OkIsEarned, NoOrphans, Unfinished, Attended
<1> QED
  BY <1>3, <1>4, <1>5, <1>6 DEF Inv

LEMMA RefreshInv ==
    ASSUME Inv, Refresh
    PROVE  Inv'
<1>1. Enqueue(Latest, {})
      /\ UNCHANGED <<trees, head, retrying, runs, disk, project, lost, stored>>
  BY DEF Refresh, github
<1>2. head' \in 0..MaxCommits /\ head <= head' /\ Latest \in Shas /\ Latest \notin Commits
  BY <1>1 DEF Inv, TypeOK, Commits, Shas
<1>3. /\ jobs' \in [JobIds -> Job] /\ tasks' \in [JobIds -> 0..MaxTasks]
      /\ \A j \in JobIds : SoundJob(j)'
      /\ OkIsEarned' /\ NoOrphans'
  BY <1>1, <1>2, EnqueueFacts
<1>4. TypeOK'
  BY <1>1, <1>3 DEF Inv, TypeOK
<1> QED
  BY <1>1, <1>3, <1>4 DEF Inv, SoundRun, OnlyTracked

LEMMA RetryInv ==
    ASSUME Inv, NEW j \in JobIds, ReadForRetry(j) \/ Retry(j)
    PROVE  Inv'
<1>1. CASE ReadForRetry(j)
  <2>1. TypeOK'
    BY <1>1 DEF Inv, TypeOK, ReadForRetry, github
  <2> QED
    BY <1>1, <2>1 DEF Inv, ReadForRetry, github, SoundJob, SoundRun, OkIsEarned, OnlyTracked,
                      NoOrphans, Unfinished, Attended
<1>2. CASE Retry(j)
  <2>0. [jobs[j] EXCEPT !.status = "pending"] \in Job
    BY RowTypes DEF Inv, JobStatuses
  <2>1. jobs' \in [JobIds -> Job] /\ tasks' \in [JobIds -> 0..MaxTasks]
    BY <1>2, <2>0 DEF Inv, TypeOK, Retry, Requeued
  <2>2. TypeOK'
    BY <1>2, <2>1 DEF Inv, TypeOK, Retry, github
  <2>3. \A k \in JobIds : /\ jobs'[k].sha = jobs[k].sha /\ jobs'[k].paths = jobs[k].paths
                          /\ jobs'[k].status = "ok" => jobs[k].status = "ok"
                          /\ k # j => jobs'[k] = jobs[k] /\ tasks'[k] = tasks[k]
                                      /\ (k \in lost => k \in lost')
    BY <1>2 DEF Inv, TypeOK, Job, Retry, Requeued
  <2>4. tasks'[j] > 0
    BY <1>2 DEF Inv, TypeOK, Retry, Requeued
  <2>5. (\A k \in JobIds : SoundJob(k)') /\ OkIsEarned'
    BY <1>2, <2>3 DEF Inv, SoundJob, OkIsEarned, Retry, github
  <2>6. (\A r \in Runners : SoundRun(r)') /\ OnlyTracked'
    BY <1>2 DEF Inv, SoundRun, OnlyTracked, Retry, github
  <2>7. NoOrphans'
    BY <1>2, <2>3, <2>4 DEF Inv, NoOrphans, Unfinished, Attended, Retry
  <2> QED
    BY <2>2, <2>5, <2>6, <2>7 DEF Inv
<1> QED
  BY <1>1, <1>2

-----------------------------------------------------------------------------
(* The steps of a run.                                                     *)

LEMMA MoveFacts ==
    ASSUME Inv, NEW r \in Runners, NEW run \in Run, Move(r, run)
    PROVE  /\ runs' \in [Runners -> Run] /\ runs'[r] = run
           /\ \A s \in Runners : s # r => runs'[s] = runs[s]
BY DEF Inv, TypeOK, Move

LEMMA RunsFacts ==
    ASSUME Inv, NEW r \in Runners, runs[r].pc # "idle"
    PROVE  /\ runs[r] \in Run /\ runs[r].job \in JobIds /\ RunOf(r) = jobs[runs[r].job]
           /\ RunOf(r) \in Job /\ RunOf(r).sha \in Shas
           /\ \A pc \in {"idle", "fetch", "install", "history", "conclude"} :
                 /\ Bare(r, pc) \in Run /\ Bare(r, pc).pc = pc
                 /\ Bare(r, pc).job = runs[r].job /\ ~Bare(r, pc).patches
<1>1. runs[r] \in Run /\ runs[r].job \in JobIds
  BY DEF Inv, TypeOK, SoundRun
<1>2. RunOf(r) = jobs[runs[r].job] /\ RunOf(r) \in Job
  BY <1>1 DEF RunOf, Inv, TypeOK
<1>3. RunOf(r).sha \in Shas
  BY <1>2 DEF Job
<1>4. \A pc \in {"idle", "fetch", "install", "history", "conclude"} :
          /\ Bare(r, pc) \in Run /\ Bare(r, pc).pc = pc
          /\ Bare(r, pc).job = runs[r].job /\ ~Bare(r, pc).patches
  BY <1>1, RowTypes DEF Bare, Run, Idle
<1> QED
  BY <1>1, <1>2, <1>3, <1>4

(* A row whose commit and paths stay keeps what is known about jobs.       *)
LEMMA JobFacts ==
    ASSUME Inv, NEW j \in JobIds, NEW row \in Job, jobs' = [jobs EXCEPT ![j] = row],
           row.sha = jobs[j].sha, row.paths = jobs[j].paths, UNCHANGED head
    PROVE  /\ jobs' \in [JobIds -> Job] /\ jobs'[j] = row
           /\ \A k \in JobIds : k # j => jobs'[k] = jobs[k]
           /\ \A k \in JobIds : SoundJob(k)'
<1>1. jobs' \in [JobIds -> Job] /\ jobs'[j] = row
      /\ \A k \in JobIds : k # j => jobs'[k] = jobs[k]
  BY DEF Inv, TypeOK
<1>2. \A k \in JobIds : SoundJob(k)'
  BY <1>1 DEF Inv, SoundJob
<1> QED
  BY <1>1, <1>2

(* A run that ends leaves its job with a final status: nothing hangs.      *)
LEMMA EndFacts ==
    ASSUME Inv, NEW r \in Runners, runs[r].pc # "idle", NEW state \in {"ok", "failed"},
           jobs' = [jobs EXCEPT ![runs[r].job].status = state], Move(r, Idle),
           state = "ok" => runs[r].job \in stored,
           UNCHANGED <<head, trees, tasks, retrying, disk, lost, stored>>, project' \in Project
    PROVE  Inv'
<1> DEFINE j == runs[r].job
           row == [jobs[j] EXCEPT !.status = state]
<1>1. j \in JobIds
  BY RunsFacts
<1>2. row \in Job
  BY <1>1, RowTypes DEF Inv, JobStatuses
<1>3. row.sha = jobs[j].sha /\ row.paths = jobs[j].paths /\ row.status = state
  BY <1>1 DEF Inv, TypeOK, Job
<1>4. jobs' = [jobs EXCEPT ![j] = row]
  OBVIOUS
<1> HIDE DEF row
<1>5. /\ jobs' \in [JobIds -> Job] /\ jobs'[j] = row
      /\ \A k \in JobIds : k # j => jobs'[k] = jobs[k]
      /\ \A k \in JobIds : SoundJob(k)'
  BY <1>1, <1>2, <1>3, <1>4, JobFacts
<1>6. /\ runs' \in [Runners -> Run] /\ runs'[r] = Idle
      /\ \A s \in Runners : s # r => runs'[s] = runs[s]
  BY RowTypes, MoveFacts
<1>7. TypeOK'
  BY <1>5, <1>6 DEF Inv, TypeOK
<1>8. \A s \in Runners : SoundRun(s)'
  BY <1>6 DEF Inv, SoundRun, Idle
<1>9. OkIsEarned' /\ OnlyTracked'
  BY <1>3, <1>5 DEF Inv, OkIsEarned, OnlyTracked
<1>10. NoOrphans'
  <2> SUFFICES ASSUME NEW k \in JobIds, jobs'[k].status \in {"pending", "running"}
               PROVE  Attended(k)' \/ k \in lost'
    BY DEF NoOrphans, Unfinished
  <2>1. k # j /\ jobs'[k] = jobs[k] /\ k \in Unfinished
    BY <1>3, <1>5 DEF Unfinished
  <2>2. CASE tasks[k] > 0 \/ k \in lost
    BY <2>2 DEF Attended
  <2>3. CASE \E s \in Runners : runs[s].pc # "idle" /\ runs[s].job = k
    BY <2>1, <2>3, <1>6 DEF Attended
  <2> QED
    BY <2>1, <2>2, <2>3 DEF Inv, NoOrphans, Attended
<1> QED
  BY <1>5, <1>7, <1>8, <1>9, <1>10 DEF Inv

LEMMA BeginInv ==
    ASSUME Inv, NEW r \in Runners, NEW j \in JobIds, Begin(r, j)
    PROVE  Inv'
<1> DEFINE row == [jobs[j] EXCEPT !.status = "running"]
           run == [Idle EXCEPT !.pc = "fetch", !.job = j]
<1>1. /\ runs[r].pc = "idle" /\ tasks[j] > 0
      /\ tasks' = [tasks EXCEPT ![j] = tasks[j] - 1]
      /\ UNCHANGED <<trees, head, retrying, disk, project, lost, stored>>
  BY DEF Begin, At, github
<1>2. tasks' \in [JobIds -> 0..MaxTasks] /\ \A k \in JobIds : k # j => tasks'[k] = tasks[k]
  BY <1>1 DEF Inv, TypeOK
<1>3. CASE jobs[j].status = "ok"
  <2>1. UNCHANGED <<jobs, runs>>
    BY <1>3 DEF Begin
  <2>2. TypeOK'
    BY <1>1, <1>2, <2>1 DEF Inv, TypeOK
  <2>3. NoOrphans'
    BY <1>1, <1>2, <1>3, <2>1 DEF Inv, NoOrphans, Unfinished, Attended
  <2> QED
    BY <1>1, <2>1, <2>2, <2>3 DEF Inv, SoundJob, SoundRun, OkIsEarned, OnlyTracked
<1>4. CASE jobs[j].status # "ok"
  <2>1. jobs' = [jobs EXCEPT ![j] = row] /\ Move(r, run)
    BY <1>4 DEF Begin
  <2>2. row \in Job
    BY RowTypes DEF Inv, JobStatuses
  <2>3. row.sha = jobs[j].sha /\ row.paths = jobs[j].paths /\ row.status = "running"
    BY DEF Inv, TypeOK, Job
  <2>4. run \in Run /\ run.pc = "fetch" /\ run.job = j
    BY RowTypes DEF Idle, Run
  <2> HIDE DEF row, run
  <2>5. /\ jobs' \in [JobIds -> Job] /\ jobs'[j] = row
        /\ \A k \in JobIds : k # j => jobs'[k] = jobs[k]
        /\ \A k \in JobIds : SoundJob(k)'
    BY <1>1, <2>1, <2>2, <2>3, JobFacts
  <2>6. /\ runs' \in [Runners -> Run] /\ runs'[r] = run
        /\ \A s \in Runners : s # r => runs'[s] = runs[s]
    BY <2>1, <2>4, MoveFacts
  <2>7. TypeOK'
    BY <1>1, <1>2, <2>5, <2>6 DEF Inv, TypeOK
  <2>8. \A s \in Runners : SoundRun(s)'
    BY <1>1, <2>4, <2>6 DEF Inv, SoundRun
  <2>9. OkIsEarned' /\ OnlyTracked'
    BY <1>1, <2>3, <2>5 DEF Inv, OkIsEarned, OnlyTracked
  <2>10. NoOrphans'
    <3> SUFFICES ASSUME NEW k \in JobIds, jobs'[k].status \in {"pending", "running"}
                 PROVE  Attended(k)' \/ k \in lost'
      BY DEF NoOrphans, Unfinished
    <3>1. CASE k = j
      BY <2>4, <2>6, <3>1 DEF Attended
    <3>2. CASE k # j
      <4>1. jobs'[k] = jobs[k] /\ tasks'[k] = tasks[k] /\ k \in Unfinished
        BY <1>2, <2>5, <3>2 DEF Unfinished
      <4>2. Attended(k) \/ k \in lost
        BY <4>1 DEF Inv, NoOrphans
      <4>3. ASSUME NEW s \in Runners, runs[s].pc # "idle", runs[s].job = k
            PROVE  s # r /\ runs'[s] = runs[s]
        BY <1>1, <2>6, <4>3
      <4> QED
        BY <1>1, <4>1, <4>2, <4>3 DEF Attended
    <3> QED
      BY <3>1, <3>2
  <2> QED
    BY <2>5, <2>7, <2>8, <2>9, <2>10 DEF Inv
<1> QED
  BY <1>3, <1>4

(* A run that goes on still attends to its job.                            *)
LEMMA GoesOn ==
    ASSUME Inv, NEW r \in Runners, runs[r].pc # "idle",
           NEW run \in Run, Move(r, run), run.pc # "idle", run.job = runs[r].job,
           \A j \in JobIds : jobs'[j].status = jobs[j].status, UNCHANGED <<tasks, lost>>
    PROVE  NoOrphans'
<1>1. /\ runs' \in [Runners -> Run] /\ runs'[r] = run
      /\ \A s \in Runners : s # r => runs'[s] = runs[s]
  BY MoveFacts
<1>2. \A j \in JobIds : Attended(j) => Attended(j)'
  BY <1>1 DEF Attended
<1> QED
  BY <1>2 DEF Inv, NoOrphans, Unfinished

LEMMA SkipInv ==
    ASSUME Inv, NEW r \in Runners, Skip(r)
    PROVE  Inv'
<1> DEFINE run == Bare(r, "history")
<1>1. /\ runs[r].pc = "fetch" /\ stored' = stored \cup {runs[r].job} /\ Move(r, run)
      /\ UNCHANGED <<trees, head, jobs, tasks, retrying, disk, project, lost>>
  BY DEF Skip, At, github
<1>2. run \in Run /\ run.pc = "history" /\ run.job = runs[r].job /\ runs[r].job \in JobIds
  BY <1>1, RunsFacts
<1> HIDE DEF run
<1>3. /\ runs' \in [Runners -> Run] /\ runs'[r] = run
      /\ \A s \in Runners : s # r => runs'[s] = runs[s]
  BY <1>1, <1>2, MoveFacts
<1>4. TypeOK'
  BY <1>1, <1>2, <1>3 DEF Inv, TypeOK
<1>5. \A s \in Runners : SoundRun(s)'
  BY <1>1, <1>2, <1>3 DEF Inv, SoundRun
<1>6. NoOrphans'
  BY <1>1, <1>2, GoesOn
<1> QED
  BY <1>1, <1>4, <1>5, <1>6 DEF Inv, SoundJob, OkIsEarned, OnlyTracked

LEMMA PatchInv ==
    ASSUME Inv, NEW r \in Runners, Patch(r)
    PROVE  Inv'
<1> DEFINE j == runs[r].job
           run == [Bare(r, "history") EXCEPT !.patches = TRUE,
                                             !.setsSha = project.sha # jobs[j].sha,
                                             !.setsState = project.state # "ok"]
<1>1. /\ runs[r].pc = "fetch" /\ jobs[j].sha # Elsewhere /\ PatchedPaths(j) # {}
      /\ disk' = [p \in Files |-> IF p \in PatchedPaths(j) THEN Contents(jobs[j].sha)[p]
                                  ELSE disk[p]]
      /\ Move(r, run)
      /\ UNCHANGED <<trees, head, jobs, tasks, retrying, project, lost, stored>>
  BY DEF Patch, At, github, OtherBranch, RunOf
<1>2. runs[r] \in Run /\ j \in JobIds /\ jobs[j].sha \in Shas
  BY <1>1, RunsFacts
<1>3. run \in Run /\ run.pc = "history" /\ run.patches /\ run.job = j
  <2>1. Bare(r, "history") \in Run /\ Bare(r, "history").pc = "history"
        /\ Bare(r, "history").job = j
    BY <1>1, RunsFacts
  <2> QED
    BY <2>1 DEF Run
<1>4. jobs[j].sha \in 0..head /\ jobs[j].sha \in 0..MaxCommits
  <2>1. jobs[j].sha # Latest
    BY <1>1, <1>2 DEF Inv, SoundJob, PatchedPaths
  <2>2. jobs[j].sha \in Commits
    BY <1>1, <1>2, <2>1 DEF Shas
  <2> QED
    BY <1>2, <2>2 DEF Inv, TypeOK, SoundJob, Commits
<1>5. Contents(jobs[j].sha) = trees[jobs[j].sha]
  BY <1>1 DEF Contents
<1> HIDE DEF run, j
<1>6. /\ runs' \in [Runners -> Run] /\ runs'[r] = run
      /\ \A s \in Runners : s # r => runs'[s] = runs[s]
  BY <1>1, <1>3, MoveFacts
<1>7. trees[jobs[j].sha] \in [Files -> Versions] /\ disk \in [Files -> Versions]
  BY <1>4 DEF Inv, TypeOK, Versions
<1>8. disk' \in [Files -> Versions]
  BY <1>1, <1>5, <1>7
<1>9. TypeOK'
  BY <1>1, <1>6, <1>8 DEF Inv, TypeOK
<1>10. \A s \in Runners : SoundRun(s)'
  BY <1>1, <1>2, <1>3, <1>6 DEF Inv, SoundRun
<1>11. NoOrphans'
  BY <1>1, <1>3, GoesOn DEF j
<1>12. OnlyTracked'
  <2> SUFFICES ASSUME NEW p \in Files PROVE \E c \in 0..head : disk'[p] = trees[c][p]
    BY <1>1 DEF OnlyTracked
  <2>1. disk'[p] = trees[jobs[j].sha][p] \/ disk'[p] = disk[p]
    BY <1>1, <1>5
  <2> QED
    BY <1>4, <2>1 DEF Inv, OnlyTracked
<1> QED
  BY <1>1, <1>9, <1>10, <1>11, <1>12 DEF Inv, SoundJob, OkIsEarned

LEMMA DownloadInv ==
    ASSUME Inv, NEW r \in Runners, Download(r)
    PROVE  Inv'
<1> DEFINE from == IF RunOf(r).sha = Latest THEN head ELSE RunOf(r).sha
           run == [Bare(r, "install") EXCEPT !.from = from]
<1>1. /\ runs[r].pc = "fetch" /\ RunOf(r).sha # Elsewhere
      /\ project' = [project EXCEPT !.state = "pending"] /\ Move(r, run)
      /\ UNCHANGED <<trees, head, jobs, tasks, retrying, disk, lost, stored>>
  BY DEF Download, At, github, OtherBranch
<1>2. runs[r] \in Run /\ runs[r].job \in JobIds /\ RunOf(r) = jobs[runs[r].job]
      /\ RunOf(r).sha \in Shas
  BY <1>1, RunsFacts
<1>3. from \in 0..head
  BY <1>1, <1>2 DEF Inv, TypeOK, SoundJob, Shas, Commits
<1>4. from \in Versions
  BY <1>3 DEF Inv, TypeOK, Versions
<1> HIDE DEF from
<1>5. run \in Run /\ run.pc = "install" /\ run.from = from /\ run.job = runs[r].job
  <2>1. Bare(r, "install") \in Run /\ Bare(r, "install").pc = "install"
        /\ Bare(r, "install").job = runs[r].job
    BY <1>1, RunsFacts
  <2> QED
    BY <1>4, <2>1 DEF Run
<1> HIDE DEF run
<1>6. /\ runs' \in [Runners -> Run] /\ runs'[r] = run
      /\ \A s \in Runners : s # r => runs'[s] = runs[s]
  BY <1>1, <1>5, MoveFacts
<1>7. TypeOK'
  BY <1>1, <1>6 DEF Inv, TypeOK, Project
<1>8. \A s \in Runners : SoundRun(s)'
  BY <1>1, <1>2, <1>3, <1>5, <1>6 DEF Inv, SoundRun
<1>9. NoOrphans'
  BY <1>1, <1>5, GoesOn
<1> QED
  BY <1>1, <1>7, <1>8, <1>9 DEF Inv, SoundJob, OkIsEarned, OnlyTracked

LEMMA InstallInv ==
    ASSUME Inv, NEW r \in Runners, Install(r)
    PROVE  Inv'
<1> DEFINE run == Bare(r, "history")
<1>1. /\ runs[r].pc = "install" /\ disk' = Contents(runs[r].from)
      /\ project' = [sha |-> RunOf(r).sha, state |-> "ok"]
      /\ stored' = stored \cup {runs[r].job} /\ Move(r, run)
      /\ UNCHANGED <<trees, head, jobs, tasks, retrying, lost>>
  BY DEF Install, At, github
<1>2. /\ run \in Run /\ run.pc = "history" /\ run.job = runs[r].job
      /\ runs[r].job \in JobIds /\ RunOf(r).sha \in Shas
  BY <1>1, RunsFacts
<1>3. runs[r].from \in 0..head /\ runs[r].from \in 0..MaxCommits
  BY <1>1 DEF Inv, TypeOK, SoundRun
<1>4. disk' = trees[runs[r].from]
  BY <1>1, <1>3 DEF Contents
<1> HIDE DEF run
<1>5. /\ runs' \in [Runners -> Run] /\ runs'[r] = run
      /\ \A s \in Runners : s # r => runs'[s] = runs[s]
  BY <1>1, <1>2, MoveFacts
<1>6. disk' \in [Files -> Versions] /\ project' \in Project
  BY <1>1, <1>2, <1>3, <1>4 DEF Inv, TypeOK, Versions, Project, Shas, Commits
<1>7. TypeOK'
  BY <1>1, <1>2, <1>5, <1>6 DEF Inv, TypeOK
<1>8. \A s \in Runners : SoundRun(s)'
  BY <1>1, <1>2, <1>5 DEF Inv, SoundRun
<1>9. NoOrphans'
  BY <1>1, <1>2, GoesOn
<1>10. OnlyTracked'
  BY <1>1, <1>3, <1>4 DEF OnlyTracked
<1> QED
  BY <1>1, <1>7, <1>8, <1>9, <1>10 DEF Inv, SoundJob, OkIsEarned

LEMMA CaptureInv ==
    ASSUME Inv, NEW r \in Runners, NEW unread \in BOOLEAN, Capture(r, unread)
    PROVE  Inv'
<1> DEFINE j == runs[r].job
           row == [jobs[j] EXCEPT !.unread = unread]
           run == Bare(r, "conclude")
<1>1. /\ runs[r].pc = "history" /\ jobs' = [jobs EXCEPT ![j] = row] /\ Move(r, run)
      /\ UNCHANGED <<trees, head, tasks, retrying, disk, lost>>
  BY DEF Capture, At, github
<1>2. IF runs[r].patches THEN project' = Recorded(r) /\ stored' = stored \cup {j}
                         ELSE UNCHANGED <<project, stored>>
  BY DEF Capture
<1>3. runs[r] \in Run /\ j \in JobIds /\ RunOf(r).sha \in Shas
  BY <1>1, RunsFacts
<1>4. run \in Run /\ run.pc = "conclude" /\ run.job = j
  BY <1>1, RunsFacts
<1>5. row \in Job
  BY <1>3, RowTypes DEF Inv
<1>6. row.sha = jobs[j].sha /\ row.paths = jobs[j].paths /\ row.status = jobs[j].status
  BY <1>3 DEF Inv, TypeOK, Job
<1>7. stored \subseteq stored' /\ stored' \in SUBSET JobIds /\ j \in stored'
  BY <1>1, <1>2, <1>3 DEF Inv, TypeOK, SoundRun
<1>8. project' \in Project
  BY <1>2, <1>3 DEF Inv, TypeOK, Recorded, Project, Shas
<1> HIDE DEF row, run
<1>9. /\ jobs' \in [JobIds -> Job] /\ jobs'[j] = row
      /\ \A k \in JobIds : k # j => jobs'[k] = jobs[k]
      /\ \A k \in JobIds : SoundJob(k)'
  BY <1>1, <1>3, <1>5, <1>6, JobFacts
<1>10. /\ runs' \in [Runners -> Run] /\ runs'[r] = run
       /\ \A s \in Runners : s # r => runs'[s] = runs[s]
  BY <1>1, <1>4, MoveFacts
<1>11. TypeOK'
  BY <1>1, <1>7, <1>8, <1>9, <1>10 DEF Inv, TypeOK
<1>12. \A s \in Runners : SoundRun(s)'
  BY <1>1, <1>3, <1>4, <1>7, <1>10 DEF Inv, SoundRun
<1>13. \A k \in JobIds : jobs'[k].status = jobs[k].status
  BY <1>6, <1>9
<1>14. OkIsEarned' /\ OnlyTracked'
  BY <1>1, <1>7, <1>13 DEF Inv, OkIsEarned, OnlyTracked
<1>15. NoOrphans'
  BY <1>1, <1>4, <1>13, GoesOn
<1> QED
  BY <1>9, <1>11, <1>12, <1>14, <1>15 DEF Inv

LEMMA EndInv ==
    ASSUME Inv, NEW r \in Runners, InstallFails(r) \/ Conclude(r) \/ Fail(r)
    PROVE  Inv'
<1>1. CASE InstallFails(r)
  <2>1. project' \in Project
    BY <1>1 DEF InstallFails, Inv, TypeOK, Project
  <2> QED
    BY <1>1, <2>1, EndFacts DEF InstallFails, At, github
<1>2. CASE Conclude(r)
  <2>0. project' \in Project
    BY <1>2 DEF Conclude, Inv, TypeOK
  <2>1. Concluded(runs[r].job) \in {"ok", "failed"} /\ runs[r].job \in stored
    BY <1>2 DEF Conclude, At, Concluded, Inv, SoundRun
  <2> QED
    BY <1>2, <2>0, <2>1, EndFacts DEF Conclude, At, github
<1>3. CASE Fail(r)
  <2>1. project' \in Project
    BY <1>3 DEF Fail, Inv, TypeOK
  <2> QED
    BY <1>3, <2>1, EndFacts DEF Fail, Failure, github
<1> QED
  BY <1>1, <1>2, <1>3

-----------------------------------------------------------------------------
(* A stop of the server.                                                   *)

LEMMA RestartInv ==
    ASSUME Inv, Restart
    PROVE  Inv'
<1>1. PICK old \in SUBSET {j \in JobIds : jobs[j].status = "running"} :
          /\ runs' = [r \in Runners |-> Idle]
          /\ tasks' = [j \in JobIds |-> 0]
          /\ retrying' = [j \in JobIds |-> "no"]
          /\ jobs' = [j \in JobIds |-> IF j \in old THEN [jobs[j] EXCEPT !.status = "failed"]
                                       ELSE jobs[j]]
          /\ lost' = Unfinished \ old
          /\ UNCHANGED <<trees, head, disk, project, stored>>
  BY DEF Restart, github
<1>2. \A j \in JobIds : [jobs[j] EXCEPT !.status = "failed"] \in Job /\ jobs[j] \in Job
  BY RowTypes DEF Inv, TypeOK, JobStatuses
<1>3. /\ jobs' \in [JobIds -> Job]
      /\ \A j \in JobIds : /\ jobs'[j].sha = jobs[j].sha /\ jobs'[j].paths = jobs[j].paths
                           /\ j \in old => jobs'[j].status = "failed"
                           /\ j \notin old => jobs'[j] = jobs[j]
  BY <1>1, <1>2 DEF Job
<1>4. runs' \in [Runners -> Run] /\ \A r \in Runners : runs'[r] = Idle
  BY <1>1, RowTypes
<1>5. tasks' \in [JobIds -> 0..MaxTasks] /\ lost' \in SUBSET JobIds
  BY <1>1 DEF Unfinished
<1>6. TypeOK'
  BY <1>1, <1>3, <1>4, <1>5 DEF Inv, TypeOK
<1>7. (\A j \in JobIds : SoundJob(j)') /\ OkIsEarned'
  BY <1>1, <1>3 DEF Inv, SoundJob, OkIsEarned
<1>8. \A r \in Runners : SoundRun(r)'
  BY <1>4 DEF SoundRun, Idle
<1>9. NoOrphans'
  BY <1>1, <1>3 DEF NoOrphans, Unfinished
<1>10. OnlyTracked'
  BY <1>1 DEF Inv, OnlyTracked
<1> QED
  BY <1>6, <1>7, <1>8, <1>9, <1>10 DEF Inv

-----------------------------------------------------------------------------
LEMMA StepInv == Inv /\ [Next]_vars => Inv'
<1> SUFFICES ASSUME Inv, [Next]_vars PROVE Inv'
  OBVIOUS
<1>1. CASE UNCHANGED vars
  <2>1. TypeOK'
    BY <1>1 DEF vars, Inv, TypeOK
  <2> QED
    BY <1>1, <2>1 DEF vars, Inv, SoundJob, SoundRun, OkIsEarned, OnlyTracked, NoOrphans,
                      Unfinished, Attended
<1>2. ASSUME NEW p \in Files, CommitOne(p)
      PROVE  Inv'
  BY <1>2, CommitInv, {p} \in SUBSET Files DEF CommitOne
<1>3. ASSUME NEW paths \in (SUBSET Files) \ {{}}, CommitMany(paths) \/ Push(paths)
      PROVE  Inv'
  BY <1>3, CommitInv, PushInv, {} \in SUBSET Files DEF CommitMany
<1>4. CASE CommitElsewhere \/ Refresh
  BY <1>4, ElsewhereInv, RefreshInv
<1>5. CASE Restart
  BY <1>5, RestartInv
<1>6. ASSUME NEW j \in JobIds, ReadForRetry(j) \/ Retry(j)
      PROVE  Inv'
  BY <1>6, RetryInv
<1>7. ASSUME NEW r \in Runners, Work(r)
      PROVE  Inv'
  BY <1>7, BeginInv, SkipInv, PatchInv, DownloadInv, InstallInv, CaptureInv, EndInv DEF Work
<1> QED
  BY <1>1, <1>2, <1>3, <1>4, <1>5, <1>6, <1>7 DEF Next

LEMMA Invariance == Spec => []Inv
<1>1. Init => Inv
  BY InitInv
<1>2. Inv /\ [Next]_vars => Inv'
  BY StepInv
<1> QED
  BY <1>1, <1>2, PTL DEF Spec

(* Jobs, runs and the project's row keep their columns and statuses: no    *)
(* step of run_job, retry_sync or recover writes anything else.            *)
THEOREM TypeCorrect == Spec => []TypeOK
<1>1. Inv => TypeOK
  BY DEF Inv
<1> QED
  BY <1>1, Invariance, PTL

(* A job that says ok had its content stored by one of its runs, whatever  *)
(* retries, failures and stops of the server came between.                 *)
THEOREM OkIsEarnedHolds == Spec => []OkIsEarned
<1>1. Inv => OkIsEarned
  BY DEF Inv
<1> QED
  BY <1>1, Invariance, PTL

(* Every stored file is a version of it on the tracked branch: commits on  *)
(* another branch leave the copy alone (workspace_sync.py:4).              *)
THEOREM OnlyTrackedHolds == Spec => []OnlyTracked
<1>1. Inv => OnlyTracked
  BY DEF Inv
<1> QED
  BY <1>1, Invariance, PTL

(* A waiting or running job has a task or a runner, unless a stop of the   *)
(* server took them.                                                       *)
THEOREM NoOrphansHolds == Spec => []NoOrphans
<1>1. Inv => NoOrphans
  BY DEF Inv
<1> QED
  BY <1>1, Invariance, PTL
=============================================================================
