--------------------------- MODULE WorkspaceSync ---------------------------
(***************************************************************************)
(* Keeping the stored copy of a linked repository up to date               *)
(* (app/services/workspace_sync.py, app/services/source_state.py, and the  *)
(* part of app/routes/workspace.py that queues sync jobs).                 *)
(*                                                                         *)
(* GitHub is outside: its tracked branch is a line of commits 1..head, and *)
(* the content of a file is the number of the last commit that changed it. *)
(* A commit made here leaves a job behind, and a task of the server's      *)
(* thread pool runs it; a commit pushed from elsewhere leaves none.  The   *)
(* stored files are written at once, the project's row at the commits of   *)
(* the run, so a run is one action per commit or write to the disk.        *)
(***************************************************************************)
EXTENDS Naturals

CONSTANTS
    Runners,     \* threads that run background tasks
    JobIds,      \* ids of workspace_sync_jobs; as many jobs as are ever made
    Files,       \* the paths of the repository
    Manifests,   \* the paths that matter() to the analysis
    MaxCommits,  \* bound on the commits of the tracked branch
    MaxTasks,    \* bound on the tasks waiting for one job
    Latest,      \* the commit of a refresh: none is named, the branch is read
    Elsewhere,   \* a commit, and any content, of another branch
    NoJob        \* the id of no job

ASSUME FilesAssumption == Manifests \subseteq Files
ASSUME BoundsAssumption == MaxCommits \in Nat /\ MaxTasks \in Nat \ {0}
ASSUME ValuesAssumption == /\ Latest \notin Nat /\ Elsewhere \notin Nat /\ Latest # Elsewhere
                           /\ NoJob \notin JobIds

VARIABLES
    trees,       \* trees[c]: the files at commit c of the tracked branch, c in 0..head
    head,        \* the last commit of the tracked branch
    jobs,        \* the rows of workspace_sync_jobs
    tasks,       \* tasks[j]: how many background tasks for job j are waiting
    retrying,    \* retrying[j]: what a retry of job j has read, or "no"
    runs,        \* runs[r]: the job runner r is at, and how far
    disk,        \* the stored files
    project,     \* the snapshot columns of the project's row
    lost,        \* the jobs a stop of the server left without a task
    stored       \* the jobs whose content some run has stored (or rightly left alone)

github == <<trees, head>>
vars == <<trees, head, jobs, tasks, retrying, runs, disk, project, lost, stored>>

Commits == 1..MaxCommits
Shas == Commits \cup {Latest, Elsewhere}
Versions == 0..MaxCommits \cup {Elsewhere}
JobStatuses == {"none", "pending", "running", "ok", "failed"}

(* paths holds the job's path, which only the commit of one file names;    *)
(* unread: the history step has failed.                                    *)
Job == [status : JobStatuses, sha : Shas, paths : SUBSET Files,
        unread : BOOLEAN]
NoJobRow == [status |-> "none", sha |-> Latest, paths |-> {}, unread |-> FALSE]

(* What a run holds: the commit an archive was taken from, whether it has  *)
(* patched a file, and which of the project's columns it read differ from  *)
(* what it will set (an update writes only those).                         *)
Project == [sha : Commits \cup {0, Latest, Elsewhere}, state : {"pending", "ok", "failed"}]
Run == [pc : {"idle", "fetch", "install", "history", "conclude"}, job : JobIds \cup {NoJob},
        from : Versions, patches : BOOLEAN, setsSha : BOOLEAN, setsState : BOOLEAN]
Start == [sha |-> 0, state |-> "ok"]
Idle == [pc |-> "idle", job |-> NoJob, from |-> 0, patches |-> FALSE,
         setsSha |-> FALSE, setsState |-> FALSE]

(* Jobs, runs and the project's row hold only values their columns allow.  *)
TypeOK ==
    /\ head \in 0..MaxCommits /\ trees \in [0..MaxCommits -> [Files -> 0..MaxCommits]]
    /\ jobs \in [JobIds -> Job]
    /\ tasks \in [JobIds -> 0..MaxTasks]
    /\ retrying \in [JobIds -> {"no", "pending", "other"}]
    /\ runs \in [Runners -> Run]
    /\ disk \in [Files -> Versions]
    /\ project \in Project
    /\ lost \in SUBSET JobIds /\ stored \in SUBSET JobIds

(* The project has been imported: the copy is the branch as it was then.   *)
Init ==
    /\ head = 0 /\ trees = [c \in 0..MaxCommits |-> [p \in Files |-> 0]]
    /\ jobs = [j \in JobIds |-> NoJobRow]
    /\ tasks = [j \in JobIds |-> 0]
    /\ retrying = [j \in JobIds |-> "no"]
    /\ runs = [r \in Runners |-> Idle]
    /\ disk = [p \in Files |-> 0]
    /\ project = Start
    /\ lost = {} /\ stored = {}

(* The content of the repository at a commit.                              *)
Contents(c) == IF c = Elsewhere THEN [p \in Files |-> Elsewhere] ELSE trees[c]

-----------------------------------------------------------------------------
(* Commits and jobs.                                                       *)

(* enqueue, and the background task its caller adds.                       *)
Unused == {j \in JobIds : jobs[j].status = "none"}
Enqueue(sha, paths) ==
    \E j \in Unused :
        /\ jobs' = [jobs EXCEPT ![j] = [status |-> "pending", sha |-> sha, paths |-> paths,
                                        unread |-> FALSE]]
        /\ tasks' = [tasks EXCEPT ![j] = 1]

Grow(paths) ==
    /\ head < MaxCommits
    /\ head' = head + 1
    /\ trees' = [trees EXCEPT ![head + 1] =
                     [p \in Files |-> IF p \in paths THEN head + 1 ELSE trees[head][p]]]

(* commit_one and commit_many: GitHub accepts the commit, _finish queues a *)
(* job.  The job of commit_many names no path.                             *)
CommitOne(p) ==
    /\ Grow({p}) /\ Enqueue(head + 1, {p})
    /\ UNCHANGED <<retrying, runs, disk, project, lost, stored>>

CommitMany(paths) ==
    /\ Grow(paths) /\ Enqueue(head + 1, {})
    /\ UNCHANGED <<retrying, runs, disk, project, lost, stored>>

(* Either of them to a branch that is not the tracked one: its run never   *)
(* comes to look at the path.                                              *)
CommitElsewhere ==
    /\ Enqueue(Elsewhere, {})
    /\ UNCHANGED <<github, retrying, runs, disk, project, lost, stored>>

(* A push from outside, or a server that stopped before _finish.           *)
Push(paths) ==
    /\ Grow(paths)
    /\ UNCHANGED <<jobs, tasks, retrying, runs, disk, project, lost, stored>>

(* refresh_source *)
Refresh ==
    /\ Enqueue(Latest, {})
    /\ UNCHANGED <<github, retrying, runs, disk, project, lost, stored>>

(* retry_sync reads the job, then writes "pending" if it read something    *)
(* else, and adds a task.                                                  *)
ReadForRetry(j) ==
    /\ retrying[j] = "no" /\ jobs[j].status \notin {"none", "ok"}
    /\ retrying' = [retrying EXCEPT ![j] = IF jobs[j].status = "pending" THEN "pending" ELSE "other"]
    /\ UNCHANGED <<github, jobs, tasks, runs, disk, project, lost, stored>>

NotRequeued(j) == tasks
Requeued(j) == [tasks EXCEPT ![j] = tasks[j] + 1]

Retry(j) ==
    /\ retrying[j] # "no" /\ tasks[j] < MaxTasks
    /\ jobs' = IF retrying[j] = "pending" THEN jobs ELSE [jobs EXCEPT ![j].status = "pending"]
    /\ tasks' = Requeued(j)
    /\ retrying' = [retrying EXCEPT ![j] = "no"]
    /\ lost' = lost \ {j}
    /\ UNCHANGED <<github, runs, disk, project, stored>>

-----------------------------------------------------------------------------
(* A run of a job: run_job.                                                *)

RunOf(r) == jobs[runs[r].job]
At(r, pc) == runs[r].pc = pc
Move(r, run) == runs' = [runs EXCEPT ![r] = run]
Bare(r, pc) == [Idle EXCEPT !.pc = pc, !.job = runs[r].job]

(* A task is taken up.  Nothing looks at whether the job is running.       *)
Begin(r, j) ==
    /\ At(r, "idle") /\ tasks[j] > 0
    /\ tasks' = [tasks EXCEPT ![j] = tasks[j] - 1]
    /\ IF jobs[j].status = "ok" THEN UNCHANGED <<jobs, runs>>
       ELSE /\ jobs' = [jobs EXCEPT ![j].status = "running"]
            /\ Move(r, [Idle EXCEPT !.pc = "fetch", !.job = j])
    /\ UNCHANGED <<github, retrying, disk, project, lost, stored>>

(* Another branch: the snapshot is left alone.                             *)
AnyBranch(r) == FALSE
OtherBranch(r) == RunOf(r).sha = Elsewhere
Skip(r) ==
    /\ At(r, "fetch") /\ OtherBranch(r)
    /\ stored' = stored \cup {runs[r].job}
    /\ Move(r, Bare(r, "history"))
    /\ UNCHANGED <<github, jobs, tasks, retrying, disk, project, lost>>

(* One file that matters() to no analysis is fetched and written in place; *)
(* anything else replaces the whole copy by an archive.                    *)
PatchedPaths(j) == jobs[j].paths \ Manifests

Patch(r) ==
    LET j == runs[r].job IN
    /\ At(r, "fetch") /\ ~OtherBranch(r) /\ PatchedPaths(j) # {}
    /\ disk' = [p \in Files |-> IF p \in PatchedPaths(j) THEN Contents(jobs[j].sha)[p] ELSE disk[p]]
    /\ Move(r, [Bare(r, "history") EXCEPT !.patches = TRUE,
                                          !.setsSha = project.sha # jobs[j].sha,
                                          !.setsState = project.state # "ok"])
    /\ UNCHANGED <<github, jobs, tasks, retrying, project, lost, stored>>

(* The archive is downloaded, and install_workspace_zip marks the copy.    *)
Download(r) ==
    /\ At(r, "fetch") /\ ~OtherBranch(r) /\ PatchedPaths(runs[r].job) = {}
    /\ project' = [project EXCEPT !.state = "pending"]
    /\ Move(r, [Bare(r, "install") EXCEPT
                   !.from = IF RunOf(r).sha = Latest THEN head ELSE RunOf(r).sha])
    /\ UNCHANGED <<github, jobs, tasks, retrying, disk, lost, stored>>

(* The new tree is swapped in and the project's row committed.             *)
Install(r) ==
    /\ At(r, "install")
    /\ disk' = Contents(runs[r].from)
    /\ project' = [sha |-> RunOf(r).sha, state |-> "ok"]
    /\ stored' = stored \cup {runs[r].job}
    /\ Move(r, Bare(r, "history"))
    /\ UNCHANGED <<github, jobs, tasks, retrying, lost>>

(* The archive cannot be extracted: the copy stays, and is marked.         *)
InstallFails(r) ==
    /\ At(r, "install")
    /\ project' = [project EXCEPT !.state = "failed"]
    /\ jobs' = [jobs EXCEPT ![runs[r].job].status = "failed"]
    /\ Move(r, Idle)
    /\ UNCHANGED <<github, tasks, retrying, disk, lost, stored>>

(* record_snapshot, as the update of a patch writes it.                    *)
Recorded(r) ==
    [sha |-> IF runs[r].setsSha THEN RunOf(r).sha ELSE project.sha,
     state |-> IF runs[r].setsState THEN "ok" ELSE project.state]

(* The history is read, or cannot be, and the run's own writes are         *)
(* committed.                                                              *)
Capture(r, unread) ==
    LET j == runs[r].job IN
    /\ At(r, "history")
    /\ jobs' = [jobs EXCEPT ![j].unread = unread]
    /\ IF runs[r].patches
       THEN project' = Recorded(r) /\ stored' = stored \cup {j}
       ELSE UNCHANGED <<project, stored>>
    /\ Move(r, Bare(r, "conclude"))
    /\ UNCHANGED <<github, tasks, retrying, disk, lost>>

(* The job is read again: what another run of it has made of the history   *)
(* counts.                                                                 *)
ConcludedDone(j) == "done"
Concluded(j) == IF jobs[j].unread THEN "failed" ELSE "ok"
Conclude(r) ==
    LET j == runs[r].job IN
    /\ At(r, "conclude")
    /\ jobs' = [jobs EXCEPT ![j].status = Concluded(j)]
    /\ Move(r, Idle)
    /\ UNCHANGED <<github, tasks, retrying, disk, project, lost, stored>>

(* GitHub, the token or the database fails: what the run has not committed *)
(* is rolled back, a file it has patched is not.                           *)
FailureKept(j) == Concluded(j)
Failure(j) == "failed"
Fail(r) ==
    LET j == runs[r].job IN
    /\ runs[r].pc \in {"fetch", "history", "conclude"}
    /\ jobs' = [jobs EXCEPT ![j].status = Failure(j)]
    /\ Move(r, Idle)
    /\ UNCHANGED <<github, tasks, retrying, disk, project, lost, stored>>

-----------------------------------------------------------------------------
(* The server stops and starts: threads and waiting tasks are gone.        *)
(* recover fails the running jobs that started long enough ago.            *)

Unfinished == {j \in JobIds : jobs[j].status \in {"pending", "running"}}
Restart ==
    \E old \in SUBSET {j \in JobIds : jobs[j].status = "running"} :
        /\ runs' = [r \in Runners |-> Idle]
        /\ tasks' = [j \in JobIds |-> 0]
        /\ retrying' = [j \in JobIds |-> "no"]
        /\ jobs' = [j \in JobIds |-> IF j \in old THEN [jobs[j] EXCEPT !.status = "failed"]
                                     ELSE jobs[j]]
        /\ lost' = Unfinished \ old
        /\ UNCHANGED <<github, disk, project, stored>>

-----------------------------------------------------------------------------
Work(r) ==
    \/ \E j \in JobIds : Begin(r, j)
    \/ Skip(r) \/ Patch(r) \/ Download(r) \/ Install(r) \/ InstallFails(r)
    \/ \E unread \in BOOLEAN : Capture(r, unread)
    \/ Conclude(r) \/ Fail(r)

Next == \/ \E p \in Files : CommitOne(p)
        \/ \E paths \in (SUBSET Files) \ {{}} : CommitMany(paths) \/ Push(paths)
        \/ CommitElsewhere \/ Refresh \/ Restart
        \/ \E j \in JobIds : ReadForRetry(j) \/ Retry(j)
        \/ \E r \in Runners : Work(r)

Spec == Init /\ [][Next]_vars

-----------------------------------------------------------------------------
(* Properties.                                                             *)

(* A job that says ok has had its content stored by one of its runs: two   *)
(* runs of a retried job, a failure of the one and a stop of the server    *)
(* between them make no job look synchronised that never was.              *)
OkIsEarned == \A j \in JobIds : jobs[j].status = "ok" => j \in stored

(* "Commits on a branch other than the tracked one leave the snapshot      *)
(* alone" (workspace_sync.py:4): every stored file is some version of it   *)
(* on the tracked branch.                                                  *)
OnlyTracked == \A p \in Files : \E c \in 0..head : disk[p] = trees[c][p]

(* A job that is waiting or running has a task or a runner, but for those  *)
(* that a stop of the server has left behind: retries and runs that        *)
(* overlap leave no job hanging.                                           *)
Attended(j) == tasks[j] > 0 \/ \E r \in Runners : runs[r].pc # "idle" /\ runs[r].job = j
NoOrphans == \A j \in Unfinished : Attended(j) \/ j \in lost

(* "The stored copy now holds [...] one GitHub branch at one commit"       *)
(* (source_state.py:36): once every job has ended well and the copy is     *)
(* said to be ok, the stored files are those of the commit the project's   *)
(* row names.                                                              *)
SnapshotTruthful ==
    (/\ \A j \in JobIds : jobs[j].status \in {"none", "ok"}
     /\ project.state = "ok" /\ project.sha \in Commits)
        => disk = Contents(project.sha)
=============================================================================
