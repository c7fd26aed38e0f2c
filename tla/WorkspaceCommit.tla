-------------------------- MODULE WorkspaceCommit --------------------------
(***************************************************************************)
(* Commits from the code workspace to one branch of the linked repository  *)
(* (app/routes/workspace.py, app/services/workspace_git.py and             *)
(* workspace_drafts.py): the compare-and-swap GitHub makes, audit rows     *)
(* with their idempotency keys, the drafts of the author, the sync job     *)
(* each commit leaves behind.                                              *)
(*                                                                         *)
(* The author composes a commit under a key and sends it as often as he    *)
(* likes, from several tabs or because no answer came.  What a commit      *)
(* writes is named by its key.  Teammates commit through GitHub's same     *)
(* check and leave rows of their own: to this author they are pushes.      *)
(* WorkspaceSync takes the jobs from here.                                 *)
(***************************************************************************)
EXTENDS Naturals, Sequences

CONSTANTS
    Threads,      \* threads that serve requests
    Paths,        \* files of the branch
    Keys,         \* idempotency keys
    Texts,        \* contents written from outside; one of them may be "no file"
    Original,     \* the content every file starts with
    Outside,      \* the key of a commit pushed from elsewhere
    NoKey,        \* the key of a request that is no commit
    MaxCommits    \* bound on the commits of the branch

ASSUME TextsAssumption == Original \in Texts /\ Texts \cap Keys = {}
ASSUME KeysAssumption == Outside \notin Keys /\ NoKey \notin Keys
ASSUME MaxCommitsAssumption == MaxCommits \in Nat

VARIABLES
    log,          \* the commits of the branch: key and paths
    blob,         \* the content (so the blob sha) of each file at its head
    composed,     \* composed[k]: what the author sends under key k
    audit,        \* audit[k]: the commit named by the "ok" audit row of key k, or 0
    jobs,         \* the commits a sync job was queued for
    lost,         \* commits whose request ended before it could record or queue them
    drafts,       \* the author's drafts: none, with a base blob, without one
    tx            \* the request each thread serves

rows == <<audit, jobs>>
vars == <<log, blob, composed, audit, jobs, lost, drafts, tx>>

Contents == Texts \cup Keys
Commits == 1..MaxCommits
Commit == [key : Keys \cup {Outside}, paths : SUBSET Paths]

(* CommitIn and MultiCommitIn: kind "none" is a key nobody has used yet.   *)
Composed == [kind : {"none", "one", "many"}, paths : SUBSET Paths,
             base : [Paths -> Contents], parent : 0..MaxCommits]
Blank == [kind |-> "none", paths |-> {}, base |-> [p \in Paths |-> Original], parent |-> 0]

(* at: the commit made; path and had: the draft a save or commit_one reads.*)
Tx == [pc : {"idle", "lock", "check", "write", "audit", "finish", "enqueue", "save"},
       key : Keys \cup {NoKey}, at : 0..MaxCommits, paths : SUBSET Paths, had : BOOLEAN]
Idle == [pc |-> "idle", key |-> NoKey, at |-> 0, paths |-> {}, had |-> FALSE]

(* Commits, rows, drafts and requests hold only values of their kinds.     *)
TypeOK ==
    /\ log \in Seq(Commit) /\ Len(log) <= MaxCommits
    /\ blob \in [Paths -> Contents]
    /\ composed \in [Keys -> Composed]
    /\ audit \in [Keys -> 0..MaxCommits]
    /\ jobs \in SUBSET Commits /\ lost \in SUBSET Commits
    /\ drafts \in [Paths -> {"none", "based", "unbased"}]
    /\ tx \in [Threads -> Tx]

Init ==
    /\ log = <<>> /\ blob = [p \in Paths |-> Original]
    /\ composed = [k \in Keys |-> Blank]
    /\ audit = [k \in Keys |-> 0]
    /\ jobs = {} /\ lost = {}
    /\ drafts = [p \in Paths |-> "none"]
    /\ tx = [t \in Threads |-> Idle]

-----------------------------------------------------------------------------
(* GitHub, and the author's browser.                                       *)

ShaPast == Len(log) + 2
Sha == Len(log) + 1
Grow(k, paths, text) ==
    /\ Len(log) < MaxCommits
    /\ log' = Append(log, [key |-> k, paths |-> paths])
    /\ blob' = [p \in Paths |-> IF p \in paths THEN text ELSE blob[p]]

Push(p, text) ==
    /\ blob[p] # text
    /\ Grow(Outside, {p}, text)
    /\ UNCHANGED <<composed, rows, lost, drafts, tx>>

(* The author's editor has read the branch (live_tree, live_file).         *)
Compose(k, kind, paths) ==
    /\ composed[k].kind = "none" /\ paths # {}
    /\ kind = "one" => \E p \in Paths : paths = {p}
    /\ composed' = [composed EXCEPT ![k] = [kind |-> kind, paths |-> paths,
                                            base |-> blob, parent |-> Len(log)]]
    /\ UNCHANGED <<log, blob, rows, lost, drafts, tx>>

-----------------------------------------------------------------------------
(* A commit: commit_one and commit_many, from the author's request to its  *)
(* last background task.                                                   *)

Of(t) == composed[tx[t].key]
At(t, pc) == tx[t].pc = pc
Move(t, pc) == tx' = [tx EXCEPT ![t].pc = pc]
End(t) == tx' = [tx EXCEPT ![t] = Idle]

(* commit_one keeps the row lock of SELECT ... FOR UPDATE on a draft it    *)
(* has found until its next commit.                                        *)
LockedBy(t, p) == tx[t].pc \in {"check", "write", "audit"} /\ tx[t].had /\ p \in tx[t].paths
NeverLocked(p) == FALSE
Locked(p) == \E t \in Threads : LockedBy(t, p)

(* _prior finds nothing, or the request is answered with what it found;    *)
(* _writer lets the author through, or the request ends here (a failed     *)
(* audit row has no key).                                                  *)
NoPrior(k) == audit[k] = 0
Receive(t, k) ==
    /\ At(t, "idle") /\ composed[k].kind # "none" /\ NoPrior(k)
    /\ tx' = [tx EXCEPT ![t] = [Idle EXCEPT
                  !.pc = IF composed[k].kind = "one" THEN "lock" ELSE "check",
                  !.key = k, !.paths = composed[k].paths]]
    /\ UNCHANGED <<log, blob, composed, rows, lost, drafts>>

LockDraft(t) ==
    /\ At(t, "lock") /\ \A p \in tx[t].paths : ~Locked(p)
    /\ tx' = [tx EXCEPT ![t].pc = "check",
                        ![t].had = \A p \in tx[t].paths : drafts[p] # "none"]
    /\ UNCHANGED <<log, blob, composed, rows, lost, drafts>>

(* What a request reads of GitHub before it writes, and what GitHub itself *)
(* compares when it does: a file's blob, a branch's head.                  *)
SameBlobs(t) == \A p \in tx[t].paths : blob[p] = Of(t).base[p]
SameHead(t) == Len(log) = Of(t).parent
Current(t) == IF Of(t).kind = "one" THEN SameBlobs(t) ELSE SameHead(t) /\ SameBlobs(t)
GitHubIgnores(t) == TRUE
GitHubAccepts(t) == IF Of(t).kind = "one" THEN SameBlobs(t) ELSE SameHead(t)

Check(t) ==
    /\ At(t, "check") /\ Current(t)
    /\ Move(t, "write")
    /\ UNCHANGED <<log, blob, composed, rows, lost, drafts>>

Write(t) ==
    /\ At(t, "write") /\ GitHubAccepts(t)
    /\ Grow(tx[t].key, tx[t].paths, tx[t].key)
    /\ tx' = [tx EXCEPT ![t].pc = "audit", ![t].at = Sha]
    /\ UNCHANGED <<composed, rows, lost, drafts>>

(* The commit is made and the answer does not come back: a GitHubError.    *)
WriteUnanswered(t) ==
    /\ At(t, "write") /\ GitHubAccepts(t)
    /\ Grow(tx[t].key, tx[t].paths, tx[t].key)
    /\ lost' = lost \cup {Sha}
    /\ End(t)
    /\ UNCHANGED <<composed, rows, drafts>>

(* 409: what the draft was based on is forgotten.  GitHub's own refusal    *)
(* may be another status (422: no blob was named, and there is a file).    *)
Unbased(t) == [p \in Paths |-> IF LockedBy(t, p) THEN "unbased" ELSE drafts[p]]
Conflict(t) ==
    /\ \/ At(t, "check") /\ ~Current(t) /\ drafts' = Unbased(t)
       \/ At(t, "write") /\ ~GitHubAccepts(t) /\ drafts' \in {drafts, Unbased(t)}
    /\ End(t)
    /\ UNCHANGED <<log, blob, composed, rows, lost>>

(* _audit: the unique key decides between two requests; the loser goes on  *)
(* with the row of the winner.                                             *)
Audited(t) == [audit EXCEPT ![tx[t].key] = IF @ = 0 THEN tx[t].at ELSE @]
Audit(t) ==
    /\ At(t, "audit")
    /\ audit' = Audited(t)
    /\ Move(t, "finish")
    /\ UNCHANGED <<log, blob, composed, jobs, lost, drafts>>

(* _finish deletes the drafts of the paths, whatever they hold by now ...  *)
Finish(t) ==
    /\ At(t, "finish") /\ \A p \in tx[t].paths : ~Locked(p)
    /\ drafts' = [p \in Paths |-> IF p \in tx[t].paths THEN "none" ELSE drafts[p]]
    /\ Move(t, "enqueue")
    /\ UNCHANGED <<log, blob, composed, rows, lost>>

(* ... and queues the job of its own commit.                               *)
QueuedForKey(t) == jobs \cup {audit[tx[t].key]}
Queued(t) == jobs \cup {tx[t].at}
Enqueue(t) ==
    /\ At(t, "enqueue")
    /\ jobs' = Queued(t)
    /\ End(t)
    /\ UNCHANGED <<log, blob, composed, audit, lost, drafts>>

(* The server stops, the database fails or breaks a deadlock, GitHub does  *)
(* not answer: the request ends where it is.                               *)
Stop(t) ==
    /\ ~At(t, "idle")
    /\ lost' = IF tx[t].at = 0 THEN lost ELSE lost \cup {tx[t].at}
    /\ End(t)
    /\ UNCHANGED <<log, blob, composed, rows, drafts>>

-----------------------------------------------------------------------------
(* Drafts: save, discard, drop_expired.                                    *)

ReadDraft(t, p) ==
    /\ At(t, "idle")
    /\ tx' = [tx EXCEPT ![t] = [Idle EXCEPT !.pc = "save", !.paths = {p},
                                            !.had = drafts[p] # "none"]]
    /\ UNCHANGED <<log, blob, composed, rows, lost, drafts>>

(* An update of a row that is gone fails, an insert beside one that has    *)
(* appeared fails on the unique key.                                       *)
SaveDraft(t, p) ==
    /\ At(t, "save") /\ p \in tx[t].paths /\ ~Locked(p)
    /\ drafts' = IF tx[t].had = (drafts[p] # "none") THEN [drafts EXCEPT ![p] = "based"] ELSE drafts
    /\ End(t)
    /\ UNCHANGED <<log, blob, composed, rows, lost>>

Discard(p) ==
    /\ drafts[p] # "none" /\ ~Locked(p)
    /\ drafts' = [drafts EXCEPT ![p] = "none"]
    /\ UNCHANGED <<log, blob, composed, rows, lost, tx>>

-----------------------------------------------------------------------------
Work(t) ==
    \/ \E k \in Keys : Receive(t, k)
    \/ LockDraft(t) \/ Check(t) \/ Write(t) \/ WriteUnanswered(t) \/ Conflict(t)
    \/ Audit(t) \/ Finish(t) \/ Enqueue(t) \/ Stop(t)
    \/ \E p \in Paths : ReadDraft(t, p) \/ SaveDraft(t, p)

Next ==
    \/ \E k \in Keys, kind \in {"one", "many"}, paths \in SUBSET Paths : Compose(k, kind, paths)
    \/ \E p \in Paths : Discard(p) \/ \E text \in Texts : Push(p, text)
    \/ \E t \in Threads : Work(t)

Spec == Init /\ [][Next]_vars

-----------------------------------------------------------------------------
(* Properties.                                                             *)

(* "Refresh it before committing" (workspace_git.py:143, 160, 167): two    *)
(* tabs, a retry and pushes from outside that meet between a check and its *)
(* write make no commit that replaces what its author has not seen.        *)
Seen == INSTANCE Branch WITH seen <- [k \in Keys |-> composed[k].base]
NoLostUpdate == Seen!Spec

(* "a retry does not commit again" (tests/test_workspace.py:121), as far   *)
(* as it holds: without an audit row to find (a stop, an answer that was   *)
(* lost, two requests at once), a second commit under one key is a         *)
(* commit_one of a path that somebody has put back in between.             *)
Touched(p, i, j) == \E c \in (i + 1)..(j - 1) : p \in log[c].paths
CommitsOnce ==
    \A i, j \in 1..Len(log) :
        (i < j /\ log[i].key = log[j].key /\ log[i].key \in Keys) =>
            /\ composed[log[i].key].kind = "one"
            /\ \A p \in log[j].paths : Touched(p, i, j)

(* Every commit made here is on record: its key has an audit row, and      *)
(* unless its request was cut short a job will bring the stored copy up to *)
(* it.  Requests that race with one key make no commit disappear.          *)
InHand(c) == \E t \in Threads : tx[t].at = c
Recorded ==
    \A c \in 1..Len(log) : log[c].key \in Keys =>
        \/ InHand(c) \/ c \in lost
        \/ audit[log[c].key] # 0 /\ c \in jobs

(* commit_one answers a conflict from the draft it locked (workspace.py:   *)
(* 288-293): until it has, no save, discard or _finish of another request  *)
(* changes or removes that draft.                                          *)
DraftHeld ==
    [][\A t \in Threads, p \in Paths :
          (LockedBy(t, p) /\ drafts'[p] # drafts[p]) => tx'[t] = Idle]_vars
=============================================================================
