---------------------------- MODULE GitHubImport ----------------------------
(***************************************************************************)
(* Importing one GitHub repository as projects of one developer: the        *)
(* handles that stand for an OAuth token on this server, each good for       *)
(* fifteen minutes after its last use, and the steps of an import.           *)
(* The handles are a dictionary under one lock; a token is revoked outside   *)
(* it.  A token and its handle have one name here.                          *)
(***************************************************************************)
EXTENDS Naturals, FiniteSets
CONSTANTS Threads, Handles, NoHandle, Slots, NoSlot
VARIABLES
    handle,    \* handle[h]: "new", "live", "stale" past its time, or "gone" from the dictionary
    valid,     \* the tokens GitHub accepts
    dropped,   \* the tokens nothing will revoke: a revocation failed, or the server stopped
    project,   \* project[p]: "none", or the copy's state: "unset", "ok", "failed"
    source,    \* the projects with files
    cut,       \* history: the projects whose import a stop cut short
    met,       \* history: two imports looked for the repository before either was stored
    work       \* the request of each thread

vars == <<handle, valid, dropped, project, source, cut, met, work>>

Ops == {"none", "open", "close", "import"}
Steps == {"idle", "revoke", "list", "look", "create", "capture", "install"}
Idle == [op |-> "none", at |-> "idle", h |-> NoHandle, old |-> {}, p |-> NoSlot]

(* Handles, projects and requests hold only values of their kinds.         *)
TypeOK ==
    /\ handle \in [Handles -> {"new", "live", "stale", "gone"}]
    /\ valid \subseteq Handles /\ dropped \subseteq Handles
    /\ project \in [Slots -> {"none", "unset", "ok", "failed"}]
    /\ source \subseteq Slots /\ cut \subseteq Slots /\ met \in BOOLEAN
    /\ work \in [Threads -> [op : Ops, at : Steps, h : Handles \cup {NoHandle},
                             old : SUBSET Handles, p : Slots \cup {NoSlot}]]

Init ==
    /\ handle = [h \in Handles |-> "new"] /\ valid = {} /\ dropped = {}
    /\ project = [p \in Slots |-> "none"] /\ source = {} /\ cut = {} /\ met = FALSE
    /\ work = [t \in Threads |-> Idle]

-----------------------------------------------------------------------------
Stale == {h \in Handles : handle[h] = "stale"}
OldLeftIn == handle
Purged == [h \in Handles |-> IF h \in Stale THEN "gone" ELSE handle[h]]
Becomes(t, w) == work' = [work EXCEPT ![t] = w]
Projects == UNCHANGED <<project, source, cut, met>>

(* open_session: the code is exchanged for a token, stale handles are taken *)
(* out, the new one is put in.                                             *)
Open(t, h) ==
    /\ work[t].at = "idle" /\ handle[h] = "new"
    /\ handle' = [Purged EXCEPT ![h] = "live"] /\ valid' = valid \cup {h}
    /\ Becomes(t, [Idle EXCEPT !.op = "open", !.at = "revoke", !.h = h, !.old = Stale])
    /\ UNCHANGED dropped /\ Projects

(* session_token, before an import: stale handles are taken out; a live one *)
(* is good for another fifteen minutes; without one the answer is 410.      *)
Use(t, h) ==
    /\ work[t].at = "idle" /\ handle[h] # "new" /\ handle' = Purged
    /\ Becomes(t, [Idle EXCEPT !.op = IF handle[h] = "live" THEN "import" ELSE "none",
                               !.at = "revoke", !.h = h, !.old = Stale])
    /\ UNCHANGED <<valid, dropped>> /\ Projects

(* close_session: only who takes the handle out revokes its token.         *)
AtOnce(h) == [handle |-> handle, valid |-> valid \ {h}, old |-> {h}]  \* revoked with the handle still in
TakenOut(h) == [handle |-> [handle EXCEPT ![h] = "gone"], valid |-> valid, old |-> {h}]
Close(t, h) ==
    /\ \/ work[t].at = "idle"
       \/ work[t].at = "list" /\ work[t].h = h  \* GitHub did not list the repositories
    /\ handle[h] \in {"live", "stale"}
    /\ handle' = TakenOut(h).handle /\ valid' = TakenOut(h).valid
    /\ Becomes(t, [Idle EXCEPT !.op = "close", !.at = "revoke", !.h = h, !.old = TakenOut(h).old])
    /\ UNCHANGED dropped /\ Projects

(* revoke_token, for each one taken out; a failed call is passed over.      *)
After(op) == CASE op = "open" -> "list" [] op = "import" -> "look" [] OTHER -> "idle"
Revoke(t) ==
    /\ work[t].at = "revoke"
    /\ \E done \in SUBSET work[t].old :
          valid' = valid \ done /\ dropped' = dropped \cup (work[t].old \ done)
    /\ Becomes(t, IF After(work[t].op) = "idle" THEN Idle
                  ELSE [work[t] EXCEPT !.at = After(work[t].op), !.old = {}])
    /\ UNCHANGED handle /\ Projects
Listed(t) == /\ work[t].at = "list" /\ Becomes(t, Idle)
             /\ UNCHANGED <<handle, valid, dropped>> /\ Projects

(* import_repo: the repository is read and looked for among the projects of *)
(* this developer; GitHub may refuse or fail.                              *)
NeverImported == FALSE
Imported == \E p \in Slots : project[p] # "none"
Look(t) ==
    /\ work[t].at = "look"
    /\ \/ work[t].h \in valid /\ ~Imported /\ Becomes(t, [work[t] EXCEPT !.at = "create"])
       \/ Becomes(t, Idle)
    /\ met' = (met \/ \E o \in Threads \ {t} : work[o].at = "create")
    /\ UNCHANGED <<handle, valid, dropped, project, source, cut>>
Create(t, p) ==
    /\ work[t].at = "create" /\ project[p] = "none" /\ \A o \in Threads : work[o].p # p
    /\ project' = [project EXCEPT ![p] = "unset"] /\ cut' = cut \ {p} /\ source' = source \ {p}
    /\ Becomes(t, [work[t] EXCEPT !.at = "capture", !.p = p])
    /\ UNCHANGED <<handle, valid, dropped, met>>

(* The history is stored or not (see GitHubHistory), then the archive is    *)
(* installed (see SourceInstall); what stops it is marked on the project,   *)
(* but for a repository without commits.  A deleted project ends the rest.  *)
Capture(t) == /\ work[t].at = "capture"
              /\ Becomes(t, IF project[work[t].p] = "none" THEN Idle ELSE [work[t] EXCEPT !.at = "install"])
              /\ UNCHANGED <<handle, valid, dropped>> /\ Projects
Outcomes(h) == {"failed"} \cup (IF h \in valid THEN {"ok", "unset"} ELSE {})
Install(t) ==
    LET p == work[t].p
    IN  /\ work[t].at = "install"
        /\ IF project[p] = "none" THEN UNCHANGED <<project, source>>
           ELSE \E o \in Outcomes(work[t].h) :
                   /\ project' = [project EXCEPT ![p] = o]
                   /\ source' = IF o = "ok" THEN source \cup {p} ELSE source
        /\ Becomes(t, Idle) /\ UNCHANGED <<handle, valid, dropped, cut, met>>

(* Time passes; the owner deletes a project; the server stops and loses the *)
(* handles with the requests.                                              *)
Age(h) == /\ handle[h] = "live" /\ handle' = [handle EXCEPT ![h] = "stale"]
          /\ UNCHANGED <<valid, dropped, work>> /\ Projects
Delete(p) == /\ project[p] # "none" /\ project' = [project EXCEPT ![p] = "none"]
             /\ source' = source \ {p}
             /\ UNCHANGED <<handle, valid, dropped, cut, met, work>>
Stop ==
    /\ handle' = [h \in Handles |-> IF handle[h] = "new" THEN "new" ELSE "gone"]
    /\ dropped' = valid /\ cut' = cut \cup ({work[t].p : t \in Threads} \ {NoSlot})
    /\ work' = [t \in Threads |-> Idle]
    /\ UNCHANGED <<valid, project, source, met>>

Next == \/ \E t \in Threads : \/ \E h \in Handles : Open(t, h) \/ Use(t, h) \/ Close(t, h)
                              \/ Revoke(t) \/ Listed(t) \/ Look(t) \/ Capture(t) \/ Install(t)
                              \/ \E p \in Slots : Create(t, p)
        \/ (\E h \in Handles : Age(h)) \/ (\E p \in Slots : Delete(p)) \/ Stop
Spec == Init /\ [][Next]_vars

-----------------------------------------------------------------------------
(* "forget the handle and revoke the token at GitHub" (routes/github_import *)
(* .py:8): a token goes the way of TokenCustody.  Handles taken out because *)
(* they are old, or closed, by requests that overlap, are each revoked by   *)
(* the one request that took them out, once.                               *)
Custody == INSTANCE TokenCustody WITH
               Tokens <- Handles,
               issued <- {h \in Handles : handle[h] # "new"},
               kept <- {h \in Handles : handle[h] \in {"live", "stale"}},
               revoking <- [t \in Threads |-> work[t].old],
               lost <- dropped
TokensKept == Custody!Spec

(* So whoever closes, replaces or finds handles old at the same time: a    *)
(* handle in the dictionary stands for a token that works, and a token     *)
(* without one is revoked or about to be, unless a revocation failed or    *)
(* the server stopped.                                                     *)
HandlesWork ==
    /\ \A h \in Handles : handle[h] \in {"live", "stale"} => h \in valid
    /\ \A h \in valid : handle[h] = "gone" =>
          h \in dropped \/ \E t \in Threads : work[t].at = "revoke" /\ h \in work[t].old

(* "Already imported" (routes/github_import.py:140): a repository becomes   *)
(* one project, unless two imports look for it before either is stored; and *)
(* an import that ended, but for a stop, left files or says that it failed  *)
(* or that there was nothing ("a failed upload or import is visible",       *)
(* source_state.py:5).                                                     *)
OneCopyThatTells ==
    /\ ~met => Cardinality({p \in Slots : project[p] # "none"}) <= 1
    /\ \A p \in Slots \ cut : (\A t \in Threads : work[t].p # p) => (p \in source <=> project[p] = "ok")
=============================================================================
