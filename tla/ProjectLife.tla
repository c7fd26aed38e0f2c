----------------------------- MODULE ProjectLife -----------------------------
(***************************************************************************)
(* One project from its creation to its deletion: the posts about it, its   *)
(* likes, and what its owner is told of them.  Requests run in threads; a   *)
(* step is what a request does between two points at which another one can  *)
(* be seen (READ COMMITTED, no autoflush).  A row inserted with the         *)
(* project's id keeps the project's row from being deleted until it is      *)
(* committed, and is refused when the project is gone.                      *)
(*                                                                         *)
(* Owner owns the project, Editor is a member who may edit it, Guest sees   *)
(* it while it is public; the settings of all three are the default ones.   *)
(* Fans, some of the latter two, are the ones who like and share it.        *)
(***************************************************************************)
EXTENDS Naturals, FiniteSets
CONSTANTS Threads, Owner, Editor, Guest, Fans, NotYet, Gone
VARIABLES
    project,  \* NotYet, its row [public, comments], or Gone
    posts,    \* network activities: [by, linked], linked while project_id is set
    likes,    \* who likes it
    told,     \* told[kind, u]: notifications of that kind from u to the owner
    work,     \* the request each thread runs
    met,      \* history: a deletion and a request that adds a post overlapped
    doubled   \* history: two shares of one person overlapped

vars == <<project, posts, likes, told, work, met, doubled>>

People == {Owner, Editor, Guest}
Rows == [public : BOOLEAN, comments : BOOLEAN]
Posts == [by : People, linked : BOOLEAN]
Kinds == {"like", "share"}
Ops == {"none", "create", "update", "delete", "post", "unpost", "like", "unlike", "share"}
Unknown == [public |-> FALSE, comments |-> FALSE]
Idle == [op |-> "none", by |-> Owner, at |-> "idle", saw |-> Unknown, want |-> Unknown,
         cascade |-> {}, tell |-> FALSE]

TypeOK == /\ project \in Rows \cup {NotYet, Gone}
          /\ posts \subseteq Posts /\ likes \subseteq Fans
          /\ told \in [Kinds \X Fans -> Nat]
          /\ work \in [Threads -> [op : Ops, by : People, at : {"idle", "read", "held"}, saw : Rows,
                                   want : Rows, cascade : SUBSET Posts, tell : BOOLEAN]]
          /\ met \in BOOLEAN /\ doubled \in BOOLEAN

Init == /\ project = NotYet /\ posts = {} /\ likes = {} /\ met = FALSE /\ doubled = FALSE
        /\ told = [k \in Kinds \X Fans |-> 0]
        /\ work = [t \in Threads |-> Idle]

Live == project \in Rows
Sees(u) == Live /\ (project.public \/ u # Guest)
Is(t, op, at) == work[t].op = op /\ work[t].at = at
Finish(t) == work' = [work EXCEPT ![t] = Idle]
Begin(t, op, u) == [Idle EXCEPT !.op = op, !.by = u, !.at = "read"]

Others(t, ops) == \E s \in Threads \ {t} : work[s].op \in ops
Meets(ops) == met' = (met \/ \E t \in Threads : work[t].op \in ops)
Adds == {"create", "post"}

-----------------------------------------------------------------------------
(* create_project commits the project, then tries to add its feed entry.   *)
Create(t, public) ==
    /\ work[t] = Idle /\ project = NotYet
    /\ project' = [public |-> public, comments |-> TRUE]
    /\ work' = [work EXCEPT ![t] = Begin(t, "create", Owner)]
    /\ UNCHANGED <<posts, likes, told, met, doubled>>
AddEntry(t) ==
    /\ Is(t, "create", "read")
    /\ posts' \in {posts} \cup (IF Live THEN {posts \cup {[by |-> Owner, linked |-> TRUE]}} ELSE {})
    /\ Finish(t)
    /\ UNCHANGED <<project, likes, told, met, doubled>>

(* update_project: an editor's request keeps the visibility it has read,   *)
(* and the row is written where a value differs from the one read.         *)
Update(t, u, want) ==
    /\ work[t] = Idle /\ Live /\ u # Guest
    /\ u # Owner => want = project
    /\ work' = [work EXCEPT ![t] = [Begin(t, "update", u) EXCEPT !.saw = project, !.want = want]]
    /\ UNCHANGED <<project, posts, likes, told, met, doubled>>
Overwritten(row, saw, want) == want  \* every column is written
Changed(row, saw, want) == [f \in {"public", "comments"} |-> IF want[f] = saw[f] THEN row[f] ELSE want[f]]
Save(t) ==
    /\ Is(t, "update", "read")
    /\ project' = IF Live THEN Changed(project, work[t].saw, work[t].want) ELSE project
    /\ Finish(t)
    /\ UNCHANGED <<posts, likes, told, met, doubled>>

(* delete_project reads the posts it takes along when db.delete is called;  *)
(* the foreign key clears project_id of the ones committed after that.      *)
Delete(t) ==
    /\ work[t] = Idle /\ Live
    /\ work' = [work EXCEPT ![t] = [Begin(t, "delete", Owner) EXCEPT !.cascade = posts]]
    /\ Meets(Adds)
    /\ UNCHANGED <<project, posts, likes, told, doubled>>
LeftBehind(t) == posts  \* the cascade is forgotten
Spared(t) == posts \ work[t].cascade
CommitDelete(t) ==
    /\ Is(t, "delete", "read")
    /\ \A s \in Threads : work[s].at # "held"
    /\ project' = Gone /\ likes' = {}
    /\ posts' = {[a EXCEPT !.linked = FALSE] : a \in Spared(t)}
    /\ Finish(t)
    /\ UNCHANGED <<told, met, doubled>>

-----------------------------------------------------------------------------
(* create_feed_post about the project: Guest can only share it.  At most    *)
(* one post of each person.                                                *)
Post(t, u) ==
    /\ work[t] = Idle /\ Sees(u) /\ \A a \in posts : a.by # u
    /\ ~Others(t, {"create"})
    /\ work' = [work EXCEPT ![t] = Begin(t, "post", u)]
    /\ Meets({"delete"})
    /\ UNCHANGED <<project, posts, likes, told, doubled>>
InsertPost(t) ==
    /\ Is(t, "post", "read")
    /\ IF Live THEN work' = [work EXCEPT ![t].at = "held"] ELSE Finish(t)
    /\ UNCHANGED <<project, posts, likes, told, met, doubled>>
CommitPost(t) ==
    /\ Is(t, "post", "held")
    /\ posts' = posts \cup {[by |-> work[t].by, linked |-> TRUE]}
    /\ Finish(t)
    /\ UNCHANGED <<project, likes, told, met, doubled>>

(* delete_post: an entry of the system cannot be deleted.                  *)
DeletePost(t, u) ==
    /\ work[t] = Idle /\ u # Owner
    /\ \E a \in posts : a.by = u /\ (a.linked => Sees(u))
    /\ work' = [work EXCEPT ![t] = Begin(t, "unpost", u)]
    /\ UNCHANGED <<project, posts, likes, told, met, doubled>>
CommitUnpost(t) ==
    /\ Is(t, "unpost", "read")
    /\ posts' = {a \in posts : a.by # work[t].by}
    /\ Finish(t)
    /\ UNCHANGED <<project, likes, told, met, doubled>>

-----------------------------------------------------------------------------
(* like_project looks for a like and inserts one.  The unique index makes   *)
(* the insert wait for another one of the same person, and refuses it if    *)
(* that one commits.  notify(once) looks for an earlier notification.       *)
Like(t, u) ==
    /\ work[t] = Idle /\ Sees(u) /\ u \notin likes
    /\ work' = [work EXCEPT ![t] = Begin(t, "like", u)]
    /\ UNCHANGED <<project, posts, likes, told, met, doubled>>
MayInsertLike(t) == Live /\ work[t].by \notin likes
NoWait(t) == TRUE
FreeToInsert(t) == \A s \in Threads : ~(Is(s, "like", "held") /\ work[s].by = work[t].by)
InsertLike(t) ==
    /\ Is(t, "like", "read") /\ FreeToInsert(t)
    /\ IF MayInsertLike(t)
       THEN work' = [work EXCEPT ![t].at = "held", ![t].tell = (told[<<"like", work[t].by>>] = 0)]
       ELSE Finish(t)
    /\ UNCHANGED <<project, posts, likes, told, met, doubled>>
CommitLike(t) ==
    /\ Is(t, "like", "held")
    /\ likes' = likes \cup {work[t].by}
    /\ told' = [told EXCEPT ![<<"like", work[t].by>>] = @ + (IF work[t].tell THEN 1 ELSE 0)]
    /\ Finish(t)
    /\ UNCHANGED <<project, posts, met, doubled>>

Unlike(t, u) ==
    /\ work[t] = Idle /\ Sees(u)
    /\ work' = [work EXCEPT ![t] = Begin(t, "unlike", u)]
    /\ UNCHANGED <<project, posts, likes, told, met, doubled>>
CommitUnlike(t) ==
    /\ Is(t, "unlike", "read")
    /\ likes' = likes \ {work[t].by}
    /\ Finish(t)
    /\ UNCHANGED <<project, posts, told, met, doubled>>

(* share_project only notifies: nothing but the look for an earlier         *)
(* notification keeps it from telling twice.                                *)
Share(t, u) ==
    /\ work[t] = Idle /\ Sees(u)
    /\ work' = [work EXCEPT ![t] = [Begin(t, "share", u) EXCEPT !.tell = (told[<<"share", u>>] = 0)]]
    /\ doubled' = (doubled \/ \E s \in Threads : work[s].op = "share" /\ work[s].by = u)
    /\ UNCHANGED <<project, posts, likes, told, met>>
CommitShare(t) ==
    /\ Is(t, "share", "read")
    /\ told' = [told EXCEPT ![<<"share", work[t].by>>] = @ + (IF work[t].tell THEN 1 ELSE 0)]
    /\ Finish(t)
    /\ UNCHANGED <<project, posts, likes, met, doubled>>

Next == \E t \in Threads :
           \/ \E public \in BOOLEAN : Create(t, public)
           \/ \E u \in People, want \in Rows : Update(t, u, want)
           \/ AddEntry(t) \/ Save(t) \/ Delete(t) \/ CommitDelete(t)
           \/ \E u \in People : Post(t, u) \/ DeletePost(t, u)
           \/ \E u \in Fans : Like(t, u) \/ Unlike(t, u) \/ Share(t, u)
           \/ InsertPost(t) \/ CommitPost(t) \/ CommitUnpost(t)
           \/ InsertLike(t) \/ CommitLike(t) \/ CommitUnlike(t) \/ CommitShare(t)
Spec == Init /\ [][Next]_vars

-----------------------------------------------------------------------------
(* Properties.                                                             *)

(* Activities about a project stay with the people allowed to see it        *)
(* (network.py:58), so none outlives the project, where it would be an      *)
(* activity about nothing that everyone may open.  Excepted is a deletion   *)
(* that overlapped a request that adds one.                                 *)
PostsLeave == project = Gone /\ ~met => posts = {}

(* Members with edit rights change details, not who can see or comment      *)
(* (projects.py:569): however an editor's save overlaps the owner's, only   *)
(* a save of the owner changes these two.                                   *)
VisibilityByOwner ==
    [][(Live /\ Live' /\ project' # project) =>
          \E t \in Threads : Is(t, "update", "read") /\ work[t].by = Owner /\ work'[t] = Idle]_vars

(* notify(once) skips a notification that already exists (social.py:241):   *)
(* however one person's likes and unlikes overlap, the owner is told of     *)
(* them once; of shares, unless two overlap.                                *)
ToldOnce == \A u \in Fans : /\ told[<<"like", u>>] <= 1
                            /\ ~doubled => told[<<"share", u>>] <= 1

(* What overlapping requests about a project leave behind.                 *)
LifeHolds == PostsLeave /\ ToldOnce
=============================================================================
