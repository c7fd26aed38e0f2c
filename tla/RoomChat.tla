------------------------------ MODULE RoomChat ------------------------------
(***************************************************************************)
(* The messages of one group chat and what of them each member has not read *)
(* (app/routes/messages.py, app/services/chat_rooms.py).  A message is dated *)
(* by the database, with the moment its transaction began; a member's        *)
(* last_read_at by the server, when the update that writes it is made.  What *)
(* the two compare is therefore which messages had begun by then: before[p]  *)
(* are those that last_read_at of p lies behind, committed or not.           *)
(***************************************************************************)
EXTENDS FiniteSets

CONSTANTS
    Tabs,        \* threads that serve requests
    People,      \* users
    Messages,    \* the messages ever sent
    NoOne,       \* no person
    NoMessage    \* the message of a request that is about none

VARIABLES
    members,     \* the chat_members rows
    before,      \* last_read_at of each member
    sender,      \* who sent a message, NoOne while there is none
    noticed,     \* history: <<p, m>> where p read or wrote in the chat after m was there
    slipped,     \* history: <<p, m>> where m was being sent while p read or wrote
    asked        \* the request each thread serves

vars == <<members, before, sender, noticed, slipped, asked>>

(* A request: by whom, the message it sends, what was there when it was    *)
(* asked, the messages that had begun when it took the time, and whether   *)
(* its update has found the member's row (and holds it).                   *)
Asked == [at : {"idle", "asked", "stamped", "written"},
          by : People \cup {NoOne}, about : Messages \cup {NoMessage},
          there : SUBSET Messages, seen : SUBSET Messages, hit : BOOLEAN]
Idle == [at |-> "idle", by |-> NoOne, about |-> NoMessage,
         there |-> {}, seen |-> {}, hit |-> FALSE]

(* The chat and the requests hold only values of their kinds.              *)
TypeOK ==
    /\ members \subseteq People
    /\ before \in [People -> SUBSET Messages] /\ \A p \in People \ members : before[p] = {}
    /\ sender \in [Messages -> People \cup {NoOne}]
    /\ noticed \subseteq People \X Messages /\ slipped \subseteq People \X Messages
    /\ asked \in [Tabs -> Asked]

Init ==
    /\ members = {} /\ before = [p \in People |-> {}]
    /\ sender = [m \in Messages |-> NoOne] /\ noticed = {} /\ slipped = {}
    /\ asked = [t \in Tabs |-> Idle]

-----------------------------------------------------------------------------
Sent == {m \in Messages : sender[m] # NoOne}
Sending == {asked[t].about : t \in Tabs} \ {NoMessage}
Begun == Sent \cup Sending
Serving(p) == \E t \in Tabs : asked[t].by = p
Step(t, request) == asked' = [asked EXCEPT ![t] = request]
Is(t, at) == asked[t].at = at
ChatSame == UNCHANGED <<members, before, sender, noticed>>

(* room_for_member.                                                        *)
InRoom(p) == p \in members

(* group_thread, its first page, and mark_group_read.                      *)
Read(t, p) ==
    /\ Is(t, "idle") /\ InRoom(p)
    /\ Step(t, [Idle EXCEPT !.at = "asked", !.by = p, !.there = Sent])
    /\ slipped' = slipped \cup ({p} \X Sending)
    /\ ChatSame

(* send_group_message, post_room_message: the message begins.              *)
Post(t, p, m) ==
    /\ Is(t, "idle") /\ InRoom(p) /\ m \notin Begun
    /\ Step(t, [Idle EXCEPT !.at = "asked", !.by = p, !.about = m, !.there = Sent])
    /\ slipped' = slipped \cup ({p} \X Sending) \cup ({q \in People : Serving(q)} \X {m})
    /\ ChatSame

(* Both take the time for last_read_at ...                                 *)
Stamp(t) ==
    /\ Is(t, "asked")
    /\ Step(t, [asked[t] EXCEPT !.at = "stamped", !.seen = Begun])
    /\ UNCHANGED slipped /\ ChatSame

(* ... update the one row of this member, which another request of theirs  *)
(* may hold until it commits ...                                           *)
Write(t) ==
    /\ Is(t, "stamped")
    /\ \A u \in Tabs \ {t} : ~(Is(u, "written") /\ asked[u].hit /\ asked[u].by = asked[t].by)
    /\ Step(t, [asked[t] EXCEPT !.at = "written", !.hit = InRoom(asked[t].by)])
    /\ UNCHANGED slipped /\ ChatSame

(* ... and commit.                                                         *)
AnyRow(p) == members
OwnRow(p) == {p}
Commit(t) ==
    LET p == asked[t].by
        rows == IF asked[t].hit THEN OwnRow(p) ELSE {}
    IN
    /\ Is(t, "written")
    /\ before' = [q \in People |-> IF q \in rows THEN asked[t].seen ELSE before[q]]
    /\ sender' = [m \in Messages |-> IF m = asked[t].about THEN p ELSE sender[m]]
    /\ noticed' = IF asked[t].hit THEN noticed \cup ({p} \X asked[t].there) ELSE noticed
    /\ Step(t, Idle)
    /\ UNCHANGED <<members, slipped>>

(* add_group_members: a new row, with no last_read_at.                     *)
Join(p) ==
    /\ ~InRoom(p)
    /\ members' = members \cup {p}
    /\ UNCHANGED <<before, sender, noticed, slipped, asked>>

(* leave_group and remove_group_member, as far as this member is concerned *)
(* (Groups.tla has the rest): the row goes, once nobody holds it.          *)
Leave(p) ==
    /\ InRoom(p)
    /\ \A t \in Tabs : ~(Is(t, "written") /\ asked[t].hit /\ asked[t].by = p)
    /\ members' = members \ {p}
    /\ before' = [before EXCEPT ![p] = {}]
    /\ noticed' = {n \in noticed : n[1] # p}
    /\ UNCHANGED <<sender, slipped, asked>>

Next ==
    \/ \E t \in Tabs :
           \/ \E p \in People : Read(t, p) \/ \E m \in Messages : Post(t, p, m)
           \/ Stamp(t) \/ Write(t) \/ Commit(t)
    \/ \E p \in People : Join(p) \/ Leave(p)

Spec == Init /\ [][Next]_vars

-----------------------------------------------------------------------------
(* What members are shown.                                                 *)

(* unread_count, for one room.                                             *)
Unread(p) == {m \in Sent : sender[m] # p /\ m \notin before[p]}

(* _room_summary: an entry of list_groups.                                 *)
Summary(p) == Cardinality(Unread(p))

(* get_unread_messages_count: messages joined with the member's row (that   *)
(* muted rooms add nothing is left out).                                   *)
Badge(p) == Cardinality({x \in Sent \X {q \in members : q = p} :
                             sender[x[1]] # x[2] /\ x[1] \notin before[x[2]]})

-----------------------------------------------------------------------------
(* Properties.                                                             *)

(* A message of another counts as unread exactly until the member reads or *)
(* writes in the chat after it was there, whatever their other tabs, other  *)
(* members and departures do in between: unless it was being sent at that   *)
(* very moment.  (Then it may be skipped: it is dated before last_read_at   *)
(* and committed after the page was read.)                                 *)
UnreadIsNew ==
    \A p \in members, m \in Sent :
        sender[m] # p /\ <<p, m>> \notin slipped => (m \in Unread(p) <=> <<p, m>> \notin noticed)

(* The number on the badge, counted by a join over all rooms, is the one   *)
(* the list of chats shows.                                                *)
BadgeAgrees == \A p \in members : Badge(p) = Summary(p)

(* What counts as unread is right wherever it is shown.                    *)
UnreadHolds == UnreadIsNew /\ BadgeAgrees
=============================================================================
