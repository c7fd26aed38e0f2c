------------------------------- MODULE Groups -------------------------------
(***************************************************************************)
(* One group chat that people started themselves (app/routes/messages.py): *)
(* who is in it, who is an admin, who stands in for the person who started *)
(* it (app/services/chat_rooms.py, app/models/chat.py).                    *)
(*                                                                         *)
(* A request reads and checks, then its statements run, then it commits;   *)
(* between any two of these others commit.  That the people added are      *)
(* connected to the one who adds them is left out: any people may be.      *)
(***************************************************************************)
EXTENDS Naturals, FiniteSets

CONSTANTS
    Handlers,    \* threads that serve requests
    People,      \* users
    Cap,         \* the most people of a group (50 in the code)
    NoOne        \* no person

VARIABLES
    open,        \* the chat_rooms row exists
    starter,     \* created_by
    members,     \* the chat_members rows
    admins,      \* those of them with is_admin
    collided,    \* a leave has overlapped another leave or a removal
    task         \* the request each thread serves

vars == <<open, starter, members, admins, collided, task>>

(* A request: who makes it, whom it is about; what it has read of the      *)
(* group; whether its delete has run (it holds that member's row).         *)
Task == [op : {"idle", "create", "add", "remove", "promote", "demote", "leave"},
         by : People \cup {NoOne}, about : SUBSET People, started : BOOLEAN,
         heir : People \cup {NoOne}, cut : BOOLEAN, last : BOOLEAN]
Idle == [op |-> "idle", by |-> NoOne, about |-> {}, started |-> FALSE,
         heir |-> NoOne, cut |-> FALSE, last |-> FALSE]

(* The group and the requests hold only values of their kinds.             *)
TypeOK ==
    /\ open \in BOOLEAN /\ starter \in People \cup {NoOne}
    /\ members \subseteq People /\ admins \subseteq members /\ (members # {} => open)
    /\ collided \in BOOLEAN /\ task \in [Handlers -> Task]

Init ==
    /\ open = FALSE /\ starter = NoOne /\ members = {} /\ admins = {}
    /\ collided = FALSE /\ task = [h \in Handlers |-> Idle]

Is(h, op) == task[h].op = op
Begin(h, request) == Is(h, "idle") /\ task' = [task EXCEPT ![h] = request]
End(h) == task' = [task EXCEPT ![h] = Idle]
GroupSame == UNCHANGED <<open, starter, members, admins>>
Unchanged == GroupSame /\ UNCHANGED collided
Meets(ops) == collided' = (collided \/ \E g \in Handlers : task[g].op \in ops)

(* room_admins: the starter, and members another admin has promoted.       *)
Admin(p) == p \in members /\ (p = starter \/ p \in admins)

(* A row whose delete has run in a transaction still open makes another    *)
(* delete or update of it wait.                                            *)
Held(h, p) == \E g \in Handlers \ {h} : task[g].cut /\ task[g].about = {p}

-----------------------------------------------------------------------------
(* create_group: the room and its members, in one transaction.  A group    *)
(* that is gone makes room for another one when nobody serves the old one. *)
AskCreate(h, p, who) ==
    /\ ~open /\ \A g \in Handlers : Is(g, "idle")
    /\ who \ {p} # {} /\ Cardinality(who \cup {p}) <= Cap
    /\ Begin(h, [Idle EXCEPT !.op = "create", !.by = p, !.about = who \cup {p}])
    /\ Unchanged

Create(h) ==
    /\ Is(h, "create")
    /\ open' = TRUE /\ starter' = task[h].by /\ members' = task[h].about /\ admins' = {}
    /\ End(h) /\ UNCHANGED collided

(* add_group_members: an admin; not more than Cap together with the        *)
(* members it reads ...                                                    *)
AskAdd(h, p, who) ==
    /\ Admin(p) /\ who \ members # {}
    /\ Cardinality(members \cup who) <= Cap
    /\ Begin(h, [Idle EXCEPT !.op = "add", !.by = p, !.about = who \ members])
    /\ Unchanged

(* ... and inserts them all, or none when one is there by now or the room  *)
(* is gone.                                                                *)
Add(h) ==
    /\ Is(h, "add")
    /\ members' = IF open /\ task[h].about \cap members = {} THEN members \cup task[h].about
                  ELSE members
    /\ End(h) /\ UNCHANGED <<open, starter, admins, collided>>

(* remove_group_member: never the starter; another admin only by the       *)
(* starter.                                                                *)
AskRemove(h, p, q) ==
    /\ Admin(p) /\ p # q /\ q # starter
    /\ q \in admins => p = starter
    /\ Begin(h, [Idle EXCEPT !.op = "remove", !.by = p, !.about = {q}])
    /\ Meets({"leave"}) /\ GroupSame

(* leave_group: what the row of the room says of its starter is read first.*)
AskLeave(h, p) ==
    /\ p \in members
    /\ Begin(h, [Idle EXCEPT !.op = "leave", !.by = p, !.about = {p}, !.started = (starter = p)])
    /\ Meets({"leave", "remove"}) /\ GroupSame

(* The delete runs, and reads who remains: to others' deletes that have    *)
(* not committed it is blind.  The heir of a starter is a member who is an *)
(* admin, else the one longest there (which of them that is, is left out). *)
Heirs(rest) == IF rest \cap admins # {} THEN rest \cap admins ELSE rest
CutRow(h, p) ==
    /\ task[h].about = {p} /\ ~task[h].cut /\ ~Held(h, p)
    /\ \/ Is(h, "remove") /\ p \in members
          /\ task' = [task EXCEPT ![h].cut = TRUE]
       \/ Is(h, "remove") /\ p \notin members /\ End(h)
       \/ Is(h, "leave") /\ LET rest == members \ {p} IN
             IF rest = {} THEN task' = [task EXCEPT ![h].cut = TRUE, ![h].last = TRUE]
             ELSE \E heir \in (IF task[h].started THEN Heirs(rest) ELSE {NoOne}) :
                      task' = [task EXCEPT ![h].cut = TRUE, ![h].heir = heir]
    /\ Unchanged

Remove(h) ==
    /\ Is(h, "remove") /\ task[h].cut
    /\ members' = members \ task[h].about /\ admins' = admins \ task[h].about
    /\ End(h) /\ UNCHANGED <<open, starter, collided>>

(* The last to leave takes the room with it, with whoever was added since; *)
(* a starter leaves it to the heir.  An update of a room that is gone      *)
(* fails.                                                                  *)
NoHeir(h) == starter
Heir(h) == IF task[h].heir = NoOne THEN starter ELSE task[h].heir
Leave(h) ==
    /\ Is(h, "leave") /\ task[h].cut
    /\ IF task[h].last
       THEN open' = FALSE /\ starter' = NoOne /\ members' = {} /\ admins' = {}
       ELSE /\ members' = members \ task[h].about /\ admins' = admins \ task[h].about
            /\ starter' = IF open THEN Heir(h) ELSE starter
            /\ open' = open
    /\ End(h) /\ UNCHANGED collided

(* _set_admin: never the starter; who is not the starter demotes only      *)
(* themselves ...                                                          *)
AskAdmin(h, p, q, value) ==
    /\ Admin(p) /\ q \in members /\ q # starter
    /\ ~value => (q = p \/ p = starter)
    /\ Begin(h, [Idle EXCEPT !.op = IF value THEN "promote" ELSE "demote", !.by = p, !.about = {q}])
    /\ Unchanged

(* ... and the update fails when the member is gone.                       *)
AnyoneThere(h) == TRUE
StillThere(h) == task[h].about \subseteq members
SetAdmin(h) ==
    /\ \E p \in task[h].about : ~Held(h, p)
    /\ \/ Is(h, "promote") /\ admins' = IF StillThere(h) THEN admins \cup task[h].about ELSE admins
       \/ Is(h, "demote") /\ admins' = admins \ task[h].about
    /\ End(h) /\ UNCHANGED <<open, starter, members, collided>>

Next == \E h \in Handlers :
    \/ \E p \in People, who \in SUBSET People : AskCreate(h, p, who) \/ AskAdd(h, p, who)
    \/ \E p, q \in People : AskRemove(h, p, q) \/ \E value \in BOOLEAN : AskAdmin(h, p, q, value)
    \/ \E p \in People : AskLeave(h, p) \/ CutRow(h, p)
    \/ Create(h) \/ Add(h) \/ Remove(h) \/ Leave(h) \/ SetAdmin(h)

Spec == Init /\ [][Next]_vars

-----------------------------------------------------------------------------
(* Properties.                                                             *)

(* A group is never left without members or without the person in charge   *)
(* (the successor of leave_group, messages.py:613), whatever additions,    *)
(* promotions and demotions overlap with each other and with the leave of  *)
(* the person in charge: until a leave overlaps another leave or a         *)
(* removal, whose deleted row it still takes for a member.                 *)
InGoodHands == (open /\ ~collided) => starter \in members
=============================================================================
