--------------------------- MODULE Collaboration ----------------------------
(***************************************************************************)
(* The team of one project: join requests, invitations, membership with    *)
(* access levels, and the team's chat room                                 *)
(* (app/routes/collaborations.py, app/services/chat_rooms.py).             *)
(*                                                                         *)
(* Every request is served by its own thread with its own session under    *)
(* READ COMMITTED and autoflush off (app/db/session.py:15): the checks     *)
(* read what is committed at that moment, the rows are written when the    *)
(* handler commits.  A handler is therefore a start action that reads and  *)
(* checks, then the steps that read or lock more, then a commit; tx[t]     *)
(* holds what thread t has read and means to write.  A rolled back         *)
(* handler leaves no trace.                                                *)
(***************************************************************************)
EXTENDS Naturals, FiniteSets

CONSTANTS
    Threads,     \* worker threads, each serving one request at a time
    Owner,       \* the owner of the project
    Devs,        \* the other developers
    Viewers,     \* the Devs who can see the project without being on the team
    Invitable,   \* the Devs whose collaboration_policy lets them be invited
    AskIds,      \* row ids; as many asks as the model lets people make
    NoAsk        \* the id of no row

ASSUME UsersAssumption == /\ Owner \notin Devs
                          /\ Viewers \subseteq Devs
                          /\ Invitable \subseteq Devs
ASSUME IdsAssumption == NoAsk \notin AskIds

Users == Devs \cup {Owner}

(* Of the four access levels only "manager" opens a gate of this module;   *)
(* "commenter" stands for the other three.                                 *)
Levels == {"commenter", "manager"}
Access == Levels \cup {"none"}

VARIABLES
    asks,        \* the rows of collaboration_requests and project_invitations
    members,     \* members[u]: the access of u's project_collaborators row, or "none"
    room,        \* the chat_members of the team room; {} while there is no room
    tx           \* tx[t]: the request thread t is serving

vars == <<asks, members, room, tx>>

RequestStatuses == {"pending", "accepted", "declined", "withdrawn"}
InvitationStatuses == {"pending", "accepted", "declined", "revoked", "expired"}
Statuses == {"none"} \cup RequestStatuses \cup InvitationStatuses
Ops == {"idle", "submit", "invite", "settle", "join", "depart", "grant", "list"}

(* live: the row's expires_at is still ahead (a request never expires).    *)
RequestRow == [kind : {"request"}, who : Devs, by : Devs, access : {"none"},
               status : RequestStatuses, live : {TRUE}]
InvitationRow == [kind : {"invitation"}, who : Devs, by : Users, access : Levels,
                  status : InvitationStatuses, live : BOOLEAN]
NoRow == [kind |-> "none", who |-> Owner, by |-> Owner, access |-> "none",
          status |-> "none", live |-> FALSE]

(* A request being served.                                                 *)
(*   by, who   the caller, and the person the request is about, where the  *)
(*             rest of the handler depends on them                         *)
(*   row       the ask it answers, and status what it will write there     *)
(*   access    the level it gives                                          *)
(*   found     the membership row it read: for a join, that there is one;  *)
(*             for a departure or a grant, that there is one to write      *)
(*   users     the chat_members it will add, or has deleted and locked     *)
(*   fresh     it found no team room and will create one                   *)
(*   rows      the invitations it has set to expired, and locked           *)
Tx == [op : Ops, pc : {"idle", "expire", "room", "commit"},
       by : Users, who : Users, row : AskIds \cup {NoAsk}, status : Statuses,
       access : Access, found : BOOLEAN, users : SUBSET Users,
       fresh : BOOLEAN, rows : SUBSET AskIds]
Idle == [op |-> "idle", pc |-> "idle", by |-> Owner, who |-> Owner,
         row |-> NoAsk, status |-> "none", access |-> "none", found |-> FALSE,
         users |-> {}, fresh |-> FALSE, rows |-> {}]

(* Every row has the columns and one of the statuses of its table.         *)
TypeOK ==
    /\ asks \in [AskIds -> RequestRow \cup InvitationRow \cup {NoRow}]
    /\ members \in [Devs -> Access]
    /\ room \in SUBSET Users
    /\ tx \in [Threads -> Tx]

Init ==
    /\ asks = [r \in AskIds |-> NoRow]
    /\ members = [u \in Devs |-> "none"]
    /\ room = {}
    /\ tx = [t \in Threads |-> Idle]

-----------------------------------------------------------------------------
(* What the handlers read.                                                 *)

OnTeam(u) == u \in Devs /\ members[u] # "none"
TeamWithoutOwner == {u \in Users : OnTeam(u)}
Team == {u \in Users : u = Owner \/ OnTeam(u)}
Manages(u) == u = Owner \/ (u \in Devs /\ members[u] = "manager")
Sees(u) == u = Owner \/ u \in Viewers \/ OnTeam(u)
GrantableByManagers(u, a) == TRUE
Grantable(u, a) == a = "manager" => u = Owner

PendingOf(kind, u) ==
    {r \in AskIds : asks[r].kind = kind /\ asks[r].who = u /\ asks[r].status = "pending"}
LiveInvitations(u) == {r \in PendingOf("invitation", u) : asks[r].live}

Unused == {r \in AskIds : asks[r].status = "none"}
Inserting == {t \in Threads : tx[t].op \in {"submit", "invite"}}
(* The bound on the asks ever made: a handler that will insert a row       *)
(* starts only while there is an id left for it.                           *)
IdLeft == Cardinality(Inserting) < Cardinality(Unused)

-----------------------------------------------------------------------------
(* The handlers up to their last read.                                     *)

Start(t, request) == tx[t] = Idle /\ tx' = [tx EXCEPT ![t] = request]

(* submit_collaboration_request *)
Submit(t, me) ==
    /\ me \in Devs /\ Sees(me) /\ ~OnTeam(me)
    /\ LiveInvitations(me) = {} /\ PendingOf("request", me) = {}
    /\ IdLeft
    /\ Start(t, [Idle EXCEPT !.op = "submit", !.pc = "commit", !.by = me, !.who = me])
    /\ UNCHANGED <<asks, members, room>>

(* invite_collaborator, up to the update that retires expired invitations *)
Invite(t, me, u, a) ==
    /\ Manages(me) /\ Grantable(me, a)
    /\ u \in Invitable \ {me} /\ ~OnTeam(u)
    /\ PendingOf("request", u) = {} /\ LiveInvitations(u) = {}
    /\ IdLeft
    /\ Start(t, [Idle EXCEPT !.op = "invite", !.pc = "expire", !.by = me,
                             !.who = u, !.access = a])
    /\ UNCHANGED <<asks, members, room>>

PendingRequest(me, r) == /\ Manages(me)
                         /\ asks[r].kind = "request" /\ asks[r].status = "pending"

Settle(t, r, s) ==
    /\ Start(t, [Idle EXCEPT !.op = "settle", !.pc = "commit", !.row = r, !.status = s])
    /\ UNCHANGED <<asks, members, room>>

(* _join reads the membership row and, session autoflush being off, a team *)
(* that does not have the new member yet.                                  *)
Join(t, me, r, a) ==
    /\ Start(t, [Idle EXCEPT !.op = "join", !.by = me, !.who = asks[r].who, !.row = r,
                             !.status = "accepted", !.access = a,
                             !.found = OnTeam(asks[r].who),
                             !.pc = IF Team = {Owner} THEN "commit" ELSE "room",
                             !.users = IF Team = {Owner} THEN {} ELSE Team])
    /\ UNCHANGED <<asks, members, room>>

AcceptRequest(t, me, r, a) == PendingRequest(me, r) /\ Grantable(me, a) /\ Join(t, me, r, a)
DeclineRequest(t, me, r) == PendingRequest(me, r) /\ Settle(t, r, "declined")
WithdrawAsRevoked(t, me, r) ==
    /\ asks[r].kind = "request" /\ asks[r].who = me /\ asks[r].status = "pending"
    /\ Settle(t, r, "revoked")
WithdrawRequest(t, me, r) ==
    /\ asks[r].kind = "request" /\ asks[r].who = me /\ asks[r].status = "pending"
    /\ Settle(t, r, "withdrawn")

(* _answer: whoever manages the team can only revoke, the invitee only     *)
(* accept or decline.                                                      *)
Answerable(r) == asks[r].kind = "invitation" /\ asks[r].status = "pending" /\ asks[r].live
MyInvitation(me, r) == Answerable(r) /\ ~Manages(me) /\ asks[r].who = me

AcceptInvitation(t, me, r) == MyInvitation(me, r) /\ Join(t, me, r, asks[r].access)
DeclineInvitation(t, me, r) == MyInvitation(me, r) /\ Settle(t, r, "declined")
RevokeInvitation(t, me, r) == Answerable(r) /\ Manages(me) /\ Settle(t, r, "revoked")

(* Both ways off the team delete the membership row at the commit, but     *)
(* drop_project_member's bulk delete runs at once: the chat row it finds   *)
(* is gone and locked until the commit.                                    *)
ChatLocked(u) == \E s \in Threads : tx[s].op = "depart" /\ u \in tx[s].users
Depart(t, u) ==
    /\ OnTeam(u)
    /\ Start(t, [Idle EXCEPT !.op = "depart", !.pc = "commit", !.who = u, !.found = TRUE,
                             !.users = IF ChatLocked(u) THEN {} ELSE room \cap {u}])
    /\ UNCHANGED <<asks, members, room>>
Leave(t, me) == Depart(t, me)
Remove(t, u) == Depart(t, u)

(* update_member_access; a level that is already there writes nothing.     *)
UpdateAccess(t, u, a) ==
    /\ OnTeam(u)
    /\ Start(t, [Idle EXCEPT !.op = "grant", !.pc = "commit", !.who = u, !.access = a,
                             !.found = members[u] # a])
    /\ UNCHANGED <<asks, members, room>>

(* list_groups first brings the team room up to date, for whoever is on    *)
(* a team somebody has joined.                                             *)
ListGroups(t, me) ==
    /\ me \in Team /\ Team # {Owner}
    /\ Start(t, [Idle EXCEPT !.op = "list", !.pc = "room", !.users = Team])
    /\ UNCHANGED <<asks, members, room>>

-----------------------------------------------------------------------------
(* The handlers' later steps.                                              *)

RowsFree(t, rows) == \A s \in Threads \ {t} : tx[s].rows \cap rows = {}
ChatRowsFreeOfAll(t, users) ==
    \A s \in Threads : tx[s].op = "depart" => tx[s].users \cap users = {}
ChatRowsFree(t, users) ==
    \A s \in Threads \ {t} : tx[s].op = "depart" => tx[s].users \cap users = {}
Finish(t) == tx' = [tx EXCEPT ![t] = Idle]
AtCommit(t, op) == tx[t].op = op /\ tx[t].pc = "commit"

(* invite's bulk update, run at once.                                      *)
ExpireOld(t) ==
    LET old == PendingOf("invitation", tx[t].who) IN
    /\ tx[t].pc = "expire" /\ RowsFree(t, old)
    /\ tx' = [tx EXCEPT ![t].pc = "commit", ![t].rows = old]
    /\ UNCHANGED <<asks, members, room>>

(* sync_project_room's second half: which chat rows are missing.           *)
ReadRoom(t) ==
    /\ tx[t].pc = "room"
    /\ tx' = [tx EXCEPT ![t].pc = "commit", ![t].fresh = (room = {}),
                        ![t].users = tx[t].users \ room]
    /\ UNCHANGED <<asks, members, room>>

Fresh == CHOOSE r \in AskIds : asks[r].status = "none"

(* The partial unique indexes: a second pending row of the person is       *)
(* refused with a 409.  The rows the handler itself expired do not count.  *)
DuplicateAllowed(t, kind) == FALSE
Duplicate(t, kind) == PendingOf(kind, tx[t].who) \ tx[t].rows # {}

CommitSubmit(t) ==
    /\ AtCommit(t, "submit") /\ Unused # {}
    /\ IF Duplicate(t, "request") THEN UNCHANGED asks
       ELSE asks' = [asks EXCEPT ![Fresh] =
                        [kind |-> "request", who |-> tx[t].who, by |-> tx[t].by,
                         access |-> "none", status |-> "pending", live |-> TRUE]]
    /\ Finish(t) /\ UNCHANGED <<members, room>>

CommitInvite(t) ==
    /\ AtCommit(t, "invite") /\ Unused # {}
    /\ IF Duplicate(t, "invitation") THEN UNCHANGED asks
       ELSE asks' = [r \in AskIds |->
                        IF r \in tx[t].rows THEN [asks[r] EXCEPT !.status = "expired"]
                        ELSE IF r = Fresh
                        THEN [kind |-> "invitation", who |-> tx[t].who, by |-> tx[t].by,
                              access |-> tx[t].access, status |-> "pending", live |-> TRUE]
                        ELSE asks[r]]
    /\ Finish(t) /\ UNCHANGED <<members, room>>

(* An ORM update by id: the last writer's status stays.                    *)
CommitSettle(t) ==
    /\ AtCommit(t, "settle") /\ RowsFree(t, {tx[t].row})
    /\ asks' = [asks EXCEPT ![tx[t].row].status = tx[t].status]
    /\ Finish(t) /\ UNCHANGED <<members, room>>

(* Refused by chat_rooms.project_id unique, or by the key of chat_members. *)
RoomRefused(t) == tx[t].users # {} /\ ((tx[t].fresh /\ room # {}) \/ tx[t].users \cap room # {})

(* Somebody who is on the team already keeps the access they have.         *)
JoinedAgain(t) == [members EXCEPT ![tx[t].who] = tx[t].access]
Joined(t) == IF tx[t].found THEN members ELSE [members EXCEPT ![tx[t].who] = tx[t].access]

(* uq_project_collaborator refuses a second membership row; either refusal *)
(* rolls the whole acceptance back.                                        *)
CommitJoin(t) ==
    /\ AtCommit(t, "join") /\ RowsFree(t, {tx[t].row}) /\ ChatRowsFree(t, tx[t].users)
    /\ IF RoomRefused(t) \/ (~tx[t].found /\ OnTeam(tx[t].who))
       THEN UNCHANGED <<asks, members, room>>
       ELSE /\ asks' = [asks EXCEPT ![tx[t].row].status = tx[t].status]
            /\ members' = Joined(t)
            /\ room' = room \cup tx[t].users
    /\ Finish(t)

(* A membership row that is deleted is gone for every thread that read it, *)
(* even if the person joins again: that is another row.                    *)
CommitDepart(t) ==
    /\ AtCommit(t, "depart") /\ ChatRowsFree(t, {tx[t].who})
    /\ members' = IF tx[t].found THEN [members EXCEPT ![tx[t].who] = "none"] ELSE members
    /\ room' = room \ tx[t].users
    /\ tx' = [s \in Threads |->
                 IF s = t THEN Idle
                 ELSE IF tx[t].found /\ tx[s].op \in {"depart", "grant"} /\ tx[s].who = tx[t].who
                 THEN [tx[s] EXCEPT !.found = FALSE]
                 ELSE tx[s]]
    /\ UNCHANGED asks

(* An update of a deleted row is a StaleDataError, and a rollback.         *)
CommitGrant(t) ==
    /\ AtCommit(t, "grant")
    /\ members' = IF tx[t].found THEN [members EXCEPT ![tx[t].who] = tx[t].access] ELSE members
    /\ Finish(t) /\ UNCHANGED <<asks, room>>

CommitList(t) ==
    /\ AtCommit(t, "list") /\ ChatRowsFree(t, tx[t].users)
    /\ room' = IF RoomRefused(t) THEN room ELSE room \cup tx[t].users
    /\ Finish(t) /\ UNCHANGED <<asks, members>>

(* The two weeks of INVITE_TTL pass; only a pending row's date is read.    *)
InvitationExpires(r) ==
    /\ asks[r].kind = "invitation" /\ asks[r].status = "pending" /\ asks[r].live
    /\ asks' = [asks EXCEPT ![r].live = FALSE]
    /\ UNCHANGED <<members, room, tx>>

-----------------------------------------------------------------------------
Request(t) ==
    \/ \E me \in Devs : Submit(t, me)
    \/ \E me \in Users, u \in Devs, a \in Levels : Invite(t, me, u, a)
    \/ \E me \in Users, r \in AskIds : DeclineRequest(t, me, r)
    \/ \E me \in Users, r \in AskIds : WithdrawRequest(t, me, r)
    \/ \E me \in Users, r \in AskIds, a \in Levels : AcceptRequest(t, me, r, a)
    \/ \E me \in Users, r \in AskIds : AcceptInvitation(t, me, r)
    \/ \E me \in Users, r \in AskIds : DeclineInvitation(t, me, r)
    \/ \E me \in Users, r \in AskIds : RevokeInvitation(t, me, r)
    \/ \E me \in Devs : Leave(t, me)
    \/ \E u \in Devs : Remove(t, u)
    \/ \E u \in Devs, a \in Levels : UpdateAccess(t, u, a)
    \/ \E me \in Users : ListGroups(t, me)

Proceed(t) ==
    \/ ExpireOld(t) \/ ReadRoom(t)
    \/ CommitSubmit(t) \/ CommitInvite(t) \/ CommitSettle(t)
    \/ CommitJoin(t) \/ CommitDepart(t) \/ CommitGrant(t) \/ CommitList(t)

Next == \/ \E t \in Threads : Request(t) \/ Proceed(t)
        \/ \E r \in AskIds : InvitationExpires(r)

(* A thread that has started a handler runs it to its end.  Nothing makes  *)
(* people call, nor an invitation expire.                                  *)
Spec == Init /\ [][Next]_vars /\ \A t \in Threads : WF_vars(Proceed(t))

-----------------------------------------------------------------------------
(* Properties.                                                             *)

(* Two submissions, or two invitations, racing past the same checks leave  *)
(* one pending row per person: the partial unique indexes and the update   *)
(* that retires expired invitations agree.                                 *)
OnePendingAsk ==
    \A kind \in {"request", "invitation"}, q, r \in AskIds :
        (q \in PendingOf(kind, asks[r].who) /\ r \in PendingOf(kind, asks[r].who)) => q = r

(* Managers run the team but cannot make managers (_grantable): somebody   *)
(* becomes one only in a handler of the owner's, or by accepting an        *)
(* invitation the owner sent, whatever their rank is when it commits.      *)
ManagersComeFromOwner ==
    [][\A u \in Devs : (members[u] # "manager" /\ members'[u] = "manager") =>
          \E t \in Threads : /\ tx[t].who = u /\ tx'[t] = Idle
                             /\ \/ tx[t].by = Owner
                                \/ tx[t].op = "join" /\ asks[tx[t].row].by = Owner]_vars

Asked == {asks[r].who : r \in {q \in AskIds : asks[q].status # "none"}}

(* A team room always has the owner in it, and otherwise only people who   *)
(* asked to join or were invited: joining, leaving and listing may race,   *)
(* but no outsider gets in and the owner never falls out.                  *)
RoomIsOurs == room # {} => Owner \in room /\ room \subseteq Asked \cup {Owner}

Orders == {<<tx[t].who, tx[t].access>> : t \in {s \in Threads : tx[s].op = "grant"}}

Promise == INSTANCE Membership WITH team <- members, asked <- Asked, orders <- Orders

(* The handlers implement module Membership: no membership without an ask, *)
(* no access rewritten by answering a leftover ask of a member.            *)
KeepsPromise == Promise!Spec

(* The rows a handler locks are always let go: no set of handlers waits    *)
(* for one another, every request is answered.                             *)
EveryHandlerFinishes == \A t \in Threads : tx[t].op # "idle" ~> tx[t].op = "idle"

(* "Keep a room whose members are the owner plus every collaborator"       *)
(* (chat_rooms.py:35): nobody who is not on the team is in its room.       *)
RoomWithinTeam == (\A t \in Threads : tx[t] = Idle) => room \subseteq Team
=============================================================================
