------------------------ MODULE CollaborationProofs -------------------------
(***************************************************************************)
(* Proofs about module Collaboration, for any set of threads, developers   *)
(* and row ids.  The inductive invariant says of every request in flight   *)
(* what it may rely on when it commits (Sound); rows that exist keep their *)
(* table and their person (RowsKept), so what one handler has read another *)
(* cannot make unsound.                                                    *)
(***************************************************************************)
EXTENDS Collaboration, TLAPS

Known(r) == r \in AskIds /\ asks[r].status # "none"

(* What a request in flight has established, whatever runs beside it.      *)
Sound(q) ==
    /\ q.op = "submit" => q.who \in Devs /\ q.by \in Devs
    /\ q.op = "invite" => q.who \in Devs /\ q.access \in Levels
    /\ q.op = "settle" =>
          /\ Known(q.row)
          /\ asks[q.row].kind = "request" => q.status \in RequestStatuses \ {"pending"}
          /\ asks[q.row].kind = "invitation" => q.status \in InvitationStatuses \ {"pending"}
    /\ q.op = "join" => /\ Known(q.row) /\ q.status = "accepted"
                        /\ q.who = asks[q.row].who /\ q.access \in Levels
    /\ q.op \in {"depart", "grant"} => q.who \in Devs
    /\ q.op = "grant" => q.access \in Levels /\ q.who \in Asked
    /\ q.op = "depart" => q.users \subseteq {q.who}
    /\ q.op \in {"join", "list"} =>
          /\ q.users \subseteq Asked \cup {Owner}
          /\ q.pc = "room" => Owner \in q.users
          /\ (q.pc = "commit" /\ q.users # {}) => Owner \in q.users \cup room
    /\ \A r \in q.rows : Known(r) /\ asks[r].kind = "invitation"
    /\ q.pc = "expire" => q.op = "invite"
    /\ q.pc = "room" => q.op \in {"join", "list"}

IInv == /\ TypeOK
        /\ \A t \in Threads : Sound(tx[t])
        /\ \A u \in Devs : members[u] # "none" => u \in Asked
        /\ RoomIsOurs

(* Rows that exist keep their table and their person, for good.            *)
RowsKept == \A r \in AskIds : asks[r].status # "none" =>
                /\ asks'[r].kind = asks[r].kind /\ asks'[r].who = asks[r].who
                /\ asks'[r].status # "none"
OwnerKept == Owner \in room => Owner \in room'

-----------------------------------------------------------------------------
(* The row an insert takes is one that is free.                            *)
LEMMA FreshUnused == Unused # {} => Fresh \in AskIds /\ asks[Fresh].status = "none"
BY DEF Unused, Fresh

(* A row that exists is a request or an invitation about a developer.      *)
LEMMA KnownRow ==
    ASSUME TypeOK, NEW r, Known(r)
    PROVE  /\ asks[r] \in RequestRow \cup InvitationRow
           /\ asks[r].who \in Devs /\ asks[r].kind \in {"request", "invitation"}
           /\ asks[r].who \in Asked
<1>1. asks[r] \in RequestRow \cup InvitationRow
  BY DEF TypeOK, Known, NoRow
<1> QED  BY <1>1 DEF Known, RequestRow, InvitationRow, Asked

(* Nothing that happens to the rows takes away what a request relies on.   *)
LEMMA SoundStable ==
    ASSUME TypeOK, RowsKept, OwnerKept, NEW q \in Tx, Sound(q)
    PROVE  Sound(q)'
<1>1. Asked \subseteq Asked'
  BY DEF Asked, RowsKept
<1>2. \A r : Known(r) => Known(r)' /\ asks'[r].kind = asks[r].kind /\ asks'[r].who = asks[r].who
  BY DEF Known, RowsKept
<1> QED  BY <1>1, <1>2 DEF Sound, OwnerKept

LEMMA IdleSound == Sound(Idle) /\ Idle \in Tx
BY DEF Sound, Idle, Tx, Ops, Users, Statuses, Access

-----------------------------------------------------------------------------
(* A step that only puts a sound request in flight.                        *)
LEMMA StartStep ==
    ASSUME IInv, NEW t \in Threads, NEW q \in Tx, Sound(q),
           tx' = [tx EXCEPT ![t] = q], UNCHANGED <<asks, members, room>>
    PROVE  IInv'
<1>1. TypeOK'
  BY DEF IInv, TypeOK
<1>2. ASSUME NEW s \in Threads PROVE Sound(tx[s])'
  <2>1. tx'[s] = IF s = t THEN q ELSE tx[s]
    BY DEF IInv, TypeOK
  <2>2. tx[s] \in Tx /\ Sound(tx[s])
    BY DEF IInv, TypeOK
  <2>3. RowsKept /\ OwnerKept
    BY DEF RowsKept, OwnerKept
  <2>4. Sound(tx[s])' <=> (IF s = t THEN Sound(q)' ELSE Sound(tx[s]))
    BY <2>1 DEF Sound, Known, Asked
  <2>5. Sound(q)'
    BY <2>3, SoundStable DEF IInv
  <2> QED  BY <2>2, <2>4, <2>5
<1> QED  BY <1>1, <1>2 DEF IInv, RoomIsOurs, Asked

(* A step that ends a request, having kept every row.                      *)
LEMMA FinishStep ==
    ASSUME IInv, NEW t \in Threads, Finish(t), RowsKept, OwnerKept,
           asks' \in [AskIds -> RequestRow \cup InvitationRow \cup {NoRow}],
           members' \in [Devs -> Access], room' \in SUBSET Users, RoomIsOurs',
           \A u \in Devs : members'[u] # "none" => u \in Asked'
    PROVE  IInv'
<1>1. TypeOK'
  BY IdleSound DEF IInv, TypeOK, Finish
<1>2. ASSUME NEW s \in Threads PROVE Sound(tx[s])'
  <2>1. tx'[s] = IF s = t THEN Idle ELSE tx[s]
    BY DEF IInv, TypeOK, Finish
  <2>2. Sound(Idle)' /\ Idle \in Tx
    BY IdleSound, SoundStable DEF IInv
  <2>3. CASE s = t
    BY <2>1, <2>2, <2>3 DEF Sound, Known, Asked
  <2>4. CASE s # t
    <3>1. tx[s] \in Tx /\ Sound(tx[s]) /\ TypeOK
      BY DEF IInv, TypeOK
    <3> DEFINE q == tx[s]
    <3>2. PICK r \in Tx : r = q /\ Sound(r)
      BY <3>1
    <3>3. Sound(r)'
      BY <3>1, <3>2, SoundStable
    <3>4. tx'[s] = r
      BY <2>1, <2>4, <3>2
    <3> QED  BY <3>3, <3>4 DEF Sound, Known, Asked
  <2> QED  BY <2>3, <2>4
<1> QED  BY <1>1, <1>2 DEF IInv

LEMMA InitInv == Init => IInv
<1> SUFFICES ASSUME Init PROVE IInv
  OBVIOUS
<1>1. TypeOK
  BY IdleSound DEF Init, TypeOK, Access, NoRow
<1>2. ASSUME NEW t \in Threads PROVE Sound(tx[t])
  BY IdleSound DEF Init
<1> QED  BY <1>1, <1>2 DEF IInv, Init, RoomIsOurs

(* Every handler, when it starts, puts a sound request in flight.          *)
LEMMA RequestInv ==
    ASSUME IInv, NEW t \in Threads, Request(t)
    PROVE  IInv'
<1> USE DEF IInv
<1>1. ASSUME NEW me \in Devs, Submit(t, me) PROVE IInv'
  <2> DEFINE q == [Idle EXCEPT !.op = "submit", !.pc = "commit", !.by = me, !.who = me]
  <2>1. q \in Tx /\ Sound(q)
    BY DEF Sound, Idle, Tx, Ops, Users, Statuses, Access
  <2> QED  BY <2>1, <1>1, StartStep DEF Submit, Start
<1>2. ASSUME NEW me \in Users, NEW u \in Devs, NEW a \in Levels, Invite(t, me, u, a)
      PROVE  IInv'
  <2> DEFINE q == [Idle EXCEPT !.op = "invite", !.pc = "expire", !.by = me,
                               !.who = u, !.access = a]
  <2>1. q \in Tx /\ Sound(q)
    BY DEF Sound, Idle, Tx, Ops, Users, Statuses, Access
  <2> QED  BY <2>1, <1>2, StartStep DEF Invite, Start
<1>3. ASSUME NEW r \in AskIds, NEW st \in Statuses, Settle(t, r, st), Known(r),
             asks[r].kind = "request" => st \in RequestStatuses \ {"pending"},
             asks[r].kind = "invitation" => st \in InvitationStatuses \ {"pending"}
      PROVE  IInv'
  <2> DEFINE q == [Idle EXCEPT !.op = "settle", !.pc = "commit", !.row = r, !.status = st]
  <2>1. q \in Tx
    BY DEF Idle, Tx, Ops, Users, Access
  <2>2. Sound(q)
    BY <1>3 DEF Sound, Idle
  <2> QED  BY <2>1, <2>2, <1>3, StartStep DEF Settle, Start
<1>4. ASSUME NEW me \in Users, NEW r \in AskIds, NEW a \in Levels, Join(t, me, r, a), Known(r)
      PROVE  IInv'
  <2> DEFINE q == [Idle EXCEPT !.op = "join", !.by = me, !.who = asks[r].who, !.row = r,
                               !.status = "accepted", !.access = a,
                               !.found = OnTeam(asks[r].who),
                               !.pc = IF Team = {Owner} THEN "commit" ELSE "room",
                               !.users = IF Team = {Owner} THEN {} ELSE Team]
  <2>1. Team \subseteq Asked \cup {Owner} /\ Team \subseteq Users /\ Owner \in Team
    BY DEF Team, OnTeam, Users
  <2>2. q \in Tx
    <3>1. asks[r].who \in Users /\ OnTeam(asks[r].who) \in BOOLEAN
      BY <1>4, KnownRow DEF Users, OnTeam
    <3> QED  BY <2>1, <3>1 DEF Idle, Tx, Ops, Users, Access, Statuses, RequestStatuses
  <2>3. Sound(q)
    BY <2>1, <1>4 DEF Sound, Idle
  <2> QED  BY <2>2, <2>3, <1>4, StartStep DEF Join, Start
<1>5. ASSUME NEW u \in Devs, Depart(t, u) PROVE IInv'
  <2> DEFINE q == [Idle EXCEPT !.op = "depart", !.pc = "commit", !.who = u, !.found = TRUE,
                               !.users = IF ChatLocked(u) THEN {} ELSE room \cap {u}]
  <2>1. q \in Tx /\ Sound(q)
    BY DEF Sound, Idle, Tx, Ops, Users, Statuses, Access
  <2> QED  BY <2>1, <1>5, StartStep DEF Depart, Start
<1>6. ASSUME NEW u \in Devs, NEW a \in Levels, UpdateAccess(t, u, a) PROVE IInv'
  <2> DEFINE q == [Idle EXCEPT !.op = "grant", !.pc = "commit", !.who = u, !.access = a,
                               !.found = members[u] # a]
  <2>1. u \in Asked
    BY <1>6 DEF UpdateAccess, OnTeam
  <2>2. q \in Tx /\ Sound(q)
    BY <2>1 DEF Sound, Idle, Tx, Ops, Users, Statuses, Access
  <2> QED  BY <2>2, <1>6, StartStep DEF UpdateAccess, Start
<1>7. ASSUME NEW me \in Users, ListGroups(t, me) PROVE IInv'
  <2> DEFINE q == [Idle EXCEPT !.op = "list", !.pc = "room", !.users = Team]
  <2>1. Team \subseteq Asked \cup {Owner} /\ Team \subseteq Users /\ Owner \in Team
    BY DEF Team, OnTeam, Users
  <2>2. q \in Tx /\ Sound(q)
    BY <2>1 DEF Sound, Idle, Tx, Ops, Users, Statuses, Access
  <2> QED  BY <2>2, <1>7, StartStep DEF ListGroups, Start
<1>8. \A r \in AskIds : asks[r].status # "none" => Known(r)
  BY DEF Known
<1>9. ASSUME NEW r \in AskIds, Known(r), asks[r].kind = "invitation" PROVE asks[r].access \in Levels
  <2>1. asks[r] \in RequestRow \cup InvitationRow
    BY <1>9, KnownRow
  <2> QED  BY <1>9, <2>1 DEF RequestRow, InvitationRow
<1>10. ASSUME NEW me \in Users, NEW r \in AskIds,
              DeclineRequest(t, me, r) \/ WithdrawRequest(t, me, r)
                \/ DeclineInvitation(t, me, r) \/ RevokeInvitation(t, me, r)
       PROVE  IInv'
  BY <1>10, <1>8, <1>3 DEF DeclineRequest, WithdrawRequest, DeclineInvitation,
     RevokeInvitation, PendingRequest, MyInvitation, Answerable,
     Statuses, RequestStatuses, InvitationStatuses
<1>11. ASSUME NEW me \in Users, NEW r \in AskIds, NEW a \in Levels, AcceptRequest(t, me, r, a)
       PROVE  IInv'
  BY <1>11, <1>8, <1>4 DEF AcceptRequest, PendingRequest
<1>12. ASSUME NEW me \in Users, NEW r \in AskIds, AcceptInvitation(t, me, r)
       PROVE  IInv'
  BY <1>12, <1>8, <1>9, <1>4 DEF AcceptInvitation, MyInvitation, Answerable
<1>13. ASSUME NEW u \in Devs, Leave(t, u) \/ Remove(t, u) PROVE IInv'
  BY <1>13, <1>5 DEF Leave, Remove
<1> QED
  BY <1>1, <1>2, <1>6, <1>7, <1>10, <1>11, <1>12, <1>13 DEF Request

(* Every later step of a handler keeps the invariant.                      *)
LEMMA ProceedInv ==
    ASSUME IInv, NEW t \in Threads, Proceed(t)
    PROVE  IInv'
<1> USE DEF IInv
<1>0. tx[t] \in Tx /\ Sound(tx[t]) /\ TypeOK
  BY DEF TypeOK
<1>a. ASSUME NEW r, asks[r].status # "none", r \in AskIds
      PROVE  asks[r] \in RequestRow \cup InvitationRow
  BY <1>a, KnownRow DEF Known
<1>1. CASE ExpireOld(t)
  <2> DEFINE old == PendingOf("invitation", tx[t].who)
             q == [tx[t] EXCEPT !.pc = "commit", !.rows = old]
  <2>1. q \in Tx
    BY <1>0 DEF Tx, PendingOf
  <2>2. tx[t].op = "invite" /\ \A r \in old : Known(r) /\ asks[r].kind = "invitation"
    BY <1>0, <1>1 DEF ExpireOld, Sound, PendingOf, Known
  <2>3. Sound(q)
    BY <1>0, <2>2 DEF Sound, Tx
  <2>4. tx' = [tx EXCEPT ![t] = q]
    BY <1>0, <1>1 DEF ExpireOld, TypeOK, Tx
  <2> QED  BY <1>1, <2>1, <2>3, <2>4, StartStep DEF ExpireOld
<1>2. CASE ReadRoom(t)
  <2> DEFINE q == [tx[t] EXCEPT !.pc = "commit", !.fresh = (room = {}), !.users = tx[t].users \ room]
  <2>1. q \in Tx
    BY <1>0 DEF Tx
  <2>2. tx[t].op \in {"join", "list"} /\ Owner \in tx[t].users
    BY <1>0, <1>2 DEF ReadRoom, Sound
  <2>3. Sound(q)
    BY <1>0, <2>2 DEF Sound, Tx
  <2>4. tx' = [tx EXCEPT ![t] = q]
    BY <1>0, <1>2 DEF ReadRoom, TypeOK, Tx
  <2> QED  BY <1>2, <2>1, <2>3, <2>4, StartStep DEF ReadRoom
<1>3. CASE CommitSubmit(t)
  <2> DEFINE row == [kind |-> "request", who |-> tx[t].who, by |-> tx[t].by,
                     access |-> "none", status |-> "pending", live |-> TRUE]
  <2>1. row \in RequestRow
    BY <1>0, <1>3 DEF CommitSubmit, AtCommit, Sound, RequestRow, RequestStatuses
  <2>2. asks' = asks \/ asks' = [asks EXCEPT ![Fresh] = row]
    BY <1>3 DEF CommitSubmit
  <2>3. asks' \in [AskIds -> RequestRow \cup InvitationRow \cup {NoRow}] /\ RowsKept
    BY <1>0, <1>3, <2>1, <2>2, FreshUnused DEF CommitSubmit, TypeOK, RowsKept
  <2>4. Asked \subseteq Asked'
    BY <2>3 DEF Asked, RowsKept
  <2> QED
    BY <1>0, <1>3, <2>3, <2>4, FinishStep DEF CommitSubmit, TypeOK, OwnerKept, RoomIsOurs
<1>4. CASE CommitInvite(t)
  <2> DEFINE row == [kind |-> "invitation", who |-> tx[t].who, by |-> tx[t].by,
                     access |-> tx[t].access, status |-> "pending", live |-> TRUE]
             old(r) == [asks[r] EXCEPT !.status = "expired"]
  <2>1. row \in InvitationRow
    BY <1>0, <1>4 DEF CommitInvite, AtCommit, Sound, InvitationRow, InvitationStatuses, Tx
  <2>2. \A r \in tx[t].rows : /\ r \in AskIds /\ asks[r].status # "none"
                              /\ asks[r] \in InvitationRow
    BY <1>0, <1>a DEF Sound, Known, RequestRow
  <2>3. \A r \in tx[t].rows : old(r) \in InvitationRow /\ old(r).who = asks[r].who
                               /\ old(r).kind = asks[r].kind /\ old(r).status # "none"
    BY <2>2 DEF InvitationRow, InvitationStatuses
  <2>4. asks' = asks \/ asks' = [r \in AskIds |-> IF r \in tx[t].rows THEN old(r)
                                                ELSE IF r = Fresh THEN row ELSE asks[r]]
    BY <1>4 DEF CommitInvite
  <2>5. asks' \in [AskIds -> RequestRow \cup InvitationRow \cup {NoRow}]
    BY <1>0, <2>1, <2>3, <2>4 DEF TypeOK
  <2>6. RowsKept
    BY <1>0, <1>4, <2>3, <2>4, FreshUnused DEF CommitInvite, TypeOK, RowsKept
  <2>7. Asked \subseteq Asked'
    BY <2>6 DEF Asked, RowsKept
  <2> QED
    BY <1>0, <1>4, <2>5, <2>6, <2>7, FinishStep DEF CommitInvite, TypeOK, OwnerKept, RoomIsOurs
<1>5. ASSUME tx[t].op \in {"settle", "join"},
             asks' = [asks EXCEPT ![tx[t].row].status = tx[t].status]
      PROVE  /\ asks' \in [AskIds -> RequestRow \cup InvitationRow \cup {NoRow}]
             /\ RowsKept /\ Asked \subseteq Asked' /\ tx[t].row \in AskIds
  <2> DEFINE r == tx[t].row
             new == [asks[r] EXCEPT !.status = tx[t].status]
  <2>1. r \in AskIds /\ asks[r].status # "none" /\ asks[r] \in RequestRow \cup InvitationRow
    BY <1>0, <1>5, <1>a DEF Sound, Known
  <2>2. CASE asks[r] \in RequestRow
    <3>1. tx[t].status \in RequestStatuses
      BY <1>0, <1>5, <2>2 DEF Sound, RequestRow, RequestStatuses
    <3> QED  BY <2>2, <3>1, <2>1, <1>0, <1>5 DEF RequestRow, RequestStatuses, TypeOK, RowsKept, Asked
  <2>3. CASE asks[r] \in InvitationRow
    <3>1. tx[t].status \in InvitationStatuses
      BY <1>0, <1>5, <2>3 DEF Sound, InvitationRow, InvitationStatuses
    <3> QED  BY <2>3, <3>1, <2>1, <1>0, <1>5 DEF InvitationRow, InvitationStatuses, TypeOK, RowsKept, Asked
  <2> QED  BY <2>1, <2>2, <2>3
<1>6. CASE CommitSettle(t)
  BY <1>0, <1>5, <1>6, FinishStep DEF CommitSettle, AtCommit, TypeOK, OwnerKept, RoomIsOurs
<1>7. CASE CommitJoin(t)
  <2>1. tx[t].op = "join" /\ tx[t].pc = "commit" /\ Finish(t)
    BY <1>7 DEF CommitJoin, AtCommit
  <2>2. CASE UNCHANGED <<asks, members, room>>
    BY <1>0, <2>1, <2>2, FinishStep DEF TypeOK, RowsKept, OwnerKept, RoomIsOurs, Asked
  <2>3. CASE /\ asks' = [asks EXCEPT ![tx[t].row].status = tx[t].status]
             /\ members' = Joined(t)
             /\ room' = room \cup tx[t].users
    <3>1. /\ asks' \in [AskIds -> RequestRow \cup InvitationRow \cup {NoRow}]
          /\ RowsKept /\ Asked \subseteq Asked' /\ tx[t].row \in AskIds
      BY <1>5, <2>1, <2>3
    <3>2. tx[t].who \in Devs /\ tx[t].who \in Asked /\ tx[t].access \in Access
      BY <1>0, <2>1, KnownRow DEF Sound, Access
    <3>3. members' \in [Devs -> Access] /\ \A u \in Devs : members'[u] # "none" => u \in Asked'
      BY <1>0, <2>3, <3>1, <3>2 DEF TypeOK, Joined
    <3>4. tx[t].users \subseteq Asked \cup {Owner} /\ tx[t].users \subseteq Users
          /\ (tx[t].users # {} => Owner \in tx[t].users \cup room)
      BY <1>0, <2>1 DEF Sound, Tx
    <3>5. room' \in SUBSET Users /\ OwnerKept /\ RoomIsOurs'
      BY <1>0, <2>3, <3>1, <3>4 DEF TypeOK, OwnerKept, RoomIsOurs
    <3> QED  BY <2>1, <3>1, <3>3, <3>5, FinishStep
  <2> QED  BY <1>7, <2>2, <2>3 DEF CommitJoin
<1>8. CASE CommitDepart(t)
  <2>1. tx[t].who \in Devs /\ tx[t].users \subseteq {tx[t].who} /\ Owner \notin tx[t].users
    BY <1>0, <1>8, UsersAssumption DEF CommitDepart, AtCommit, Sound
  <2>2. members' \in [Devs -> Access] /\ \A u \in Devs : members'[u] # "none" => u \in Asked'
    BY <1>0, <1>8, <2>1 DEF CommitDepart, TypeOK, Access, Asked
  <2>3. room' \in SUBSET Users /\ OwnerKept /\ RoomIsOurs' /\ RowsKept /\ asks' = asks
    BY <1>0, <1>8, <2>1 DEF CommitDepart, TypeOK, OwnerKept, RoomIsOurs, RowsKept, Asked
  <2>4. ASSUME NEW s \in Threads PROVE tx'[s] \in Tx /\ Sound(tx[s])'
    <3>0. tx[s] \in Tx /\ Sound(tx[s])
      BY DEF TypeOK
    <3> DEFINE q == [tx[s] EXCEPT !.found = FALSE]
    <3>a. /\ q \in Tx /\ q.op = tx[s].op /\ q.pc = tx[s].pc /\ q.who = tx[s].who
          /\ q.by = tx[s].by /\ q.row = tx[s].row /\ q.status = tx[s].status
          /\ q.access = tx[s].access /\ q.users = tx[s].users /\ q.rows = tx[s].rows
      BY <3>0 DEF Tx
    <3>1. q \in Tx /\ Sound(q)
      BY <3>0, <3>a DEF Sound
    <3>2. PICK r \in {Idle, q, tx[s]} : tx'[s] = r
      BY <1>8 DEF CommitDepart
    <3>3. r \in Tx /\ Sound(r)
      BY <3>0, <3>1, <3>2, IdleSound
    <3>4. Sound(r)'
      BY <1>0, <2>3, <3>3, SoundStable
    <3> QED  BY <3>2, <3>3, <3>4 DEF Sound, Known, Asked
  <2>5. tx' \in [Threads -> Tx]
    BY <1>8, <2>4 DEF CommitDepart
  <2> QED  BY <1>0, <2>2, <2>3, <2>4, <2>5 DEF TypeOK
<1>9. CASE CommitGrant(t)
  <2>1. tx[t].who \in Devs /\ tx[t].access \in Access /\ tx[t].who \in Asked
    BY <1>0, <1>9 DEF CommitGrant, AtCommit, Sound, Access
  <2> QED
    BY <1>0, <1>9, <2>1, FinishStep
       DEF CommitGrant, TypeOK, RowsKept, OwnerKept, RoomIsOurs, Asked
<1>10. CASE CommitList(t)
  <2>1. tx[t].users \subseteq Asked \cup {Owner} /\ tx[t].users \subseteq Users
        /\ (tx[t].users # {} => Owner \in tx[t].users \cup room)
    BY <1>0, <1>10 DEF CommitList, AtCommit, Sound, Tx
  <2>2. room' \in SUBSET Users /\ OwnerKept /\ RoomIsOurs'
    BY <1>0, <1>10, <2>1 DEF CommitList, TypeOK, OwnerKept, RoomIsOurs, Asked
  <2> QED  BY <1>0, <1>10, <2>2, FinishStep DEF CommitList, TypeOK, RowsKept, Asked
<1> QED  BY <1>1, <1>2, <1>3, <1>4, <1>6, <1>7, <1>8, <1>9, <1>10 DEF Proceed

LEMMA StutterInv == ASSUME IInv, UNCHANGED vars PROVE IInv'
<1>1. RowsKept /\ OwnerKept
  BY DEF vars, RowsKept, OwnerKept
<1> QED  BY <1>1 DEF vars, IInv, TypeOK, Sound, Known, Asked, RoomIsOurs

LEMMA NextInv == IInv /\ [Next]_vars => IInv'
<1> SUFFICES ASSUME IInv, [Next]_vars PROVE IInv'
  OBVIOUS
<1>1. ASSUME NEW r \in AskIds, InvitationExpires(r) PROVE IInv'
  <2>1. asks[r] \in InvitationRow
    BY <1>1, KnownRow DEF InvitationExpires, IInv, Known, RequestRow
  <2>2. asks' \in [AskIds -> RequestRow \cup InvitationRow \cup {NoRow}] /\ RowsKept
    BY <1>1, <2>1 DEF InvitationExpires, IInv, TypeOK, RowsKept, InvitationRow
  <2>3. TypeOK' /\ OwnerKept /\ Asked \subseteq Asked'
    BY <1>1, <2>2 DEF InvitationExpires, IInv, TypeOK, OwnerKept, RowsKept, Asked
  <2>4. ASSUME NEW t \in Threads PROVE Sound(tx[t])'
    <3>1. PICK q \in Tx : q = tx[t] /\ Sound(q)
      BY DEF IInv, TypeOK
    <3>2. Sound(q)'
      BY <3>1, <2>2, <2>3, SoundStable DEF IInv
    <3> QED  BY <3>1, <3>2, <1>1 DEF InvitationExpires, Sound, Known, Asked
  <2> QED  BY <1>1, <2>3, <2>4 DEF IInv, InvitationExpires, RoomIsOurs
<1> QED  BY <1>1, RequestInv, ProceedInv, StutterInv DEF Next

THEOREM Invariance == Spec => []IInv
BY InitInv, NextInv, PTL DEF Spec

(* Every row, membership, chat row and request in flight has its type, and *)
(* every ask one of the statuses of its table: no answer to a request ends *)
(* up on an invitation or the reverse.                                     *)
THEOREM TypeCorrect == Spec => []TypeOK
BY Invariance, PTL DEF IInv

(* However joins, departures and listings race, the team room always has   *)
(* the owner in it and nobody who never asked or was never invited.        *)
THEOREM RoomIsOursHolds == Spec => []RoomIsOurs
BY Invariance, PTL DEF IInv

-----------------------------------------------------------------------------
(* A step after which no row is newly pending keeps the asks unique.       *)
LEMMA PendingShrinks ==
    ASSUME OnePendingAsk,
           \A r \in AskIds : asks'[r].status = "pending" =>
               /\ asks[r].status = "pending"
               /\ asks'[r].kind = asks[r].kind /\ asks'[r].who = asks[r].who
    PROVE  OnePendingAsk'
BY DEF OnePendingAsk, PendingOf

LEMMA OnePendingStep == IInv /\ OnePendingAsk /\ [Next]_vars => OnePendingAsk'
<1> SUFFICES ASSUME IInv, OnePendingAsk, [Next]_vars PROVE OnePendingAsk'
  OBVIOUS
<1>0. TypeOK /\ \A t \in Threads : tx[t] \in Tx /\ Sound(tx[t])
  BY DEF IInv, TypeOK
<1>1. CASE asks' = asks
  BY <1>1, PendingShrinks
<1>2. ASSUME NEW t \in Threads, CommitSubmit(t), asks' # asks PROVE OnePendingAsk'
  <2>1. PendingOf("request", tx[t].who) \ tx[t].rows = {}
    BY <1>2 DEF CommitSubmit, Duplicate
  <2>2. PendingOf("request", tx[t].who) = {}
    BY <1>0, <2>1 DEF Sound, PendingOf
  <2>3. \A r \in AskIds : asks'[r] =
           IF r = Fresh THEN [kind |-> "request", who |-> tx[t].who, by |-> tx[t].by,
                              access |-> "none", status |-> "pending", live |-> TRUE]
           ELSE asks[r]
    BY <1>0, <1>2 DEF CommitSubmit, TypeOK
  <2> QED  BY <2>2, <2>3 DEF OnePendingAsk, PendingOf
<1>3. ASSUME NEW t \in Threads, CommitInvite(t), asks' # asks PROVE OnePendingAsk'
  <2>1. PendingOf("invitation", tx[t].who) \subseteq tx[t].rows
    BY <1>3 DEF CommitInvite, Duplicate
  <2>2. \A r \in AskIds :
           /\ r \in tx[t].rows => asks'[r].status = "expired"
           /\ r \notin tx[t].rows /\ r # Fresh => asks'[r] = asks[r]
           /\ r \notin tx[t].rows /\ r = Fresh =>
                 asks'[r].kind = "invitation" /\ asks'[r].who = tx[t].who
    <3>1. \A r \in tx[t].rows : asks[r] \in InvitationRow
      BY <1>0, KnownRow DEF Sound, RequestRow
    <3> QED  BY <1>0, <1>3, <3>1 DEF CommitInvite, TypeOK, InvitationRow
  <2> QED  BY <2>1, <2>2 DEF OnePendingAsk, PendingOf
<1>4. ASSUME NEW t \in Threads, tx[t].op \in {"settle", "join"},
             asks' = [asks EXCEPT ![tx[t].row].status = tx[t].status]
      PROVE  OnePendingAsk'
  <2>1. /\ tx[t].row \in AskIds /\ tx[t].status # "pending"
        /\ asks[tx[t].row] \in RequestRow \cup InvitationRow
    BY <1>0, <1>4, KnownRow DEF Sound, Known, RequestStatuses, InvitationStatuses
  <2>2. \A r \in AskIds : asks'[r].status = "pending" => asks'[r] = asks[r]
    BY <1>0, <1>4, <2>1 DEF TypeOK, RequestRow, InvitationRow
  <2> QED  BY <2>2, PendingShrinks
<1>5. ASSUME NEW r \in AskIds, InvitationExpires(r) PROVE OnePendingAsk'
  <2>1. asks[r] \in InvitationRow
    BY <1>0, <1>5, KnownRow DEF InvitationExpires, Known, RequestRow
  <2>2. \A q \in AskIds : /\ asks'[q].status = asks[q].status
                          /\ asks'[q].kind = asks[q].kind /\ asks'[q].who = asks[q].who
    BY <1>0, <1>5, <2>1 DEF InvitationExpires, TypeOK, InvitationRow
  <2> QED  BY <2>2, PendingShrinks
<1>6. ASSUME NEW t \in Threads, Request(t) PROVE asks' = asks
  BY <1>6 DEF Request, Submit, Invite, DeclineRequest, WithdrawRequest, AcceptRequest,
     AcceptInvitation, DeclineInvitation, RevokeInvitation, Leave, Remove, UpdateAccess,
     ListGroups, Settle, Join, Depart
<1>7. ASSUME NEW t \in Threads, Proceed(t) PROVE OnePendingAsk'
  BY <1>1, <1>2, <1>3, <1>4, <1>7 DEF Proceed, ExpireOld, ReadRoom, CommitSettle, CommitJoin,
     CommitDepart, CommitGrant, CommitList, AtCommit
<1> QED  BY <1>1, <1>5, <1>6, <1>7 DEF Next, vars

(* However submissions, invitations and answers race, nobody ever has two  *)
(* pending requests or two pending invitations.                            *)
THEOREM OnePendingAskHolds == Spec => []OnePendingAsk
<1>1. Init => OnePendingAsk
  BY DEF Init, OnePendingAsk, PendingOf, NoRow
<1> QED  BY <1>1, OnePendingStep, Invariance, PTL DEF Spec

-----------------------------------------------------------------------------
(* Whoever is about to change or delete a membership row has one: deleting *)
(* it tells every other thread.                                            *)
Held == \A t \in Threads :
            (tx[t].op \in {"depart", "grant"} /\ tx[t].found) => OnTeam(tx[t].who)

LEMMA HeldStep == IInv /\ Held /\ [Next]_vars => Held'
<1> SUFFICES ASSUME IInv, Held, [Next]_vars, NEW s \in Threads,
                    tx'[s].op \in {"depart", "grant"}, tx'[s].found
             PROVE  OnTeam(tx[s].who)'
  BY DEF Held
<1>0. /\ \A t \in Threads : tx[t] \in Tx /\ Sound(tx[t])
      /\ tx \in [Threads -> Tx] /\ members \in [Devs -> Access]
  BY DEF IInv, TypeOK
<1>1. CASE UNCHANGED vars
  BY <1>1 DEF vars, Held, OnTeam
<1>2. ASSUME NEW r \in AskIds, InvitationExpires(r) PROVE OnTeam(tx[s].who)'
  BY <1>2 DEF InvitationExpires, Held, OnTeam
<1>3. ASSUME NEW t \in Threads, NEW q, tx' = [tx EXCEPT ![t] = q], members' = members,
             (q.op \in {"depart", "grant"} /\ q.found) => OnTeam(q.who)
      PROVE  OnTeam(tx[s].who)'
  BY <1>0, <1>3 DEF Held, OnTeam
<1>4. ASSUME NEW t \in Threads, Request(t) PROVE OnTeam(tx[s].who)'
  <2>1. ASSUME NEW u \in Devs, Depart(t, u) PROVE OnTeam(tx[s].who)'
    <3> DEFINE q == [Idle EXCEPT !.op = "depart", !.pc = "commit", !.who = u, !.found = TRUE,
                                 !.users = IF ChatLocked(u) THEN {} ELSE room \cap {u}]
    <3>1. q.who = u /\ OnTeam(u)
      BY <2>1 DEF Depart, Idle
    <3> QED  BY <1>3, <2>1, <3>1 DEF Depart, Start
  <2>2. ASSUME NEW u \in Devs, NEW a \in Levels, UpdateAccess(t, u, a) PROVE OnTeam(tx[s].who)'
    <3> DEFINE q == [Idle EXCEPT !.op = "grant", !.pc = "commit", !.who = u, !.access = a,
                                 !.found = members[u] # a]
    <3>1. q.who = u /\ OnTeam(u)
      BY <2>2 DEF UpdateAccess, Idle
    <3> QED  BY <1>3, <2>2, <3>1 DEF UpdateAccess, Start
  <2>3. ASSUME NEW r, NEW st, Settle(t, r, st) PROVE OnTeam(tx[s].who)'
    <3> DEFINE q == [Idle EXCEPT !.op = "settle", !.pc = "commit", !.row = r, !.status = st]
    <3>1. q.op = "settle"
      BY DEF Idle
    <3> QED  BY <1>3, <2>3, <3>1 DEF Settle, Start
  <2>4. ASSUME NEW me, NEW r, NEW a, Join(t, me, r, a) PROVE OnTeam(tx[s].who)'
    <3> DEFINE q == [Idle EXCEPT !.op = "join", !.by = me, !.who = asks[r].who, !.row = r,
                                 !.status = "accepted", !.access = a,
                                 !.found = OnTeam(asks[r].who),
                                 !.pc = IF Team = {Owner} THEN "commit" ELSE "room",
                                 !.users = IF Team = {Owner} THEN {} ELSE Team]
    <3>1. q.op = "join"
      BY DEF Idle
    <3> QED  BY <1>3, <2>4, <3>1 DEF Join, Start
  <2>5. ASSUME NEW me \in Devs, Submit(t, me) PROVE OnTeam(tx[s].who)'
    BY <1>3, <2>5 DEF Submit, Start, Idle
  <2>6. ASSUME NEW me, NEW u, NEW a, Invite(t, me, u, a) PROVE OnTeam(tx[s].who)'
    BY <1>3, <2>6 DEF Invite, Start, Idle
  <2>7. ASSUME NEW me, ListGroups(t, me) PROVE OnTeam(tx[s].who)'
    BY <1>3, <2>7 DEF ListGroups, Start, Idle
  <2> QED
    BY <1>4, <2>1, <2>2, <2>3, <2>4, <2>5, <2>6, <2>7 DEF Request, DeclineRequest,
       WithdrawRequest, AcceptRequest, AcceptInvitation, DeclineInvitation,
       RevokeInvitation, Leave, Remove
<1>5. ASSUME NEW t \in Threads, Proceed(t) PROVE OnTeam(tx[s].who)'
  <2>1. ASSUME Finish(t), \A u \in Devs : members[u] # "none" => members'[u] # "none"
        PROVE  OnTeam(tx[s].who)'
    BY <1>0, <2>1 DEF Finish, Idle, Held, OnTeam
  <2>2. CASE CommitDepart(t)
    <3>1. s # t
      BY <1>0, <2>2 DEF CommitDepart, Idle
    <3>2. tx'[s].op = tx[s].op /\ tx'[s].who = tx[s].who /\ tx[s].found
      BY <1>0, <2>2, <3>1 DEF CommitDepart, Tx
    <3>3. ~(tx[t].found /\ tx[s].who = tx[t].who)
      BY <1>0, <2>2, <3>1, <3>2 DEF CommitDepart, Tx
    <3> QED  BY <1>0, <2>2, <3>2, <3>3 DEF CommitDepart, Held, OnTeam
  <2>3. CASE ExpireOld(t)
    <3>1. tx'[s].op = tx[s].op /\ tx'[s].who = tx[s].who /\ tx'[s].found = tx[s].found
      BY <1>0, <2>3 DEF ExpireOld, Tx
    <3> QED  BY <2>3, <3>1 DEF ExpireOld, Held, OnTeam
  <2>4. CASE ReadRoom(t)
    <3>1. tx'[s].op = tx[s].op /\ tx'[s].who = tx[s].who /\ tx'[s].found = tx[s].found
      BY <1>0, <2>4 DEF ReadRoom, Tx
    <3> QED  BY <2>4, <3>1 DEF ReadRoom, Held, OnTeam
  <2>5. CASE CommitJoin(t)
    <3>1. tx[t].access # "none"
      BY <1>0, <2>5 DEF CommitJoin, AtCommit, Sound, Levels
    <3> QED  BY <1>0, <2>1, <2>5, <3>1 DEF CommitJoin, Joined
  <2>6. CASE CommitGrant(t)
    <3>1. tx[t].access # "none"
      BY <1>0, <2>6 DEF CommitGrant, AtCommit, Sound, Levels
    <3> QED  BY <1>0, <2>1, <2>6, <3>1 DEF CommitGrant
  <2> QED
    BY <1>5, <2>1, <2>2, <2>3, <2>4, <2>5, <2>6
       DEF Proceed, CommitSubmit, CommitInvite, CommitSettle, CommitList
<1> QED  BY <1>1, <1>2, <1>4, <1>5 DEF Next

(* Each step of the handlers is a step of Membership, or changes nothing   *)
(* it speaks of.                                                           *)
LEMMA PromiseStep == IInv /\ IInv' /\ Held /\ [Next]_vars => [Promise!Next]_(Promise!vars)
<1> SUFFICES ASSUME IInv, IInv', Held, [Next]_vars
             PROVE  Promise!Next \/ UNCHANGED <<members, Asked, Orders>>
  BY DEF Promise!vars
<1>0. /\ \A t \in Threads : tx[t] \in Tx /\ Sound(tx[t])
      /\ tx \in [Threads -> Tx] /\ members \in [Devs -> Access] /\ TypeOK
  BY DEF IInv, TypeOK
<1>1. CASE UNCHANGED vars
  BY <1>1 DEF vars, Asked, Orders
<1>2. ASSUME NEW r \in AskIds, InvitationExpires(r)
      PROVE  UNCHANGED <<members, Asked, Orders>>
  <2>1. asks[r] \in InvitationRow
    BY <1>0, <1>2, KnownRow DEF InvitationExpires, Known, RequestRow
  <2>2. \A q \in AskIds : asks'[q].status = asks[q].status /\ asks'[q].who = asks[q].who
    BY <1>0, <1>2, <2>1 DEF InvitationExpires, TypeOK, InvitationRow
  <2> QED  BY <1>2, <2>2 DEF InvitationExpires, Asked, Orders
<1>3. ASSUME NEW t \in Threads, NEW q, Start(t, q), q.op # "grant", UNCHANGED <<asks, members>>
      PROVE  UNCHANGED <<members, Asked, Orders>>
  BY <1>0, <1>3 DEF Start, Idle, Asked, Orders
<1>4. ASSUME NEW t \in Threads, NEW u \in Devs, NEW a \in Levels, UpdateAccess(t, u, a)
      PROVE  Promise!Order(u, a)
  <2>1. tx[t].op # "grant" /\ tx'[t].op = "grant" /\ tx'[t].who = u /\ tx'[t].access = a
    BY <1>0, <1>4 DEF UpdateAccess, Start, Idle
  <2>2. \A s \in Threads \ {t} : tx'[s] = tx[s]
    BY <1>0, <1>4 DEF UpdateAccess, Start
  <2>3. Orders' = Orders \cup {<<u, a>>}
    BY <2>1, <2>2 DEF Orders
  <2> QED  BY <1>4, <2>3 DEF UpdateAccess, Promise!Order, Asked
<1>5. ASSUME NEW t \in Threads, Request(t)
      PROVE  Promise!Next \/ UNCHANGED <<members, Asked, Orders>>
  BY <1>3, <1>4, <1>5 DEF Request, Submit, Invite, DeclineRequest, WithdrawRequest,
     AcceptRequest, AcceptInvitation, DeclineInvitation, RevokeInvitation, Leave, Remove,
     Depart, ListGroups, Settle, Join, Idle, Promise!Next
<1>6. ASSUME NEW t \in Threads, Finish(t) PROVE Orders' \in SUBSET Orders
  BY <1>0, <1>6 DEF Finish, Idle, Orders
<1>7. ASSUME NEW t \in Threads, Finish(t), tx[t].op # "grant" PROVE Orders' = Orders
  BY <1>0, <1>7 DEF Finish, Idle, Orders
<1>8. ASSUME NEW t \in Threads, Proceed(t)
      PROVE  Promise!Next \/ UNCHANGED <<members, Asked, Orders>>
  <2>1. CASE ExpireOld(t)
    <3>1. \A s \in Threads : tx'[s].op = tx[s].op /\ tx'[s].who = tx[s].who
                            /\ tx'[s].access = tx[s].access
      BY <1>0, <2>1 DEF ExpireOld, Tx
    <3>2. Orders' = Orders
      BY <3>1 DEF Orders
    <3> QED  BY <2>1, <3>2 DEF ExpireOld, Asked
  <2>2. CASE ReadRoom(t)
    <3>1. \A s \in Threads : tx'[s].op = tx[s].op /\ tx'[s].who = tx[s].who
                            /\ tx'[s].access = tx[s].access
      BY <1>0, <2>2 DEF ReadRoom, Tx
    <3>2. Orders' = Orders
      BY <3>1 DEF Orders
    <3> QED  BY <2>2, <3>2 DEF ReadRoom, Asked
  <2>3. CASE CommitSubmit(t)
    <3>1. tx[t].who \in Devs /\ tx[t].op # "grant" /\ Finish(t) /\ members' = members
      BY <1>0, <2>3 DEF CommitSubmit, AtCommit, Sound
    <3>2. CASE asks' = asks
      BY <1>7, <3>1, <3>2 DEF Asked
    <3>3. CASE asks' # asks
      <4>1. \A r \in AskIds : r # Fresh => asks'[r] = asks[r]
        BY <1>0, <2>3, <3>3 DEF CommitSubmit, TypeOK
      <4>2. Fresh \in AskIds /\ asks[Fresh].status = "none"
            /\ asks'[Fresh].status # "none" /\ asks'[Fresh].who = tx[t].who
        BY <1>0, <2>3, <3>3, FreshUnused DEF CommitSubmit, TypeOK
      <4>3. Asked' = Asked \cup {tx[t].who}
        BY <4>1, <4>2 DEF Asked
      <4> QED  BY <1>7, <3>1, <4>3 DEF Promise!Next, Promise!Ask
    <3> QED  BY <3>2, <3>3
  <2>4. CASE CommitInvite(t)
    <3>1. tx[t].who \in Devs /\ tx[t].op # "grant" /\ Finish(t) /\ members' = members
      BY <1>0, <2>4 DEF CommitInvite, AtCommit, Sound
    <3>2. CASE asks' = asks
      BY <1>7, <3>1, <3>2 DEF Asked
    <3>3. CASE asks' # asks
      <4>1. \A r \in tx[t].rows : r \in AskIds /\ asks[r] \in InvitationRow /\ asks[r].status # "none"
        BY <1>0, KnownRow DEF Sound, Known, RequestRow
      <4>2. \A r \in AskIds : r # Fresh =>
               /\ asks'[r].who = asks[r].who
               /\ asks'[r].status # "none" <=> asks[r].status # "none"
        BY <1>0, <2>4, <3>3, <4>1 DEF CommitInvite, TypeOK, InvitationRow
      <4>3. Fresh \in AskIds /\ asks[Fresh].status = "none" /\ Fresh \notin tx[t].rows
        BY <2>4, <4>1, FreshUnused DEF CommitInvite
      <4>4. asks'[Fresh].status # "none" /\ asks'[Fresh].who = tx[t].who
        BY <1>0, <2>4, <3>3, <4>3 DEF CommitInvite, TypeOK
      <4>5. Asked' \subseteq Asked \cup {tx[t].who}
        <5>1. ASSUME NEW r \in AskIds, asks'[r].status # "none"
              PROVE  asks'[r].who \in Asked \cup {tx[t].who}
          <6>1. CASE r = Fresh
            BY <4>4, <6>1
          <6>2. CASE r # Fresh
            <7>1. asks[r].status # "none" /\ asks'[r].who = asks[r].who
              BY <4>2, <5>1, <6>2
            <7> QED  BY <7>1 DEF Asked
          <6> QED  BY <6>1, <6>2
        <5> QED  BY <5>1 DEF Asked
      <4>6. Asked \subseteq Asked' /\ tx[t].who \in Asked'
        BY <4>2, <4>3, <4>4 DEF Asked
      <4> QED  BY <1>7, <3>1, <4>5, <4>6 DEF Promise!Next, Promise!Ask
    <3> QED  BY <3>2, <3>3
  <2>5. ASSUME tx[t].op \in {"settle", "join"},
               asks' = [asks EXCEPT ![tx[t].row].status = tx[t].status]
        PROVE  Asked' = Asked
    <3>1. /\ tx[t].row \in AskIds /\ tx[t].status # "none" /\ asks[tx[t].row].status # "none"
          /\ asks[tx[t].row] \in RequestRow \cup InvitationRow
      BY <1>0, <2>5, KnownRow DEF Sound, Known, RequestStatuses, InvitationStatuses
    <3>2. \A r \in AskIds : /\ asks'[r].who = asks[r].who
                            /\ asks'[r].status # "none" <=> asks[r].status # "none"
      BY <1>0, <2>5, <3>1 DEF TypeOK, RequestRow, InvitationRow
    <3> QED  BY <3>2 DEF Asked
  <2>6. CASE CommitSettle(t)
    BY <1>7, <2>5, <2>6 DEF CommitSettle, AtCommit
  <2>7. CASE CommitJoin(t)
    <3>1. tx[t].op = "join" /\ Finish(t) /\ Orders' = Orders
      BY <1>7, <2>7 DEF CommitJoin, AtCommit
    <3>2. CASE UNCHANGED <<asks, members, room>>
      BY <3>1, <3>2 DEF Asked
    <3>3. CASE /\ asks' = [asks EXCEPT ![tx[t].row].status = tx[t].status]
               /\ members' = Joined(t) /\ (tx[t].found \/ ~OnTeam(tx[t].who))
      <4>1. Asked' = Asked
        BY <2>5, <3>1, <3>3
      <4>2. tx[t].who \in Devs /\ tx[t].who \in Asked /\ tx[t].access \in Levels
        BY <1>0, <3>1, KnownRow DEF Sound
      <4>3. CASE tx[t].found
        BY <3>1, <3>3, <4>1, <4>3 DEF Joined
      <4>4. CASE ~tx[t].found
        BY <3>1, <3>3, <4>1, <4>2, <4>4 DEF Joined, OnTeam, Promise!Next, Promise!Join
      <4> QED  BY <4>3, <4>4
    <3> QED  BY <2>7, <3>2, <3>3 DEF CommitJoin
  <2>8. CASE CommitDepart(t)
    <3>1. tx[t].who \in Devs /\ tx[t].op # "grant" /\ Asked' = Asked
      BY <1>0, <2>8 DEF CommitDepart, AtCommit, Sound, Asked
    <3>2. \A s \in Threads : tx'[s].op = "grant" <=> tx[s].op = "grant"
      BY <1>0, <2>8, <3>1 DEF CommitDepart, Tx, Idle
    <3>3. \A s \in Threads : tx[s].op = "grant" =>
             tx'[s].who = tx[s].who /\ tx'[s].access = tx[s].access
      BY <1>0, <2>8, <3>1 DEF CommitDepart, Tx
    <3>4. Orders' = Orders
      BY <3>2, <3>3 DEF Orders
    <3> QED  BY <2>8, <3>1, <3>4 DEF CommitDepart, Promise!Next, Promise!Depart
  <2>9. CASE CommitGrant(t)
    <3>1. tx[t].op = "grant" /\ Finish(t) /\ Asked' = Asked /\ Orders' \in SUBSET Orders
      BY <1>6, <2>9 DEF CommitGrant, AtCommit, Asked
    <3>2. tx[t].who \in Devs /\ tx[t].access \in Levels /\ <<tx[t].who, tx[t].access>> \in Orders
      BY <1>0, <3>1 DEF Sound, Orders
    <3>3. CASE tx[t].found
      <4>1. members[tx[t].who] # "none"
        BY <3>1, <3>3 DEF Held, OnTeam
      <4> QED  BY <2>9, <3>1, <3>2, <3>3, <4>1 DEF CommitGrant, Promise!Next, Promise!Grant
    <3>4. CASE ~tx[t].found
      BY <2>9, <3>1, <3>4 DEF CommitGrant, Promise!Next, Promise!Forget
    <3> QED  BY <3>3, <3>4
  <2>10. CASE CommitList(t)
    BY <1>7, <2>10 DEF CommitList, AtCommit, Asked
  <2> QED  BY <1>8, <2>1, <2>2, <2>3, <2>4, <2>6, <2>7, <2>8, <2>9, <2>10 DEF Proceed
<1> QED  BY <1>1, <1>2, <1>5, <1>8 DEF Next

(* The handlers implement Membership: nobody joins without an ask, an      *)
(* answered leftover ask rewrites nothing, access follows the owner.       *)
THEOREM Refinement == Spec => KeepsPromise
<1>1. Init => Promise!Init /\ Held
  BY DEF Init, Promise!Init, Held, Asked, Orders, Idle, NoRow
<1> QED
  BY <1>1, HeldStep, PromiseStep, Invariance, PTL DEF Spec, KeepsPromise, Promise!Spec

-----------------------------------------------------------------------------
(* A manager's rank in a row or in a request goes back to the owner.       *)
RankedRows == \A r \in AskIds : asks[r].access = "manager" => asks[r].by = Owner
Ranked(q) ==
    /\ (q.op = "invite" /\ q.access = "manager") => q.by = Owner
    /\ (q.op = "join" /\ q.access = "manager") => (q.by = Owner \/ asks[q.row].by = Owner)
    /\ q.op = "grant" => q.by = Owner
RInv == RankedRows /\ \A t \in Threads : Ranked(tx[t])

(* Rows that exist keep the sender and the access they were made with.     *)
SendersKept == \A r \in AskIds : asks[r].status # "none" =>
                   asks'[r].by = asks[r].by /\ asks'[r].access = asks[r].access

(* What the commits and the clock do to the rows.                          *)
LEMMA RowsRanked ==
    ASSUME IInv, RInv, [Next]_vars
    PROVE  SendersKept /\ RankedRows'
<1>0. /\ \A t \in Threads : tx[t] \in Tx /\ Sound(tx[t]) /\ Ranked(tx[t])
      /\ RankedRows /\ TypeOK
  BY DEF IInv, RInv, TypeOK
<1>a. ASSUME NEW r, Known(r) PROVE asks[r] \in RequestRow \cup InvitationRow
  BY <1>0, <1>a, KnownRow
<1>1. CASE asks' = asks
  BY <1>0, <1>1 DEF SendersKept, RankedRows
<1>2. ASSUME NEW r \in AskIds, InvitationExpires(r) PROVE SendersKept /\ RankedRows'
  <2>1. asks[r] \in RequestRow \cup InvitationRow
    BY <1>2, <1>a DEF InvitationExpires, Known
  <2>2. \A s \in AskIds : asks'[s].by = asks[s].by /\ asks'[s].access = asks[s].access
    BY <1>0, <1>2, <2>1 DEF InvitationExpires, TypeOK, RequestRow, InvitationRow
  <2> QED  BY <1>0, <2>2 DEF SendersKept, RankedRows
<1>3. ASSUME NEW t \in Threads, tx[t].op \in {"settle", "join"},
             asks' = [asks EXCEPT ![tx[t].row].status = tx[t].status]
      PROVE  SendersKept /\ RankedRows'
  <2>1. Known(tx[t].row) /\ asks[tx[t].row] \in RequestRow \cup InvitationRow
    BY <1>0, <1>3, <1>a DEF Sound
  <2>2. \A s \in AskIds : asks'[s].by = asks[s].by /\ asks'[s].access = asks[s].access
    BY <1>0, <1>3, <2>1 DEF Known, TypeOK, RequestRow, InvitationRow
  <2> QED  BY <1>0, <2>2 DEF SendersKept, RankedRows
<1>4. ASSUME NEW t \in Threads, CommitSubmit(t), asks' # asks PROVE SendersKept /\ RankedRows'
  <2>1. \A r \in AskIds : r # Fresh => asks'[r] = asks[r]
    BY <1>0, <1>4 DEF CommitSubmit, TypeOK
  <2>2. Fresh \in AskIds /\ asks[Fresh].status = "none" /\ asks'[Fresh].access = "none"
    BY <1>0, <1>4, FreshUnused DEF CommitSubmit, TypeOK
  <2> QED  BY <1>0, <2>1, <2>2 DEF SendersKept, RankedRows
<1>5. ASSUME NEW t \in Threads, CommitInvite(t), asks' # asks PROVE SendersKept /\ RankedRows'
  <2>1. \A r \in tx[t].rows : r \in AskIds /\ asks[r] \in RequestRow \cup InvitationRow
                              /\ asks[r].status # "none"
    BY <1>0, <1>a DEF Sound, Known
  <2>2. ASSUME NEW r \in AskIds, r # Fresh
        PROVE  asks'[r].by = asks[r].by /\ asks'[r].access = asks[r].access
    <3>1. asks'[r] = IF r \in tx[t].rows THEN [asks[r] EXCEPT !.status = "expired"] ELSE asks[r]
      BY <1>5, <2>2 DEF CommitInvite
    <3>2. CASE r \in tx[t].rows
      BY <2>1, <3>1, <3>2 DEF RequestRow, InvitationRow
    <3> QED  BY <3>1, <3>2
  <2>3. Fresh \in AskIds /\ asks[Fresh].status = "none" /\ Fresh \notin tx[t].rows
    BY <1>5, <2>1, FreshUnused DEF CommitInvite
  <2>4. asks'[Fresh].by = tx[t].by /\ asks'[Fresh].access = tx[t].access /\ tx[t].op = "invite"
    BY <1>0, <1>5, <2>3 DEF CommitInvite, AtCommit, TypeOK
  <2> QED  BY <1>0, <2>2, <2>3, <2>4 DEF SendersKept, RankedRows, Ranked
<1>6. ASSUME NEW t \in Threads, Request(t) PROVE asks' = asks
  BY <1>6 DEF Request, Submit, Invite, DeclineRequest, WithdrawRequest, AcceptRequest,
     AcceptInvitation, DeclineInvitation, RevokeInvitation, Leave, Remove, Depart,
     UpdateAccess, ListGroups, Settle, Join
<1>7. ASSUME NEW t \in Threads, Proceed(t) PROVE SendersKept /\ RankedRows'
  BY <1>1, <1>3, <1>4, <1>5, <1>7 DEF Proceed, ExpireOld, ReadRoom, CommitSubmit, CommitInvite,
     CommitSettle, CommitJoin, CommitDepart, CommitGrant, CommitList, AtCommit
<1> QED  BY <1>1, <1>2, <1>6, <1>7 DEF Next, vars

(* Who is given a manager's rank has it from the owner, at every step.     *)
LEMMA RankedStep == IInv /\ RInv /\ [Next]_vars => RInv'
<1> SUFFICES ASSUME IInv, RInv, [Next]_vars, NEW s \in Threads PROVE Ranked(tx[s])'
  BY RowsRanked DEF RInv
<1>0. /\ \A t \in Threads : tx[t] \in Tx /\ Sound(tx[t]) /\ Ranked(tx[t])
      /\ RankedRows /\ SendersKept /\ tx \in [Threads -> Tx]
  BY RowsRanked DEF IInv, RInv, TypeOK
<1>1. CASE tx'[s].op = tx[s].op /\ tx'[s].by = tx[s].by /\ tx'[s].access = tx[s].access
           /\ tx'[s].row = tx[s].row
  <2>1. tx[s].op = "join" => asks'[tx[s].row].by = asks[tx[s].row].by
    BY <1>0 DEF SendersKept, Sound, Known
  <2> QED  BY <1>0, <1>1, <2>1 DEF Ranked
<1>2. CASE tx'[s] = Idle
  BY <1>2 DEF Ranked, Idle
<1>3. ASSUME NEW t \in Threads, NEW q, Start(t, q), asks' = asks, Ranked(q)
      PROVE  Ranked(tx[s])'
  <2>1. tx'[s] = q \/ tx'[s] = tx[s]
    BY <1>0, <1>3 DEF Start
  <2> QED  BY <1>0, <1>3, <2>1 DEF Ranked
<1>4. ASSUME NEW t \in Threads, Request(t) PROVE Ranked(tx[s])'
  <2>1. ASSUME NEW me \in Users, NEW u \in Devs, NEW a \in Levels, Invite(t, me, u, a)
        PROVE  Ranked(tx[s])'
    BY <1>3, <2>1 DEF Invite, Grantable, Ranked, Idle
  <2>2. ASSUME NEW u \in Devs, NEW a \in Levels, UpdateAccess(t, u, a) PROVE Ranked(tx[s])'
    BY <1>3, <2>2 DEF UpdateAccess, Ranked, Idle
  <2>3. ASSUME NEW me, NEW r \in AskIds, NEW a, Join(t, me, r, a),
               a = "manager" => (me = Owner \/ asks[r].by = Owner)
        PROVE  Ranked(tx[s])'
    <3> DEFINE q == [Idle EXCEPT !.op = "join", !.by = me, !.who = asks[r].who, !.row = r,
                                 !.status = "accepted", !.access = a,
                                 !.found = OnTeam(asks[r].who),
                                 !.pc = IF Team = {Owner} THEN "commit" ELSE "room",
                                 !.users = IF Team = {Owner} THEN {} ELSE Team]
    <3>1. q.op = "join" /\ q.by = me /\ q.row = r /\ q.access = a
      BY DEF Idle
    <3>2. Ranked(q)
      BY <2>3, <3>1 DEF Ranked
    <3> QED  BY <1>3, <2>3, <3>2 DEF Join
  <2>4. ASSUME NEW me \in Users, NEW r \in AskIds, NEW a \in Levels, AcceptRequest(t, me, r, a)
        PROVE  Ranked(tx[s])'
    BY <2>3, <2>4 DEF AcceptRequest, Grantable
  <2>5. ASSUME NEW me \in Users, NEW r \in AskIds, AcceptInvitation(t, me, r)
        PROVE  Ranked(tx[s])'
    BY <1>0, <2>3, <2>5 DEF AcceptInvitation, RankedRows
  <2>6. ASSUME NEW r, NEW st, Settle(t, r, st) PROVE Ranked(tx[s])'
    BY <1>3, <2>6 DEF Settle, Ranked, Idle
  <2>7. ASSUME NEW u, Depart(t, u) PROVE Ranked(tx[s])'
    BY <1>3, <2>7 DEF Depart, Ranked, Idle
  <2>8. ASSUME NEW me, Submit(t, me) \/ ListGroups(t, me) PROVE Ranked(tx[s])'
    BY <1>3, <2>8 DEF Submit, ListGroups, Ranked, Idle
  <2> QED
    BY <1>4, <2>1, <2>2, <2>4, <2>5, <2>6, <2>7, <2>8 DEF Request, DeclineRequest,
       WithdrawRequest, DeclineInvitation, RevokeInvitation, Leave, Remove
<1>5. ASSUME NEW t \in Threads, Proceed(t) PROVE Ranked(tx[s])'
  <2>1. CASE Finish(t)
    BY <1>0, <1>1, <1>2, <2>1 DEF Finish
  <2>2. CASE ExpireOld(t) \/ ReadRoom(t)
    <3>1. /\ tx'[s].op = tx[s].op /\ tx'[s].by = tx[s].by /\ tx'[s].access = tx[s].access
          /\ tx'[s].row = tx[s].row
      <4>1. CASE ExpireOld(t)
        BY <1>0, <4>1 DEF ExpireOld, Tx
      <4>2. CASE ReadRoom(t)
        BY <1>0, <4>2 DEF ReadRoom, Tx
      <4> QED  BY <2>2, <4>1, <4>2
    <3> QED  BY <1>1, <3>1
  <2>3. CASE CommitDepart(t)
    <3>1. \/ tx'[s] = Idle \/ tx'[s] = tx[s] \/ tx'[s] = [tx[s] EXCEPT !.found = FALSE]
      BY <2>3 DEF CommitDepart
    <3>2. CASE tx'[s] # Idle
      BY <1>0, <1>1, <3>1, <3>2 DEF Tx
    <3> QED  BY <1>2, <3>2
  <2> QED
    BY <1>5, <2>1, <2>2, <2>3 DEF Proceed, CommitSubmit, CommitInvite, CommitSettle,
       CommitJoin, CommitGrant, CommitList
<1> QED
  BY <1>1, <1>4, <1>5 DEF Next, vars, InvitationExpires

(* The step that makes somebody a manager ends a handler of the owner's,   *)
(* or the acceptance of an invitation the owner sent.                      *)
LEMMA ManagerStep ==
    ASSUME IInv, RInv, [Next]_vars, NEW u \in Devs,
           members[u] # "manager", members'[u] = "manager"
    PROVE  \E t \in Threads : /\ tx[t].who = u /\ tx'[t] = Idle
                              /\ \/ tx[t].by = Owner
                                 \/ tx[t].op = "join" /\ asks[tx[t].row].by = Owner
<1>0. /\ \A t \in Threads : tx[t] \in Tx /\ Ranked(tx[t])
      /\ tx \in [Threads -> Tx] /\ members \in [Devs -> Access]
  BY DEF IInv, RInv, TypeOK
<1>1. PICK t \in Threads : CommitJoin(t) \/ CommitGrant(t)
  <2>1. ASSUME NEW t \in Threads, CommitDepart(t) PROVE FALSE
    BY <1>0, <2>1 DEF CommitDepart
  <2>2. ASSUME NEW t \in Threads, Request(t) PROVE FALSE
    BY <2>2 DEF Request, Submit, Invite, DeclineRequest, WithdrawRequest, AcceptRequest,
       AcceptInvitation, DeclineInvitation, RevokeInvitation, Leave, Remove, Depart,
       UpdateAccess, ListGroups, Settle, Join
  <2> QED
    BY <2>1, <2>2 DEF Next, vars, InvitationExpires, Proceed, ExpireOld, ReadRoom,
       CommitSubmit, CommitInvite, CommitSettle, CommitList
<1>2. tx'[t] = Idle
  BY <1>0, <1>1 DEF CommitJoin, CommitGrant, Finish
<1>3. tx[t].who = u /\ tx[t].access = "manager"
  BY <1>0, <1>1 DEF CommitJoin, Joined, CommitGrant
<1>4. tx[t].by = Owner \/ (tx[t].op = "join" /\ asks[tx[t].row].by = Owner)
  BY <1>0, <1>1, <1>3 DEF Ranked, CommitJoin, CommitGrant, AtCommit
<1> QED  BY <1>2, <1>3, <1>4

(* Managers cannot make managers: the rank always goes back to the owner.  *)
THEOREM ManagersFromOwnerHolds == Spec => ManagersComeFromOwner
<1>1. Init => RInv
  BY DEF Init, RInv, RankedRows, Ranked, Idle, NoRow
<1>2. IInv /\ RInv /\ [Next]_vars =>
          [\A u \in Devs : (members[u] # "manager" /\ members'[u] = "manager") =>
              \E t \in Threads : /\ tx[t].who = u /\ tx'[t] = Idle
                                 /\ \/ tx[t].by = Owner
                                    \/ tx[t].op = "join" /\ asks[tx[t].row].by = Owner]_vars
  BY ManagerStep
<1> QED
  BY <1>1, <1>2, RankedStep, Invariance, PTL DEF Spec, ManagersComeFromOwner
=============================================================================
