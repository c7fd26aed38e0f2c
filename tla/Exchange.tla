------------------------------ MODULE Exchange ------------------------------
(***************************************************************************)
(* What people exchange, side by side: one challenge, the members of a     *)
(* group chat, its messages, the events of one user, one direct chat, the  *)
(* contact requests of a recruiter and a candidate, and the candidate on   *)
(* the recruiter's shortlists.                                             *)
(*                                                                         *)
(* The parts share no state here and every property speaks of one of them, *)
(* so a behaviour moves in one part only and no case is lost.              *)
(***************************************************************************)
EXTENDS Challenges, FiniteSets
CONSTANTS
    People, Cap,                      \* Groups
    Sockets, Events, QueueSize,       \* Realtime
    Messages, MaxChoices,             \* DirectChat and RoomChat
    MaxDaily, MaxRequests,            \* Recruiting
    Lists, MaxLists,                  \* Shortlists
    Members                           \* RoomChat
VARIABLES part,
    open, starter, members, admins, collided, task,
    session, publishing, loop, handed, saved, socket, missed,
    choice, muted, choices, sent, read, liked, hidden, revealed, defied, asked,
    asks, today, terms, opener, refused, overlap, desk,
    kept, entry, doing,
    inside, before, sender, noticed, slipped, posting

groupVars == <<open, starter, members, admins, collided, task>>
eventVars == <<session, publishing, loop, handed, saved, socket, missed>>
chatVars == <<choice, muted, choices, sent, read, liked, hidden, revealed, defied, asked>>
talkVars == <<asks, today, terms, opener, refused, overlap, desk>>
listVars == <<kept, entry, doing>>
roomVars == <<inside, before, sender, noticed, slipped, posting>>

Group == INSTANCE Groups WITH Handlers <- Servers, NoOne <- Nobody
Feed == INSTANCE Realtime WITH Senders <- Servers
Chat == INSTANCE DirectChat WITH Tabs <- Servers, NoMessage <- Nobody
Talk == INSTANCE Recruiting WITH Desks <- Servers
Short == INSTANCE Shortlists WITH Desks <- Servers, NoList <- Nobody
Room == INSTANCE RoomChat WITH Tabs <- Servers, People <- Members, NoOne <- Nobody,
                               NoMessage <- Nobody, members <- inside, asked <- posting

(* Nobody is neither a person nor a message; there are finitely many       *)
(* threads and messages, and every bound allows something.                 *)
ASSUME NobodyAssumption == Nobody \notin People \cup Members \cup Messages
ASSUME BoundsAssumption ==
    /\ IsFiniteSet(Servers) /\ IsFiniteSet(Messages)
    /\ MaxDaily \in Nat \ {0} /\ MaxRequests \in Nat /\ MaxLists \in Nat \ {0} /\ MaxChoices \in Nat
    /\ QueueSize \in Nat

(* A part that does not move starts in one way only.                       *)
ExchangeInit ==
    /\ Init /\ Group!Init /\ Feed!Init /\ Chat!Init /\ Talk!Init /\ Short!Init /\ Room!Init
    /\ part \in {"challenge", "group", "events", "chat", "talk", "lists", "room"}
    /\ part # "talk" => terms = [messages |-> "anyone", connected |-> FALSE, blocked |-> FALSE]
ExchangeNext ==
    /\ \/ part = "challenge" /\ Next
          /\ UNCHANGED <<groupVars, eventVars, chatVars, talkVars, listVars, roomVars>>
       \/ part = "group" /\ Group!Next
          /\ UNCHANGED <<vars, eventVars, chatVars, talkVars, listVars, roomVars>>
       \/ part = "events" /\ Feed!Next
          /\ UNCHANGED <<vars, groupVars, chatVars, talkVars, listVars, roomVars>>
       \/ part = "chat" /\ Chat!Next
          /\ UNCHANGED <<vars, groupVars, eventVars, talkVars, listVars, roomVars>>
       \/ part = "talk" /\ Talk!Next
          /\ UNCHANGED <<vars, groupVars, eventVars, chatVars, listVars, roomVars>>
       \/ part = "lists" /\ Short!Next
          /\ UNCHANGED <<vars, groupVars, eventVars, chatVars, talkVars, roomVars>>
       \/ part = "room" /\ Room!Next
          /\ UNCHANGED <<vars, groupVars, eventVars, chatVars, talkVars, listVars>>
    /\ UNCHANGED part
exchangeVars == <<part, vars, groupVars, eventVars, chatVars, talkVars, listVars, roomVars>>
ExchangeSpec == ExchangeInit /\ [][ExchangeNext]_exchangeVars

(* The type invariant of the part that moves.                              *)
PartsTypeOK ==
    CASE part = "challenge" -> TypeOK
      [] part = "group" -> Group!TypeOK
      [] part = "events" -> Feed!TypeOK
      [] part = "chat" -> Chat!TypeOK
      [] part = "talk" -> Talk!TypeOK
      [] part = "lists" -> Short!TypeOK
      [] part = "room" -> Room!TypeOK

(* The properties of the parts, stated there.                              *)
InGoodHands == part = "group" => Group!InGoodHands
EventsInLine == Feed!EventsInLine
EventsReach == part = "events" => Feed!EventsReach
WishesHold == part = "chat" => Chat!WishesHold
OneTalk == part = "talk" => Talk!OneTalk
UnreadHolds == part = "room" => Room!UnreadHolds
=============================================================================
