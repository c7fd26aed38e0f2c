----------------------------- MODULE DirectChat -----------------------------
(***************************************************************************)
(* One direction of a direct chat (app/routes/messages.py): Alice's        *)
(* messages to Bob, what Bob has chosen about her (app/services/safety.py, *)
(* app/routes/safety.py) and what either learns of the other: Bob of a new *)
(* message, Alice of its having been read.                                 *)
(***************************************************************************)
EXTENDS Naturals

CONSTANTS
    Tabs,        \* threads that serve requests of the two
    Messages,    \* the messages Alice ever sends
    NoMessage,   \* the message of a request that is about none
    MaxChoices   \* bound on how often Bob changes his mind

VARIABLES
    choice,      \* what Bob chose about Alice
    muted,       \* Bob muted the chat
    choices,     \* how often Bob changed either
    sent,        \* the rows of messages
    read,        \* those with read
    liked,       \* those with Bob's reaction
    hidden,      \* read under a restriction that has lasted since, and Alice
                 \* has not reacted to them since
    revealed,    \* hidden messages a page showed Alice as read, or she was told of
    defied,      \* messages that reached Bob against a choice of his
    asked        \* the request each thread serves

vars == <<choice, muted, choices, sent, read, liked, hidden, revealed, defied, asked>>

(* A request: since which of Bob's choices it runs, the message it is      *)
(* about, whether it has found something; the messages it has read or      *)
(* marked.                                                                 *)
Asked == [op : {"idle", "send", "stored", "rung", "view", "open", "mark", "react"},
          since : 0..MaxChoices, about : Messages \cup {NoMessage}, found : BOOLEAN,
          set : SUBSET Messages]
Idle == [op |-> "idle", since |-> 0, about |-> NoMessage, found |-> FALSE, set |-> {}]

(* The chat and the requests hold only values of their kinds.              *)
TypeOK ==
    /\ choice \in {"none", "restrict", "block"} /\ muted \in BOOLEAN
    /\ choices \in 0..MaxChoices
    /\ sent \subseteq Messages /\ read \subseteq sent /\ liked \subseteq sent
    /\ hidden \subseteq read /\ revealed \subseteq Messages /\ defied \subseteq Messages
    /\ asked \in [Tabs -> Asked]

Init ==
    /\ choice = "none" /\ muted = FALSE /\ choices = 0
    /\ sent = {} /\ read = {} /\ liked = {} /\ hidden = {} /\ revealed = {} /\ defied = {}
    /\ asked = [t \in Tabs |-> Idle]

Is(t, op) == asked[t].op = op
Ask(t, request) == asked' = [asked EXCEPT ![t] = [request EXCEPT !.since = choices]]
Step(t, request) == asked' = [asked EXCEPT ![t] = request]
Silent == choice # "none" \/ muted
Lasted(t) == asked[t].since = choices       \* Bob has not changed his mind since
BobSame == UNCHANGED <<choice, muted, choices>>

-----------------------------------------------------------------------------
(* _apply, clear_person_safety, mute_person, unmute_person.                *)
Choose(kind) ==
    /\ choices < MaxChoices /\ kind # choice
    /\ choice' = kind /\ choices' = choices + 1 /\ hidden' = {}
    /\ UNCHANGED <<muted, sent, read, liked, revealed, defied, asked>>

Mute ==
    /\ choices < MaxChoices
    /\ muted' = ~muted /\ choices' = choices + 1
    /\ UNCHANGED <<choice, sent, read, liked, hidden, revealed, defied, asked>>

(* send_message: refused under a block; notify leaves a notification when  *)
(* Bob wants one ...                                                       *)
NeverBlocked == FALSE
BlockedBetween == choice = "block"
Send(t, m) ==
    /\ Is(t, "idle") /\ ~BlockedBetween
    /\ m \notin sent /\ \A u \in Tabs : asked[u].about # m
    /\ Ask(t, [Idle EXCEPT !.op = "send", !.about = m])
    /\ UNCHANGED <<sent, read, liked, hidden, revealed, defied>> /\ BobSame

Notify(t) ==
    /\ Is(t, "send")
    /\ Step(t, [asked[t] EXCEPT !.op = "stored", !.found = ~Silent])
    /\ UNCHANGED <<sent, read, liked, hidden, revealed, defied>> /\ BobSame

(* ... the message is committed; a notification was out of place if a      *)
(* block, a restriction or a mute lasted all the while ...                 *)
Store(t) ==
    LET m == asked[t].about IN
    /\ Is(t, "stored")
    /\ sent' = sent \cup {m}
    /\ defied' = IF Lasted(t) /\ (choice = "block" \/ (Silent /\ asked[t].found))
                 THEN defied \cup {m} ELSE defied
    /\ Step(t, [asked[t] EXCEPT !.op = "rung"])
    /\ UNCHANGED <<read, liked, hidden, revealed>> /\ BobSame

(* ... and Bob's sockets get it, marked quiet if he wants that.            *)
Quiet == Silent
Ring(t) ==
    /\ Is(t, "rung")
    /\ defied' = IF Lasted(t) /\ Silent /\ ~Quiet THEN defied \cup {asked[t].about} ELSE defied
    /\ Step(t, Idle)
    /\ UNCHANGED <<sent, read, liked, hidden, revealed>> /\ BobSame

(* get_conversations and get_message_thread for Alice: the last message of *)
(* the chat, or its messages, are read, then whether she is restricted,    *)
(* and the answer says read only if she is not.                            *)
ViewLast(t, m) ==
    /\ Is(t, "idle") /\ m \in sent
    /\ Ask(t, [Idle EXCEPT !.op = "view", !.set = read \cap {m}])
    /\ UNCHANGED <<sent, read, liked, hidden, revealed, defied>> /\ BobSame

View(t) ==
    /\ Is(t, "idle") /\ sent # {}
    /\ Ask(t, [Idle EXCEPT !.op = "view", !.set = read])
    /\ UNCHANGED <<sent, read, liked, hidden, revealed, defied>> /\ BobSame

NeverHidden == FALSE
HideRead == choice = "restrict"
Shown(t) == IF HideRead THEN {} ELSE asked[t].set
AnswerView(t) ==
    /\ Is(t, "view")
    /\ revealed' = revealed \cup (hidden \cap Shown(t))
    /\ Step(t, Idle)
    /\ UNCHANGED <<sent, read, liked, hidden, defied>> /\ BobSame

(* get_message_thread and mark_thread_as_read for Bob ...                  *)
Open(t) ==
    /\ Is(t, "idle") /\ sent # {}
    /\ Ask(t, [Idle EXCEPT !.op = "open"])
    /\ UNCHANGED <<sent, read, liked, hidden, revealed, defied>> /\ BobSame

(* ... the update takes every message unread by now, after it has waited   *)
(* for one that holds the rows; if there are any, an event for Alice is    *)
(* queued unless she is restricted ...                                     *)
Announces == choice # "restrict"
Mark(t) ==
    /\ Is(t, "open") /\ \A u \in Tabs : ~Is(u, "mark")
    /\ IF sent \subseteq read THEN Step(t, Idle)
       ELSE Step(t, [asked[t] EXCEPT !.op = "mark", !.set = sent \ read, !.found = Announces])
    /\ UNCHANGED <<sent, read, liked, hidden, revealed, defied>> /\ BobSame

(* ... and both happen at the commit.                                      *)
CommitRead(t) ==
    LET private == IF choice = "restrict" /\ Lasted(t) THEN asked[t].set ELSE {} IN
    /\ Is(t, "mark")
    /\ read' = read \cup asked[t].set
    /\ hidden' = hidden \cup private
    /\ revealed' = IF asked[t].found THEN revealed \cup private ELSE revealed
    /\ Step(t, Idle)
    /\ UNCHANGED <<sent, liked, defied>> /\ BobSame

(* toggle_reaction: looks for the row, then deletes it or inserts one; the *)
(* insert fails when there is one by now.                                  *)
React(t, m) ==
    /\ Is(t, "idle") /\ m \in sent
    /\ Ask(t, [Idle EXCEPT !.op = "react", !.about = m, !.found = (m \in liked)])
    /\ UNCHANGED <<sent, read, liked, hidden, revealed, defied>> /\ BobSame

Toggle(t) ==
    LET m == asked[t].about IN
    /\ Is(t, "react")
    /\ liked' = IF asked[t].found THEN liked \ {m} ELSE liked \cup {m}
    /\ Step(t, Idle)
    /\ UNCHANGED <<sent, read, hidden, revealed, defied>> /\ BobSame

(* react_to_message for Alice: its answer shows the message as it is by    *)
(* now, whether or not she is restricted; it is hidden no longer.          *)
ReactOwn(m) ==
    /\ m \in hidden
    /\ hidden' = hidden \ {m}
    /\ UNCHANGED <<sent, read, liked, revealed, defied, asked>> /\ BobSame

Next ==
    \/ \E kind \in {"none", "restrict", "block"} : Choose(kind)
    \/ Mute
    \/ \E m \in Messages : ReactOwn(m)
    \/ \E t \in Tabs :
           \/ \E m \in Messages : Send(t, m) \/ React(t, m) \/ ViewLast(t, m)
           \/ Notify(t) \/ Store(t) \/ Ring(t) \/ View(t) \/ AnswerView(t)
           \/ Open(t) \/ Mark(t) \/ CommitRead(t) \/ Toggle(t)

Spec == Init /\ [][Next]_vars

-----------------------------------------------------------------------------
(* Properties.                                                             *)

(* "they cannot see when you have read their messages" (safety.py:5): what *)
(* Bob read under a restriction that is still in force Alice is neither    *)
(* shown as read nor told of, whichever of her requests and his overlap    *)
(* each other and the choice itself. Every page and every event keeps it;  *)
(* only the answer to a reaction of Alice's own does not (ReactOwn).       *)
ReadsStayPrivate == revealed = {}

(* "neither person can message the other", "you are not notified", "sends  *)
(* no notifications" (safety.py:3): a block, a restriction or a mute that  *)
(* was there when the message was asked for and has stayed is respected by *)
(* every step of sending it.                                               *)
ChoicesHold == defied = {}

(* Whatever the two do at the same time, both hold.                        *)
WishesHold == ReadsStayPrivate /\ ChoicesHold
=============================================================================
