----------------------------- MODULE Recruiting -----------------------------
(***************************************************************************)
(* Contact requests of one recruiter to one candidate, their answers       *)
(* (app/routes/recruiting.py, app/models/recruiting.py), and whom they let *)
(* write to whom (may_message, app/services/social.py).                    *)
(*                                                                         *)
(* A request reads and checks, then commits; nothing in the database keeps *)
(* a second request of the same pair out.                                  *)
(***************************************************************************)
EXTENDS Naturals, Sequences, FiniteSets

CONSTANTS
    Desks,       \* threads that serve requests
    MaxDaily,    \* contact requests a day (20)
    MaxRequests  \* bound on the requests of the pair

VARIABLES
    asks,        \* the recruitment_requests rows of the pair, oldest first
    today,       \* how many of them were sent today
    terms,       \* the candidate's settings, and how the two are connected
    opener,      \* the message that opens the talk was posted
    refused,     \* the candidate has declined, less than a cooldown ago
    overlap,     \* requests that decide on the same rows have overlapped
    desk         \* the request each thread serves

vars == <<asks, today, terms, opener, refused, overlap, desk>>

Statuses == {"pending", "accepted", "declined", "withdrawn"}
Ask == [status : Statuses, recent : BOOLEAN]
Terms == [messages : {"anyone", "connections"}, connected : BOOLEAN, blocked : BOOLEAN]
Desk == [op : {"idle", "send", "insert", "accepted", "declined", "withdrawn"}, row : 0..MaxRequests]
Idle == [op |-> "idle", row |-> 0]

(* Rows and requests hold only values of their kinds; "You can send ...    *)
(* contact requests a day" (recruiting.py:284): requests that count at the *)
(* same moment may pass the limit, each by one.                            *)
TypeOK ==
    /\ asks \in Seq(Ask) /\ Len(asks) <= MaxRequests
    /\ today \in 0..(MaxDaily + Cardinality(Desks) - 1) /\ terms \in Terms
    /\ opener \in BOOLEAN /\ refused \in BOOLEAN /\ overlap \in BOOLEAN
    /\ desk \in [Desks -> Desk]

Init ==
    /\ asks = <<>> /\ today = 0 /\ terms \in Terms
    /\ opener = FALSE /\ refused = FALSE /\ overlap = FALSE
    /\ desk = [d \in Desks |-> Idle]

Is(d, op) == desk[d].op = op
Take(d, request) == Is(d, "idle") /\ desk' = [desk EXCEPT ![d] = request]
End(d) == desk' = [desk EXCEPT ![d] = Idle]
Meets(ops) == overlap' = (overlap \/ \E d \in Desks : desk[d].op \in ops)
AsksSame == UNCHANGED <<asks, today, terms, opener, refused, overlap>>
Some(status) == \E i \in DOMAIN asks : asks[i].status = status

-----------------------------------------------------------------------------
(* may_message, for either of the two: with the settings of the candidate; *)
(* accepted_recruitment is what opens messages limited to connections.     *)
MayMessage ==
    /\ ~terms.blocked
    /\ terms.messages = "connections" => terms.connected \/ Some("accepted")

(* contact_state: an accepted request is looked for first ...              *)
NoLimit == TRUE
BelowLimit == today < MaxDaily
AskSend(d) ==
    /\ BelowLimit /\ ~Some("accepted")
    /\ Take(d, [Idle EXCEPT !.op = "send"])
    /\ Meets({"send", "insert", "accepted"})
    /\ UNCHANGED <<asks, today, terms, opener, refused>>

(* ... then a pending one, then one declined within the cooldown.  Last    *)
(* come the candidate's profile, open to all or to connections, and        *)
(* whether it says open to work; both are free here.                       *)
Always == TRUE
NotDeclined == ~\E i \in DOMAIN asks : asks[i].status = "declined" /\ asks[i].recent
Check(d) ==
    /\ Is(d, "send")
    /\ \E reachable \in BOOLEAN :
           /\ terms.connected /\ MayMessage => reachable
           /\ IF ~Some("pending") /\ NotDeclined /\ reachable
              THEN desk' = [desk EXCEPT ![d].op = "insert"] ELSE End(d)
    /\ AsksSame

(* send_request: the insert.                                               *)
Send(d) ==
    /\ Is(d, "insert") /\ Len(asks) < MaxRequests
    /\ asks' = Append(asks, [status |-> "pending", recent |-> FALSE])
    /\ today' = today + 1
    /\ End(d) /\ UNCHANGED <<terms, opener, refused, overlap>>

(* accept_request, decline_request and withdraw_request find it pending;   *)
(* each then sets the status.                                              *)
AskAnswer(d, i, answer) ==
    /\ asks[i].status = "pending"
    /\ Take(d, [Idle EXCEPT !.op = answer, !.row = i])
    /\ Meets({"accepted", "declined", "withdrawn"}
                 \cup (IF answer = "accepted" THEN {"send", "insert"} ELSE {}))
    /\ UNCHANGED <<asks, today, terms, opener, refused>>

Answer(d) ==
    /\ desk[d].op \in {"accepted", "declined", "withdrawn"}
    /\ asks' = [asks EXCEPT ![desk[d].row] = [status |-> desk[d].op, recent |-> TRUE]]
    /\ opener' = (opener \/ Is(d, "accepted"))
    /\ refused' = (refused \/ Is(d, "declined"))
    /\ End(d) /\ UNCHANGED <<today, terms, overlap>>

(* The candidate's settings, the connection and blocks are other routes'.  *)
Settle ==
    /\ terms' \in Terms
    /\ UNCHANGED <<asks, today, opener, refused, overlap, desk>>

(* DAILY_REQUESTS, DECLINE_COOLDOWN: a day and a month pass.               *)
NextDay ==
    /\ today > 0 /\ today' = 0
    /\ UNCHANGED <<asks, terms, opener, refused, overlap, desk>>

CoolDown ==
    /\ \A d \in Desks : Is(d, "idle")
    /\ asks' = [i \in DOMAIN asks |-> [asks[i] EXCEPT !.recent = FALSE]]
    /\ refused' = FALSE
    /\ UNCHANGED <<today, terms, opener, overlap, desk>>

Next ==
    \/ Settle \/ NextDay \/ CoolDown
    \/ \E d \in Desks :
           \/ AskSend(d) \/ Check(d) \/ Send(d) \/ Answer(d)
           \/ \E i \in DOMAIN asks, answer \in Statuses \ {"pending"} : AskAnswer(d, i, answer)

Spec == Init /\ [][Next]_vars

-----------------------------------------------------------------------------
(* Properties.                                                             *)

(* "Accepting opens direct messages between the two" (models/recruiting.py *)
(* :54), "You can ask again after" the cooldown (recruiting.py:99): until  *)
(* requests that decide on the same rows overlap, the pair has one request *)
(* that is pending, accepted or freshly declined at most; the talk is open *)
(* exactly when one was accepted, and then the two may write to each other *)
(* whatever the candidate's settings, blocks excepted.                     *)
Live(r) == r.status \in {"pending", "accepted"} \/ (r.status = "declined" /\ r.recent)
OneTalk ==
    ~overlap =>
        /\ \A i, j \in DOMAIN asks : Live(asks[i]) /\ Live(asks[j]) => i = j
        /\ refused => ~Some("pending")
        /\ opener <=> Some("accepted")
        /\ opener /\ ~terms.blocked => MayMessage
=============================================================================
