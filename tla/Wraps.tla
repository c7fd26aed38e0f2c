------------------------------- MODULE Wraps -------------------------------
(***************************************************************************)
(* The monthly wraps of one user (app/services/wrap.py, app/routes/wraps.py, *)
(* app/scripts/generate_wraps.py): once a month is over in the user's        *)
(* timezone, a job counts what happened in it and stores the figures for     *)
(* good; the user may post them to the feed.  Several servers run the job at *)
(* once, the user may change the timezone, and what is counted is dated when *)
(* its transaction begins and there when it commits.                        *)
(* Time is counted in days.  Of the figures one is modelled, and what it     *)
(* counts is kept as a set.                                                *)
(***************************************************************************)
EXTENDS Integers, FiniteSets

CONSTANTS
    Threads,     \* runs of the job and requests
    Things,      \* what is counted: projects, posts, likes, connections
    Zones,       \* timezones
    Offset,      \* Offset[z]: how many days z is ahead of UTC
    Days,        \* days of a month
    LastDay,     \* bound: the last day there is
    MaxOthers,   \* bound: posts about one wrap that it does not name
    NoWrap       \* a month without a row

VARIABLES
    now,         \* the day, in UTC
    zone,        \* profiles.timezone
    thing,       \* what each of Things is at, since when, and when it committed
    wraps,       \* the monthly_wraps rows
    others,      \* how many posts are about a wrap that does not name them
    twice,       \* history: months two requests shared at once
    turn         \* what each thread does

vars == <<now, zone, thing, wraps, others, twice, turn>>

Months == -1 .. LastDay \div Days + 1
Wrap == [zone : Zones, counted : SUBSET Things, shared : BOOLEAN]
Idle == [at |-> "idle", zone |-> CHOOSE z \in Zones : TRUE, month |-> 0, counted |-> {}]

Init ==
    /\ now = 0 /\ zone = CHOOSE z \in Zones : TRUE
    /\ others = [m \in Months |-> 0] /\ twice = {}
    /\ thing = [e \in Things |-> [at |-> "none", since |-> 0, done |-> 0]]
    /\ wraps = [m \in Months |-> NoWrap]
    /\ turn = [t \in Threads |-> Idle]

(* The rows and the threads hold only values of their kinds.               *)
TypeOK ==
    /\ now \in 0 .. LastDay /\ zone \in Zones /\ twice \subseteq Months
    /\ thing \in [Things -> [at : {"none", "begun", "there", "gone"},
                             since : 0 .. LastDay, done : 0 .. LastDay]]
    /\ wraps \in [Months -> Wrap \cup {NoWrap}] /\ others \in [Months -> 0 .. MaxOthers]
    /\ turn \in [Threads -> [at : {"idle", "loaded", "counted", "share"},
                             zone : Zones, month : Months, counted : SUBSET Things]]

-----------------------------------------------------------------------------
(* Months in a timezone.                                                   *)

(* current_month *)
MonthOf(i, z) == (i + Offset[z]) \div Days

(* month_bounds: [start, end), as days in UTC.                             *)
BothEnds(m, z) == {i \in 0 .. LastDay : m * Days - Offset[z] <= i /\ i <= (m + 1) * Days - Offset[z]}
Within(m, z) == {i \in 0 .. LastDay : m * Days - Offset[z] <= i /\ i < (m + 1) * Days - Offset[z]}
EndOf(m, z) == (m + 1) * Days - Offset[z]

-----------------------------------------------------------------------------
(* What happens meanwhile.                                                 *)

Tick ==
    /\ now < LastDay /\ now' = now + 1
    /\ UNCHANGED <<zone, thing, wraps, others, twice, turn>>

(* update_my_profile *)
Move(z) ==
    /\ z # zone /\ zone' = z
    /\ UNCHANGED <<now, thing, wraps, others, twice, turn>>

Row(e, record) ==
    /\ thing' = [thing EXCEPT ![e] = record]
    /\ UNCHANGED <<now, zone, wraps, others, twice, turn>>
Begin(e) == thing[e].at = "none" /\ Row(e, [at |-> "begun", since |-> now, done |-> 0])
Happen(e) == thing[e].at = "begun" /\ Row(e, [thing[e] EXCEPT !.at = "there", !.done = now])
Undo(e) == thing[e].at = "there" /\ Row(e, [thing[e] EXCEPT !.at = "gone", !.done = 0])

-----------------------------------------------------------------------------
(* generate: the job.                                                      *)

Is(t, at) == turn[t].at = at
Turn(t, record) ==
    /\ turn' = [turn EXCEPT ![t] = record]
    /\ UNCHANGED <<now, zone, thing>>

Load(t) ==
    /\ Is(t, "idle") /\ Turn(t, [Idle EXCEPT !.at = "loaded", !.zone = zone])
    /\ UNCHANGED <<wraps, others, twice>>

(* The month before, or the one the command names, if it is over and the   *)
(* account was there: compute_metrics.  (Nothing is missed by counting at   *)
(* once: a later count only finds more.)                                   *)
Started(m, z) == m <= MonthOf(now, z)
Over(m, z) == m < MonthOf(now, z)
Counted(m, z) == {e \in Things : thing[e].at = "there" /\ thing[e].since \in Within(m, z)}
Count(t, m) ==
    LET z == turn[t].zone IN
    /\ Is(t, "loaded") /\ Over(m, z) /\ EndOf(m, z) > 0
    /\ Turn(t, [at |-> "counted", zone |-> z, month |-> m, counted |-> Counted(m, z)])
    /\ UNCHANGED <<wraps, others, twice>>

(* The insert and its commit, at the end of the run: an insert waits for    *)
(* another run's of the same month and then leaves its row as it is.  A     *)
(* month that is not over, a job that fails and a server that stops store   *)
(* nothing.                                                                *)
Store(t) ==
    LET m == turn[t].month IN
    /\ Is(t, "counted")
    /\ wraps' = IF wraps[m] # NoWrap THEN wraps
                ELSE [wraps EXCEPT ![m] = [zone |-> turn[t].zone, counted |-> turn[t].counted,
                                           shared |-> FALSE]]
    /\ Turn(t, Idle) /\ UNCHANGED <<others, twice>>
Fail(t) == ~Is(t, "idle") /\ Turn(t, Idle) /\ UNCHANGED <<wraps, others, twice>>

-----------------------------------------------------------------------------
(* share_wrap, and the post it makes.                                      *)

(* _snapshot *)
Snapshot(m) == Over(m, zone) /\ wraps[m] # NoWrap

NotShared(m) == ~wraps[m].shared
AskShare(t, m) ==
    /\ Is(t, "idle") /\ Snapshot(m) /\ NotShared(m)
    /\ twice' = IF \E u \in Threads : Is(u, "share") /\ turn[u].month = m THEN twice \cup {m} ELSE twice
    /\ Turn(t, [Idle EXCEPT !.at = "share", !.month = m]) /\ UNCHANGED <<wraps, others>>

(* The post, which the wrap names instead of any it named meanwhile.       *)
Share(t) ==
    LET m == turn[t].month IN
    /\ Is(t, "share") /\ (wraps[m].shared => others[m] < MaxOthers)
    /\ wraps' = [wraps EXCEPT ![m].shared = TRUE]
    /\ others' = IF wraps[m].shared THEN [others EXCEPT ![m] = @ + 1] ELSE others
    /\ Turn(t, Idle) /\ UNCHANGED twice

(* delete_post: the key that names it becomes null.                        *)
DeletePost(m) ==
    /\ UNCHANGED <<now, zone, thing, twice, turn>>
    /\ \/ others[m] > 0 /\ others' = [others EXCEPT ![m] = @ - 1] /\ UNCHANGED wraps
       \/ wraps[m] # NoWrap /\ wraps[m].shared
          /\ wraps' = [wraps EXCEPT ![m].shared = FALSE] /\ UNCHANGED others

Next ==
    \/ Tick \/ \E z \in Zones : Move(z)
    \/ \E e \in Things : Begin(e) \/ Happen(e) \/ Undo(e)
    \/ \E t \in Threads :
           \/ Load(t) \/ Store(t) \/ Fail(t) \/ Share(t)
           \/ \E m \in Months : Count(t, m) \/ AskShare(t, m)
    \/ \E m \in Months : DeletePost(m)

Spec == Init /\ [][Next]_vars

-----------------------------------------------------------------------------
(* Properties.                                                             *)

Stored == {m \in Months : wraps[m] # NoWrap}

(* A stored wrap, which nothing corrects later, has everything of its month *)
(* that was there when the month ended where the user was, however late or *)
(* often the job ran: only what was still being written then, or is taken   *)
(* back, may be missing.  It has nothing of another month.                 *)
WrapsComplete ==
    \A m \in Stored, e \in Things :
        LET ofMonth == MonthOf(thing[e].since, wraps[m].zone) = m IN
        /\ e \in wraps[m].counted => ofMonth
        /\ thing[e].at = "there" /\ ofMonth
               /\ thing[e].done < EndOf(m, wraps[m].zone)
           => e \in wraps[m].counted

(* Nothing is counted in two months, unless the user moved from the one     *)
(* timezone to the other in between.                                       *)
CountedOnce ==
    \A m, n \in Stored :
        m # n /\ wraps[m].zone = wraps[n].zone => wraps[m].counted \cap wraps[n].counted = {}

(* "Post a finished month to the feed once": the only post about a wrap is *)
(* the one it names, unless two requests shared it at once.                *)
SharedOnce == \A m \in Months \ twice : others[m] = 0

(* What the wraps of a user promise.                                       *)
WrapsHold == WrapsComplete /\ CountedOnce /\ SharedOnce
=============================================================================
