------------------------------ MODULE Calendar ------------------------------
(***************************************************************************)
(* The polls of the calendar adapter: every interval, pollOnce (src/       *)
(* internal/calendar/poller.go) fetches each feed, Expand (events.go)      *)
(* works out the meetings its events stand for, and Normalize gives each   *)
(* its phase.  People move and cancel meetings meanwhile, which a feed     *)
(* tells in three different ways; plan is what they meant.                 *)
(***************************************************************************)
EXTENDS Naturals, FiniteSets

CONSTANTS
    Uids,       \* events: a series or a single meeting each
    FirstStart, \* FirstStart[u]: when u starts, for the first time
    Every,      \* Every[u]: a series starts again this often; 0 for a single
    Length,     \* Length[u]: how long u runs
    FeedOf,     \* FeedOf[u]: the feed u is in
    LookBack,   \* how long before now the recurrence rule is expanded from
    Horizon,    \* calendar.horizon
    Lead,       \* calendar.lead
    Interval,   \* calendar.poll
    MaxTime,    \* bound: the clock
    MaxEdits,   \* bound: how often anyone edits a calendar
    Off,        \* no meeting, and no override
    Cancelled   \* the override of a meeting that will not be held

Times == 0 .. MaxTime
Feeds == {FeedOf[u] : u \in Uids}

\* The starts the rule of u gives, which name its instances.
Slots(u) == {t \in Times : \/ t = FirstStart[u]
                           \/ /\ Every[u] > 0 /\ t > FirstStart[u]
                              /\ (t - FirstStart[u]) % Every[u] = 0}

Phases == {"in progress", "starting soon", "later"}

VARIABLES
    clock,
    nextPoll,   \* when the ticker fires next
    start,      \* start[u]: DTSTART of u
    calledOff,  \* the events with STATUS:CANCELLED
    exdates,    \* exdates[u]: the EXDATEs of u
    overrides,  \* overrides[u]: the events with u's UID and a RECURRENCE-ID, by
                \* that: Off if there is none, Cancelled, or their start
    edits,
    meetings,   \* the items of the last poll
    lost,       \* the feeds it says did not load
    plan,       \* ghost: plan[u][slot] is when that meeting is held, or Off
    settled,    \* ghost: since when nothing was edited and every feed answered
    announced   \* ghost: the meetings that were on the board as starting soon

feeds == <<start, calledOff, exdates, overrides, edits, plan>>
vars == <<clock, nextPoll, start, calledOff, exdates, overrides, edits, meetings,
          lost, plan, settled, announced>>

Meeting == [uid : Uids, start : Times]

TypeOK ==
    /\ clock \in Times /\ nextPoll \in 0 .. MaxTime + Interval
    /\ start \in [Uids -> Times] /\ calledOff \subseteq Uids
    /\ exdates \in [Uids -> SUBSET Times]
    /\ DOMAIN overrides = Uids
    /\ \A u \in Uids : overrides[u] \in [Slots(u) -> Times \union {Off, Cancelled}]
    /\ edits \in 0 .. MaxEdits
    /\ meetings \subseteq [uid : Uids, start : Times, phase : Phases]
    /\ lost \subseteq Feeds
    /\ DOMAIN plan = Uids
    /\ \A u \in Uids : plan[u] \in [Slots(u) -> Times \union {Off}]
    /\ settled \in Times /\ announced \subseteq Meeting

Init ==
    /\ clock = 0 /\ nextPoll = 0
    /\ start = FirstStart /\ calledOff = {}
    /\ exdates = [u \in Uids |-> {}]
    /\ overrides = [u \in Uids |-> [s \in Slots(u) |-> Off]]
    /\ edits = 0
    /\ meetings = {} /\ lost = {}
    /\ plan = [u \in Uids |-> [s \in Slots(u) |-> s]]
    /\ settled = 0 /\ announced = {}

-----------------------------------------------------------------------------
(* The calendars                                                           *)

Edit(u, planned) ==
    /\ edits < MaxEdits
    /\ edits' = edits + 1
    /\ plan' = [plan EXCEPT ![u] = planned]
    /\ settled' = clock
    /\ UNCHANGED <<clock, nextPoll, meetings, lost, announced>>

\* One meeting of a series moves, or moves again: an event of its own says
\* which it replaces.  A single meeting that moves has another DTSTART.
Move(u, slot, t) ==
    /\ plan[u][slot] \notin {Off, t}
    /\ Edit(u, [plan[u] EXCEPT ![slot] = t])
    /\ IF Every[u] > 0
       THEN overrides' = [overrides EXCEPT ![u][slot] = t] /\ UNCHANGED start
       ELSE start' = [start EXCEPT ![u] = t] /\ UNCHANGED overrides
    /\ UNCHANGED <<calledOff, exdates>>

\* One meeting of a series is cancelled by an event that replaces it ...
CancelInstance(u, slot) ==
    /\ Every[u] > 0 /\ plan[u][slot] # Off
    /\ Edit(u, [plan[u] EXCEPT ![slot] = Off])
    /\ overrides' = [overrides EXCEPT ![u][slot] = Cancelled]
    /\ UNCHANGED <<start, calledOff, exdates>>

\* ... or deleted, which the series itself says.
DeleteInstance(u, slot) ==
    /\ Every[u] > 0 /\ plan[u][slot] # Off
    /\ Edit(u, [plan[u] EXCEPT ![slot] = Off])
    /\ overrides' = [overrides EXCEPT ![u][slot] = Off]
    /\ exdates' = [exdates EXCEPT ![u] = @ \union {slot}]
    /\ UNCHANGED <<start, calledOff>>

\* A single meeting is cancelled, or a series, of which those meetings stay that
\* an event of their own still tells of.
CancelEvent(u) ==
    /\ u \notin calledOff
    /\ Edit(u, [s \in Slots(u) |-> IF overrides[u][s] = Off THEN Off ELSE plan[u][s]])
    /\ calledOff' = calledOff \union {u}
    /\ UNCHANGED <<start, exdates, overrides>>

-----------------------------------------------------------------------------
(* A poll                                                                  *)

Until == clock + Horizon

\* template.at: not over, and started before the end of the window.
At(m) == m.start + Length[m.uid] > clock /\ m.start < Until

\* Variant of Starts: a meeting that has begun is not looked back for.
StartsFromNow(u) ==
    IF Every[u] = 0 THEN {start[u]}
    ELSE {t \in Slots(u) : clock <= t /\ t <= Until} \ exdates[u]

\* A single event starts once; a rule is expanded between a look back and the
\* end of the window, both included.
Starts(u) ==
    IF Every[u] = 0 THEN {start[u]}
    ELSE {t \in Slots(u) : clock <= t + LookBack /\ t <= Until} \ exdates[u]

\* Variant of Replaced: a cancelled override replaces nothing.
ReplacedByMeetings(u) == {s \in Slots(u) : overrides[u][s] \notin {Off, Cancelled}}

\* An instance that has an event of its own is not taken from the rule.
Replaced(u) == {s \in Slots(u) : overrides[u][s] # Off}

\* When u is held: its own starts, and those of the events that replace one.
Held(u) ==
    (IF u \in calledOff THEN {} ELSE Starts(u) \ Replaced(u))
        \union {overrides[u][s] : s \in Slots(u)}

Expand(f) == {m \in Meeting : FeedOf[m.uid] = f /\ m.start \in Held(m.uid) /\ At(m)}

\* Variant of Phase: the lead itself is not soon.
PhaseLeadExcluded(m) ==
    IF m.start <= clock THEN "in progress"
    ELSE IF m.start - clock < Lead THEN "starting soon" ELSE "later"

Phase(m) ==
    IF m.start <= clock THEN "in progress"
    ELSE IF m.start - clock <= Lead THEN "starting soon" ELSE "later"

Normalize(held) ==
    {[uid |-> m.uid, start |-> m.start, phase |-> Phase(m)] : m \in held}

\* The ticker fires.  A feed that fails is left out, with a warning; when all
\* fail the poll has failed and blanks the board, which is the same set.
Poll(failing) ==
    /\ clock = nextPoll
    /\ nextPoll' = clock + Interval
    /\ meetings' = Normalize(UNION {Expand(f) : f \in Feeds \ failing})
    /\ lost' = failing
    /\ settled' = IF failing = {} THEN settled ELSE clock
    /\ announced' = announced \union
            {[uid |-> i.uid, start |-> i.start] :
                i \in {j \in meetings' : j.phase = "starting soon"}}
    /\ UNCHANGED <<clock, feeds>>

\* Time passes, up to the next firing of the ticker.
Tick ==
    /\ clock < nextPoll /\ clock < MaxTime
    /\ clock' = clock + 1
    /\ UNCHANGED <<nextPoll, feeds, meetings, lost, settled, announced>>

AtBound == clock = MaxTime /\ clock < nextPoll /\ UNCHANGED vars

Next ==
    \/ Tick \/ AtBound
    \/ \E failing \in SUBSET Feeds : Poll(failing)
    \/ \E u \in Uids : \/ CancelEvent(u)
                       \/ \E s \in Slots(u) : \/ CancelInstance(u, s)
                                              \/ DeleteInstance(u, s)
                                              \/ \E t \in Times : Move(u, s, t)

Spec == Init /\ [][Next]_vars

-----------------------------------------------------------------------------
(* Properties                                                              *)

Assumptions ==
    /\ FirstStart \in [Uids -> Times] /\ Every \in [Uids -> Nat] /\ Length \in [Uids -> Nat]
    /\ LookBack \in Nat /\ Horizon \in Nat /\ Lead \in Nat /\ Interval \in Nat \ {0}
    /\ MaxTime \in Nat /\ MaxEdits \in Nat
    /\ Off \notin Times /\ Cancelled \notin Times /\ Off # Cancelled

\* No meeting of a series goes on for longer than the look back, which is a
\* day (events.go:204).
SeriesAreShort == \A u \in Uids : Every[u] > 0 => Length[u] <= LookBack + 1

\* The lead and the window are no shorter than the time between two polls,
\* which are 10 minutes, 12 hours and 5 minutes unless configured otherwise
\* (config.go:315-317).
PollsAreFrequent == Interval <= Lead /\ Interval < Horizon

\* What is planned in the feeds that answer, is not over and starts before the
\* end of the window.
Planned(failing) ==
    {m \in Meeting :
        /\ FeedOf[m.uid] \notin failing
        /\ \E s \in Slots(m.uid) : plan[m.uid][s] = m.start
        /\ m.start + Length[m.uid] > clock
        /\ m.start < clock + Horizon}

\* Expand, events.go:37-95: however meetings were moved, cancelled and moved
\* again, a poll leaves on the board those that will be held and no others.
\* The feeds that the status says did not load take only their own away.
BoardIsThePlan ==
    [][nextPoll' # nextPoll
        => {[uid |-> i.uid, start |-> i.start] : i \in meetings'} = Planned(lost')]_vars

\* classify, events.go:343-347: a meeting left alone for an interval before it
\* starts, in feeds that answer, has asked for attention by its start.
AnnouncedInTime ==
    \A u \in Uids : \A s \in Slots(u) :
        LET t == plan[u][s]
        IN  (t # Off /\ t <= clock /\ settled + Interval < t)
                => [uid |-> u, start |-> t] \in announced
=============================================================================
