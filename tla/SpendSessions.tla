---------------------------- MODULE SpendSessions ---------------------------
(***************************************************************************)
(* The polls of the spend adapter: pollOnce (src/internal/spend/poller.go) *)
(* asks Herdr which sessions are open, has omp bring its index up to date, *)
(* and reads the index; judge (spend.go) looks for an advisor that has     *)
(* passed a limit.  Sessions open and close, advisors go on spending and   *)
(* someone runs `omp stats` between any two of these.                      *)
(***************************************************************************)
EXTENDS Naturals

CONSTANTS
    Sessions,       \* panes that run omp
    Advisors,       \* advisor transcripts: numbers, in the order of their paths
    SessionOf,      \* SessionOf[a]: the session whose directory a is in
    AdvisorCost,    \* [spend] advisor_cost, in messages; 0 is off
    LookupsPerNote, \* [spend] lookups_per_note; 0 is off
    MinLookups,     \* [spend] min_lookups
    MaxMessages     \* bound: messages advisors write

Assumptions ==
    /\ Advisors \subseteq Nat /\ SessionOf \in [Advisors -> Sessions]
    /\ AdvisorCost \in Nat /\ MaxMessages \in Nat

VARIABLES
    syncs,      \* [spend] sync names a command; it is empty where a human indexes
    opened,     \* the sessions Herdr has open
    spent,      \* spent[a]: what a's transcript holds
    written,    \* how many messages advisors have written
    index,      \* index[a]: what stats.db holds of it
    midnight,   \* midnight[a]: what of a's cost is of the days before
    phase,      \* where pollOnce is
    asked,      \* the sessions Herdr listed for this poll
    late,       \* the index command of this poll failed
    rows,       \* the items of the last poll, blank when it failed
    behind,     \* its status says that the numbers are of an earlier index
    atBegin,    \* ghost: what had been spent when this poll began
    passed      \* ghost: passed[a]: the message at which a passed the limit, or 0

omp == <<syncs, opened, spent, written, midnight, passed>>
vars == <<syncs, opened, spent, written, index, midnight, phase, asked, late, rows,
          behind, atBegin, passed>>

\* A message is dated by its number.
Usage == [cost : 0 .. MaxMessages, lookups : 0 .. MaxMessages, notes : 0 .. MaxMessages,
          last : 0 .. MaxMessages]
Labels == {"tracking", "advisor cost", "advisor lookups"}
Unused == [cost |-> 0, lookups |-> 0, notes |-> 0, last |-> 0]
Nothing == [a \in Advisors |-> Unused]
Nobody == 0

TypeOK ==
    /\ syncs \in BOOLEAN /\ opened \subseteq Sessions /\ asked \subseteq Sessions
    /\ spent \in [Advisors -> Usage] /\ index \in [Advisors -> Usage]
    /\ atBegin \in [Advisors -> Usage] /\ written \in 0 .. MaxMessages
    /\ midnight \in [Advisors -> 0 .. MaxMessages]
    /\ passed \in [Advisors -> 0 .. MaxMessages]
    /\ phase \in {"idle", "sessions", "sync", "read"}
    /\ late \in BOOLEAN /\ behind \in BOOLEAN
    /\ rows \subseteq [session : Sessions, label : Labels,
                       advisor : Advisors \union {Nobody}, asOf : 0 .. MaxMessages]

Init ==
    /\ syncs \in BOOLEAN /\ opened \in SUBSET Sessions /\ asked = {}
    /\ spent = Nothing /\ written = 0 /\ index = Nothing /\ atBegin = Nothing
    /\ midnight = [a \in Advisors |-> 0] /\ passed = [a \in Advisors |-> 0]
    /\ phase = "idle" /\ late = FALSE
    /\ rows = {} /\ behind = FALSE

-----------------------------------------------------------------------------
(* omp and Herdr                                                           *)

OpenOrClose(s) ==
    /\ opened' = IF s \in opened THEN opened \ {s} ELSE opened \union {s}
    /\ UNCHANGED <<syncs, spent, written, midnight, passed>>
    /\ UNCHANGED <<index, phase, asked, late, rows, behind, atBegin>>

\* An advisor writes a message: one that looks something up, or one that says
\* something.
Message(a, lookups, notes) ==
    /\ SessionOf[a] \in opened /\ written < MaxMessages
    /\ written' = written + 1
    /\ spent' = [spent EXCEPT ![a] = [cost |-> @.cost + 1, lookups |-> @.lookups + lookups,
                                      notes |-> @.notes + notes, last |-> written + 1]]
    /\ passed' = [passed EXCEPT ![a] = IF AdvisorCost > 0 /\ spent'[a].cost = AdvisorCost
                                       THEN written + 1 ELSE @]
    /\ UNCHANGED <<syncs, opened, index, midnight, phase, asked, late, rows, behind, atBegin>>

Midnight ==
    /\ midnight # [a \in Advisors |-> spent[a].cost]
    /\ midnight' = [a \in Advisors |-> spent[a].cost]
    /\ UNCHANGED <<syncs, opened, spent, written, passed>>
    /\ UNCHANGED <<index, phase, asked, late, rows, behind, atBegin>>

\* Someone has omp bring its index up to date.
OmpStats ==
    /\ index' = spent
    /\ UNCHANGED <<omp, phase, asked, late, rows, behind, atBegin>>

-----------------------------------------------------------------------------
(* judge                                                                   *)

\* Variant of Cost: what it has cost today.
CostToday(a) == IF index[a].cost > midnight[a] THEN index[a].cost - midnight[a] ELSE 0

\* What an advisor has cost over its whole life.
Cost(a) == index[a].cost

OverCost(a) == AdvisorCost > 0 /\ Cost(a) >= AdvisorCost

OverLookups(a) ==
    /\ LookupsPerNote > 0 /\ index[a].lookups >= MinLookups
    /\ index[a].lookups >= LookupsPerNote * (IF index[a].notes = 0 THEN 1 ELSE index[a].notes)

\* Variant of Children: paths matched as a pattern, where one session's name
\* covers another's.
ChildrenOfAny(s) == {a \in Advisors : index[a].cost > 0}

\* The advisors the index knows of in the session's directory.
Children(s) == {a \in Advisors : SessionOf[a] = s /\ index[a].cost > 0}

\* Query lists them by cost, then by path.
First(S) ==
    CHOOSE a \in S : \A b \in S :
        index[a].cost > index[b].cost \/ (index[a].cost = index[b].cost /\ a <= b)

\* The date of the newest message indexed, which every item carries.
Newest ==
    LET dates == {0} \union {index[a].last : a \in Advisors}
    IN  CHOOSE n \in dates : \A m \in dates : m <= n

Row(s, label, a) ==
    [session |-> s, label |-> label, advisor |-> a, asOf |-> Newest]

\* Cost is judged over all advisors before lookups are.
Judge(s) ==
    LET costly == {a \in Children(s) : OverCost(a)}
        searching == {a \in Children(s) : OverLookups(a)}
    IN  IF costly # {} THEN Row(s, "advisor cost", First(costly))
        ELSE IF searching # {} THEN Row(s, "advisor lookups", First(searching))
        ELSE Row(s, "tracking",
                 IF Children(s) = {} THEN Nobody ELSE First(Children(s)))

-----------------------------------------------------------------------------
(* pollOnce                                                                *)

Begin ==
    /\ phase = "idle"
    /\ phase' = "sessions" /\ atBegin' = spent
    /\ UNCHANGED <<omp, index, asked, late, rows, behind>>

\* recordFailure blanks the source, and the warning with it.
Failed ==
    /\ phase' = "idle" /\ asked' = {} /\ late' = FALSE
    /\ rows' = {} /\ behind' = FALSE /\ atBegin' = Nothing
    /\ UNCHANGED <<omp, index>>

\* No session open: nothing is indexed or read.
List ==
    /\ phase = "sessions"
    /\ asked' = opened
    /\ IF opened = {}
       THEN phase' = "idle" /\ rows' = {} /\ behind' = FALSE /\ atBegin' = Nothing
       ELSE phase' = "sync" /\ UNCHANGED <<rows, behind, atBegin>>
    /\ UNCHANGED <<omp, index, late>>

ListFails == phase = "sessions" /\ Failed

\* No command, no warning.
NoSync ==
    /\ phase = "sync" /\ ~syncs
    /\ phase' = "read" /\ late' = FALSE
    /\ UNCHANGED <<omp, index, asked, rows, behind, atBegin>>

Sync ==
    /\ phase = "sync" /\ syncs
    /\ phase' = "read" /\ index' = spent /\ late' = FALSE
    /\ UNCHANGED <<omp, asked, rows, behind, atBegin>>

\* Variant of SyncFails: nothing is said of it.
SyncFailsQuietly ==
    /\ phase = "sync" /\ syncs
    /\ phase' = "read" /\ late' = FALSE
    /\ UNCHANGED <<omp, index, asked, rows, behind, atBegin>>

\* The index command fails, having brought some transcripts up to date or none.
SyncFails ==
    /\ phase = "sync" /\ syncs
    /\ phase' = "read" /\ late' = TRUE
    /\ \E done \in SUBSET Advisors :
          index' = [a \in Advisors |-> IF a \in done THEN spent[a] ELSE index[a]]
    /\ UNCHANGED <<omp, asked, rows, behind, atBegin>>

Read ==
    /\ phase = "read"
    /\ phase' = "idle" /\ asked' = {} /\ late' = FALSE
    /\ rows' = {Judge(s) : s \in asked}
    /\ behind' = late
    /\ atBegin' = Nothing
    /\ UNCHANGED <<omp, index>>

ReadFails == phase = "read" /\ Failed

Next ==
    \/ Begin \/ List \/ ListFails \/ NoSync \/ Sync \/ SyncFails \/ Read \/ ReadFails
    \/ \E s \in Sessions : OpenOrClose(s)
    \/ \E a \in Advisors : Message(a, 1, 0) \/ Message(a, 0, 1)
    \/ Midnight \/ OmpStats

Spec == Init /\ [][Next]_vars

-----------------------------------------------------------------------------
(* Properties                                                              *)

\* Whose row says so.
Flagged(label, list) == {r.session : r \in {r \in list : r.label = label}}

Costly(usage) ==
    {SessionOf[a] : a \in {a \in Advisors : AdvisorCost > 0 /\ usage[a].cost >= AdvisorCost}}

\* Whose advisors had passed the limit by a date.
CostlyBy(date) == {SessionOf[a] : a \in {a \in Advisors : passed[a] \in 1 .. date}}

\* Config, spend.go:40-44, judge, spend.go:166-201, and sync, poller.go:106-122: a
\* session is flagged for cost only for an advisor of its own that has passed the
\* limit, and stays so across midnight as long as it is on the board.  Unless the
\* status says that the index command failed, an advisor that had passed the limit
\* by the date its row bears is flagged, and one that had when the poll began is
\* too, if there is a command: with none the date is all that says how old the
\* numbers are.
RunawayCostIsTold ==
    [][LET before == Flagged("advisor cost", rows)
           after == Flagged("advisor cost", rows')
           listed == {r.session : r \in rows'}
       IN  Read => /\ after \subseteq Costly(spent)
                   /\ before \intersect listed \subseteq after
                   /\ ~behind' => \A r \in rows' :
                                     r.session \in CostlyBy(r.asOf) => r.session \in after
                   /\ syncs /\ ~behind' => Costly(atBegin) \intersect listed \subseteq after]_vars
=============================================================================
