------------------------------- MODULE Lists --------------------------------
(***************************************************************************)
(* The lists attention.Store serves: the queue (/api/attention), the board *)
(* (/api/work) and what has gone stale (/api/stale).  Each is built under  *)
(* the store lock from the stored items, the standing decisions and the    *)
(* clock, which a read looks at more than once.                            *)
(*                                                                         *)
(* A source reports works; an item is the last report about it with the    *)
(* time it was first made, under an id.  Ids are numbers, in the order of  *)
(* the keys' bytes; severities are their ranks; labels are classes of      *)
(* words equal up to case and outer blanks.  Items are adapters': how      *)
(* events expire is in ItemStore, how decisions are written in             *)
(* DecisionStore.  The variables of `history` only record.                 *)
(***************************************************************************)
EXTENDS Naturals, Sequences, SequencesExt

CONSTANTS
    Ids,        \* the items' ids
    Works,      \* what a source can report: [state, label, priority, severity]
    TopLabels,  \* StoreConfig.TopLabels
    Deadlines,  \* moments a snooze can end at
    Absent,     \* in place of an item
    NoDecision, \* no standing decision, and nothing said
    NoReply,    \* nothing has been read since something last changed
    DoneTTL,    \* StoreConfig.DoneTTL, 0 for never
    StaleAfter, \* StoreConfig.StaleAfter, 0 for never
    MaxTime     \* bound on the clock

States == {"working", "waiting", "needs_attention", "done", "failed"}

(* Every rank a source can give itself is below these two. *)
PriorityBumped == 110

PriorityTop == 100

ASSUME ListsAssumptions ==
    /\ Ids \subseteq Nat /\ IsFiniteSet(Ids)
    /\ Works \subseteq [state : States, label : {w.label : w \in Works},
                       priority : 0..(PriorityTop - 1), severity : 0..2]
    /\ Deadlines \subseteq Nat \ {0}
    /\ DoneTTL \in Nat /\ StaleAfter \in Nat /\ MaxTime \in Nat \ {0}

NoDeadline == 0

(* The words an item can read as. *)
Words == {w.label : w \in Works} \cup States \cup {"needs you"}

Items ==
    [id : Ids, state : States, label : Words, priority : 0..PriorityTop,
     severity : 0..2, at : 1..MaxTime]

Decisions ==
    [kind : {"snooze", "bump"}, label : Words, until : Deadlines \cup {NoDeadline}]

Sayings ==
    [kind : {"snooze", "bump"}, label : Words, until : Deadlines \cup {NoDeadline},
     moved : BOOLEAN]

ASSUME SentinelAssumptions ==
    /\ Absent \notin Works \cup Items
    /\ NoDecision \notin Decisions \cup Sayings

VARIABLES
    items,     \* Store.items
    decisions, \* Store.decisions
    now,       \* the clock
    reply,     \* the last list read, unless something has changed since
    source,    \* history: the last work reported about each item
    said       \* history: what the human said last, and whether the label moved since

history == <<source, said>>

vars == <<items, decisions, now, reply, history>>

-----------------------------------------------------------------------------
(* DefaultDisplay and Display: the word an item reads as. *)
DefaultDisplay(state) ==
    IF state = "needs_attention" THEN "needs you" ELSE state

Display(w) == IF w.label # "" THEN w.label ELSE DefaultDisplay(w.state)

NeedsAttention(state) == state \in {"needs_attention", "failed", "done"}

(* Variant of Promoted: looks at the label a source set only. *)
PromotedBySource(w) ==
    IF w.label \in TopLabels THEN [w EXCEPT !.priority = PriorityTop] ELSE w

Promoted(w) ==
    IF Display(w) \in TopLabels THEN [w EXCEPT !.priority = PriorityTop] ELSE w

(* changed leaves the priority out. *)
Same(i, w) ==
    /\ items[i] # Absent
    /\ items[i].state = w.state
    /\ items[i].label = w.label
    /\ items[i].severity = w.severity

Stored(i, w) ==
    LET p == Promoted(w) IN
    [id |-> i, state |-> p.state, label |-> p.label, priority |-> p.priority,
     severity |-> p.severity, at |-> IF Same(i, w) THEN items[i].at ELSE now]

Init ==
    /\ items = [i \in Ids |-> Absent]
    /\ decisions = [i \in Ids |-> NoDecision]
    /\ now = 1
    /\ reply = NoReply
    /\ source = [i \in Ids |-> Absent]
    /\ said = [i \in Ids |-> NoDecision]

Moved(i, w) ==
    IF said[i] # NoDecision /\ Display(w) # said[i].label
    THEN [said EXCEPT ![i].moved = TRUE] ELSE said

Report(i, w) ==
    /\ items' = [items EXCEPT ![i] = Stored(i, w)]
    /\ source' = [source EXCEPT ![i] = w]
    /\ said' = Moved(i, w)
    /\ reply' = NoReply
    /\ UNCHANGED <<decisions, now>>

Withdraw(i) ==
    /\ items[i] # Absent
    /\ items' = [items EXCEPT ![i] = Absent]
    /\ source' = [source EXCEPT ![i] = Absent]
    /\ reply' = NoReply
    /\ UNCHANGED <<decisions, now, said>>

Tick ==
    /\ now < MaxTime
    /\ now' = now + 1
    /\ reply' = NoReply
    /\ UNCHANGED <<items, decisions, history>>

-----------------------------------------------------------------------------
(* apply, the decision: what stands for an item of the label at time t. *)
Spent(d, label, t) ==
    /\ d # NoDecision
    /\ d.kind = "snooze"
    /\ (d.until # NoDeadline /\ t >= d.until) \/ d.label # label

Standing(i, t) ==
    IF items[i] # Absent /\ Spent(decisions[i], Display(items[i]), t)
    THEN NoDecision ELSE decisions[i]

Has(d, kind) == d # NoDecision /\ d.kind = kind

(* Variant of Shown: a bump does not answer the question of staleness. *)
ShownStaleThoughBumped(i, t) ==
    LET d == Standing(i, t) IN
    [id |-> i, state |-> items[i].state, severity |-> items[i].severity,
     at |-> items[i].at,
     priority |-> IF Has(d, "bump") THEN PriorityBumped ELSE items[i].priority,
     bumped |-> Has(d, "bump"),
     snoozed |-> Has(d, "snooze"),
     stale |-> StaleAfter > 0 /\ items[i].at + StaleAfter < t]

(* apply: item i as a list made at t shows it. *)
Shown(i, t) ==
    LET d == Standing(i, t) IN
    [id |-> i, state |-> items[i].state, severity |-> items[i].severity,
     at |-> items[i].at,
     priority |-> IF Has(d, "bump") THEN PriorityBumped ELSE items[i].priority,
     bumped |-> Has(d, "bump"),
     snoozed |-> Has(d, "snooze"),
     stale |-> StaleAfter > 0 /\ ~Has(d, "bump") /\ items[i].at + StaleAfter < t]

(* collect's comparison, with the id to break ties. *)
BeforeUntied(a, b) ==
    \/ a.priority > b.priority
    \/ /\ a.priority = b.priority
       /\ \/ a.severity > b.severity
          \/ a.severity = b.severity /\ a.at > b.at

Before(a, b) ==
    \/ BeforeUntied(a, b)
    \/ /\ <<a.priority, a.severity, a.at>> = <<b.priority, b.severity, b.at>>
       /\ a.id < b.id

(* What sort.Slice may leave of a set taken in a map's order. *)
Sorted(S) ==
    {q \in SetToSeqs(S) : \A j, k \in DOMAIN q : j < k => ~Before(q[k], q[j])}

Live(t) == {Shown(i, t) : i \in {j \in Ids : items[j] # Absent}}

(* Variant of Queued: an item gone stale is still asked about. *)
QueuedThoughStale(i, t) ==
    /\ NeedsAttention(i.state)
    /\ ~i.snoozed
    /\ ~(i.state = "done" /\ DoneTTL > 0 /\ i.at + DoneTTL < t)

Queued(i, t) ==
    /\ NeedsAttention(i.state)
    /\ ~i.snoozed
    /\ ~i.stale
    /\ ~(i.state = "done" /\ DoneTTL > 0 /\ i.at + DoneTTL < t)

(* A read takes collect's time and the cutoff's time from the clock one    *)
(* after the other, and leaves behind what collect found spent.            *)
Reads(list, at, until, q, left, asking) ==
    /\ now' = until
    /\ decisions' = [i \in Ids |-> Standing(i, at)]
    /\ reply' = [list |-> list, from |-> now, to |-> until, items |-> q,
                 stale |-> left, attention |-> asking]
    /\ UNCHANGED <<items, history>>

Moments == {t \in {now, now + 1} : t <= MaxTime}

(* Attention: the cutoff is made before the list is. *)
ReadAttention ==
    \E t \in Moments :
        LET keep == {i \in Live(t) : Queued(i, now)} IN
        \E q \in Sorted(keep) : Reads("attention", t, t, q, 0, Len(q))

(* Board: the other way round; stale items are counted and left out. *)
ReadBoard ==
    \E t \in Moments :
        LET all == Live(now)
            kept == {i \in all : ~i.stale}
        IN
        \E q \in Sorted(kept) :
            Reads("work", now, t, q, Cardinality(all \ kept),
                  Cardinality({i \in kept : Queued(i, t)}))

(* Items, of which the handler keeps the stale ones. *)
ReadStale ==
    \E q \in Sorted({i \in Live(now) : i.stale}) :
        Reads("stale", now, now, q, Len(q), 0)

-----------------------------------------------------------------------------
(* Variant of Decide: the decision is written onto the stored item. *)
DecideInPlace(i, kind, until) ==
    LET label == Display(items[i]) IN
    /\ items[i] # Absent
    /\ kind = "bump" => until = NoDeadline
    /\ decisions' = [decisions EXCEPT ![i] = [kind |-> kind, label |-> label, until |-> until]]
    /\ items' = IF kind = "bump" THEN [items EXCEPT ![i].priority = PriorityBumped] ELSE items
    /\ said' = [said EXCEPT ![i] = [kind |-> kind, label |-> label,
                                    until |-> until, moved |-> FALSE]]
    /\ reply' = NoReply
    /\ UNCHANGED <<now, source>>

(* Decide and Clear, which need the item. *)
Decide(i, kind, until) ==
    LET label == Display(items[i])
        d == [kind |-> kind, label |-> label, until |-> until]
    IN
    /\ items[i] # Absent
    /\ kind = "bump" => until = NoDeadline
    /\ decisions' = [decisions EXCEPT ![i] =
                        IF Spent(d, label, now) THEN NoDecision ELSE d]
    /\ said' = [said EXCEPT ![i] = [kind |-> kind, label |-> label,
                                    until |-> until, moved |-> FALSE]]
    /\ reply' = NoReply
    /\ UNCHANGED <<items, now, source>>

Clear(i) ==
    /\ items[i] # Absent
    /\ decisions' = [decisions EXCEPT ![i] = NoDecision]
    /\ said' = [said EXCEPT ![i] = NoDecision]
    /\ reply' = NoReply
    /\ UNCHANGED <<items, now, source>>

Next ==
    \/ \E i \in Ids : Withdraw(i) \/ Clear(i)
    \/ \E i \in Ids, w \in Works : Report(i, w)
    \/ \E i \in Ids, kind \in {"snooze", "bump"}, until \in Deadlines \cup {NoDeadline} :
          Decide(i, kind, until)
    \/ Tick
    \/ ReadAttention
    \/ ReadBoard
    \/ ReadStale

Spec == Init /\ [][Next]_vars

-----------------------------------------------------------------------------
(* What a reply should say, from what was reported and what was said.      *)
Told(i, kind) == said[i] # NoDecision /\ said[i].kind = kind

(* The snooze of an item whose label never moved has to hold until its     *)
(* deadline; that of an item that reads the same again may.                *)
StillTime(i, t) == said[i].until = NoDeadline \/ t < said[i].until

MustDefer(i, t) == Told(i, "snooze") /\ ~said[i].moved /\ StillTime(i, t)

MayDefer(i, t) ==
    Told(i, "snooze") /\ said[i].label = Display(source[i]) /\ StillTime(i, t)

GoneStale(i, t) == StaleAfter > 0 /\ ~Told(i, "bump") /\ items[i].at + StaleAfter < t

LongDone(i, t) == source[i].state = "done" /\ DoneTTL > 0 /\ items[i].at + DoneTTL < t

Urgency(i) ==
    [rank |-> IF Told(i, "bump") THEN PriorityBumped
              ELSE IF Display(source[i]) \in TopLabels THEN PriorityTop
              ELSE source[i].priority,
     severity |-> source[i].severity,
     at |-> items[i].at]

Precedes(u, v) ==
    \/ u.rank > v.rank
    \/ u.rank = v.rank /\ u.severity > v.severity
    \/ u.rank = v.rank /\ u.severity = v.severity /\ u.at >= v.at

Listed(r) == {r.items[j].id : j \in DOMAIN r.items}

Instant(r) == r.from = r.to

ShownItems ==
    [id : Ids, state : States, severity : 0..2, at : 1..MaxTime, priority : Nat,
     bumped : BOOLEAN, snoozed : BOOLEAN, stale : BOOLEAN]

(* Types of the state: a stored item ranks below what a human can bump. *)
TypeOK ==
    /\ items \in [Ids -> Items \cup {Absent}]
    /\ decisions \in [Ids -> Decisions \cup {NoDecision}]
    /\ now \in 1..MaxTime
    /\ reply # NoReply => \A j \in DOMAIN reply.items : reply.items[j] \in ShownItems
    /\ source \in [Ids -> Works \cup {Absent}]
    /\ said \in [Ids -> Sayings \cup {NoDecision}]

(* What the list's order rests on: an item is stored as its source         *)
(* reported it, with no trace of a decision; a bump stands exactly as long *)
(* as the human says so; and a reply shows its items by their urgency.     *)
StoredAsReported ==
    \A i \in Ids :
        /\ items[i] = Absent <=> source[i] = Absent
        /\ items[i] # Absent =>
              /\ items[i].severity = source[i].severity
              /\ items[i].priority = Promoted(source[i]).priority

BumpsStand == \A i \in Ids : Has(decisions[i], "bump") <=> Told(i, "bump")

Shows(shown) ==
    /\ shown.id \in Ids
    /\ items[shown.id] # Absent
    /\ Urgency(shown.id) =
          [rank |-> shown.priority, severity |-> shown.severity, at |-> shown.at]

ReplyInOrder ==
    reply # NoReply =>
        /\ \A j \in DOMAIN reply.items : Shows(reply.items[j])
        /\ \A j, k \in DOMAIN reply.items :
              j < k => ~Before(reply.items[k], reply.items[j])

OrderInv == TypeOK /\ StoredAsReported /\ BumpsStand /\ ReplyInOrder

(* README.md:129-131, 136, 312: the queue holds the work that needs a      *)
(* human, minus what is snoozed, stale, or done for too long.  A list is   *)
(* made between two moments; an item is in it unless one of these kept it  *)
(* out at one of them, and none that did at both let it in.                *)
QueueIsWhatNeedsYou ==
    (reply # NoReply /\ reply.list = "attention") =>
        LET from == reply.from
            to == reply.to
            asking == {i \in Ids : source[i] # Absent /\ NeedsAttention(source[i].state)}
        IN
        /\ Listed(reply) \subseteq asking
        /\ \A i \in Listed(reply) :
              /\ ~(MustDefer(i, from) /\ MustDefer(i, to))
              /\ ~(GoneStale(i, from) /\ GoneStale(i, to))
              /\ ~(LongDone(i, from) /\ LongDone(i, to))
        /\ \A i \in asking \ Listed(reply) :
              \E t \in {from, to} : MayDefer(i, t) \/ GoneStale(i, t) \/ LongDone(i, t)

(* README.md:178 and 211-243: whatever was decided, taken back or lapsed   *)
(* before, a list reads bumped items first, then those of a top label,     *)
(* then by the rank the source gave, the severity and the time.            *)
InOrderOfUrgency ==
    reply # NoReply =>
        \A j, k \in DOMAIN reply.items : j < k =>
            Precedes(Urgency(reply.items[j].id), Urgency(reply.items[k].id))

(* README.md:178-179: a consumer renders items in the order it got them,   *)
(* so a list read twice, with nothing and no time in between, is the same  *)
(* list, whatever order the map of items was walked in.                    *)
ReadTwiceIsTheSame ==
    [][(/\ reply # NoReply /\ reply' # NoReply
        /\ reply'.list = reply.list
        /\ Instant(reply) /\ Instant(reply') /\ reply'.from = reply.from)
       => reply' = reply]_vars

(* server.go:90-92, 71-74: what /api/work leaves out is on /api/stale, no  *)
(* item is on both, and the counts that go with the board are those of the *)
(* other two lists, when no time passes between the reads.                 *)
ListsAddUp ==
    [][(/\ reply # NoReply /\ reply' # NoReply
        /\ reply.list = "work"
        /\ Instant(reply) /\ Instant(reply') /\ reply'.from = reply.from)
       => /\ reply'.list = "stale" =>
                /\ Listed(reply) \cap Listed(reply') = {}
                /\ Listed(reply) \cup Listed(reply') = {i \in Ids : source[i] # Absent}
                /\ reply.stale = Len(reply'.items)
          /\ reply'.list = "attention" =>
                /\ Listed(reply') \subseteq Listed(reply)
                /\ reply.attention = Len(reply'.items)]_vars
=============================================================================
