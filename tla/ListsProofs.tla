---------------------------- MODULE ListsProofs -----------------------------
(***************************************************************************)
(* Theorems about Lists, for any items, works, labels and clocks.          *)
(***************************************************************************)
EXTENDS Lists, FiniteSetTheorems, TLAPS

USE DEF PriorityBumped, PriorityTop, NoDeadline

Served == [id : Nat, priority : Nat, severity : Nat, at : Nat, state : States,
           bumped : BOOLEAN, snoozed : BOOLEAN, stale : BOOLEAN]

(* collect's comparison is a strict order in which any two items with      *)
(* different ids are comparable: what sort.Slice needs, and what makes the *)
(* order independent of the map the items came from.                       *)
THEOREM OrderIsTotal ==
    ASSUME NEW a \in Served, NEW b \in Served, NEW c \in Served
    PROVE  /\ ~Before(a, a)
           /\ Before(a, b) => ~Before(b, a)
           /\ Before(a, b) /\ Before(b, c) => Before(a, c)
           /\ a.id # b.id => Before(a, b) \/ Before(b, a)
  BY DEF Served, Before, BeforeUntied

(* What a label reads as is one of the display words. *)
LEMMA DisplayIsWord ==
    ASSUME NEW w, w.label \in Words, w.state \in States
    PROVE  Display(w) \in Words
  BY DEF Display, DefaultDisplay, Words

(* Promoting a reading leaves what it says, and bounds its rank. *)
LEMMA PromotedType ==
    ASSUME NEW w \in Works
    PROVE  /\ w.state \in States /\ w.label \in Words /\ w.severity \in 0..2
           /\ w.priority \in 0..(PriorityTop - 1)
           /\ Promoted(w).state = w.state
           /\ Promoted(w).label = w.label
           /\ Promoted(w).severity = w.severity
           /\ Promoted(w).priority \in 0..PriorityTop
           /\ Promoted(w).priority =
                IF Display(w) \in TopLabels THEN PriorityTop ELSE w.priority
  <1>1. w \in [state : States, label : Words, priority : 0..(PriorityTop - 1),
               severity : 0..2]
    BY ListsAssumptions DEF Words
  <1>2. CASE Display(w) \in TopLabels
    <2>1. Promoted(w) = [w EXCEPT !.priority = PriorityTop]
      BY <1>2 DEF Promoted
    <2> QED
      BY <1>1, <1>2, <2>1
  <1>3. CASE Display(w) \notin TopLabels
    BY <1>1, <1>3 DEF Promoted
  <1> QED
    BY <1>2, <1>3

(* What a write stores is a well-typed item, as it was reported. *)
LEMMA StoredType ==
    ASSUME TypeOK, NEW i \in Ids, NEW w \in Works
    PROVE  /\ Stored(i, w) \in Items
           /\ Stored(i, w) # Absent
           /\ Stored(i, w).severity = w.severity
           /\ Stored(i, w).priority = Promoted(w).priority
  <1>1. (IF Same(i, w) THEN items[i].at ELSE now) \in 1..MaxTime
    BY DEF TypeOK, Same, Items
  <1>2. Stored(i, w) \in Items
    BY <1>1, PromotedType DEF Stored, Items
  <1> QED
    BY <1>2, PromotedType, SentinelAssumptions DEF Stored

(* What a read leaves standing is a decision that stood, and every bump.   *)
LEMMA StandingType ==
    ASSUME TypeOK, NEW i \in Ids, NEW t
    PROVE  /\ Standing(i, t) \in Decisions \cup {NoDecision}
           /\ Has(Standing(i, t), "bump") <=> Has(decisions[i], "bump")
  BY DEF TypeOK, Standing, Spent, Has

(* An item of the board is shown with the urgency it was promised. *)
LEMMA ShownByUrgency ==
    ASSUME TypeOK, StoredAsReported, BumpsStand, NEW t \in Nat, NEW s \in Live(t)
    PROVE  s \in ShownItems /\ Shows(s)
  <1>1. PICK i \in Ids : items[i] # Absent /\ s = Shown(i, t)
    BY DEF Live
  <1>2. items[i] \in Items /\ source[i] \in Works
    BY <1>1 DEF TypeOK, StoredAsReported
  <1>3. Has(Standing(i, t), "bump") <=> Told(i, "bump")
    BY StandingType DEF BumpsStand
  <1>4. /\ s.id = i /\ s.severity = items[i].severity /\ s.at = items[i].at
        /\ s.priority = IF Told(i, "bump") THEN PriorityBumped ELSE items[i].priority
    BY <1>1, <1>3 DEF Shown
  <1>5. s \in ShownItems
    BY <1>1, <1>2 DEF Shown, ShownItems, Items, Has
  <1>6. Urgency(i).rank = s.priority
    BY <1>1, <1>2, <1>4, PromotedType DEF StoredAsReported, Urgency
  <1>7. Urgency(i) = [rank |-> s.priority, severity |-> s.severity, at |-> s.at]
    BY <1>1, <1>4, <1>6 DEF StoredAsReported, Urgency
  <1> QED
    BY <1>1, <1>4, <1>5, <1>7 DEF Shows

(* A sorted list has no item before one that goes before it. *)
LEMMA SortedIsInOrder ==
    ASSUME NEW S, NEW q \in Sorted(S)
    PROVE  /\ \A j \in DOMAIN q : q[j] \in S
           /\ \A j, k \in DOMAIN q : j < k => ~Before(q[k], q[j])
  BY DEF Sorted, SetToSeqs

-----------------------------------------------------------------------------
(* An empty board satisfies the invariant. *)
LEMMA InitOrder == Init => OrderInv
  <1> SUFFICES ASSUME Init PROVE OrderInv
    OBVIOUS
  <1>1. TypeOK
    BY ListsAssumptions DEF Init, TypeOK
  <1>2. StoredAsReported /\ BumpsStand /\ ReplyInOrder
    BY DEF Init, StoredAsReported, BumpsStand, ReplyInOrder, Has, Told
  <1> QED
    BY <1>1, <1>2 DEF OrderInv

(* A read, whichever list it makes of the items live at some moment. *)
LEMMA ReadKeepsOrder ==
    ASSUME OrderInv,
           NEW list, NEW at \in Nat, NEW until \in 1..MaxTime,
           NEW S \in SUBSET Live(at), NEW q \in Sorted(S), NEW left, NEW asking,
           Reads(list, at, until, q, left, asking)
    PROVE  OrderInv'
  <1> USE DEF OrderInv, Reads, history
  <1>1. \A j \in DOMAIN q : q[j] \in ShownItems /\ Shows(q[j])
    BY SortedIsInOrder, ShownByUrgency
  <1>2. reply'.items = q
    OBVIOUS
  <1>3. TypeOK'
    <2>1. decisions' \in [Ids -> Decisions \cup {NoDecision}]
      BY StandingType
    <2>2. \A j \in DOMAIN reply'.items : reply'.items[j] \in ShownItems
      BY <1>1, <1>2
    <2>3. ShownItems' = ShownItems
      BY DEF ShownItems
    <2> QED
      BY <2>1, <2>2 DEF TypeOK
  <1>4. StoredAsReported'
    BY DEF StoredAsReported
  <1>5. BumpsStand'
    <2>1. \A i \in Ids : decisions'[i] = Standing(i, at)
      OBVIOUS
    <2>2. \A i \in Ids : Has(decisions'[i], "bump") <=> Has(decisions[i], "bump")
      BY <2>1, StandingType
    <2>3. \A i \in Ids : Told(i, "bump")' <=> Told(i, "bump")
      BY DEF Told
    <2> QED
      BY <2>2, <2>3 DEF BumpsStand
  <1>6. ReplyInOrder'
    <2>1. \A s : Shows(s)' <=> Shows(s)
      BY DEF Shows, Urgency, Told
    <2> QED
      BY <1>1, <1>2, <2>1, SortedIsInOrder DEF ReplyInOrder
  <1> QED
    BY <1>3, <1>4, <1>5, <1>6

(* A saying whose label has moved is otherwise what it was. *)
LEMMA MovedSaying ==
    ASSUME NEW s \in Sayings
    PROVE  [s EXCEPT !.moved = TRUE] \in Sayings /\ [s EXCEPT !.moved = TRUE].kind = s.kind
  BY DEF Sayings

(* What changes an item or a decision leaves no reply behind. *)
LEMMA ReportKeepsOrder ==
    ASSUME OrderInv, NEW i \in Ids, NEW w \in Works, Report(i, w)
    PROVE  OrderInv'
  <1> USE DEF OrderInv, Report
  <1>1. said' \in [Ids -> Sayings \cup {NoDecision}]
    BY DEF TypeOK, Moved, Sayings
  <1>2. TypeOK'
    BY <1>1, StoredType DEF TypeOK
  <1>3. StoredAsReported'
    BY StoredType, SentinelAssumptions DEF TypeOK, StoredAsReported
  <1>4. BumpsStand'
    <2>1. ASSUME NEW j \in Ids PROVE Told(j, "bump")' <=> Told(j, "bump")
      <3>1. CASE said[i] # NoDecision /\ Display(w) # said[i].label
        <4>1. said[i] \in Sayings /\ said' = [said EXCEPT ![i].moved = TRUE]
          BY <3>1 DEF TypeOK, Moved
        <4>2. said'[i] \in Sayings /\ said'[i].kind = said[i].kind
          <5>1. said'[i] = [said[i] EXCEPT !.moved = TRUE]
            BY <4>1 DEF TypeOK
          <5> QED
            BY <4>1, <5>1, MovedSaying
        <4>3. j # i => said'[j] = said[j]
          BY <4>1 DEF TypeOK
        <4> QED
          BY <3>1, <4>2, <4>3, SentinelAssumptions DEF Told
      <3>2. CASE ~(said[i] # NoDecision /\ Display(w) # said[i].label)
        BY <3>2 DEF Moved, Told
      <3> QED
        BY <3>1, <3>2
    <2> QED
      BY <2>1 DEF BumpsStand, Has
  <1> QED
    BY <1>2, <1>3, <1>4 DEF ReplyInOrder

(* A decision stands as it was said, and leaves no reply behind. *)
LEMMA DecideKeepsOrder ==
    ASSUME OrderInv, NEW i \in Ids, NEW kind \in {"snooze", "bump"},
           NEW until \in Deadlines \cup {NoDeadline}, Decide(i, kind, until)
    PROVE  OrderInv'
  <1> DEFINE d == [kind |-> kind, label |-> Display(items[i]), until |-> until]
             s == [kind |-> kind, label |-> Display(items[i]), until |-> until,
                   moved |-> FALSE]
  <1>1. Display(items[i]) \in Words
    BY DisplayIsWord DEF OrderInv, Decide, TypeOK, Items
  <1>2. d \in Decisions /\ s \in Sayings /\ d # NoDecision /\ s # NoDecision
    <2>1. d \in Decisions
      BY <1>1 DEF Decisions
    <2>2. s \in Sayings
      BY <1>1 DEF Sayings
    <2> QED
      BY <2>1, <2>2, SentinelAssumptions
  <1> USE DEF OrderInv, Decide
  <1>3. /\ decisions' = [decisions EXCEPT ![i] = IF Spent(d, Display(items[i]), now)
                                                 THEN NoDecision ELSE d]
        /\ said' = [said EXCEPT ![i] = s]
    OBVIOUS
  <1> HIDE DEF d, s
  <1>4. TypeOK'
    <2>1. decisions' \in [Ids -> Decisions \cup {NoDecision}]
      BY <1>2, <1>3 DEF TypeOK
    <2>2. said' \in [Ids -> Sayings \cup {NoDecision}]
      BY <1>2, <1>3 DEF TypeOK
    <2> QED
      BY <2>1, <2>2 DEF TypeOK
  <1>5. StoredAsReported'
    BY DEF StoredAsReported
  <1>6. d.kind = kind /\ s.kind = kind
    BY DEF d, s
  <1>7. Has(decisions'[i], "bump") <=> Told(i, "bump")'
    BY <1>2, <1>3, <1>6 DEF TypeOK, Has, Told, Spent
  <1>8. BumpsStand'
    BY <1>3, <1>7 DEF TypeOK, BumpsStand, Has, Told
  <1> QED
    BY <1>4, <1>5, <1>8 DEF ReplyInOrder

(* Every step keeps the invariant of the order. *)
LEMMA StepKeepsOrder == OrderInv /\ [Next]_vars => OrderInv'
  <1> SUFFICES ASSUME OrderInv, [Next]_vars PROVE OrderInv'
    OBVIOUS
  <1> USE DEF OrderInv
  <1>1. ASSUME NEW i \in Ids, Withdraw(i) PROVE OrderInv'
    BY <1>1 DEF Withdraw, TypeOK, StoredAsReported, BumpsStand, ReplyInOrder, Has, Told
  <1>2. ASSUME NEW i \in Ids, Clear(i) PROVE OrderInv'
    BY <1>2 DEF Clear, TypeOK, StoredAsReported, BumpsStand, ReplyInOrder, Has, Told
  <1>3. ASSUME NEW i \in Ids, NEW w \in Works, Report(i, w) PROVE OrderInv'
    BY <1>3, ReportKeepsOrder
  <1>4. ASSUME NEW i \in Ids, NEW kind \in {"snooze", "bump"},
               NEW until \in Deadlines \cup {NoDeadline}, Decide(i, kind, until)
        PROVE  OrderInv'
    BY <1>4, DecideKeepsOrder
  <1>5. CASE Tick
    BY <1>5, ListsAssumptions
    DEF Tick, TypeOK, StoredAsReported, BumpsStand, ReplyInOrder, Has, Told, history
  <1>6. now \in Nat /\ now \in 1..MaxTime /\ \A t \in Moments : t \in Nat /\ t \in 1..MaxTime
    BY ListsAssumptions DEF TypeOK, Moments
  <1>7. CASE ReadAttention
    <2>1. PICK t \in Moments :
             \E q \in Sorted({i \in Live(t) : Queued(i, now)}) :
                Reads("attention", t, t, q, 0, Len(q))
      BY <1>7 DEF ReadAttention
    <2> QED
      BY <1>6, <2>1, ReadKeepsOrder
  <1>8. CASE ReadBoard
    <2>1. PICK t \in Moments, q \in Sorted({i \in Live(now) : ~i.stale}) :
             \E left, asking : Reads("work", now, t, q, left, asking)
      BY <1>8 DEF ReadBoard
    <2> QED
      BY <1>6, <2>1, ReadKeepsOrder
  <1>9. CASE ReadStale
    <2>1. PICK q \in Sorted({i \in Live(now) : i.stale}) :
             Reads("stale", now, now, q, Len(q), 0)
      BY <1>9 DEF ReadStale
    <2> QED
      BY <1>6, <2>1, ReadKeepsOrder
  <1>10. CASE UNCHANGED vars
    BY <1>10 DEF vars, history, TypeOK, StoredAsReported, BumpsStand, ReplyInOrder,
                 Shows, Urgency, Has, Told
  <1> QED
    BY <1>1, <1>2, <1>3, <1>4, <1>5, <1>7, <1>8, <1>9, <1>10 DEF Next

(* The state keeps its types, items keep what their source said, and a     *)
(* bump stands from the moment it is made until it is replaced or cleared. *)
THEOREM OrderIsKept == Spec => []OrderInv
  <1> QED
    BY InitOrder, StepKeepsOrder, PTL DEF Spec

(* Types of the board, the decisions, the replies and what was said.       *)
THEOREM ListsTyped == Spec => []TypeOK
  <1>1. OrderInv => TypeOK
    BY DEF OrderInv
  <1> QED
    BY <1>1, OrderIsKept, PTL

(* Every list is in the order README.md describes: what was bumped, then   *)
(* what reads as a top label, then by rank, severity and time.             *)
THEOREM ListsInOrderOfUrgency == Spec => []InOrderOfUrgency
  <1>1. OrderInv => InOrderOfUrgency
    <2> SUFFICES ASSUME OrderInv, reply # NoReply,
                        NEW j \in DOMAIN reply.items, NEW k \in DOMAIN reply.items, j < k
                 PROVE  Precedes(Urgency(reply.items[j].id), Urgency(reply.items[k].id))
      BY DEF InOrderOfUrgency
    <2> DEFINE a == reply.items[j]
               b == reply.items[k]
    <2>1. a \in ShownItems /\ b \in ShownItems /\ Shows(a) /\ Shows(b) /\ ~Before(b, a)
      BY DEF OrderInv, TypeOK, ReplyInOrder
    <2>2. /\ a.priority \in Nat /\ a.severity \in Nat /\ a.at \in Nat
          /\ b.priority \in Nat /\ b.severity \in Nat /\ b.at \in Nat
      BY <2>1, ListsAssumptions DEF ShownItems
    <2>3. /\ Urgency(a.id) = [rank |-> a.priority, severity |-> a.severity, at |-> a.at]
          /\ Urgency(b.id) = [rank |-> b.priority, severity |-> b.severity, at |-> b.at]
      BY <2>1 DEF Shows
    <2> HIDE DEF a, b
    <2>4. Precedes(Urgency(a.id), Urgency(b.id))
      BY <2>1, <2>2, <2>3 DEF Precedes, Before, BeforeUntied
    <2> QED
      BY <2>4 DEF a, b
  <1> QED
    BY <1>1, OrderIsKept, PTL

-----------------------------------------------------------------------------
(* The queue                                                               *)

(* A snooze that stands is the one the human made, and one that has to     *)
(* hold stands; an item that never moved still reads as it did when it was *)
(* decided about, and reads as its source says.                            *)
SnoozeFits(i) ==
    /\ Has(decisions[i], "snooze") =>
          /\ Told(i, "snooze")
          /\ decisions[i].label = said[i].label
          /\ decisions[i].until = said[i].until
    /\ MustDefer(i, now) => Has(decisions[i], "snooze")
    /\ items[i] # Absent =>
          /\ said[i] # NoDecision /\ ~said[i].moved => said[i].label = Display(items[i])
          /\ items[i].state = source[i].state /\ items[i].label = source[i].label

SnoozesFit == \A i \in Ids : SnoozeFits(i)

QueueInv == SnoozesFit /\ QueueIsWhatNeedsYou

(* Two works with the same state and label read the same.                  *)
LEMMA ReadsTheSame ==
    ASSUME NEW v, NEW w, v.state = w.state, v.label = w.label
    PROVE  Display(v) = Display(w)
  BY DEF Display

(* A snooze whose item never moved and whose deadline lies ahead of a read *)
(* survives the read.                                                      *)
LEMMA SnoozeSurvives ==
    ASSUME TypeOK, NEW i \in Ids, SnoozeFits(i),
           NEW at \in Nat, NEW t \in Nat, now <= t, at <= t, MustDefer(i, t)
    PROVE  Has(Standing(i, at), "snooze")
  <1>1. said[i] # NoDecision /\ said[i] \in Sayings /\ said[i].until \in Nat
    <2>1. said[i] # NoDecision /\ said[i] \in Sayings
      BY DEF MustDefer, Told, TypeOK
    <2>2. said[i].until \in Deadlines \cup {0}
      BY <2>1 DEF Sayings
    <2> QED
      BY <2>1, <2>2, ListsAssumptions
  <1>2. StillTime(i, now) /\ StillTime(i, at)
    BY <1>1, ListsAssumptions DEF MustDefer, StillTime, TypeOK
  <1>3. Has(decisions[i], "snooze") /\ decisions[i].label = said[i].label
        /\ decisions[i].until = said[i].until
    BY <1>2 DEF SnoozeFits, MustDefer
  <1>4. items[i] # Absent => said[i].label = Display(items[i])
    BY <1>1 DEF SnoozeFits, MustDefer
  <1>5. ~(items[i] # Absent /\ Spent(decisions[i], Display(items[i]), at))
    BY <1>1, <1>2, <1>3, <1>4 DEF Spent, StillTime
  <1> QED
    BY <1>3, <1>5 DEF Standing

(* A snooze that survives a read is one the human made, of an item that    *)
(* reads the same again, and its deadline lies ahead.                      *)
LEMMA SnoozeShown ==
    ASSUME TypeOK, NEW i \in Ids, SnoozeFits(i), items[i] # Absent,
           NEW at \in Nat, Has(Standing(i, at), "snooze")
    PROVE  MayDefer(i, at)
  <1>1. Standing(i, at) = decisions[i] /\ ~Spent(decisions[i], Display(items[i]), at)
        /\ Has(decisions[i], "snooze")
    BY DEF Standing, Has
  <1>2. Told(i, "snooze") /\ decisions[i].label = said[i].label
        /\ decisions[i].until = said[i].until
    BY <1>1 DEF SnoozeFits
  <1>3. Display(items[i]) = Display(source[i])
    BY ReadsTheSame DEF SnoozeFits
  <1>4. said[i].label = Display(items[i]) /\ (said[i].until = NoDeadline \/ ~(at >= said[i].until))
    BY <1>1, <1>2 DEF Spent, Has
  <1>5. said[i].until \in Nat
    <2>1. said[i] \in Sayings
      BY <1>2 DEF Told, TypeOK
    <2>2. said[i].until \in Deadlines \cup {0}
      BY <2>1 DEF Sayings
    <2> QED
      BY <2>2, ListsAssumptions
  <1> QED
    BY <1>2, <1>3, <1>4, <1>5 DEF MayDefer, StillTime

(* The items live at a moment are finitely many, and a sort leaves none of *)
(* them out.                                                               *)
LEMMA SortedIsComplete ==
    ASSUME NEW t, NEW S \in SUBSET Live(t), NEW q \in Sorted(S)
    PROVE  \A s \in S : \E j \in DOMAIN q : q[j] = s
  <1> DEFINE held == {i \in Ids : items[i] # Absent}
             f == [i \in held |-> Shown(i, t)]
  <1>1. IsFiniteSet(held)
    BY FS_Subset, ListsAssumptions
  <1>2. f \in Surjection(held, Live(t))
    BY DEF Surjection, Live
  <1>3. IsFiniteSet(Live(t))
    BY <1>1, <1>2, FS_Surjection
  <1>4. IsFiniteSet(S) /\ Cardinality(S) \in Nat
    BY <1>3, FS_Subset, FS_CardinalityType
  <1>5. q \in Injection(1..Cardinality(S), S)
    BY DEF Sorted, SetToSeqs, Injection, IsInjective
  <1>6. Cardinality(1..Cardinality(S)) = Cardinality(S)
    BY <1>4, FS_Interval
  <1>7. q \in Surjection(1..Cardinality(S), S)
    BY <1>4, <1>5, <1>6, FS_Injection
  <1> QED
    BY <1>7 DEF Surjection

(* Time alone ends a duty to defer, and never begins one.                  *)
LEMMA DeferEnds ==
    ASSUME TypeOK, NEW i \in Ids, NEW t \in Nat, now <= t, MustDefer(i, t)
    PROVE  MustDefer(i, now)
  <1>1. said[i].until \in Nat
    <2>1. said[i] \in Sayings
      BY DEF MustDefer, Told, TypeOK
    <2>2. said[i].until \in Deadlines \cup {0}
      BY <2>1 DEF Sayings
    <2> QED
      BY <2>2, ListsAssumptions
  <1> QED
    BY <1>1, ListsAssumptions DEF MustDefer, StillTime, TypeOK

(* What is about another item, or about none, leaves this one's snooze.    *)
LEMMA OthersFit ==
    ASSUME TypeOK, NEW i \in Ids, SnoozeFits(i), now' \in Nat, now <= now',
           decisions'[i] = decisions[i], said'[i] = said[i],
           \/ items'[i] = Absent
           \/ items'[i] = items[i] /\ source'[i] = source[i]
    PROVE  SnoozeFits(i)'
  <1>1. Told(i, "snooze")' <=> Told(i, "snooze")
    BY DEF Told
  <1>2. MustDefer(i, now)' => MustDefer(i, now')
    BY <1>1 DEF MustDefer, StillTime
  <1>3. MustDefer(i, now)' => Has(decisions'[i], "snooze")
    BY <1>2, DeferEnds DEF SnoozeFits
  <1> QED
    BY <1>1, <1>3 DEF SnoozeFits

(* A reading that is marked as moved is otherwise what was said.           *)
LEMMA MovedKeeps ==
    ASSUME NEW s \in Sayings
    PROVE  LET m == [s EXCEPT !.moved = TRUE] IN
           m.kind = s.kind /\ m.label = s.label /\ m.until = s.until /\ m.moved = TRUE
  BY DEF Sayings

(* A report that moves the label is marked; one that does not keeps it.    *)
LEMMA ReportFits ==
    ASSUME OrderInv, NEW i \in Ids, SnoozeFits(i), NEW w \in Works, Report(i, w)
    PROVE  SnoozeFits(i)'
  <1> USE DEF OrderInv, Report
  <1>1. items'[i] = Stored(i, w) /\ source'[i] = w /\ decisions' = decisions /\ now' = now
    BY DEF TypeOK
  <1>2. Stored(i, w).state = w.state /\ Stored(i, w).label = w.label
    BY PromotedType DEF Stored
  <1>3. Display(items'[i]) = Display(w)
    BY <1>1, <1>2, ReadsTheSame
  <1>4. CASE said[i] # NoDecision /\ Display(w) # said[i].label
    <2>1. said[i] \in Sayings /\ said'[i] = [said[i] EXCEPT !.moved = TRUE]
      BY <1>4 DEF TypeOK, Moved
    <2>2. said'[i].kind = said[i].kind /\ said'[i].label = said[i].label
          /\ said'[i].until = said[i].until /\ said'[i].moved = TRUE
      BY <2>1, MovedKeeps
    <2>3. said'[i] # NoDecision
      BY <2>1, MovedSaying, SentinelAssumptions
    <2>4. ~MustDefer(i, now)'
      BY <2>2 DEF MustDefer
    <2> QED
      BY <1>1, <1>2, <1>4, <2>2, <2>3, <2>4 DEF SnoozeFits, Told
  <1>5. CASE ~(said[i] # NoDecision /\ Display(w) # said[i].label)
    <2>1. said' = said
      BY <1>5 DEF Moved
    <2>2. Told(i, "snooze")' <=> Told(i, "snooze")
      BY <2>1 DEF Told
    <2>3. MustDefer(i, now)' <=> MustDefer(i, now)
      BY <1>1, <2>1, <2>2 DEF MustDefer, StillTime
    <2> QED
      BY <1>1, <1>2, <1>3, <1>5, <2>1, <2>2, <2>3 DEF SnoozeFits
  <1> QED
    BY <1>4, <1>5

(* A decision is about what the item reads as when it is made.             *)
LEMMA DecideFits ==
    ASSUME OrderInv, NEW i \in Ids, NEW kind \in {"snooze", "bump"}, SnoozeFits(i),
           NEW until \in Deadlines \cup {NoDeadline}, Decide(i, kind, until)
    PROVE  SnoozeFits(i)'
  <1> DEFINE label == Display(items[i])
             d == [kind |-> kind, label |-> label, until |-> until]
  <1>1. /\ decisions'[i] = IF Spent(d, label, now) THEN NoDecision ELSE d
        /\ said'[i] = [kind |-> kind, label |-> label, until |-> until, moved |-> FALSE]
        /\ items' = items /\ source' = source /\ now' = now
    BY DEF Decide, OrderInv, TypeOK
  <1>2. said'[i].kind = kind /\ said'[i].label = label /\ said'[i].until = until
    BY <1>1
  <1>3. d.kind = kind /\ d.label = label /\ d.until = until
    OBVIOUS
  <1>4. label \in Words
    BY DisplayIsWord DEF OrderInv, Decide, TypeOK, Items
  <1>5. d # NoDecision /\ said'[i] # NoDecision
    <2>1. d \in Decisions
      BY <1>4 DEF Decisions
    <2>2. said'[i] \in Sayings
      BY <1>1, <1>4 DEF Sayings
    <2> QED
      BY <2>1, <2>2, SentinelAssumptions
  <1>6. until \in Nat /\ now \in Nat
    BY ListsAssumptions DEF OrderInv, TypeOK
  <1> HIDE DEF d, label
  <1>7. Has(decisions'[i], "snooze") =>
           /\ Told(i, "snooze")' /\ decisions'[i].label = said'[i].label
           /\ decisions'[i].until = said'[i].until
    BY <1>1, <1>2, <1>3, <1>5 DEF Has, Told
  <1>8. MustDefer(i, now)' => Has(decisions'[i], "snooze")
    <2> SUFFICES ASSUME MustDefer(i, now)' PROVE Has(decisions'[i], "snooze")
      OBVIOUS
    <2>1. kind = "snooze" /\ (until = NoDeadline \/ now < until)
      BY <1>1, <1>2 DEF MustDefer, Told, StillTime
    <2>2. ~Spent(d, label, now)
      BY <1>3, <1>6, <2>1 DEF Spent
    <2> QED
      BY <1>1, <1>3, <1>5, <2>1, <2>2 DEF Has
  <1>9. items'[i] # Absent =>
           /\ said'[i] # NoDecision /\ ~said'[i].moved => said'[i].label = Display(items'[i])
           /\ items'[i].state = source'[i].state /\ items'[i].label = source'[i].label
    BY <1>1, <1>2 DEF SnoozeFits, label
  <1> QED
    BY <1>7, <1>8, <1>9 DEF SnoozeFits

(* A read, whichever list it makes, keeps the snoozes that have to hold.   *)
LEMMA ReadFits ==
    ASSUME TypeOK, NEW i \in Ids, SnoozeFits(i), NEW list, NEW at \in Nat, NEW until \in Nat,
           now <= until, at <= until, NEW q, NEW left, NEW asking,
           Reads(list, at, until, q, left, asking)
    PROVE  SnoozeFits(i)'
  <1>1. decisions'[i] = Standing(i, at) /\ now' = until
        /\ UNCHANGED <<items, source, said>>
    BY DEF Reads, history
  <1>2. Told(i, "snooze")' <=> Told(i, "snooze")
    BY <1>1 DEF Told
  <1>3. MustDefer(i, now)' => MustDefer(i, until)
    BY <1>1, <1>2 DEF MustDefer, StillTime
  <1>4. MustDefer(i, now)' => Has(decisions'[i], "snooze")
    BY <1>1, <1>3, SnoozeSurvives
  <1>5. Has(decisions'[i], "snooze") => decisions'[i] = decisions[i]
    BY <1>1 DEF Standing, Has
  <1> QED
    BY <1>1, <1>2, <1>4, <1>5 DEF SnoozeFits

(* The queue a read makes: everything that asks for a human and has no     *)
(* reason to be left out, and nothing else.                                *)
LEMMA AttentionIsWhatNeedsYou ==
    ASSUME OrderInv, SnoozesFit, NEW t \in Nat, now <= t,
           NEW q \in Sorted({s \in Live(t) : Queued(s, now)}),
           Reads("attention", t, t, q, 0, Len(q))
    PROVE  QueueIsWhatNeedsYou'
  <1> DEFINE keep == {s \in Live(t) : Queued(s, now)}
             asking == {i \in Ids : source[i] # Absent /\ NeedsAttention(source[i].state)}
             listed == {q[j].id : j \in DOMAIN q}
             Kept(i) == items[i] # Absent /\ Queued(Shown(i, t), now)
  <1>0. TypeOK /\ StoredAsReported /\ BumpsStand
    BY DEF OrderInv
  <1>1. listed = {i \in Ids : Kept(i)}
    <2>1. ASSUME NEW j \in DOMAIN q PROVE q[j].id \in Ids /\ Kept(q[j].id)
      <3>1. q[j] \in keep
        BY SortedIsInOrder
      <3>2. PICK i \in Ids : items[i] # Absent /\ q[j] = Shown(i, t)
        BY <3>1 DEF Live
      <3>3. q[j].id = i
        BY <3>2 DEF Shown
      <3> QED
        BY <3>1, <3>2, <3>3
    <2>2. ASSUME NEW i \in Ids, Kept(i) PROVE i \in listed
      <3>1. Shown(i, t) \in keep /\ Shown(i, t).id = i
        BY <2>2 DEF Live, Shown
      <3>2. PICK j \in DOMAIN q : q[j] = Shown(i, t)
        BY <3>1, SortedIsComplete
      <3> QED
        BY <3>1, <3>2
    <2> HIDE DEF Kept
    <2> QED
      BY <2>1, <2>2
  <1>2. ASSUME NEW i \in Ids, items[i] # Absent
        PROVE  /\ source[i] # Absent /\ items[i].state = source[i].state
               /\ Queued(Shown(i, t), now) <=>
                    /\ NeedsAttention(source[i].state)
                    /\ ~Has(Standing(i, t), "snooze")
                    /\ ~GoneStale(i, t)
                    /\ ~LongDone(i, now)
    <2>1. source[i] # Absent /\ items[i].state = source[i].state
      BY <1>0, <1>2 DEF StoredAsReported, SnoozesFit, SnoozeFits
    <2>2. Has(Standing(i, t), "bump") <=> Told(i, "bump")
      BY <1>0, StandingType DEF BumpsStand
    <2>3. /\ Shown(i, t).state = source[i].state /\ Shown(i, t).at = items[i].at
          /\ Shown(i, t).snoozed <=> Has(Standing(i, t), "snooze")
          /\ Shown(i, t).stale <=> GoneStale(i, t)
      BY <2>1, <2>2 DEF Shown, GoneStale
    <2>4. Queued(Shown(i, t), now) <=>
             /\ NeedsAttention(source[i].state)
             /\ ~Has(Standing(i, t), "snooze")
             /\ ~GoneStale(i, t)
             /\ ~LongDone(i, now)
      BY <2>3 DEF Queued, LongDone
    <2> QED
      BY <2>1, <2>4
  <1>3. listed \subseteq asking
    BY <1>1, <1>2
  <1>4. now \in Nat
    BY <1>0 DEF TypeOK
  <1>5. ASSUME NEW i \in listed
        PROVE  /\ ~MustDefer(i, t) /\ ~GoneStale(i, t) /\ ~LongDone(i, now)
    <2>1. i \in Ids /\ items[i] # Absent /\ Queued(Shown(i, t), now)
      BY <1>1
    <2>2. ~Has(Standing(i, t), "snooze") /\ ~GoneStale(i, t) /\ ~LongDone(i, now)
      BY <1>2, <2>1
    <2>3. ~MustDefer(i, t)
      BY <1>0, <1>4, <2>1, <2>2, SnoozeSurvives DEF SnoozesFit
    <2> QED
      BY <2>2, <2>3
  <1>6. ASSUME NEW i \in asking \ listed
        PROVE  MayDefer(i, t) \/ GoneStale(i, t) \/ LongDone(i, now)
    <2>1. i \in Ids /\ items[i] # Absent /\ NeedsAttention(source[i].state)
      BY <1>0, <1>6 DEF StoredAsReported
    <2>2. ~Queued(Shown(i, t), now)
      BY <1>1, <1>6, <2>1
    <2>3. Has(Standing(i, t), "snooze") \/ GoneStale(i, t) \/ LongDone(i, now)
      BY <1>2, <2>1, <2>2
    <2>4. Has(Standing(i, t), "snooze") => MayDefer(i, t)
      BY <1>0, <2>1, SnoozeShown DEF SnoozesFit
    <2> QED
      BY <2>3, <2>4
  <1>7. /\ reply'.from = now /\ reply'.to = t /\ Listed(reply') = listed
        /\ UNCHANGED <<items, source, said>>
    BY DEF Reads, history, Listed
  <1>8. /\ \A i \in Ids, u \in {now, t} :
              /\ MustDefer(i, u)' <=> MustDefer(i, u)
              /\ MayDefer(i, u)' <=> MayDefer(i, u)
              /\ GoneStale(i, u)' <=> GoneStale(i, u)
              /\ LongDone(i, u)' <=> LongDone(i, u)
    BY <1>7 DEF MustDefer, MayDefer, GoneStale, LongDone, Told, StillTime
  <1> HIDE DEF listed
  <1> QED
    BY <1>1, <1>3, <1>5, <1>6, <1>7, <1>8 DEF QueueIsWhatNeedsYou

(* Every step keeps the snoozes in line with what was said, and the queue. *)
LEMMA QueueStep == OrderInv /\ QueueInv /\ [Next]_vars => QueueInv'
  <1> SUFFICES ASSUME OrderInv, QueueInv, [Next]_vars PROVE QueueInv'
    OBVIOUS
  <1> USE DEF QueueInv, SnoozesFit
  <1>0. TypeOK /\ now \in Nat /\ \A t \in Moments : t \in Nat /\ now <= t
    BY DEF OrderInv, TypeOK, Moments
  <1>1. ASSUME reply' = NoReply, \A j \in Ids : SnoozeFits(j)' PROVE QueueInv'
    BY <1>1 DEF QueueIsWhatNeedsYou
  <1>2. ASSUME NEW i \in Ids, Withdraw(i) PROVE QueueInv'
    <2>1. \A j \in Ids : SnoozeFits(j)'
      BY <1>0, <1>2, OthersFit DEF Withdraw, TypeOK
    <2> QED
      BY <1>1, <1>2, <2>1 DEF Withdraw
  <1>3. ASSUME NEW i \in Ids, Clear(i) PROVE QueueInv'
    <2>1. SnoozeFits(i)'
      <3>1. decisions'[i] = NoDecision /\ said'[i] = NoDecision
            /\ items' = items /\ source' = source
        BY <1>0, <1>3 DEF Clear, TypeOK
      <3> QED
        BY <3>1 DEF SnoozeFits, Has, Told, MustDefer
    <2>2. ASSUME NEW j \in Ids, j # i PROVE SnoozeFits(j)'
      BY <1>0, <1>3, <2>2, OthersFit DEF Clear, TypeOK
    <2> QED
      BY <1>1, <1>3, <2>1, <2>2 DEF Clear
  <1>4. ASSUME NEW i \in Ids, NEW w \in Works, Report(i, w) PROVE QueueInv'
    <2>1. SnoozeFits(i)'
      BY <1>4, ReportFits
    <2>2. ASSUME NEW j \in Ids, j # i PROVE SnoozeFits(j)'
      <3>1. said'[j] = said[j]
        BY <1>0, <1>4, <2>2 DEF Report, Moved, TypeOK
      <3>2. items'[j] = items[j] /\ source'[j] = source[j] /\ now' = now /\ decisions' = decisions
        BY <1>0, <1>4, <2>2 DEF Report, TypeOK
      <3> QED
        BY <1>0, <3>1, <3>2, OthersFit
    <2> QED
      BY <1>1, <1>4, <2>1, <2>2 DEF Report
  <1>5. ASSUME NEW i \in Ids, NEW kind \in {"snooze", "bump"},
               NEW until \in Deadlines \cup {NoDeadline}, Decide(i, kind, until)
        PROVE  QueueInv'
    <2>1. SnoozeFits(i)'
      BY <1>5, DecideFits
    <2>2. ASSUME NEW j \in Ids, j # i PROVE SnoozeFits(j)'
      <3>1. decisions'[j] = decisions[j] /\ said'[j] = said[j]
        BY <1>0, <1>5, <2>2 DEF Decide, TypeOK
      <3>2. items' = items /\ source' = source /\ now' = now
        BY <1>5 DEF Decide
      <3> QED
        BY <1>0, <3>1, <3>2, OthersFit
    <2> QED
      BY <1>1, <1>5, <2>1, <2>2 DEF Decide
  <1>6. CASE Tick
    <2>1. \A j \in Ids : SnoozeFits(j)'
      BY <1>0, <1>6, OthersFit DEF Tick, history
    <2> QED
      BY <1>1, <1>6, <2>1 DEF Tick
  <1>7. CASE ReadAttention
    <2>1. PICK t \in Moments :
             \E q \in Sorted({i \in Live(t) : Queued(i, now)}) :
                Reads("attention", t, t, q, 0, Len(q))
      BY <1>7 DEF ReadAttention
    <2>2. \A j \in Ids : SnoozeFits(j)'
      BY <1>0, <2>1, ReadFits
    <2>3. QueueIsWhatNeedsYou'
      BY <1>0, <2>1, AttentionIsWhatNeedsYou
    <2> QED
      BY <2>2, <2>3
  <1>8. ASSUME NEW list \in {"work", "stale"}, NEW t \in Moments, NEW q, NEW left, NEW asking,
               Reads(list, now, t, q, left, asking)
        PROVE  QueueInv'
    <2>1. \A j \in Ids : SnoozeFits(j)'
      BY <1>0, <1>8, ReadFits
    <2>2. reply'.list # "attention"
      BY <1>8 DEF Reads
    <2> QED
      BY <2>1, <2>2 DEF QueueIsWhatNeedsYou
  <1>9. CASE ReadBoard
    <2>1. PICK t \in Moments, q \in Sorted({i \in Live(now) : ~i.stale}) :
             \E left, asking : Reads("work", now, t, q, left, asking)
      BY <1>9 DEF ReadBoard
    <2> QED
      BY <1>8, <2>1
  <1>10. CASE ReadStale
    <2>1. PICK q : Reads("stale", now, now, q, Len(q), 0)
      BY <1>10 DEF ReadStale
    <2>2. now \in Moments
      BY <1>0, ListsAssumptions DEF Moments, TypeOK
    <2> QED
      BY <1>8, <2>1, <2>2
  <1>11. CASE UNCHANGED vars
    <2>1. \A j \in Ids : SnoozeFits(j)'
      BY <1>0, <1>11, OthersFit DEF vars, history
    <2>2. QueueIsWhatNeedsYou'
      BY <1>11 DEF vars, history, QueueIsWhatNeedsYou, Listed, MustDefer, MayDefer,
                   GoneStale, LongDone, Told, StillTime
    <2> QED
      BY <2>1, <2>2
  <1> QED
    BY <1>2, <1>3, <1>4, <1>5, <1>6, <1>7, <1>9, <1>10, <1>11 DEF Next

(* The queue holds the work that needs a human, minus what is snoozed,     *)
(* stale or done for too long, whatever was decided, taken back or has     *)
(* lapsed, and whenever the reads look at the clock.                       *)
THEOREM QueueKeepsItsPromise == Spec => []QueueIsWhatNeedsYou
  <1>1. Init => QueueInv
    BY DEF Init, QueueInv, SnoozesFit, SnoozeFits, QueueIsWhatNeedsYou, Has, Told, MustDefer
  <1>2. QueueInv => QueueIsWhatNeedsYou
    BY DEF QueueInv
  <1> QED
    BY OrderIsKept, <1>1, <1>2, QueueStep, PTL DEF Spec

-----------------------------------------------------------------------------
(* Two reads with nothing in between.                                      *)

(* The items live at a moment are finitely many, one for each id.          *)
LEMMA LiveType ==
    ASSUME OrderInv, NEW t \in Nat
    PROVE  /\ IsFiniteSet(Live(t)) /\ Live(t) \in SUBSET Served
           /\ \A a, b \in Live(t) : a.id = b.id => a = b
           /\ \A i \in Ids : items[i] # Absent =>
                 Shown(i, t) \in Live(t) /\ Shown(i, t).id = i
           /\ \A a \in Live(t) : /\ a.id \in Ids /\ items[a.id] # Absent
                                 /\ a = Shown(a.id, t)
  <1> DEFINE held == {i \in Ids : items[i] # Absent}
             f == [i \in held |-> Shown(i, t)]
  <1>1. IsFiniteSet(held)
    BY FS_Subset, ListsAssumptions
  <1>2. f \in Surjection(held, Live(t))
    BY DEF Surjection, Live
  <1>3. IsFiniteSet(Live(t))
    BY <1>1, <1>2, FS_Surjection
  <1>4. Live(t) \in SUBSET ShownItems
    BY ShownByUrgency DEF OrderInv
  <1>5. ShownItems \in SUBSET Served
    BY ListsAssumptions DEF ShownItems, Served
  <1>6. \A i \in Ids : Shown(i, t).id = i
    BY DEF Shown
  <1> QED
    BY <1>3, <1>4, <1>5, <1>6 DEF Live

(* A sorted list is a list of the set, each item once and after all that   *)
(* go before it.                                                           *)
LEMMA SortedIsStrict ==
    ASSUME OrderInv, NEW t \in Nat, NEW S \in SUBSET Live(t), NEW q \in Sorted(S)
    PROVE  /\ IsFiniteSet(S) /\ Cardinality(S) \in Nat
           /\ q \in [1..Cardinality(S) -> S] /\ Len(q) = Cardinality(S)
           /\ \A s \in S : \E j \in 1..Cardinality(S) : q[j] = s
           /\ \A j, k \in 1..Cardinality(S) : q[j] = q[k] => j = k
           /\ \A j, k \in 1..Cardinality(S) : j < k => Before(q[j], q[k])
  <1>1. IsFiniteSet(S) /\ Cardinality(S) \in Nat
    BY LiveType, FS_Subset, FS_CardinalityType
  <1>2. /\ q \in [1..Cardinality(S) -> S]
        /\ \A j, k \in 1..Cardinality(S) : j # k => q[j] # q[k]
        /\ \A j, k \in DOMAIN q : j < k => ~Before(q[k], q[j])
    BY DEF Sorted, SetToSeqs
  <1>3. Len(q) = Cardinality(S)
    BY <1>1, <1>2
  <1>4. ASSUME NEW j \in 1..Cardinality(S), NEW k \in 1..Cardinality(S), j < k
        PROVE  Before(q[j], q[k])
    <2>1. q[j] \in S /\ q[k] \in S /\ q[j] # q[k] /\ ~Before(q[k], q[j])
      BY <1>1, <1>2, <1>4
    <2>2. q[j] \in Served /\ q[k] \in Served /\ q[j].id # q[k].id
      BY <2>1, LiveType
    <2> QED
      BY <2>1, <2>2, OrderIsTotal
  <1>5. \A s \in S : \E j \in DOMAIN q : q[j] = s
    BY SortedIsComplete
  <1> QED
    BY <1>1, <1>2, <1>3, <1>4, <1>5

(* The place of an item in a sorted list is how many go before it.         *)
LEMMA PlaceIsRank ==
    ASSUME OrderInv, NEW t \in Nat, NEW S \in SUBSET Live(t), NEW q \in Sorted(S),
           NEW j \in 1..Cardinality(S)
    PROVE  Cardinality({y \in S : Before(y, q[j])}) = j - 1
  <1> DEFINE n == Cardinality(S)
             ahead == {y \in S : Before(y, q[j])}
             f == [k \in 1..(j - 1) |-> q[k]]
  <1>1. /\ n \in Nat /\ q \in [1..n -> S]
        /\ \A s \in S : \E k \in 1..n : q[k] = s
        /\ \A a, b \in 1..n : q[a] = q[b] => a = b
        /\ \A a, b \in 1..n : a < b => Before(q[a], q[b])
    BY SortedIsStrict
  <1>2. S \in SUBSET Served
    BY LiveType
  <1>3. j \in 1..n /\ j \in Nat /\ j - 1 \in Nat
    BY <1>1
  <1> HIDE DEF n
  <1>4. \A k \in 1..(j - 1) : k \in 1..n /\ k < j
    BY <1>1, <1>3
  <1>5. \A k \in 1..(j - 1) : q[k] \in ahead
    BY <1>1, <1>3, <1>4
  <1>6. ASSUME NEW y \in ahead PROVE \E k \in 1..(j - 1) : q[k] = y
    <2>1. PICK k \in 1..n : q[k] = y
      BY <1>1
    <2>2. Before(q[k], q[j]) /\ q[k] \in Served /\ q[j] \in Served
      BY <1>1, <1>2, <1>3, <2>1
    <2>3. k # j /\ ~Before(q[j], q[k])
      BY <2>2, OrderIsTotal
    <2>4. ~(j < k)
      BY <1>1, <1>3, <2>3
    <2>5. k \in 1..(j - 1)
      BY <1>1, <1>3, <2>3, <2>4
    <2> QED
      BY <2>1, <2>5
  <1>7. f \in Surjection(1..(j - 1), ahead)
    <2>1. f \in [1..(j - 1) -> ahead]
      BY <1>5
    <2>2. \A y \in ahead : \E k \in 1..(j - 1) : f[k] = y
      BY <1>6
    <2> QED
      BY <2>1, <2>2 DEF Surjection
  <1>8. f \in Injection(1..(j - 1), ahead)
    <2>1. f \in [1..(j - 1) -> ahead]
      BY <1>5
    <2>2. \A a, b \in 1..(j - 1) : f[a] = f[b] => a = b
      BY <1>1, <1>4
    <2> QED
      BY <2>1, <2>2 DEF Injection, IsInjective
  <1>9. IsFiniteSet(1..(j - 1)) /\ Cardinality(1..(j - 1)) = j - 1
    BY <1>3, FS_Interval
  <1> HIDE DEF f, ahead
  <1>10. Cardinality(ahead) = j - 1
    BY <1>7, <1>8, <1>9, FS_Surjection
  <1> QED
    BY <1>10 DEF ahead

(* There is one way to sort a set of items: the order of the map they were *)
(* taken from does not show.                                               *)
LEMMA SortedIsUnique ==
    ASSUME OrderInv, NEW t \in Nat, NEW S \in SUBSET Live(t),
           NEW q \in Sorted(S), NEW r \in Sorted(S)
    PROVE  q = r
  <1>1. /\ Cardinality(S) \in Nat
        /\ q \in [1..Cardinality(S) -> S] /\ r \in [1..Cardinality(S) -> S]
        /\ \A s \in S : \E j \in 1..Cardinality(S) : r[j] = s
    BY SortedIsStrict
  <1>2. ASSUME NEW j \in 1..Cardinality(S) PROVE q[j] = r[j]
    <2>1. PICK k \in 1..Cardinality(S) : r[k] = q[j]
      BY <1>1
    <2>2. Cardinality({y \in S : Before(y, q[j])}) = j - 1
      BY PlaceIsRank
    <2>3. Cardinality({y \in S : Before(y, r[k])}) = k - 1
      BY PlaceIsRank
    <2>4. j = k
      BY <1>1, <2>1, <2>2, <2>3
    <2> QED
      BY <2>1, <2>4
  <1> QED
    BY <1>1, <1>2

(* What a list made at t offers, and the counts that go with it.           *)
Offered(list, t) ==
    IF list = "attention" THEN {i \in Live(t) : Queued(i, t)}
    ELSE IF list = "work" THEN {i \in Live(t) : ~i.stale}
    ELSE {i \in Live(t) : i.stale}

LeftOut(list, t) ==
    IF list = "attention" THEN 0 ELSE Cardinality({i \in Live(t) : i.stale})

Asking(list, t) ==
    IF list = "stale" THEN 0 ELSE Cardinality({i \in Live(t) : Queued(i, t)})

(* r is a reply made at t. *)
MadeAt(r, t) ==
    /\ r.items \in Sorted(Offered(r.list, t))
    /\ r = [list |-> r.list, from |-> t, to |-> t, items |-> r.items,
            stale |-> LeftOut(r.list, t), attention |-> Asking(r.list, t)]

(* A reply is as old as the clock, and if it was made in an instant it is  *)
(* what would be made now.                                                 *)
ReplyIsNow ==
    reply # NoReply =>
        /\ reply.to = now
        /\ Instant(reply) => MadeAt(reply, now)

(* A read made in an instant, from the state it was made in; it leaves the *)
(* decisions that stood.                                                   *)
LEMMA ReadMakes ==
    ASSUME OrderInv, ReadAttention \/ ReadBoard \/ ReadStale
    PROVE  /\ reply'.to = now' /\ reply'.from = now
           /\ items' = items /\ source' = source /\ now' \in Nat
           /\ Instant(reply') =>
                 /\ now' = now /\ MadeAt(reply', now)
                 /\ decisions' = [i \in Ids |-> Standing(i, now)]
  <1>1. now \in Nat /\ now \in 1..MaxTime /\ \A t \in Moments : t \in Nat
    BY ListsAssumptions DEF OrderInv, TypeOK, Moments
  <1>2. \A S \in SUBSET Live(now) : \A q \in Sorted(S) : Len(q) = Cardinality(S)
    BY <1>1, SortedIsStrict
  <1>3. CASE ReadAttention
    <2>0. PICK t \in Moments :
              \E q \in Sorted({i \in Live(t) : Queued(i, now)}) :
                  Reads("attention", t, t, q, 0, Len(q))
      BY <1>3 DEF ReadAttention
    <2>1. PICK q \in Sorted({i \in Live(t) : Queued(i, now)}) :
              Reads("attention", t, t, q, 0, Len(q))
      BY <2>0
    <2>2. /\ reply' = [list |-> "attention", from |-> now, to |-> t, items |-> q,
                       stale |-> 0, attention |-> Len(q)]
          /\ now' = t /\ items' = items /\ source' = source
          /\ decisions' = [i \in Ids |-> Standing(i, t)]
      BY <2>1 DEF Reads, history
    <2>3. ASSUME t = now PROVE MadeAt(reply', now)
      <3>1. q \in Sorted({i \in Live(now) : Queued(i, now)})
        BY <2>1, <2>3
      <3>2. Len(q) = Cardinality({i \in Live(now) : Queued(i, now)})
        BY <1>2, <3>1
      <3> QED
        BY <2>2, <2>3, <3>1, <3>2 DEF MadeAt, Offered, LeftOut, Asking
    <2> QED
      BY <1>1, <2>2, <2>3 DEF Instant
  <1>4. CASE ReadBoard
    <2> DEFINE kept == {i \in Live(now) : ~i.stale}
    <2>1. PICK t \in Moments, q \in Sorted(kept) :
              Reads("work", now, t, q, Cardinality(Live(now) \ kept),
                    Cardinality({i \in kept : Queued(i, t)}))
      BY <1>4 DEF ReadBoard
    <2>2. /\ reply' = [list |-> "work", from |-> now, to |-> t, items |-> q,
                       stale |-> Cardinality(Live(now) \ kept),
                       attention |-> Cardinality({i \in kept : Queued(i, t)})]
          /\ now' = t /\ items' = items /\ source' = source
          /\ decisions' = [i \in Ids |-> Standing(i, now)]
      BY <2>1 DEF Reads, history
    <2>3. /\ Live(now) \ kept = {i \in Live(now) : i.stale}
          /\ {i \in kept : Queued(i, now)} = {i \in Live(now) : Queued(i, now)}
      BY DEF Queued
    <2>4. ASSUME t = now PROVE MadeAt(reply', now)
      BY <2>1, <2>2, <2>3, <2>4 DEF MadeAt, Offered, LeftOut, Asking
    <2> QED
      BY <1>1, <2>2, <2>4 DEF Instant
  <1>5. CASE ReadStale
    <2>1. PICK q \in Sorted({i \in Live(now) : i.stale}) :
              Reads("stale", now, now, q, Len(q), 0)
      BY <1>5 DEF ReadStale
    <2>2. /\ reply' = [list |-> "stale", from |-> now, to |-> now, items |-> q,
                       stale |-> Len(q), attention |-> 0]
          /\ now' = now /\ items' = items /\ source' = source
          /\ decisions' = [i \in Ids |-> Standing(i, now)]
      BY <2>1 DEF Reads, history
    <2>3. Len(q) = Cardinality({i \in Live(now) : i.stale})
      BY <1>2, <2>1
    <2>4. MadeAt(reply', now)
      BY <2>1, <2>2, <2>3 DEF MadeAt, Offered, LeftOut, Asking
    <2> QED
      BY <1>1, <2>2, <2>4 DEF Instant
  <1> QED
    BY <1>3, <1>4, <1>5

(* A decision that survived a read survives another at the same moment, so *)
(* the same is live.                                                       *)
LEMMA LiveStays ==
    ASSUME OrderInv, NEW t, items' = items,
           decisions' = [i \in Ids |-> Standing(i, t)]
    PROVE  Live(t)' = Live(t)
  <1>1. ASSUME NEW i \in Ids, items[i] # Absent PROVE Standing(i, t)' = Standing(i, t)
    BY DEF Standing, Spent
  <1>2. ASSUME NEW i \in Ids, items[i] # Absent PROVE Shown(i, t)' = Shown(i, t)
    <2>1. Standing(i, t)' = Standing(i, t)
      BY <1>1, <1>2
    <2> QED
      BY <2>1 DEF Shown
  <1> QED
    BY <1>2 DEF Live

(* The kinds of step there are. *)
LEMMA StepReadsOrChanges ==
    ASSUME [Next]_vars
    PROVE  \/ reply' = NoReply
           \/ ReadAttention \/ ReadBoard \/ ReadStale
           \/ UNCHANGED vars
  BY DEF Next, Withdraw, Clear, Report, Decide, Tick

(* Every step keeps a reply what it would be now, or leaves none.          *)
LEMMA StepReplyIsNow ==
    ASSUME OrderInv, ReplyIsNow, [Next]_vars
    PROVE  ReplyIsNow'
  <1>1. CASE reply' = NoReply
    BY <1>1 DEF ReplyIsNow
  <1>2. CASE ReadAttention \/ ReadBoard \/ ReadStale
    <2>1. /\ reply'.to = now' /\ items' = items
          /\ Instant(reply') =>
                /\ now' = now /\ MadeAt(reply', now)
                /\ decisions' = [i \in Ids |-> Standing(i, now)]
      BY <1>2, ReadMakes
    <2>2. ASSUME Instant(reply') PROVE MadeAt(reply, now)'
      <3>1. PICK t : t = now
        OBVIOUS
      <3>2. Live(t)' = Live(t)
        BY <2>1, <2>2, <3>1, LiveStays
      <3>3. \A list : /\ Offered(list, t)' = Offered(list, t)
                      /\ LeftOut(list, t)' = LeftOut(list, t)
                      /\ Asking(list, t)' = Asking(list, t)
        BY <3>2 DEF Offered, LeftOut, Asking
      <3>4. PICK r : r = reply'
        OBVIOUS
      <3>5. MadeAt(r, t)
        BY <2>1, <2>2, <3>1, <3>4
      <3>6. MadeAt(r, t)'
        BY <3>3, <3>5 DEF MadeAt
      <3> QED
        BY <2>1, <2>2, <3>1, <3>4, <3>6 DEF MadeAt
    <2> QED
      BY <2>1, <2>2 DEF ReplyIsNow, Instant, MadeAt
  <1>3. CASE UNCHANGED vars
    BY <1>3 DEF vars, ReplyIsNow, MadeAt, Offered, LeftOut, Asking, Live, Shown, Standing
  <1> QED
    BY <1>1, <1>2, <1>3, StepReadsOrChanges

(* Two replies of one moment, with nothing in between, were made from the  *)
(* same items.                                                             *)
LEMMA BothMadeNow ==
    ASSUME OrderInv, ReplyIsNow, ReadAttention \/ ReadBoard \/ ReadStale,
           reply # NoReply, Instant(reply), Instant(reply')
    PROVE  MadeAt(reply, now) /\ MadeAt(reply', now)
  BY ReadMakes DEF ReplyIsNow

(* A list is made of items live at its moment. *)
LEMMA OfferedIsLive ==
    ASSUME NEW list, NEW t
    PROVE  Offered(list, t) \in SUBSET Live(t)
  BY DEF Offered

(* A list read twice, with nothing and no time in between, is the same     *)
(* list, item for item and with the same counts, for any items, labels and *)
(* decisions: however the map of items is walked.                          *)
THEOREM TwiceIsTheSame == Spec => ReadTwiceIsTheSame
  <1>1. Init => OrderInv /\ ReplyIsNow
    BY InitOrder DEF Init, ReplyIsNow
  <1>2. OrderInv /\ ReplyIsNow /\ [Next]_vars => OrderInv' /\ ReplyIsNow'
    BY StepKeepsOrder, StepReplyIsNow
  <1>3. OrderInv /\ ReplyIsNow /\ [Next]_vars =>
            [(/\ reply # NoReply /\ reply' # NoReply
              /\ reply'.list = reply.list
              /\ Instant(reply) /\ Instant(reply') /\ reply'.from = reply.from)
             => reply' = reply]_vars
    <2> SUFFICES ASSUME OrderInv, ReplyIsNow, Next, ~UNCHANGED vars,
                        reply # NoReply, reply' # NoReply, reply'.list = reply.list,
                        Instant(reply), Instant(reply')
                 PROVE  reply' = reply
      OBVIOUS
    <2>1. ReadAttention \/ ReadBoard \/ ReadStale
      BY StepReadsOrChanges
    <2>2. MadeAt(reply, now) /\ MadeAt(reply', now)
      BY <2>1, BothMadeNow
    <2>3. now \in Nat
      BY ListsAssumptions DEF OrderInv, TypeOK
    <2>4. reply.items = reply'.items
      <3>1. PICK S : S = Offered(reply.list, now)
        OBVIOUS
      <3>2. /\ S \in SUBSET Live(now)
            /\ reply.items \in Sorted(S) /\ reply'.items \in Sorted(S)
        BY <2>2, <3>1, OfferedIsLive DEF MadeAt
      <3> QED
        BY <2>3, <3>2, SortedIsUnique
    <2> QED
      BY <2>2, <2>4 DEF MadeAt
  <1> QED
    BY <1>1, <1>2, <1>3, PTL DEF Spec, ReadTwiceIsTheSame

(* What is listed is what was offered. *)
LEMMA ListedIsOffered ==
    ASSUME OrderInv, NEW t \in Nat, NEW r, MadeAt(r, t)
    PROVE  /\ \A i : i \in Listed(r) <=>
                /\ i \in Ids /\ items[i] # Absent /\ Shown(i, t) \in Offered(r.list, t)
           /\ Len(r.items) = Cardinality(Offered(r.list, t))
           /\ r.stale = LeftOut(r.list, t) /\ r.attention = Asking(r.list, t)
  <1>1. PICK S : S = Offered(r.list, t)
    OBVIOUS
  <1>2. PICK q : q = r.items
    OBVIOUS
  <1>3. S \in SUBSET Live(t) /\ q \in Sorted(S)
    BY <1>1, <1>2, OfferedIsLive DEF MadeAt
  <1>4. /\ q \in [1..Cardinality(S) -> S] /\ Len(q) = Cardinality(S)
        /\ \A s \in S : \E j \in 1..Cardinality(S) : q[j] = s
    BY <1>3, SortedIsStrict
  <1>5. /\ \A a \in S : a.id \in Ids /\ items[a.id] # Absent /\ a = Shown(a.id, t)
        /\ \A i \in Ids : items[i] # Absent => Shown(i, t).id = i
    BY <1>3, LiveType
  <1>6. \A j \in DOMAIN q : q[j] \in S
    BY <1>4
  <1>7. Listed(r) = {q[j].id : j \in DOMAIN q}
    BY <1>2 DEF Listed
  <1>8. ASSUME NEW i \in Listed(r)
        PROVE  i \in Ids /\ items[i] # Absent /\ Shown(i, t) \in S
    <2>1. PICK j \in DOMAIN q : i = q[j].id
      BY <1>7
    <2> QED
      BY <1>5, <1>6, <2>1
  <1>9. ASSUME NEW i \in Ids, items[i] # Absent, Shown(i, t) \in S
        PROVE  i \in Listed(r)
    <2>1. PICK j \in DOMAIN q : q[j] = Shown(i, t)
      BY <1>4, <1>9
    <2>2. q[j].id = i
      BY <1>5, <1>9, <2>1
    <2> QED
      BY <1>7, <2>2
  <1>10. r.stale = LeftOut(r.list, t) /\ r.attention = Asking(r.list, t)
    BY DEF MadeAt
  <1> QED
    BY <1>1, <1>2, <1>4, <1>8, <1>9, <1>10

(* What the board leaves out is on the list of the stale and nowhere else, *)
(* the queue is part of the board, and the counts the board carries are    *)
(* the lengths of the other two lists, if no time passes between the reads.*)
THEOREM ListsFitTogether == Spec => ListsAddUp
  <1>1. Init => OrderInv /\ ReplyIsNow
    BY InitOrder DEF Init, ReplyIsNow
  <1>2. OrderInv /\ ReplyIsNow /\ [Next]_vars => OrderInv' /\ ReplyIsNow'
    BY StepKeepsOrder, StepReplyIsNow
  <1>3. OrderInv /\ ReplyIsNow /\ [Next]_vars =>
            [(/\ reply # NoReply /\ reply' # NoReply
              /\ reply.list = "work"
              /\ Instant(reply) /\ Instant(reply') /\ reply'.from = reply.from)
             => /\ reply'.list = "stale" =>
                      /\ Listed(reply) \cap Listed(reply') = {}
                      /\ Listed(reply) \cup Listed(reply') = {i \in Ids : source[i] # Absent}
                      /\ reply.stale = Len(reply'.items)
                /\ reply'.list = "attention" =>
                      /\ Listed(reply') \subseteq Listed(reply)
                      /\ reply.attention = Len(reply'.items)]_vars
    <2> SUFFICES ASSUME OrderInv, ReplyIsNow, Next, ~UNCHANGED vars,
                        reply # NoReply, reply' # NoReply, reply.list = "work",
                        Instant(reply), Instant(reply')
                 PROVE  /\ reply'.list = "stale" =>
                              /\ Listed(reply) \cap Listed(reply') = {}
                              /\ Listed(reply) \cup Listed(reply')
                                    = {i \in Ids : source[i] # Absent}
                              /\ reply.stale = Len(reply'.items)
                        /\ reply'.list = "attention" =>
                              /\ Listed(reply') \subseteq Listed(reply)
                              /\ reply.attention = Len(reply'.items)
      OBVIOUS
    <2>1. ReadAttention \/ ReadBoard \/ ReadStale
      BY StepReadsOrChanges
    <2>2. MadeAt(reply, now) /\ MadeAt(reply', now) /\ now \in Nat
      BY <2>1, BothMadeNow, ListsAssumptions DEF OrderInv, TypeOK
    <2>3. PICK r : r = reply'
      OBVIOUS
    <2>4. \A i \in Ids : items[i] # Absent => Shown(i, now) \in Live(now)
      BY <2>2, LiveType
    <2>5. /\ \A i : i \in Listed(reply) <=>
                /\ i \in Ids /\ items[i] # Absent /\ ~Shown(i, now).stale
          /\ reply.stale = Cardinality({a \in Live(now) : a.stale})
          /\ reply.attention = Cardinality({a \in Live(now) : Queued(a, now)})
      <3>1. /\ Offered(reply.list, now) = {a \in Live(now) : ~a.stale}
            /\ LeftOut(reply.list, now) = Cardinality({a \in Live(now) : a.stale})
            /\ Asking(reply.list, now) = Cardinality({a \in Live(now) : Queued(a, now)})
        BY DEF Offered, LeftOut, Asking
      <3>2. /\ \A i : i \in Listed(reply) <=>
                  /\ i \in Ids /\ items[i] # Absent
                  /\ Shown(i, now) \in Offered(reply.list, now)
            /\ reply.stale = LeftOut(reply.list, now)
            /\ reply.attention = Asking(reply.list, now)
        BY <2>2, ListedIsOffered
      <3> QED
        BY <2>4, <3>1, <3>2
    <2>6. /\ \A i : i \in Listed(r) <=>
                /\ i \in Ids /\ items[i] # Absent
                /\ Shown(i, now) \in Offered(r.list, now)
          /\ Len(r.items) = Cardinality(Offered(r.list, now))
      BY <2>2, <2>3, ListedIsOffered
    <2>7. ASSUME r.list = "stale"
          PROVE  /\ Listed(reply) \cap Listed(r) = {}
                 /\ Listed(reply) \cup Listed(r) = {i \in Ids : source[i] # Absent}
                 /\ reply.stale = Len(r.items)
      <3>1. Offered(r.list, now) = {a \in Live(now) : a.stale}
        BY <2>7 DEF Offered
      <3>2. \A i \in Ids : items[i] = Absent <=> source[i] = Absent
        BY DEF OrderInv, StoredAsReported
      <3>3. \A i : i \in Listed(r) <=>
               i \in Ids /\ items[i] # Absent /\ Shown(i, now).stale
        BY <2>4, <2>6, <3>1
      <3> QED
        BY <2>5, <2>6, <3>1, <3>2, <3>3
    <2>8. ASSUME r.list = "attention"
          PROVE  Listed(r) \subseteq Listed(reply) /\ reply.attention = Len(r.items)
      <3>1. Offered(r.list, now) = {a \in Live(now) : Queued(a, now)}
        BY <2>8 DEF Offered
      <3>2. \A a \in Offered(r.list, now) : ~a.stale
        BY <3>1 DEF Queued
      <3> QED
        BY <2>5, <2>6, <3>1, <3>2
    <2> QED
      BY <2>3, <2>7, <2>8
  <1> QED
    BY <1>1, <1>2, <1>3, PTL DEF Spec, ListsAddUp

=============================================================================
