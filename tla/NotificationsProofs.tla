------------------------- MODULE NotificationsProofs -------------------------
(***************************************************************************)
(* Theorems about Notifications, for any items, readings, writers, queue   *)
(* and cooldown.  The two about announcements are for items with a single  *)
(* writer each, as an adapter's items have; NotifySharedItem shows that    *)
(* two writers of one item can break the second.                           *)
(***************************************************************************)
EXTENDS Notifications, FiniteSetTheorems, TLAPS

(* Each item is written by one goroutine only.                             *)
OneWriterEach ==
    \A p, q \in Procs : p # q => WrittenBy[p] \intersect WrittenBy[q] = {}

-----------------------------------------------------------------------------
(* The list made of a set holds every member of it once.                   *)
LEMMA ListOfSet ==
    ASSUME NEW S, IsFiniteSet(S)
    PROVE  /\ SetToSeq(S) \in Seq(S)
           /\ \A s \in S : \E k \in 1..Len(SetToSeq(S)) : SetToSeq(S)[k] = s
           /\ \A j, k \in 1..Len(SetToSeq(S)) :
                 SetToSeq(S)[j] = SetToSeq(S)[k] => j = k
  <1> DEFINE n == Cardinality(S)
             lists == {f \in [1..n -> S] : IsInjective(f)}
  <1>1. n \in Nat /\ ExistsBijection(1..n, S)
    BY FS_CardinalityType
  <1>2. PICK f \in Bijection(1..n, S) : TRUE
    BY <1>1 DEF ExistsBijection
  <1>3. f \in [1..n -> S] /\ IsInjective(f)
    BY <1>2 DEF Bijection, Injection, Surjection, IsInjective
  <1>4. SetToSeq(S) \in [1..n -> S] /\ IsInjective(SetToSeq(S))
    BY <1>3 DEF SetToSeq
  <1>5. SetToSeq(S) \in Injection(1..n, S)
    BY <1>4 DEF Injection, IsInjective
  <1>6. IsFiniteSet(1..n) /\ Cardinality(1..n) = n
    BY <1>1, FS_Interval
  <1>7. SetToSeq(S) \in Surjection(1..n, S)
    BY <1>1, <1>5, <1>6, FS_Injection
  <1>8. SetToSeq(S) \in Seq(S) /\ Len(SetToSeq(S)) = n
    BY <1>1, <1>4
  <1> QED
    BY <1>4, <1>7, <1>8 DEF Surjection, IsInjective

(* What a write that leaves the store holding `next` does to the rest.     *)
Writing(p, next) ==
    /\ items' = next
    /\ Changing(next) \subseteq WrittenBy[p] \intersect Items
    /\ \A i \in Changing(next) : writes[i] < MaxWrites
    /\ flight'[p] = SetToSeq({Transition(i, next[i]) : i \in Changing(next)})
    /\ flight' = [flight EXCEPT ![p] = flight'[p]]
    /\ writes' = [i \in Items |-> writes[i] + IF i \in Changing(next) THEN 1 ELSE 0]
    /\ worked' = [i \in Items |-> worked[i] \cup
                    IF i \in Changing(next) /\ next[i].works THEN {writes[i] + 1} ELSE {}]
    /\ news' = [i \in Items |->
                  IF i \in Changing(next) /\ IsNews(i, next[i])
                  THEN [label |-> next[i].label, n |-> writes[i] + 1, at |-> now]
                  ELSE news[i]]

(* A write lists one transition for each item it changes, and changes only *)
(* what is its own to write.                                               *)
LEMMA WriteSays ==
    ASSUME TypeOK, NEW p \in Procs, Write(p)
    PROVE  \E next \in [Items -> Readings \cup {Absent}] : Writing(p, next)
  <1>1. WrittenBy[p] \subseteq Items
    BY NotificationAssumptions
  <1>2. PICK own \in [WrittenBy[p] -> Readings \cup {Absent}] :
          LET next == [i \in Items |-> IF i \in WrittenBy[p] THEN own[i] ELSE items[i]] IN
          /\ \A i \in Changing(next) : writes[i] < MaxWrites
          /\ items' = next
          /\ flight' = [flight EXCEPT ![p] =
                          SetToSeq({Transition(i, next[i]) : i \in Changing(next)})]
          /\ writes' = [i \in Items |-> writes[i] + IF i \in Changing(next) THEN 1 ELSE 0]
          /\ worked' = [i \in Items |-> worked[i] \cup
                          IF i \in Changing(next) /\ next[i].works THEN {writes[i] + 1} ELSE {}]
          /\ news' = [i \in Items |->
                        IF i \in Changing(next) /\ IsNews(i, next[i])
                        THEN [label |-> next[i].label, n |-> writes[i] + 1, at |-> now]
                        ELSE news[i]]
    BY DEF Write
  <1> DEFINE next == [i \in Items |-> IF i \in WrittenBy[p] THEN own[i] ELSE items[i]]
  <1>3. next \in [Items -> Readings \cup {Absent}]
    BY <1>1 DEF TypeOK
  <1>4. Changing(next) \subseteq WrittenBy[p] \intersect Items
    BY DEF Changing
  <1>5. flight'[p] = SetToSeq({Transition(i, next[i]) : i \in Changing(next)})
    BY <1>2 DEF TypeOK
  <1>6. flight' = [flight EXCEPT ![p] = flight'[p]]
    BY <1>2, <1>5
  <1> HIDE DEF next
  <1> QED
    BY <1>2, <1>3, <1>4, <1>5, <1>6 DEF next, Writing

(* The transitions a write lists, one of each item it changed.             *)
LEMMA WriteLists ==
    ASSUME TypeOK, NEW next \in [Items -> Readings \cup {Absent}],
           \A i \in Changing(next) : writes[i] < MaxWrites,
           NEW q, q = SetToSeq({Transition(i, next[i]) : i \in Changing(next)})
    PROVE  /\ q \in Seq(Transitions)
           /\ \A k \in 1..Len(q) : /\ q[k].item \in Changing(next)
                                   /\ q[k] = Transition(q[k].item, next[q[k].item])
           /\ \A i \in Changing(next) : \E k \in 1..Len(q) : q[k].item = i
           /\ \A j, k \in 1..Len(q) : q[j].item = q[k].item => j = k
  <1> DEFINE f == [i \in Changing(next) |-> Transition(i, next[i])]
             S == {Transition(i, next[i]) : i \in Changing(next)}
  <1>1. IsFiniteSet(Changing(next))
    BY FS_Subset, NotificationAssumptions DEF Changing
  <1>2. f \in Surjection(Changing(next), S)
    BY DEF Surjection
  <1>3. IsFiniteSet(S)
    BY <1>1, <1>2, FS_Surjection
  <1>4. /\ q \in Seq(S)
        /\ \A s \in S : \E k \in 1..Len(q) : q[k] = s
        /\ \A j, k \in 1..Len(q) : q[j] = q[k] => j = k
    BY <1>3, ListOfSet
  <1>5. \A i \in Changing(next) :
           Transition(i, next[i]) \in Transitions /\ Transition(i, next[i]).item = i
    <2> SUFFICES ASSUME NEW i \in Changing(next)
                 PROVE  /\ Transition(i, next[i]) \in Transitions
                        /\ Transition(i, next[i]).item = i
      OBVIOUS
    <2>1. i \in Items /\ next[i] \in Readings /\ items[i] \in Readings \cup {Absent}
      BY DEF Changing, TypeOK
    <2>2. writes[i] + 1 \in 1..MaxWrites
      BY <2>1, NotificationAssumptions DEF TypeOK
    <2>3. Covered(i, next[i]) \in BOOLEAN
      BY DEF Covered
    <2> QED
      BY <2>1, <2>2, <2>3 DEF Transition, Transitions
  <1>6. \A k \in 1..Len(q) : \E i \in Changing(next) : q[k] = Transition(i, next[i])
    <2>1. \A k \in 1..Len(q) : q[k] \in S
      <3> HIDE DEF S
      <3> QED
        BY <1>4
    <2> QED
      BY <2>1
  <1>7. S \subseteq Transitions
    BY <1>5
  <1>8. q \in Seq(Transitions)
    BY <1>4, <1>7
  <1>9. \A i \in Changing(next) : \E k \in 1..Len(q) : q[k].item = i
    <2> SUFFICES ASSUME NEW i \in Changing(next)
                 PROVE  \E k \in 1..Len(q) : q[k].item = i
      OBVIOUS
    <2>1. PICK k \in 1..Len(q) : q[k] = Transition(i, next[i])
      BY <1>4
    <2> QED
      BY <1>5, <2>1
  <1>10. \A k \in 1..Len(q) : /\ q[k].item \in Changing(next)
                              /\ q[k] = Transition(q[k].item, next[q[k].item])
    <2> SUFFICES ASSUME NEW k \in 1..Len(q)
                 PROVE  /\ q[k].item \in Changing(next)
                        /\ q[k] = Transition(q[k].item, next[q[k].item])
      OBVIOUS
    <2>1. PICK i \in Changing(next) : q[k] = Transition(i, next[i])
      BY <1>6
    <2>2. q[k].item = i
      BY <1>5, <2>1
    <2> QED
      BY <2>1, <2>2
  <1>11. \A j, k \in 1..Len(q) : q[j].item = q[k].item => j = k
    <2> SUFFICES ASSUME NEW j \in 1..Len(q), NEW k \in 1..Len(q), q[j].item = q[k].item
                 PROVE  j = k
      OBVIOUS
    <2>1. q[j] = q[k]
      BY <1>10
    <2> QED
      BY <1>4, <2>1
  <1> HIDE DEF S
  <1> QED
    BY <1>8, <1>9, <1>10, <1>11
-----------------------------------------------------------------------------
(* A goroutine with nothing to observe is not in the middle of observing.  *)
Idle == \A p \in Procs : matching[p] => flight[p] # <<>>

Typed == TypeOK /\ Idle

(* A daemon that has just started is well typed.                           *)
LEMMA InitTyped == Init => Typed
  <1> SUFFICES ASSUME Init PROVE Typed
    OBVIOUS
  <1> USE NotificationAssumptions DEF Init
  <1>1. queue \in Seq([item : Items, label : Watched]) /\ Len(queue) <= QueueDepth
    OBVIOUS
  <1>2. flight \in [Procs -> Seq(Transitions)] /\ matching \in [Procs -> BOOLEAN]
    OBVIOUS
  <1>3. sent \in [Items -> [Labels -> 0..MaxTime]] /\ now \in 1..MaxTime
    OBVIOUS
  <1> QED
    BY <1>1, <1>2, <1>3 DEF Typed, TypeOK, Idle

(* The first transition of a goroutine that has any, and the others.       *)
LEMMA FirstOfFlight ==
    ASSUME TypeOK, NEW p \in Procs, flight[p] # <<>>
    PROVE  /\ First(p) \in Transitions
           /\ First(p).item \in Items /\ First(p).next \in Readings
           /\ First(p).next.label \in Labels
           /\ First(p).n \in 1..MaxWrites
           /\ Len(flight[p]) \in Nat \ {0}
           /\ Tail(flight[p]) \in Seq(Transitions)
           /\ Len(Tail(flight[p])) = Len(flight[p]) - 1
           /\ \A k \in 1..Len(Tail(flight[p])) :
                 k + 1 \in 1..Len(flight[p]) /\ Tail(flight[p])[k] = flight[p][k + 1]
  <1>1. flight[p] \in Seq(Transitions)
    BY DEF TypeOK
  <1>2. First(p) \in Transitions /\ Len(flight[p]) \in Nat \ {0}
    BY <1>1 DEF First
  <1>3. First(p).item \in Items /\ First(p).next \in Readings /\ First(p).n \in 1..MaxWrites
    BY <1>2 DEF Transitions
  <1>4. First(p).next.label \in Labels
    BY <1>3 DEF Labels
  <1> QED
    BY <1>1, <1>2, <1>3, <1>4

(* What Recorded leaves of the times of announcements.                     *)
LEMMA RecordedType ==
    ASSUME TypeOK, NEW i \in Items, NEW l \in Labels
    PROVE  /\ Recorded(i, l) \in [Items -> [Labels -> 0..MaxTime]]
           /\ Recorded(i, l)[i][l] = now
           /\ \A j \in Items, m \in Labels :
                 Recorded(i, l)[j][m] # 0 /\ ~(j = i /\ m = l) =>
                     Recorded(i, l)[j][m] = sent[j][m] /\ Cooling(j, m)
           /\ \A j \in Items, m \in Labels :
                 Recorded(i, l)[j][m] = 0 => ~Cooling(j, m)
  <1>1. \A j \in Items, m \in Labels :
           Recorded(i, l)[j][m] = IF j = i /\ m = l THEN now
                                  ELSE IF Cooling(j, m) THEN sent[j][m] ELSE 0
    BY DEF Recorded
  <1>2. now \in 1..MaxTime /\ now # 0 /\ now \in 0..MaxTime /\ 0 \in 0..MaxTime
    BY NotificationAssumptions DEF TypeOK
  <1>3. \A j \in Items, m \in Labels : Cooling(j, m) => sent[j][m] # 0
    BY DEF Cooling
  <1>4. Recorded(i, l) \in [Items -> [Labels -> 0..MaxTime]]
    BY <1>2 DEF Recorded, TypeOK
  <1>5. \A j \in Items, m \in Labels :
           Recorded(i, l)[j][m] = 0 => ~Cooling(j, m)
    BY <1>1, <1>2, <1>3
  <1> QED
    BY <1>1, <1>4, <1>5

(* Every step keeps the types, and a goroutine idle when it is done.       *)
LEMMA TypeStep == Typed /\ [Next]_vars => Typed'
  <1> SUFFICES ASSUME Typed, [Next]_vars PROVE Typed'
    OBVIOUS
  <1> USE DEF Typed
  <1>1. ASSUME NEW p \in Procs, Write(p) PROVE Typed'
    <2>1. PICK next \in [Items -> Readings \cup {Absent}] : Writing(p, next)
      BY <1>1, WriteSays
    <2> USE DEF Writing
    <2>2. flight'[p] \in Seq(Transitions)
      BY <2>1, WriteLists
    <2>3. flight' \in [Procs -> Seq(Transitions)]
      BY <2>1, <2>2 DEF TypeOK
    <2>4. writes' \in [Items -> 0..MaxWrites]
      BY <2>1, NotificationAssumptions DEF TypeOK
    <2>5. \A i \in Changing(next) : writes[i] + 1 \in 1..MaxWrites
      BY <2>1, NotificationAssumptions DEF TypeOK
    <2>6. worked' \in [Items -> SUBSET (1..MaxWrites)]
      BY <2>1, <2>5 DEF TypeOK
    <2>7. news' \in [Items -> News \cup {Absent}]
      <3>1. \A i \in Changing(next) : IsNews(i, next[i]) =>
               [label |-> next[i].label, n |-> writes[i] + 1, at |-> now] \in News
        BY <2>5 DEF IsNews, News, TypeOK
      <3> QED
        BY <2>1, <3>1 DEF TypeOK
    <2>8. UNCHANGED <<snooze, matching, sent, queue, now, told, dropped>> /\ ~matching[p]
      BY <1>1 DEF Write, Idle
    <2>9. Idle'
      BY <2>1, <2>8 DEF Idle, TypeOK
    <2> QED
      BY <2>1, <2>3, <2>4, <2>6, <2>7, <2>8, <2>9 DEF TypeOK
  <1>2. ASSUME NEW p \in Procs, Forget(p) PROVE Typed'
    <2>1. First(p).item \in Items
      BY <1>2, FirstOfFlight DEF Forget
    <2>2. sent' \in [Items -> [Labels -> 0..MaxTime]]
      BY <1>2, <2>1, NotificationAssumptions DEF Forget, TypeOK
    <2> QED
      BY <1>2, <2>2 DEF Forget, TypeOK, Idle, history
  <1>3. ASSUME NEW p \in Procs, matching[p], Done(p) 
        PROVE  /\ flight' \in [Procs -> Seq(Transitions)]
               /\ matching' \in [Procs -> BOOLEAN] /\ Idle'
    <2>1. flight[p] # <<>>
      BY <1>3 DEF Idle
    <2>2. Tail(flight[p]) \in Seq(Transitions)
      BY <2>1, FirstOfFlight
    <2> QED
      BY <1>3, <2>2 DEF Done, Idle, TypeOK
  <1>4. ASSUME NEW p \in Procs, Ignore(p) PROVE Typed'
    BY <1>3, <1>4 DEF Ignore, Done, TypeOK
  <1>5. ASSUME NEW p \in Procs, Announcing(p)
        PROVE  /\ sent' \in [Items -> [Labels -> 0..MaxTime]]
               /\ First(p) \in Transitions /\ First(p).item \in Items
               /\ First(p).next.label \in Watched /\ First(p).next.label \in Labels
               /\ First(p).n \in 1..MaxWrites
    <2>1. flight[p] # <<>>
      BY <1>5 DEF Announcing, Idle
    <2> QED
      BY <1>5, <2>1, FirstOfFlight, RecordedType DEF Announcing, Matches
  <1>6. ASSUME NEW p \in Procs, Announce(p) PROVE Typed'
    <2> DEFINE note == [item |-> First(p).item, label |-> First(p).next.label]
    <2>1. note \in [item : Items, label : Watched]
      BY <1>5, <1>6 DEF Announce
    <2>2. queue' \in Seq([item : Items, label : Watched]) /\ Len(queue') <= QueueDepth
      BY <1>6, <2>1, NotificationAssumptions DEF Announce, TypeOK
    <2>3. told' \in [Items -> [Labels -> Tellings \cup {Absent}]]
      <3>1. [n |-> First(p).n, at |-> now] \in Tellings
        BY <1>5, <1>6 DEF Announce, Tellings, TypeOK
      <3> QED
        BY <1>5, <1>6, <3>1 DEF Announce, TypeOK
    <2> QED
      BY <1>3, <1>5, <1>6, <2>2, <2>3 DEF Announce, Announcing, Done, TypeOK
  <1>7. ASSUME NEW p \in Procs, Drop(p) PROVE Typed'
    BY <1>3, <1>5, <1>7 DEF Drop, Announcing, Done, TypeOK
  <1>8. ASSUME NEW i \in Items, Snooze(i) PROVE Typed'
    BY <1>8 DEF Snooze, TypeOK, Idle, history, Labels
  <1>9. ASSUME NEW i \in Items, Clear(i) PROVE Typed'
    BY <1>9 DEF Clear, TypeOK, Idle, history
  <1>10. CASE Read
    BY <1>10 DEF Read, TypeOK, Idle, history
  <1>11. CASE Tick
    BY <1>11, NotificationAssumptions DEF Tick, TypeOK, Idle, history
  <1>12. CASE Deliver
    BY <1>12, NotificationAssumptions DEF Deliver, TypeOK, Idle, history
  <1>13. CASE UNCHANGED vars
    BY <1>13 DEF vars, history, TypeOK, Idle
  <1> QED
    BY <1>1, <1>2, <1>4, <1>6, <1>7, <1>8, <1>9, <1>10, <1>11, <1>12, <1>13
       DEF Next, Observe

(* Every reachable state is well typed; in particular the queue never      *)
(* holds more than it has room for, whoever announces.                     *)
THEOREM NotifierTyped == Spec => []TypeOK
  <1>1. Typed => TypeOK
    BY DEF Typed
  <1> QED
    BY <1>1, InitTyped, TypeStep, PTL DEF Spec

-----------------------------------------------------------------------------
(* Announcements                                                           *)

(* Write n of item i is yet to be observed; its forgetting is yet to be    *)
(* done.                                                                   *)
Pending(i, n) ==
    \E p \in Procs : \E k \in 1..Len(flight[p]) :
        flight[p][k].item = i /\ flight[p][k].n = n

Unforgotten(i, n) ==
    \E p \in Procs : \E k \in 1..Len(flight[p]) :
        flight[p][k].item = i /\ flight[p][k].n = n /\ (k = 1 => ~matching[p])

(* A transition p has yet to observe is the last write of its item; what   *)
(* match takes for news is the item's last news, and nothing of it is told.*)
Fits(p, t) ==
    /\ t.item \in WrittenBy[p]
    /\ t.n = writes[t.item]
    /\ t.n \in worked[t.item] <=> t.next.works
    /\ Matches(t) => /\ news[t.item] # Absent
                     /\ news[t.item].label = t.next.label /\ news[t.item].n = t.n
    /\ ~Matches(t) /\ news[t.item] # Absent => news[t.item].n < t.n
    /\ \A l \in Labels : told[t.item][l] # Absent => told[t.item][l].n < t.n

FlightFits ==
    \A p \in Procs :
        /\ \A k \in 1..Len(flight[p]) : Fits(p, flight[p][k])
        /\ \A j, k \in 1..Len(flight[p]) : flight[p][j].item = flight[p][k].item => j = k

(* The histories of an item do not run ahead of it, nor of the clock.      *)
NothingAhead(i) ==
    /\ \A w \in worked[i] : w <= writes[i]
    /\ news[i] # Absent => news[i].n <= writes[i] /\ news[i].at <= now
    /\ \A l \in Labels :
          /\ sent[i][l] <= now
          /\ told[i][l] # Absent => told[i][l].n <= writes[i] /\ told[i][l].at <= now

(* What NewsIsTold says of an item, from when its last news is observed.   *)
ToldEnough(i) ==
    LET t == told[i][news[i].label] IN
    /\ t # Absent
    /\ \/ t.n = news[i].n
       \/ /\ t.n < news[i].n
          /\ t.at + Cooldown > news[i].at
          /\ \A w \in worked[i] : ~(t.n < w /\ w <= news[i].n)

NewsSettled(i) ==
    news[i] # Absent /\ i \notin dropped /\ ~Pending(i, news[i].n) => ToldEnough(i)

(* A time in sent is that of the announcement, and work since then is yet  *)
(* to be observed.                                                         *)
SentFits(i) ==
    \A l \in Labels : sent[i][l] # 0 /\ i \notin dropped =>
        /\ told[i][l] # Absent /\ told[i][l].at = sent[i][l]
        /\ \A w \in worked[i] : told[i][l].n < w => Unforgotten(i, w)

(* An announcement is remembered by sent, unless it is past the cooldown   *)
(* or the item has worked since.                                           *)
ToldFits(i) ==
    \A l \in Labels : told[i][l] # Absent =>
        \/ told[i][l].at <= sent[i][l]
        \/ told[i][l].at + Cooldown <= now
        \/ \E w \in worked[i] : told[i][l].n < w

ItemFits(i) == NothingAhead(i) /\ NewsSettled(i) /\ SentFits(i) /\ ToldFits(i)

Inv == Typed /\ FlightFits /\ \A i \in Items : ItemFits(i)

(* Nothing is written or told of an item before it is reported.            *)
LEMMA InitInv == Init => Inv
  <1> SUFFICES ASSUME Init PROVE Inv
    OBVIOUS
  <1>1. FlightFits
    BY DEF Init, FlightFits
  <1>2. \A i \in Items : ItemFits(i)
    BY DEF Init, ItemFits, NothingAhead, NewsSettled, SentFits, ToldFits
  <1> QED
    BY <1>1, <1>2, InitTyped DEF Inv

(* The transitions of a goroutine are well typed and about its own items.  *)
LEMMA FlightType ==
    ASSUME Inv, NEW p \in Procs, NEW k \in 1..Len(flight[p])
    PROVE  /\ flight[p][k] \in Transitions /\ Fits(p, flight[p][k])
           /\ flight[p][k].item \in Items /\ flight[p][k].item \in WrittenBy[p]
           /\ flight[p][k].next \in Readings /\ flight[p][k].n \in 1..MaxWrites
  <1>1. flight[p] \in Seq(Transitions)
    BY DEF Inv, Typed, TypeOK
  <1>2. flight[p][k] \in Transitions
    BY <1>1
  <1>3. Fits(p, flight[p][k])
    BY DEF Inv, FlightFits
  <1> QED
    BY <1>2, <1>3 DEF Transitions, Fits

(* What is pending of an item is in the hands of the one that writes it.   *)
LEMMA PendingAtWriter ==
    ASSUME Inv, OneWriterEach, NEW p \in Procs, NEW i \in WrittenBy[p], NEW n,
           Pending(i, n) \/ Unforgotten(i, n)
    PROVE  /\ n = writes[i]
           /\ \E k \in 1..Len(flight[p]) : flight[p][k].item = i /\ flight[p][k].n = n
  <1>0. PICK q \in Procs :
           \E k \in 1..Len(flight[q]) : flight[q][k].item = i /\ flight[q][k].n = n
    BY DEF Pending, Unforgotten
  <1>1. PICK k \in 1..Len(flight[q]) : flight[q][k].item = i /\ flight[q][k].n = n
    BY <1>0
  <1>2. Fits(q, flight[q][k]) /\ i \in WrittenBy[q]
    BY <1>1, FlightType
  <1>3. q = p
    BY <1>2 DEF OneWriterEach
  <1> QED
    BY <1>1, <1>2, <1>3 DEF Fits

-----------------------------------------------------------------------------
(* A write                                                                 *)

(* What a write lists fits the item it leaves.                             *)
LEMMA WriteKeepsFlight ==
    ASSUME Inv, OneWriterEach, NEW p \in Procs, Write(p), Typed'
    PROVE  FlightFits'
  <1> USE DEF Inv, Typed
  <1>1. PICK next \in [Items -> Readings \cup {Absent}] : Writing(p, next)
    BY WriteSays
  <1>2. UNCHANGED told
    BY DEF Write
  <1>3. PICK q \in Seq(Transitions) :
           /\ flight'[p] = q
           /\ \A k \in 1..Len(q) : /\ q[k].item \in Changing(next)
                                    /\ q[k] = Transition(q[k].item, next[q[k].item])
           /\ \A j, k \in 1..Len(q) : q[j].item = q[k].item => j = k
    BY <1>1, WriteLists DEF Writing
  <1>4. ASSUME NEW k \in 1..Len(q) PROVE Fits(p, q[k])'
    <2>1. PICK i \in Changing(next) : q[k].item = i /\ q[k] = Transition(i, next[i])
      BY <1>3
    <2>2. PICK r \in Readings : r = next[i] /\ i \in Items /\ i \in WrittenBy[p]
      BY <1>1 DEF Writing, Changing
    <2>3. q[k].n = writes[i] + 1 /\ q[k].next = r /\ q[k].prev = items[i]
          /\ q[k].snoozed = (snooze[i] = r.label)
      BY <2>1, <2>2 DEF Transition, Covered
    <2>4. /\ writes'[i] = writes[i] + 1 /\ writes[i] \in Nat /\ now \in 1..MaxTime
          /\ writes[i] + 1 \in 1..MaxWrites
          /\ worked'[i] = worked[i] \cup IF r.works THEN {writes[i] + 1} ELSE {}
          /\ news'[i] = IF IsNews(i, r)
                        THEN [label |-> r.label, n |-> writes[i] + 1, at |-> now]
                        ELSE news[i]
      BY <1>1, <2>2, NotificationAssumptions DEF Writing, TypeOK
    <2>5. NothingAhead(i) /\ told'[i] = told[i] /\ worked[i] \subseteq Nat
      BY <1>2, <2>2 DEF ItemFits, TypeOK
    <2>6. Matches(q[k]) <=> IsNews(i, r)
      BY <2>3 DEF Matches, IsNews
    <2>7. Matches(q[k])' <=> Matches(q[k])
      BY DEF Matches
    <2>8. q[k].n \in worked'[i] <=> q[k].next.works
      BY <2>3, <2>4, <2>5 DEF NothingAhead
    <2>9. IsNews(i, r) => /\ news'[i] # Absent
                          /\ news'[i].label = r.label /\ news'[i].n = writes[i] + 1
      <3>1. IsNews(i, r) => [label |-> r.label, n |-> writes[i] + 1, at |-> now] \in News
        BY <2>4 DEF News, IsNews
      <3> QED
        BY <2>4, <3>1, AbsentAssumption
    <2>10. ~IsNews(i, r) /\ news'[i] # Absent => news'[i].n < writes[i] + 1
      <3>1. news[i] # Absent => news[i].n \in Nat /\ news[i].n <= writes[i]
        BY <2>2, <2>5 DEF TypeOK, News, NothingAhead
      <3> QED
        BY <2>4, <3>1
    <2>11. \A l \in Labels : told'[i][l] # Absent => told'[i][l].n < writes[i] + 1
      <3>1. \A l \in Labels : told[i][l] # Absent =>
               told[i][l].n \in Nat /\ told[i][l].n <= writes[i]
        BY <2>2, <2>5 DEF TypeOK, Tellings, NothingAhead
      <3> QED
        BY <2>4, <2>5, <3>1
    <2> QED
      BY <2>1, <2>2, <2>3, <2>4, <2>6, <2>7, <2>8, <2>9, <2>10, <2>11 DEF Fits
  <1>5. ASSUME NEW o \in Procs, o # p, NEW k \in 1..Len(flight[o])
        PROVE  Fits(o, flight[o][k])'
    <2>1. PICK t \in Transitions : /\ flight[o][k] = t /\ Fits(o, t)
                                  /\ t.item \in Items /\ t.item \in WrittenBy[o]
      BY FlightType
    <2>2. t.item \notin Changing(next)
      BY <1>1, <1>5, <2>1 DEF Writing, OneWriterEach
    <2>3. /\ writes'[t.item] = writes[t.item] /\ worked'[t.item] = worked[t.item]
          /\ news'[t.item] = news[t.item] /\ told'[t.item] = told[t.item]
      BY <1>1, <1>2, <2>1, <2>2 DEF Writing, TypeOK
    <2>4. flight'[o] = flight[o]
      BY <1>1, <1>5 DEF Writing, TypeOK
    <2>5. Fits(o, t)'
      BY <2>1, <2>3 DEF Fits, Matches
    <2> QED
      BY <2>1, <2>4, <2>5
  <1>6. \A o \in Procs : o # p => flight'[o] = flight[o]
    BY <1>1 DEF Writing, TypeOK
  <1>7. ASSUME NEW o \in Procs
        PROVE  /\ \A k \in 1..Len(flight'[o]) : Fits(o, flight[o][k])'
               /\ \A j, k \in 1..Len(flight'[o]) :
                     flight'[o][j].item = flight'[o][k].item => j = k
    <2>1. CASE o = p
      BY <1>3, <1>4, <2>1
    <2>2. CASE o # p
      BY <1>5, <1>6, <2>2 DEF FlightFits
    <2> QED
      BY <2>1, <2>2
  <1> QED
    BY <1>7 DEF FlightFits

(* A write leaves every item with what is told of it in line with its news.*)
LEMMA WriteKeepsItem ==
    ASSUME Inv, OneWriterEach, NEW p \in Procs, Write(p), Typed', NEW i \in Items
    PROVE  ItemFits(i)'
  <1> USE DEF Inv, Typed
  <1>1. PICK next \in [Items -> Readings \cup {Absent}] : Writing(p, next)
    BY WriteSays
  <1>2. UNCHANGED <<matching, sent, now, told, dropped>> /\ flight[p] = <<>> /\ ~matching[p]
    BY DEF Write, Idle
  <1>3. PICK q \in Seq(Transitions) :
           /\ flight'[p] = q
           /\ \A k \in 1..Len(q) : /\ q[k].item \in Changing(next)
                                    /\ q[k] = Transition(q[k].item, next[q[k].item])
           /\ \A j \in Changing(next) : \E k \in 1..Len(q) : q[k].item = j
    BY <1>1, WriteLists DEF Writing
  <1>4. \A o \in Procs : o # p => flight'[o] = flight[o]
    BY <1>1 DEF Writing, TypeOK
  <1>5. NothingAhead(i) /\ NewsSettled(i) /\ SentFits(i) /\ ToldFits(i)
    BY DEF ItemFits
  <1>6. /\ writes[i] \in Nat /\ worked[i] \subseteq Nat /\ now \in Nat
        /\ news[i] # Absent => news[i].n \in Nat /\ news[i].at \in Nat /\ news[i].label \in Labels
        /\ \A l \in Labels : /\ sent[i][l] \in Nat
                              /\ told[i][l] # Absent =>
                                    told[i][l].n \in Nat /\ told[i][l].at \in Nat
    <2>1. writes[i] \in Nat /\ worked[i] \subseteq Nat /\ now \in Nat
      BY DEF TypeOK
    <2>2. news[i] # Absent => news[i].n \in Nat /\ news[i].at \in Nat /\ news[i].label \in Labels
      BY NotificationAssumptions DEF TypeOK, News
    <2>3. \A l \in Labels : sent[i][l] \in Nat
      BY DEF TypeOK
    <2>4. \A l \in Labels : told[i][l] # Absent => told[i][l].n \in Nat /\ told[i][l].at \in Nat
      BY DEF TypeOK, Tellings
    <2> QED
      BY <2>1, <2>2, <2>3, <2>4
  <1>7. CASE i \in Changing(next)
    <2>0. PICK n \in Nat : n = writes[i] + 1
      BY <1>6
    <2>1. i \in WrittenBy[p]
      BY <1>1, <1>7 DEF Writing
    <2>2. \A m : ~Pending(i, m) /\ ~Unforgotten(i, m)
      BY <1>2, <2>1, PendingAtWriter
    <2>3. PICK k \in 1..Len(q) : q[k].item = i /\ q[k].n = n
      <3>1. PICK k \in 1..Len(q) : q[k].item = i
        BY <1>3, <1>7
      <3>2. q[k] = Transition(i, next[i])
        BY <1>3, <3>1
      <3> QED
        BY <2>0, <3>1, <3>2 DEF Transition
    <2>4. Pending(i, n)' /\ Unforgotten(i, n)'
      BY <1>2, <1>3, <2>3 DEF Pending, Unforgotten
    <2>5. writes'[i] = n /\ worked'[i] \subseteq worked[i] \cup {n} /\ worked[i] \subseteq worked'[i]
          /\ news'[i] = IF IsNews(i, next[i]) THEN [label |-> next[i].label, n |-> n, at |-> now]
                        ELSE news[i]
      BY <1>1, <1>7, <2>0 DEF Writing
    <2>6. NothingAhead(i)'
      <3>1. \A w \in worked'[i] : w <= writes'[i]
        BY <1>5, <1>6, <2>0, <2>5 DEF NothingAhead
      <3>2. news'[i] # Absent => news'[i].n <= writes'[i] /\ news'[i].at <= now'
        BY <1>2, <1>5, <1>6, <2>0, <2>5 DEF NothingAhead
      <3>3. \A l \in Labels :
               /\ sent'[i][l] <= now'
               /\ told'[i][l] # Absent => told'[i][l].n <= writes'[i] /\ told'[i][l].at <= now'
        <4>1. \A l \in Labels : sent[i][l] <= now
          BY <1>5 DEF NothingAhead
        <4>2. \A l \in Labels : told[i][l] # Absent => told[i][l].n <= writes[i] /\ told[i][l].at <= now
          BY <1>5 DEF NothingAhead
        <4>3. \A l \in Labels : told[i][l] # Absent => told[i][l].n <= n
          <5> SUFFICES ASSUME NEW l \in Labels, told[i][l] # Absent PROVE told[i][l].n <= n
            OBVIOUS
          <5>1. told[i][l].n \in Nat /\ told[i][l].n <= writes[i]
            BY <4>2 DEF TypeOK, Tellings
          <5> QED
            BY <1>6, <2>0, <5>1
        <4> QED
          BY <1>2, <2>5, <4>1, <4>2, <4>3
      <3> QED
        BY <3>1, <3>2, <3>3 DEF NothingAhead
    <2>7. NewsSettled(i)'
      <3>1. CASE IsNews(i, next[i])
        <4>1. news'[i].n = n
          BY <2>5, <3>1
        <4> QED
          BY <2>4, <4>1 DEF NewsSettled
      <3>2. CASE ~IsNews(i, next[i])
        <4>1. news'[i] = news[i] /\ told'[i] = told[i] /\ dropped' = dropped
          BY <1>2, <2>5, <3>2
        <4>2. news[i] # Absent /\ i \notin dropped => ToldEnough(i)
          BY <1>5, <2>2 DEF NewsSettled
        <4>3. news[i] # Absent /\ i \notin dropped => ToldEnough(i)'
          BY <1>5, <1>6, <2>0, <2>5, <4>1, <4>2 DEF ToldEnough, NothingAhead
        <4> QED
          BY <4>1, <4>3 DEF NewsSettled
      <3> QED
        BY <3>1, <3>2
    <2>8. SentFits(i)'
      BY <1>2, <1>5, <2>2, <2>4, <2>5 DEF SentFits
    <2>9. ToldFits(i)'
      BY <1>2, <1>5, <2>5 DEF ToldFits
    <2> QED
      BY <2>6, <2>7, <2>8, <2>9 DEF ItemFits
  <1>8. CASE i \notin Changing(next)
    <2>1. writes'[i] = writes[i] /\ worked'[i] = worked[i] /\ news'[i] = news[i]
      BY <1>1, <1>6, <1>8 DEF Writing
    <2>2. \A n : Pending(i, n) => Pending(i, n)'
      BY <1>2, <1>4 DEF Pending
    <2>3. \A n : Unforgotten(i, n) => Unforgotten(i, n)'
      BY <1>2, <1>4 DEF Unforgotten
    <2>4. NothingAhead(i)'
      BY <1>2, <1>5, <2>1 DEF NothingAhead
    <2>5. NewsSettled(i)'
      BY <1>2, <1>5, <2>1, <2>2 DEF NewsSettled, ToldEnough
    <2>6. SentFits(i)'
      BY <1>2, <1>5, <2>1, <2>3 DEF SentFits
    <2>7. ToldFits(i)'
      BY <1>2, <1>5, <2>1 DEF ToldFits
    <2> QED
      BY <2>4, <2>5, <2>6, <2>7 DEF ItemFits
  <1> QED
    BY <1>7, <1>8

-----------------------------------------------------------------------------
(* Observe                                                                 *)

(* The transition p is at is the last write of its item, and no other      *)
(* write of that item is pending.                                          *)
LEMMA FirstFits ==
    ASSUME Inv, OneWriterEach, NEW p \in Procs, flight[p] # <<>>
    PROVE  /\ First(p) \in Transitions /\ Fits(p, First(p))
           /\ First(p).item \in Items /\ First(p).item \in WrittenBy[p]
           /\ First(p).next.label \in Labels /\ First(p).n \in 1..MaxWrites
           /\ 1 \in 1..Len(flight[p]) /\ First(p) = flight[p][1]
           /\ \A n : Pending(First(p).item, n) => n = First(p).n
           /\ \A n : Unforgotten(First(p).item, n) => ~matching[p]
  <1>1. /\ First(p) \in Transitions /\ First(p).item \in Items
        /\ First(p).next.label \in Labels /\ First(p).n \in 1..MaxWrites
        /\ 1 \in 1..Len(flight[p]) /\ First(p) = flight[p][1]
    BY FirstOfFlight DEF Inv, Typed, First
  <1>2. Fits(p, First(p)) /\ First(p).item \in WrittenBy[p] /\ First(p).n = writes[First(p).item]
    BY <1>1, FlightType DEF Fits
  <1>3. \A n : Pending(First(p).item, n) => n = First(p).n
    BY <1>2, PendingAtWriter
  <1>4. ASSUME NEW n, Unforgotten(First(p).item, n) PROVE ~matching[p]
    <2>1. PICK q \in Procs : \E k \in 1..Len(flight[q]) :
             flight[q][k].item = First(p).item /\ (k = 1 => ~matching[q])
      BY <1>4 DEF Unforgotten
    <2>2. PICK k \in 1..Len(flight[q]) :
             flight[q][k].item = First(p).item /\ (k = 1 => ~matching[q])
      BY <2>1
    <2>3. First(p).item \in WrittenBy[q]
      BY <2>2, FlightType
    <2>4. q = p
      BY <1>2, <2>3 DEF OneWriterEach
    <2>5. k = 1
      BY <1>1, <2>2, <2>4 DEF Inv, FlightFits
    <2> QED
      BY <2>2, <2>4, <2>5
  <1> QED
    BY <1>1, <1>2, <1>3, <1>4

(* Being done with the first transition: the others are where they were.   *)
LEMMA DoneLeaves ==
    ASSUME Typed, NEW p \in Procs, flight[p] # <<>>, matching[p], Done(p), NEW i, NEW n
    PROVE  /\ Pending(i, n) =>
                 Pending(i, n)' \/ (i = First(p).item /\ n = First(p).n)
           /\ Unforgotten(i, n) => Unforgotten(i, n)'
  <1>1. flight' = [flight EXCEPT ![p] = Tail(flight[p])]
        /\ matching' = [matching EXCEPT ![p] = FALSE]
    BY DEF Done
  <1>2. flight'[p] = Tail(flight[p]) /\ matching'[p] = FALSE
        /\ \A q \in Procs : q # p => flight'[q] = flight[q] /\ matching'[q] = matching[q]
    BY <1>1 DEF Typed, TypeOK
  <1>3. ASSUME NEW k \in 1..Len(flight[p]), k # 1
        PROVE  k - 1 \in 1..Len(flight'[p]) /\ flight'[p][k - 1] = flight[p][k]
    <2>1. flight[p] \in Seq(Transitions)
      BY DEF Typed, TypeOK
    <2> QED
      BY <1>2, <1>3, <2>1
  <1>4. ASSUME Pending(i, n), ~(i = First(p).item /\ n = First(p).n) PROVE Pending(i, n)'
    <2>1. PICK q \in Procs :
             \E k \in 1..Len(flight[q]) : flight[q][k].item = i /\ flight[q][k].n = n
      BY <1>4 DEF Pending
    <2>2. PICK k \in 1..Len(flight[q]) : flight[q][k].item = i /\ flight[q][k].n = n
      BY <2>1
    <2>3. CASE q # p
      BY <1>2, <2>2, <2>3 DEF Pending
    <2>4. CASE q = p
      <3>1. k # 1
        BY <1>4, <2>2, <2>4 DEF First
      <3>2. k - 1 \in 1..Len(flight'[p]) /\ flight'[p][k - 1].item = i /\ flight'[p][k - 1].n = n
        BY <1>3, <2>2, <2>4, <3>1
      <3> QED
        BY <3>2 DEF Pending
    <2> QED
      BY <2>3, <2>4
  <1>5. ASSUME Unforgotten(i, n) PROVE Unforgotten(i, n)'
    <2>1. PICK q \in Procs : \E k \in 1..Len(flight[q]) :
             flight[q][k].item = i /\ flight[q][k].n = n /\ (k = 1 => ~matching[q])
      BY <1>5 DEF Unforgotten
    <2>2. PICK k \in 1..Len(flight[q]) :
             flight[q][k].item = i /\ flight[q][k].n = n /\ (k = 1 => ~matching[q])
      BY <2>1
    <2>3. CASE q # p
      BY <1>2, <2>2, <2>3 DEF Unforgotten
    <2>4. CASE q = p
      <3>1. k # 1
        BY <2>2, <2>4
      <3>2. k - 1 \in 1..Len(flight'[p]) /\ flight'[p][k - 1].item = i /\ flight'[p][k - 1].n = n
        BY <1>3, <2>2, <2>4, <3>1
      <3> QED
        BY <1>2, <3>2 DEF Unforgotten
    <2> QED
      BY <2>3, <2>4
  <1> QED
    BY <1>4, <1>5

(* What is told of an item when p is done with its transition is of no     *)
(* other transition.                                                       *)
LEMMA DoneKeepsFlight ==
    ASSUME Inv, OneWriterEach, NEW p \in Procs, flight[p] # <<>>, Done(p),
           \A i \in Items : i # First(p).item => told'[i] = told[i]
    PROVE  FlightFits'
  <1> USE DEF Inv, Typed
  <1>1. UNCHANGED <<writes, worked, news>>
    BY DEF Done
  <1>2. ASSUME NEW q \in Procs, NEW k \in 1..Len(flight[q]), flight[q][k].item # First(p).item
        PROVE  \A t : t = flight[q][k] => Fits(q, t)'
    <2>1. PICK t \in Transitions : flight[q][k] = t /\ Fits(q, t) /\ t.item \in Items
      BY FlightType
    <2>2. told'[t.item] = told[t.item]
      BY <1>2, <2>1
    <2>3. Fits(q, t)'
      BY <1>1, <2>1, <2>2 DEF Fits, Matches
    <2> QED
      BY <2>1, <2>3
  <1>3. flight'[p] = Tail(flight[p])
        /\ \A q \in Procs : q # p => flight'[q] = flight[q]
    BY DEF Done, TypeOK
  <1>4. /\ Len(flight'[p]) = Len(flight[p]) - 1 /\ Len(flight[p]) \in Nat \ {0}
        /\ \A k \in 1..Len(flight'[p]) :
              k + 1 \in 1..Len(flight[p]) /\ flight'[p][k] = flight[p][k + 1]
    BY <1>3, FirstOfFlight
  <1>5. 1 \in 1..Len(flight[p]) /\ First(p) = flight[p][1] /\ First(p).item \in WrittenBy[p]
    BY FirstFits
  <1>6. ASSUME NEW k \in 1..Len(flight'[p])
        PROVE  flight[p][k + 1].item # First(p).item
    <2>1. k + 1 \in 1..Len(flight[p]) /\ k + 1 # 1
      BY <1>4
    <2> QED
      BY <1>5, <2>1 DEF FlightFits
  <1>7. ASSUME NEW q \in Procs, q # p, NEW k \in 1..Len(flight[q])
        PROVE  flight[q][k].item # First(p).item
    <2>1. flight[q][k].item \in WrittenBy[q]
      BY FlightType
    <2> QED
      BY <1>5, <1>7, <2>1 DEF OneWriterEach
  <1>8. ASSUME NEW q \in Procs, NEW k \in 1..Len(flight'[q]) PROVE Fits(q, flight[q][k])'
    <2>1. CASE q = p
      <3>1. PICK t : t = flight[p][k + 1]
        OBVIOUS
      <3>2. Fits(p, t)'
        BY <1>2, <1>4, <1>6, <1>8, <2>1, <3>1
      <3> QED
        BY <1>4, <1>8, <2>1, <3>1, <3>2
    <2>2. CASE q # p
      <3>1. PICK t : t = flight[q][k]
        OBVIOUS
      <3>2. Fits(q, t)'
        BY <1>2, <1>3, <1>7, <1>8, <2>2, <3>1
      <3> QED
        BY <1>3, <2>2, <3>1, <3>2
    <2> QED
      BY <2>1, <2>2
  <1>9. ASSUME NEW q \in Procs, NEW j \in 1..Len(flight'[q]), NEW k \in 1..Len(flight'[q]),
               flight'[q][j].item = flight'[q][k].item
        PROVE  j = k
    <2>1. CASE q = p
      <3>1. j + 1 \in 1..Len(flight[p]) /\ k + 1 \in 1..Len(flight[p])
            /\ flight[p][j + 1].item = flight[p][k + 1].item
        BY <1>4, <1>9, <2>1
      <3>2. j + 1 = k + 1
        BY <3>1 DEF FlightFits
      <3> QED
        BY <3>2
    <2>2. CASE q # p
      BY <1>3, <1>9, <2>2 DEF FlightFits
    <2> QED
      BY <2>1, <2>2
  <1> QED
    BY <1>8, <1>9 DEF FlightFits

(* An announcement stays remembered while sent keeps its time or drops it  *)
(* when it is past the cooldown.                                           *)
LEMMA ToldStays ==
    ASSUME Inv, now' \in Nat, now <= now', NEW i \in Items, NEW l \in Labels,
           told[i][l] # Absent, worked'[i] = worked[i],
           sent'[i][l] = sent[i][l] \/ (sent'[i][l] = 0 /\ ~Cooling(i, l))
    PROVE  \/ told[i][l].at <= sent'[i][l]
           \/ told[i][l].at + Cooldown <= now'
           \/ \E w \in worked'[i] : told[i][l].n < w
  <1>1. /\ told[i][l].at \in Nat /\ sent[i][l] \in Nat /\ now \in Nat
        /\ Cooldown \in Nat \ {0}
    BY NotificationAssumptions DEF Inv, Typed, TypeOK, Tellings
  <1>2. \/ told[i][l].at <= sent[i][l]
        \/ told[i][l].at + Cooldown <= now
        \/ \E w \in worked[i] : told[i][l].n < w
    BY DEF Inv, ItemFits, ToldFits
  <1>3. CASE told[i][l].at + Cooldown <= now
    BY <1>1, <1>3
  <1>4. CASE told[i][l].at <= sent[i][l] /\ sent'[i][l] = 0 /\ ~Cooling(i, l)
    <2>1. sent[i][l] = 0 \/ sent[i][l] + Cooldown <= now
      BY <1>1, <1>4 DEF Cooling
    <2> QED
      BY <1>1, <1>4, <2>1
  <1> QED
    BY <1>2, <1>3, <1>4

(* An item whose histories do not change, and whose work is as unforgotten *)
(* as before, fits as before, whatever time it is.                         *)
LEMMA SameItem ==
    ASSUME Inv, now' \in Nat, now <= now', NEW i \in Items,
           writes'[i] = writes[i], worked'[i] = worked[i], news'[i] = news[i],
           told'[i] = told[i], i \notin dropped => i \notin dropped',
           i \notin dropped' => i \notin dropped,
           \A n : Pending(i, n) => Pending(i, n)',
           \A n : Unforgotten(i, n) => Unforgotten(i, n)',
           \A l \in Labels : \/ sent'[i][l] = sent[i][l]
                             \/ sent'[i][l] = 0 /\ ~Cooling(i, l)
    PROVE  ItemFits(i)'
  <1> USE DEF Inv, Typed
  <1>1. NothingAhead(i) /\ NewsSettled(i) /\ SentFits(i) /\ ToldFits(i)
    BY DEF ItemFits
  <1>2. /\ writes[i] \in Nat /\ now \in Nat
        /\ news[i] # Absent => news[i].n \in Nat /\ news[i].at \in Nat
    BY DEF TypeOK, News
  <1>3. ASSUME NEW l \in Labels
        PROVE  /\ sent[i][l] \in Nat
               /\ told[i][l] # Absent => told[i][l].n \in Nat /\ told[i][l].at \in Nat
    BY DEF TypeOK, Tellings
  <1>4. NothingAhead(i)'
    <2>1. ASSUME NEW l \in Labels
          PROVE  /\ sent'[i][l] <= now'
                 /\ told'[i][l] # Absent =>
                       told'[i][l].n <= writes'[i] /\ told'[i][l].at <= now'
      <3>1. /\ sent[i][l] <= now
            /\ told[i][l] # Absent => told[i][l].n <= writes[i] /\ told[i][l].at <= now
        BY <1>1 DEF NothingAhead
      <3>2. sent'[i][l] = sent[i][l] \/ sent'[i][l] = 0
        OBVIOUS
      <3>3. \A t \in Nat : t <= now => t <= now'
        BY <1>2
      <3>4. sent'[i][l] <= now'
        BY <1>3, <3>1, <3>2, <3>3
      <3>5. told[i][l] # Absent => told[i][l].at <= now'
        <4>1. ASSUME told[i][l] # Absent PROVE told[i][l].at <= now'
          <5>1. told[i][l].at \in Nat /\ told[i][l].at <= now
            BY <1>3, <3>1, <4>1
          <5> QED
            BY <3>3, <5>1
        <4> QED
          BY <4>1
      <3>6. told'[i][l] = told[i][l] /\ writes'[i] = writes[i]
        OBVIOUS
      <3> QED
        BY <3>1, <3>4, <3>5, <3>6
    <2>2. news[i] # Absent => news[i].n <= writes[i] /\ news[i].at <= now'
      BY <1>1, <1>2 DEF NothingAhead
    <2>3. \A w \in worked'[i] : w <= writes'[i]
      BY <1>1 DEF NothingAhead
    <2> QED
      BY <2>1, <2>2, <2>3 DEF NothingAhead
  <1>5. NewsSettled(i)'
    BY <1>1 DEF NewsSettled, ToldEnough
  <1>6. SentFits(i)'
    BY <1>1 DEF SentFits
  <1>7. ToldFits(i)'
    <2> SUFFICES ASSUME NEW l \in Labels, told'[i][l] # Absent
                 PROVE  \/ told'[i][l].at <= sent'[i][l]
                        \/ told'[i][l].at + Cooldown <= now'
                        \/ \E w \in worked'[i] : told'[i][l].n < w
      BY DEF ToldFits
    <2> QED
      BY ToldStays
  <1> QED
    BY <1>4, <1>5, <1>6, <1>7 DEF ItemFits

(* Forgetting is due for an item that works, and spares the others.        *)
LEMMA ForgetKeeps ==
    ASSUME Inv, OneWriterEach, NEW p \in Procs, Forget(p), Typed'
    PROVE  FlightFits' /\ \A i \in Items : ItemFits(i)'
  <1> USE DEF Inv, Typed
  <1>1. UNCHANGED <<flight, now, writes, worked, news, told, dropped>>
        /\ flight[p] # <<>> /\ matching' = [matching EXCEPT ![p] = TRUE]
    BY DEF Forget, history
  <1>2. FlightFits'
    BY <1>1 DEF FlightFits, Fits, Matches
  <1>3. now \in Nat
    BY DEF TypeOK
  <1>4. Fits(p, First(p)) /\ First(p).item \in Items
        /\ 1 \in 1..Len(flight[p]) /\ First(p) = flight[p][1]
    BY <1>1, FirstFits
  <1>5. \A i, n : Pending(i, n) => Pending(i, n)'
    BY <1>1 DEF Pending
  <1>6. ASSUME NEW i, NEW n, Unforgotten(i, n), ~(i = First(p).item /\ n = First(p).n)
        PROVE  Unforgotten(i, n)'
    BY <1>1, <1>4, <1>6 DEF Unforgotten, TypeOK
  <1>7. ASSUME NEW i \in Items, i # First(p).item \/ ~First(p).next.works PROVE ItemFits(i)'
    <2>1. sent'[i] = sent[i]
      BY <1>4, <1>7 DEF Forget, TypeOK
    <2>2. CASE i # First(p).item
      BY <1>1, <1>3, <1>5, <1>6, <2>1, <2>2, SameItem
    <2>3. CASE i = First(p).item /\ ~First(p).next.works
      <3>1. NothingAhead(i) /\ NewsSettled(i) /\ SentFits(i) /\ ToldFits(i)
        BY DEF ItemFits
      <3>2. First(p).n \notin worked[i]
        BY <1>4, <2>3 DEF Fits
      <3>3. \A w \in worked[i] : Unforgotten(i, w) => Unforgotten(i, w)'
        BY <1>6, <3>2
      <3>4. NothingAhead(i)'
        BY <1>1, <2>1, <3>1 DEF NothingAhead
      <3>5. NewsSettled(i)'
        BY <1>1, <1>5, <3>1 DEF NewsSettled, ToldEnough
      <3>6. SentFits(i)'
        BY <1>1, <2>1, <3>1, <3>3 DEF SentFits
      <3>7. ToldFits(i)'
        BY <1>1, <2>1, <3>1 DEF ToldFits
      <3> QED
        BY <3>4, <3>5, <3>6, <3>7 DEF ItemFits
    <2> QED
      BY <1>7, <2>2, <2>3
  <1>8. ASSUME NEW i \in Items, i = First(p).item, First(p).next.works PROVE ItemFits(i)'
    <2>1. \A l \in Labels : sent'[i][l] = 0
      BY <1>8 DEF Forget, TypeOK
    <2>2. NothingAhead(i) /\ NewsSettled(i) /\ SentFits(i) /\ ToldFits(i)
      BY DEF ItemFits
    <2>3. NothingAhead(i)'
      BY <1>1, <1>3, <2>1, <2>2 DEF NothingAhead
    <2>4. NewsSettled(i)'
      BY <1>1, <1>5, <2>2 DEF NewsSettled, ToldEnough
    <2>5. SentFits(i)'
      BY <2>1 DEF SentFits
    <2>6. ToldFits(i)'
      <3> SUFFICES ASSUME NEW l \in Labels, told'[i][l] # Absent
                   PROVE  \E w \in worked'[i] : told'[i][l].n < w
        BY DEF ToldFits
      <3>1. First(p).n \in worked[i]
        BY <1>4, <1>8 DEF Fits
      <3>2. told[i][l].n < First(p).n
        BY <1>1, <1>4, <1>8 DEF Fits
      <3> QED
        BY <1>1, <3>1, <3>2
    <2> QED
      BY <2>3, <2>4, <2>5, <2>6 DEF ItemFits
  <1> QED
    BY <1>2, <1>7, <1>8

(* A change that is no news, or spared as a repeat, changes nothing told.  *)
LEMMA IgnoreKeeps ==
    ASSUME Inv, OneWriterEach, NEW p \in Procs, Ignore(p), Typed', NEW i \in Items
    PROVE  ItemFits(i)'
  <1> USE DEF Inv, Typed
  <1>1. /\ UNCHANGED <<sent, told, dropped, now, writes, worked, news>>
        /\ matching[p] /\ Done(p) /\ flight[p] # <<>>
    BY DEF Ignore, Done, Idle
  <1>2. now \in Nat
    BY DEF TypeOK
  <1>3. /\ \A j, n : Pending(j, n) =>
              Pending(j, n)' \/ (j = First(p).item /\ n = First(p).n)
        /\ \A j, n : Unforgotten(j, n) => Unforgotten(j, n)'
    BY <1>1, DoneLeaves
  <1>4. CASE i # First(p).item
    BY <1>1, <1>2, <1>3, <1>4, SameItem
  <1>5. CASE i = First(p).item
    <2>1. NothingAhead(i) /\ NewsSettled(i) /\ SentFits(i) /\ ToldFits(i)
      BY DEF ItemFits
    <2>2. NothingAhead(i)' /\ SentFits(i)' /\ ToldFits(i)'
      BY <1>1, <1>3, <2>1 DEF NothingAhead, SentFits, ToldFits
    <2>3. ASSUME news[i] # Absent, i \notin dropped PROVE ToldEnough(i)
      <3>1. CASE news[i].n # First(p).n
        <4>1. ~Pending(i, news[i].n)
          BY <1>1, <1>5, <3>1, FirstFits
        <4> QED
          BY <2>1, <2>3, <4>1 DEF NewsSettled
      <3>2. CASE news[i].n = First(p).n
        <4>1. PICK l \in Labels : l = First(p).next.label
          BY <1>1, FirstFits
        <4>2. Fits(p, First(p)) /\ First(p).n \in Nat /\ \A n : ~Unforgotten(i, n)
          BY <1>1, <1>5, FirstFits
        <4>3. Matches(First(p)) /\ news[i].label = l
          BY <1>5, <2>3, <3>2, <4>1, <4>2 DEF Fits
        <4>4. Cooling(i, l)
          BY <1>5, <4>1, <4>3 DEF Ignore
        <4>5. /\ told[i][l] # Absent /\ told[i][l].at = sent[i][l]
              /\ \A w \in worked[i] : ~(told[i][l].n < w)
          BY <2>1, <2>3, <4>2, <4>4 DEF SentFits, Cooling
        <4>6. told[i][l].n < news[i].n
          BY <1>5, <3>2, <4>2, <4>5 DEF Fits
        <4>7. told[i][l].at + Cooldown > news[i].at
          <5>1. news[i].at \in Nat /\ sent[i][l] \in Nat
            BY <2>3 DEF TypeOK, News
          <5>2. news[i].at <= now
            BY <2>1, <2>3 DEF NothingAhead
          <5>3. sent[i][l] + Cooldown > now
            BY <1>2, <4>4, <5>1, NotificationAssumptions DEF Cooling
          <5> QED
            BY <1>2, <4>5, <5>1, <5>2, <5>3, NotificationAssumptions
        <4> QED
          BY <4>3, <4>5, <4>6, <4>7 DEF ToldEnough
      <3> QED
        BY <3>1, <3>2
    <2>4. NewsSettled(i)'
      BY <1>1, <2>3 DEF NewsSettled, ToldEnough
    <2> QED
      BY <2>2, <2>4 DEF ItemFits
  <1> QED
    BY <1>4, <1>5

(* What both outcomes of an announcement share.                            *)
LEMMA AnnouncingSays ==
    ASSUME Inv, OneWriterEach, NEW p \in Procs, Announcing(p)
    PROVE  /\ matching[p] /\ Done(p) /\ flight[p] # <<>> /\ Matches(First(p))
           /\ UNCHANGED <<now, writes, worked, news>>
           /\ sent'[First(p).item][First(p).next.label] = now
           /\ \A j \in Items, m \in Labels :
                 \/ j = First(p).item /\ m = First(p).next.label
                 \/ sent'[j][m] = sent[j][m]
                 \/ sent'[j][m] = 0 /\ ~Cooling(j, m)
           /\ \A j, n : Pending(j, n) =>
                 Pending(j, n)' \/ (j = First(p).item /\ n = First(p).n)
           /\ \A j, n : Unforgotten(j, n) => Unforgotten(j, n)'
  <1>1. /\ matching[p] /\ Done(p) /\ flight[p] # <<>> /\ Matches(First(p))
        /\ UNCHANGED <<now, writes, worked, news>>
        /\ sent' = Recorded(First(p).item, First(p).next.label)
    BY DEF Announcing, Done, Inv, Typed, Idle
  <1>2. /\ \A j, n : Pending(j, n) =>
              Pending(j, n)' \/ (j = First(p).item /\ n = First(p).n)
        /\ \A j, n : Unforgotten(j, n) => Unforgotten(j, n)'
    BY <1>1, DoneLeaves DEF Inv
  <1>3. First(p).item \in Items /\ First(p).next.label \in Labels
    BY <1>1, FirstFits
  <1>4. /\ sent'[First(p).item][First(p).next.label] = now
        /\ \A j \in Items, m \in Labels :
              \/ j = First(p).item /\ m = First(p).next.label
              \/ sent'[j][m] = sent[j][m]
              \/ sent'[j][m] = 0 /\ ~Cooling(j, m)
    <2>1. TypeOK
      BY DEF Inv, Typed
    <2>2. PICK i \in Items, l \in Labels : i = First(p).item /\ l = First(p).next.label
      BY <1>3
    <2>3. sent' = Recorded(i, l)
      BY <1>1, <2>2
    <2>4. /\ sent'[i][l] = now
          /\ \A j \in Items, m \in Labels :
                sent'[j][m] # 0 /\ ~(j = i /\ m = l) => sent'[j][m] = sent[j][m]
          /\ \A j \in Items, m \in Labels : sent'[j][m] = 0 => ~Cooling(j, m)
      BY <2>1, <2>3, RecordedType
    <2> QED
      BY <2>2, <2>4
  <1> QED
    BY <1>1, <1>2, <1>4

(* An announcement is of the item's last news.                             *)
LEMMA AnnounceKeeps ==
    ASSUME Inv, OneWriterEach, NEW p \in Procs, Announce(p), Typed', NEW i \in Items
    PROVE  ItemFits(i)'
  <1> USE DEF Inv, Typed
  <1>1. Announcing(p) /\ UNCHANGED dropped
        /\ told' = [told EXCEPT ![First(p).item][First(p).next.label] =
                      [n |-> First(p).n, at |-> now]]
    BY DEF Announce
  <1>2. now \in Nat
    BY DEF TypeOK
  <1>3. PICK l \in Labels : l = First(p).next.label
    BY <1>1, AnnouncingSays, FirstFits
  <1>4. CASE i # First(p).item
    <2>1. told'[i] = told[i]
      BY <1>1, <1>4 DEF TypeOK
    <2> QED
      BY <1>1, <1>2, <1>4, <2>1, AnnouncingSays, SameItem
  <1>5. CASE i = First(p).item
    <2>1. NothingAhead(i) /\ NewsSettled(i) /\ SentFits(i) /\ ToldFits(i)
      BY DEF ItemFits
    <2>2. PICK n \in 1..MaxWrites : n = First(p).n
      BY <1>1, AnnouncingSays, FirstFits
    <2>3. Fits(p, First(p)) /\ Matches(First(p))
      BY <1>1, AnnouncingSays, FirstFits
    <2>4. /\ writes[i] = n /\ news[i] # Absent /\ news[i].label = l /\ news[i].n = n
      BY <1>3, <1>5, <2>2, <2>3 DEF Fits
    <2>5. told'[i][l] = [n |-> n, at |-> now] /\ told'[i][l] # Absent
          /\ \A m \in Labels : m # l => told'[i][m] = told[i][m]
      <3>1. [n |-> n, at |-> now] \in Tellings
        BY DEF Tellings, TypeOK
      <3> QED
        BY <1>1, <1>3, <1>5, <2>2, <3>1, AbsentAssumption DEF TypeOK
    <2>6. /\ sent'[i][l] = now
          /\ \A m \in Labels : m # l =>
                sent'[i][m] = sent[i][m] \/ (sent'[i][m] = 0 /\ ~Cooling(i, m))
          /\ UNCHANGED <<now, writes, worked, news>>
          /\ \A w : Unforgotten(i, w) => Unforgotten(i, w)'
      BY <1>1, <1>3, <1>5, AnnouncingSays
    <2>7. NothingAhead(i)'
      <3>1. ASSUME NEW m \in Labels
            PROVE  /\ sent'[i][m] <= now'
                   /\ told'[i][m] # Absent => told'[i][m].n <= writes'[i] /\ told'[i][m].at <= now'
        <4>1. CASE m = l
          BY <1>2, <2>4, <2>5, <2>6, <4>1
        <4>2. CASE m # l
          BY <1>2, <2>1, <2>5, <2>6, <4>2 DEF NothingAhead
        <4> QED
          BY <4>1, <4>2
      <3> QED
        BY <2>1, <2>6, <3>1 DEF NothingAhead
    <2>8. NewsSettled(i)'
      BY <2>4, <2>5, <2>6 DEF NewsSettled, ToldEnough
    <2>9. SentFits(i)'
      <3> SUFFICES ASSUME NEW m \in Labels, sent'[i][m] # 0, i \notin dropped'
                   PROVE  /\ told'[i][m] # Absent /\ told'[i][m].at = sent'[i][m]
                          /\ \A w \in worked'[i] : told'[i][m].n < w => Unforgotten(i, w)'
        BY DEF SentFits
      <3>1. CASE m = l
        <4>1. \A w \in worked[i] : ~(n < w)
          BY <2>1, <2>4 DEF NothingAhead, TypeOK
        <4> QED
          BY <2>5, <2>6, <3>1, <4>1
      <3>2. CASE m # l
        BY <1>1, <2>1, <2>5, <2>6, <3>2 DEF SentFits
      <3> QED
        BY <3>1, <3>2
    <2>10. ToldFits(i)'
      <3> SUFFICES ASSUME NEW m \in Labels, told'[i][m] # Absent
                   PROVE  \/ told'[i][m].at <= sent'[i][m]
                          \/ told'[i][m].at + Cooldown <= now'
                          \/ \E w \in worked'[i] : told'[i][m].n < w
        BY DEF ToldFits
      <3>1. CASE m = l
        BY <1>2, <2>5, <2>6, <3>1
      <3>2. CASE m # l
        BY <1>2, <2>5, <2>6, <3>2, ToldStays
      <3> QED
        BY <3>1, <3>2
    <2> QED
      BY <2>7, <2>8, <2>9, <2>10 DEF ItemFits
  <1> QED
    BY <1>4, <1>5

(* An announcement the full queue costs leaves its time in sent, and       *)
(* nothing told.                                                           *)
LEMMA DropKeeps ==
    ASSUME Inv, OneWriterEach, NEW p \in Procs, Drop(p), Typed', NEW i \in Items
    PROVE  ItemFits(i)'
  <1> USE DEF Inv, Typed
  <1>1. Announcing(p) /\ told' = told /\ dropped' = dropped \cup {First(p).item}
    BY DEF Drop
  <1>2. now \in Nat
    BY DEF TypeOK
  <1>3. CASE i # First(p).item
    BY <1>1, <1>2, <1>3, AnnouncingSays, SameItem
  <1>4. CASE i = First(p).item
    <2>1. PICK l \in Labels : l = First(p).next.label
      BY <1>1, AnnouncingSays, FirstFits
    <2>2. NothingAhead(i)
      BY DEF ItemFits
    <2>3. /\ sent'[i][l] = now
          /\ \A m \in Labels : m # l =>
                sent'[i][m] = sent[i][m] \/ (sent'[i][m] = 0 /\ ~Cooling(i, m))
          /\ UNCHANGED <<now, writes, worked, news>>
      BY <1>1, <1>4, <2>1, AnnouncingSays
    <2>4. NothingAhead(i)'
      <3>1. \A m \in Labels : sent'[i][m] <= now'
        BY <1>2, <2>2, <2>3 DEF NothingAhead
      <3> QED
        BY <1>1, <2>2, <2>3, <3>1 DEF NothingAhead
    <2>5. NewsSettled(i)' /\ SentFits(i)'
      BY <1>1, <1>4 DEF NewsSettled, SentFits
    <2>6. ToldFits(i)'
      <3> SUFFICES ASSUME NEW m \in Labels, told'[i][m] # Absent
                   PROVE  \/ told'[i][m].at <= sent'[i][m]
                          \/ told'[i][m].at + Cooldown <= now'
                          \/ \E w \in worked'[i] : told'[i][m].n < w
        BY DEF ToldFits
      <3>1. CASE m = l
        BY <1>1, <2>2, <2>3, <3>1 DEF NothingAhead
      <3>2. CASE m # l
        BY <1>1, <1>2, <2>3, <3>2, ToldStays
      <3> QED
        BY <3>1, <3>2
    <2> QED
      BY <2>4, <2>5, <2>6 DEF ItemFits
  <1> QED
    BY <1>3, <1>4

-----------------------------------------------------------------------------
(* Steps that neither write nor observe keep the invariant.                *)
LEMMA QuietKeeps ==
    ASSUME Inv, UNCHANGED <<flight, matching, sent, writes, worked, news, told, dropped>>,
           now' \in Nat, now <= now'
    PROVE  FlightFits' /\ \A i \in Items : ItemFits(i)'
  <1>1. FlightFits'
    BY DEF Inv, FlightFits, Fits, Matches
  <1>2. \A i, n : (Pending(i, n) => Pending(i, n)') /\ (Unforgotten(i, n) => Unforgotten(i, n)')
    BY DEF Pending, Unforgotten
  <1> QED
    BY <1>1, <1>2, SameItem

(* With one writer each, every step keeps what is told in line with what   *)
(* is written.                                                             *)
LEMMA StepKeeps == OneWriterEach /\ Inv /\ [Next]_vars => Inv'
  <1> SUFFICES ASSUME OneWriterEach, Inv, [Next]_vars PROVE Inv'
    OBVIOUS
  <1>1. Typed'
    BY TypeStep DEF Inv
  <1>2. now \in Nat /\ now' \in Nat
    BY <1>1 DEF Inv, Typed, TypeOK
  <1>3. ASSUME NEW p \in Procs, Write(p) PROVE Inv'
    BY <1>1, <1>3, WriteKeepsFlight, WriteKeepsItem DEF Inv
  <1>4. ASSUME NEW p \in Procs, Forget(p) PROVE Inv'
    BY <1>1, <1>4, ForgetKeeps DEF Inv
  <1>5. ASSUME NEW p \in Procs, Ignore(p) PROVE Inv'
    <2>1. Done(p) /\ flight[p] # <<>> /\ told' = told
      BY <1>5 DEF Ignore, Inv, Typed, Idle
    <2> QED
      BY <1>1, <1>5, <2>1, DoneKeepsFlight, IgnoreKeeps DEF Inv
  <1>6. ASSUME NEW p \in Procs, Announce(p) PROVE Inv'
    <2>1. Done(p) /\ flight[p] # <<>>
      BY <1>6, AnnouncingSays DEF Announce
    <2>2. \A i \in Items : i # First(p).item => told'[i] = told[i]
      BY <1>6 DEF Announce, Inv, Typed, TypeOK
    <2> QED
      BY <1>1, <1>6, <2>1, <2>2, DoneKeepsFlight, AnnounceKeeps DEF Inv
  <1>7. ASSUME NEW p \in Procs, Drop(p) PROVE Inv'
    <2>1. Done(p) /\ flight[p] # <<>> /\ told' = told
      BY <1>7, AnnouncingSays DEF Drop
    <2> QED
      BY <1>1, <1>7, <2>1, DoneKeepsFlight, DropKeeps DEF Inv
  <1>8. ASSUME UNCHANGED <<flight, matching, sent, writes, worked, news, told, dropped>>,
               now <= now'
        PROVE  Inv'
    BY <1>1, <1>2, <1>8, QuietKeeps DEF Inv
  <1>9. ASSUME NEW i \in Items, Snooze(i) \/ Clear(i) PROVE Inv'
    BY <1>2, <1>8, <1>9 DEF Snooze, Clear, history
  <1>10. CASE Read \/ Tick \/ Deliver \/ UNCHANGED vars
    BY <1>2, <1>8, <1>10 DEF Read, Tick, Deliver, vars, history
  <1> QED
    BY <1>3, <1>4, <1>5, <1>6, <1>7, <1>9, <1>10 DEF Next, Observe

(* Every reachable state satisfies the invariant.                          *)
LEMMA Invariance == OneWriterEach => (Spec => []Inv)
  <1> SUFFICES ASSUME OneWriterEach PROVE Spec => []Inv
    OBVIOUS
  <1>1. Inv /\ [Next]_vars => Inv'
    BY StepKeeps
  <1> QED
    BY <1>1, InitInv, PTL DEF Spec

(* An item with one writer is announced when its label becomes one that    *)
(* was asked for: once its writer has observed what it wrote, the last     *)
(* news has been told, or the same label was told within the cooldown and  *)
(* there was no work since, unless the full queue cost an announcement.    *)
THEOREM NewsGetsTold ==
    ASSUME OneWriterEach
    PROVE  Spec => []NewsIsTold
  <1>1. Inv => NewsIsTold
    <2> SUFFICES ASSUME Inv, \A p \in Procs : flight[p] = <<>>,
                        NEW i \in Items \ dropped, news[i] # Absent
                 PROVE  ToldEnough(i)
      BY DEF NewsIsTold, ToldEnough
    <2>1. ~Pending(i, news[i].n)
      BY DEF Pending
    <2> QED
      BY <2>1 DEF Inv, ItemFits, NewsSettled
  <1> QED
    BY <1>1, Invariance, PTL

(* An item with one writer does not repeat a label within the cooldown     *)
(* unless it went back to work in between, however full the queue is and   *)
(* however its snoozes come and go.                                        *)
THEOREM RepeatsGetSpared ==
    ASSUME OneWriterEach
    PROVE  Spec => RepeatsAreSpared
  <1> DEFINE Spared ==
        \A i \in Items, l \in Labels :
          told[i][l] # Absent /\ told'[i][l] # told[i][l] =>
              \/ told'[i][l].at - told[i][l].at >= Cooldown
              \/ \E w \in worked[i] : told[i][l].n < w /\ w <= told'[i][l].n
  <1>1. Inv /\ [Next]_vars => [Spared]_vars
    <2> SUFFICES ASSUME Inv, Next, NEW i \in Items, NEW l \in Labels,
                        told[i][l] # Absent, told'[i][l] # told[i][l]
                 PROVE  \/ told'[i][l].at - told[i][l].at >= Cooldown
                        \/ \E w \in worked[i] : told[i][l].n < w /\ w <= told'[i][l].n
      OBVIOUS
    <2> USE DEF Inv, Typed
    <2>1. PICK p \in Procs : Announce(p)
      BY DEF Next, Observe, Write, Forget, Ignore, Drop, Snooze, Clear, Read, Tick,
             Deliver, history
    <2>2. Announcing(p) /\ flight[p] # <<>>
          /\ told' = [told EXCEPT ![First(p).item][First(p).next.label] =
                        [n |-> First(p).n, at |-> now]]
      BY <2>1, AnnouncingSays DEF Announce
    <2>3. First(p).item = i /\ First(p).next.label = l
      BY <2>2 DEF TypeOK
    <2>4. told'[i][l] = [n |-> First(p).n, at |-> now]
      BY <2>2, <2>3 DEF TypeOK
    <2>5. ~Cooling(i, l)
      BY <2>2, <2>3 DEF Announcing
    <2>6. /\ told[i][l].at \in Nat /\ told[i][l].at # 0 /\ now \in Nat
          /\ sent[i][l] \in Nat /\ Cooldown \in Nat
      BY NotificationAssumptions DEF TypeOK, Tellings
    <2>7. First(p).n = writes[i] /\ \A w \in worked[i] : w <= writes[i]
      BY <2>2, <2>3, FirstFits DEF Fits, ItemFits, NothingAhead
    <2>8. CASE told[i][l].at <= sent[i][l]
      <3>1. sent[i][l] + Cooldown <= now
        BY <2>5, <2>6, <2>8 DEF Cooling
      <3> QED
        BY <2>4, <2>6, <2>8, <3>1
    <2>9. CASE told[i][l].at + Cooldown <= now
      BY <2>4, <2>6, <2>9
    <2>10. CASE \E w \in worked[i] : told[i][l].n < w
      BY <2>4, <2>7, <2>10
    <2> QED
      BY <2>8, <2>9, <2>10 DEF ItemFits, ToldFits
  <1> QED
    BY <1>1, Invariance, PTL DEF Spec, RepeatsAreSpared
=============================================================================
