---------------------------- MODULE Notifications ----------------------------
(***************************************************************************)
(* The notifier behind the store: which changes of which items become a    *)
(* notification.                                                           *)
(*                                                                         *)
(* A poller or an event handler writes items under the store lock, which   *)
(* yields a list of transitions, and hands the list to Notifier.Observe    *)
(* after it has let the lock go.  Observe forgets an item's history when   *)
(* it goes back to work, spares it a repeat of a label within Cooldown,    *)
(* and offers the rest to a bounded queue without ever waiting for room.   *)
(* Writers observe at the same time, so two lists about one item can be    *)
(* observed in the other order than they were written.  Run takes from the *)
(* queue and delivers, or fails to.                                        *)
(*                                                                         *)
(* A label is the class of the words that normalize makes equal.  The      *)
(* variables of `history` only record; they number the writes of an item.  *)
(***************************************************************************)
EXTENDS Naturals, Sequences, SequencesExt

CONSTANTS
    Items,      \* item ids
    Readings,   \* what an item can read as: [label, works]
    Watched,    \* the labels of Config.Labels
    Absent,     \* in place of a reading or an announcement
    NoLabel,    \* in place of a label: no snooze
    Procs,      \* goroutines that write to the store
    WrittenBy,  \* WrittenBy[p]: the items p writes
    Cooldown,   \* time a label of an item is spared a repeat
    QueueDepth, \* notifications the queue holds
    MaxTime,    \* bound on the clock
    MaxWrites   \* bound on the writes of an item

Labels == {r.label : r \in Readings}

ASSUME NotificationAssumptions ==
    /\ IsFiniteSet(Items)
    /\ \A r \in Readings : r.works \in BOOLEAN
    /\ Watched \subseteq Labels
    /\ NoLabel \notin Labels
    /\ WrittenBy \in [Procs -> SUBSET Items]
    /\ Cooldown \in Nat \ {0} /\ QueueDepth \in Nat \ {0}
    /\ MaxTime \in Nat \ {0} /\ MaxWrites \in Nat

(* What the histories say of an item: its last news, and what was told.    *)
News == [label : Watched, n : 1..MaxWrites, at : 1..MaxTime]

Tellings == [n : 1..MaxWrites, at : 1..MaxTime]

ASSUME AbsentAssumption == Absent \notin Readings \cup News \cup Tellings

VARIABLES
    items,    \* items[i]: how the item the store holds reads
    snooze,   \* snooze[i]: the label a standing snooze of i was made about
    flight,   \* flight[p]: the transitions p has yet to observe
    matching, \* matching[p]: whether p has done the forgetting for the first
    sent,     \* Notifier.sent, 0 for an item and label it does not hold
    queue,    \* Notifier.queue
    now,      \* the clock
    writes,   \* history: how many writes of each item changed it
    worked,   \* history: the writes that left it working
    news,     \* history: the last write of each item that was news
    told,     \* history: the last announcement of each item and label
    dropped   \* history: the items the full queue cost an announcement

history == <<writes, worked, news, told, dropped>>

vars == <<items, snooze, flight, matching, sent, queue, now, history>>

-----------------------------------------------------------------------------
Init ==
    /\ items = [i \in Items |-> Absent]
    /\ snooze = [i \in Items |-> NoLabel]
    /\ flight = [p \in Procs |-> <<>>]
    /\ matching = [p \in Procs |-> FALSE]
    /\ sent = [i \in Items |-> [l \in Labels |-> 0]]
    /\ queue = <<>>
    /\ now = 1
    /\ writes = [i \in Items |-> 0]
    /\ worked = [i \in Items |-> {}]
    /\ news = [i \in Items |-> Absent]
    /\ told = [i \in Items |-> [l \in Labels |-> Absent]]
    /\ dropped = {}

(* Variant of Covered: any snooze covers it. *)
CoveredByAny(i, r) == snooze[i] # NoLabel

(* record and transition: the copy is marked when a snooze that is not     *)
(* spent covers how the item now reads.                                    *)
Covered(i, r) == snooze[i] = r.label

Transition(i, r) ==
    [item |-> i, prev |-> items[i], next |-> r,
     snoozed |-> Covered(i, r), n |-> writes[i] + 1]

(* What match takes for news, the cooldown aside: not a first sighting,    *)
(* not snoozed, a watched label, and another one than before.              *)
Matches(t) ==
    /\ t.prev # Absent
    /\ ~t.snoozed
    /\ t.next.label \in Watched
    /\ t.prev.label # t.next.label

(* ReplaceSource or Put, up to the call of observe, by a goroutine that    *)
(* has observed what it wrote before.                                      *)
Changing(next) == {i \in Items : next[i] # items[i] /\ next[i] # Absent}

IsNews(i, r) ==
    /\ items[i] # Absent /\ r.label \in Watched
    /\ items[i].label # r.label /\ snooze[i] # r.label

Write(p) ==
    /\ flight[p] = <<>>
    /\ \E own \in [WrittenBy[p] -> Readings \cup {Absent}] :
          LET next == [i \in Items |-> IF i \in WrittenBy[p] THEN own[i] ELSE items[i]] IN
          /\ \A i \in Changing(next) : writes[i] < MaxWrites
          /\ items' = next
          /\ flight' = [flight EXCEPT ![p] =
                          SetToSeq({Transition(i, next[i]) : i \in Changing(next)})]
          /\ writes' = [i \in Items |-> writes[i] + IF i \in Changing(next) THEN 1 ELSE 0]
          /\ worked' = [i \in Items |-> worked[i] \cup
                          IF i \in Changing(next) /\ next[i].works THEN {writes[i] + 1} ELSE {}]
          /\ news' = [i \in Items |->
                        IF i \in Changing(next) /\ IsNews(i, next[i])
                        THEN [label |-> next[i].label, n |-> writes[i] + 1, at |-> now]
                        ELSE news[i]]
    /\ UNCHANGED <<snooze, matching, sent, queue, now, told, dropped>>

(* Decide and Clear, and a read that finds a snooze spent. *)
Snooze(i) ==
    /\ items[i] # Absent
    /\ snooze' = [snooze EXCEPT ![i] = items[i].label]
    /\ UNCHANGED <<items, flight, matching, sent, queue, now, history>>

Clear(i) ==
    /\ items[i] # Absent
    /\ snooze' = [snooze EXCEPT ![i] = NoLabel]
    /\ UNCHANGED <<items, flight, matching, sent, queue, now, history>>

Read ==
    /\ snooze' = [i \in Items |->
                    IF items[i] # Absent /\ items[i].label # snooze[i] THEN NoLabel
                    ELSE snooze[i]]
    /\ UNCHANGED <<items, flight, matching, sent, queue, now, history>>

Tick ==
    /\ now < MaxTime
    /\ now' = now + 1
    /\ UNCHANGED <<items, snooze, flight, matching, sent, queue, history>>

-----------------------------------------------------------------------------
(* Observe, for the first transition p has left. *)
First(p) == flight[p][1]

(* Variant of Forget: nothing is forgotten. *)
ForgetNothing(p) ==
    /\ flight[p] # <<>> /\ ~matching[p]
    /\ matching' = [matching EXCEPT ![p] = TRUE]
    /\ UNCHANGED <<items, snooze, flight, sent, queue, now, history>>

(* forget, when the item has gone back to work. *)
Forget(p) ==
    /\ flight[p] # <<>> /\ ~matching[p]
    /\ matching' = [matching EXCEPT ![p] = TRUE]
    /\ sent' = IF First(p).next.works
               THEN [sent EXCEPT ![First(p).item] = [l \in Labels |-> 0]]
               ELSE sent
    /\ UNCHANGED <<items, snooze, flight, queue, now, history>>

(* Variant of Cooling: one moment is enough. *)
CoolingForAMoment(i, l) == sent[i][l] # 0 /\ now = sent[i][l]

(* cooling. *)
Cooling(i, l) == sent[i][l] # 0 /\ now - sent[i][l] < Cooldown

(* Recorded, everything past its cooldown dropped on the way. *)
Recorded(i, l) ==
    [j \in Items |-> [m \in Labels |->
        IF j = i /\ m = l THEN now
        ELSE IF Cooling(j, m) THEN sent[j][m] ELSE 0]]

(* match, and the send that does not wait.  Between cooling and the send   *)
(* the notifier's lock is free; what another goroutine does there it may   *)
(* as well have done before.                                               *)
Done(p) ==
    /\ flight' = [flight EXCEPT ![p] = Tail(@)]
    /\ matching' = [matching EXCEPT ![p] = FALSE]
    /\ UNCHANGED <<items, snooze, now, writes, worked, news>>

Ignore(p) ==
    /\ matching[p]
    /\ ~Matches(First(p)) \/ Cooling(First(p).item, First(p).next.label)
    /\ Done(p)
    /\ UNCHANGED <<sent, queue, told, dropped>>

Announcing(p) ==
    /\ matching[p]
    /\ Matches(First(p)) /\ ~Cooling(First(p).item, First(p).next.label)
    /\ sent' = Recorded(First(p).item, First(p).next.label)
    /\ Done(p)

(* Variant of Announce: room for one more than there is. *)
AnnounceOverfull(p) ==
    /\ Announcing(p)
    /\ Len(queue) <= QueueDepth
    /\ queue' = Append(queue, [item |-> First(p).item, label |-> First(p).next.label])
    /\ told' = [told EXCEPT ![First(p).item][First(p).next.label] =
                  [n |-> First(p).n, at |-> now]]
    /\ UNCHANGED dropped

Announce(p) ==
    /\ Announcing(p)
    /\ Len(queue) < QueueDepth
    /\ queue' = Append(queue, [item |-> First(p).item, label |-> First(p).next.label])
    /\ told' = [told EXCEPT ![First(p).item][First(p).next.label] =
                  [n |-> First(p).n, at |-> now]]
    /\ UNCHANGED dropped

(* Variant of Drop: the send waits for room. *)
WaitForRoom(p) == FALSE /\ Announcing(p)

Drop(p) ==
    /\ Announcing(p)
    /\ Len(queue) = QueueDepth
    /\ dropped' = dropped \cup {First(p).item}
    /\ UNCHANGED <<queue, told>>

Observe(p) == Forget(p) \/ Ignore(p) \/ Announce(p) \/ Drop(p)

(* Run takes one and delivers it; a route that fails loses it. *)
Deliver ==
    /\ queue # <<>>
    /\ queue' = Tail(queue)
    /\ UNCHANGED <<items, snooze, flight, matching, sent, now, history>>

Next ==
    \/ \E p \in Procs : Write(p) \/ Observe(p)
    \/ \E i \in Items : Snooze(i) \/ Clear(i)
    \/ Read
    \/ Tick
    \/ Deliver

Spec == Init /\ [][Next]_vars

(* Observe runs on the writer's goroutine and waits for no other; whether  *)
(* Run ever gets a notification through is up to the route.                *)
FairSpec == Spec /\ \A p \in Procs : WF_vars(Observe(p))

-----------------------------------------------------------------------------
Transitions ==
    [item : Items, prev : Readings \cup {Absent}, next : Readings,
     snoozed : BOOLEAN, n : 1..MaxWrites]

(* Types of the state. *)
TypeOK ==
    /\ items \in [Items -> Readings \cup {Absent}]
    /\ snooze \in [Items -> Labels \cup {NoLabel}]
    /\ flight \in [Procs -> Seq(Transitions)]
    /\ matching \in [Procs -> BOOLEAN]
    /\ sent \in [Items -> [Labels -> 0..MaxTime]]
    /\ queue \in Seq([item : Items, label : Watched])
    /\ Len(queue) <= QueueDepth
    /\ now \in 1..MaxTime
    /\ writes \in [Items -> 0..MaxWrites]
    /\ worked \in [Items -> SUBSET (1..MaxWrites)]
    /\ news \in [Items -> News \cup {Absent}]
    /\ told \in [Items -> [Labels -> Tellings \cup {Absent}]]
    /\ dropped \subseteq Items

(* README.md:854: an item does not repeat a label within the cooldown,     *)
(* unless it went back to work after the change it announced before.       *)
RepeatsAreSpared ==
    [][\A i \in Items, l \in Labels :
          told[i][l] # Absent /\ told'[i][l] # told[i][l] =>
              \/ told'[i][l].at - told[i][l].at >= Cooldown
              \/ \E w \in worked[i] : told[i][l].n < w /\ w <= told'[i][l].n]_vars

(* Once everything written is observed, the last change of an item that    *)
(* was news has been announced, or the same label was, less than Cooldown  *)
(* before and with no work since.  The end of a snooze by a change of      *)
(* label is news like any other.  This is of an item that the full queue   *)
(* never cost an announcement: notify.go:72-73 has sent hold when a label  *)
(* was last announced, and Drop leaves it holding a time when nothing was. *)
NewsIsTold ==
    (\A p \in Procs : flight[p] = <<>>) =>
        \A i \in Items \ dropped : news[i] # Absent =>
            LET t == told[i][news[i].label] IN
            /\ t # Absent
            /\ \/ t.n = news[i].n
               \/ /\ t.n < news[i].n
                  /\ t.at + Cooldown > news[i].at
                  /\ \A w \in worked[i] : ~(t.n < w /\ w <= news[i].n)

(* store.go:65-66: the observer does not block.  A writer gets to the end  *)
(* of its transitions even if nothing is ever delivered.                   *)
ObserverReturns ==
    \A p \in Procs : flight[p] # <<>> ~> flight[p] = <<>>
=============================================================================
