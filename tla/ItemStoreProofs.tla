--------------------------- MODULE ItemStoreProofs ---------------------------
(***************************************************************************)
(* Theorems about ItemStore, for any sources, ids, readings and spans.     *)
(* What becomes of events' items and of news needs that keys can be told   *)
(* apart (KeysApart), since an event may land on an adapter's item; what a *)
(* poll leaves of an adapter's items does not.                             *)
(***************************************************************************)
EXTENDS ItemStore, TLAPS

(* The lists adapter a may give the store: its own keys, and no times      *)
(* where its backend has none.                                             *)
Lists(a) ==
    {list \in UNION {[S -> Sightings] : S \in SUBSET AdapterKeys(a)} :
        a \notin Dated => \A k \in DOMAIN list : list[k].at = 0}

(* When the item an event left goes; 0 if it stays.                        *)
EndOfLife(e) ==
    IF EventTTL > 0 /\ e.reading \in Finished THEN e.at + EventTTL ELSE 0

(* An event's item ends when its last event says, and is gone only after.  *)
EventItemFits(k) ==
    /\ items[k] # Absent =>
          /\ lastEvent[k] # Absent
          /\ items[k].source \notin Adapters
          /\ items[k].expires = EndOfLife(lastEvent[k])
    /\ items[k] = Absent /\ lastEvent[k] # Absent =>
          EndOfLife(lastEvent[k]) # 0 /\ EndOfLife(lastEvent[k]) <= now

(* What is stored under a key of adapter a is a's, and, if a has no times  *)
(* of its own, is no older than the news about it.                         *)
AdapterItemFits(a, k) ==
    items[k] # Absent =>
        /\ items[k].source = a
        /\ a \notin Dated => news[k] <= items[k].at

Inv ==
    /\ TypeOK
    /\ \A k \in Keys \ Backed : EventItemFits(k)
    /\ \A a \in Adapters : \A k \in AdapterKeys(a) : AdapterItemFits(a, k)

-----------------------------------------------------------------------------
(* A backend's answer, and a blank one, are such lists.                    *)
LEMMA ListsAreListed ==
    ASSUME TypeOK, NEW a \in Adapters
    PROVE  Listed(a) \in Lists(a) /\ NothingListed \in Lists(a)
<1> DEFINE own == {k \in AdapterKeys(a) : world[k] # Absent}
<1>1. own \in SUBSET AdapterKeys(a) /\ AdapterKeys(a) \subseteq Backed
  BY DEF Backed
<1>2. \A k \in own : world[k] \in Sightings
  BY <1>1 DEF TypeOK
<1>3. DOMAIN Listed(a) = own
  BY DEF Listed
<1>4. ASSUME NEW k \in own
      PROVE  Listed(a)[k] \in Sightings /\ (a \notin Dated => Listed(a)[k].at = 0)
  <2>1. world[k].reading \in Readings /\ world[k].at \in 0..MaxTime /\ 0 \in 0..MaxTime
    BY <1>2, ItemStoreAssumptions DEF Sightings
  <2> QED
    BY <2>1 DEF Listed, Sightings
<1>5. Listed(a) \in [own -> Sightings]
  BY <1>4 DEF Listed
<1>6. NothingListed \in [{} -> Sightings] /\ {} \in SUBSET AdapterKeys(a)
      /\ DOMAIN NothingListed = {}
  BY DEF NothingListed
<1> QED
  BY <1>1, <1>3, <1>4, <1>5, <1>6 DEF Lists

(* An adapter's keys are keys, and an event's is one too.                  *)
LEMMA KeysAreKeys ==
    /\ \A a \in Adapters : AdapterKeys(a) \subseteq Backed
    /\ Backed \subseteq Keys
    /\ \A n \in Names, id \in EventIds : Key(n.words, id) \in Keys
  BY DEF Backed, Keys

(* What a list brings to the store is a well-formed item.                  *)
LEMMA RefreshedType ==
    ASSUME TypeOK, NEW a \in Adapters, NEW k \in Keys, NEW r \in Sightings
    PROVE  Refreshed(a, k, r) \in Items
<1>1. r.reading \in Readings /\ r.at \in 0..MaxTime /\ now \in 1..MaxTime
  BY DEF Sightings, TypeOK
<1>2. 0 \in Times
  BY ItemStoreAssumptions DEF Times
<1>3. Same(k, r.reading) => items[k].at \in 1..MaxTime
  BY DEF Same, TypeOK, Items
<1>4. (IF Same(k, r.reading) THEN items[k].at ELSE IF r.at = 0 THEN now ELSE r.at)
        \in 1..MaxTime
  BY <1>1, <1>3, ItemStoreAssumptions
<1> QED
  BY <1>1, <1>2, <1>4 DEF Refreshed, Items

(* What an event brings is one too.                                        *)
LEMMA PutType ==
    ASSUME TypeOK, NEW n \in Names, NEW r \in Readings, NEW stamp \in {0, 1}
    PROVE  [source |-> n.words, reading |-> r, expires |-> ExpiresAt(r),
            at |-> IF stamp = 0 THEN now ELSE stamp] \in Items
<1>1. now \in 1..MaxTime
  BY DEF TypeOK
<1>2. ExpiresAt(r) \in Times
  BY <1>1, ItemStoreAssumptions DEF ExpiresAt, Times
<1>3. (IF stamp = 0 THEN now ELSE stamp) \in 1..MaxTime
  BY <1>1, ItemStoreAssumptions
<1> QED
  BY <1>2, <1>3 DEF Items

(* Every step keeps the types.                                             *)
LEMMA TypeStep == TypeOK /\ [Next]_vars => TypeOK'
<1> SUFFICES ASSUME TypeOK, [Next]_vars PROVE TypeOK'
  OBVIOUS
<1>0. now \in 1..MaxTime /\ 0 \in 0..MaxTime /\ now \in 0..MaxTime
  BY ItemStoreAssumptions DEF TypeOK
<1>1. CASE UNCHANGED vars
  BY <1>1 DEF vars, history, TypeOK
<1>2. ASSUME NEW k \in Backed, WorldMoves(k) PROVE TypeOK'
  <2>1. ASSUME NEW r \in Readings PROVE [reading |-> r, at |-> now] \in Sightings
    BY <1>0 DEF Sightings
  <2>2. world' \in [Backed -> Sightings \cup {Absent}]
    BY <1>2, <2>1 DEF WorldMoves, TypeOK
  <2> QED
    BY <1>2, <2>2 DEF WorldMoves, history, TypeOK
<1>3. ASSUME NEW k \in Backed, WorldDrops(k) PROVE TypeOK'
  BY <1>3 DEF WorldDrops, history, TypeOK
<1>4. CASE Tick
  <2>1. now' \in 1..MaxTime
    BY <1>4, <1>0, ItemStoreAssumptions DEF Tick
  <2> QED
    BY <1>4, <2>1 DEF Tick, history, TypeOK
<1>5. ASSUME NEW a \in Adapters, NEW list \in Lists(a), Reports(a, list) PROVE TypeOK'
  <2>1. \A k \in DOMAIN list : list[k] \in Sightings
    BY DEF Lists
  <2>2. items' \in [Keys -> Items \cup {Absent}]
    BY <1>5, <2>1, RefreshedType DEF Reports, ReplaceSource, TypeOK
  <2>3. \A b \in Adapters :
           reported'[b] \in UNION {[S -> Sightings] : S \in SUBSET AdapterKeys(b)}
    BY <1>5 DEF Reports, Lists, TypeOK
  <2>4. news' \in [Keys -> 0..MaxTime]
    BY <1>5, <1>0 DEF Reports, TypeOK
  <2>5. lastEvent' \in [Keys -> Sightings \cup {Absent}]
    BY <1>5 DEF Reports, TypeOK
  <2> QED
    BY <1>5, <2>2, <2>3, <2>4, <2>5 DEF Reports, TypeOK
<1>6. ASSUME NEW n \in Names, NEW id \in EventIds, NEW r \in Readings,
             NEW stamp \in {0, 1}, Event(n, id, r, stamp)
      PROVE  TypeOK'
  <2>1. items' \in [Keys -> Items \cup {Absent}]
    BY <1>6, PutType DEF Event, Put, TypeOK
  <2>2. [reading |-> r, at |-> now] \in Sightings
    BY <1>0 DEF Sightings
  <2>3. lastEvent' \in [Keys -> Sightings \cup {Absent}]
    BY <1>6, <2>2 DEF Event, TypeOK
  <2> QED
    BY <1>6, <2>1, <2>3 DEF Event, TypeOK
<1>7. CASE Read
  BY <1>7 DEF Read, history, TypeOK
<1>8. CASE Restart
  <2>1. \A b \in Adapters :
           reported'[b] \in UNION {[S -> Sightings] : S \in SUBSET AdapterKeys(b)}
    BY <1>8 DEF Restart, NothingListed
  <2> QED
    BY <1>8, <1>0, <2>1 DEF Restart, TypeOK
<1> QED
  BY <1>1, <1>2, <1>3, <1>4, <1>5, <1>6, <1>7, <1>8, ListsAreListed DEF Next, Poll, PollBlank

(* A store that has just started satisfies the invariant.                  *)
LEMMA InitInv == Init => Inv
<1> SUFFICES ASSUME Init PROVE Inv
  OBVIOUS
<1>1. 1 \in 1..MaxTime /\ 0 \in 0..MaxTime
  BY ItemStoreAssumptions
<1>2. \A a \in Adapters :
         reported[a] \in UNION {[S -> Sightings] : S \in SUBSET AdapterKeys(a)}
  <2>1. \A a \in Adapters : reported[a] = NothingListed
    BY DEF Init
  <2>2. NothingListed \in [{} -> Sightings]
    BY DEF NothingListed
  <2>3. \A a \in Adapters : {} \in SUBSET AdapterKeys(a)
    OBVIOUS
  <2> QED
    BY <2>1, <2>2, <2>3
<1>3. TypeOK
  BY <1>1, <1>2 DEF Init, TypeOK
<1>4. \A k \in Keys : items[k] = Absent /\ lastEvent[k] = Absent
  BY DEF Init
<1> QED
  BY <1>3, <1>4, KeysAreKeys DEF Inv, EventItemFits, AdapterItemFits

-----------------------------------------------------------------------------
(* Absent is no item and no sighting: what is put somewhere is there.      *)
LEMMA AbsentIsNothing ==
    /\ \A i \in Items : i # Absent
    /\ \A e \in Sightings : e # Absent
  BY AbsentAssumption

(* A list of adapter b leaves every key alone that is not b's.             *)
LEMMA ListsKeepToTheirKeys ==
    ASSUME TypeOK, NEW b \in Adapters, NEW list \in Lists(b), Reports(b, list),
           NEW k \in Keys, k \notin AdapterKeys(b), items[k] # Absent => items[k].source # b
    PROVE  items'[k] = items[k] /\ news'[k] = news[k]
<1>1. k \notin DOMAIN list /\ ~Owned(b, k)
  BY DEF Lists, Owned
<1> QED
  BY <1>1 DEF Reports, ReplaceSource, TypeOK

(* An event touches its own key only.                                      *)
LEMMA EventsKeepToTheirKey ==
    ASSUME TypeOK, NEW n \in Names, NEW id \in EventIds, NEW r \in Readings,
           NEW stamp \in {0, 1}, Event(n, id, r, stamp),
           NEW k \in Keys, k # Key(n.words, id)
    PROVE  items'[k] = items[k] /\ lastEvent'[k] = lastEvent[k]
  BY DEF Event, Put, TypeOK

(* What a step leaves of an event's item fits its last event.              *)
LEMMA EventItemStep ==
    ASSUME KeysApart, TypeOK, [Next]_vars, NEW k \in Keys \ Backed, EventItemFits(k)
    PROVE  EventItemFits(k)'
<1>0. now \in 1..MaxTime /\ (lastEvent[k] # Absent =>
         lastEvent[k].at \in 0..MaxTime /\ EndOfLife(lastEvent[k]) \in Nat)
  <2>1. lastEvent[k] # Absent => lastEvent[k] \in Sightings
    BY DEF TypeOK
  <2> QED
    BY <2>1, ItemStoreAssumptions DEF TypeOK, Sightings, EndOfLife
<1>1. CASE /\ items'[k] = items[k] /\ lastEvent'[k] = lastEvent[k]
           /\ now' \in Nat /\ now <= now'
  BY <1>0, <1>1 DEF EventItemFits, EndOfLife
<1>2. ASSUME NEW b \in Adapters, NEW list \in Lists(b), Reports(b, list)
      PROVE  EventItemFits(k)'
  <2>1. k \notin AdapterKeys(b) /\ (items[k] # Absent => items[k].source # b)
    BY KeysAreKeys DEF EventItemFits
  <2>2. items'[k] = items[k]
    BY <1>2, <2>1, ListsKeepToTheirKeys
  <2>3. lastEvent'[k] = lastEvent[k] /\ now' = now
    BY <1>2, <2>1 DEF Reports
  <2> QED
    BY <1>0, <1>1, <2>2, <2>3
<1>3. ASSUME NEW n \in Names, NEW id \in EventIds, NEW r \in Readings,
             NEW stamp \in {0, 1}, Event(n, id, r, stamp)
      PROVE  EventItemFits(k)'
  <2>1. now' = now
    BY <1>3 DEF Event
  <2>2. CASE k # Key(n.words, id)
    BY <1>0, <1>1, <1>3, <2>1, <2>2, EventsKeepToTheirKey
  <2>3. CASE k = Key(n.words, id)
    <3> DEFINE item == [source |-> n.words, reading |-> r, expires |-> ExpiresAt(r),
                        at |-> IF stamp = 0 THEN now ELSE stamp]
               seen == [reading |-> r, at |-> now]
    <3>1. item # Absent /\ seen # Absent
      <4>1. item \in Items
        BY PutType
      <4>2. seen \in Sightings
        BY <1>0 DEF Sightings
      <4> QED
        BY <4>1, <4>2, AbsentIsNothing
    <3>2. items'[k] = item /\ lastEvent'[k] = seen
      BY <1>3, <2>3 DEF Event, Put, TypeOK
    <3>3. n.words \notin Adapters
      BY <1>3 DEF KeysApart, Event, Reserved
    <3>4. item.source = n.words /\ item.expires = EndOfLife(seen)
      BY DEF ExpiresAt, EndOfLife
    <3> HIDE DEF item, seen
    <3> QED
      BY <3>1, <3>2, <3>3, <3>4 DEF EventItemFits, EndOfLife
  <2> QED
    BY <2>2, <2>3
<1>4. CASE Read
  <2>1. lastEvent' = lastEvent /\ now' = now
        /\ items'[k] = IF Expired(k) THEN Absent ELSE items[k]
    BY <1>4 DEF Read, history
  <2>2. CASE Expired(k)
    <3>1. items'[k] = Absent /\ lastEvent[k] # Absent
          /\ EndOfLife(lastEvent[k]) # 0 /\ EndOfLife(lastEvent[k]) <= now
      BY <1>0, <2>1, <2>2 DEF Expired, EventItemFits
    <3> QED
      BY <2>1, <3>1 DEF EventItemFits, EndOfLife
  <2>3. CASE ~Expired(k)
    BY <1>0, <1>1, <2>1, <2>3
  <2> QED
    BY <2>2, <2>3
<1>5. CASE Restart
  BY <1>5 DEF Restart, EventItemFits
<1>6. ASSUME NEW j \in Backed, WorldMoves(j) \/ WorldDrops(j) PROVE EventItemFits(k)'
  BY <1>0, <1>1, <1>6 DEF WorldMoves, WorldDrops, history
<1>7. CASE Tick
  BY <1>0, <1>1, <1>7 DEF Tick, history
<1>8. CASE UNCHANGED vars
  BY <1>0, <1>1, <1>8 DEF vars, history
<1> QED
  BY <1>2, <1>3, <1>4, <1>5, <1>6, <1>7, <1>8, ListsAreListed DEF Next, Poll, PollBlank

(* A poll leaves what it lists with a time no older than its news.         *)
LEMMA ListedIsNews ==
    ASSUME TypeOK, NEW a \in Adapters, NEW list \in Lists(a), Reports(a, list),
           NEW k \in AdapterKeys(a), AdapterItemFits(a, k)
    PROVE  AdapterItemFits(a, k)'
<1>0. k \in Keys /\ now \in 1..MaxTime /\ (items[k] # Absent => items[k] \in Items)
      /\ news \in [Keys -> 0..MaxTime]
  BY KeysAreKeys DEF TypeOK
<1>1. CASE k \in DOMAIN list
  <2>1. items'[k] = Refreshed(a, k, list[k]) /\ items'[k].source = a
    BY <1>0, <1>1 DEF Reports, ReplaceSource, Refreshed
  <2>2. CASE Owned(a, k) /\ items[k].reading = list[k].reading
    <3>1. news'[k] = news[k] /\ Same(k, list[k].reading)
      BY <1>0, <1>1, <2>2 DEF Reports, Owned, Same
    <3>2. items'[k].at = items[k].at
      BY <2>1, <3>1 DEF Refreshed
    <3>3. a \notin Dated => news[k] <= items[k].at
      BY <2>2 DEF Owned, AdapterItemFits
    <3> QED
      BY <2>1, <3>1, <3>2, <3>3 DEF AdapterItemFits
  <2>3. CASE ~(Owned(a, k) /\ items[k].reading = list[k].reading)
    <3>1. news'[k] = now /\ ~Same(k, list[k].reading)
      BY <1>0, <1>1, <2>3 DEF Reports, Owned, Same, AdapterItemFits
    <3>2. a \notin Dated => items'[k].at = now
      BY <1>1, <2>1, <3>1 DEF Refreshed, Lists
    <3> QED
      BY <1>0, <2>1, <3>1, <3>2 DEF AdapterItemFits
  <2> QED
    BY <2>2, <2>3
<1>2. CASE k \notin DOMAIN list
  <2>1. items'[k] = Absent
    BY <1>0, <1>2 DEF Reports, ReplaceSource, Owned, AdapterItemFits
  <2> QED
    BY <2>1 DEF AdapterItemFits
<1> QED
  BY <1>1, <1>2

(* Every step keeps what is stored under an adapter's key that adapter's,  *)
(* and no older than the news about it.                                    *)
LEMMA AdapterItemStep ==
    ASSUME KeysApart, TypeOK, [Next]_vars,
           NEW a \in Adapters, NEW k \in AdapterKeys(a), AdapterItemFits(a, k)
    PROVE  AdapterItemFits(a, k)'
<1>0. k \in Keys /\ k \in Backed
  BY KeysAreKeys
<1>1. CASE items'[k] \in {items[k], Absent} /\ news'[k] = news[k]
  BY <1>1 DEF AdapterItemFits
<1>2. ASSUME NEW b \in Adapters, NEW list \in Lists(b), Reports(b, list)
      PROVE  AdapterItemFits(a, k)'
  <2>1. CASE a = b
    BY <1>2, <2>1, ListedIsNews
  <2>2. CASE a # b
    <3>1. k \notin AdapterKeys(b) /\ (items[k] # Absent => items[k].source # b)
      BY <2>2 DEF KeysApart, AdapterItemFits
    <3> QED
      BY <1>0, <1>1, <1>2, <3>1, ListsKeepToTheirKeys
  <2> QED
    BY <2>1, <2>2
<1>3. ASSUME NEW n \in Names, NEW id \in EventIds, NEW r \in Readings,
             NEW stamp \in {0, 1}, Event(n, id, r, stamp)
      PROVE  AdapterItemFits(a, k)'
  <2>1. k # Key(n.words, id)
    BY <1>0, <1>3 DEF KeysApart, Event, Reserved
  <2>2. items'[k] = items[k] /\ news' = news
    BY <1>0, <1>3, <2>1, EventsKeepToTheirKey DEF Event
  <2> QED
    BY <1>1, <2>2
<1>4. CASE Read
  BY <1>0, <1>1, <1>4 DEF Read, history
<1>5. CASE Restart
  BY <1>0, <1>5 DEF Restart, AdapterItemFits
<1>6. ASSUME NEW j \in Backed, WorldMoves(j) \/ WorldDrops(j) PROVE AdapterItemFits(a, k)'
  BY <1>1, <1>6 DEF WorldMoves, WorldDrops, history
<1>7. CASE Tick \/ UNCHANGED vars
  BY <1>1, <1>7 DEF Tick, vars, history
<1> QED
  BY <1>2, <1>3, <1>4, <1>5, <1>6, <1>7, ListsAreListed DEF Next, Poll, PollBlank

-----------------------------------------------------------------------------
(* Every reachable state satisfies the invariant.                          *)
LEMMA Invariance ==
    ASSUME KeysApart
    PROVE  Spec => []Inv
<1>1. Inv /\ [Next]_vars => Inv'
  <2> SUFFICES ASSUME Inv, [Next]_vars PROVE Inv'
    OBVIOUS
  <2>1. TypeOK'
    BY TypeStep DEF Inv
  <2>2. \A k \in Keys \ Backed : EventItemFits(k)'
    BY EventItemStep DEF Inv
  <2>3. \A a \in Adapters : \A k \in AdapterKeys(a) : AdapterItemFits(a, k)'
    BY AdapterItemStep DEF Inv
  <2> QED
    BY <2>1, <2>2, <2>3 DEF Inv
<1> QED
  BY InitInv, <1>1, PTL DEF Spec

(* The state has its types; this needs nothing of the keys.                *)
THEOREM StoreTyped == Spec => []TypeOK
<1>1. Init => TypeOK
  BY InitInv DEF Inv
<1> QED
  BY <1>1, TypeStep, PTL DEF Spec

(* An event's item is served until it has ended for EventTTL, and goes     *)
(* then, whatever polls, reads and restarts come in between.               *)
THEOREM EventsAreServedWhileLive ==
    ASSUME KeysApart
    PROVE  Spec => []EventItemsServedWhileLive
<1>1. ASSUME Inv, NEW k \in Keys \ Backed
      PROVE  k \in Served <=>
                /\ lastEvent[k] # Absent
                /\ \/ lastEvent[k].reading \notin Finished
                   \/ EventTTL = 0
                   \/ now < lastEvent[k].at + EventTTL
  <2>1. EventItemFits(k) /\ now \in 1..MaxTime
        /\ (lastEvent[k] # Absent => lastEvent[k].at \in 0..MaxTime)
    BY <1>1 DEF Inv, TypeOK, Sightings
  <2>2. k \in Served <=> items[k] # Absent /\ (items[k].expires = 0 \/ now < items[k].expires)
    <3>1. items[k] # Absent => items[k].expires \in Times
      BY <1>1 DEF Inv, TypeOK, Items
    <3> QED
      BY <2>1, <3>1, ItemStoreAssumptions DEF Served, Expired, Times
  <2>3. CASE lastEvent[k] = Absent
    BY <2>1, <2>2, <2>3 DEF EventItemFits
  <2>4. CASE lastEvent[k] # Absent
    <3> DEFINE end == EndOfLife(lastEvent[k])
    <3>1. k \in Served <=> (end = 0 \/ now < end)
      <4>1. end \in Nat
        BY <2>1, <2>4, ItemStoreAssumptions DEF EndOfLife
      <4>2. CASE items[k] = Absent
        <5>1. end # 0 /\ end <= now /\ k \notin Served
          BY <2>1, <2>2, <2>4, <4>2 DEF EventItemFits
        <5> HIDE DEF end
        <5> QED
          BY <2>1, <4>1, <5>1
      <4>3. CASE items[k] # Absent
        <5>1. items[k].expires = end
          BY <2>1, <4>3 DEF EventItemFits
        <5> QED
          BY <2>2, <4>3, <5>1
      <4> QED
        BY <4>2, <4>3
    <3>2. (end = 0 \/ now < end) <=> \/ lastEvent[k].reading \notin Finished
                                   \/ EventTTL = 0
                                   \/ now < lastEvent[k].at + EventTTL
      BY <2>1, <2>4, ItemStoreAssumptions DEF EndOfLife
    <3> QED
      BY <2>4, <3>1, <3>2
  <2> QED
    BY <2>3, <2>4
<1>2. Inv => EventItemsServedWhileLive
  BY <1>1 DEF EventItemsServedWhileLive
<1> QED
  BY Invariance, <1>2, PTL

(* An item that an adapter without times of its own reported anew within   *)
(* StaleAfter is not stale.                                                *)
THEOREM NewsReachesTheBoard ==
    ASSUME KeysApart
    PROVE  Spec => []NewsIsNotStale
<1>1. ASSUME Inv, NEW a \in Adapters \ Dated, NEW k \in DOMAIN reported[a],
             now <= news[k] + StaleAfter, Stale(k)
      PROVE  FALSE
  <2>1. k \in AdapterKeys(a) /\ k \in Keys
    BY <1>1, KeysAreKeys DEF Inv, TypeOK
  <2>2. items[k] # Absent /\ items[k].at + StaleAfter < now
    BY <1>1 DEF Stale
  <2>3. news[k] <= items[k].at
    BY <1>1, <2>1, <2>2 DEF Inv, AdapterItemFits
  <2>4. now \in Nat /\ news[k] \in Nat /\ items[k].at \in Nat
    BY <1>1, <2>1, <2>2 DEF Inv, TypeOK, Items
  <2> QED
    BY <1>1, <2>2, <2>3, <2>4, ItemStoreAssumptions
<1>2. Inv => NewsIsNotStale
  BY <1>1 DEF NewsIsNotStale
<1> QED
  BY Invariance, <1>2, PTL

(* What is stored of adapter a under k: what it listed there, without an   *)
(* end of life, unless an event came since; and nothing else under its     *)
(* name, which only its own keys can have.                                 *)
ListFits(a, k) ==
    /\ lastEvent[k] = Absent =>
          IF k \in DOMAIN reported[a]
          THEN /\ items[k] # Absent /\ items[k].source = a /\ items[k].expires = 0
               /\ items[k].reading = reported[a][k].reading
          ELSE ~Owned(a, k)
    /\ Owned(a, k) => k \in KeysUnder(a)

ListsFit == \A a \in Adapters, k \in Keys : ListFits(a, k)

(* A poll puts what it lists in place, whatever was there, and takes away  *)
(* what else is the adapter's.                                             *)
LEMMA PollPutsRight ==
    ASSUME TypeOK, NEW a \in Adapters, NEW list \in Lists(a), Reports(a, list),
           NEW k \in Keys
    PROVE  ListFits(a, k)'
<1>1. reported'[a] = list
  BY DEF Reports, TypeOK
<1>2. CASE k \in DOMAIN list
  <2>1. items'[k] = Refreshed(a, k, list[k]) /\ k \in AdapterKeys(a)
    BY <1>2 DEF Reports, ReplaceSource, Lists
  <2>2. Refreshed(a, k, list[k]) # Absent
    BY <1>2, RefreshedType, AbsentIsNothing DEF Lists
  <2>3. /\ Refreshed(a, k, list[k]).source = a /\ Refreshed(a, k, list[k]).expires = 0
        /\ Refreshed(a, k, list[k]).reading = list[k].reading
    BY DEF Refreshed
  <2>4. k \in KeysUnder(a)
    BY <2>1 DEF AdapterKeys, KeysUnder
  <2> QED
    BY <1>1, <1>2, <2>1, <2>2, <2>3, <2>4 DEF ListFits
<1>3. CASE k \notin DOMAIN list
  <2>1. items'[k] = IF Owned(a, k) THEN Absent ELSE items[k]
    BY <1>3 DEF Reports, ReplaceSource
  <2>2. ~Owned(a, k)'
    BY <2>1 DEF Owned
  <2> QED
    BY <1>1, <1>3, <2>2 DEF ListFits
<1> QED
  BY <1>2, <1>3

(* The poll of another adapter leaves all of that alone.                   *)
LEMMA OthersPollElsewhere ==
    ASSUME AdapterNamesApart, TypeOK, NEW a \in Adapters, NEW b \in Adapters, a # b,
           NEW list \in Lists(b), Reports(b, list), NEW k \in Keys, ListFits(a, k)
    PROVE  ListFits(a, k)'
<1>1. reported'[a] = reported[a]
  BY DEF Reports, TypeOK
<1>2. DOMAIN list \subseteq AdapterKeys(b) /\ DOMAIN reported[a] \subseteq AdapterKeys(a)
  BY DEF Lists, TypeOK
<1>3. /\ AdapterKeys(a) \subseteq KeysUnder(a) /\ AdapterKeys(b) \subseteq KeysUnder(b)
      /\ KeysUnder(a) \cap KeysUnder(b) = {}
  BY DEF AdapterKeys, KeysUnder, AdapterNamesApart
<1>4. CASE k \in DOMAIN list
  <2>1. items'[k].source = b /\ k \notin DOMAIN reported[a]
    BY <1>2, <1>3, <1>4 DEF Reports, ReplaceSource, Refreshed
  <2> QED
    BY <1>1, <2>1 DEF ListFits, Owned
<1>5. CASE k \notin DOMAIN list
  <2>1. items'[k] = IF Owned(b, k) THEN Absent ELSE items[k]
    BY <1>5 DEF Reports, ReplaceSource
  <2>2. Owned(a, k)' => Owned(a, k) /\ k \in KeysUnder(a)
    BY <2>1 DEF Owned, ListFits
  <2>3. CASE k \in AdapterKeys(b)
    BY <1>1, <1>2, <1>3, <2>2, <2>3 DEF ListFits
  <2>4. CASE k \notin AdapterKeys(b)
    <3>1. lastEvent'[k] = lastEvent[k]
      BY <2>4 DEF Reports
    <3>2. CASE Owned(b, k)
      <4>1. items[k].source # a
        BY <3>2 DEF Owned
      <4> QED
        BY <1>1, <2>2, <3>1, <4>1 DEF ListFits, Owned
    <3>3. CASE ~Owned(b, k)
      BY <1>1, <2>1, <3>1, <3>3 DEF ListFits, Owned
    <3> QED
      BY <3>2, <3>3
  <2> QED
    BY <2>3, <2>4
<1> QED
  BY <1>4, <1>5

(* So does every step.                                                     *)
LEMMA ListStep ==
    ASSUME AdapterNamesApart, TypeOK, ListsFit, [Next]_vars
    PROVE  ListsFit'
<1> SUFFICES ASSUME NEW a \in Adapters, NEW k \in Keys PROVE ListFits(a, k)'
  BY DEF ListsFit
<1>0. ListFits(a, k)
  BY DEF ListsFit
<1>1. CASE items'[k] = items[k] /\ lastEvent'[k] = lastEvent[k] /\ reported' = reported
  BY <1>0, <1>1 DEF ListFits, Owned
<1>2. ASSUME NEW b \in Adapters, NEW list \in Lists(b), Reports(b, list)
      PROVE  ListFits(a, k)'
  BY <1>0, <1>2, PollPutsRight, OthersPollElsewhere
<1>3. ASSUME NEW n \in Names, NEW id \in EventIds, NEW r \in Readings,
             NEW stamp \in {0, 1}, Event(n, id, r, stamp)
      PROVE  ListFits(a, k)'
  <2>1. CASE k # Key(n.words, id)
    BY <1>1, <1>3, <2>1, EventsKeepToTheirKey DEF Event
  <2>2. CASE k = Key(n.words, id)
    <3>1. [reading |-> r, at |-> now] # Absent
      <4>1. now \in 0..MaxTime
        BY ItemStoreAssumptions DEF TypeOK
      <4>2. [reading |-> r, at |-> now] \in Sightings
        BY <4>1 DEF Sightings
      <4> QED
        BY <4>2, AbsentIsNothing
    <3>2. lastEvent'[k] # Absent /\ items'[k].source = n.words
      BY <1>3, <2>2, <3>1 DEF Event, Put, TypeOK
    <3>3. Owned(a, k)' => k \in KeysUnder(a)
      BY <2>2, <3>2 DEF Owned, KeysUnder
    <3> QED
      BY <3>2, <3>3 DEF ListFits
  <2> QED
    BY <2>1, <2>2
<1>4. CASE Read
  <2>1. /\ items'[k] = IF Expired(k) THEN Absent ELSE items[k]
        /\ lastEvent' = lastEvent /\ reported' = reported
    BY <1>4 DEF Read, history
  <2>2. CASE Expired(k)
    BY <1>0, <2>1, <2>2 DEF Expired, ListFits, Owned
  <2>3. CASE ~Expired(k)
    BY <1>1, <2>1, <2>3
  <2> QED
    BY <2>2, <2>3
<1>5. CASE Restart
  <2>1. items'[k] = Absent /\ reported'[a] = NothingListed
    BY <1>5 DEF Restart
  <2>2. DOMAIN NothingListed = {}
    BY DEF NothingListed
  <2> QED
    BY <2>1, <2>2 DEF ListFits, Owned
<1>6. ASSUME NEW j \in Backed, WorldMoves(j) \/ WorldDrops(j) PROVE ListFits(a, k)'
  BY <1>1, <1>6 DEF WorldMoves, WorldDrops, history
<1>7. CASE Tick \/ UNCHANGED vars
  BY <1>1, <1>7 DEF Tick, vars, history
<1> QED
  BY <1>2, <1>3, <1>4, <1>5, <1>6, <1>7, ListsAreListed DEF Next, Poll, PollBlank

(* ReplaceSource: between a poll and the next event about a key, what the  *)
(* store serves of an adapter is what the adapter listed.  No name of an   *)
(* event is left out, however padded and whatever colons are in it, nor    *)
(* any life of events' items.                                              *)
THEOREM ListsAreServed ==
    ASSUME AdapterNamesApart
    PROVE  Spec => []AdapterListIsServed
<1>1. Init => ListsFit
  <2> SUFFICES ASSUME Init, NEW a \in Adapters, NEW k \in Keys PROVE ListFits(a, k)
    BY DEF ListsFit
  <2>1. items[k] = Absent /\ DOMAIN reported[a] = {}
    BY DEF Init, NothingListed
  <2> QED
    BY <2>1 DEF ListFits, Owned
<1>2. TypeOK /\ ListsFit /\ [Next]_vars => ListsFit'
  BY ListStep
<1>3. ListsFit => AdapterListIsServed
  <2> SUFFICES ASSUME ListsFit, NEW a \in Adapters, NEW k \in Keys, lastEvent[k] = Absent
               PROVE  IF k \in DOMAIN reported[a]
                      THEN /\ k \in Served /\ items[k].source = a
                           /\ items[k].reading = reported[a][k].reading
                      ELSE ~Owned(a, k)
    BY DEF AdapterListIsServed
  <2>1. ListFits(a, k)
    BY DEF ListsFit
  <2> QED
    BY <2>1 DEF ListFits, Served, Expired
<1> QED
  BY StoreTyped, <1>1, <1>2, <1>3, PTL DEF Spec
=============================================================================
