------------------------------ MODULE ItemStore ------------------------------
(***************************************************************************)
(* The items of attention.Store.  An adapter owns a source and replaces    *)
(* everything it reported before on each poll; event producers put one     *)
(* item at a time under a source of their own; items whose work has ended  *)
(* expire when a read sweeps the store.                                    *)
(*                                                                         *)
(* Sources and ids are sequences of segments, the parts that ":" joins, so *)
(* Key is concatenation as in the code.  A name an event arrives under may *)
(* be padded with blanks, which the handler trims after it has looked the  *)
(* name up among the adapters.                                             *)
(*                                                                         *)
(* A reading is what a human would notice of an item: state, label, title  *)
(* and severity.  `world` is what the adapters' backends hold, with the    *)
(* time something last happened there.  The variables of `history` only    *)
(* record.                                                                 *)
(***************************************************************************)
EXTENDS Naturals, Sequences

CONSTANTS
    Adapters,   \* sources with an adapter
    Dated,      \* those whose items carry the backend's own time
    AdapterIds, \* ids the adapters use
    Names,      \* names of events' sources: [words, padded]
    EventIds,   \* ids of events
    Readings,   \* what an item can read as
    Finished,   \* the readings whose state is done or failed
    Absent,     \* in place of an item or a reading
    EventTTL,   \* StoreConfig.EventTTL, 0 for never
    StaleAfter, \* StoreConfig.StaleAfter, 0 for never
    MaxTime     \* bound on the clock

ASSUME ItemStoreAssumptions ==
    /\ Dated \subseteq Adapters
    /\ Finished \subseteq Readings
    /\ EventTTL \in Nat /\ StaleAfter \in Nat /\ MaxTime \in Nat \ {0}

Times == 0..(MaxTime + EventTTL)

Items == [source : Adapters \cup {n.words : n \in Names}, reading : Readings,
          expires : Times, at : 1..MaxTime]

(* A reading, and when it came or was last active; 0 when nobody says.     *)
Sightings == [reading : Readings, at : 0..MaxTime]

ASSUME AbsentAssumption == Absent \notin Readings \cup Items \cup Sightings

Key(source, id) == source \o id

AdapterKeys(a) == {Key(a, id) : id \in AdapterIds}

Backed == UNION {AdapterKeys(a) : a \in Adapters}

Keys == Backed \cup {Key(n.words, id) : n \in Names, id \in EventIds}

VARIABLES
    items,     \* Store.items
    now,       \* the clock
    world,     \* what the backends hold: a reading, and the last activity
    reported,  \* history: the last list of each adapter
    lastEvent, \* history: the last event about a key, and when it came, since
               \* the adapter whose key it is, if it is one's, last polled
    news       \* history: when an adapter last reported a new reading

history == <<reported, lastEvent, news>>

vars == <<items, now, world, history>>

-----------------------------------------------------------------------------
NothingListed == [k \in {} |-> Absent]

Init ==
    /\ items = [k \in Keys |-> Absent]
    /\ now = 1
    /\ world = [k \in Backed |-> Absent]
    /\ reported = [a \in Adapters |-> NothingListed]
    /\ lastEvent = [k \in Keys |-> Absent]
    /\ news = [k \in Keys |-> 0]

(* The backend's work moves, ends, or is only touched: a push or a comment *)
(* that changes nothing an item shows.                                     *)
WorldMoves(k) ==
    /\ \E r \in Readings : world' = [world EXCEPT ![k] = [reading |-> r, at |-> now]]
    /\ UNCHANGED <<items, now, history>>

WorldDrops(k) ==
    /\ world' = [world EXCEPT ![k] = Absent]
    /\ UNCHANGED <<items, now, history>>

Tick ==
    /\ now < MaxTime
    /\ now' = now + 1
    /\ UNCHANGED <<items, world, history>>

(* Variant of Same: whatever the store holds keeps its time. *)
SameItem(k, r) == items[k] # Absent

(* changed: nothing a human would notice differs from what is stored. *)
Same(k, r) == items[k] # Absent /\ items[k].reading = r

(* Variant of Refreshed: an item that reads as before is kept whole.       *)
RefreshedIfNew(a, k, r) ==
    IF Same(k, r.reading) THEN items[k]
    ELSE [source |-> a, reading |-> r.reading, expires |-> 0,
          at |-> IF r.at = 0 THEN now ELSE r.at]

(* ReplaceSource: an item that reads as before keeps its time, one without *)
(* a time gets the present; what adapter a no longer lists goes.           *)
Refreshed(a, k, r) ==
    [source |-> a, reading |-> r.reading, expires |-> 0,
     at |-> IF Same(k, r.reading) THEN items[k].at
            ELSE IF r.at = 0 THEN now ELSE r.at]

Owned(a, k) == items[k] # Absent /\ items[k].source = a

ReplaceSource(a, list) ==
    items' = [k \in Keys |->
                IF k \in DOMAIN list THEN Refreshed(a, k, list[k])
                ELSE IF Owned(a, k) THEN Absent ELSE items[k]]

(* One poll of adapter a: the list its backend gives, or, for an adapter   *)
(* that could not reach its backend and blanks its source, no list at all. *)
Listed(a) ==
    [k \in {key \in AdapterKeys(a) : world[key] # Absent} |->
        [reading |-> world[k].reading, at |-> IF a \in Dated THEN world[k].at ELSE 0]]

Reports(a, list) ==
    /\ ReplaceSource(a, list)
    /\ reported' = [reported EXCEPT ![a] = list]
    /\ news' = [k \in Keys |->
                  IF k \in DOMAIN list /\ ~(Owned(a, k) /\ items[k].reading = list[k].reading)
                  THEN now ELSE news[k]]
    /\ lastEvent' = [k \in Keys |-> IF k \in AdapterKeys(a) THEN Absent ELSE lastEvent[k]]
    /\ UNCHANGED <<now, world>>

Poll(a) == Reports(a, Listed(a))

PollBlank(a) == Reports(a, NothingListed)

(* ingestEvent and Put.  The handler refuses a source an adapter owns; it  *)
(* compares the name as it was sent.  The producer's own timestamp becomes *)
(* the item's time, the moment of arrival starts its life after the end.   *)
Reserved(n) == ~n.padded /\ n.words \in Adapters

ExpiresAt(r) == IF EventTTL > 0 /\ r \in Finished THEN now + EventTTL ELSE 0

(* Variant of Put: an item that was going to expire still is. *)
PutKeepsExpiry(source, k, r, stamp) ==
    items' = [items EXCEPT ![k] =
                [source |-> source, reading |-> r,
                 expires |-> IF items[k] # Absent /\ items[k].expires # 0
                             THEN items[k].expires ELSE ExpiresAt(r),
                 at |-> IF stamp = 0 THEN now ELSE stamp]]

Put(source, k, r, stamp) ==
    items' = [items EXCEPT ![k] =
                [source |-> source, reading |-> r, expires |-> ExpiresAt(r),
                 at |-> IF stamp = 0 THEN now ELSE stamp]]

Event(n, id, r, stamp) ==
    LET k == Key(n.words, id) IN
    /\ ~Reserved(n)
    /\ Put(n.words, k, r, stamp)
    /\ lastEvent' = [lastEvent EXCEPT ![k] = [reading |-> r, at |-> now]]
    /\ UNCHANGED <<now, world, reported, news>>

(* sweep, by which every read begins. *)
Expired(k) == items[k] # Absent /\ items[k].expires # 0 /\ now >= items[k].expires

Served == {k \in Keys : items[k] # Absent /\ ~Expired(k)}

Read ==
    /\ items' = [k \in Keys |-> IF Expired(k) THEN Absent ELSE items[k]]
    /\ UNCHANGED <<now, world, history>>

(* The process ends and another starts: nothing of this is on disk. *)
Restart ==
    /\ items' = [k \in Keys |-> Absent]
    /\ reported' = [a \in Adapters |-> NothingListed]
    /\ lastEvent' = [k \in Keys |-> Absent]
    /\ news' = [k \in Keys |-> 0]
    /\ UNCHANGED <<now, world>>

Next ==
    \/ \E k \in Backed : WorldMoves(k) \/ WorldDrops(k)
    \/ Tick
    \/ \E a \in Adapters : Poll(a) \/ PollBlank(a)
    \/ \E n \in Names, id \in EventIds, r \in Readings, stamp \in {0, 1} :
          Event(n, id, r, stamp)
    \/ Read
    \/ Restart

Spec == Init /\ [][Next]_vars

-----------------------------------------------------------------------------
(* Types of the state: an item that is stored always has a time. *)
TypeOK ==
    /\ items \in [Keys -> Items \cup {Absent}]
    /\ now \in 1..MaxTime
    /\ world \in [Backed -> Sightings \cup {Absent}]
    /\ DOMAIN reported = Adapters
    /\ \A a \in Adapters :
          reported[a] \in UNION {[S -> Sightings] : S \in SUBSET AdapterKeys(a)}
    /\ lastEvent \in [Keys -> Sightings \cup {Absent}]
    /\ news \in [Keys -> 0..MaxTime]

(* No name of an adapter runs on into the keys of another: each is one     *)
(* word, fixed in the code.                                                *)
KeysUnder(a) == {Key(a, id) : id \in AdapterIds \cup EventIds}

AdapterNamesApart ==
    \A a, b \in Adapters : a # b => KeysUnder(a) \cap KeysUnder(b) = {}

(* No two adapters, and no adapter and an event, come to the same key: the *)
(* segments that ":" joins can be told apart, and no name is padded that   *)
(* an adapter has.                                                         *)
KeysApart ==
    /\ \A a, b \in Adapters : a # b => AdapterKeys(a) \cap AdapterKeys(b) = {}
    /\ \A n \in Names : n.padded => n.words \notin Adapters
    /\ \A n \in Names, id \in EventIds :
          n.words \notin Adapters => Key(n.words, id) \notin Backed

(* Staleness as apply decides it, for an item nobody bumped. *)
Stale(k) == StaleAfter > 0 /\ items[k] # Absent /\ items[k].at + StaleAfter < now

(* server.go:26-27: source names are reserved so that an event cannot      *)
(* collide with an item an adapter owns.  No event changes one.  A padded  *)
(* name breaks it.                                                         *)
EventsLeaveAdapterItems ==
    [][\A n \in Names, id \in EventIds, r \in Readings, stamp \in {0, 1} :
          Event(n, id, r, stamp) =>
              \A a \in Adapters, k \in Keys :
                  k \in DOMAIN reported[a] => items'[k] = items[k]]_vars

(* ReplaceSource, store.go:171-205: whatever events put under an adapter's *)
(* name or over an item of its, with blanks or colons in theirs, its next  *)
(* poll undoes, and for good.  Between that poll and the next event about  *)
(* a key, the store serves of the adapter exactly what the adapter listed, *)
(* across sweeps, the other adapters' polls and restarts: no end of life   *)
(* that an event had set takes a listed item away.                         *)
AdapterListIsServed ==
    \A a \in Adapters, k \in Keys :
        lastEvent[k] = Absent =>
            IF k \in DOMAIN reported[a]
            THEN /\ k \in Served /\ items[k].source = a
                 /\ items[k].reading = reported[a][k].reading
            ELSE ~Owned(a, k)

(* A build that has ended is served for EventTTL from its last event and   *)
(* no longer; one that has not ended, or has started again, is served      *)
(* until it ends, however many ends it had before.                         *)
EventItemsServedWhileLive ==
    \A k \in Keys \ Backed :
        k \in Served <=>
            /\ lastEvent[k] # Absent
            /\ \/ lastEvent[k].reading \notin Finished
               \/ EventTTL = 0
               \/ now < lastEvent[k].at + EventTTL

(* An item whose reading an adapter without times of its own reported anew *)
(* within StaleAfter is not stale: news puts it back on the board.         *)
NewsIsNotStale ==
    \A a \in Adapters \ Dated : \A k \in DOMAIN reported[a] :
        now <= news[k] + StaleAfter => ~Stale(k)
=============================================================================
