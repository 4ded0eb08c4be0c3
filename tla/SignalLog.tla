------------------------------ MODULE SignalLog ------------------------------
(***************************************************************************)
(* The signal log: one line per item that appears, changes or disappears.  *)
(*                                                                         *)
(* The store queues entries in `pending` while it holds its lock, and the  *)
(* goroutine that made the change, or any reader of the store, afterwards  *)
(* drains the queue (one critical section of the store lock) and appends   *)
(* what it drained to the file (one critical section of the log's lock).   *)
(* Between the two it holds neither.  Pollers and HTTP handlers do this at *)
(* the same time; the process may end at any point; a write may be cut     *)
(* short.  A start reads the file back to know what it has already said.   *)
(*                                                                         *)
(* A reading stands for what an entry says of an item: its state, label,   *)
(* title and severity together.  The clock moves at every critical section *)
(* of the store, so two changes of one item never carry the same time.     *)
(***************************************************************************)
EXTENDS Naturals, FiniteSets, Sequences, SequencesExt

CONSTANTS
    Items,      \* item ids
    Readings,   \* what an item can read as
    Absent,     \* in place of a reading: the store does not hold the item
    NoEntry,    \* in place of an entry: the log says nothing of the item
    Torn,       \* in place of an entry: a line that does not parse
    Procs,      \* goroutines that write to the store or read from it
    Retention,  \* age at which an entry is dropped, 0 to keep them all
    PruneEvery, \* least time between two prunes
    Crashes,    \* whether the process may end and start again
    Cuts,       \* whether a write may be cut short, by a crash or an error
    MaxTime     \* bound on the clock

ASSUME SignalLogAssumptions ==
    /\ IsFiniteSet(Items) /\ Absent \notin Readings
    /\ Retention \in Nat /\ PruneEvery \in Nat \ {0} /\ MaxTime \in Nat
    /\ Crashes \in BOOLEAN /\ Cuts \in BOOLEAN

Entries == [kind : {"appeared", "changed", "disappeared"}, item : Items,
            reading : Readings, prev : Readings \cup {Absent}, at : 1..MaxTime]

ASSUME SentinelAssumptions == NoEntry \notin Entries /\ Torn \notin Entries

VARIABLES
    live,      \* live[i]: how the item the store holds reads
    restored,  \* restored[i]: the newest entry a start found, until i is reported
    pending,   \* Store.pending
    pc,        \* pc[p]: where p is in flushSignals
    batch,     \* batch[p]: the entries p drained
    file,      \* the lines of the log
    ended,     \* whether the file ends in a newline, or is empty
    lastPrune, \* signalLog.lastPrune, 0 before the first
    now,       \* the clock
    intact     \* history: no write was ever cut short

vars == <<live, restored, pending, pc, batch, file, ended, lastPrune, now, intact>>

-----------------------------------------------------------------------------
(* readSignals: the places of the lines that parse, and of those about i. *)
Readable(lines) == {k \in DOMAIN lines : lines[k] # Torn}

About(i, lines) == {k \in Readable(lines) : lines[k].item = i}

(* Variant of LastByItem: the first line for an item wins. *)
FirstByItem(lines) ==
    [i \in Items |->
        IF About(i, lines) = {} THEN NoEntry ELSE lines[Min(About(i, lines))]]

(* signalLog.lastByItem over readSignals: the last line for an item wins.  *)
LastByItem(lines) ==
    [i \in Items |->
        IF About(i, lines) = {} THEN NoEntry ELSE lines[Max(About(i, lines))]]

Entry(kind, i, r, prev) ==
    [kind |-> kind, item |-> i, reading |-> r, prev |-> prev, at |-> now']

(* Variant of FirstSighting: an item the log saw leave is compared like any *)
(* other.                                                                  *)
ComparedAnyway(i, r) ==
    CASE restored[i] = NoEntry -> {Entry("appeared", i, r, Absent)}
      [] restored[i] # NoEntry /\ restored[i].reading = r -> {}
      [] OTHER -> {Entry("changed", i, r, restored[i].reading)}

(* firstSighting: what is said of an item the store did not hold. *)
FirstSighting(i, r) ==
    IF restored[i] = NoEntry \/ restored[i].kind = "disappeared"
    THEN {Entry("appeared", i, r, Absent)}
    ELSE IF restored[i].reading = r THEN {}
    ELSE {Entry("changed", i, r, restored[i].reading)}

(* Variants of Said: an item that leaves is one that changed; an item that *)
(* leaves is not mentioned.                                                *)
LeavingIsChanging(i, r) ==
    IF live[i] = r THEN {}
    ELSE IF live[i] = Absent THEN FirstSighting(i, r)
    ELSE {Entry("changed", i, r, live[i])}

LeavesUnsaid(i, r) == IF r = Absent THEN {} ELSE LeavingIsChanging(i, r)

(* record, and the disappearances of ReplaceSource and sweep. *)
Said(i, r) ==
    IF live[i] = r THEN {}
    ELSE IF live[i] = Absent THEN FirstSighting(i, r)
    ELSE IF r = Absent THEN {Entry("disappeared", i, live[i], Absent)}
    ELSE {Entry("changed", i, r, live[i])}

(* Variant of Section: the goroutine goes away without flushing. *)
SectionUnflushed(p, next) ==
    /\ pc[p] = "idle"
    /\ now < MaxTime
    /\ now' = now + 1
    /\ live' = next
    /\ restored' = [i \in Items |->
                      IF live[i] = Absent /\ next[i] # Absent THEN NoEntry ELSE restored[i]]
    /\ pending' = pending \o SetToSeq(UNION {Said(i, next[i]) : i \in Items})
    /\ UNCHANGED <<pc, batch, file, ended, lastPrune, intact>>

(* One critical section of the store that leaves it holding `next`.  The   *)
(* order of the entries of one section is that of a list or of a map; no   *)
(* two of them are about the same item.                                    *)
Section(p, next) ==
    /\ pc[p] = "idle"
    /\ now < MaxTime
    /\ now' = now + 1
    /\ live' = next
    /\ restored' = [i \in Items |->
                      IF live[i] = Absent /\ next[i] # Absent THEN NoEntry ELSE restored[i]]
    /\ pending' = pending \o SetToSeq(UNION {Said(i, next[i]) : i \in Items})
    /\ pc' = [pc EXCEPT ![p] = "flush"]
    /\ UNCHANGED <<batch, file, ended, lastPrune, intact>>

-----------------------------------------------------------------------------
Init ==
    /\ live = [i \in Items |-> Absent]
    /\ restored = [i \in Items |-> NoEntry]
    /\ pending = <<>>
    /\ pc = [p \in Procs |-> "idle"]
    /\ batch = [p \in Procs |-> <<>>]
    /\ file = <<>>
    /\ ended = TRUE
    /\ lastPrune = 0
    /\ now = 0
    /\ intact = TRUE

(* ReplaceSource by a poller, or Put by an event. *)
Change(p) ==
    \E next \in [Items -> Readings \cup {Absent}] : Section(p, next)

(* A read of the store: sweep drops the event items that have expired. *)
Read(p) ==
    \E expired \in SUBSET {i \in Items : live[i] # Absent} :
        Section(p, [i \in Items |-> IF i \in expired THEN Absent ELSE live[i]])

(* flushSignals, under the store lock. *)
Drain(p) ==
    /\ pc[p] = "flush"
    /\ batch' = [batch EXCEPT ![p] = pending]
    /\ pending' = <<>>
    /\ pc' = [pc EXCEPT ![p] = IF pending = <<>> THEN "idle" ELSE "append"]
    /\ UNCHANGED <<live, restored, file, ended, lastPrune, now, intact>>

(* prune: the file without what is past retention, rewritten only when     *)
(* that drops an entry.  What does not parse goes with the rewrite.        *)
PruneDue == Retention > 0 /\ (lastPrune = 0 \/ now >= lastPrune + PruneEvery)

(* Variant of Expired: an entry exactly as old as the retention goes. *)
ExpiredEarly(e) == e.at + Retention <= now

Expired(e) == e.at + Retention < now

Prunes == PruneDue /\ \E k \in Readable(file) : Expired(file[k])

(* A prune that fails leaves the file as it was; the append goes on.       *)
Rewrites == IF Cuts THEN {Prunes, FALSE} ELSE {Prunes}

(* How many of the places come before k; the lines at them, in their order. *)
Rank(k, places) == Cardinality({j \in places : j < k})

LinesAt(lines, places) ==
    [n \in 1..Cardinality(places) |->
        lines[CHOOSE k \in places : Rank(k, places) = n - 1]]

Pruned(rewritten) ==
    IF rewritten THEN LinesAt(file, {k \in Readable(file) : ~Expired(file[k])})
    ELSE file

(* Variant of PrunedEnded: the rewritten file ends the way the old one did. *)
PrunedEndedAsBefore(rewritten) == ended

PrunedEnded(rewritten) == rewritten \/ ended

(* A write of `lines` after the pruned file.  If that does not end in a    *)
(* newline the first line is glued to what is there, and neither parses.   *)
Glued(lines, rewritten) ==
    IF PrunedEnded(rewritten) \/ lines = <<>> THEN Pruned(rewritten) \o lines
    ELSE Front(Pruned(rewritten)) \o <<Torn>> \o Tail(lines)

PruneTime == lastPrune' = IF PruneDue THEN now ELSE lastPrune

(* signalLog.append, under the log's lock. *)
AppendBatch(p) ==
    /\ pc[p] = "append"
    /\ \E rewritten \in Rewrites : file' = Glued(batch[p], rewritten)
    /\ ended' = TRUE
    /\ PruneTime
    /\ batch' = [batch EXCEPT ![p] = <<>>]
    /\ pc' = [pc EXCEPT ![p] = "idle"]
    /\ UNCHANGED <<live, restored, pending, now, intact>>

(* What a write that is cut short leaves of the batch: whole lines, then   *)
(* nothing, a fragment, or a line that lacks only its newline.             *)
CutShort(lines, n, tail) ==
    SubSeq(lines, 1, n) \o (CASE tail = "none" -> <<>>
                              [] tail = "fragment" -> <<Torn>>
                              [] tail = "unended" -> <<lines[n + 1]>>)

Cut(p, n, tail) ==
    \E rewritten \in Rewrites :
        /\ file' = Glued(CutShort(batch[p], n, tail), rewritten)
        /\ ended' = (tail = "none" /\ (n > 0 \/ PrunedEnded(rewritten)))

CutAnywhere(p) ==
    \E n \in 0..(Len(batch[p]) - 1), tail \in {"none", "fragment", "unended"} :
        Cut(p, n, tail)

(* The write fails part of the way, or nothing is done for want of the     *)
(* directory: the rest of the batch is dropped.                            *)
AppendFails(p) ==
    /\ Cuts
    /\ pc[p] = "append"
    /\ \/ CutAnywhere(p) /\ PruneTime
       \/ UNCHANGED <<file, ended, lastPrune>>
    /\ batch' = [batch EXCEPT ![p] = <<>>]
    /\ pc' = [pc EXCEPT ![p] = "idle"]
    /\ intact' = FALSE
    /\ UNCHANGED <<live, restored, pending, now>>

(* NewStore after the process ended: the store is empty, the file is read. *)
StartFrom(lines) ==
    /\ live' = [i \in Items |-> Absent]
    /\ restored' = LastByItem(lines)
    /\ pending' = <<>>
    /\ pc' = [p \in Procs |-> "idle"]
    /\ batch' = [p \in Procs |-> <<>>]
    /\ lastPrune' = 0
    /\ UNCHANGED now

Restart ==
    /\ Crashes
    /\ StartFrom(file)
    /\ UNCHANGED <<file, ended, intact>>

(* It ends while p is writing. *)
CrashInAppend(p) ==
    /\ Crashes /\ Cuts
    /\ pc[p] = "append"
    /\ CutAnywhere(p)
    /\ StartFrom(file')
    /\ intact' = FALSE

(* The bound on the clock is reached and nobody is inside the store: the   *)
(* only place where the model, and not the daemon, stops.                  *)
AtBound ==
    /\ now = MaxTime
    /\ \A p \in Procs : pc[p] = "idle"
    /\ UNCHANGED vars

Next ==
    \/ \E p \in Procs :
          Change(p) \/ Read(p) \/ Drain(p) \/ AppendBatch(p)
          \/ AppendFails(p) \/ CrashInAppend(p)
    \/ Restart
    \/ AtBound

Spec == Init /\ [][Next]_vars

(* A goroutine that has changed or read the store runs on to the end of    *)
(* flushSignals; both locks are held for bounded work only.                *)
FairSpec == Spec /\ \A p \in Procs : WF_vars(Drain(p)) /\ WF_vars(AppendBatch(p))

-----------------------------------------------------------------------------
(* Types of the state; every line that parses carries a time the clock     *)
(* has reached and a reading an item can have.                             *)
TypeOK ==
    /\ live \in [Items -> Readings \cup {Absent}]
    /\ restored \in [Items -> Entries \cup {NoEntry}]
    /\ pending \in Seq(Entries)
    /\ pc \in [Procs -> {"idle", "flush", "append"}]
    /\ batch \in [Procs -> Seq(Entries)]
    /\ file \in Seq(Entries \cup {Torn})
    /\ ended \in BOOLEAN
    /\ lastPrune \in 0..MaxTime
    /\ now \in 0..MaxTime
    /\ intact \in BOOLEAN

(* The entries of an item as GET /api/log sorts them, oldest first. *)
Logged(i) == {file[k] : k \in About(i, file)}

NewestOf(i) == CHOOSE e \in Logged(i) : \A f \in Logged(i) : f.at <= e.at

Quiet == pending = <<>> /\ \A p \in Procs : batch[p] = <<>>

(* What entry f may say right after entry e of the same item. *)
Follows(e, f) ==
    CASE f.kind = "appeared" -> e.kind = "disappeared"
      [] f.kind = "changed" -> e.kind # "disappeared" /\ f.prev = e.reading
      [] f.kind = "disappeared" -> e.kind # "disappeared" /\ f.reading = e.reading

(* The log of an item is its history without a gap: once everything queued *)
(* is written, each entry starts from the reading the one before it left,  *)
(* whichever goroutine wrote them and in whatever order, and however often *)
(* the daemon was restarted; unless a write was cut short.                 *)
HistoryHasNoGap ==
    intact /\ Quiet =>
        \A i \in Items : \A e, f \in Logged(i) :
            e.at < f.at /\ ~(\E g \in Logged(i) : e.at < g.at /\ g.at < f.at)
                => Follows(e, f)

(* Once everything queued is written, the newest entry of an item says how *)
(* the store holds it, unless it is old enough to have been pruned: a      *)
(* consumer that follows the log knows the board.  An item no source has   *)
(* reported since the start is left alone.                                 *)
MayBePruned(i) == Logged(i) = {} /\ Retention > 0 /\ now > Retention + 1

LogTellsTheBoard ==
    intact /\ Quiet =>
        \A i \in Items :
            /\ live[i] # Absent =>
                  \/ MayBePruned(i)
                  \/ /\ Logged(i) # {}
                     /\ NewestOf(i).kind # "disappeared"
                     /\ NewestOf(i).reading = live[i]
            /\ live[i] = Absent /\ restored[i] = NoEntry =>
                  Logged(i) = {} \/ NewestOf(i).kind = "disappeared"

(* A write keeps every line it wrote, and every line that could be read    *)
(* before and is within retention, readable (signallog.go:204-206: one bad *)
(* line should not hide the rest).  What a write that was cut short costs  *)
(* is the line it left without its newline and the first line written      *)
(* after it, never more.                                                   *)
Entered(lines) == {lines[k] : k \in Readable(lines)}

Kept == {e \in Entered(file) : Retention = 0 \/ e.at + Retention >= now}

CutCostsOneWrite ==
    [][\A p \in Procs : AppendBatch(p) =>
          ToSet(batch[p]) \cup Kept
             \subseteq Entered(file')
                       \cup (IF ended THEN {} ELSE {Head(batch[p]), Last(file)})]_vars

(* store.go:101 and signallog.go:266: the last line of an item in the file *)
(* is its newest entry, so a start compares an item with the newest entry. *)
RestoredIsNewest ==
    \A i \in Items : restored[i] # NoEntry =>
        \A e \in Logged(i) : e.at <= restored[i].at

(* Whatever is queued reaches the file, even if the goroutine that queued  *)
(* it finds the queue drained by another.                                  *)
QueueIsWritten == ~Quiet ~> Quiet
=============================================================================
