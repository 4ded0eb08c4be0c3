---------------------------- MODULE DecisionStore ----------------------------
(***************************************************************************)
(* The decisions of attention.Store: the snoozes and bumps a human makes   *)
(* over HTTP, kept in memory under the store lock, and written to the      *)
(* state file outside it.                                                  *)
(*                                                                         *)
(* Decide and Clear change the map, number the change and copy the map     *)
(* (stage) in one critical section; the copy is then written by persist,   *)
(* on the goroutine of the request, under a second lock.  Several persist  *)
(* calls can be waiting at once and the second lock does not order them,   *)
(* so a call may reach it after a newer one has written.  The process can  *)
(* end between any two of these steps and start again from the file.       *)
(*                                                                         *)
(* An item is reduced to the word it reads as, which is all a decision     *)
(* depends on.  Labels are classes of words equal up to case and outer     *)
(* blanks, as spent compares them.                                         *)
(***************************************************************************)
EXTENDS Naturals

CONSTANTS
    Items,       \* item ids
    Labels,      \* words an item can carry
    Deadlines,   \* moments a snooze can end at
    Absent,      \* in place of a label: the store does not hold the item
    NoDecision,  \* no standing decision about an item
    Unreadable,  \* a state file that does not parse, or of another version
    MaxTime,     \* bound on the clock
    MaxWrites    \* bound on the decisions and clears of one process

ASSUME DecisionAssumptions ==
    /\ Absent \notin Labels
    /\ Deadlines \subseteq Nat \ {0}
    /\ MaxTime \in Nat
    /\ MaxWrites \in Nat

(* The zero time of a decision that has no deadline. *)
NoDeadline == 0

Decisions ==
    [kind : {"snooze", "bump"}, label : Labels, until : Deadlines \cup {NoDeadline}]

Snapshots == [Items -> Decisions \cup {NoDecision}]

ASSUME SentinelAssumptions ==
    /\ NoDecision \notin Decisions
    /\ Unreadable \notin Snapshots

NoDecisions == [i \in Items |-> NoDecision]

VARIABLES
    board,       \* the label of each item the store holds
    now,         \* the clock
    decisions,   \* Store.decisions
    generation,  \* Store.generation: changes staged by this process
    staged,      \* staged[g]: the copy generation g saves; staged[0]: the file at start
    phase,       \* phase[g]: where the persist call of generation g is
    written,     \* Store.written
    file         \* what a start would read: a snapshot, or Unreadable

vars == <<board, now, decisions, generation, staged, phase, written, file>>

memory == <<board, decisions, generation, staged>>

-----------------------------------------------------------------------------
(* Decision.spent: whether d has stopped applying to an item that reads l. *)
OutOfTime(d, t) ==
    /\ d # NoDecision
    /\ d.kind = "snooze"
    /\ d.until # NoDeadline
    /\ t >= d.until

(* Variant of Spent: a bump ends when the label moves, as a snooze does. *)
SpentWhateverTheKind(d, t, l) ==
    OutOfTime(d, t) \/ (d # NoDecision /\ d.label # l)

Spent(d, t, l) ==
    \/ OutOfTime(d, t)
    \/ /\ d # NoDecision
       /\ d.kind = "snooze"
       /\ d.label # l

(* Store.apply over the items of S: a spent decision is deleted.  An item  *)
(* the store does not hold is not looked at.                               *)
Applied(ds, S) ==
    [i \in Items |->
        IF i \in S /\ board[i] # Absent /\ Spent(ds[i], now, board[i])
        THEN NoDecision
        ELSE ds[i]]

(* loadState: what a start at time t keeps of the file f. *)
Loaded(f, t) ==
    IF f = Unreadable THEN NoDecisions
    ELSE [i \in Items |-> IF OutOfTime(f[i], t) THEN NoDecision ELSE f[i]]

(* The persist calls that hold writeMu, and the version the file holds.    *)
Writing == {g \in 1..generation : phase[g] \in {"saving", "renamed"}}

OnDisk ==
    IF \E g \in 1..generation : phase[g] = "renamed"
    THEN CHOOSE g \in 1..generation : phase[g] = "renamed"
    ELSE written

-----------------------------------------------------------------------------
(* A new machine has no file, which reads as an empty one; otherwise start *)
(* from a file that was spoiled.  Every other file is one an earlier       *)
(* process of this specification wrote.                                    *)
Init ==
    /\ board = [i \in Items |-> Absent]
    /\ now = 0
    /\ file \in {NoDecisions, Unreadable}
    /\ decisions = NoDecisions
    /\ generation = 0
    /\ staged = [g \in {0} |-> file]
    /\ phase = [g \in {} |-> "waiting"]
    /\ written = 0

(* An adapter's poll or an event reports the item with label l. *)
SourceReports(i, l) ==
    /\ board[i] # l
    /\ board' = [board EXCEPT ![i] = l]
    /\ UNCHANGED <<now, decisions, generation, staged, phase, written, file>>

(* A poll no longer reports the item, or an event item expires. *)
SourceDrops(i) ==
    /\ board[i] # Absent
    /\ board' = [board EXCEPT ![i] = Absent]
    /\ UNCHANGED <<now, decisions, generation, staged, phase, written, file>>

Tick ==
    /\ now < MaxTime
    /\ now' = now + 1
    /\ UNCHANGED <<board, decisions, generation, staged, phase, written, file>>

(* Store.Get, and the lists built by collect: what a read finds spent goes. *)
ReadItem(i) ==
    /\ decisions' = Applied(decisions, {i})
    /\ UNCHANGED <<board, now, generation, staged, phase, written, file>>

ReadBoard ==
    /\ decisions' = Applied(decisions, Items)
    /\ UNCHANGED <<board, now, generation, staged, phase, written, file>>

(* stage, in the critical section that made ds: number it, copy it, and    *)
(* leave the copy to a persist call.                                       *)
Stage(ds) ==
    /\ generation < MaxWrites
    /\ decisions' = ds
    /\ generation' = generation + 1
    /\ staged' = [g \in 0..(generation + 1) |->
                    IF g = generation + 1 THEN ds ELSE staged[g]]
    /\ phase' = [g \in 1..(generation + 1) |->
                   IF g = generation + 1 THEN "waiting" ELSE phase[g]]
    /\ UNCHANGED <<board, now, written, file>>

(* Store.Decide.  The deadline was computed when the request came in, so   *)
(* it may have passed by the time the store lock is taken; apply then      *)
(* drops the decision before it is copied.                                 *)
DecisionMade(i, kind, until) ==
    [kind |-> kind, label |-> board[i],
     until |-> IF kind = "snooze" THEN until ELSE NoDeadline]

Decide(i, kind, until) ==
    /\ board[i] # Absent
    /\ Stage(Applied([decisions EXCEPT ![i] = DecisionMade(i, kind, until)], {i}))

(* Store.Clear. *)
Clear(i) ==
    /\ board[i] # Absent
    /\ Stage([decisions EXCEPT ![i] = NoDecision])

-----------------------------------------------------------------------------
(* persist and saveState, for the call that carries generation g. *)

(* It gets writeMu and finds that a newer copy is already on disk. *)
PersistSkip(g) ==
    /\ phase[g] = "waiting"
    /\ Writing = {}
    /\ g <= written
    /\ phase' = [phase EXCEPT ![g] = "superseded"]
    /\ UNCHANGED <<now, written, file>> /\ UNCHANGED memory

(* Variants of PersistBegin: no check of what is already written; no       *)
(* writeMu; each generation waits for the one before it.                   *)
PersistBeginUnchecked(g) ==
    /\ phase[g] = "waiting"
    /\ Writing = {}
    /\ phase' = [phase EXCEPT ![g] = "saving"]
    /\ UNCHANGED <<now, written, file>> /\ UNCHANGED memory

PersistBeginUnlocked(g) ==
    /\ phase[g] = "waiting"
    /\ g > written
    /\ phase' = [phase EXCEPT ![g] = "saving"]
    /\ UNCHANGED <<now, written, file>> /\ UNCHANGED memory

PersistBeginInTurn(g) ==
    PersistBeginUnchecked(g) /\ g = written + 1

(* It gets writeMu and writes the temporary file. *)
PersistBegin(g) ==
    /\ phase[g] = "waiting"
    /\ Writing = {}
    /\ g > written
    /\ phase' = [phase EXCEPT ![g] = "saving"]
    /\ UNCHANGED <<now, written, file>> /\ UNCHANGED memory

(* Variant of SaveRename: the map is not copied, the file gets what it     *)
(* holds by now.                                                           *)
SaveRenameUncopied(g) ==
    /\ phase[g] = "saving"
    /\ file' = decisions
    /\ phase' = [phase EXCEPT ![g] = "renamed"]
    /\ UNCHANGED <<now, written>> /\ UNCHANGED memory

(* The rename puts the whole copy in place. *)
SaveRename(g) ==
    /\ phase[g] = "saving"
    /\ file' = staged[g]
    /\ phase' = [phase EXCEPT ![g] = "renamed"]
    /\ UNCHANGED <<now, written>> /\ UNCHANGED memory

(* Some step of saveState fails: the file is as it was, the call returns.  *)
SaveFail(g) ==
    /\ phase[g] = "saving"
    /\ phase' = [phase EXCEPT ![g] = "failed"]
    /\ UNCHANGED <<now, written, file>> /\ UNCHANGED memory

(* written is moved and writeMu released: the request is answered. *)
PersistEnd(g) ==
    /\ phase[g] = "renamed"
    /\ written' = g
    /\ phase' = [phase EXCEPT ![g] = "saved"]
    /\ UNCHANGED <<now, file>> /\ UNCHANGED memory

Persist(g) ==
    PersistSkip(g) \/ PersistBegin(g) \/ SaveRename(g) \/ SaveFail(g) \/ PersistEnd(g)

(* Variant of Restart: the number of the last write survives the process.  *)
RestartKeepsWritten ==
    /\ board' = [i \in Items |-> Absent]
    /\ decisions' = Loaded(file, now)
    /\ generation' = 0
    /\ staged' = [g \in {0} |-> file]
    /\ phase' = [g \in {} |-> "waiting"]
    /\ UNCHANGED <<now, file, written>>

(* The process ends, by a crash or a shutdown: nothing is saved on the way *)
(* out.  NewStore then starts from the file with no items.                 *)
Restart ==
    /\ board' = [i \in Items |-> Absent]
    /\ decisions' = Loaded(file, now)
    /\ generation' = 0
    /\ staged' = [g \in {0} |-> file]
    /\ phase' = [g \in {} |-> "waiting"]
    /\ written' = 0
    /\ UNCHANGED <<now, file>>

Next ==
    \/ \E i \in Items, l \in Labels : SourceReports(i, l)
    \/ \E i \in Items : SourceDrops(i)
    \/ Tick
    \/ \E i \in Items : ReadItem(i)
    \/ ReadBoard
    \/ \E i \in Items, k \in {"snooze", "bump"}, u \in Deadlines \cup {NoDeadline} :
          Decide(i, k, u)
    \/ \E i \in Items : Clear(i)
    \/ \E g \in 1..generation : Persist(g)
    \/ Restart

(* The goroutine of a request keeps running, and the runtime hands a free  *)
(* mutex to a waiter that has waited long enough.  Nothing else is certain *)
(* to happen.                                                              *)
Fairness == \A g \in 1..MaxWrites : WF_vars(g <= generation /\ Persist(g))

Spec == Init /\ [][Next]_vars

FairSpec == Spec /\ Fairness

-----------------------------------------------------------------------------
Phases == {"waiting", "saving", "renamed", "saved", "superseded", "failed"}

(* Types of the state: one persist call per generation, one copy per call. *)
TypeOK ==
    /\ board \in [Items -> Labels \cup {Absent}]
    /\ now \in Nat
    /\ decisions \in Snapshots
    /\ generation \in Nat
    /\ staged \in [0..generation -> Snapshots \cup {Unreadable}]
    /\ phase \in [1..generation -> Phases]
    /\ written \in 0..generation
    /\ file \in Snapshots \cup {Unreadable}

(* writeMu: at most one persist call is between its generation check and   *)
(* its assignment to written, so the check is still true when it assigns.  *)
OneWriter ==
    \A g, h \in 1..generation :
        phase[g] \in {"saving", "renamed"} /\ phase[h] \in {"saving", "renamed"} => g = h

(* The call that writes is newer than everything that was written. *)
WriterIsNewer ==
    \A g \in 1..generation : phase[g] \in {"saving", "renamed"} => written < g

(* The state file is, whole, the copy of the generation it is said to      *)
(* hold: never a mixture, never one that an older call put back.           *)
FileIsVersion == file = staged[OnDisk]

(* The three together are what the write protocol keeps true at every      *)
(* step: the file and Store.written never disagree about a later write.    *)
WriteInv == OneWriter /\ WriterIsNewer /\ FileIsVersion

(* Once no persist call is left running, the file holds the newest change  *)
(* of this process unless saving that one failed: no order of the calls    *)
(* leaves an older set of decisions behind.                                *)
QuiescentFileIsNewest ==
    /\ \A g \in 1..generation : phase[g] \in {"saved", "superseded", "failed"}
    /\ generation > 0 => phase[generation] # "failed"
    => file = staged[generation]

(* Every request that decides or clears is answered, or the process ends:  *)
(* no order of the writers leaves one waiting for writeMu for good.        *)
Waiting(g) == g <= generation /\ phase[g] \in {"waiting", "saving", "renamed"}

EveryRequestAnswered == \A g \in 1..MaxWrites : Waiting(g) ~> ~Waiting(g)

(* The daemon keeps the promise of DecisionRegister: versions reach the    *)
(* disk whole and in order, and a restart resumes from the one it holds.   *)
Register ==
    INSTANCE DecisionRegister
        WITH mem <- decisions, versions <- staged, last <- generation, disk <- OnDisk

ImplementsRegister == Register!RegSpec
=============================================================================
