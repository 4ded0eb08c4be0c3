------------------------- MODULE DecisionStoreProofs -------------------------
(***************************************************************************)
(* Theorems of DecisionStore, for any items, labels, deadlines and bounds, *)
(* and, on top of the write protocol they establish, that what a human was *)
(* told is saved stands (DecisionHistory).                                 *)
(***************************************************************************)
EXTENDS DecisionHistory, TLAPS

(* The decisions a start loads, and those a read leaves, are a set of      *)
(* decisions again.                                                        *)
LEMMA LoadedType ==
    ASSUME NEW f \in Snapshots \cup {Unreadable}, NEW t
    PROVE  Loaded(f, t) \in Snapshots
BY SentinelAssumptions DEF Loaded, Snapshots, NoDecisions

(* What a read leaves is a set of decisions again. *)
LEMMA AppliedType ==
    ASSUME NEW ds \in Snapshots, NEW S
    PROVE  Applied(ds, S) \in Snapshots
BY DEF Applied, Snapshots

(* A decision is made about the label the item carries, so it is one of    *)
(* the decisions of the model.                                             *)
LEMMA DecisionMadeType ==
    ASSUME TypeOK, NEW i \in Items, board[i] # Absent,
           NEW k \in {"snooze", "bump"}, NEW u \in Deadlines \cup {NoDeadline}
    PROVE  DecisionMade(i, k, u) \in Decisions
<1>1. board[i] \in Labels
  BY DEF TypeOK
<1>2. QED
  BY <1>1 DEF DecisionMade, Decisions

(* What staging a set of decisions does to the types of the state. *)
LEMMA StageType ==
    ASSUME TypeOK, NEW ds \in Snapshots, Stage(ds)
    PROVE  TypeOK'
<1> USE DEF TypeOK, Stage
<1>1. generation' \in Nat /\ generation' = generation + 1
  OBVIOUS
<1>2. staged' \in [0..generation' -> Snapshots \cup {Unreadable}]
  BY <1>1
<1>3. phase' \in [1..generation' -> Phases]
  BY <1>1 DEF Phases
<1>4. written' \in 0..generation'
  BY <1>1
<1>5. QED
  BY <1>1, <1>2, <1>3, <1>4

(* The state keeps its types. *)
THEOREM TypeCorrect == Spec => []TypeOK
<1>1. Init => TypeOK
  <2> SUFFICES ASSUME Init PROVE TypeOK
    OBVIOUS
  <2>1. NoDecisions \in Snapshots
    BY DEF NoDecisions, Snapshots
  <2>2. staged \in [0..0 -> Snapshots \cup {Unreadable}]
    BY <2>1 DEF Init
  <2>3. phase \in [1..0 -> Phases]
    BY DEF Init
  <2>4. QED
    BY <2>1, <2>2, <2>3 DEF Init, TypeOK
<1>2. TypeOK /\ [Next]_vars => TypeOK'
  <2> SUFFICES ASSUME TypeOK, [Next]_vars PROVE TypeOK'
    OBVIOUS
  <2>1. ASSUME NEW i \in Items, NEW l \in Labels, SourceReports(i, l) PROVE TypeOK'
    BY <2>1 DEF SourceReports, TypeOK
  <2>2. ASSUME NEW i \in Items, SourceDrops(i) PROVE TypeOK'
    BY <2>2 DEF SourceDrops, TypeOK
  <2>3. CASE Tick
    BY <2>3 DEF Tick, TypeOK
  <2>4. ASSUME NEW S, decisions' = Applied(decisions, S),
               UNCHANGED <<board, now, generation, staged, phase, written, file>>
        PROVE TypeOK'
    BY <2>4, AppliedType DEF TypeOK
  <2>5. ASSUME NEW i \in Items, ReadItem(i) PROVE TypeOK'
    BY <2>4, <2>5 DEF ReadItem
  <2>6. CASE ReadBoard
    BY <2>4, <2>6 DEF ReadBoard
  <2>7. ASSUME NEW i \in Items, NEW k \in {"snooze", "bump"},
               NEW u \in Deadlines \cup {NoDeadline}, Decide(i, k, u)
        PROVE TypeOK'
    <3>1. DecisionMade(i, k, u) \in Decisions
      BY <2>7, DecisionMadeType DEF Decide
    <3>2. [decisions EXCEPT ![i] = DecisionMade(i, k, u)] \in Snapshots
      BY <3>1 DEF TypeOK, Snapshots
    <3>3. QED
      BY <3>2, <2>7, AppliedType, StageType DEF Decide
  <2>8. ASSUME NEW i \in Items, Clear(i) PROVE TypeOK'
    <3>1. [decisions EXCEPT ![i] = NoDecision] \in Snapshots
      BY DEF TypeOK, Snapshots
    <3>2. QED
      BY <3>1, <2>8, StageType DEF Clear
  <2>9. ASSUME NEW g \in 1..generation, Persist(g) PROVE TypeOK'
    BY <2>9 DEF Persist, PersistSkip, PersistBegin, SaveRename, SaveFail, PersistEnd,
                memory, TypeOK, Phases
  <2>10. CASE Restart
    <3>1. decisions' \in Snapshots
      BY <2>10, LoadedType DEF Restart, TypeOK
    <3>2. staged' \in [0..0 -> Snapshots \cup {Unreadable}]
      BY <2>10 DEF Restart, TypeOK
    <3>3. phase' \in [1..0 -> Phases]
      BY <2>10 DEF Restart
    <3>4. QED
      BY <2>10, <3>1, <3>2, <3>3 DEF Restart, TypeOK
  <2>11. CASE UNCHANGED vars
    BY <2>11 DEF vars, TypeOK
  <2>12. QED
    BY <2>1, <2>2, <2>3, <2>5, <2>6, <2>7, <2>8, <2>9, <2>10, <2>11 DEF Next
<1>3. QED
  BY <1>1, <1>2, PTL DEF Spec

-----------------------------------------------------------------------------
(* Writing is the set of calls that hold writeMu, so a call that finds it  *)
(* empty is alone.                                                         *)
LEMMA WritingEmpty ==
    ASSUME Writing = {}, NEW g \in 1..generation
    PROVE  phase[g] \notin {"saving", "renamed"}
BY DEF Writing

(* OnDisk is the call that has renamed, or the generation recorded by the  *)
(* last one that finished.                                                 *)
LEMMA OnDiskRenamed ==
    ASSUME OneWriter, NEW g \in 1..generation, phase[g] = "renamed"
    PROVE  OnDisk = g
<1>1. \A h \in 1..generation : phase[h] = "renamed" => h = g
  BY DEF OneWriter
<1>2. (CHOOSE h \in 1..generation : phase[h] = "renamed") = g
  BY <1>1
<1>3. QED
  BY <1>2 DEF OnDisk

(* With no rename waiting to be recorded, the disk holds what was recorded. *)
LEMMA OnDiskWritten ==
    ASSUME \A g \in 1..generation : phase[g] # "renamed"
    PROVE  OnDisk = written
BY DEF OnDisk

(* What is on disk is a version that was staged, or the file as found. *)
LEMMA OnDiskType ==
    ASSUME TypeOK
    PROVE  OnDisk \in 0..generation
<1>1. CASE \E g \in 1..generation : phase[g] = "renamed"
  <2>1. OnDisk \in 1..generation
    BY <1>1 DEF OnDisk
  <2>2. QED
    BY <2>1 DEF TypeOK
<1>2. CASE \A g \in 1..generation : phase[g] # "renamed"
  BY <1>2, OnDiskWritten DEF TypeOK
<1>3. QED
  BY <1>1, <1>2

(* A call that was answered with its change on disk is not newer than what *)
(* was written.                                                            *)
AnsweredIsWritten ==
    \A g \in 1..generation : phase[g] \in {"saved", "superseded"} => g <= written

(* The strengthening that is inductive: it adds to WriteInv what skipping  *)
(* and finishing leave behind.                                             *)
DiskInv == WriteInv /\ AnsweredIsWritten

(* A step that touches neither the calls nor the file keeps DiskInv. *)
LEMMA DiskUntouched ==
    ASSUME DiskInv, UNCHANGED <<generation, staged, phase, written, file>>
    PROVE  DiskInv'
BY DEF DiskInv, WriteInv, OneWriter, WriterIsNewer, FileIsVersion, OnDisk,
       AnsweredIsWritten

(* Staging adds a waiting call and moves nothing that was there. *)
LEMMA StageKeepsDisk ==
    ASSUME TypeOK, DiskInv, NEW ds, Stage(ds)
    PROVE  DiskInv' /\ OnDisk' = OnDisk
<1>1. /\ generation' = generation + 1 /\ generation \in Nat
      /\ written' = written /\ written \in 0..generation
      /\ \A g \in 1..generation' :
            \/ g = generation' /\ phase'[g] = "waiting"
            \/ g \in 1..generation /\ phase'[g] = phase[g]
      /\ \A g \in 1..generation : phase'[g] = phase[g]
  BY DEF Stage, TypeOK
<1>2. OneWriter' /\ WriterIsNewer' /\ AnsweredIsWritten'
  BY <1>1 DEF DiskInv, WriteInv, OneWriter, WriterIsNewer, AnsweredIsWritten
<1>3. OnDisk' = OnDisk
  <2>1. CASE \E g \in 1..generation : phase[g] = "renamed"
    <3>1. PICK g \in 1..generation : phase[g] = "renamed"
      BY <2>1
    <3>2. OnDisk = g
      BY <3>1, OnDiskRenamed DEF DiskInv, WriteInv
    <3>3. g \in 1..generation' /\ phase'[g] = "renamed"
      BY <1>1, <3>1
    <3>4. \A h \in 1..generation' : phase'[h] = "renamed" => h = g
      BY <1>2, <3>3 DEF OneWriter
    <3>5. (CHOOSE h \in 1..generation' : phase'[h] = "renamed") = g
      BY <3>3, <3>4
    <3>6. OnDisk' = g
      BY <3>3, <3>5 DEF OnDisk
    <3>7. QED
      BY <3>2, <3>6
  <2>2. CASE \A g \in 1..generation : phase[g] # "renamed"
    <3>1. \A g \in 1..generation' : phase'[g] # "renamed"
      BY <1>1, <2>2
    <3>2. QED
      BY <1>1, <2>2, <3>1 DEF OnDisk
  <2>3. QED
    BY <2>1, <2>2
<1>4. staged'[OnDisk] = staged[OnDisk]
  BY OnDiskType DEF Stage, TypeOK
<1>5. FileIsVersion'
  BY <1>3, <1>4 DEF DiskInv, WriteInv, FileIsVersion, Stage
<1>6. QED
  BY <1>2, <1>3, <1>5 DEF DiskInv, WriteInv

(* What one persist call does to the write protocol and to the version on  *)
(* disk: the rename moves it forward, nothing else moves it.               *)
LEMMA PersistKeepsDisk ==
    ASSUME TypeOK, DiskInv, NEW g \in 1..generation, Persist(g)
    PROVE  /\ DiskInv'
           /\ IF SaveRename(g) THEN OnDisk < g /\ OnDisk' = g
                               ELSE OnDisk' = OnDisk
<1> USE DEF DiskInv, WriteInv
<1>1. /\ UNCHANGED <<generation, staged>> /\ generation \in Nat
      /\ written \in 0..generation
      /\ \A h \in 1..generation : h # g => phase'[h] = phase[h]
      /\ phase' \in [1..generation -> Phases] /\ phase \in [1..generation -> Phases]
  BY DEF Persist, PersistSkip, PersistBegin, SaveRename, SaveFail, PersistEnd,
         memory, TypeOK, Phases
<1>2. CASE PersistSkip(g)
  <2>1. /\ phase[g] = "waiting" /\ phase'[g] = "superseded" /\ g <= written
        /\ UNCHANGED <<written, file>>
    BY <1>1, <1>2 DEF PersistSkip
  <2>2. \A h \in 1..generation : phase[h] # "renamed" /\ phase'[h] # "renamed"
    BY <1>1, <1>2, <2>1, WritingEmpty DEF PersistSkip
  <2>3. OnDisk = written /\ OnDisk' = written
    BY <1>1, <2>1, <2>2 DEF OnDisk
  <2>4. OneWriter' /\ WriterIsNewer' /\ AnsweredIsWritten'
    BY <1>1, <2>1 DEF OneWriter, WriterIsNewer, AnsweredIsWritten
  <2>5. FileIsVersion'
    BY <1>1, <2>1, <2>3 DEF FileIsVersion
  <2>6. ~SaveRename(g)
    BY <2>1 DEF SaveRename
  <2>7. QED
    BY <2>3, <2>4, <2>5, <2>6
<1>3. CASE PersistBegin(g)
  <2>1. /\ phase[g] = "waiting" /\ phase'[g] = "saving" /\ g > written
        /\ UNCHANGED <<written, file>>
    BY <1>1, <1>3 DEF PersistBegin
  <2>2. \A h \in 1..generation : phase[h] \notin {"saving", "renamed"}
    BY <1>3, WritingEmpty DEF PersistBegin
  <2>3. \A h \in 1..generation : phase[h] # "renamed" /\ phase'[h] # "renamed"
    BY <1>1, <2>1, <2>2
  <2>4. OnDisk = written /\ OnDisk' = written
    BY <1>1, <2>1, <2>3 DEF OnDisk
  <2>5. OneWriter' /\ WriterIsNewer' /\ AnsweredIsWritten'
    BY <1>1, <2>1, <2>2 DEF OneWriter, WriterIsNewer, AnsweredIsWritten
  <2>6. FileIsVersion'
    BY <1>1, <2>1, <2>4 DEF FileIsVersion
  <2>7. ~SaveRename(g)
    BY <2>1 DEF SaveRename
  <2>8. QED
    BY <2>4, <2>5, <2>6, <2>7
<1>4. CASE SaveRename(g)
  <2>1. /\ phase[g] = "saving" /\ phase'[g] = "renamed"
        /\ file' = staged[g] /\ UNCHANGED written
    BY <1>1, <1>4 DEF SaveRename
  <2>2. \A h \in 1..generation : phase[h] # "renamed"
    BY <2>1 DEF OneWriter
  <2>3. OnDisk = written /\ written < g
    BY <2>1, <2>2, OnDiskWritten DEF WriterIsNewer
  <2>4. OneWriter' /\ WriterIsNewer' /\ AnsweredIsWritten'
    BY <1>1, <2>1 DEF OneWriter, WriterIsNewer, AnsweredIsWritten
  <2>5. \A h \in 1..generation : phase'[h] = "renamed" => h = g
    BY <1>1, <2>1, <2>4 DEF OneWriter
  <2>6. OnDisk' = g
    <3>1. (CHOOSE h \in 1..generation : phase'[h] = "renamed") = g
      BY <2>1, <2>5
    <3>2. QED
      BY <1>1, <2>1, <3>1 DEF OnDisk
  <2>7. FileIsVersion'
    BY <1>1, <2>1, <2>6 DEF FileIsVersion
  <2>8. QED
    BY <1>4, <2>3, <2>4, <2>6, <2>7
<1>5. CASE SaveFail(g)
  <2>1. /\ phase[g] = "saving" /\ phase'[g] = "failed"
        /\ UNCHANGED <<written, file>>
    BY <1>1, <1>5 DEF SaveFail
  <2>2. \A h \in 1..generation : phase[h] # "renamed" /\ phase'[h] # "renamed"
    BY <1>1, <2>1 DEF OneWriter
  <2>3. OnDisk = written /\ OnDisk' = written
    BY <1>1, <2>1, <2>2 DEF OnDisk
  <2>4. OneWriter' /\ WriterIsNewer' /\ AnsweredIsWritten'
    BY <1>1, <2>1 DEF OneWriter, WriterIsNewer, AnsweredIsWritten
  <2>5. FileIsVersion'
    BY <1>1, <2>1, <2>3 DEF FileIsVersion
  <2>6. ~SaveRename(g)
    BY <2>1, <1>1, <1>5 DEF SaveRename
  <2>7. QED
    BY <2>3, <2>4, <2>5, <2>6
<1>6. CASE PersistEnd(g)
  <2>1. /\ phase[g] = "renamed" /\ phase'[g] = "saved" /\ written' = g
        /\ UNCHANGED file
    BY <1>1, <1>6 DEF PersistEnd
  <2>2. OnDisk = g /\ written < g
    BY <2>1, OnDiskRenamed DEF WriterIsNewer
  <2>3. \A h \in 1..generation : phase'[h] \notin {"saving", "renamed"}
    BY <1>1, <2>1 DEF OneWriter
  <2>4. OnDisk' = g
    BY <1>1, <2>1, <2>3 DEF OnDisk
  <2>5. OneWriter' /\ WriterIsNewer'
    BY <1>1, <2>3 DEF OneWriter, WriterIsNewer
  <2>6. AnsweredIsWritten'
    BY <1>1, <2>1, <2>2 DEF AnsweredIsWritten
  <2>7. FileIsVersion'
    BY <1>1, <2>1, <2>2, <2>4 DEF FileIsVersion
  <2>8. ~SaveRename(g)
    BY <2>1 DEF SaveRename
  <2>9. QED
    BY <2>2, <2>4, <2>5, <2>6, <2>7, <2>8
<1>7. QED
  BY <1>2, <1>3, <1>4, <1>5, <1>6 DEF Persist

(* A start: no calls, and version 0 is the file as it was found. *)
LEMMA RestartResets ==
    ASSUME Restart
    PROVE  DiskInv' /\ OnDisk' = 0
<1>1. generation' = 0 /\ written' = 0 /\ staged'[0] = file /\ file' = file
  BY DEF Restart
<1>2. 1..generation' = {}
  BY <1>1
<1>3. OnDisk' = 0
  BY <1>1, <1>2 DEF OnDisk
<1>4. QED
  BY <1>1, <1>2, <1>3 DEF DiskInv, WriteInv, OneWriter, WriterIsNewer,
                          FileIsVersion, AnsweredIsWritten

(* Every step keeps DiskInv. *)
LEMMA DiskInvStep == TypeOK /\ DiskInv /\ [Next]_vars => DiskInv'
<1> SUFFICES ASSUME TypeOK, DiskInv, [Next]_vars PROVE DiskInv'
  OBVIOUS
<1>1. ASSUME NEW i \in Items, NEW l \in Labels, SourceReports(i, l) PROVE DiskInv'
  BY <1>1, DiskUntouched DEF SourceReports
<1>2. ASSUME NEW i \in Items, SourceDrops(i) PROVE DiskInv'
  BY <1>2, DiskUntouched DEF SourceDrops
<1>3. CASE Tick
  BY <1>3, DiskUntouched DEF Tick
<1>4. ASSUME NEW i \in Items, ReadItem(i) PROVE DiskInv'
  BY <1>4, DiskUntouched DEF ReadItem
<1>5. CASE ReadBoard
  BY <1>5, DiskUntouched DEF ReadBoard
<1>6. ASSUME NEW i \in Items, NEW k \in {"snooze", "bump"},
             NEW u \in Deadlines \cup {NoDeadline}, Decide(i, k, u)
      PROVE DiskInv'
  BY <1>6, StageKeepsDisk DEF Decide
<1>7. ASSUME NEW i \in Items, Clear(i) PROVE DiskInv'
  BY <1>7, StageKeepsDisk DEF Clear
<1>8. ASSUME NEW g \in 1..generation, Persist(g) PROVE DiskInv'
  BY <1>8, PersistKeepsDisk
<1>9. CASE Restart
  BY <1>9, RestartResets
<1>10. CASE UNCHANGED vars
  BY <1>10, DiskUntouched DEF vars
<1>11. QED
  BY <1>1, <1>2, <1>3, <1>4, <1>5, <1>6, <1>7, <1>8, <1>9, <1>10 DEF Next

(* The initial state satisfies DiskInv, with version 0 on disk. *)
LEMMA DiskInvInit == Init => DiskInv /\ OnDisk = 0
<1> SUFFICES ASSUME Init PROVE DiskInv /\ OnDisk = 0
  OBVIOUS
<1>1. 1..generation = {} /\ written = 0 /\ staged[0] = file
  BY DEF Init
<1>2. OnDisk = 0
  BY <1>1 DEF OnDisk
<1>3. QED
  BY <1>1, <1>2 DEF DiskInv, WriteInv, OneWriter, WriterIsNewer, FileIsVersion,
                    AnsweredIsWritten

(* Every reachable state satisfies DiskInv. *)
LEMMA DiskInvAlways == Spec => []DiskInv
<1>1. Init => DiskInv
  BY DiskInvInit
<1>2. QED
  BY <1>1, DiskInvStep, TypeCorrect, PTL DEF Spec

(* However the persist calls of concurrent requests are scheduled, and     *)
(* whichever of them fail, the file is the whole copy of one generation,   *)
(* and only a newer copy replaces it.                                      *)
THEOREM WriteProtocol == Spec => []WriteInv
<1>1. DiskInv => WriteInv
  BY DEF DiskInv
<1>2. QED
  BY <1>1, DiskInvAlways, PTL

(* When the last request has been answered, the newest set of decisions is *)
(* the one on disk, unless saving it failed.                               *)
THEOREM NewestIsSaved == Spec => []QuiescentFileIsNewest
<1>1. TypeOK /\ DiskInv => QuiescentFileIsNewest
  <2> SUFFICES ASSUME TypeOK, DiskInv,
                      \A g \in 1..generation : phase[g] \in {"saved", "superseded", "failed"},
                      generation > 0 => phase[generation] # "failed"
               PROVE  file = staged[generation]
    BY DEF QuiescentFileIsNewest
  <2>1. OnDisk = written
    BY OnDiskWritten
  <2>2. written = generation
    <3>1. CASE generation = 0
      BY <3>1 DEF TypeOK
    <3>2. CASE generation > 0
      <4>1. generation \in 1..generation
        BY <3>2 DEF TypeOK
      <4>2. phase[generation] \in {"saved", "superseded"}
        BY <3>2, <4>1
      <4>3. generation <= written
        BY <4>1, <4>2 DEF DiskInv, AnsweredIsWritten
      <4>4. QED
        BY <4>3 DEF TypeOK
    <3>3. QED
      BY <3>1, <3>2 DEF TypeOK
  <2>3. QED
    BY <2>1, <2>2 DEF DiskInv, WriteInv, FileIsVersion
<1>2. QED
  BY <1>1, TypeCorrect, DiskInvAlways, PTL

-----------------------------------------------------------------------------
(* A read only takes decisions away. *)
LEMMA AppliedLapses ==
    ASSUME TypeOK, NEW S, decisions' = Applied(decisions, S),
           UNCHANGED <<generation, staged, phase, written>>
    PROVE  \E L \in SUBSET Items : Register!Lapse(L)
<1> DEFINE L == {i \in Items : decisions'[i] = NoDecision}
<1>1. decisions' = Register!Without(decisions, L)
  BY DEF Applied, TypeOK, Snapshots, Register!Without
<1>2. OnDisk' = OnDisk
  BY DEF OnDisk
<1>3. Register!Lapse(L)
  BY <1>1, <1>2 DEF Register!Lapse
<1>4. QED
  BY <1>3

(* Staging a change of the decision about i is a submit of the register.   *)
LEMMA StageSubmits ==
    ASSUME TypeOK, DiskInv, NEW i \in Items, NEW d \in Decisions \cup {NoDecision},
           Stage([decisions EXCEPT ![i] = d])
    PROVE  Register!Submit(i, d)
<1>1. OnDisk' = OnDisk
  BY StageKeepsDisk
<1>2. /\ decisions' = [decisions EXCEPT ![i] = d]
      /\ generation' = generation + 1
      /\ staged' = [v \in 0..(generation + 1) |->
                      IF v = generation + 1 THEN decisions' ELSE staged[v]]
  BY DEF Stage
<1>3. QED
  BY <1>1, <1>2 DEF Register!Submit

(* Decide changes the decision about its item, and no other. *)
LEMMA DecideSubmits ==
    ASSUME TypeOK, DiskInv, NEW i \in Items, NEW k \in {"snooze", "bump"},
           NEW u \in Deadlines \cup {NoDeadline}, Decide(i, k, u)
    PROVE  \E d \in Decisions \cup {NoDecision} : Register!Submit(i, d)
<1> DEFINE made == [decisions EXCEPT ![i] = DecisionMade(i, k, u)]
<1>1. DecisionMade(i, k, u) \in Decisions
  BY DecisionMadeType DEF Decide
<1>2. \E d \in Decisions \cup {NoDecision} :
         Applied(made, {i}) = [decisions EXCEPT ![i] = d]
  <2>1. made \in Snapshots /\ made[i] = DecisionMade(i, k, u)
    BY <1>1 DEF TypeOK, Snapshots
  <2>2. CASE Spent(made[i], now, board[i])
    <3>1. Applied(made, {i}) = [decisions EXCEPT ![i] = NoDecision]
      BY <2>1, <2>2 DEF Applied, Decide, TypeOK, Snapshots
    <3>2. QED
      BY <3>1
  <2>3. CASE ~Spent(made[i], now, board[i])
    <3>1. Applied(made, {i}) = made
      BY <2>1, <2>3 DEF Applied, Snapshots
    <3>2. QED
      BY <1>1, <3>1
  <2>4. QED
    BY <2>2, <2>3
<1>3. Stage(Applied(made, {i}))
  BY DEF Decide
<1>4. QED
  BY <1>2, <1>3, StageSubmits

(* What a start loads is recovered from the version on disk. *)
LEMMA RestartResumes ==
    ASSUME TypeOK, DiskInv, Restart
    PROVE  Register!Resume
<1>1. file = staged[OnDisk]
  BY DEF DiskInv, WriteInv, FileIsVersion
<1>2. OnDisk' = 0
  BY RestartResets
<1>3. Loaded(file, now) \in Register!Recovered(file)
  <2>1. CASE file = Unreadable
    BY <2>1 DEF Loaded, Register!Recovered, Register!NoDecisions, NoDecisions
  <2>2. CASE file # Unreadable
    <3> DEFINE L == {i \in Items : OutOfTime(file[i], now)}
    <3>1. Loaded(file, now) = Register!Without(file, L)
      BY <2>2 DEF Loaded, Register!Without
    <3>2. QED
      BY <2>2, <3>1 DEF Register!Recovered
  <2>3. QED
    BY <2>1, <2>2
<1>4. QED
  BY <1>1, <1>2, <1>3 DEF Restart, Register!Resume

(* The daemon implements the register: whatever the interleaving of reads, *)
(* requests, persist calls, failed saves and restarts, a version of the    *)
(* decisions reaches the disk whole, versions reach it in order, and a     *)
(* restart resumes from the one it holds.                                  *)
THEOREM DecisionStoreImplementsRegister == Spec => ImplementsRegister
<1>1. Init => Register!RegInit
  <2> SUFFICES ASSUME Init PROVE Register!RegInit
    OBVIOUS
  <2>1. OnDisk = 0
    BY DiskInvInit
  <2>2. staged \in [{0} -> {NoDecisions, Unreadable}]
    BY DEF Init
  <2>3. Register!NoDecisions = NoDecisions
    BY DEF Register!NoDecisions, NoDecisions
  <2>4. QED
    BY <2>1, <2>2, <2>3 DEF Init, Register!RegInit
<1>2. TypeOK /\ DiskInv /\ [Next]_vars => [Register!RegNext]_(Register!regVars)
  <2> SUFFICES ASSUME TypeOK, DiskInv, [Next]_vars
               PROVE  Register!RegNext \/ UNCHANGED Register!regVars
    OBVIOUS
  <2>1. ASSUME UNCHANGED <<decisions, generation, staged, phase, written>>
        PROVE  UNCHANGED Register!regVars
    BY <2>1 DEF OnDisk, Register!regVars
  <2>2. ASSUME NEW i \in Items, NEW l \in Labels, SourceReports(i, l)
        PROVE  UNCHANGED Register!regVars
    BY <2>1, <2>2 DEF SourceReports
  <2>3. ASSUME NEW i \in Items, SourceDrops(i) PROVE UNCHANGED Register!regVars
    BY <2>1, <2>3 DEF SourceDrops
  <2>4. CASE Tick
    BY <2>1, <2>4 DEF Tick
  <2>5. ASSUME NEW i \in Items, ReadItem(i) PROVE Register!RegNext
    BY <2>5, AppliedLapses DEF ReadItem, Register!RegNext
  <2>6. CASE ReadBoard
    BY <2>6, AppliedLapses DEF ReadBoard, Register!RegNext
  <2>7. ASSUME NEW i \in Items, NEW k \in {"snooze", "bump"},
               NEW u \in Deadlines \cup {NoDeadline}, Decide(i, k, u)
        PROVE Register!RegNext
    BY <2>7, DecideSubmits DEF Register!RegNext
  <2>8. ASSUME NEW i \in Items, Clear(i) PROVE Register!RegNext
    BY <2>8, StageSubmits DEF Clear, Register!RegNext
  <2>9. ASSUME NEW g \in 1..generation, Persist(g)
        PROVE  Register!RegNext \/ UNCHANGED Register!regVars
    <3>1. UNCHANGED <<decisions, generation, staged>>
      BY <2>9 DEF Persist, PersistSkip, PersistBegin, SaveRename, SaveFail,
                  PersistEnd, memory
    <3>2. CASE SaveRename(g)
      <4>1. OnDisk < g /\ OnDisk' = g
        BY <2>9, <3>2, PersistKeepsDisk
      <4>2. g \in (OnDisk + 1)..generation
        BY <4>1, OnDiskType DEF TypeOK
      <4>3. Register!Commit(g)
        BY <3>1, <4>1, <4>2 DEF Register!Commit
      <4>4. QED
        BY <4>3 DEF Register!RegNext
    <3>3. CASE ~SaveRename(g)
      BY <2>9, <3>1, <3>3, PersistKeepsDisk DEF Register!regVars
    <3>4. QED
      BY <3>2, <3>3
  <2>10. CASE Restart
    BY <2>10, RestartResumes DEF Register!RegNext
  <2>11. CASE UNCHANGED vars
    BY <2>1, <2>11 DEF vars
  <2>12. QED
    BY <2>2, <2>3, <2>4, <2>5, <2>6, <2>7, <2>8, <2>9, <2>10, <2>11 DEF Next
<1>3. QED
  BY <1>1, <1>2, TypeCorrect, DiskInvAlways, PTL
     DEF Spec, ImplementsRegister, Register!RegSpec

-----------------------------------------------------------------------------
(* What was answered as saved stands.                                      *)

(* d stands for the fate s at time t: it is what was said, or a snooze was *)
(* said that has ended.                                                    *)
Stands(d, s, t) ==
    \/ d = s.what
    \/ d = NoDecision /\ s.what.kind = "snooze" /\ (s.moved \/ OutOfTime(s.what, t))

(* The decisions a version of the file stands for.                         *)
Content(f) == IF f = Unreadable THEN NoDecisions ELSE f

(* This process has heard, or has loaded, what was said last about i.      *)
Known(i) == said[i].durable \/ \E h \in 1..generation : about[h] = i

(* Version g has the last word about i.                                    *)
HasLast(i, g) == \A h \in 1..generation : about[h] = i => h <= g

HTyped == said \in [Items -> Fates] /\ about \in [1..generation -> Items]

(* An item that does not read as it did when it was decided about has      *)
(* moved.                                                                  *)
MoveSeen(i) ==
    board[i] # Absent /\ said[i].what # NoDecision /\ said[i].what.label # board[i] =>
        said[i].moved

VersionsStand(i) ==
    Known(i) =>
        /\ Stands(decisions[i], said[i], now)
        /\ \A g \in 0..generation :
              HasLast(i, g) => Stands(Content(staged[g])[i], said[i], now)

DurableOnDisk(i) == said[i].durable => HasLast(i, OnDisk)

ItemInv(i) == MoveSeen(i) /\ VersionsStand(i) /\ DurableOnDisk(i)

HInv == HTyped /\ \A i \in Items : ItemInv(i)

-----------------------------------------------------------------------------
(* The history variables add nothing to what the store can do.             *)
LEMMA HistoryOnlyRecords == HSpec => Spec
<1>1. HInit => Init
  BY DEF HInit
<1>2. [HNext]_histVars => [Next]_vars
  BY DEF HNext, histVars, vars, Next, HReports, HRead, HSays, HAnswered, Persist
<1> QED
  BY <1>1, <1>2, PTL DEF HSpec, Spec

(* What stands goes on standing as time passes and labels move.            *)
LEMMA StandsOn ==
    ASSUME NEW d, NEW s, NEW s2, s2.what = s.what, s.what \in Decisions \cup {NoDecision},
           s.moved => s2.moved,
           NEW t \in Nat, NEW t2 \in Nat, t <= t2, Stands(d, s, t)
    PROVE  Stands(d, s2, t2)
<1>1. OutOfTime(s.what, t) => OutOfTime(s.what, t2)
  <2>1. s.what # NoDecision => s.what.until \in Nat
    <3>1. \A e \in Decisions : e.until \in Deadlines \cup {0}
      BY DEF Decisions, NoDeadline
    <3>2. Deadlines \cup {0} \subseteq Nat
      BY DecisionAssumptions
    <3> QED
      BY <3>1, <3>2
  <2> QED
    BY <2>1 DEF OutOfTime
<1> QED
  BY <1>1 DEF Stands

(* What a read drops was a snooze that has ended.                          *)
LEMMA AppliedStands ==
    ASSUME NEW ds, NEW S, NEW i \in Items, MoveSeen(i), Stands(ds[i], said[i], now)
    PROVE  Stands(Applied(ds, S)[i], said[i], now)
<1>1. CASE i \in S /\ board[i] # Absent /\ Spent(ds[i], now, board[i])
  <2>1. ds[i] # NoDecision /\ ds[i].kind = "snooze"
        /\ (OutOfTime(ds[i], now) \/ ds[i].label # board[i])
    BY <1>1 DEF Spent, OutOfTime
  <2>2. ds[i] = said[i].what
    BY <2>1 DEF Stands
  <2>3. Applied(ds, S)[i] = NoDecision
    BY <1>1 DEF Applied
  <2> QED
    BY <1>1, <2>1, <2>2, <2>3 DEF Stands, MoveSeen
<1>2. CASE ~(i \in S /\ board[i] # Absent /\ Spent(ds[i], now, board[i]))
  BY <1>2 DEF Applied
<1> QED
  BY <1>1, <1>2

(* So is what a start drops.                                               *)
LEMMA LoadedStands ==
    ASSUME NEW f, NEW i \in Items, NEW s, NEW t, Stands(Content(f)[i], s, t)
    PROVE  Stands(Loaded(f, t)[i], s, t)
<1>1. CASE f = Unreadable \/ ~OutOfTime(f[i], t)
  <2>1. Loaded(f, t)[i] = Content(f)[i]
    BY <1>1 DEF Loaded, Content, NoDecisions
  <2> QED
    BY <2>1
<1>2. CASE f # Unreadable /\ OutOfTime(f[i], t)
  <2>1. Loaded(f, t)[i] = NoDecision /\ f[i] # NoDecision /\ f[i].kind = "snooze"
    BY <1>2 DEF Loaded, OutOfTime
  <2>2. f[i] = s.what
    BY <1>2, <2>1 DEF Stands, Content
  <2> QED
    BY <1>2, <2>1, <2>2 DEF Stands
<1> QED
  BY <1>1, <1>2

-----------------------------------------------------------------------------
(* A daemon on a new machine knows that nothing was said.                  *)
LEMMA HInitInv == HInit => HInv
<1> SUFFICES ASSUME HInit PROVE HInv
  OBVIOUS
<1>1. /\ generation = 0 /\ 1..generation = {} /\ staged[0] \in {NoDecisions, Unreadable}
      /\ decisions = NoDecisions /\ 0..generation = {0}
  BY DEF HInit, Init
<1>2. \A i \in Items : said[i] = [what |-> NoDecision, durable |-> TRUE,
                                  moved |-> FALSE, lapsed |-> FALSE]
  BY DEF HInit, Fresh
<1>3. HTyped
  <2>1. said \in [Items -> Fates]
    BY DEF HInit, Fresh, Fates
  <2>2. about \in [1..generation -> Items]
    BY <1>1 DEF HInit
  <2> QED
    BY <2>1, <2>2 DEF HTyped
<1>4. ASSUME NEW i \in Items PROVE ItemInv(i)
  <2>1. said[i].what = NoDecision /\ NoDecisions[i] = NoDecision
    BY <1>2 DEF NoDecisions
  <2>2. MoveSeen(i) /\ DurableOnDisk(i)
    BY <1>1, <2>1 DEF MoveSeen, DurableOnDisk, HasLast
  <2>3. VersionsStand(i)
    BY <1>1, <2>1 DEF VersionsStand, Stands, Content
  <2> QED
    BY <2>2, <2>3 DEF ItemInv
<1> QED
  BY <1>3, <1>4 DEF HInv

(* A step that stages nothing, and by which memory at most forgets what    *)
(* has ended, keeps what stands.                                           *)
LEMMA QuietStep ==
    ASSUME TypeOK, TypeOK', HTyped, HTyped', NEW i \in Items, ItemInv(i), MoveSeen(i)',
           UNCHANGED <<generation, staged, about>>,
           said'[i].what = said[i].what, said[i].moved => said'[i].moved,
           said'[i].durable = said[i].durable,
           now <= now', OnDisk' \in Nat, OnDisk <= OnDisk',
           Stands(decisions[i], said[i], now) => Stands(decisions'[i], said[i], now)
    PROVE  ItemInv(i)'
<1>1. now \in Nat /\ now' \in Nat /\ said[i].what \in Decisions \cup {NoDecision}
  BY DEF TypeOK, HTyped, Fates
<1>2. Known(i)' <=> Known(i)
  BY DEF Known
<1>3. \A g \in 0..generation : HasLast(i, g)' <=> HasLast(i, g)
  BY DEF HasLast
<1>4. VersionsStand(i)'
  <2> SUFFICES ASSUME Known(i)'
               PROVE  /\ Stands(decisions'[i], said'[i], now')
                      /\ \A g \in 0..generation' :
                            HasLast(i, g)' => Stands(Content(staged'[g])[i], said'[i], now')
    BY DEF VersionsStand
  <2>1. Stands(decisions'[i], said'[i], now')
    BY <1>1, <1>2, StandsOn DEF ItemInv, VersionsStand
  <2>2. ASSUME NEW g \in 0..generation', HasLast(i, g)'
        PROVE  Stands(Content(staged'[g])[i], said'[i], now')
    <3>1. Stands(Content(staged[g])[i], said[i], now)
      BY <1>2, <1>3, <2>2 DEF ItemInv, VersionsStand
    <3> QED
      BY <1>1, <3>1, StandsOn
  <2> QED
    BY <2>1, <2>2
<1>5. DurableOnDisk(i)'
  <2> SUFFICES ASSUME said'[i].durable, NEW h \in 1..generation, about[h] = i
               PROVE  h <= OnDisk'
    BY DEF DurableOnDisk, HasLast
  <2>1. h <= OnDisk
    BY DEF ItemInv, DurableOnDisk, HasLast
  <2>2. OnDisk \in Nat /\ generation \in Nat
    BY OnDiskType DEF TypeOK
  <2> QED
    BY <2>1, <2>2
<1> QED
  BY <1>4, <1>5 DEF ItemInv

(* What a decision looks like once it is made: about the label the item    *)
(* carries, and gone at once only if its deadline has passed.              *)
LEMMA DecideMakes ==
    ASSUME TypeOK, NEW i \in Items, NEW k \in {"snooze", "bump"},
           NEW u \in Deadlines \cup {NoDeadline}, Decide(i, k, u)
    PROVE  \E d \in Decisions, ds \in Snapshots :
              /\ d = DecisionMade(i, k, u) /\ d.label = board[i]
              /\ Stage(ds)
              /\ ds[i] = d \/ (ds[i] = NoDecision /\ d.kind = "snooze" /\ OutOfTime(d, now))
              /\ \A j \in Items \ {i} : ds[j] = decisions[j]
<1> DEFINE d == DecisionMade(i, k, u)
           made == [decisions EXCEPT ![i] = d]
           ds == Applied(made, {i})
<1>1. d \in Decisions /\ d.label = board[i]
  BY DecisionMadeType DEF Decide, DecisionMade
<1> HIDE DEF d
<1>2. made \in Snapshots /\ made[i] = d /\ \A j \in Items \ {i} : made[j] = decisions[j]
  BY <1>1 DEF TypeOK, Snapshots
<1>3. ds \in Snapshots
  BY <1>2, AppliedType
<1>4. ds[i] = d \/ (ds[i] = NoDecision /\ d.kind = "snooze" /\ OutOfTime(d, now))
  BY <1>1, <1>2 DEF Applied, Spent, OutOfTime
<1>5. \A j \in Items \ {i} : ds[j] = decisions[j]
  BY <1>2 DEF Applied
<1>6. Stage(ds)
  BY DEF Decide, d
<1> HIDE DEF ds
<1> QED
  BY <1>1, <1>3, <1>4, <1>5, <1>6 DEF d

(* A fate of which one field is recorded anew.                             *)
LEMMA LapsedSet ==
    ASSUME NEW s \in Fates, NEW b \in BOOLEAN
    PROVE  /\ [s EXCEPT !.lapsed = b] \in Fates
           /\ [s EXCEPT !.lapsed = b].what = s.what
           /\ [s EXCEPT !.lapsed = b].moved = s.moved
           /\ [s EXCEPT !.lapsed = b].durable = s.durable
<1>1. [s EXCEPT !.lapsed = b] \in Fates
  BY DEF Fates
<1>2. [s EXCEPT !.lapsed = b].what = s.what
  BY DEF Fates
<1>3. [s EXCEPT !.lapsed = b].moved = s.moved
  BY DEF Fates
<1>4. [s EXCEPT !.lapsed = b].durable = s.durable
  BY DEF Fates
<1> QED
  BY <1>1, <1>2, <1>3, <1>4

(* The same of the label's moving.                                        *)
LEMMA MovedSet ==
    ASSUME NEW s \in Fates, NEW b \in BOOLEAN
    PROVE  /\ [s EXCEPT !.moved = b] \in Fates
           /\ [s EXCEPT !.moved = b].what = s.what
           /\ [s EXCEPT !.moved = b].moved = b
           /\ [s EXCEPT !.moved = b].durable = s.durable
<1>1. [s EXCEPT !.moved = b] \in Fates
  BY DEF Fates
<1>2. [s EXCEPT !.moved = b].what = s.what
  BY DEF Fates
<1>3. [s EXCEPT !.moved = b].moved = b
  BY DEF Fates
<1>4. [s EXCEPT !.moved = b].durable = s.durable
  BY DEF Fates
<1> QED
  BY <1>1, <1>2, <1>3, <1>4

(* And of the answer.                                                      *)
LEMMA DurableSet ==
    ASSUME NEW s \in Fates
    PROVE  /\ [s EXCEPT !.durable = TRUE] \in Fates
           /\ [s EXCEPT !.durable = TRUE].what = s.what
           /\ [s EXCEPT !.durable = TRUE].moved = s.moved
<1>1. [s EXCEPT !.durable = TRUE] \in Fates
  BY DEF Fates
<1>2. [s EXCEPT !.durable = TRUE].what = s.what
  BY DEF Fates
<1>3. [s EXCEPT !.durable = TRUE].moved = s.moved
  BY DEF Fates
<1> QED
  BY <1>1, <1>2, <1>3

(* A request makes its instruction the last word on its item, which the    *)
(* new version has, and leaves the others' where they were.                *)
LEMMA RequestStep ==
    ASSUME TypeOK, DiskInv, HTyped, \A j \in Items : ItemInv(j),
           NEW i \in Items, NEW d \in Decisions \cup {NoDecision}, NEW ds \in Snapshots,
           Stage(ds), UNCHANGED board,
           d # NoDecision => d.label = board[i],
           ds[i] = d \/ (ds[i] = NoDecision /\ d.kind = "snooze" /\ OutOfTime(d, now)),
           \A j \in Items \ {i} : ds[j] = decisions[j],
           said' = [said EXCEPT ![i] = [Fresh(d) EXCEPT !.lapsed = decisions'[i] # d]],
           about' = [g \in 1..generation' |-> IF g = generation' THEN i ELSE about[g]]
    PROVE  HInv'
<1>1. /\ generation \in Nat /\ generation' = generation + 1 /\ generation' \in Nat
      /\ decisions' = ds /\ now' = now
      /\ staged'[generation'] = ds
      /\ \A g \in 0..generation : staged'[g] = staged[g]
  BY DEF Stage, TypeOK
<1>2. OnDisk' = OnDisk /\ OnDisk \in 0..generation
  BY StageKeepsDisk, OnDiskType
<1>3. /\ said'[i].what = d /\ said'[i].durable = FALSE /\ said'[i].moved = FALSE
      /\ said' \in [Items -> Fates]
      /\ \A j \in Items \ {i} : said'[j] = said[j]
  <2> DEFINE s == [Fresh(d) EXCEPT !.lapsed = decisions'[i] # d]
  <2>1. /\ Fresh(d) \in Fates /\ Fresh(d).what = d
        /\ Fresh(d).durable = FALSE /\ Fresh(d).moved = FALSE
    BY DEF Fresh, Fates
  <2>2. (decisions'[i] # d) \in BOOLEAN
    OBVIOUS
  <2>3. /\ s \in Fates /\ s.what = Fresh(d).what
        /\ s.durable = Fresh(d).durable /\ s.moved = Fresh(d).moved
    BY <2>1, <2>2, LapsedSet
  <2>4. said' = [said EXCEPT ![i] = s]
    OBVIOUS
  <2> HIDE DEF s
  <2>5. said'[i] = s /\ said' \in [Items -> Fates]
        /\ \A j \in Items \ {i} : said'[j] = said[j]
    BY <2>3, <2>4 DEF HTyped
  <2> QED
    BY <2>1, <2>3, <2>5
<1>4. /\ about' \in [1..generation' -> Items]
      /\ about'[generation'] = i
      /\ \A h \in 1..generation : about'[h] = about[h]
  BY <1>1 DEF HTyped
<1>5. ItemInv(i)'
  <2>1. MoveSeen(i)'
    BY <1>3 DEF MoveSeen
  <2>2. DurableOnDisk(i)'
    BY <1>3 DEF DurableOnDisk
  <2>3. Stands(ds[i], said'[i], now')
    BY <1>1, <1>3 DEF Stands
  <2>4. Content(ds) = ds
    BY SentinelAssumptions DEF Content
  <2>5. ASSUME NEW g \in 0..generation', HasLast(i, g)' PROVE g = generation'
    <3>1. generation' <= g
      BY <1>1, <1>4, <2>5 DEF HasLast
    <3> QED
      BY <1>1, <3>1
  <2>6. VersionsStand(i)'
    BY <1>1, <2>3, <2>4, <2>5 DEF VersionsStand
  <2> QED
    BY <2>1, <2>2, <2>6 DEF ItemInv
<1>6. ASSUME NEW j \in Items, j # i PROVE ItemInv(j)'
  <2>1. said'[j] = said[j] /\ ItemInv(j)
    BY <1>3, <1>6
  <2>2. Known(j)' <=> Known(j)
    BY <1>1, <1>4, <1>6, <2>1 DEF Known
  <2>3. \A g \in Nat : HasLast(j, g)' => HasLast(j, g)
    BY <1>1, <1>4 DEF HasLast
  <2>4. \A g \in Nat : HasLast(j, g) => HasLast(j, g)'
    BY <1>1, <1>4, <1>6 DEF HasLast
  <2>5. MoveSeen(j)'
    BY <2>1 DEF MoveSeen, ItemInv
  <2>6. DurableOnDisk(j)'
    <3>1. HasLast(j, OnDisk)' <=> \A h \in 1..generation' : about'[h] = j => h <= OnDisk'
      BY DEF HasLast
    <3>2. said[j].durable => \A h \in 1..generation : about[h] = j => h <= OnDisk
      BY <2>1 DEF ItemInv, DurableOnDisk, HasLast
    <3>3. said[j].durable => HasLast(j, OnDisk)'
      BY <1>1, <1>2, <1>4, <1>6, <3>1, <3>2
    <3> QED
      BY <2>1, <3>3 DEF DurableOnDisk
  <2>7. VersionsStand(j)'
    <3> SUFFICES ASSUME Known(j)'
                 PROVE  /\ Stands(decisions'[j], said'[j], now')
                        /\ \A g \in 0..generation' :
                              HasLast(j, g)' => Stands(Content(staged'[g])[j], said'[j], now')
      BY DEF VersionsStand
    <3>1. Stands(decisions[j], said[j], now) /\ decisions'[j] = decisions[j]
      BY <1>1, <1>6, <2>1, <2>2 DEF ItemInv, VersionsStand
    <3>2. ASSUME NEW g \in 0..generation', HasLast(j, g)'
          PROVE  Stands(Content(staged'[g])[j], said'[j], now')
      <4>1. CASE g = generation'
        <5>1. Content(staged'[g])[j] = decisions[j]
          BY <1>1, <1>6, <4>1, SentinelAssumptions DEF Content
        <5> QED
          BY <1>1, <2>1, <3>1, <5>1
      <4>2. CASE g # generation'
        <5>1. g \in 0..generation /\ g \in Nat
          BY <1>1, <4>2
        <5>2. Stands(Content(staged[g])[j], said[j], now)
          BY <2>1, <2>2, <2>3, <3>2, <5>1 DEF ItemInv, VersionsStand
        <5> QED
          BY <1>1, <2>1, <5>1, <5>2
      <4> QED
        BY <4>1, <4>2
    <3> QED
      BY <1>1, <2>1, <3>1, <3>2
  <2> QED
    BY <2>5, <2>6, <2>7 DEF ItemInv
<1>7. HTyped'
  BY <1>3, <1>4 DEF HTyped
<1> QED
  BY <1>5, <1>6, <1>7 DEF HInv

-----------------------------------------------------------------------------
(* A report whose label is another one is seen as a move.                  *)
LEMMA ReportStep ==
    ASSUME TypeOK, TypeOK', HInv, NEW j \in Items, NEW l \in Labels, HReports(j, l)
    PROVE  HInv'
<1> DEFINE b == said[j].moved \/ (said[j].what # NoDecision /\ said[j].what.label # l)
           s == [said[j] EXCEPT !.moved = b]
<1>1. said[j] \in Fates /\ said \in [Items -> Fates]
  BY DEF HInv, HTyped
<1>2. b \in BOOLEAN
  BY <1>1 DEF Fates
<1>3. /\ s \in Fates /\ s.what = said[j].what /\ s.moved = b
      /\ s.durable = said[j].durable
  BY <1>1, <1>2, MovedSet
<1>4. said' = [said EXCEPT ![j] = s]
  BY DEF HReports
<1>5. (said[j].moved => b) /\ (said[j].what # NoDecision /\ said[j].what.label # l => b)
  OBVIOUS
<1> HIDE DEF s, b
<1>6. said' \in [Items -> Fates] /\ said'[j] = s
      /\ \A i \in Items \ {j} : said'[i] = said[i]
  BY <1>1, <1>3, <1>4
<1>7. /\ UNCHANGED <<now, decisions, generation, staged, about, OnDisk>>
      /\ board'[j] = l /\ \A i \in Items \ {j} : board'[i] = board[i]
  BY DEF HReports, SourceReports, OnDisk, TypeOK
<1>8. HTyped'
  BY <1>6, <1>7 DEF HInv, HTyped
<1>9. ASSUME NEW i \in Items PROVE ItemInv(i)'
  <2>1. ItemInv(i) /\ HTyped
    BY DEF HInv
  <2>2. said'[i].what = said[i].what /\ (said[i].moved => said'[i].moved)
        /\ said'[i].durable = said[i].durable
    BY <1>3, <1>5, <1>6
  <2>3. MoveSeen(i)'
    <3>1. CASE i = j
      BY <1>3, <1>5, <1>6, <1>7, <3>1 DEF MoveSeen
    <3>2. CASE i # j
      BY <1>6, <1>7, <2>1, <3>2 DEF MoveSeen, ItemInv
    <3> QED
      BY <3>1, <3>2
  <2>4. now <= now' /\ OnDisk' \in Nat /\ OnDisk <= OnDisk'
    BY <1>7, OnDiskType DEF TypeOK
  <2> QED
    BY <1>7, <1>8, <2>1, <2>2, <2>3, <2>4, QuietStep
<1> QED
  BY <1>8, <1>9 DEF HInv

(* A read drops what has ended, and only that.                             *)
LEMMA ReadStep ==
    ASSUME TypeOK, TypeOK', HInv, NEW S, decisions' = Applied(decisions, S),
           UNCHANGED <<board, now, generation, staged, phase, written, about>>,
           said' = [i \in Items |-> [said[i] EXCEPT !.lapsed =
                      @ \/ (decisions[i] # NoDecision /\ decisions'[i] = NoDecision)]]
    PROVE  HInv'
<1>1. ASSUME NEW i \in Items
      PROVE  /\ said'[i] \in Fates /\ said'[i].what = said[i].what
             /\ said'[i].moved = said[i].moved /\ said'[i].durable = said[i].durable
  <2> DEFINE b == said[i].lapsed \/ (decisions[i] # NoDecision /\ decisions'[i] = NoDecision)
  <2>1. said[i] \in Fates
    BY DEF HInv, HTyped
  <2>2. b \in BOOLEAN
    BY <2>1 DEF Fates
  <2>3. said'[i] = [said[i] EXCEPT !.lapsed = b]
    OBVIOUS
  <2> HIDE DEF b
  <2> QED
    BY <2>1, <2>2, <2>3, LapsedSet
<1>2. DOMAIN said' = Items /\ said' = [i \in Items |-> said'[i]]
  OBVIOUS
<1>3. HTyped'
  BY <1>1, <1>2 DEF HInv, HTyped
<1>4. OnDisk' = OnDisk
  BY DEF OnDisk
<1>5. ASSUME NEW i \in Items PROVE ItemInv(i)'
  <2>1. ItemInv(i) /\ HTyped
    BY DEF HInv
  <2>2. MoveSeen(i)'
    BY <1>1, <2>1 DEF MoveSeen, ItemInv
  <2>3. Stands(decisions[i], said[i], now) => Stands(decisions'[i], said[i], now)
    BY <2>1, AppliedStands DEF ItemInv
  <2>4. now <= now' /\ OnDisk' \in Nat /\ OnDisk <= OnDisk'
    BY <1>4, OnDiskType DEF TypeOK
  <2> QED
    BY <1>1, <1>3, <2>1, <2>2, <2>3, <2>4, QuietStep
<1> QED
  BY <1>3, <1>5 DEF HInv

(* A step that says nothing and changes no decision in memory: a poll that *)
(* drops an item, the clock, a step of a save.                             *)
LEMMA SilentStep ==
    ASSUME TypeOK, TypeOK', HInv,
           UNCHANGED <<decisions, generation, staged, said, about>>,
           \A i \in Items : board'[i] \in {board[i], Absent},
           now <= now', OnDisk' \in Nat, OnDisk <= OnDisk'
    PROVE  HInv'
<1>1. HTyped'
  BY DEF HInv, HTyped
<1>2. ASSUME NEW i \in Items PROVE ItemInv(i)'
  <2>1. ItemInv(i) /\ HTyped
    BY DEF HInv
  <2>2. MoveSeen(i)'
    BY <2>1 DEF MoveSeen, ItemInv
  <2> QED
    BY <1>1, <2>1, <2>2, QuietStep
<1> QED
  BY <1>1, <1>2 DEF HInv

(* A request is answered: what it said is on disk, in this version or in a *)
(* later one.                                                              *)
LEMMA AnswerStep ==
    ASSUME TypeOK, TypeOK', DiskInv, HInv, NEW g \in 1..generation, HAnswered(g)
    PROVE  HInv'
<1>1. OnDisk' = OnDisk /\ OnDisk \in 0..generation
  <2>1. Persist(g) /\ ~SaveRename(g)
    BY DEF HAnswered, Persist, PersistSkip, PersistEnd, SaveRename
  <2> QED
    BY <2>1, PersistKeepsDisk, OnDiskType
<1>2. g <= OnDisk
  <2>1. CASE PersistEnd(g)
    <3>1. OnDisk = g
      BY <2>1, OnDiskRenamed DEF PersistEnd, DiskInv, WriteInv
    <3> QED
      BY <3>1
  <2>2. CASE PersistSkip(g)
    <3>1. OnDisk = written
      BY <2>2, WritingEmpty, OnDiskWritten DEF PersistSkip
    <3> QED
      BY <2>2, <3>1 DEF PersistSkip
  <2> QED
    BY <2>1, <2>2 DEF HAnswered
<1>3. UNCHANGED <<board, now, decisions, generation, staged, about>>
  BY DEF HAnswered, PersistSkip, PersistEnd, memory
<1>4. CASE ~Newest(g)
  <2>1. said' = said
    BY <1>4 DEF HAnswered
  <2>2. OnDisk' \in Nat /\ OnDisk <= OnDisk' /\ now <= now'
    BY <1>1, <1>3 DEF TypeOK
  <2> QED
    BY <1>3, <2>1, <2>2, SilentStep
<1>5. CASE Newest(g)
  <2>0. PICK i \in Items : i = about[g]
    BY DEF HInv, HTyped
  <2>1. said[i] \in Fates /\ HTyped
    BY DEF HInv, HTyped
  <2>2. said' = [said EXCEPT ![i] = [said[i] EXCEPT !.durable = TRUE]]
    BY <1>5, <2>0 DEF HAnswered
  <2>3. /\ said' \in [Items -> Fates] /\ said'[i].what = said[i].what
        /\ said'[i].moved = said[i].moved
        /\ \A j \in Items \ {i} : said'[j] = said[j]
    <3> DEFINE s == [said[i] EXCEPT !.durable = TRUE]
    <3>1. s \in Fates /\ s.what = said[i].what /\ s.moved = said[i].moved
      BY <2>1, DurableSet
    <3>2. said' = [said EXCEPT ![i] = s]
      BY <2>2
    <3> HIDE DEF s
    <3> QED
      BY <2>1, <3>1, <3>2 DEF HTyped
  <2>4. HTyped'
    BY <1>3, <2>1, <2>3 DEF HTyped
  <2>5. ASSUME NEW j \in Items, j # i PROVE ItemInv(j)'
    <3>1. ItemInv(j) /\ said'[j] = said[j]
      BY <2>3, <2>5 DEF HInv
    <3>2. MoveSeen(j)'
      BY <1>3, <3>1 DEF ItemInv, MoveSeen
    <3>3. now <= now' /\ OnDisk' \in Nat /\ OnDisk <= OnDisk'
      BY <1>1, <1>3 DEF TypeOK
    <3> QED
      BY <1>3, <2>1, <2>4, <3>1, <3>2, <3>3, QuietStep
  <2>6. ItemInv(i)'
    <3>1. ItemInv(i) /\ Known(i) /\ i \in Items
      BY <2>0 DEF HInv, Known
    <3>3. MoveSeen(i)'
      BY <1>3, <2>3, <3>1 DEF ItemInv, MoveSeen
    <3>4. VersionsStand(i)'
      <4>1. \A h \in 0..generation : HasLast(i, h)' <=> HasLast(i, h)
        BY <1>3 DEF HasLast
      <4>2. \A d : Stands(d, said[i], now) => Stands(d, said'[i], now)
        BY <2>3 DEF Stands
      <4> QED
        BY <1>3, <3>1, <4>1, <4>2 DEF VersionsStand, ItemInv
    <3>5. DurableOnDisk(i)'
      <4>1. ASSUME NEW h \in 1..generation, about[h] = i PROVE h <= OnDisk
        <5>1. h <= g
          BY <1>5, <2>0, <4>1 DEF Newest, TypeOK
        <5> QED
          BY <1>1, <1>2, <5>1 DEF TypeOK
      <4> QED
        BY <1>1, <1>3, <4>1 DEF DurableOnDisk, HasLast
    <3> QED
      BY <3>3, <3>4, <3>5 DEF ItemInv
  <2> QED
    BY <2>4, <2>5, <2>6 DEF HInv
<1> QED
  BY <1>4, <1>5

(* A start knows what was saved: of an instruction that was, the file has  *)
(* the last word.                                                          *)
LEMMA RestartStep ==
    ASSUME TypeOK, DiskInv, HInv, Restart, said' = said,
           about' = [g \in {} |-> CHOOSE i \in Items : TRUE]
    PROVE  HInv'
<1>1. /\ generation' = 0 /\ 1..generation' = {} /\ 0..generation' = {0}
      /\ staged'[0] = file /\ decisions' = Loaded(file, now) /\ now' = now
      /\ \A i \in Items : board'[i] = Absent
  BY DEF Restart
<1>2. file = staged[OnDisk] /\ OnDisk \in 0..generation
  BY OnDiskType DEF DiskInv, WriteInv, FileIsVersion
<1>3. HTyped'
  BY <1>1 DEF HInv, HTyped
<1>4. ASSUME NEW i \in Items PROVE ItemInv(i)'
  <2>1. MoveSeen(i)'
    BY <1>1 DEF MoveSeen
  <2>2. DurableOnDisk(i)'
    BY <1>1 DEF DurableOnDisk, HasLast
  <2>3. ASSUME Known(i)' PROVE Stands(Content(file)[i], said[i], now)
    <3>1. said[i].durable
      BY <1>1, <2>3 DEF Known
    <3>2. Known(i) /\ HasLast(i, OnDisk)
      BY <3>1 DEF Known, HInv, ItemInv, DurableOnDisk
    <3> QED
      BY <1>2, <3>2 DEF HInv, ItemInv, VersionsStand
  <2>4. VersionsStand(i)'
    BY <1>1, <2>3, LoadedStands DEF VersionsStand
  <2> QED
    BY <2>1, <2>2, <2>4 DEF ItemInv
<1> QED
  BY <1>3, <1>4 DEF HInv

-----------------------------------------------------------------------------
(* Every step keeps what was said and saved standing.                      *)
LEMMA HInvStep ==
    ASSUME TypeOK, TypeOK', DiskInv, HInv, [HNext]_histVars
    PROVE  HInv'
<1>0. OnDisk \in Nat /\ now \in Nat
  BY OnDiskType DEF TypeOK
<1>1. ASSUME NEW i \in Items, NEW l \in Labels, HReports(i, l) PROVE HInv'
  BY <1>1, ReportStep
<1>2. CASE UNCHANGED <<decisions, generation, staged, phase, written, said, about>>
           /\ now <= now' /\ \A i \in Items : board'[i] \in {board[i], Absent}
  <2>1. OnDisk' = OnDisk
    BY <1>2 DEF OnDisk
  <2>2. OnDisk' \in Nat /\ OnDisk <= OnDisk'
    BY <1>0, <2>1
  <2> QED
    BY <1>2, <2>2, SilentStep
<1>3. ASSUME NEW i \in Items, SourceDrops(i), UNCHANGED <<said, about>> PROVE HInv'
  BY <1>0, <1>2, <1>3 DEF SourceDrops, TypeOK
<1>4. CASE Tick /\ UNCHANGED <<said, about>>
  BY <1>0, <1>2, <1>4 DEF Tick
<1>5. ASSUME NEW i \in Items, HRead(ReadItem(i)) PROVE HInv'
  BY <1>5, ReadStep DEF HRead, ReadItem
<1>6. CASE HRead(ReadBoard)
  BY <1>6, ReadStep DEF HRead, ReadBoard
<1>7. ASSUME NEW i \in Items, NEW k \in {"snooze", "bump"},
             NEW u \in Deadlines \cup {NoDeadline},
             HSays(i, DecisionMade(i, k, u), Decide(i, k, u))
      PROVE  HInv'
  <2>1. Decide(i, k, u)
    BY <1>7 DEF HSays
  <2>2. PICK d \in Decisions, ds \in Snapshots :
              /\ d = DecisionMade(i, k, u) /\ d.label = board[i]
              /\ Stage(ds)
              /\ ds[i] = d \/ (ds[i] = NoDecision /\ d.kind = "snooze" /\ OutOfTime(d, now))
              /\ \A j \in Items \ {i} : ds[j] = decisions[j]
    BY <2>1, DecideMakes
  <2>3. HSays(i, d, Decide(i, k, u)) /\ board' = board
    BY <1>7, <2>2 DEF Stage
  <2> QED
    BY <2>2, <2>3, RequestStep DEF HSays, HInv
<1>8. ASSUME NEW i \in Items, HSays(i, NoDecision, Clear(i)) PROVE HInv'
  <2> DEFINE ds == [decisions EXCEPT ![i] = NoDecision]
  <2>1. ds \in Snapshots /\ ds[i] = NoDecision /\ \A j \in Items \ {i} : ds[j] = decisions[j]
    BY DEF TypeOK, Snapshots
  <2>2. Stage(ds) /\ board' = board
    BY <1>8 DEF HSays, Clear, Stage
  <2> HIDE DEF ds
  <2> QED
    BY <1>8, <2>1, <2>2, RequestStep DEF HSays, HInv
<1>9. ASSUME NEW g \in 1..generation, HAnswered(g) PROVE HInv'
  BY <1>9, AnswerStep
<1>10. ASSUME NEW g \in 1..generation, PersistBegin(g) \/ SaveRename(g) \/ SaveFail(g),
              UNCHANGED <<said, about>>
       PROVE  HInv'
  <2>1. Persist(g)
    BY <1>10 DEF Persist
  <2>2. UNCHANGED <<board, now, decisions, generation, staged>>
    BY <1>10 DEF PersistBegin, SaveRename, SaveFail, memory
  <2>3. OnDisk' \in Nat /\ OnDisk <= OnDisk'
    BY <1>0, <2>1, PersistKeepsDisk DEF TypeOK
  <2>4. now <= now' /\ \A i \in Items : board'[i] \in {board[i], Absent}
    BY <1>0, <2>2
  <2> QED
    BY <1>10, <2>2, <2>3, <2>4, SilentStep
<1>11. CASE Restart /\ about' = [g \in {} |-> CHOOSE i \in Items : TRUE] /\ UNCHANGED said
  BY <1>11, RestartStep
<1>12. CASE UNCHANGED histVars
  BY <1>0, <1>2, <1>12 DEF histVars, vars
<1> QED
  BY <1>1, <1>3, <1>4, <1>5, <1>6, <1>7, <1>8, <1>9, <1>10, <1>11, <1>12 DEF HNext

(* What a human was told is saved holds until they say otherwise, however  *)
(* requests interleave, saves fail, labels move and the process ends: the  *)
(* bump or the clear exactly, the snooze until it ends.                    *)
THEOREM SavedStands == HSpec => []AnsweredDecisionStands
<1>1. HSpec => []TypeOK /\ []DiskInv
  BY HistoryOnlyRecords, TypeCorrect, DiskInvAlways, PTL
<1>2. TypeOK /\ TypeOK' /\ DiskInv /\ HInv /\ [HNext]_histVars => HInv'
  BY HInvStep
<1>3. HInv => AnsweredDecisionStands
  BY DEF HInv, ItemInv, VersionsStand, Known, Stands, AnsweredDecisionStands
<1> QED
  BY <1>1, HInitInv, <1>2, <1>3, PTL DEF HSpec
=============================================================================
