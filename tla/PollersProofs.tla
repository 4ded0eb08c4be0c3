---------------------------- MODULE PollersProofs ----------------------------
(***************************************************************************)
(* Theorems about Pollers, for any adapters, however their backends, the   *)
(* shutdowns and the requests come in between.                             *)
(***************************************************************************)
EXTENDS AllPollers, FiniteSetTheorems, TLAPS

Replies == [stage : {"none", "board", "sent"}, partial : SUBSET Adapters,
            warned : SUBSET Adapters, during : SUBSET Adapters]

Typed == TypeOK /\ reply \in Replies

(* How far the record of adapter a lags behind the store, step by step of  *)
(* pollOnce: it says what the board holds except between the two locks.    *)
StatusFits(a) ==
    /\ pc[a] \in {"failed", "blank"} => a \notin Local
    /\ pc[a] = "blank" => a \notin Keeps
    /\ pc[a] \in {"idle", "fetched", "failed", "stopped"} =>
          /\ a \in Keeps \cup Zeroes \cup Local => status[a].items = Cardinality(board[a])
          /\ status[a].warning = partial[a]
    /\ pc[a] = "stored" => board[a] = answer[a].ids /\ partial[a] = answer[a].partial
    /\ pc[a] = "blank" =>
          /\ status[a].warning = FALSE
          /\ a \in Zeroes => status[a].items = 0
    /\ ~(status[a].healthy /\ status[a].error)

(* What the board of a holds beyond its backend, its backend has dropped;  *)
(* so has it what a whole answer on its way to the board will take off it. *)
LeftFits(a) ==
    /\ board[a] \ backend[a] \subseteq left[a]
    /\ pc[a] = "fetched" /\ answer[a].partial = FALSE =>
          board[a] \ answer[a].ids \subseteq left[a]

(* What a request found incomplete still is, until a poll touches it.      *)
ReplyFits ==
    /\ reply.stage = "board" =>
          \A a \in reply.partial \ reply.during :
              partial[a] /\ pc[a] \notin {"stored", "blank"}
    /\ reply.stage = "sent" => reply.partial \ reply.during \subseteq reply.warned

Inv ==
    /\ Typed
    /\ \A a \in Adapters : StatusFits(a) /\ LeftFits(a)
    /\ ReplyFits

-----------------------------------------------------------------------------
(* A list of work holds a number of items that is within the bound.        *)
LEMMA Counts ==
    ASSUME NEW S \in SUBSET Ids
    PROVE  Cardinality(S) \in 0..Cardinality(Ids)
<1>1. IsFiniteSet(Ids)
  BY PollerAssumptions
<1>2. IsFiniteSet(S) /\ Cardinality(S) <= Cardinality(Ids)
  BY <1>1, FS_Subset
<1>3. Cardinality(S) \in Nat /\ Cardinality(Ids) \in Nat
  BY <1>1, <1>2, FS_CardinalityType
<1> QED
  BY <1>2, <1>3

(* A daemon that has just started satisfies the invariant.                 *)
LEMMA InitInv == Init => Inv
<1> SUFFICES ASSUME Init PROVE Inv
  OBVIOUS
<1>1. Cardinality({}) = 0
  BY FS_EmptySet
<1>2. 0 \in 0..Cardinality(Ids)
  BY <1>1, Counts
<1>3. Typed
  BY <1>2 DEF Init, Typed, TypeOK, Replies, Nobody, NewStatus, NoReply
<1>4. ASSUME NEW a \in Adapters PROVE StatusFits(a) /\ LeftFits(a)
  BY <1>1 DEF Init, StatusFits, LeftFits, Nobody, NewStatus
<1>5. ReplyFits
  BY DEF Init, ReplyFits, NoReply
<1> QED
  BY <1>3, <1>4, <1>5 DEF Inv

-----------------------------------------------------------------------------
(* Types                                                                   *)

(* A poll that marks the request it interrupts leaves it a request.        *)
LEMMA DuringType ==
    ASSUME Typed, NEW a \in Adapters, During(a)
    PROVE  reply' \in Replies
  BY DEF Typed, During, Replies

(* Every step keeps the types: a count is that of a list of work.          *)
LEMMA TypeStep == Typed /\ [Next]_vars => Typed'
<1> SUFFICES ASSUME Typed, [Next]_vars PROVE Typed'
  OBVIOUS
<1> USE DEF Typed, TypeOK
<1>1. CASE UNCHANGED vars
  BY <1>1 DEF vars, environment, pollVars
<1>2. ASSUME NEW a \in enabled, BackendMoves(a) PROVE Typed'
  BY <1>2 DEF BackendMoves, pollVars
<1>3. ASSUME NEW a \in enabled, Outage(a) PROVE Typed'
  BY <1>3 DEF Outage, pollVars
<1>4. ASSUME NEW a \in enabled, Fetch(a) PROVE Typed'
  <2>1. ASSUME NEW ids \in SUBSET Ids, NEW flag \in BOOLEAN,
               answer' = [answer EXCEPT ![a] = [ids |-> ids, partial |-> flag]]
        PROVE  answer' \in [Adapters -> [ids : SUBSET Ids, partial : BOOLEAN]]
    BY <2>1
  <2>2. backend[a] \in SUBSET Ids /\ \A some \in SUBSET backend[a] : some \in SUBSET Ids
    OBVIOUS
  <2>3. answer' \in [Adapters -> [ids : SUBSET Ids, partial : BOOLEAN]]
    BY <1>4, <2>1, <2>2 DEF Fetch
  <2> QED
    BY <1>4, <2>3 DEF Fetch, Moves, environment
<1>5. ASSUME NEW a \in enabled, FetchFails(a) PROVE Typed'
  BY <1>5 DEF FetchFails, Moves, environment
<1>6. ASSUME NEW a \in enabled, Store(a) PROVE Typed'
  <2>1. reply' \in Replies
    BY <1>6, DuringType DEF Store, Replace
  <2> QED
    BY <1>6, <2>1 DEF Store, Replace, Moves, environment
<1>7. ASSUME NEW a \in enabled, RecordSuccess(a) PROVE Typed'
  <2>1. reply' \in Replies
    BY <1>7, DuringType DEF RecordSuccess
  <2>2. Cardinality(answer[a].ids) \in 0..Cardinality(Ids)
    BY Counts
  <2> QED
    BY <1>7, <2>1, <2>2 DEF RecordSuccess, Moves, environment
<1>8. ASSUME NEW a \in enabled, KeepLast(a) PROVE Typed'
  <2>1. reply' \in Replies
    BY <1>8, DuringType DEF KeepLast
  <2> QED
    BY <1>8, <2>1 DEF KeepLast, Moves, environment
<1>9. ASSUME NEW a \in enabled, RecordFailure(a) PROVE Typed'
  <2>1. reply' \in Replies
    BY <1>9, DuringType DEF RecordFailure
  <2>2. Cardinality({}) = 0 /\ Cardinality({}) \in 0..Cardinality(Ids)
    BY Counts, FS_EmptySet
  <2> QED
    BY <1>9, <2>1, <2>2 DEF RecordFailure, Moves, environment
<1>10. ASSUME NEW a \in enabled, Blank(a) PROVE Typed'
  <2>1. reply' \in Replies
    BY <1>10, DuringType DEF Blank, Replace
  <2> QED
    BY <1>10, <2>1 DEF Blank, Replace, Moves, environment
<1>11. ASSUME NEW a \in enabled, Stop(a) PROVE Typed'
  BY <1>11 DEF Stop, Moves, environment
<1>12. CASE Cancel
  BY <1>12 DEF Cancel, pollVars
<1>13. CASE Restart
  <2>1. Cardinality({}) = 0 /\ Cardinality({}) \in 0..Cardinality(Ids)
    BY Counts, FS_EmptySet
  <2> QED
    BY <1>13, <2>1 DEF Restart, Nobody, NewStatus, NoReply, Replies
<1>14. CASE ReadBoard
  BY <1>14 DEF ReadBoard, environment, pollVars, Replies
<1>15. CASE ReadWarnings
  BY <1>15 DEF ReadWarnings, environment, pollVars, Replies
<1> QED
  BY <1>1, <1>2, <1>3, <1>4, <1>5, <1>6, <1>7, <1>8, <1>9, <1>10, <1>11, <1>12,
     <1>13, <1>14, <1>15 DEF Next, Poll

-----------------------------------------------------------------------------
(* The record and the board                                                *)

(* An adapter that a step does not touch is where it was.                  *)
LEMMA SameFits ==
    ASSUME NEW a \in Adapters, StatusFits(a), pc'[a] = pc[a], answer'[a] = answer[a],
           board'[a] = board[a], status'[a] = status[a], partial'[a] = partial[a]
    PROVE  StatusFits(a)'
  BY DEF StatusFits

(* A step of b's poll leaves the other adapters alone.                     *)
LEMMA OthersStay ==
    ASSUME Typed, NEW b \in enabled, Poll(b) \/ Stop(b),
           NEW a \in Adapters, a # b
    PROVE  /\ pc'[a] = pc[a] /\ answer'[a] = answer[a] /\ board'[a] = board[a]
           /\ status'[a] = status[a] /\ partial'[a] = partial[a]
           /\ left'[a] = left[a] /\ backend' = backend
<1> USE DEF Typed, TypeOK, Moves, environment
<1>1. CASE Fetch(b)
  BY <1>1 DEF Fetch
<1>2. CASE FetchFails(b)
  BY <1>2 DEF FetchFails
<1>3. CASE Store(b)
  BY <1>3 DEF Store, Replace
<1>4. CASE RecordSuccess(b)
  BY <1>4 DEF RecordSuccess
<1>5. CASE KeepLast(b)
  BY <1>5 DEF KeepLast
<1>6. CASE RecordFailure(b)
  BY <1>6 DEF RecordFailure
<1>7. CASE Blank(b)
  BY <1>7 DEF Blank, Replace
<1>8. CASE Stop(b)
  BY <1>8 DEF Stop
<1> QED
  BY <1>1, <1>2, <1>3, <1>4, <1>5, <1>6, <1>7, <1>8 DEF Poll

(* Each step of a poll takes its record from one stage to the next.        *)
LEMMA OwnStatus ==
    ASSUME Typed, NEW b \in enabled, StatusFits(b), Poll(b) \/ Stop(b)
    PROVE  StatusFits(b)'
<1> USE DEF Typed, TypeOK, Moves, environment
<1>0. b \in Adapters /\ Cardinality({}) = 0
  BY FS_EmptySet
<1>1. CASE Fetch(b)
  BY <1>0, <1>1 DEF Fetch, StatusFits
<1>2. CASE FetchFails(b)
  BY <1>0, <1>2 DEF FetchFails, Answers, StatusFits
<1>3. CASE Store(b)
  <2>1. pc'[b] = "stored" /\ board'[b] = answer'[b].ids
        /\ partial'[b] = answer'[b].partial /\ status' = status
    BY <1>0, <1>3 DEF Store, Replace
  <2> QED
    BY <2>1 DEF StatusFits
<1>4. CASE RecordSuccess(b)
  <2>1. /\ pc[b] = "stored" /\ pc'[b] = "idle" /\ board' = board
        /\ partial' = partial /\ answer' = answer
        /\ status'[b] = [healthy |-> TRUE, items |-> Cardinality(answer[b].ids),
                         error |-> FALSE, warning |-> answer[b].partial]
    BY <1>0, <1>4 DEF RecordSuccess
  <2> QED
    BY <2>1 DEF StatusFits
<1>5. CASE KeepLast(b)
  <2>1. /\ pc[b] = "failed" /\ pc'[b] = "idle" /\ board' = board
        /\ partial' = partial /\ answer' = answer
        /\ status'[b].items = status[b].items
        /\ status'[b].warning = status[b].warning
        /\ status'[b].healthy = FALSE
    BY <1>0, <1>5 DEF KeepLast
  <2> QED
    BY <2>1 DEF StatusFits
<1>6. CASE RecordFailure(b)
  <2>1. /\ pc[b] = "failed" /\ pc'[b] = "blank" /\ b \notin Keeps
        /\ status'[b].warning = FALSE /\ status'[b].healthy = FALSE
        /\ b \in Zeroes => status'[b].items = 0
    BY <1>0, <1>6 DEF RecordFailure
  <2> QED
    BY <2>1 DEF StatusFits
<1>7. CASE Blank(b)
  <2>1. /\ pc[b] = "blank" /\ pc'[b] = "idle" /\ board'[b] = {}
        /\ partial'[b] = FALSE /\ status' = status
    BY <1>0, <1>7 DEF Blank, Replace
  <2> QED
    BY <1>0, <2>1 DEF StatusFits
<1>8. CASE Stop(b)
  BY <1>0, <1>8 DEF Stop, StatusFits
<1> QED
  BY <1>1, <1>2, <1>3, <1>4, <1>5, <1>6, <1>7, <1>8 DEF Poll

(* Every step keeps every adapter's record in line with its board.         *)
LEMMA StatusStep ==
    ASSUME Typed, [Next]_vars, NEW a \in Adapters, StatusFits(a)
    PROVE  StatusFits(a)'
<1>1. CASE UNCHANGED <<pollVars>>
  BY <1>1, SameFits DEF pollVars
<1>2. ASSUME NEW b \in enabled, Poll(b) \/ Stop(b) PROVE StatusFits(a)'
  <2>1. CASE a = b
    BY <1>2, <2>1, OwnStatus
  <2>2. CASE a # b
    BY <1>2, <2>2, OthersStay, SameFits
  <2> QED
    BY <2>1, <2>2
<1>3. CASE Restart
  <2>1. Cardinality({}) = 0
    BY FS_EmptySet
  <2> QED
    BY <1>3, <2>1 DEF Restart, Nobody, NewStatus, StatusFits
<1>4. UNCHANGED pollVars \/ Restart \/ \E b \in enabled : Poll(b) \/ Stop(b)
  BY DEF Next, vars, BackendMoves, Outage, Cancel, ReadBoard, ReadWarnings
<1> QED
  BY <1>1, <1>2, <1>3, <1>4

-----------------------------------------------------------------------------
(* The board and the backend                                               *)

(* Whatever is on the board, or about to be taken off it by a whole        *)
(* answer, that the backend does not hold, it has dropped since.           *)
LEMMA LeftStep ==
    ASSUME Typed, [Next]_vars, NEW a \in Adapters, LeftFits(a)
    PROVE  LeftFits(a)'
<1> USE DEF Typed, TypeOK, Moves, environment, pollVars
<1>1. CASE UNCHANGED vars
  BY <1>1 DEF vars, LeftFits
<1>2. ASSUME NEW b \in enabled, BackendMoves(b) PROVE LeftFits(a)'
  <2>1. left[a] \subseteq left'[a] /\ backend[a] \ backend'[a] \subseteq left'[a]
    BY <1>2 DEF BackendMoves
  <2>2. UNCHANGED <<pc, answer, board>>
    BY <1>2 DEF BackendMoves
  <2> QED
    BY <2>1, <2>2 DEF LeftFits
<1>3. ASSUME NEW b \in enabled, Outage(b) PROVE LeftFits(a)'
  BY <1>3 DEF Outage, LeftFits
<1>4. ASSUME NEW b \in enabled, Poll(b) \/ Stop(b), a # b PROVE LeftFits(a)'
  BY <1>4, OthersStay DEF LeftFits
<1>5. ASSUME a \in enabled, Fetch(a) PROVE LeftFits(a)'
  <2>1. UNCHANGED <<board, left, backend>>
    BY <1>5 DEF Fetch
  <2>2. answer'[a].partial = FALSE => answer'[a].ids = backend[a]
    BY <1>5 DEF Fetch
  <2> QED
    BY <2>1, <2>2 DEF LeftFits
<1>6. ASSUME a \in enabled, Store(a) \/ Blank(a) PROVE LeftFits(a)'
  <2>1. pc'[a] # "fetched"
    BY <1>6 DEF Store, Blank
  <2>2. \E ids \in SUBSET Ids : /\ board'[a] = ids /\ left'[a] = ids \ backend[a]
                               /\ backend' = backend
    BY <1>6 DEF Store, Blank, Replace
  <2> QED
    BY <2>1, <2>2 DEF LeftFits
<1>7. ASSUME a \in enabled,
             FetchFails(a) \/ RecordSuccess(a) \/ KeepLast(a) \/ RecordFailure(a) \/ Stop(a)
      PROVE  LeftFits(a)'
  <2>1. pc'[a] # "fetched" /\ UNCHANGED <<board, left, backend>>
    BY <1>7 DEF FetchFails, RecordSuccess, KeepLast, RecordFailure, Stop
  <2> QED
    BY <2>1 DEF LeftFits
<1>8. CASE Restart
  BY <1>8 DEF Restart, Nobody, LeftFits
<1>9. CASE Cancel \/ ReadBoard \/ ReadWarnings
  BY <1>9 DEF Cancel, ReadBoard, ReadWarnings, LeftFits
<1>10. ASSUME NEW b \in enabled, Poll(b) \/ Stop(b) PROVE LeftFits(a)'
  BY <1>10, <1>4, <1>5, <1>6, <1>7 DEF Poll
<1> QED
  BY <1>1, <1>2, <1>3, <1>8, <1>9, <1>10 DEF Next

-----------------------------------------------------------------------------
(* The request for the board                                               *)

(* A step of b's poll that leaves partial[b] alone, or is seen by the      *)
(* request, keeps what the request found.                                  *)
LEMMA ReplySurvives ==
    ASSUME Typed, ReplyFits, NEW b \in enabled, Poll(b) \/ Stop(b)
    PROVE  ReplyFits'
<1> USE DEF Typed, TypeOK, Moves, environment
<1>1. CASE Fetch(b) \/ FetchFails(b) \/ Stop(b)
  <2>1. reply' = reply /\ partial' = partial
        /\ \A a \in Adapters : pc'[a] = pc[a] \/ pc'[a] \notin {"stored", "blank"}
    BY <1>1 DEF Fetch, FetchFails, Stop
  <2> QED
    BY <2>1 DEF ReplyFits, Replies
<1>2. CASE ~(Fetch(b) \/ FetchFails(b) \/ Stop(b))
  <2>1. During(b)
    BY <1>2 DEF Poll, Store, RecordSuccess, KeepLast, RecordFailure, Blank, Replace
  <2>2. CASE reply.stage = "board"
    <3>1. /\ reply'.stage = "board" /\ reply'.partial = reply.partial
          /\ reply'.during = reply.during \cup {b}
      BY <2>1, <2>2 DEF During, Replies
    <3>2. ASSUME NEW a \in reply'.partial \ reply'.during
          PROVE  partial'[a] /\ pc'[a] \notin {"stored", "blank"}
      <4>1. a \in reply.partial \ reply.during /\ a # b /\ a \in Adapters
        BY <3>1, <3>2 DEF Replies
      <4>2. partial'[a] = partial[a] /\ pc'[a] = pc[a]
        BY <4>1, OthersStay
      <4>3. partial[a] /\ pc[a] \notin {"stored", "blank"}
        BY <4>1, <2>2 DEF ReplyFits
      <4> QED
        BY <4>2, <4>3
    <3> QED
      BY <3>1, <3>2 DEF ReplyFits
  <2>3. CASE reply.stage # "board"
    BY <2>1, <2>3 DEF During, ReplyFits
  <2> QED
    BY <2>2, <2>3
<1> QED
  BY <1>1, <1>2

(* What a request found incomplete is so until it reads the warnings, or   *)
(* an adapter's poll has come in between.                                  *)
LEMMA ReplyStep ==
    ASSUME Inv, [Next]_vars
    PROVE  ReplyFits'
<1> USE DEF Inv
<1>1. ASSUME NEW b \in enabled, Poll(b) \/ Stop(b) PROVE ReplyFits'
  BY <1>1, ReplySurvives
<1>2. CASE Restart
  BY <1>2 DEF Restart, NoReply, ReplyFits
<1>3. CASE ReadBoard
  <2>1. /\ reply'.stage = "board" /\ UNCHANGED <<pc, partial>>
        /\ reply'.partial = {a \in Adapters : partial[a]}
        /\ reply'.during = {a \in Adapters : pc[a] \in {"stored", "blank"}}
    BY <1>3 DEF ReadBoard, pollVars
  <2> QED
    BY <2>1 DEF ReplyFits
<1>4. CASE ReadWarnings
  <2>1. /\ reply.stage = "board" /\ reply'.stage = "sent"
        /\ reply'.partial = reply.partial /\ reply'.during = reply.during
        /\ reply'.warned = {a \in Adapters : status[a].warning}
    BY <1>4 DEF ReadWarnings, Typed, Replies
  <2>2. ASSUME NEW a \in reply.partial \ reply.during PROVE status[a].warning
    <3>1. a \in Adapters /\ partial[a] /\ pc[a] \notin {"stored", "blank"}
      BY <2>1, <2>2 DEF ReplyFits, Typed, Replies
    <3>2. pc[a] \in {"idle", "fetched", "failed", "stopped"}
      BY <3>1 DEF Typed, TypeOK
    <3>3. status[a].warning = partial[a]
      BY <3>1, <3>2 DEF StatusFits
    <3> QED
      BY <3>1, <3>3
  <2>3. reply.partial \subseteq Adapters
    BY DEF Typed, Replies
  <2>4. reply'.partial \ reply'.during \subseteq reply'.warned
    BY <2>1, <2>2, <2>3
  <2> QED
    BY <2>1, <2>4 DEF ReplyFits
<1>5. CASE UNCHANGED <<pc, partial, reply>>
  BY <1>5 DEF ReplyFits
<1>6. \/ UNCHANGED <<pc, partial, reply>> \/ Restart \/ ReadBoard \/ ReadWarnings
      \/ \E b \in enabled : Poll(b) \/ Stop(b)
  BY DEF Next, vars, pollVars, BackendMoves, Outage, Cancel
<1> QED
  BY <1>1, <1>2, <1>3, <1>4, <1>5, <1>6

-----------------------------------------------------------------------------
(* Every reachable state satisfies the invariant.                          *)
LEMMA Invariance == Spec => []Inv
<1>1. Inv /\ [Next]_vars => Inv'
  BY TypeStep, StatusStep, LeftStep, ReplyStep DEF Inv
<1> QED
  BY InitInv, <1>1, PTL DEF Spec

(* The state has its types: a record never counts more than there is, and  *)
(* what Datadog's poll makes items of are findings.                        *)
THEOREM PollersTyped == Spec /\ Datadog!Spec => []Types
<1>1. Inv => TypeOK
  BY DEF Inv, Typed
<1>2. Datadog!Init => Datadog!TypeOK
  BY DEF Datadog!Init, Datadog!TypeOK
<1>3. Datadog!TypeOK /\ [Datadog!Next]_(Datadog!vars) => Datadog!TypeOK'
  <2> SUFFICES ASSUME Datadog!TypeOK, [Datadog!Next]_(Datadog!vars) PROVE Datadog!TypeOK'
    OBVIOUS
  <2>1. ASSUME NEW ids \in SUBSET (Findings \union {NoFinding}), NEW timeout \in BOOLEAN,
               NEW after \in Cursors \union {NoCursor}, Datadog!Page(ids, after, timeout)
        PROVE  Datadog!TypeOK'
    BY <2>1 DEF Datadog!TypeOK, Datadog!Page, Datadog!Return
  <2>2. CASE Datadog!Begin \/ Datadog!Fail
    BY <2>2 DEF Datadog!TypeOK, Datadog!Begin, Datadog!Fail, Datadog!Return
  <2>3. CASE UNCHANGED Datadog!vars
    BY <2>3 DEF Datadog!TypeOK, Datadog!vars
  <2> QED
    BY <2>1, <2>2, <2>3 DEF Datadog!Next, Datadog!RequestEnds, Datadog!Answered
<1> QED
  BY Invariance, <1>1, <1>2, <1>3, PTL DEF Datadog!Spec, Types

(* Between two polls, the count, the warning and the health that /health   *)
(* gives of an adapter are those of the list on the board.                 *)
THEOREM HealthTellsTheBoard == Spec => []StatusIsTheBoard
<1>1. Inv => StatusIsTheBoard
  BY DEF Inv, StatusIsTheBoard, StatusFits
<1> QED
  BY Invariance, <1>1, PTL

(* A reply whose list is known to be incomplete says so, unless a poll of  *)
(* that adapter came between the two reads.                                *)
THEOREM IncompleteListsSaySo == Spec => []WorkSaysWhatItMissesBetweenPolls
<1>1. Inv => WorkSaysWhatItMissesBetweenPolls
  BY DEF Inv, ReplyFits, WorkSaysWhatItMissesBetweenPolls
<1> QED
  BY Invariance, <1>1, PTL

(* However polls fail and restarts fall, no poll of an adapter that keeps  *)
(* its list takes an item off the board that its backend has not dropped.  *)
THEOREM OutagesTakeNothing == Spec => KeepersLoseNothing
<1>1. ASSUME Inv, NEW a \in Keeps \cup Local, Poll(a),
             ~(pc[a] = "fetched" /\ answer[a].partial)
      PROVE  Gone(a)
  <2> USE DEF Moves
  <2>1. a \in Adapters /\ StatusFits(a) /\ LeftFits(a) /\ board \in [Adapters -> SUBSET Ids]
        /\ answer[a].partial \in BOOLEAN
    BY <1>1, PollerAssumptions DEF Inv, Typed, TypeOK
  <2>2. CASE Store(a)
    <3>1. pc[a] = "fetched" /\ board'[a] = answer[a].ids
      BY <2>1, <2>2 DEF Store, Replace
    <3>2. answer[a].partial = FALSE
      BY <1>1, <2>1, <3>1
    <3> QED
      BY <2>1, <3>1, <3>2 DEF LeftFits, Gone
  <2>3. CASE Blank(a)
    BY <2>1, <2>3 DEF Blank, StatusFits
  <2>4. CASE ~(Store(a) \/ Blank(a))
    <3>1. board' = board
      BY <1>1, <2>4 DEF Poll, Fetch, FetchFails, RecordSuccess, KeepLast, RecordFailure
    <3> QED
      BY <3>1 DEF Gone
  <2> QED
    BY <2>2, <2>3, <2>4
<1>2. Inv /\ [Next]_vars =>
        [\A a \in Keeps \cup Local :
            Poll(a) /\ ~(pc[a] = "fetched" /\ answer[a].partial) => Gone(a)]_vars
  BY <1>1
<1> QED
  BY Invariance, <1>2, PTL DEF Spec, KeepersLoseNothing
=============================================================================
