-------------------------- MODULE DecisionRegister --------------------------
(***************************************************************************)
(* What the daemon promises about the decisions a human makes (snoozes and *)
(* bumps): every decision or clear submits a new version of the whole set, *)
(* the disk only ever moves forward through the versions submitted since   *)
(* the process started, and a restart resumes from the version the disk    *)
(* holds, less the decisions that have run out.  How a version gets to the *)
(* disk, by which call and in which order the calls are scheduled, is left *)
(* to DecisionStore, which implements this.                                *)
(***************************************************************************)
EXTENDS Naturals

CONSTANTS
    Items,       \* item ids a decision can be about
    Decisions,   \* the decisions that can be made
    NoDecision,  \* no standing decision
    Unreadable   \* the version a file that does not parse stands for

VARIABLES
    mem,       \* the decisions in force
    versions,  \* versions[0] is what the disk held at start, then one per submit
    last,      \* the newest version submitted
    disk       \* the version the disk holds

regVars == <<mem, versions, last, disk>>

Snapshots == [Items -> Decisions \cup {NoDecision}]

NoDecisions == [i \in Items |-> NoDecision]

(* A version without the decisions about the items of S. *)
Without(v, S) == [i \in Items |-> IF i \in S THEN NoDecision ELSE v[i]]

(* What a start may read back from a version: nothing from an unreadable   *)
(* file, otherwise all of it but the decisions that ran out meanwhile.     *)
Recovered(v) ==
    IF v = Unreadable THEN {NoDecisions}
    ELSE {Without(v, S) : S \in SUBSET Items}

RegInit ==
    /\ disk = 0
    /\ last = 0
    /\ versions \in [{0} -> {NoDecisions, Unreadable}]
    /\ mem = NoDecisions

(* A human decides about one item or takes the decision back. *)
Submit(i, d) ==
    /\ mem' = [mem EXCEPT ![i] = d]
    /\ last' = last + 1
    /\ versions' = [v \in 0..(last + 1) |->
                      IF v = last + 1 THEN mem' ELSE versions[v]]
    /\ UNCHANGED disk

(* Decisions stop applying; nothing is submitted. *)
Lapse(S) ==
    /\ mem' = Without(mem, S)
    /\ UNCHANGED <<versions, last, disk>>

(* A later version reaches the disk, whole. *)
Commit(v) ==
    /\ v \in (disk + 1)..last
    /\ disk' = v
    /\ UNCHANGED <<mem, versions, last>>

(* The process ends, whatever it was doing, and another one starts. *)
Resume ==
    /\ mem' \in Recovered(versions[disk])
    /\ versions' = [v \in {0} |-> versions[disk]]
    /\ last' = 0
    /\ disk' = 0

RegNext ==
    \/ \E i \in Items, d \in Decisions \cup {NoDecision} : Submit(i, d)
    \/ \E S \in SUBSET Items : Lapse(S)
    \/ \E v \in 1..last : Commit(v)
    \/ Resume

RegSpec == RegInit /\ [][RegNext]_regVars
=============================================================================
