--------------------------- MODULE DecisionHistory ---------------------------
(***************************************************************************)
(* DecisionStore seen from outside: what a human said last about each item *)
(* and what has happened to that instruction since.  The two history       *)
(* variables only record; no step of DecisionStore depends on them.        *)
(***************************************************************************)
EXTENDS DecisionStore

VARIABLES
    said,   \* said[i]: the last instruction about i, and its fate
    about   \* about[g]: the item the change of generation g is about

histVars == <<vars, said, about>>

(* what: the decision, or NoDecision after a clear (or before anything).   *)
(* durable: its request was answered after its save, or a later one, was   *)
(* on disk.  moved: its item has carried another label since.  lapsed: the *)
(* daemon found it spent and dropped it.                                   *)
Fates == [what : Decisions \cup {NoDecision},
          durable : BOOLEAN, moved : BOOLEAN, lapsed : BOOLEAN]

Fresh(d) == [what |-> d, durable |-> FALSE, moved |-> FALSE, lapsed |-> FALSE]

HInit ==
    /\ Init
    /\ said = [i \in Items |-> [Fresh(NoDecision) EXCEPT !.durable = TRUE]]
    /\ about = [g \in {} |-> CHOOSE i \in Items : TRUE]

HReports(i, l) ==
    /\ SourceReports(i, l)
    /\ said' = [said EXCEPT ![i].moved =
                  @ \/ (said[i].what # NoDecision /\ said[i].what.label # l)]
    /\ UNCHANGED about

(* A step that may drop decisions without a request: a read. *)
HRead(read) ==
    /\ read
    /\ said' = [i \in Items |-> [said[i] EXCEPT !.lapsed =
                  @ \/ (decisions[i] # NoDecision /\ decisions'[i] = NoDecision)]]
    /\ UNCHANGED about

(* A request: the instruction d about i becomes the last one. *)
HSays(i, d, request) ==
    /\ request
    /\ said' = [said EXCEPT ![i] =
                  [Fresh(d) EXCEPT !.lapsed = decisions'[i] # d]]
    /\ about' = [g \in 1..generation' |-> IF g = generation' THEN i ELSE about[g]]

(* The request of generation g is answered with its change on disk. *)
Newest(g) == \A h \in (g + 1)..generation : about[h] # about[g]

HAnswered(g) ==
    /\ PersistSkip(g) \/ PersistEnd(g)
    /\ said' = IF Newest(g) THEN [said EXCEPT ![about[g]].durable = TRUE] ELSE said
    /\ UNCHANGED about

HNext ==
    \/ \E i \in Items, l \in Labels : HReports(i, l)
    \/ (\E i \in Items : SourceDrops(i)) /\ UNCHANGED <<said, about>>
    \/ Tick /\ UNCHANGED <<said, about>>
    \/ \E i \in Items : HRead(ReadItem(i))
    \/ HRead(ReadBoard)
    \/ \E i \in Items, k \in {"snooze", "bump"}, u \in Deadlines \cup {NoDeadline} :
          HSays(i, DecisionMade(i, k, u), Decide(i, k, u))
    \/ \E i \in Items : HSays(i, NoDecision, Clear(i))
    \/ \E g \in 1..generation : HAnswered(g)
    \/ /\ \E g \in 1..generation : PersistBegin(g) \/ SaveRename(g) \/ SaveFail(g)
       /\ UNCHANGED <<said, about>>
    \/ /\ Restart
       /\ about' = [g \in {} |-> CHOOSE i \in Items : TRUE]
       /\ UNCHANGED said

HSpec == HInit /\ [][HNext]_histVars

HFairSpec == HSpec /\ Fairness

-----------------------------------------------------------------------------
(* The item would be served as snoozed: Store.apply on a read now. *)
Hidden(i) ==
    /\ board[i] # Absent
    /\ decisions[i] # NoDecision
    /\ decisions[i].kind = "snooze"
    /\ ~Spent(decisions[i], now, board[i])

(* What a human was told is saved holds until they say otherwise, through  *)
(* other people's requests, failed saves, polls that drop the item, label  *)
(* moves and restarts: a bump or a clear stands exactly; a snooze stands   *)
(* until its deadline or a move of its item's label.                       *)
AnsweredDecisionStands ==
    \A i \in Items :
        LET d == said[i].what IN
        said[i].durable =>
            \/ decisions[i] = d
            \/ /\ decisions[i] = NoDecision
               /\ d.kind = "snooze"
               /\ said[i].moved \/ OutOfTime(d, now)

(* store.go:478-480, of a decision that apply deleted in memory only: the  *)
(* file keeps it, but it is pruned on the next load or the first poll      *)
(* after.  A snooze the daemon has dropped does not hide its item again.   *)
LapsedStaysLapsed ==
    \A i \in Items :
        said[i].lapsed => ~(Hidden(i) /\ decisions[i] = said[i].what)
=============================================================================
