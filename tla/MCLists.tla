------------------------------ MODULE MCLists -------------------------------
(***************************************************************************)
(* The board for TLC.  A behaviour is of one machine, which running names: *)
(* the lists (Lists), or the item store by itself (ItemStore), where       *)
(* events come under names that make an adapter's keys.  The variables of  *)
(* the other stay as they were.                                            *)
(***************************************************************************)
EXTENDS Lists

VARIABLES running, stored, time, world, reported, lastEvent, news

(* Works of four states, one of which reads as a top label by its state's  *)
(* own word, above one that its source ranks higher.                       *)
Work(state, label, priority, severity) ==
    [state |-> state, label |-> label, priority |-> priority, severity |-> severity]

MCWorks ==
    {Work("working", "", 0, 0),
     Work("failed", "", 10, 1),
     Work("needs_attention", "review requested", 20, 1),
     Work("done", "", 5, 0)}

MCTopLabels == {"failed"}

(* The adapter's name with a blank around it, and a name whose segments    *)
(* run on into the adapter's id.                                           *)
ClashingNames ==
    {[words |-> <<"herdr">>, padded |-> TRUE], [words |-> <<"herdr", "w1">>, padded |-> FALSE]}

(* Ids that make the adapter's key under either of them.                   *)
ClashingIds == {<<"w1", "p1">>, <<"p1">>}

Store ==
    INSTANCE ItemStore WITH
        items <- stored, now <- time,
        Adapters <- {<<"herdr">>}, Dated <- {}, AdapterIds <- {<<"w1", "p1">>},
        Names <- ClashingNames, EventIds <- ClashingIds,
        Readings <- {"working", "done"}, Finished <- {"done"}, EventTTL <- 1

(* What the theorem about clashing names assumes.                          *)
ASSUME Store!AdapterNamesApart

storeVars == <<stored, time, world, reported, lastEvent, news>>

BothInit == running \in {"lists", "store"} /\ Init /\ Store!Init

ListsStep == running = "lists" /\ Next /\ UNCHANGED <<running, storeVars>>

StoreStep == running = "store" /\ Store!Next /\ UNCHANGED <<running, vars>>

BothNext == ListsStep \/ StoreStep

BothSpec == BothInit /\ [][BothNext]_<<running, vars, storeVars>>

(* ItemStore: what an adapter listed is served until an event touches it.  *)
AdapterListIsServed == Store!AdapterListIsServed
=============================================================================
