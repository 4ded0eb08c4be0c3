--------------------------- MODULE MCNotifications ---------------------------
(* Notifications for TLC: an item works, is in the middle of its work, or  *)
(* reads as a label somebody asked to hear about; one more of AllReadings  *)
(* has that label while it still works.                                    *)
EXTENDS Notifications, TLC

CONSTANTS p1, p2, i1

MCReadings == {[label |-> "working", works |-> TRUE],
               [label |-> "approved", works |-> FALSE],
               [label |-> "ready", works |-> FALSE]}

AllReadings == MCReadings \cup {[label |-> "ready", works |-> TRUE]}

MCWatched == {"ready"}

(* An event item, written by two requests. *)
Shared == p1 :> {i1} @@ p2 :> {i1}

(* An item with one writer: its adapter's poller. *)
Alone == p1 :> {i1}
=============================================================================
