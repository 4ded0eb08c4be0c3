----------------------------- MODULE MCItemStore -----------------------------
(* ItemStore for TLC.  Two adapters, one whose items carry the backend's   *)
(* time, each with one id; the names events come under are chosen by the   *)
(* configuration between the two sets below.                               *)
EXTENDS ItemStore

ASSUME AdapterNamesApart

MCAdapters == {<<"github">>, <<"herdr">>}

MCDated == {<<"github">>}

MCAdapterIds == {<<"w1", "p1">>}

(* A source of its own; and a name an adapter has, which is refused. *)
PlainNames == {[words |-> <<"build">>, padded |-> FALSE],
               [words |-> <<"herdr">>, padded |-> FALSE]}

(* An adapter's name with a blank around it. *)
PaddedNames == {[words |-> <<"herdr">>, padded |-> TRUE]}

MCReadings == {"working", "done"}

MCFinished == {"done"}

OneAdapter == {<<"herdr">>}

NoneDated == {}
=============================================================================
