----------------------------- MODULE MCPollers -----------------------------
(***************************************************************************)
(* The pollers for TLC: a behaviour here is of the one that running names, *)
(* and the variables of the other stay as they were.                       *)
(***************************************************************************)
EXTENDS AllPollers

VARIABLE running

datadogVars == <<polling, cursor, seen, got, timedOut, findings, prefix, refused>>

(* One initial state of Pollers if it is not run. *)
BothInit ==
    /\ running \in {"pollers", "datadog"}
    /\ Init /\ (running # "pollers" => enabled = {})
    /\ Datadog!Init

PollersStep == running = "pollers" /\ Next /\ UNCHANGED <<running, datadogVars>>

DatadogStep == running = "datadog" /\ Datadog!Next /\ UNCHANGED <<running, vars>>

BothNext == PollersStep \/ DatadogStep

bothVars == <<running, vars, datadogVars>>

BothSpec == BothInit /\ [][BothNext]_bothVars

(* The fairness of Pollers and of the Datadog adapter. *)
BothFairSpec ==
    /\ BothSpec
    /\ \A a \in Adapters : WF_vars(a \in enabled /\ Poll(a))
    /\ WF_datadogVars(Datadog!RequestEnds)
=============================================================================
