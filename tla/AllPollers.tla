----------------------------- MODULE AllPollers -----------------------------
(***************************************************************************)
(* The poll that all adapters make (Pollers), and the one that reads pages *)
(* for as long as its backend has more (DatadogFindings).  They share      *)
(* nothing.                                                                *)
(***************************************************************************)
EXTENDS Pollers

CONSTANTS Findings, NoFinding, Cursors, NoCursor

VARIABLES polling, cursor, seen, got, timedOut, findings, prefix, refused

Datadog == INSTANCE DatadogFindings WITH Ids <- Findings, NoId <- NoFinding

(* The type invariants of both. *)
Types == TypeOK /\ Datadog!TypeOK

(* Findings, datadog.go:214-219: Datadog's poll ends wherever the cursors  *)
(* lead.                                                                   *)
PollEnds == Datadog!PollEnds
=============================================================================
