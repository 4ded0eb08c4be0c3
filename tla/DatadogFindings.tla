--------------------------- MODULE DatadogFindings --------------------------
(***************************************************************************)
(* The polls of the Datadog adapter: Findings (src/internal/datadog/       *)
(* datadog.go) follows the cursor of each page to the next until a page    *)
(* has none.  What a page holds and where its cursor leads is up to        *)
(* Datadog, which may time out or lead back to where the poll has been.    *)
(***************************************************************************)
EXTENDS Naturals, FiniteSets

CONSTANTS
    Ids,        \* findings
    NoId,       \* a record with no id
    Cursors,    \* cursors
    NoCursor    \* what the last page leads to

VARIABLES
    polling,    \* a poll is on
    cursor,     \* of the page asked for; NoCursor for the first
    seen,       \* the cursors this poll has been given
    got,        \* the findings read
    timedOut,   \* a page of this poll was cut off by a timeout
    findings,   \* the items of the last poll that succeeded
    prefix,     \* its status says they are a prefix
    refused     \* the last poll ended because a cursor came back

vars == <<polling, cursor, seen, got, timedOut, findings, prefix, refused>>

TypeOK ==
    /\ polling \in BOOLEAN /\ cursor \in Cursors \union {NoCursor} /\ seen \subseteq Cursors
    /\ got \subseteq Ids \union {NoId} /\ findings \subseteq Ids
    /\ timedOut \in BOOLEAN /\ prefix \in BOOLEAN /\ refused \in BOOLEAN

Init ==
    /\ polling = FALSE /\ cursor = NoCursor /\ seen = {} /\ got = {} /\ timedOut = FALSE
    /\ findings = {} /\ prefix = FALSE /\ refused = FALSE

Begin ==
    /\ ~polling
    /\ polling' = TRUE /\ refused' = FALSE
    /\ UNCHANGED <<cursor, seen, got, timedOut, findings, prefix>>

Return ==
    /\ polling' = FALSE /\ cursor' = NoCursor
    /\ seen' = {} /\ got' = {} /\ timedOut' = FALSE

\* Variant of Repeated: only a cursor that leads to itself is met again.
RepeatedAtOnce(after) == after = cursor

\* A cursor that comes back would page forever.
Repeated(after) == after \in seen

\* Normalize: a finding with no id is skipped, one met twice is listed once.
Page(ids, after, timeout) ==
    /\ polling
    /\ IF after = NoCursor
       THEN /\ findings' = (got \union ids) \ {NoId}
            /\ prefix' = (timedOut \/ timeout)
            /\ Return /\ UNCHANGED refused
       ELSE IF Repeated(after)
       THEN /\ refused' = TRUE
            /\ Return /\ UNCHANGED <<findings, prefix>>
       ELSE /\ cursor' = after
            /\ seen' = seen \union {after}
            /\ got' = got \union ids
            /\ timedOut' = (timedOut \/ timeout)
            /\ UNCHANGED <<polling, findings, prefix, refused>>

Fail == polling /\ Return /\ UNCHANGED <<findings, prefix, refused>>

Answered == \E ids \in SUBSET (Ids \union {NoId}), timeout \in BOOLEAN :
                \E after \in Cursors \union {NoCursor} : Page(ids, after, timeout)

\* Every request is answered or times out.
RequestEnds == Answered \/ Fail

Next == Begin \/ RequestEnds

Spec == Init /\ [][Next]_vars /\ WF_vars(RequestEnds)

-----------------------------------------------------------------------------
(* Properties                                                              *)

\* Findings, datadog.go:214-219: a poll ends, wherever Datadog's cursors lead.
PollEnds == polling ~> ~polling
=============================================================================
