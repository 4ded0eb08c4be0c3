--------------------------- MODULE OutlineMentions --------------------------
(***************************************************************************)
(* The polls of the Outline adapter: Mentions (src/internal/outline/       *)
(* outline.go) reads notifications newest first by a growing offset and    *)
(* keeps the unread mentions, fillDocuments looks up what they are in, and *)
(* Normalize (items.go) lists each once.  A notification that arrives      *)
(* between two pages moves all others one place on.                        *)
(***************************************************************************)
EXTENDS Naturals, FiniteSets, Sequences, FiniteSetsExt

CONSTANTS
    PageSize,   \* notifications asked for at a time
    MaxPages,   \* pages read in one poll
    MaxItems,   \* outline.max_items
    MaxSent     \* bound: notifications anyone sends

VARIABLES
    sent,       \* notifications, oldest first: mentions of you or not
    read,       \* those you have read or archived in Outline
    progress,
    offset,     \* the page being read
    kept,       \* the mentions kept so far
    taken,      \* how many that was, one read again counted again
    cut,        \* ghost: the poll met a bound, max_items or the pages it may read
    mentioned,  \* the items of the last poll that succeeded
    unread      \* ghost: the mentions unread all through this poll

outline == <<sent, read>>
vars == <<sent, read, progress, offset, kept, taken, cut, mentioned, unread>>

Ids == 1 .. MaxSent

TypeOK ==
    /\ sent \in Seq({"mention", "other"}) /\ read \subseteq Ids
    /\ progress \in {"idle", "list", "documents"}
    /\ offset \in 0 .. MaxPages /\ kept \subseteq Ids /\ taken \in 0 .. MaxItems
    /\ cut \in BOOLEAN /\ mentioned \subseteq Ids /\ unread \subseteq Ids

Init ==
    /\ sent = <<>> /\ read = {} /\ progress = "idle" /\ offset = 0
    /\ kept = {} /\ taken = 0 /\ cut = FALSE /\ mentioned = {} /\ unread = {}

\* An unread, unarchived mention.
IsMention(n) == sent[n] = "mention" /\ n \notin read

-----------------------------------------------------------------------------
(* Outline                                                                 *)

Send(kind) ==
    /\ Len(sent) < MaxSent
    /\ sent' = Append(sent, kind)
    /\ UNCHANGED <<read, progress, offset, kept, taken, cut, mentioned, unread>>

Open(n) ==
    /\ IsMention(n)
    /\ read' = read \union {n}
    /\ unread' = unread \ {n}
    /\ UNCHANGED <<sent, progress, offset, kept, taken, cut, mentioned>>

-----------------------------------------------------------------------------
(* A poll                                                                  *)

Begin ==
    /\ progress = "idle"
    /\ progress' = "list"
    /\ unread' = {n \in DOMAIN sent : IsMention(n)}
    /\ UNCHANGED <<outline, offset, kept, taken, cut, mentioned>>

\* Notifications are numbered as they were sent, and listed newest first.
Listed(k) ==
    {n \in DOMAIN sent :
        k * PageSize <= Len(sent) - n /\ Len(sent) - n < (k + 1) * PageSize}

\* Variant of Short: the last page is the first with nothing to keep.
ShortOfMentions(got) == {n \in got : IsMention(n)} = {}

\* The last page is the first that is short.
Short(got) == Cardinality(got) < PageSize

\* Variant of Room: max is counted on each page anew.
RoomOnAPage == MaxItems

\* What is left of max.
Room == MaxItems - taken

\* Paging stops at max, at a short page, or after maxPages.
Page ==
    /\ progress = "list"
    /\ LET got == Listed(offset)
           new == {n \in got : IsMention(n)}
           full == taken' = MaxItems
           last == offset + 1 = MaxPages
       IN  /\ kept' = kept \union {n \in new : Cardinality({m \in new : m >= n}) <= Room}
           /\ taken' = taken + Min({Room, Cardinality(new)})
           /\ progress' = IF Short(got) \/ full \/ last THEN "documents" ELSE "list"
           /\ cut' = (full \/ (last /\ ~Short(got)))
    /\ offset' = offset + 1
    /\ UNCHANGED <<outline, mentioned, unread>>

Return ==
    /\ progress' = "idle" /\ offset' = 0 /\ kept' = {} /\ taken' = 0
    /\ cut' = FALSE /\ unread' = {}

\* Each document has been looked up, or cannot be opened by you, which does
\* not fail the poll.  A notification read twice is listed once.
Store ==
    /\ progress = "documents"
    /\ mentioned' = kept
    /\ Return
    /\ UNCHANGED outline

\* A page, or the lookup of a document, fails: the store keeps what it has.
Fail ==
    /\ progress # "idle"
    /\ Return
    /\ UNCHANGED <<outline, mentioned>>

Poll == Begin \/ Page \/ Store \/ Fail

Next ==
    \/ Poll
    \/ Send("mention") \/ Send("other")
    \/ \E n \in DOMAIN sent : Open(n)

Spec == Init /\ [][Next]_vars

-----------------------------------------------------------------------------
(* Properties                                                              *)

\* Pages and items are at least one (outline.go:34-37, config.go:482).
Assumptions ==
    /\ PageSize \in Nat \ {0} /\ MaxPages \in Nat \ {0} /\ MaxItems \in Nat \ {0}
    /\ MaxSent \in Nat

\* Mentions, outline.go:140-145: short of its bounds, a poll finds every
\* mention that was unread all through it, whatever arrives meanwhile.
UnreadIsShown == [][Store /\ ~cut => unread \subseteq mentioned']_vars
=============================================================================
