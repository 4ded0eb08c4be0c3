---------------------------- MODULE AdapterItems ----------------------------
(***************************************************************************)
(* What the adapters' items promise, each adapter with the constants and   *)
(* variables of its own module.  They share nothing: constants that two of *)
(* the modules call alike have a name each here.                           *)
(***************************************************************************)

CONSTANTS
    PullNumbers, GitHubPage, Limit, MaxMoves,
    Channels, Directs, Closable, Lookback, SearchCount, SearchMaxPages, ListRead,
    MaxConversations, HistoryLimit, MaxPosts,
    Uids, FirstStart, Every, Length, FeedOf, LookBack, Horizon, Lead, Interval,
    MaxClock, MaxCalendarEdits, Off, Cancelled,
    OutlinePage, MaxPages, MaxItems, MaxSent,
    Sessions, Advisors, SessionOf, AdvisorCost, LookupsPerNote, MinLookups,
    MaxMessages,
    Dirs, FileNames, NoFile, MaxFileEdits,
    Requests, Workspaces, Tabs, Panes, NoPlace, TabIn, PaneIn, Shells, MaxTouches

VARIABLES
    yours, moves, reading, given, found, more, inbox, truncated, throughout, slid,
    shut, posts, known, stage, page, cutoff, mentions, mine, toRead, histories,
    warnings, waiting, warned, begun, waited,
    clock, nextPoll, start, calledOff, exdates, overrides, edits, meetings, lost,
    plan, settled, announced,
    sent, read, progress, offset, kept, taken, cut, mentioned, unread,
    syncs, opened, spent, written, index, midnight, phase, asked, late, rows, behind,
    atBegin, passed,
    disk, closed, changes, todo, listed, scanned, trouble, scanning, notes,
    problems, were,
    tabIn, paneIn, screen, touches, request, calm

GitHub == INSTANCE GitHubInbox WITH Pulls <- PullNumbers, PageSize <- GitHubPage

Slack == INSTANCE SlackInbox

Calendar == INSTANCE Calendar WITH MaxTime <- MaxClock, MaxEdits <- MaxCalendarEdits

Outline == INSTANCE OutlineMentions WITH PageSize <- OutlinePage

Spend == INSTANCE SpendSessions

Notes == INSTANCE NotesScan WITH
    Names <- FileNames, Absent <- NoFile, MaxEdits <- MaxFileEdits

Herdr == INSTANCE HerdrFocus

-----------------------------------------------------------------------------
(* The type invariants of the adapters.                                    *)
Types ==
    /\ GitHub!TypeOK /\ Slack!TypeOK /\ Calendar!TypeOK /\ Outline!TypeOK
    /\ Spend!TypeOK /\ Notes!TypeOK /\ Herdr!TypeOK

(* Stated in the modules: GitHub's inbox has what was yours all through a  *)
(* poll, whichever search would have found it when.                        *)
NothingFallsBetweenSearches == GitHub!NothingFallsBetweenSearches

(* Slack's items are what waits for you, or the status says what is        *)
(* missing.                                                                *)
BoardIsWhatWaits == Slack!BoardIsWhatWaits

(* Calendar's items are the meetings that will be held.                    *)
BoardIsThePlan == Calendar!BoardIsThePlan

(* A meeting has asked for attention before it starts.                     *)
AnnouncedInTime == Calendar!AnnouncedInTime

(* Short of its bounds, Outline's poll finds every unread mention.         *)
UnreadIsShown == Outline!UnreadIsShown

(* A session whose advisor runs away is flagged, and stays so.             *)
RunawayCostIsTold == Spend!RunawayCostIsTold

(* A scan of the notes shows what was there while it ran.                  *)
ScanIsOfWhatWasThere == Notes!ScanIsOfWhatWasThere

(* What is on the screen after overlapping requests is what one asked for. *)
FocusIsWhatSomeoneAskedFor == Herdr!FocusIsWhatSomeoneAskedFor
=============================================================================
