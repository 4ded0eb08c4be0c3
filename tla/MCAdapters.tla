----------------------------- MODULE MCAdapters ----------------------------
(***************************************************************************)
(* The store and the adapters that fill it, for TLC.  The adapters share   *)
(* nothing but the store, where each has a source of its own, so that a    *)
(* behaviour here is of one machine alone: running is "store" for the item *)
(* store (ItemStore), which takes any list from them, and else names the   *)
(* one that is run in full, from its backend to its items.  The variables  *)
(* of the others stay at their initial values.                             *)
(***************************************************************************)
EXTENDS MCItemStore, PullRequests, AdapterItems, TLC

ASSUME KeysApart

VARIABLE running

githubVars ==
    <<yours, moves, reading, given, found, more, inbox, truncated, throughout, slid>>
slackVars ==
    <<shut, posts, known, stage, page, cutoff, mentions, mine, toRead, histories, warnings,
      waiting, warned, begun, waited>>
calendarVars ==
    <<clock, nextPoll, start, calledOff, exdates, overrides, edits, meetings, lost,
      plan, settled, announced>>
outlineVars == <<sent, read, progress, offset, kept, taken, cut, mentioned, unread>>
spendVars ==
    <<syncs, opened, spent, written, index, midnight, phase, asked, late, rows, behind,
      atBegin, passed>>
notesVars ==
    <<disk, closed, changes, todo, listed, scanned, trouble, scanning, notes,
      problems, were>>
herdrVars == <<tabIn, paneIn, screen, touches, request, calm>>
pullVars == <<pull>>

(* Three pull requests on two pages, one more than the inbox has room for  *)
(* in one search if all three are in it.                                   *)
MCPullNumbers == 1 .. 3

(* A channel and two direct conversations, one of them perhaps closed.     *)
(* Everything is cut somewhere: the lookback, the searches, the            *)
(* conversations, the history.                                             *)
MCDirects == <<"d", "e">>

(* A series with a meeting every third tick and a single meeting, in two   *)
(* feeds.                                                                  *)
MCFirstStart == "standup" :> 1 @@ "review" :> 4

MCEvery == "standup" :> 3 @@ "review" :> 0

MCLength == "standup" :> 2 @@ "review" :> 1

MCFeedOf == "standup" :> "work" @@ "review" :> "home"

(* Two sessions, one of which has two advisors.                            *)
MCSessionOf == 1 :> "s" @@ 2 :> "s"

MCDirs == <<"d", "e">>

(* Two workspaces, the first with two tabs; a pane in each, one of them a  *)
(* shell.                                                                  *)
MCTabIn == "s" :> "v" @@ "t" :> "v" @@ "u" :> "w"

MCPaneIn == "a" :> "s" @@ "c" :> "u"

PullRequest == INSTANCE PullRequestLife

(* What the theorems about the adapters assume of their constants.         *)
ASSUME /\ GitHub!Assumptions /\ Outline!Assumptions /\ Spend!Assumptions
       /\ Notes!Assumptions /\ Herdr!Assumptions
       /\ Slack!Assumptions /\ Slack!ListIsRead
       /\ Calendar!Assumptions /\ Calendar!SeriesAreShort /\ Calendar!PollsAreFrequent

-----------------------------------------------------------------------------
Machines == {"store", "github", "slack", "calendar", "outline",
             "spend", "notes", "herdr", "pull"}

(* One initial state for a machine that is not run. *)
AllInit ==
    /\ running \in Machines
    /\ Init
    /\ GitHub!Init /\ (running # "github" => yours = [p \in PullNumbers |-> {}])
    /\ Slack!Init /\ (running # "slack" => shut = {})
    /\ Calendar!Init /\ Outline!Init
    /\ Spend!Init /\ (running # "spend" => opened = {} /\ syncs)
    /\ Notes!Init /\ Herdr!Init
    /\ PullRequest!Init
    /\ running # "pull" => pull.role = "author" /\ ~pull.important

(* The step is that of machine m. *)
Only(m) ==
    /\ running = m /\ UNCHANGED running
    /\ IF m = "store" THEN TRUE ELSE UNCHANGED vars
    /\ IF m = "github" THEN TRUE ELSE UNCHANGED githubVars
    /\ IF m = "slack" THEN TRUE ELSE UNCHANGED slackVars
    /\ IF m = "calendar" THEN TRUE ELSE UNCHANGED calendarVars
    /\ IF m = "outline" THEN TRUE ELSE UNCHANGED outlineVars
    /\ IF m = "spend" THEN TRUE ELSE UNCHANGED spendVars
    /\ IF m = "notes" THEN TRUE ELSE UNCHANGED notesVars
    /\ IF m = "herdr" THEN TRUE ELSE UNCHANGED herdrVars
    /\ IF m = "pull" THEN TRUE ELSE UNCHANGED pullVars

AllNext ==
    \/ Only("store") /\ Next
    \/ Only("github") /\ GitHub!Next
    \/ Only("slack") /\ Slack!Next
    \/ Only("calendar") /\ Calendar!Next
    \/ Only("outline") /\ Outline!Next
    \/ Only("spend") /\ Spend!Next
    \/ Only("notes") /\ Notes!Next
    \/ Only("herdr") /\ Herdr!Next
    \/ Only("pull") /\ PullRequest!Next

allVars ==
    <<running, vars, githubVars, slackVars, calendarVars, outlineVars, spendVars,
      notesVars, herdrVars, pullVars>>

AllSpec == AllInit /\ [][AllNext]_allVars

=============================================================================
