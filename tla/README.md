# attentiond in TLA+

Specifications of the daemon in `src/`: what it keeps, what each step of it
does, what that must never break, and proofs of the part everything else leans
on. Line numbers are of `src/` at the commit these modules sit beside.

## 1. The system

attentiond is one process. Goroutines poll backends, HTTP handlers take events
and a human's decisions, everything meets in one in-memory store, and three
things leave it: lists over HTTP, lines in a log file, and notifications.

| Component | State it keeps | Operations | Talks to |
|---|---|---|---|
| Item store (`attention/store.go`, `model.go`) | `items` by key, `restored` | `ReplaceSource`, `Put`, `sweep` on every read, `Items`, `Get`, `Attention`, `Board`, `CountBySource` | pollers and events write, HTTP reads |
| Decision store (`store.go`, `decision.go`) | `decisions`, `generation` under `mu`; `written` and the state file under `writeMu` | `Decide`, `Clear`, `apply` on every read, `stage`, `persist`, `loadState`, `saveState` | HTTP, the state file |
| Signal log (`signallog.go`, `store.go`) | `pending` under `mu`; the log file, `lastPrune` under the log's lock | `record`, `signal`, `flushSignals`, `append`, `prune`, `read`, `lastByItem` | every writer and reader of the store, the log file |
| Notifier (`notify/notify.go`) | `sent` under its lock, a bounded `queue` | `Observe`, `match`, `cooling`, `forget`, `Run`, `deliver` | the store's observer call, a route |
| Pollers (eight `*/poller.go`) | `status` under a lock each | `Run`, `pollOnce`, `recordSuccess`, `recordFailure`, `SourceStatus` | a backend, the store, `/health` |
| Event ingestion (`httpapi/events.go`) | none | `ingestEvent`, `buildItem` | the store |
| HTTP lists, decisions and actions (`httpapi/server.go`, `items.go`, `log.go`) | none | `work`, `attention`, `stale`, `health`, `decide`, `runAction` | the store, the pollers' status, Herdr |
| GitHub, Slack, Datadog, Outline, Calendar, Spend, Notes, Herdr adapters | none, or a cache between polls | paging, classification, `Normalize` | their backends |
| Herdr client and actions (`herdr/client.go`, `actions.go`) | one connection per call | `call`, `Execute`, `focusTab`, `focusPane` | the Herdr socket |
| Notification routes, configuration, wiring | none after start | `Notify`, `Load`, `run` | the OS |

What is hard about it is where two of these meet:

* The decision is changed under one lock and written under another, on the
  goroutine of the request. Several writes wait for the second lock at once and
  nothing orders them; any may fail; the process may end at any point.
* The log queue is filled under the store lock, drained by whoever comes first,
  and appended under a third lock. A start reads the file back.
* The observer is called after the store lock is let go, on several goroutines.
* A poll replaces the source under one lock and records its outcome under
  another; a request reads one after the other.
* A snooze, an event item's life, staleness and a notification's cooldown all
  end by a clock, at a moment when nobody writes.
* An adapter's poll is many requests, and its backend changes between any two:
  searches, pages, lists and then what they list, an index and then a query.
* A focus is several calls to Herdr, and so are those of the next request.

What makes each component correct is listed with its module below. The full
list of hazards, with their lines, is in `PROJECT.json`.

## 2. The modules

| Module | Models | Lines of TLA+ for |
|---|---|---|
| `DecisionRegister` | abstract: versions of the decisions reach the disk whole and in order, a restart resumes from the one it holds | what a human is promised |
| `DecisionStore` | `Decide`, `Clear`, reads, `stage`, `persist`, `saveState`, `loadState`, restart | `store.go`, `decision.go` |
| `DecisionHistory` | `DecisionStore` with two history variables: what was said last about an item, and which change each generation is about | the same, seen from outside |
| `DecisionStoreProofs` | theorems about `DecisionStore` and `DecisionHistory` | |
| `SignalLog` | what a change says, `flushSignals`, `append`, `prune`, the read-back | `store.go`, `signallog.go` |
| `SignalLogProofs` | theorems about `SignalLog` | |
| `ItemStore` | `ReplaceSource`, `Put`, `sweep`, keys, reserved names, times, expiry, staleness | `store.go`, `events.go`, `model.go` |
| `ItemStoreProofs` | theorems about `ItemStore` | |
| `Notifications` | store writes with the snooze that covers them, `Observe` and below | `store.go`, `notify.go` |
| `NotificationsProofs` | theorems about `Notifications` | |
| `Pollers` | the pollers, backends, shutdown and a request for the board | `*/poller.go`, `server.go`, `main.go` |
| `PollersProofs` | theorems about `Pollers` | |
| `Lists` | `promote`, `apply`, `collect`, `queued`, the three lists and their counts | `store.go`, `model.go`, `server.go` |
| `ListsProofs` | theorems about `Lists` | |
| `GitHubInbox` | three searches page by page, and the list made of them | `github/github.go`, `pulls.go` |
| `PullRequests` | `classify`, `rank`, `reviewScope`: the tables | `github/pulls.go` |
| `PullRequestLife` | what happens to a pull request | GitHub |
| `PullRequestsProofs` | that those tables agree | |
| `SlackInbox` | two searches, the conversations, their histories, `Normalize` | `slack/slack.go`, `items.go` |
| `Calendar` | `Expand`, the feeds, the phases, the ticker | `calendar/events.go`, `poller.go` |
| `OutlineMentions` | pages by offset, documents | `outline/outline.go`, `items.go` |
| `DatadogFindings` | pages by cursor | `datadog/datadog.go` |
| `SpendSessions` | sessions, index, query, `judge` | `spend/spend.go`, `poller.go` |
| `NotesScan` | directories, files, problems | `notes/notes.go`, `poller.go` |
| `HerdrFocus` | `runAction`, `Execute`, `focusTab`, `focusPane` | `server.go`, `herdr/actions.go`, `client.go` |
| `AdapterItems` | instances of these adapter modules but Datadog's and the pull requests', and what their items promise | |
| `AdaptersProofs` | theorems about each of the seven | |
| `AllPollers` | `Pollers` with an instance of `DatadogFindings` | |
| `MCAdapters` | the item store and the adapters that fill it, one of them at a time | |
| `MCPollers` | `Pollers` and `DatadogFindings`, one of them at a time | |
| `MCLists` | `Lists`, and `ItemStore` with names that clash, one of them at a time | |
| other `MC*` | definitions the configurations need | |

How the state and the actions correspond to the code:

**DecisionStore.** `decisions`, `generation`, `written` are the fields of
`Store`; `file` is the state file as a start would read it; `board` and `now`
stand for the rest of the store and the clock. `staged[g]` is the snapshot that
`stage` hands to the persist call of generation `g`, and `phase[g]` is how far
that call is: it waits for `writeMu`, it saves (the temporary file is being
written), it has renamed, or it has returned. One critical section is one
action: `Decide` and `Clear` change the map and stage the copy; `PersistBegin`
and `PersistSkip` are the check at the top of `persist`; `SaveRename` is the
rename, the only step that changes what a start would read; `SaveFail` is any
failure of `saveState` before it; `PersistEnd` is the assignment to `written`
and the unlock. `ReadItem` and `ReadBoard` are the reads: they drop what they
find spent, in memory. `Restart` may come at any point.

**SignalLog.** A critical section of the store is `Section`: it leaves the
store holding something else and queues what `Said` derives, in a list's or a
map's order. The goroutine then goes through `Drain` and `AppendBatch`. `file`
is the sequence of lines; a line that does not parse is `Torn`; `ended` says
whether the last one has its newline, which decides whether the next write is
glued to it. `Cut` is what a write that does not complete leaves behind.

**ItemStore.** A key is the concatenation of its source's and its id's
segments, as `Key` joins them with a colon. A poll takes the backend's work
and calls `ReplaceSource`; an adapter that blanks calls it with nothing. An
event compares its name as sent with the adapters and is stored under the
trimmed one. `Read` is `sweep`. A name may be padded or hold colons, so that it
comes to an adapter's key: the next poll of that adapter puts its own item
there, or takes the event's away if it went under the adapter's name.

**Notifications.** `flight[p]` is the list of transitions between the unlock
and `Observe`, `matching[p]` the point between `forget` and `match` of one of
them. The check of the cooldown and its record are one step, as in `cooling`;
the send that follows either finds room (`Announce`) or does not (`Drop`).

**Pollers.** `pc[a]` is where `pollOnce` is: a fetch that got an answer stores
it and records it; one that did not is recorded, and, for the adapters that
blank, blanks. `enabled` is the set of adapters a configuration turns on.

**Lists.** `items` holds what a source reported, promoted when it was written;
`Shown` is `apply` on a copy, `Before` is `collect`'s comparison, and `Sorted`
any sequence `sort.Slice` may leave of a set taken in a map's order. A read is
one action that looks at the clock twice, as the code does; `reply` is the list
it made, until something changes. Ids are numbers in the order of the keys'
bytes, labels are classes of words equal up to case and outer blanks.

**The adapters.** In each, the backend is a few variables that move between any
two requests of a poll, and a request with its answer is one action, since the
adapter keeps nothing between them but what it has read. Ghost variables hold
what was true all through a poll, which is what its result is measured by.

* `GitHubInbox`: `yours[p]` is the set of searches that would find `p`;
  `reading` is the search `Inbox` is at, `given` how many results it has given,
  `found` and `more` what `searchAll` collects. `Page` is one turn of its
  loop, and the last one is `Normalize` and the store.
* `PullRequests`: one variable, the pull request as GitHub has it. `Label`,
  `State`, `Rank` and `ReviewScope` are the tables of `pulls.go` as operators;
  `PullRequestLife` is what people and GitHub do to it.
  Your login is `"you"`, every other user is `"other"`, a request whose
  reviewer GitHub does not name is `"unnamed"`.
* `SlackInbox`: time is counted in messages, so that a timestamp is a place in
  `posts`. `stage` is where `Snapshot` is; `SearchMentions` and `SearchMine` are
  turns of `search`, `List` and `ReadHistory` are `conversations`, `Store` is
  `Normalize`. The search of your own messages ends at the first result that is
  older than every mention still open, which is what its loop stops at; `toRead`
  holds places in `Directs`, and the least of them is read next. A post is a
  message of its conversation or a reply in a thread (`reply`): searches find
  both, and `History` holds only the former, as conversations.history does.
* `Calendar`: `start`, `calledOff`, `exdates` and `overrides` are what a feed
  says of its events, `plan` what people meant. `Starts` is the expansion of a
  rule with its exceptions, `Replaced` the instances that `split` takes out,
  `Held` what is left and where it was moved, `At` the window. `CancelEvent`
  cancels a single meeting or a whole series, whose overrides stay.
  A tick is the unit of the ticker and of every length.
* `OutlineMentions`: `offset` counts pages, `kept` is what `Mentions` returns and
  `taken` its length, which counts a notification twice if two pages gave it.
* `DatadogFindings`: `Page` takes any findings and any next cursor.
* `SpendSessions`: `spent` is what omp wrote, in `written` messages, `index` what
  its database holds; `List`, `Sync`, `Read` are the steps of `pollOnce`, each
  with its failure. `syncs` says whether an index command is configured: with
  none (`sync = []`) `NoSync` passes on without a warning and only `OmpStats`, a
  human, brings the index up to date. Each item bears `Newest`, the date of the
  newest message indexed; a message is dated by its number. `passed` is a ghost:
  the message at which an advisor passed the limit.
* `NotesScan`: `ReadDir` lists a directory, `Read` opens one of what it listed.
  The code opens them by name; here any may be next, which allows more.
* `HerdrFocus`: `request[r].step` is the call that comes next. `Focus` is a call
  that works, `NotFound` one that Herdr refuses (a workspace at any time, since
  which are open is not kept), and `Fails` one whose answer is lost, after it took
  effect or before. `screen` is what Herdr shows.

## 3. What is checked

Every invariant below is checked in every reachable state of the instance.

| Run | Instance | Shows |
|---|---|---|
| `DecisionWriters` | 2 items, 3 changes, failing saves, restarts | one writer, newer than all that is written, and the file is exactly its version (`WriteInv`); when the dust settles it is the newest (`QuiescentFileIsNewest`) |
| `DecisionLapses` | 1 item, 2 labels, 1 deadline, 2 changes | what a human was told is saved holds until they say otherwise, its deadline passes or its label moves (`AnsweredDecisionStands`), `DecisionStore` implements `DecisionRegister`, every request is answered |
| `LogConcurrent` | 2 items, 2 readings, 2 goroutines | sorted by time the log is each item's history without a gap, and gets everything queued |
| `LogRestarts` | 2 items, 1 goroutine, crashes, cut writes, retention of 2 | the log ends with the board across restarts; a start compares with the newest entry; a cut write costs one line and the first one after it |
| `AdapterItems` | the item store with 2 adapters and events, and each adapter by itself (below) | a finished event item is served for its time, no less and no more; news is not stale; and the properties of the adapters |
| `NotifyOneWriter` | 1 item, 4 readings, 5 writes, room for 1 notification, cooldown of 2 | news is announced, repeats are spared, and the writer never waits for a delivery |
| `PollBoard` | one adapter of each of four kinds, one at a time, all failures on; Datadog with two cursors | `/health` says what the board holds, an incomplete list says so unless a poll ends at that very moment, a keeper loses nothing, every adapter recovers; Datadog's poll ends wherever the cursors lead (`PollEnds`) |
| `BoardLists` | 2 items, 4 works of which one reads as a top label, one deadline, finished work and staleness of one tick; and the item store by itself with 1 adapter and 2 events' names, one padded and one with a colon, both of which come to the adapter's keys | the queue is exactly the work that needs a human, less what is snoozed, stale or long done; lists are in the README's order and do not depend on the map's; work, stale and attention add up; whatever events put under an adapter's name or keys, after its next poll the store serves what it listed until the next event about that key, through expiries, sweeps and restarts (`AdapterListIsServed`) |

The adapters in `AdapterItems`. A behaviour is of one machine: `running` names
it and the variables of the others stay as they are, because adapters share
nothing but the store, where each replaces a source of its own, which is what
`ItemStore` shows of any lists they give it. One run then takes the sum of
their states instead of the product.

| Machine | Instance | Shows |
|---|---|---|
| `GitHubInbox` | 3 pull requests, pages of 2, a limit of 3, 2 moves | what was yours all through a poll is in it, whichever search would have found it when, or the status says there is more (`NothingFallsBetweenSearches`) |
| `PullRequestLife` | one pull request, any history | label, state, rank and review scope agree (`RankSaysWhoseTurn`) |
| `SlackInbox` | a channel, 2 direct conversations, 3 messages, replies in threads, a lookback of 2, pages of 1, 1 conversation, 2 messages of history | what waits for you and is within reach of searches and histories is on the board and what you answered is not, or the status says what is missing (`BoardIsWhatWaits`) |
| `Calendar` | a series and a single meeting in 2 feeds, 5 ticks, 2 edits | the board is the plan (`BoardIsThePlan`); a meeting asks for attention before it starts (`AnnouncedInTime`) |
| `OutlineMentions` | 5 notifications, 2 pages of 2, 3 items | short of its bounds, every unread mention is found (`UnreadIsShown`) |
| `SpendSessions` | 2 sessions, 2 advisors in one of them, 2 messages, with an index command and without | an advisor over its limit by the date of the numbers is told of unless the index command failed, and with a command one over it when the poll began; it stays told of across midnight, and nobody else's session is blamed (`RunawayCostIsTold`) |
| `NotesScan` | 2 directories of 2 names, 2 changes | a scan shows what was there while it ran and says what it could not read (`ScanIsOfWhatWasThere`) |
| `HerdrFocus` | 2 workspaces, 3 tabs, 2 panes one of which is a shell, 2 requests, 1 touch | when overlapping requests have all been answered 200, the screen is what one of them asked for (`FocusIsWhatSomeoneAskedFor`) |

Four runs end in a violation, each of a sentence of the repository:

| Run | The sentence | What happens |
|---|---|---|
| `LapsedSnooze` | `store.go:478-480`: a lapsed decision left in the file is pruned on the next load or the first poll after | The load prunes by deadline only. A snooze that a read dropped because its label had moved comes back after a restart and hides its item once the label is back. |
| `LogOrder` | `store.go:101`, `signallog.go:266`: the last line of an item is its newest entry | Two goroutines drain in one order and append in the other. |
| `PaddedSource` | `server.go:26-27`: an event cannot collide with adapter-owned items | The name is compared before it is trimmed. |
| `NotifySharedItem` | `README.md:854`: a repeat is suppressed for 15 minutes unless the item goes back to work in between | Two requests about one item are observed in the other order: the return to work, observed late, forgets a newer announcement. |

Other sentences that the models show to be stronger than the code are kept as
notes in `PROJECT.json`'s hazards, next to the property that does hold.

**Bounds.** `MaxTime`, `MaxWrites`, `QueueDepth`, `Crashes`, `Cuts`, `Outages`,
`Caps`, `Shutdowns`, `Requests` and `MaxEnabled` bound the instances; each is
declared as a constant with a comment. Three changes are the least with which
an old, a middle and a new write meet at the lock. Two items are the least with
which a batch or a snapshot can mix. Retention, cooldown, staleness and time to
live are one or two ticks, and the clock runs at least one tick past each, so
both sides of every boundary occur. One adapter at a time is enough for
`Pollers`: two share nothing but the context, and the warnings of a reply are
taken for each by itself. An adapter's backend moves twice at most while it is
polled (`MaxMoves`, `MaxEdits`, `MaxMessages`), which is enough for something to
leave one request's answer and not come into the next; Slack's and Outline's
messages (`MaxPosts`, `MaxSent`) exceed one page, and each limit by one. In
`Calendar` the series begins before the window, in it and after it, the lead is
the interval, and an edit can be edited again. Two requests and one human
(`MaxTouches`) are the least with which a focus is taken apart; the third tab
lets both be of one workspace.

**Fairness.** Weak fairness on the steps of a goroutine that is inside the
store, the log or `Observe`, or in a poll: each holds its locks for bounded work
only, `persist` waits for a mutex the Go runtime hands to a waiter that has
waited long, and every fetch runs under a timeout. No fairness is assumed of
requests, backends, deliveries, the clock or restarts. `Recovers` assumes what
it says: that the backend answers from some point on. `PollEnds` assumes that
every request to Datadog is answered, with anything, or fails, since its client
has a timeout.

**Deadlock** is checked in every run. The logs and the calendar stop only at the
bound of the clock, which `AtBound` makes explicit.

**Data that is abstracted.** An item is what its consumers compare: its label
for decisions and notifications, its reading (state, label, title and severity
together) for the log. Labels are classes of words equal after `normalize`.
Context, actions, wording and log output are left out. A message, a
notification or a finding is a number; a file is one of five kinds; a pull
request is the fields its tables read; cost is counted in messages.

## 4. What is proved

Thirty-seven theorems in eight modules, each for every value of the constants
that meets the assumptions named with it. They state every property of the
passing runs that is not about liveness.

`DecisionStoreProofs`, for every value of the constants that meets
`DecisionAssumptions` and `SentinelAssumptions` of `DecisionStore`:

* `TypeCorrect`: `Spec => []TypeOK`.
* `WriteProtocol`: `Spec => []WriteInv`.
* `NewestIsSaved`: `Spec => []QuiescentFileIsNewest`.
* `DecisionStoreImplementsRegister`: `Spec => ImplementsRegister`.
* `SavedStands`: `HSpec => []AnsweredDecisionStands`, of `DecisionHistory`.

`WriteInv` is three conjuncts that need each other. The check `g > written` is
made when the lock is taken and used when `written` is assigned, so it has to
stay true in between (`WriterIsNewer`), which holds because nobody else can
assign meanwhile (`OneWriter`); and the file is the version it is said to hold
(`FileIsVersion`) because the only step that changes it puts a whole copy there.
`NewestIsSaved` is not inductive by itself: that every call has returned says
nothing of what it wrote. `AnsweredIsWritten` is the strengthening: a call that
was saved or superseded has a number no greater than `written`. With it, when
the newest call has returned without failing, `written` is that call, and
`FileIsVersion` says what the file holds.
The refinement maps `mem` to `decisions`, `versions` to `staged`, `last` to
`generation`, and `disk` to `OnDisk`, the generation renamed but not yet
assigned if there is one, otherwise `written`: the version reaches the disk at
the rename. `PersistBegin`, `PersistSkip`, `SaveFail` and `PersistEnd` stutter;
`SaveRename` commits; a read is a lapse; `Restart` resumes from the version on
disk.

For `SavedStands`, `HSpec` implies `Spec` (`HistoryOnlyRecords`), which brings
the write protocol in. The property speaks of memory, but after a crash memory is what the disk
held, so the invariant has to say where an instruction is. `VersionsStand`: as
long as this process has heard or loaded the last instruction about an item,
memory and every staged version made after it hold that instruction, or none if
it was a snooze that has ended. `DurableOnDisk`: an instruction that was
answered is no newer than what is on disk; for a skipped save this is the
`g <= written` of `persist`, and every later rename only moves the disk forward.
`MoveSeen` says that a label which differs has been seen to move, so a snooze
that `apply` drops has ended. A restart then loads a version that has the last
word on everything that was answered.

`SignalLogProofs`, under `SignalLogAssumptions` and `SentinelAssumptions` of
`SignalLog`, for any number of goroutines:

* `LogTyped`: `Spec => []TypeOK`.
* `BadLineHidesNoOther`: `Spec => CutCostsOneWrite`.

and, if `Alone \/ (~Crashes /\ Retention = 0)`,

* `HistoryIsWhole`: `Spec => []HistoryHasNoGap`.
* `BoardIsTold`: `Spec => []LogTellsTheBoard`.
* `StartFindsNewest`: `Spec => []RestoredIsNewest`.

The condition is the one under which the code keeps these. One goroutine
appends in the order it drained, so that every line is older than all that
waits (`OrderInv`) and both a prune and a crash take from an end of the story.
Several goroutines may append in another order, which a start, going by the
last line of an item, does not survive: `LogOrder` refutes the last theorem
with two goroutines and a restart. With two goroutines and a retention TLC
finds a gap within twelve steps: one goroutine appends, after another's prune
has dropped a line for its age, a line that is older still.

`BasicInv` is the types, that a batch is being appended exactly while it is not
empty, that a file which never lost a write ends in a newline, and that nothing
is from the future. `StoryInv` is the theorem about gaps made inductive: sorted
by time, what is written of an item and what waits to be is a chain in which
each entry follows from the one before (`Chained`), no two are of one time, and
the newest leaves the item as the store holds it, or as the log said when the
process started (`Leaves`). `RestoredInv` is what makes the last case go on: as
long as a start's finding is not used, nothing waits to be said of that item,
and the finding is the newest there is.

What a change says is an IF in the module, since a CASE whose guards overlap is
any of its arms; and what is read and kept of a file is found by rank, since
`SelectSeq` is recursive.

`ListsProofs`, under `ListsAssumptions` and `SentinelAssumptions` of `Lists`:

* `OrderIsTotal`: the comparison is a strict order, total on different ids.
* `ListsInOrderOfUrgency`: `Spec => []InOrderOfUrgency`.
* `QueueKeepsItsPromise`: `Spec => []QueueIsWhatNeedsYou`, which also takes that
  the ids are finitely many (`ListsAssumptions`), so that a list has a length.
* `ListsTyped`: `Spec => []TypeOK`.
* `TwiceIsTheSame`: `Spec => ReadTwiceIsTheSame`.
* `ListsFitTogether`: `Spec => ListsAddUp`.

The order a list has is one of ranks as shown, which a decision overrides; the
order promised is one of what was reported and said. `OrderInv` ties them
together: an item is stored as reported, with no trace of a decision
(`StoredAsReported`), a bump stands exactly as long as the human says
(`BumpsStand`), so each item of a reply shows its urgency (`ReplyInOrder`).
Reads preserve it because what they drop is never a bump.

The queue needs a second invariant, `SnoozesFit`, because what is left out is
decided from the stored decisions and the promise is made about what a human
said: a snooze that stands is the one that was said, one that still has to hold
stands, and an item whose label never moved still reads as it did when it was
decided about. Only the clock and a moving label end a duty to defer, so a read
that drops a snooze drops one that has ended. `SortedIsComplete` then says that
sorting loses nothing: a list as long as the set it is made of, without
repetitions, holds every member of it.

`TwiceIsTheSame` rests on there being one way to sort: two sequences that list
one set in a total order have the same item at each rank. With `ReplyIsNow`, a
reply made within one instant is what would be made now, for as long as it is
kept; so two are equal, and `ListsFitTogether` compares two lists made of one
state.

`PullRequestsProofs`, without assumptions:

* `TablesAgree`: `Spec => []RankSaysWhoseTurn`.

Three of the four conjuncts hold of every pull request; the last, that a review
somebody else can give too ranks below all others, would not: a reviewer of
whom nobody asked anything would rank at 20. `ReviewersAreAsked` says that a
reviewer is asked by name or through a team, which each step preserves because
withdrawing the last of these requests also takes the pull request out of that
search.

`PollersProofs`, under `PollerAssumptions` of `Pollers` (the sets of adapters
fit, the ids are finitely many so that a list has a count):

* `PollersTyped`: `Spec /\ Datadog!Spec => []Types`.
* `HealthTellsTheBoard`: `Spec => []StatusIsTheBoard`.
* `IncompleteListsSaySo`: `Spec => []WorkSaysWhatItMissesBetweenPolls`.
* `OutagesTakeNothing`: `Spec => KeepersLoseNothing`.

None of the last three is inductive, because a poll writes the store and the record in two steps.
`StatusFits` says, for each place in a poll, how far the record lags behind the
board: at "stored" the board is the answer that will be counted, at "blank" the
record is already that of an empty source, and only adapters that blank get
there. `LeftFits` says that what the board has beyond the backend was dropped
by it, also of a whole answer that is fetched and not yet stored. `ReplyFits`
says that what a request found incomplete still is until a poll touches it.

`ItemStoreProofs`, under `ItemStoreAssumptions` and `AbsentAssumption` of
`ItemStore`, the middle two for constants that meet `KeysApart`, the last for
those that meet `AdapterNamesApart`:

* `StoreTyped`: `Spec => []TypeOK`.
* `EventsAreServedWhileLive`: `Spec => []EventItemsServedWhileLive`.
* `NewsReachesTheBoard`: `Spec => []NewsIsNotStale`.
* `ListsAreServed`: `Spec => []AdapterListIsServed`.

`KeysApart` is what the code relies on and does not enforce: no two adapters
come to one key, and no event that is let through has an adapter's name or
key. TLC evaluates it for `AdapterItems`; `PaddedSource` and the item store
of `BoardLists` do not meet it. In the first an event replaces an adapter's
item, and the second shows what is left of the promise: the adapter's next poll
makes it good. `ListsAreServed` says so of every name an event may have, padded
or with colons, and needs only that the adapters' own names, which are words
fixed in the code, do not run into each other (`AdapterNamesApart`). Its
invariant, `ListsFit`, says that a listed item no event touched since is the
adapter's and has no end of life, which is what a sweep goes by.
`EventItemFits` ties an item to its last event, both while it is stored and
after a sweep; `AdapterItemFits` says that what is stored under an adapter's key
is that adapter's, so that `changed` compares a report with the adapter's own
last one and only a report that is not new keeps the older time.

`NotificationsProofs`, under `NotificationAssumptions` and `AbsentAssumption` of
`Notifications`, the last two for writers that meet `OneWriterEach`:

* `NotifierTyped`: `Spec => []TypeOK`.
* `NewsGetsTold`: `Spec => []NewsIsTold`.
* `RepeatsGetSpared`: `Spec => RepeatsAreSpared`.

`OneWriterEach` holds for the items of an adapter, whose poller alone writes
them, and not for an event's item, which any request may write; there
`NotifySharedItem` breaks the last of the three. `Fits` ties a transition that
is yet to be observed to the item it is about: it is the item's last write, it
is what the item's last news came from or no news at all, and nothing of it is
told. `SentFits` says that a time in `sent` is the time of what was told, and
that work done since then is in a transition still to be forgotten; so when
`match` finds a label cooling, what it spares is a repeat. A drop breaks that
tie for its item, which is why `NewsIsTold` leaves such items out. `ToldFits` is
the other direction and holds for those as well: what was told is in `sent`,
past its cooldown, or the item has worked since.

`AdaptersProofs`, each under the `Assumptions` of its module, which say that
sizes are numbers (positive ones where the configuration insists):

* `NothingFalls`: `GitHub!Spec => NothingFallsBetweenSearches`.
* `WaitingIsShown`: `Slack!Spec => BoardIsWhatWaits`, if `ListIsRead`.
* `UnreadAreShown`: `Outline!Spec => UnreadIsShown`.
* `CalendarShowsThePlan`: `Calendar!Spec => BoardIsThePlan`, if `SeriesAreShort`.
* `MeetingsAreAnnounced`: `Calendar!Spec => []AnnouncedInTime`, if also
  `PollsAreFrequent`.
* `RunawaysAreTold`: `Spend!Spec => RunawayCostIsTold`.
* `ScanTellsWhatWasThere`: `Notes!Spec => ScanIsOfWhatWasThere`.
* `SomebodyGetsTheFocus`: `Herdr!Spec => []FocusIsWhatSomeoneAskedFor`, for any
  number of requests.
* `AdaptersTyped`: all of these specifications imply `[]Types`.

What a poll made of many requests promises at its end is proved from what it
has so far, against a backend that moves:

* GitHub (`GitHubPollFits`): of a search that nothing changed between two pages
  of, what it has given is in `found`. What was yours all through the poll is in
  a search that is over or to come, because an author stays one and whoever has
  reviewed has: that is why the search of your reviews comes last. The property
  is judged at every poll that ends.
* Slack (`SearchesFit`, `HistoriesFit`, `WaitedFits`): a search read up to a
  page has given what was there when the poll began and comes before that page
  now, since what is posted only moves results to later places; a history holds
  the newest top-level messages of its conversation; and what asked for you
  unanswered when the poll began is in `waited`. What was said in a thread of an
  open direct conversation is not promised (`InReach`), neither as something
  that waits nor as an answer. `ListIsRead`, that the list of conversations is no
  longer than what is read of it, is the hazard of section 5: a cut there is
  not said.
* Outline (`KeptSoFar`): a notification never comes to an earlier place, so what
  was unread from the start and lies before the next page has been kept.
* Calendar (`FeedsFit`): what rule, exceptions and overrides say of each slot is
  what people planned for it. An occurrence that began before the look-back is
  not expanded, so a series has to be shorter than that (`SeriesAreShort`; a
  day, `events.go:204`); TLC refutes the theorem without it. `CalendarPollFits`
  is about time: whatever starts before the next poll and was left alone for an
  interval has been announced. It needs the interval within the lead and the
  window (`PollsAreFrequent`), as by default (5 minutes, 10 minutes and 12
  hours, `config.go:315-317`), which the configuration does not enforce; with an
  interval past the lead TLC finds a meeting that begins unannounced.
* Spend (`UsageFits`, `DatesFit`, `RowsFit`): the index holds nothing that was
  not spent, and an index command that works brings in what was spent when the
  poll began; a row that flags a session has an advisor to show for it, whose
  cost only grows. Unless the command failed, the index is what had been spent
  up to some date (`Whole`), and that date is the one the rows bear. A limit of
  0 is off, which the property has to except.
* Notes (`ScanFits`): for each path, where the scan is with it and what it has
  been since the scan began.
* Herdr (`ScreenIsSomeones`): while nobody else touches the screen, what it
  shows is as far as one of the requests under way or answered has brought it.

`AdaptersTyped` is the first conjunct of each of these invariants. Only for
Spend it takes more: `judge` names the costliest advisor and each item the
newest date, so there have to be such. `LeastNumber` gets them from
well-foundedness (`WFMin`), which is how far an induction over data can go here:
by its least counterexample.

Only model-checked: liveness, since the provers have neither fairness nor
`ENABLED` (`EveryRequestAnswered`, `QueueIsWritten`, `ObserverReturns`,
`Recovers`, `PollEnds`). Only proved: the types of `ItemStore`.

## 5. Not modelled

* The notification routes, the decoding of HTTP and JSON, logging, file
  permissions: pure input and output.
* The configuration: read once and validated, no interleaving. The wiring:
  what it starts is modelled by the modules of what it starts.
* Temporary files a crash leaves beside the state file: nothing reads them.
* Fixtures, which stand in for a backend in tests and demonstrations.
* What an adapter's item says beside what it is: titles, context, links.
* Slack: how long the next poll waits after a rate limit, which messages are of
  a kind to be counted, the cache of names. Calendar: parsing, time zones,
  all-day events, the resolving of feeds, ids of occurrences. Outline and
  Datadog: what a document or a finding says. Spend: sums of the day, and an
  index that omp builds anew. Herdr: the search for the socket, the framing of
  a call, and the translation of a snapshot, which is a table.
* Slack: replies in threads of open direct conversations, and mentions in them,
  are not read, so they are outside what `BoardIsWhatWaits` promises (`InReach`).
  The code drops such a mention without a warning (`items.go:91`).
* Starts whose files cannot be read. `DecisionStore` starts from no file, a whole
  one or one that does not parse; a read that fails otherwise (`decision.go:113`)
  starts with no decisions while the file holds some, and the next one replaces
  them. `SignalLog` reads the whole log; one that cannot be opened or breaks off
  (`store.go:133-137`, `signallog.go:213,227-229`) restores nothing or a part, so
  that items are said to appear again.
* Times within a step. `Calendar` reads all feeds and looks at the clock in one
  step, where the code takes the time first and then fetches one after the other
  (`calendar/poller.go:67-80`). `NotesScan` reads a note in one step, so a note
  half written while it is read does not occur.
* Spend: an `omp stats` by hand that breaks off half way, after which the date
  of the numbers is ahead of a part of them.
* The list of Slack's conversations cut at its number of pages: `SlackInbox`
  has it (`ListRead`), its run reads the whole list and its theorem assumes so
  (`ListIsRead`), because a cut there is not said (see the hazard in
  `PROJECT.json`).

## 6. Plan

1. Composition: the store's writers with log and notifier, so that what is
   announced is also logged; an abstract board that `ItemStore` implements.
2. Slack's wait after a rate limit, with liveness.
3. Proofs: the weakest condition under which a start goes right after several
   goroutines have written to the log.
