----------------------------- MODULE SlackInbox -----------------------------
(***************************************************************************)
(* The polls of the Slack adapter: Client.Snapshot (src/internal/slack/    *)
(* slack.go) asks who the token belongs to, searches your mentions and your*)
(* own messages, lists your direct conversations and reads the newest      *)
(* messages of each; Normalize (items.go) keeps what you have not          *)
(* answered.  People go on posting while it reads.                         *)
(***************************************************************************)
EXTENDS Naturals, FiniteSets, SequencesExt

CONSTANTS
    Channels,         \* conversations that are not direct messages
    Directs,          \* direct conversations, in the order Slack lists them
    Closable,         \* the direct conversations Slack may have marked closed
    Lookback,         \* slack.lookback, in messages: time is counted in them
    SearchCount,      \* results on a page of a search
    SearchMaxPages,   \* pages read of one search
    ListRead,         \* conversations read of the list: maxListPages of
                      \* listPageLimit each
    MaxConversations, \* slack.max_conversations
    HistoryLimit,     \* messages read of one conversation
    MaxPosts          \* bound: messages anyone posts

Places == Channels \union Range(Directs)

Assumptions ==
    /\ Directs \in Seq(Range(Directs))
    /\ \A i, j \in DOMAIN Directs : Directs[i] = Directs[j] => i = j
    /\ Channels \intersect Range(Directs) = {} /\ Closable \subseteq Range(Directs)
    /\ {Lookback, SearchCount, SearchMaxPages, MaxConversations, HistoryLimit}
            \subseteq Nat \ {0}
    /\ ListRead \in Nat /\ MaxPosts \in Nat

\* The list of conversations, which is cut without a word (slack.go:359), is no
\* longer than what is read of it.
ListIsRead == Len(Directs) <= ListRead

VARIABLES
    shut,       \* the direct conversations that are closed
    posts,      \* what was posted, oldest first; a timestamp is a place in it
    known,      \* auth.test has answered once
    stage,      \* what Snapshot reads next
    page,       \* the page of the search being read
    cutoff,     \* the oldest timestamp inside the lookback of this poll
    mentions,   \* timestamps of mentions read
    mine,       \* timestamps of your own messages read
    toRead,     \* the places in Directs of those whose history is still to be read
    histories,  \* history[d]: timestamps read of conversation d
    warnings,   \* what this poll knows to be missing
    waiting,    \* the items of the last poll that succeeded
    warned,     \* what its status says is missing
    begun,      \* ghost: how many messages there were when the poll began
    waited      \* ghost: the messages that waited for you during this poll

slack == <<shut, posts>>
snapshot == <<page, cutoff, mentions, mine, toRead, histories, warnings>>
vars == <<shut, posts, known, stage, page, cutoff, mentions, mine, toRead, histories,
          warnings, waiting, warned, begun, waited>>

Stages == {"idle", "auth", "mentions", "mine", "list", "history", "names"}
Times == 1 .. MaxPosts
Warnings == {"mentions", "mine", "conversations"}

TypeOK ==
    /\ shut \subseteq Closable
    /\ posts \in Seq([place : Places, mine : BOOLEAN, mention : BOOLEAN, reply : BOOLEAN])
    /\ known \in BOOLEAN /\ stage \in Stages /\ page \in 1 .. SearchMaxPages
    /\ cutoff \in 0 .. MaxPosts + 1 /\ begun \in 0 .. MaxPosts
    /\ mentions \subseteq Times /\ mine \subseteq Times
    /\ toRead \subseteq DOMAIN Directs
    /\ DOMAIN histories \subseteq Range(Directs)
    /\ \A d \in DOMAIN histories : histories[d] \subseteq Times
    /\ warnings \subseteq Warnings /\ warned \subseteq Warnings
    /\ waiting \subseteq [ts : Times, kind : {"dm", "mention"}]
    /\ waited \subseteq Times

Nothing == [d \in {} |-> {}]

Init ==
    /\ shut \in SUBSET Closable
    /\ posts = <<>> /\ known = FALSE /\ stage = "idle" /\ page = 1
    /\ cutoff = 0 /\ mentions = {} /\ mine = {} /\ toRead = {}
    /\ histories = Nothing /\ warnings = {} /\ waiting = {} /\ warned = {}
    /\ begun = 0 /\ waited = {}

-----------------------------------------------------------------------------
(* Slack                                                                   *)

Fresh == IF Len(posts) < Lookback THEN 1 ELSE Len(posts) - Lookback + 1

\* What waits for you: a mention or a direct message that is inside the
\* lookback of the poll and after which you said nothing in its conversation.
\* What you say in a thread of an open direct conversation is no answer: nobody
\* reads it there.
Open == Range(Directs) \ shut

Answers(said, u, t) ==
    /\ said[u].mine /\ said[u].place = said[t].place
    /\ said[u].place \in Open => ~said[u].reply

WaitsIn(said, t) ==
    /\ ~said[t].mine
    /\ said[t].mention \/ said[t].place \in Open
    /\ \A u \in t + 1 .. Len(said) : ~Answers(said, u, t)

Waits(t) == WaitsIn(posts, t)

\* A message of the conversation itself, or a reply in a thread of one, which a
\* search finds and a history does not have.  Only direct conversations have
\* histories read, so only their threads are told apart; a reply that is also
\* sent to the conversation is a message of it.
Post(place, byYou, mention, reply) ==
    /\ Len(posts) < MaxPosts
    /\ reply => \E t \in DOMAIN posts : posts[t].place = place /\ ~posts[t].reply
    /\ posts' = Append(posts, [place |-> place, mine |-> byYou, mention |-> mention,
                               reply |-> reply])
    /\ waited' = IF stage = "idle" THEN waited
                 ELSE waited \union {t \in {Len(posts')} : WaitsIn(posts', t)}
    /\ UNCHANGED <<shut, snapshot, known, stage, waiting, warned, begun>>

-----------------------------------------------------------------------------
(* Snapshot                                                                *)

Begin ==
    /\ stage = "idle"
    /\ stage' = IF known THEN "mentions" ELSE "auth"
    /\ cutoff' = Fresh
    /\ begun' = Len(posts) /\ waited' = {t \in DOMAIN posts : Waits(t)}
    /\ UNCHANGED <<slack, known, page, mentions, mine, toRead, histories, warnings,
                   waiting, warned>>

\* Snapshot returns: what it read is gone.
Return ==
    /\ stage' = "idle"
    /\ page' = 1 /\ cutoff' = 0 /\ mentions' = {} /\ mine' = {} /\ toRead' = {}
    /\ histories' = Nothing /\ warnings' = {} /\ begun' = 0 /\ waited' = {}

AuthTest ==
    /\ stage = "auth"
    /\ stage' = "mentions" /\ known' = TRUE
    /\ UNCHANGED <<slack, snapshot, waiting, warned, begun, waited>>

\* Search results, newest first, and one page of them.  A message posted
\* between two pages moves every result one place on.
Place(times, t) == Cardinality({u \in times : u >= t})
Found(times, n) ==
    {t \in times : /\ (n - 1) * SearchCount < Place(times, t)
                   /\ Place(times, t) <= n * SearchCount}

\* A search ends with its last page, with a result before all that is wanted,
\* or at the bound, which is the one end that leaves results behind.
Exhausted(times, n, wanted) ==
    n * SearchCount < Cardinality(times) =>
        \E t \in Found(times, n) : \A w \in wanted : t < w

Mentioning == {t \in DOMAIN posts : posts[t].mention}
Own == {t \in DOMAIN posts : posts[t].mine}

\* What of the mentions read may wait for you: your own messages matter only
\* back to the oldest of them.
OpenMentions(read) == {t \in read : t >= cutoff /\ ~posts[t].mine}

SearchMentions ==
    /\ stage = "mentions"
    /\ mentions' = mentions \union Found(Mentioning, page)
    /\ LET ended == Exhausted(Mentioning, page, {cutoff})
       IN  \/ /\ ~ended /\ page < SearchMaxPages
              /\ page' = page + 1
              /\ UNCHANGED <<stage, warnings>>
           \/ /\ ended \/ page = SearchMaxPages
              /\ page' = 1
              /\ stage' = IF OpenMentions(mentions') = {} THEN "list" ELSE "mine"
              /\ warnings' = warnings \union {w \in {"mentions"} : ~ended}
    /\ UNCHANGED <<slack, known, cutoff, mine, toRead, histories, waiting, warned,
                   begun, waited>>

SearchMine ==
    /\ stage = "mine"
    /\ mine' = mine \union Found(Own, page)
    /\ LET ended == Exhausted(Own, page, OpenMentions(mentions))
       IN  \/ /\ ~ended /\ page < SearchMaxPages
              /\ page' = page + 1
              /\ UNCHANGED <<stage, warnings>>
           \/ /\ ended \/ page = SearchMaxPages
              /\ page' = 1
              /\ stage' = "list"
              /\ warnings' = warnings \union {w \in {"mine"} : ~ended}
    /\ UNCHANGED <<slack, known, cutoff, mentions, toRead, histories, waiting, warned,
                   begun, waited>>

\* The list is read up to a number of pages; closed conversations are passed
\* over, and the rest is cut at the configured number, which is said.
List ==
    /\ stage = "list"
    /\ LET open == {i \in DOMAIN Directs : i <= ListRead /\ Directs[i] \in Open}
       IN  /\ toRead' = {i \in open :
                            Cardinality({j \in open : j <= i}) <= MaxConversations}
           /\ warnings' = warnings \union {w \in {"conversations"} :
                                           Cardinality(open) > MaxConversations}
    /\ stage' = IF toRead' = {} THEN "names" ELSE "history"
    /\ UNCHANGED <<slack, known, page, cutoff, mentions, mine, histories, waiting,
                   warned, begun, waited>>

\* Variant of History: what is said in its threads as well.
HistoryAndThreads(d) == {t \in DOMAIN posts : t >= cutoff /\ posts[t].place = d}

\* What conversations.history has: the messages of the conversation inside the
\* lookback, and none of what is said in its threads.
History(d) ==
    {t \in DOMAIN posts : t >= cutoff /\ posts[t].place = d /\ ~posts[t].reply}

\* The newest messages of one conversation inside the lookback.
ReadHistory ==
    /\ stage = "history"
    /\ \E i \in toRead :
          /\ \A j \in toRead : i <= j
          /\ toRead' = toRead \ {i}
          /\ LET d == Directs[i]
                 inside == History(d)
             IN  histories' = [e \in DOMAIN histories \union {d} |->
                                 IF e # d THEN histories[e]
                                 ELSE {t \in inside :
                                         Cardinality({u \in inside : u > t})
                                            < HistoryLimit}]
    /\ stage' = IF toRead' = {} THEN "names" ELSE "history"
    /\ UNCHANGED <<slack, known, page, cutoff, mentions, mine, warnings, waiting,
                   warned, begun, waited>>

\* Any call fails or is rate limited; a name that cannot be looked up fails the
\* poll only by rate limit.  The store keeps what it has.
Fail ==
    /\ stage # "idle"
    /\ Return
    /\ UNCHANGED <<slack, known, waiting, warned>>

-----------------------------------------------------------------------------
(* Normalize                                                               *)

\* The messages of a conversation after the last one of yours.
Unanswered(read) ==
    {t \in read : ~posts[t].mine /\ \A u \in read : posts[u].mine => u < t}

Direct(t) == posts[t].place \in Range(Directs)

\* Variant of Decided: every direct conversation is.
DecidedIfListed(t) == Direct(t)

\* A conversation whose history was read is decided by it.
Decided(t) == Direct(t) /\ posts[t].place \in DOMAIN histories

Answered(t) == \E u \in mine : u > t /\ posts[u].place = posts[t].place

Items ==
    {[ts |-> t, kind |-> "dm"] :
        t \in UNION {Unanswered(histories[d]) : d \in DOMAIN histories}}
    \union
    {[ts |-> t, kind |-> IF Direct(t) THEN "dm" ELSE "mention"] :
        t \in {u \in OpenMentions(mentions) : ~Answered(u) /\ ~Decided(u)}}

\* The names are known, and the store is replaced.
Store ==
    /\ stage = "names"
    /\ waiting' = Items
    /\ warned' = warnings
    /\ Return
    /\ UNCHANGED <<slack, known>>

Next ==
    \/ Begin \/ AuthTest \/ SearchMentions \/ SearchMine \/ List \/ ReadHistory
    \/ Fail \/ Store
    \/ \E place \in Places : \/ Post(place, TRUE, FALSE, FALSE)
                             \/ Post(place, FALSE, TRUE, FALSE)
                             \/ place \in Open /\ Post(place, FALSE, FALSE, FALSE)
                             \/ place \in Range(Directs) /\ Post(place, TRUE, FALSE, TRUE)
                             \/ place \in Range(Directs) /\ Post(place, FALSE, TRUE, TRUE)

Spec == Init /\ [][Next]_vars

-----------------------------------------------------------------------------
(* Properties                                                              *)

\* What of the direct conversations a poll can see: a history has only so many
\* messages (historyLimit, slack.go:38-40) and no replies in threads, so that
\* not even a mention in one is seen.  The README says both (549-563).
InReach(t) ==
    \/ posts[t].place \in Channels \union shut
    \/ /\ ~posts[t].reply
       /\ Cardinality({u \in t + 1 .. Len(posts) :
                          posts[u].place = posts[t].place /\ ~posts[u].reply}) < HistoryLimit

\* Snapshot and Normalize, slack.go:176-222 and items.go:39-107, however many
\* messages arrive while they are read: what was there when a poll began, can be
\* seen and still waits for you at its end is on the board, unless the status
\* says what is missing; and nothing is on the board that was answered before
\* the poll began, unless it says that your own messages were not all read.
BoardIsWhatWaits ==
    [][Store =>
        LET shown == {i.ts : i \in waiting'}
            due == {t \in cutoff .. begun : Waits(t) /\ InReach(t)}
        IN  /\ warned' = {} => due \subseteq shown
            /\ "mine" \notin warned' => shown \subseteq waited]_vars
=============================================================================
