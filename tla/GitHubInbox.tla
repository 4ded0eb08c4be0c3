----------------------------- MODULE GitHubInbox ----------------------------
(***************************************************************************)
(* The polls of the GitHub adapter: Inbox (src/internal/github/github.go)  *)
(* runs three searches one after the other, each page by page, and         *)
(* Normalize (pulls.go) makes one list of what they found.  Nothing stops  *)
(* the pull requests from moving from one search to another meanwhile.     *)
(***************************************************************************)
EXTENDS Naturals, FiniteSetsExt, SequencesExt

CONSTANTS
    Pulls,      \* pull requests: numbers, in the order a search lists them
    PageSize,   \* the largest page a search answers with
    Limit,      \* github.limit: the most pull requests a search is read for
    MaxMoves    \* bound: how often GitHub changes

Assumptions ==
    /\ Pulls \subseteq Nat /\ IsFiniteSet(Pulls)
    /\ PageSize \in Nat \ {0} /\ Limit \in Nat \ {0} /\ MaxMoves \in Nat

\* Variant of Searches: what you reviewed is asked for before what you are to
\* review.
SearchesReviewedFirst == <<"author", "reviewed", "reviewer">>

\* Why a pull request is yours, in the order Inbox searches for it.  A review
\* request is gone once you review; a review you gave stays.
Searches == <<"author", "reviewer", "reviewed">>

\* The role of a pull request that more than one search found: the first.
Precedence == <<"reviewer", "author", "reviewed">>

Roles == Range(Searches)

VARIABLES
    yours,      \* yours[p]: the searches that would find p; none once closed
    moves,      \* how often GitHub has changed
    reading,    \* the search being read, 0 between polls
    given,      \* how many results that search has given
    found,      \* found[r]: the pull requests read for r in this poll
    more,       \* more[r]: the search for r had results past the last one read
    inbox,      \* what the store holds: pull requests with their role
    truncated,  \* what the status warns of: the last inbox is not all there is
    throughout, \* the pull requests that were yours all through this poll
    slid        \* a search's results changed between two pages of it

github == <<yours, moves>>
ghost == <<throughout, slid>>
vars == <<yours, moves, reading, given, found, more, inbox, truncated, throughout, slid>>

TypeOK ==
    /\ yours \in [Pulls -> SUBSET Roles]
    /\ moves \in 0 .. MaxMoves
    /\ reading \in 0 .. Len(Searches)
    /\ given \in 0 .. Limit
    /\ found \in [Roles -> SUBSET Pulls]
    /\ more \in [Roles -> BOOLEAN]
    /\ inbox \subseteq [pull : Pulls, role : Roles]
    /\ truncated \in BOOLEAN
    /\ throughout \subseteq Pulls
    /\ slid \in BOOLEAN

Init ==
    /\ yours \in [Pulls -> {{}, {"author"}, {"reviewer"}, {"author", "reviewed"}}]
    /\ moves = 0
    /\ reading = 0 /\ given = 0
    /\ found = [r \in Roles |-> {}]
    /\ more = [r \in Roles |-> FALSE]
    /\ inbox = {}
    /\ truncated = FALSE
    /\ throughout = {}
    /\ slid = FALSE

-----------------------------------------------------------------------------
(* GitHub                                                                  *)

\* What a search finds, and at which place it lists a result.
Results(r) == {p \in Pulls : r \in yours[p]}
Place(p, r) == Cardinality({q \in Results(r) : q <= p})

\* The search being read has given a page and is asked for another.
BetweenPages(r) == reading > 0 /\ Searches[reading] = r /\ given > 0

Becomes(p, roles) ==
    /\ moves < MaxMoves
    /\ moves' = moves + 1
    /\ yours' = [yours EXCEPT ![p] = roles]
    /\ throughout' = throughout \ {q \in {p} : roles = {}}
    /\ slid' = (slid \/ \E r \in Roles :
                            BetweenPages(r) /\ (r \in yours[p] <=> r \notin roles))
    /\ UNCHANGED <<reading, given, found, more, inbox, truncated>>

\* You are asked for a review, again perhaps.
Ask(p) ==
    /\ "author" \notin yours[p] /\ "reviewer" \notin yours[p]
    /\ Becomes(p, yours[p] \union {"reviewer"})

\* You give the review, which takes the request away.
Review(p) ==
    /\ "reviewer" \in yours[p]
    /\ Becomes(p, (yours[p] \ {"reviewer"}) \union {"reviewed"})

\* The request is taken back.
Unask(p) == "reviewer" \in yours[p] /\ Becomes(p, yours[p] \ {"reviewer"})

\* It is merged or closed.
Close(p) == yours[p] # {} /\ Becomes(p, {})

-----------------------------------------------------------------------------
(* A poll                                                                  *)

Begin ==
    /\ reading = 0
    /\ reading' = 1 /\ given' = 0
    /\ found' = [r \in Roles |-> {}]
    /\ more' = [r \in Roles |-> FALSE]
    /\ throughout' = {p \in Pulls : yours[p] # {}}
    /\ slid' = FALSE
    /\ UNCHANGED <<github, inbox, truncated>>

Inbox(read) ==
    LET RoleOf(p) == Precedence[Min({i \in 1 .. Len(Precedence) :
                                        p \in read[Precedence[i]]})]
    IN  {[pull |-> p, role |-> RoleOf(p)] :
            p \in UNION {read[r] : r \in Roles}}

\* The last search has been read: the list is made and the store replaced.
Store(read, rest) ==
    /\ inbox' = Inbox(read)
    /\ truncated' = \E r \in Roles : rest[r]
    /\ reading' = 0

\* A search is read until its results run out or the limit is met; then the
\* next one is.  The cursor stands for the number of results already given.
MoreThan(r, n) == Cardinality(Results(r)) > n

Page ==
    /\ reading # 0
    /\ LET r == Searches[reading]
           upTo == given + Min({Limit - given, PageSize})
           last == ~MoreThan(r, upTo) \/ upTo = Limit
       IN  /\ found' = [found EXCEPT ![r] = @ \union
                          {p \in Results(r) : given < Place(p, r) /\ Place(p, r) <= upTo}]
           /\ more' = [more EXCEPT ![r] = MoreThan(r, upTo)]
           /\ given' = IF last THEN 0 ELSE upTo
           /\ \/ ~last /\ UNCHANGED <<reading, inbox, truncated>>
              \/ last /\ reading < Len(Searches)
                 /\ reading' = reading + 1
                 /\ UNCHANGED <<inbox, truncated>>
              \/ last /\ reading = Len(Searches) /\ Store(found', more')
    /\ UNCHANGED <<github, ghost>>

\* A request fails, or answers with errors: what was read is dropped.
Fail ==
    /\ reading # 0
    /\ reading' = 0 /\ given' = 0
    /\ UNCHANGED <<github, found, more, inbox, truncated, ghost>>

Next ==
    \/ Begin \/ Page \/ Fail
    \/ \E p \in Pulls : Ask(p) \/ Review(p) \/ Unask(p) \/ Close(p)

Spec == Init /\ [][Next]_vars

-----------------------------------------------------------------------------
(* Properties                                                              *)

\* Inbox, github.go:336-340: a pull request that was yours for one reason or
\* another all through a poll is in its inbox, even when the reason changed
\* while the searches were read, unless the inbox says there is more.  (When
\* a search's results change between two pages of it, nothing is promised.)
NothingFallsBetweenSearches ==
    [][(Page /\ reading' = 0 /\ ~truncated' /\ ~slid)
        => throughout \subseteq {i.pull : i \in inbox'}]_vars
=============================================================================
