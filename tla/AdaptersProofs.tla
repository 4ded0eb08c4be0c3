--------------------------- MODULE AdaptersProofs ---------------------------
(***************************************************************************)
(* That the adapters' items are what their backends hold stands for any    *)
(* sizes, and as long as they run.  The adapters share nothing, so that    *)
(* each is proved about alone, in its instance.                            *)
(***************************************************************************)
EXTENDS AdapterItems, Integers, Sequences, FiniteSetTheorems, NaturalsInduction,
        WellFoundedInduction, TLAPS



-----------------------------------------------------------------------------
(***************************************************************************)
(* GitHub.  A search lists by place, so that what it has given is what has *)
(* a place up to there, as long as nothing moves in or out of it between   *)
(* its pages.  A pull request that is yours all through a poll may move    *)
(* from one search to a later one, but never back past the one being read. *)
(***************************************************************************)

(* The library's facts count the sets of this adapter.                     *)
LEMMA GitHubCounts == ASSUME NEW S PROVE GitHub!Cardinality(S) = Cardinality(S)
BY DEF GitHub!Cardinality, Cardinality

(* ... and tell that they are finite.                                      *)
LEMMA GitHubFinite == ASSUME NEW S PROVE GitHub!IsFiniteSet(S) = IsFiniteSet(S)
BY DEF GitHub!IsFiniteSet, IsFiniteSet

(* The smaller of two numbers is one of them.                              *)
LEMMA GitHubMinOfTwo ==
    ASSUME NEW a \in Nat, NEW b \in Nat
    PROVE  GitHub!Min({a, b}) \in {a, b} /\ GitHub!Min({a, b}) <= a /\ GitHub!Min({a, b}) <= b
<1>1. \E x \in {a, b} : \A y \in {a, b} : x <= y
  <2>1. CASE a <= b
    BY <2>1
  <2>2. CASE b <= a
    BY <2>2
  <2> QED
    BY <2>1, <2>2
<1> QED
  BY <1>1 DEF GitHub!Min

(* Three searches and three roles, each with its place in the precedence.  *)
LEMMA TheRoles ==
    /\ GitHub!Roles = {"author", "reviewer", "reviewed"} /\ Len(GitHub!Searches) = 3
    /\ GitHub!Searches[1] = "author" /\ GitHub!Searches[2] = "reviewer" /\
         GitHub!Searches[3] = "reviewed"
    /\ Len(GitHub!Precedence) = 3 /\ \A i \in 1 .. 3 : GitHub!Precedence[i] \in GitHub!Roles
    /\ \A r \in GitHub!Roles : \E i \in 1 .. 3 : GitHub!Precedence[i] = r
<1>1. DOMAIN GitHub!Searches = {1, 2, 3} /\ Len(GitHub!Searches) = 3
  BY DEF GitHub!Searches
<1>2. GitHub!Searches[1] = "author" /\ GitHub!Searches[2] = "reviewer" /\
        GitHub!Searches[3] = "reviewed"
  BY DEF GitHub!Searches
<1>3. GitHub!Roles = {"author", "reviewer", "reviewed"}
  BY <1>1, <1>2 DEF GitHub!Roles, GitHub!Range
<1>4. /\ Len(GitHub!Precedence) = 3
      /\ GitHub!Precedence[1] = "reviewer" /\ GitHub!Precedence[2] = "author" /\
           GitHub!Precedence[3] = "reviewed"
  BY DEF GitHub!Precedence
<1> QED
  BY <1>1, <1>2, <1>3, <1>4

(* A result has a place, which is one of as many as there are results.     *)
LEMMA PlaceFits ==
    ASSUME GitHub!Assumptions, NEW S \in SUBSET PullNumbers, NEW p \in S
    PROVE  /\ GitHub!Cardinality(S) \in Nat
           /\ GitHub!Cardinality({q \in S : q <= p}) \in Nat \ {0}
           /\ GitHub!Cardinality({q \in S : q <= p}) <= GitHub!Cardinality(S)
<1> DEFINE before == {q \in S : q <= p}
<1>1. GitHub!IsFiniteSet(S) /\ p \in Nat
  BY GitHubCounts, GitHubFinite, FS_Subset DEF GitHub!Assumptions
<1>2. GitHub!IsFiniteSet(before) /\ GitHub!Cardinality(before) <= GitHub!Cardinality(S)
  BY <1>1, GitHubCounts, GitHubFinite, FS_Subset
<1>3. before # {}
  BY <1>1
<1>4. GitHub!Cardinality(before) \in Nat /\ GitHub!Cardinality(before) # 0 /\
        GitHub!Cardinality(S) \in Nat
  BY <1>1, <1>2, <1>3, GitHubCounts, GitHubFinite, FS_CardinalityType, FS_EmptySet
<1> QED
  BY <1>2, <1>4

TypeInv == GitHub!TypeOK /\ (reading # 0 => given < Limit)

(* As long as nothing of a search changes between its pages, what it has   *)
(* given is what was read.                                                 *)
Reached(r) == \A p \in GitHub!Results(r) : GitHub!Place(p, r) <= given => p \in found[r]

(* What was yours all through the poll was read, if its search is over, or *)
(* is still to come: an author stays one, and who has reviewed has.        *)
ReadOrToCome(p) ==
    /\ reading > 1 /\ ~more["author"] /\ "author" \in yours[p] => p \in found["author"]
    /\ reading > 2 /\ ~more["reviewer"] /\ "author" \notin yours[p]
        => p \in found["reviewer"] \/ "reviewed" \in yours[p]

GitHubPollFits ==
    reading # 0 =>
        /\ \A p \in throughout : yours[p] # {}
        /\ ~slid => Reached(GitHub!Searches[reading]) /\ \A p \in throughout : ReadOrToCome(p)

GitHubInv == TypeInv /\ GitHubPollFits

(* A daemon that has not polled yet.                                       *)
LEMMA GitHubInitFits == ASSUME GitHub!Assumptions, GitHub!Init PROVE GitHubInv
<1>1. yours \in [PullNumbers -> SUBSET GitHub!Roles]
  BY TheRoles DEF GitHub!Init
<1>2. found \in [GitHub!Roles -> SUBSET PullNumbers] /\ more \in [GitHub!Roles -> BOOLEAN]
  BY DEF GitHub!Init
<1>3. given \in 0 .. Limit /\ moves \in 0 .. MaxMoves /\ reading \in 0 .. Len(GitHub!Searches)
  BY TheRoles DEF GitHub!Init, GitHub!Assumptions
<1> QED
  BY <1>1, <1>2, <1>3 DEF GitHub!Init, GitHubInv, TypeInv, GitHub!TypeOK, GitHubPollFits

(* A page: the results up to a place, and then the next of it, of the      *)
(* searches, or the end.                                                   *)
TurnsTo(r, upTo) ==
    /\ r = GitHub!Searches[reading] /\ reading \in 1 .. 3
    /\ given < upTo /\ upTo <= Limit
    /\ found' = [found EXCEPT ![r] = @ \union
              {p \in GitHub!Results(r) : given < GitHub!Place(p, r) /\
                GitHub!Place(p, r) <= upTo}]
    /\ more' = [more EXCEPT ![r] = GitHub!MoreThan(r, upTo)]
    /\ UNCHANGED <<GitHub!github, GitHub!ghost>>
    /\ \/ /\ reading' = reading /\ given' = upTo /\ upTo < Limit
          /\ UNCHANGED <<inbox, truncated>>
       \/ /\ reading < 3 /\ reading' = reading + 1 /\ given' = 0
          /\ UNCHANGED <<inbox, truncated>>
       \/ reading = 3 /\ given' = 0 /\ GitHub!Store(found', more')

(* Page is such a step.                                                    *)
LEMMA PageTurns ==
    ASSUME GitHub!Assumptions, TypeInv, GitHub!Page
    PROVE  \E r \in GitHub!Roles, upTo \in Nat : TurnsTo(r, upTo)
<1> DEFINE r == GitHub!Searches[reading]
           upTo == given + GitHub!Min({Limit - given, GitHubPage})
<1>1. reading \in 1 .. 3 /\ given \in Nat /\ Limit \in Nat /\ given < Limit /\
        GitHubPage \in Nat \ {0}
  BY TheRoles DEF GitHub!Page, TypeInv, GitHub!TypeOK, GitHub!Assumptions
<1>2. upTo \in Nat /\ given < upTo /\ upTo <= Limit
  <2>1. Limit - given \in Nat /\ Limit - given > 0
    BY <1>1
  <2>2. PICK least : least = GitHub!Min({Limit - given, GitHubPage})
    OBVIOUS
  <2>3. least \in {Limit - given, GitHubPage} /\ least <= Limit - given
    BY <1>1, <2>1, <2>2, GitHubMinOfTwo
  <2> QED
    BY <1>1, <2>1, <2>2, <2>3
<1>3. r \in GitHub!Roles
  BY <1>1, TheRoles
<1> HIDE DEF upTo
<1>4. /\ found' = [found EXCEPT ![r] = @ \union
                        {p \in GitHub!Results(r) : given < GitHub!Place(p, r) /\
                          GitHub!Place(p, r) <= upTo}]
      /\ more' = [more EXCEPT ![r] = GitHub!MoreThan(r, upTo)]
      /\ UNCHANGED <<GitHub!github, GitHub!ghost>>
      /\ given' = IF ~GitHub!MoreThan(r, upTo) \/ upTo = Limit THEN 0 ELSE upTo
      /\ \/ /\ ~(~GitHub!MoreThan(r, upTo) \/ upTo = Limit)
            /\ UNCHANGED <<reading, inbox, truncated>>
         \/ /\ ~GitHub!MoreThan(r, upTo) \/ upTo = Limit
            /\ reading < 3 /\ reading' = reading + 1 /\ UNCHANGED <<inbox, truncated>>
         \/ /\ ~GitHub!MoreThan(r, upTo) \/ upTo = Limit
            /\ reading = 3 /\ GitHub!Store(found', more')
  BY TheRoles DEF GitHub!Page, upTo
<1>5. \/ /\ reading' = reading /\ given' = upTo /\ upTo < Limit
         /\ UNCHANGED <<inbox, truncated>>
      \/ /\ reading < 3 /\ reading' = reading + 1 /\ given' = 0
         /\ UNCHANGED <<inbox, truncated>>
      \/ reading = 3 /\ given' = 0 /\ GitHub!Store(found', more')
  BY <1>1, <1>2, <1>4
<1> QED
  BY <1>1, <1>2, <1>3, <1>4, <1>5 DEF TurnsTo

(* Normalize: a pull request has the role of the first search that found it.*)
LEMMA InboxType ==
    ASSUME NEW results \in [GitHub!Roles -> SUBSET PullNumbers]
    PROVE  GitHub!Inbox(results) \subseteq [pull : PullNumbers, role : GitHub!Roles]
<1> DEFINE at(p) == {i \in 1 .. Len(GitHub!Precedence) : p \in results[GitHub!Precedence[i]]}
<1>1. ASSUME NEW p \in UNION {results[r] : r \in GitHub!Roles}
      PROVE  p \in PullNumbers /\ GitHub!Precedence[GitHub!Min(at(p))] \in GitHub!Roles
  <2>1. at(p) # {} /\ at(p) \subseteq 1 .. 3
    BY <1>1, TheRoles
  <2>2. \E i \in at(p) : \A j \in at(p) : i <= j
    <3>1. CASE 1 \in at(p)
      BY <2>1, <3>1
    <3>2. CASE 1 \notin at(p) /\ 2 \in at(p)
      BY <2>1, <3>2
    <3>3. CASE 1 \notin at(p) /\ 2 \notin at(p)
      BY <2>1, <3>3
    <3> QED
      BY <3>1, <3>2, <3>3
  <2> HIDE DEF at
  <2>3. GitHub!Min(at(p)) \in at(p)
    BY <2>2 DEF GitHub!Min
  <2> QED
    BY <1>1, <2>1, <2>3, TheRoles
<1>2. GitHub!Inbox(results) = {[pull |-> p, role |-> GitHub!Precedence[GitHub!Min(at(p))]] :
                               p \in UNION {results[r] : r \in GitHub!Roles}}
  BY DEF GitHub!Inbox
<1> HIDE DEF at
<1> QED
  BY <1>1, <1>2


(* A page, and the inbox made after the last, keep the types.              *)
LEMMA PageTyped == ASSUME GitHub!Assumptions, TypeInv, GitHub!Page PROVE TypeInv'
<1>1. PICK r \in GitHub!Roles, upTo \in Nat : TurnsTo(r, upTo)
  BY PageTurns
<1>2. found' \in [GitHub!Roles -> SUBSET PullNumbers]
  <2>1. {p \in GitHub!Results(r) : given < GitHub!Place(p, r) /\
          GitHub!Place(p, r) <= upTo} \subseteq PullNumbers
    BY DEF GitHub!Results
  <2> QED
    BY <1>1, <2>1 DEF TypeInv, GitHub!TypeOK, TurnsTo
<1>3. more' \in [GitHub!Roles -> BOOLEAN]
  BY <1>1 DEF TypeInv, GitHub!TypeOK, GitHub!MoreThan, TurnsTo
<1>4. inbox' \subseteq [pull : PullNumbers, role : GitHub!Roles] /\ truncated' \in BOOLEAN
  <2>1. CASE UNCHANGED <<inbox, truncated>>
    BY <2>1 DEF TypeInv, GitHub!TypeOK
  <2>2. CASE GitHub!Store(found', more')
    <3>1. PICK results \in [GitHub!Roles -> SUBSET PullNumbers] : results = found'
      BY <1>2
    <3>4. PICK rest : rest = more'
      OBVIOUS
    <3>2. inbox' = GitHub!Inbox(results) /\ truncated' = \E s \in GitHub!Roles : rest[s]
      BY <2>2, <3>1, <3>4 DEF GitHub!Store
    <3>3. (\E s \in GitHub!Roles : rest[s]) \in BOOLEAN
      OBVIOUS
    <3> QED
      BY <3>1, <3>2, <3>3, InboxType
  <2> QED
    BY <1>1, <2>1, <2>2 DEF TurnsTo
<1>5. given \in Nat /\ Limit \in Nat \ {0} /\ reading \in Nat
  BY DEF TypeInv, GitHub!TypeOK, GitHub!Assumptions
<1>6. reading' \in 0 .. 3 /\ given' \in 0 .. Limit /\ (reading' # 0 => given' < Limit)
  <2>1. \/ reading' = reading /\ given' = upTo /\ upTo < Limit
        \/ reading < 3 /\ reading' = reading + 1 /\ given' = 0
        \/ reading' = 0 /\ given' = 0
    BY <1>1 DEF GitHub!Store, TurnsTo
  <2>2. reading \in 1 .. 3 /\ upTo <= Limit
    BY <1>1 DEF TurnsTo
  <2> QED
    BY <1>5, <2>1, <2>2
<1> QED
  BY <1>1, <1>2, <1>3, <1>4, <1>6, TheRoles
  DEF TypeInv, GitHub!TypeOK, TurnsTo, GitHub!github, GitHub!ghost

(* What a page adds, if nothing of the search changed since its first.     *)
LEMMA PageReads ==
    ASSUME GitHub!Assumptions, GitHubInv, NEW r \in GitHub!Roles, NEW upTo \in Nat,
             TurnsTo(r, upTo)
    PROVE  /\ \A s \in GitHub!Roles : found[s] \subseteq found'[s]
           /\ \A s \in GitHub!Roles : s # r => found'[s] = found[s] /\ more'[s] = more[s]
           /\ ~slid => \A p \in GitHub!Results(r) : GitHub!Place(p, r) <= upTo =>
                p \in found'[r]
           /\ ~slid /\ ~more'[r] => GitHub!Results(r) \subseteq found'[r]
<1>1. found \in [GitHub!Roles -> SUBSET PullNumbers] /\
        more \in [GitHub!Roles -> BOOLEAN] /\ given \in Nat
  BY DEF GitHubInv, TypeInv, GitHub!TypeOK
<1>2. /\ found'[r] = found[r] \union
             {p \in GitHub!Results(r) : given < GitHub!Place(p, r) /\
               GitHub!Place(p, r) <= upTo}
      /\ more'[r] = GitHub!MoreThan(r, upTo)
      /\ \A s \in GitHub!Roles : s # r => found'[s] = found[s] /\ more'[s] = more[s]
  BY <1>1 DEF TurnsTo
<1>3. GitHub!Results(r) \in SUBSET PullNumbers
  BY DEF GitHub!Results
<1>4. \A p \in GitHub!Results(r) : GitHub!Place(p, r) \in Nat /\
        GitHub!Place(p, r) <= GitHub!Cardinality(GitHub!Results(r))
  BY <1>3, PlaceFits DEF GitHub!Place
<1>5. ASSUME ~slid, NEW p \in GitHub!Results(r), GitHub!Place(p, r) <= upTo
      PROVE  p \in found'[r]
  <2>1. Reached(r)
    BY <1>5 DEF GitHubInv, GitHubPollFits, TurnsTo
  <2>2. CASE GitHub!Place(p, r) <= given
    BY <1>2, <2>1, <2>2 DEF Reached
  <2>3. CASE ~(GitHub!Place(p, r) <= given)
    BY <1>1, <1>2, <1>4, <1>5, <2>3
  <2> QED
    BY <2>2, <2>3
<1>6. ASSUME ~slid, ~more'[r] PROVE GitHub!Results(r) \subseteq found'[r]
  <2> SUFFICES ASSUME NEW p \in GitHub!Results(r) PROVE p \in found'[r]
    OBVIOUS
  <2>1. GitHub!Cardinality(GitHub!Results(r)) \in Nat /\
          ~(GitHub!Cardinality(GitHub!Results(r)) > upTo)
    BY <1>2, <1>3, <1>6, PlaceFits DEF GitHub!MoreThan
  <2>2. GitHub!Place(p, r) <= upTo
    BY <1>4, <2>1
  <2> QED
    BY <1>5, <1>6, <2>2
<1> QED
  BY <1>2, <1>5, <1>6

(* A page reads on where the last ended, and what is read or to come stays *)
(* so.                                                                     *)
LEMMA GitHubPageFits ==
    ASSUME GitHub!Assumptions, GitHubInv, GitHub!Page
    PROVE  GitHubPollFits'
<1>1. PICK r \in GitHub!Roles, upTo \in Nat : TurnsTo(r, upTo)
  BY PageTurns DEF GitHubInv
<1>2. UNCHANGED <<yours, throughout, slid>> /\ reading \in 1 .. 3 /\
        r = GitHub!Searches[reading]
  BY <1>1 DEF TurnsTo, GitHub!github, GitHub!ghost
<1>3. CASE reading' = 0
  BY <1>3 DEF GitHubPollFits
<1>4. CASE reading' # 0
  <2>1. \/ reading' = reading /\ given' = upTo
        \/ reading < 3 /\ reading' = reading + 1 /\ given' = 0
    BY <1>1, <1>4 DEF TurnsTo, GitHub!Store
  <2>2. \A p \in throughout' : yours'[p] # {}
    BY <1>2 DEF GitHubInv, GitHubPollFits
  <2>3. ASSUME ~slid' PROVE Reached(GitHub!Searches[reading])'
    <3>1. CASE reading' = reading /\ given' = upTo
      <4>1. \A p \in GitHub!Results(r) : GitHub!Place(p, r) <= upTo => p \in found'[r]
        BY <1>1, <1>2, <2>3, PageReads
      <4>2. GitHub!Searches[reading'] = r
        BY <1>2, <3>1
      <4>3. GitHub!Results(r)' = GitHub!Results(r) /\ \A p :
              GitHub!Place(p, r)' = GitHub!Place(p, r)
        BY <1>2 DEF GitHub!Results, GitHub!Place
      <4> QED
        BY <3>1, <4>1, <4>2, <4>3 DEF Reached
    <3>2. CASE given' = 0
      <4>1. PICK s, S : s = GitHub!Searches[reading'] /\ S = GitHub!Results(s)'
        OBVIOUS
      <4>2. S \in SUBSET PullNumbers
        BY <4>1 DEF GitHub!Results
      <4>3. \A p \in S : GitHub!Place(p, s)' \in Nat \ {0}
        BY <4>1, <4>2, PlaceFits DEF GitHub!Place
      <4> QED
        BY <3>2, <4>1, <4>3 DEF Reached
    <3> QED
      BY <2>1, <3>1, <3>2
  <2>4. ASSUME ~slid', NEW p \in throughout' PROVE ReadOrToCome(p)'
    <3>1. ~slid /\ p \in throughout /\ ReadOrToCome(p) /\ yours'[p] = yours[p] /\ yours[p] # {}
      BY <1>2, <2>4 DEF GitHubInv, GitHubPollFits
    <3>2. p \in PullNumbers /\ yours[p] \subseteq GitHub!Roles
      BY <3>1 DEF GitHubInv, TypeInv, GitHub!TypeOK
    <3>3. /\ \A s \in GitHub!Roles : found[s] \subseteq found'[s]
          /\ \A s \in GitHub!Roles : s # r => found'[s] = found[s] /\ more'[s] = more[s]
          /\ ~more'[r] => GitHub!Results(r) \subseteq found'[r]
      BY <1>1, <3>1, PageReads
    <3>4. CASE reading' = reading
      BY <1>2, <3>1, <3>3, <3>4, TheRoles DEF ReadOrToCome
    <3>5. CASE reading = 1 /\ reading' = 2
      <4>1. r = "author"
        BY <1>2, <3>5, TheRoles
      <4>2. p \in GitHub!Results("author") <=> "author" \in yours[p]
        BY <3>2 DEF GitHub!Results
      <4> QED
        BY <3>1, <3>3, <3>5, <4>1, <4>2 DEF ReadOrToCome
    <3>6. CASE reading = 2 /\ reading' = 3
      <4>1. r = "reviewer"
        BY <1>2, <3>6, TheRoles
      <4>2. p \in GitHub!Results("reviewer") <=> "reviewer" \in yours[p]
        BY <3>2 DEF GitHub!Results
      <4>3. "author" \notin yours[p] => "reviewer" \in yours[p] \/ "reviewed" \in yours[p]
        BY <3>1, <3>2, TheRoles
      <4> QED
        BY <3>1, <3>3, <3>6, <4>1, <4>2, <4>3, TheRoles DEF ReadOrToCome
    <3> QED
      BY <1>2, <2>1, <3>4, <3>5, <3>6
  <2> QED
    BY <2>2, <2>3, <2>4 DEF GitHubPollFits
<1> QED
  BY <1>3, <1>4

(* GitHub changes under the poll.                                          *)
LEMMA BecomesFits ==
    ASSUME GitHub!Assumptions, GitHubInv, NEW p \in PullNumbers,
             NEW roles \in SUBSET GitHub!Roles,
           GitHub!Becomes(p, roles),
           roles # {} => ("author" \in roles <=> "author" \in yours[p]),
           roles # {} /\ "reviewed" \in yours[p] => "reviewed" \in roles
    PROVE  GitHubInv'
<1>1. /\ yours' = [yours EXCEPT ![p] = roles]
      /\ throughout' = throughout \ {q \in {p} : roles = {}}
      /\ UNCHANGED <<reading, given, found, more, inbox, truncated>>
  BY DEF GitHub!Becomes
<1>2. TypeInv'
  <2>1. yours' \in [PullNumbers -> SUBSET GitHub!Roles] /\ moves' \in 0 .. MaxMoves /\
          slid' \in BOOLEAN
    BY DEF GitHub!Becomes, GitHubInv, TypeInv, GitHub!TypeOK, GitHub!Assumptions
  <2> QED
    BY <1>1, <2>1 DEF GitHubInv, TypeInv, GitHub!TypeOK
<1>3. yours \in [PullNumbers -> SUBSET GitHub!Roles] /\ throughout \subseteq PullNumbers
  BY DEF GitHubInv, TypeInv, GitHub!TypeOK
<1>4. ASSUME reading # 0 PROVE GitHubPollFits'
  <2>1. ASSUME NEW q \in throughout'
        PROVE  /\ q \in throughout /\ yours'[q] # {}
               /\ "author" \in yours'[q] <=> "author" \in yours[q]
               /\ "reviewed" \in yours[q] => "reviewed" \in yours'[q]
    <3>1. q \in throughout /\ q \in PullNumbers /\ yours[q] # {}
      BY <1>1, <1>3, <1>4 DEF GitHubInv, GitHubPollFits
    <3>2. CASE q = p
      <4>1. roles # {} /\ yours'[q] = roles
        BY <1>1, <1>3, <3>1, <3>2
      <4> QED
        BY <3>1, <3>2, <4>1
    <3>3. CASE q # p
      BY <1>1, <1>3, <3>1, <3>3
    <3> QED
      BY <3>2, <3>3
  <2>2. ASSUME ~slid', NEW q \in throughout' PROVE ReadOrToCome(q)'
    <3>1. ReadOrToCome(q)
      BY <1>4, <2>1, <2>2 DEF GitHubInv, GitHubPollFits, GitHub!Becomes
    <3> QED
      BY <1>1, <2>1, <3>1 DEF ReadOrToCome
  <2>3. ASSUME ~slid' PROVE Reached(GitHub!Searches[reading])'
    <3>1. PICK r, S : r = GitHub!Searches[reading] /\ S = GitHub!Results(r)'
      OBVIOUS
    <3>2. r \in GitHub!Roles /\ ~slid /\ Reached(r)
      BY <1>4, <2>3, <3>1, TheRoles
      DEF GitHubInv, GitHubPollFits, TypeInv, GitHub!TypeOK, GitHub!Becomes
    <3>3. S \in SUBSET PullNumbers
      BY <3>1 DEF GitHub!Results
    <3>4. CASE given = 0
      <4>1. \A q \in S : GitHub!Place(q, r)' \in Nat \ {0}
        BY <3>1, <3>3, PlaceFits DEF GitHub!Place
      <4> QED
        BY <1>1, <3>1, <3>4, <4>1 DEF Reached
    <3>5. CASE given # 0
      <4>1. GitHub!BetweenPages(r)
        BY <1>4, <3>1, <3>5
        DEF GitHub!BetweenPages, GitHubInv, TypeInv, GitHub!TypeOK, GitHub!Assumptions
      <4>2. r \in yours[p] <=> r \in roles
        BY <2>3, <3>2, <4>1 DEF GitHub!Becomes
      <4>3. S = GitHub!Results(r)
        BY <1>1, <1>3, <3>1, <4>2 DEF GitHub!Results
      <4>4. \A q : GitHub!Place(q, r)' = GitHub!Place(q, r)
        BY <3>1, <4>3 DEF GitHub!Place
      <4> QED
        BY <1>1, <3>1, <3>2, <4>3, <4>4 DEF Reached
    <3> QED
      BY <3>4, <3>5
  <2> QED
    BY <1>1, <2>1, <2>2, <2>3 DEF GitHubPollFits
<1>5. ASSUME reading = 0 PROVE GitHubPollFits'
  BY <1>1, <1>5 DEF GitHubPollFits
<1> QED
  BY <1>2, <1>4, <1>5 DEF GitHubInv

(* A poll begins with what is yours now.                                   *)
LEMMA GitHubBeginFits ==
    ASSUME GitHub!Assumptions, GitHubInv, GitHub!Begin
    PROVE  GitHubInv'
<1>1. /\ reading' = 1 /\ given' = 0 /\ slid' = FALSE
      /\ throughout' = {p \in PullNumbers : yours[p] # {}}
      /\ UNCHANGED <<yours, moves, inbox, truncated>>
  BY DEF GitHub!Begin, GitHub!github
<1>2. found' \in [GitHub!Roles -> SUBSET PullNumbers] /\ more' \in [GitHub!Roles -> BOOLEAN]
  BY DEF GitHub!Begin
<1>3. TypeInv'
  <2>1. reading' \in 0 .. Len(GitHub!Searches) /\ given' \in 0 .. Limit /\ given' < Limit
    BY <1>1, TheRoles DEF GitHub!Assumptions
  <2>2. throughout' \subseteq PullNumbers /\ slid' \in BOOLEAN
    BY <1>1
  <2> QED
    BY <1>1, <1>2, <2>1, <2>2 DEF GitHubInv, TypeInv, GitHub!TypeOK
<1>4. Reached(GitHub!Searches[reading])'
  <2>1. PICK r, S : r = GitHub!Searches[reading'] /\ S = GitHub!Results(r)'
    OBVIOUS
  <2>2. S \in SUBSET PullNumbers
    BY <2>1 DEF GitHub!Results
  <2>3. \A p \in S : GitHub!Place(p, r)' \in Nat \ {0}
    BY <2>1, <2>2, PlaceFits DEF GitHub!Place
  <2> QED
    BY <1>1, <2>1, <2>3 DEF Reached
<1>5. \A p \in throughout' : ReadOrToCome(p)' /\ yours'[p] # {}
  BY <1>1 DEF ReadOrToCome
<1> QED
  BY <1>3, <1>4, <1>5 DEF GitHubInv, GitHubPollFits

(* Every step keeps the invariant.                                         *)
LEMMA GitHubNextFits ==
    ASSUME GitHub!Assumptions, GitHubInv, [GitHub!Next]_(GitHub!vars)
    PROVE  GitHubInv'
<1>1. yours \in [PullNumbers -> SUBSET GitHub!Roles]
  BY DEF GitHubInv, TypeInv, GitHub!TypeOK
<1>2. CASE GitHub!Page
  BY <1>2, PageTyped, GitHubPageFits DEF GitHubInv
<1>3. CASE GitHub!Fail
  BY <1>3, TheRoles
  DEF GitHub!Fail, GitHubInv, TypeInv, GitHub!TypeOK, GitHubPollFits, GitHub!github,
      GitHub!ghost, GitHub!Assumptions
<1>4. ASSUME NEW p \in PullNumbers, GitHub!Ask(p) PROVE GitHubInv'
  BY <1>1, <1>4, BecomesFits, TheRoles DEF GitHub!Ask
<1>5. ASSUME NEW p \in PullNumbers, GitHub!Review(p) PROVE GitHubInv'
  BY <1>1, <1>5, BecomesFits, TheRoles DEF GitHub!Review
<1>6. ASSUME NEW p \in PullNumbers, GitHub!Unask(p) PROVE GitHubInv'
  BY <1>1, <1>6, BecomesFits, TheRoles DEF GitHub!Unask
<1>7. ASSUME NEW p \in PullNumbers, GitHub!Close(p) PROVE GitHubInv'
  BY <1>7, BecomesFits DEF GitHub!Close
<1>8. CASE UNCHANGED GitHub!vars
  BY <1>8
  DEF GitHub!vars, GitHubInv, TypeInv, GitHub!TypeOK, GitHubPollFits, Reached,
      GitHub!Results, GitHub!Place, ReadOrToCome
<1> QED
  BY <1>2, <1>3, <1>4, <1>5, <1>6, <1>7, <1>8, GitHubBeginFits DEF GitHub!Next

(* The last page of a poll leaves everything that was yours all through    *)
(* it.                                                                     *)
LEMMA AtEnd ==
    ASSUME GitHub!Assumptions, GitHubInv, GitHub!Page, reading' = 0, ~truncated', ~slid
    PROVE  throughout \subseteq {i.pull : i \in inbox'}
<1>1. PICK r \in GitHub!Roles, upTo \in Nat : TurnsTo(r, upTo)
  BY PageTurns DEF GitHubInv
<1>2. reading = 3 /\ r = "reviewed" /\ GitHub!Store(found', more')
  BY <1>1, TheRoles DEF TurnsTo
<1>3. PICK results, rest : results = found' /\ rest = more'
  OBVIOUS
<1>4. \A s \in GitHub!Roles : ~rest[s]
  BY <1>2, <1>3 DEF GitHub!Store
<1>5. /\ \A s \in GitHub!Roles : found[s] \subseteq results[s]
      /\ \A s \in GitHub!Roles : s # r => more[s] = rest[s]
      /\ GitHub!Results("reviewed") \subseteq results["reviewed"]
  BY <1>1, <1>2, <1>3, <1>4, PageReads
<1>6. ASSUME NEW p \in throughout PROVE \E s \in GitHub!Roles : p \in results[s]
  <2>1. p \in PullNumbers /\ yours[p] \subseteq GitHub!Roles
    BY DEF GitHubInv, TypeInv, GitHub!TypeOK
  <2>2. ReadOrToCome(p)
    BY <1>2 DEF GitHubInv, GitHubPollFits
  <2>3. "reviewed" \in yours[p] => p \in results["reviewed"]
    BY <1>5, <2>1 DEF GitHub!Results
  <2> QED
    BY <1>2, <1>4, <1>5, <2>2, <2>3, TheRoles DEF ReadOrToCome
<1>7. inbox' = GitHub!Inbox(results)
  BY <1>2, <1>3 DEF GitHub!Store
<1>8. \A p \in UNION {results[s] : s \in GitHub!Roles} :
        p \in {i.pull : i \in GitHub!Inbox(results)}
  <2> SUFFICES ASSUME NEW p \in UNION {results[s] : s \in GitHub!Roles}
               PROVE  \E i \in GitHub!Inbox(results) : i.pull = p
    OBVIOUS
  <2>1. PICK role : [pull |-> p, role |-> role] \in GitHub!Inbox(results)
    BY DEF GitHub!Inbox
  <2> QED
    BY <2>1
<1> QED
  BY <1>6, <1>7, <1>8

(* github.go:336-340: a pull request that was yours all through a poll is  *)
(* in its inbox, whichever search would have found it when, unless the     *)
(* inbox says that there is more; for any number of pull requests, pages   *)
(* and moves.                                                              *)
THEOREM NothingFalls ==
    ASSUME GitHub!Assumptions PROVE GitHub!Spec => NothingFallsBetweenSearches
<1>1. GitHub!Init => GitHubInv
  BY GitHubInitFits
<1>2. GitHubInv /\ [GitHub!Next]_(GitHub!vars) => GitHubInv'
  BY GitHubNextFits
<1>3. GitHubInv /\ [GitHub!Next]_(GitHub!vars) =>
        [(GitHub!Page /\ reading' = 0 /\ ~truncated' /\ ~slid)
            => throughout \subseteq {i.pull : i \in inbox'}]_(GitHub!vars)
  BY AtEnd
<1> QED
  BY <1>1, <1>2, <1>3, PTL
  DEF GitHub!Spec, NothingFallsBetweenSearches, GitHub!NothingFallsBetweenSearches

-----------------------------------------------------------------------------
(***************************************************************************)
(* Slack.  What is posted moves the results of a search to later places,   *)
(* and a history holds the newest messages, so that what waited from the   *)
(* beginning has been read once its search or its history has, or is said  *)
(* to be missing.                                                          *)
(***************************************************************************)

(* The library's facts count the sets of this adapter.                     *)
LEMMA SlackCounts == ASSUME NEW S PROVE Slack!Cardinality(S) = Cardinality(S)
BY DEF Slack!Cardinality, Cardinality

(* ... and tell that they are finite.                                      *)
LEMMA SlackFinite == ASSUME NEW S PROVE Slack!IsFiniteSet(S) = IsFiniteSet(S)
BY DEF Slack!IsFiniteSet, IsFiniteSet

(* What would wait for you if you said nothing after it.                   *)
Asks(t) == ~posts[t].mine /\ (posts[t].mention \/ posts[t].place \in Slack!Open)

(* You said something after t in its conversation, until time n.           *)
AnsweredBy(t, n) == \E u \in DOMAIN posts : t < u /\ u <= n /\ Slack!Answers(posts, u, t)

(* A search read up to page k has given what was there when the poll began *)
(* and comes before that page now.                                         *)
Given(times, got, k) ==
    \A t \in times : t <= begun /\ Slack!Place(times, t) <= (k - 1) * SearchCount => t \in got

(* The messages of d after t, and not the replies in its threads.          *)
After(d, t) == {u \in t + 1 .. Len(posts) : posts[u].place = d /\ ~posts[u].reply}

(* A history holds the newest of its conversation, as many as there is     *)
(* room for, among what was there when the poll began.                     *)
Newest(d) ==
    \A t \in DOMAIN posts :
        /\ t \in histories[d] =>
              /\ t >= cutoff /\ posts[t].place = d /\ ~posts[t].reply
              /\ \A u \in DOMAIN posts :
                    t < u /\ u <= begun /\ posts[u].place = d /\ ~posts[u].reply
                       => u \in histories[d]
        /\ /\ cutoff <= t /\ t <= begun /\ posts[t].place = d /\ ~posts[t].reply
           /\ Slack!Cardinality(After(d, t)) < HistoryLimit
           => t \in histories[d]

Posts == [place : Slack!Places, mine : BOOLEAN, mention : BOOLEAN, reply : BOOLEAN]

Typed ==
    /\ shut \subseteq Closable
    /\ posts \in Seq(Posts) /\ Len(posts) <= MaxPosts
    /\ known \in BOOLEAN /\ stage \in Slack!Stages /\ page \in 1 .. SearchMaxPages
    /\ cutoff \in 0 .. MaxPosts + 1 /\ (stage # "idle" => cutoff # 0)
    /\ begun \in 0 .. Len(posts)
    /\ mentions \subseteq Slack!Mentioning /\ mine \subseteq Slack!Own
    /\ toRead \subseteq {i \in DOMAIN Directs : Directs[i] \in Slack!Open}
    /\ DOMAIN histories \subseteq Slack!Open
    /\ \A d \in DOMAIN histories : histories[d] \subseteq DOMAIN posts
    /\ warnings \subseteq Slack!Warnings /\ warned \subseteq Slack!Warnings
    /\ waiting \subseteq [ts : Slack!Times, kind : {"dm", "mention"}]
    /\ waited \subseteq DOMAIN posts

(* What waited at the beginning or has waited since is what asks for you   *)
(* and was not answered by then.                                           *)
WaitedFits ==
    stage # "idle" => \A t \in DOMAIN posts : Asks(t) /\ ~AnsweredBy(t, begun) => t \in waited

(* The two searches, and what they say is missing.                         *)
SearchesFit ==
    /\ stage \in {"idle", "auth"} => page = 1
    /\ stage = "mentions" => Given(Slack!Mentioning, mentions, page)
    /\ stage \in {"mine", "list", "history", "names"} /\ "mentions" \notin warnings =>
          \A t \in Slack!Mentioning : cutoff <= t /\ t <= begun => t \in mentions
    /\ stage = "mine" => Given(Slack!Own, mine, page)
    /\ stage \in {"list", "history", "names"} /\ "mine" \notin warnings =>
          \A m \in Slack!OpenMentions(mentions), t \in Slack!Own : m <= t /\ t <= begun =>
            t \in mine

(* The histories, and which conversations they say are missing.            *)
HistoriesFit ==
    /\ stage = "idle" => histories = Slack!Nothing
    /\ \A d \in DOMAIN histories : Newest(d)
    /\ stage \in {"history", "names"} /\ "conversations" \notin warnings =>
          \A i \in DOMAIN Directs :
              Directs[i] \in Slack!Open => i \in toRead \/ Directs[i] \in DOMAIN histories
    /\ stage = "names" => toRead = {}

SlackInv == Typed /\ WaitedFits /\ SearchesFit /\ HistoriesFit

(* Nothing has been posted and nothing is read.                            *)
LEMMA SlackInitFits == ASSUME Slack!Assumptions, Slack!Init PROVE SlackInv
<1>1. posts = <<>> /\ Len(posts) = 0 /\ posts \in Seq(Posts) /\ DOMAIN posts = {}
  BY DEF Slack!Init
<1>2. 1 \in 1 .. SearchMaxPages /\ 0 \in 0 .. MaxPosts + 1 /\ 0 \in 0 .. Len(posts)
      /\ 0 <= MaxPosts
  BY <1>1 DEF Slack!Assumptions
<1>3. DOMAIN histories = {}
  BY DEF Slack!Init, Slack!Nothing
<1>4. Typed
  BY <1>1, <1>2, <1>3 DEF Slack!Init, Typed, Slack!Stages
<1> QED
  BY <1>3, <1>4 DEF Slack!Init, SlackInv, WaitedFits, SearchesFit, HistoriesFit

(* Counted from the newest, what is older has a later place.               *)
LEMMA SlackPlacesFit ==
    ASSUME NEW n \in Nat, NEW times \in SUBSET (1 .. n)
    PROVE  /\ Slack!IsFiniteSet(times) /\ Slack!Cardinality(times) \in Nat
           /\ \A t : Slack!Place(times, t) \in Nat /\
                Slack!Place(times, t) <= Slack!Cardinality(times)
           /\ \A s \in Nat, t \in Nat : s <= t => Slack!Place(times, t) <= Slack!Place(times, s)
           /\ \A t \in times : Slack!Place(times, t) >= 1
<1>1. Slack!IsFiniteSet(times) /\ Slack!Cardinality(times) \in Nat
  <2>1. 1 \in Int /\ n \in Int
    OBVIOUS
  <2>2. Slack!IsFiniteSet(1 .. n)
    BY <2>1, SlackCounts, SlackFinite, FS_Interval
  <2> QED
    BY <2>2, SlackCounts, SlackFinite, FS_Subset, FS_CardinalityType
<1> DEFINE from(t) == {u \in times : u >= t}
<1>2. ASSUME NEW t
      PROVE  Slack!IsFiniteSet(from(t)) /\ Slack!Cardinality(from(t)) \in Nat
             /\ Slack!Cardinality(from(t)) <= Slack!Cardinality(times)
  BY <1>1, SlackCounts, SlackFinite, FS_Subset, FS_CardinalityType
<1>3. ASSUME NEW s \in Nat, NEW t \in Nat, s <= t
      PROVE  Slack!Cardinality(from(t)) <= Slack!Cardinality(from(s))
  <2>1. \A u \in 1 .. n : u >= t => u >= s
    BY <1>3
  <2>2. from(t) \in SUBSET from(s)
    BY <2>1
  <2> QED
    BY <1>2, <2>2, SlackCounts, SlackFinite, FS_Subset
<1>4. ASSUME NEW t \in times PROVE Slack!Cardinality(from(t)) >= 1
  <2>1. t \in from(t)
    OBVIOUS
  <2>2. Slack!Cardinality(from(t)) # 0
    BY <1>2, <2>1, SlackCounts, SlackFinite, FS_EmptySet
  <2> QED
    BY <1>2, <2>2
<1> QED
  BY <1>1, <1>2, <1>3, <1>4 DEF Slack!Place

(* A page more of a search , and the end of one: nothing wanted is left     *)
(* behind.                                                                 *)
LEMMA PageGives ==
    ASSUME Slack!Assumptions, NEW n \in Nat, NEW times \in SUBSET (1 .. n), NEW got,
           NEW k \in Nat \ {0}, Given(times, got, k)
    PROVE  /\ Given(times, got \union Slack!Found(times, k), k + 1)
           /\ \A wanted \in SUBSET Nat :
                 Slack!Exhausted(times, k, wanted) =>
                     \A w \in wanted, t \in times :
                         w <= t /\ t <= begun => t \in got \union Slack!Found(times, k)
<1>1. SearchCount \in Nat /\ (k - 1) * SearchCount \in Nat /\ k * SearchCount \in Nat
      /\ (k + 1) - 1 = k
  BY DEF Slack!Assumptions
<1>2. ASSUME NEW t \in times, t <= begun, Slack!Place(times, t) <= k * SearchCount
      PROVE  t \in got \union Slack!Found(times, k)
  <2>1. Slack!Place(times, t) \in Nat
    BY SlackPlacesFit
  <2>2. CASE Slack!Place(times, t) <= (k - 1) * SearchCount
    BY <1>2, <2>2 DEF Given
  <2>3. CASE (k - 1) * SearchCount < Slack!Place(times, t)
    BY <1>2, <2>3 DEF Slack!Found
  <2> QED
    BY <1>1, <2>1, <2>2, <2>3
<1>3. Given(times, got \union Slack!Found(times, k), k + 1)
  BY <1>1, <1>2 DEF Given
<1>4. ASSUME NEW wanted \in SUBSET Nat, Slack!Exhausted(times, k, wanted),
             NEW w \in wanted, NEW t \in times, w <= t, t <= begun
      PROVE  t \in got \union Slack!Found(times, k)
  <2>1. Slack!Place(times, t) \in Nat /\ Slack!Place(times, t) <= Slack!Cardinality(times)
        /\ Slack!Cardinality(times) \in Nat
    BY SlackPlacesFit
  <2>2. CASE ~(k * SearchCount < Slack!Cardinality(times))
    <3>1. Slack!Place(times, t) <= k * SearchCount
      BY <1>1, <2>1, <2>2
    <3> QED
      BY <1>2, <1>4, <3>1
  <2>3. CASE k * SearchCount < Slack!Cardinality(times)
    <3>1. PICK s \in Slack!Found(times, k) : \A v \in wanted : s < v
      BY <1>4, <2>3 DEF Slack!Exhausted
    <3>2. s \in times /\ Slack!Place(times, s) <= k * SearchCount
      BY DEF Slack!Found
    <3>3. s \in Nat /\ t \in Nat /\ w \in Nat /\ s < w
      BY <3>1, <3>2, <1>4
    <3>4. s <= t
      BY <3>3, <1>4
    <3>5. Slack!Place(times, t) <= Slack!Place(times, s) /\ Slack!Place(times, s) \in Nat
      BY <3>3, <3>4, SlackPlacesFit
    <3>6. Slack!Place(times, t) <= k * SearchCount
      BY <1>1, <2>1, <3>2, <3>5
    <3> QED
      BY <1>2, <1>4, <3>6
  <2> QED
    BY <2>2, <2>3
<1> QED
  BY <1>3, <1>4

(* What is posted is the newest and changes nothing that was.              *)
Posted(place, byYou, mention, reply) ==
    /\ posts' \in Seq(Posts) /\ Len(posts) \in Nat /\ Len(posts') = Len(posts) + 1
    /\ DOMAIN posts = 1 .. Len(posts) /\ DOMAIN posts' = 1 .. Len(posts')
    /\ \A t \in DOMAIN posts : posts'[t] = posts[t]
    /\ posts'[Len(posts')] = [place |-> place, mine |-> byYou, mention |-> mention,
                              reply |-> reply]

(* Its type.                                                               *)
LEMMA PostAppends ==
    ASSUME Typed, NEW place \in Slack!Places, NEW byYou \in BOOLEAN, NEW mention \in BOOLEAN,
           NEW reply \in BOOLEAN, Slack!Post(place, byYou, mention, reply)
    PROVE  Posted(place, byYou, mention, reply)
<1> DEFINE m == [place |-> place, mine |-> byYou, mention |-> mention, reply |-> reply]
<1>1. m \in Posts
  BY DEF Posts
<1>2. posts \in Seq(Posts) /\ posts' = Append(posts, m)
  BY DEF Typed, Slack!Post
<1> HIDE DEF m
<1>3. /\ posts' \in Seq(Posts) /\ Len(posts) \in Nat /\ Len(posts') = Len(posts) + 1
      /\ DOMAIN posts = 1 .. Len(posts) /\ DOMAIN posts' = 1 .. Len(posts')
      /\ \A t \in 1 .. Len(posts) : posts'[t] = posts[t]
      /\ posts'[Len(posts')] = m
  BY <1>1, <1>2
<1> QED
  BY <1>3 DEF Posted, m

(* Nothing posted while a search is read takes from what it has given.     *)
LEMMA GivenStays ==
    ASSUME Slack!Assumptions, NEW n \in Nat, NEW times \in SUBSET (1 .. n),
           NEW grown \in SUBSET (1 .. n + 1), times \subseteq grown,
           \A t \in grown : t <= n => t \in times, begun <= n, begun \in Nat,
           NEW got, NEW k \in Nat, Given(times, got, k)
    PROVE  Given(grown, got, k)
<1> SUFFICES ASSUME NEW t \in grown, t <= begun, Slack!Place(grown, t) <= (k - 1) * SearchCount
             PROVE  t \in got
  BY DEF Given
<1>1. t \in times
  OBVIOUS
<1>2. n + 1 \in Nat
  OBVIOUS
<1>3. Slack!IsFiniteSet(grown) /\ Slack!Place(grown, t) \in Nat /\ Slack!Place(times, t) \in Nat
  BY <1>2, SlackPlacesFit
<1>4. Slack!Place(times, t) <= Slack!Place(grown, t)
  <2> DEFINE now == {u \in grown : u >= t}
  <2>1. {u \in times : u >= t} \in SUBSET now
    OBVIOUS
  <2>2. Slack!IsFiniteSet(now)
    BY <1>3, SlackCounts, SlackFinite, FS_Subset
  <2>3. Slack!Cardinality({u \in times : u >= t}) <= Slack!Cardinality(now)
    BY <2>1, <2>2, SlackCounts, SlackFinite, FS_Subset
  <2> QED
    BY <2>3 DEF Slack!Place
<1>5. (k - 1) * SearchCount \in Int
  BY DEF Slack!Assumptions
<1>6. Slack!Place(times, t) <= (k - 1) * SearchCount
  BY <1>3, <1>4, <1>5
<1> QED
  BY <1>1, <1>6 DEF Given

(* Someone posts.                                                          *)
LEMMA PostFits ==
    ASSUME Slack!Assumptions, SlackInv, NEW place \in Slack!Places, NEW byYou \in BOOLEAN,
           NEW mention \in BOOLEAN, NEW reply \in BOOLEAN,
             Slack!Post(place, byYou, mention, reply)
    PROVE  SlackInv'
<1> DEFINE n == Len(posts)
<1>1. Posted(place, byYou, mention, reply) /\ n \in Nat
  BY PostAppends DEF SlackInv, Posted
<1>2. /\ UNCHANGED <<shut, known, stage, page, cutoff, mentions, mine, toRead, histories,
                     warnings, waiting, warned, begun>>
      /\ n < MaxPosts
      /\ waited' = IF stage = "idle" THEN waited
                   ELSE waited \union {t \in {Len(posts')} : Slack!WaitsIn(posts', t)}
  BY DEF Slack!Post, Slack!snapshot
<1>3. /\ DOMAIN posts = 1 .. n /\ DOMAIN posts' = 1 .. n + 1 /\ Len(posts') = n + 1
      /\ \A t \in 1 .. n : posts'[t] = posts[t]
      /\ posts' \in Seq(Posts)
  BY <1>1 DEF Posted
<1> HIDE DEF n
<1>4. Typed /\ begun \in 0 .. n /\ page \in Nat /\ Slack!Open' = Slack!Open
  BY <1>2 DEF SlackInv, Typed, Slack!Assumptions, Slack!Open, n
<1>5. /\ Slack!Mentioning \subseteq 1 .. n /\ Slack!Mentioning' \subseteq 1 .. n + 1
      /\ Slack!Mentioning \subseteq Slack!Mentioning' /\ \A t \in Slack!Mentioning' :
           t <= n => t \in Slack!Mentioning
  BY <1>1, <1>3 DEF Slack!Mentioning
<1>6. /\ Slack!Own \subseteq 1 .. n /\ Slack!Own' \subseteq 1 .. n + 1
      /\ Slack!Own \subseteq Slack!Own' /\ \A t \in Slack!Own' : t <= n => t \in Slack!Own
  BY <1>1, <1>3 DEF Slack!Own
<1>7. Typed'
  <2>1. Len(posts') <= MaxPosts /\ begun \in 0 .. Len(posts') /\ 1 .. n \subseteq 1 .. n + 1
    BY <1>1, <1>2, <1>3, <1>4 DEF Slack!Assumptions
  <2>2. waited' \subseteq DOMAIN posts'
    BY <1>1, <1>2, <1>3, <1>4 DEF Typed
  <2>3. mentions' \subseteq Slack!Mentioning' /\ mine' \subseteq Slack!Own'
    BY <1>2, <1>4, <1>5, <1>6 DEF Typed
  <2>4. \A d \in DOMAIN histories : histories[d] \subseteq DOMAIN posts'
    BY <1>3, <1>4, <2>1 DEF Typed
  <2> QED
    BY <1>2, <1>3, <1>4, <2>1, <2>2, <2>3, <2>4 DEF Typed
<1>8. WaitedFits'
  <2> SUFFICES ASSUME stage # "idle", NEW t \in DOMAIN posts', Asks(t)', ~AnsweredBy(t, begun)'
               PROVE  t \in waited'
    BY <1>2 DEF WaitedFits
  <2>1. CASE t \in 1 .. n
    <3>1. posts'[t] = posts[t] /\ Asks(t)
      BY <1>3, <1>4, <2>1 DEF Asks
    <3>2. ~AnsweredBy(t, begun)
      <4> SUFFICES ASSUME NEW u \in 1 .. n, t < u, u <= begun, Slack!Answers(posts, u, t)
                   PROVE  AnsweredBy(t, begun)'
        BY <1>3 DEF AnsweredBy
      <4>1. u \in DOMAIN posts' /\ posts'[u] = posts[u]
        BY <1>1, <1>3
      <4>2. Slack!Answers(posts, u, t)'
        BY <1>4, <3>1, <4>1 DEF Slack!Answers
      <4> QED
        BY <1>2, <4>1, <4>2 DEF AnsweredBy
    <3> QED
      BY <1>2, <1>3, <2>1, <3>1, <3>2 DEF SlackInv, WaitedFits
  <2>2. CASE t = n + 1
    <3>1. Slack!WaitsIn(posts', t)
      <4>1. \A u \in t + 1 .. Len(posts') : FALSE
        BY <1>1, <1>3, <2>2
      <4> QED
        BY <1>4, <4>1 DEF Slack!WaitsIn, Asks
    <3> QED
      BY <1>2, <1>3, <2>2, <3>1
  <2> QED
    BY <1>1, <1>3, <2>1, <2>2
<1>9. SearchesFit'
  <2>1. stage = "mentions" => Given(Slack!Mentioning, mentions, page)'
    <3> SUFFICES ASSUME Given(Slack!Mentioning, mentions, page)
                 PROVE  Given(Slack!Mentioning', mentions, page)
      BY <1>2 DEF SlackInv, SearchesFit, Given, Slack!Place
    <3> QED
      BY <1>1, <1>4, <1>5, GivenStays
  <2>2. stage = "mine" => Given(Slack!Own, mine, page)'
    <3> SUFFICES ASSUME Given(Slack!Own, mine, page) PROVE Given(Slack!Own', mine, page)
      BY <1>2 DEF SlackInv, SearchesFit, Given, Slack!Place
    <3> QED
      BY <1>1, <1>4, <1>6, GivenStays
  <2>3. Slack!OpenMentions(mentions)' = Slack!OpenMentions(mentions)
    <3>1. \A t \in mentions : posts'[t] = posts[t]
      BY <1>3, <1>4, <1>5 DEF Typed
    <3> QED
      BY <1>2, <3>1 DEF Slack!OpenMentions
  <2>4. \A t \in 1 .. n + 1 : t <= begun => t <= n
    BY <1>1, <1>4
  <2>5. ASSUME stage \in {"mine", "list", "history", "names"}, "mentions" \notin warnings,
               NEW t \in Slack!Mentioning', cutoff <= t, t <= begun
        PROVE  t \in mentions
    BY <1>5, <2>4, <2>5 DEF SlackInv, SearchesFit
  <2>6. ASSUME stage \in {"list", "history", "names"}, "mine" \notin warnings,
               NEW m \in Slack!OpenMentions(mentions), NEW t \in Slack!Own', m <= t, t <= begun
        PROVE  t \in mine
    BY <1>6, <2>4, <2>6 DEF SlackInv, SearchesFit
  <2>7. stage \in {"idle", "auth"} => page = 1
    BY DEF SlackInv, SearchesFit
  <2> QED
    BY <1>2, <2>1, <2>2, <2>3, <2>5, <2>6, <2>7 DEF SearchesFit
<1>10. HistoriesFit'
  <2>1. ASSUME NEW d \in DOMAIN histories PROVE Newest(d)'
    <3>0. Newest(d) /\ histories[d] \subseteq 1 .. n
      BY <1>3, <1>4 DEF SlackInv, HistoriesFit, Typed
    <3>1. ASSUME NEW t \in DOMAIN posts', t \in histories[d]
          PROVE  /\ t >= cutoff /\ posts'[t].place = d /\ ~posts'[t].reply
                 /\ \A u \in DOMAIN posts' :
                       t < u /\ u <= begun /\ posts'[u].place = d /\ ~posts'[u].reply
                          => u \in histories[d]
      <4>1. t \in 1 .. n /\ posts'[t] = posts[t]
        BY <1>3, <3>0, <3>1
      <4>2. \A u \in DOMAIN posts' : u <= begun => u \in DOMAIN posts /\ posts'[u] = posts[u]
        BY <1>1, <1>3, <1>4
      <4> QED
        BY <1>3, <3>0, <3>1, <4>1, <4>2 DEF Newest
    <3>2. ASSUME NEW t \in DOMAIN posts', cutoff <= t, t <= begun, posts'[t].place = d,
                 ~posts'[t].reply, Slack!Cardinality(After(d, t)') < HistoryLimit
          PROVE  t \in histories[d]
      <4>1. t \in 1 .. n /\ posts'[t] = posts[t]
        BY <1>1, <1>3, <1>4, <3>2
      <4>2. After(d, t) \in SUBSET After(d, t)' /\ After(d, t)' \in SUBSET (1 .. n + 1)
        <5>1. t + 1 .. n \subseteq 1 .. n /\ t + 1 .. n \subseteq t + 1 .. n + 1
              /\ t + 1 .. n + 1 \subseteq 1 .. n + 1
          BY <1>1, <4>1
        <5>2. After(d, t) = {u \in t + 1 .. n : posts[u].place = d /\ ~posts[u].reply}
          BY DEF After, n
        <5>3. After(d, t)' = {u \in t + 1 .. n + 1 : posts'[u].place = d /\ ~posts'[u].reply}
          BY <1>3 DEF After
        <5> QED
          BY <1>3, <5>1, <5>2, <5>3
      <4>3. Slack!IsFiniteSet(After(d, t)')
        <5>1. 1 \in Int /\ n + 1 \in Int
          BY <1>1
        <5>2. Slack!IsFiniteSet(1 .. n + 1)
          BY <5>1, SlackCounts, SlackFinite, FS_Interval
        <5> QED
          BY <4>2, <5>2, SlackCounts, SlackFinite, FS_Subset
      <4>4. /\ Slack!Cardinality(After(d, t)) <= Slack!Cardinality(After(d, t)')
            /\ Slack!Cardinality(After(d, t)) \in Nat /\ Slack!Cardinality(After(d, t)') \in Nat
        BY <4>2, <4>3, SlackCounts, SlackFinite, FS_Subset, FS_CardinalityType
      <4>5. Slack!Cardinality(After(d, t)) < HistoryLimit
        BY <3>2, <4>4 DEF Slack!Assumptions
      <4> QED
        BY <1>3, <3>0, <3>2, <4>1, <4>5 DEF Newest
    <3> QED
      BY <1>2, <3>1, <3>2 DEF Newest
  <2> QED
    BY <1>2, <1>4, <2>1 DEF SlackInv, HistoriesFit, Slack!Nothing
<1> QED
  BY <1>7, <1>8, <1>9, <1>10 DEF SlackInv

(* Before its first page a search has given nothing.                       *)
LEMMA NothingGiven ==
    ASSUME Slack!Assumptions, NEW n \in Nat, NEW times \in SUBSET (1 .. n)
    PROVE  \A t \in times : ~(Slack!Place(times, t) <= (1 - 1) * SearchCount)
<1> SUFFICES ASSUME NEW t \in times, Slack!Place(times, t) <= (1 - 1) * SearchCount PROVE FALSE
  OBVIOUS
<1>1. Slack!Place(times, t) \in Nat /\ Slack!Place(times, t) >= 1
  BY SlackPlacesFit
<1>2. (1 - 1) * SearchCount = 0
  BY DEF Slack!Assumptions
<1> QED
  BY <1>1, <1>2

(* A poll begins.                                                          *)
LEMMA SlackBeginFits ==
    ASSUME Slack!Assumptions, SlackInv, Slack!Begin
    PROVE  SlackInv'
<1>1. /\ stage = "idle" /\ stage' \in {"mentions", "auth"}
      /\ cutoff' = Slack!Fresh /\ begun' = Len(posts) /\
           waited' = {t \in DOMAIN posts : Slack!Waits(t)}
      /\ UNCHANGED <<shut, posts, known, page, mentions, mine, toRead, histories, warnings,
                     waiting, warned>>
  BY DEF Slack!Begin, Slack!slack
<1>2. /\ Len(posts) \in Nat /\ Len(posts) <= MaxPosts /\ DOMAIN posts = 1 .. Len(posts)
      /\ page = 1 /\ histories = Slack!Nothing /\ MaxPosts \in Nat
      /\ Slack!Mentioning \subseteq 1 .. Len(posts)
  BY <1>1
  DEF SlackInv, Typed, SearchesFit, HistoriesFit, Slack!Assumptions, Slack!Mentioning
<1>3. UNCHANGED <<Slack!Mentioning, Slack!Own, Slack!Open>>
  BY <1>1 DEF Slack!Mentioning, Slack!Own, Slack!Open
<1>4. Slack!Fresh \in 0 .. MaxPosts + 1 /\ Slack!Fresh # 0
  BY <1>2 DEF Slack!Fresh, Slack!Assumptions
<1>5. Typed'
  BY <1>1, <1>2, <1>3, <1>4 DEF SlackInv, Typed, Slack!Stages
<1>6. WaitedFits'
  <2> SUFFICES ASSUME NEW t \in DOMAIN posts, Asks(t)', ~AnsweredBy(t, begun)'
               PROVE  Slack!Waits(t)
    BY <1>1 DEF WaitedFits
  <2>1. \A u \in t + 1 .. Len(posts) : ~Slack!Answers(posts, u, t)
    <3> SUFFICES ASSUME NEW u \in t + 1 .. Len(posts), Slack!Answers(posts, u, t)
                 PROVE  AnsweredBy(t, begun)'
      OBVIOUS
    <3>1. u \in DOMAIN posts /\ t < u /\ u <= Len(posts)
      BY <1>2
    <3>2. Slack!Answers(posts, u, t)'
      BY <1>1, <1>3 DEF Slack!Answers
    <3> QED
      BY <1>1, <3>1, <3>2 DEF AnsweredBy
  <2> QED
    BY <1>1, <1>3, <2>1 DEF Asks, Slack!Waits, Slack!WaitsIn
<1>7. SearchesFit'
  <2>1. UNCHANGED <<Slack!Mentioning, mentions, page>>
    BY <1>1, <1>3
  <2>2. Given(Slack!Mentioning, mentions, page)'
    <3>1. \A t \in Slack!Mentioning :
            ~(Slack!Place(Slack!Mentioning, t) <= (1 - 1) * SearchCount)
      BY <1>2, NothingGiven
    <3> QED
      BY <1>2, <2>1, <3>1 DEF Given, Slack!Place
  <2> QED
    BY <1>1, <1>2, <2>2 DEF SearchesFit
<1>8. HistoriesFit'
  BY <1>1, <1>2 DEF HistoriesFit, Slack!Nothing
<1> QED
  BY <1>5, <1>6, <1>7, <1>8 DEF SlackInv

(* A poll ends, with a list or without.                                    *)
LEMMA ReturnFits ==
    ASSUME Slack!Assumptions, SlackInv, Slack!Return, UNCHANGED <<Slack!slack, known>>,
           warned' \subseteq Slack!Warnings,
             waiting' \subseteq [ts : Slack!Times, kind : {"dm", "mention"}]
    PROVE  SlackInv'
<1>1. /\ stage' = "idle" /\ page' = 1 /\ cutoff' = 0 /\ mentions' = {} /\ mine' = {}
      /\ toRead' = {} /\ histories' = Slack!Nothing /\ warnings' = {} /\ begun' = 0 /\
           waited' = {}
      /\ UNCHANGED <<shut, posts, known>>
  BY DEF Slack!Return, Slack!slack
<1>2. 1 \in 1 .. SearchMaxPages /\ 0 \in 0 .. MaxPosts + 1 /\ 0 \in 0 .. Len(posts)
  BY DEF Slack!Assumptions, SlackInv, Typed
<1>3. DOMAIN histories' = {}
  BY <1>1 DEF Slack!Nothing
<1>4. Typed'
  BY <1>1, <1>2, <1>3 DEF SlackInv, Typed, Slack!Stages
<1> QED
  BY <1>1, <1>3, <1>4 DEF SlackInv, WaitedFits, SearchesFit, HistoriesFit

(* While nothing is posted, a history stays what it is.                    *)
LEMMA HistoriesStay ==
    ASSUME SlackInv, UNCHANGED <<posts, cutoff, begun, histories>>
    PROVE  \A d \in DOMAIN histories : Newest(d)'
<1> SUFFICES ASSUME NEW d \in DOMAIN histories PROVE Newest(d)'
  OBVIOUS
<1>1. Newest(d)
  BY DEF SlackInv, HistoriesFit
<1>2. \A t : After(d, t)' = After(d, t)
  BY DEF After
<1> QED
  BY <1>1, <1>2 DEF Newest

(* The token's owner is asked for.                                         *)
LEMMA AuthTestFits ==
    ASSUME Slack!Assumptions, SlackInv, Slack!AuthTest
    PROVE  SlackInv'
<1>1. /\ stage = "auth" /\ stage' = "mentions" /\ known' = TRUE
      /\ UNCHANGED <<shut, posts, page, cutoff, mentions, mine, toRead, histories, warnings,
                     waiting, warned, begun, waited>>
  BY DEF Slack!AuthTest, Slack!slack, Slack!snapshot
<1>2. /\ Len(posts) \in Nat /\ page = 1 /\ Slack!Mentioning \subseteq 1 .. Len(posts)
  BY <1>1 DEF SlackInv, Typed, SearchesFit, Slack!Mentioning
<1>3. UNCHANGED <<Slack!Mentioning, Slack!Own, Slack!Open>>
  BY <1>1 DEF Slack!Mentioning, Slack!Own, Slack!Open
<1>4. Typed'
  BY <1>1, <1>3 DEF SlackInv, Typed, Slack!Stages
<1>5. WaitedFits'
  BY <1>1, <1>3 DEF SlackInv, WaitedFits, Asks, AnsweredBy, Slack!Answers
<1>6. SearchesFit'
  <2>2. Given(Slack!Mentioning, mentions, page)'
    <3>1. \A t \in Slack!Mentioning :
            ~(Slack!Place(Slack!Mentioning, t) <= (1 - 1) * SearchCount)
      BY <1>2, NothingGiven
    <3> QED
      BY <1>1, <1>2, <1>3, <3>1 DEF Given, Slack!Place
  <2> QED
    BY <1>1, <2>2 DEF SearchesFit
<1>7. HistoriesFit'
  <2>1. \A d \in DOMAIN histories : Newest(d)'
    BY <1>1, HistoriesStay
  <2> QED
    BY <1>1, <2>1 DEF HistoriesFit
<1> QED
  BY <1>4, <1>5, <1>6, <1>7 DEF SlackInv

(* A search reads a page more, or is at its end.                            *)
LEMMA SearchFits ==
    ASSUME Slack!Assumptions, SlackInv, NEW times, NEW n \in Nat, times \subseteq 1 .. n,
             NEW got,
           Given(times, got, page), NEW wanted \in SUBSET Nat
    PROVE  /\ Given(times, got \union Slack!Found(times, page), page + 1)
           /\ Slack!Exhausted(times, page, wanted) =>
                 \A w \in wanted, t \in times :
                     w <= t /\ t <= begun => t \in got \union Slack!Found(times, page)
           /\ Slack!Found(times, page) \subseteq times
<1>1. page \in Nat \ {0}
  BY DEF SlackInv, Typed, Slack!Assumptions
<1>2. times \in SUBSET (1 .. n)
  OBVIOUS
<1> QED
  BY <1>1, <1>2, PageGives DEF Slack!Found

(* Your mentions.                                                          *)
LEMMA SearchMentionsFits ==
    ASSUME Slack!Assumptions, SlackInv, Slack!SearchMentions
    PROVE  SlackInv'
<1> DEFINE ended == Slack!Exhausted(Slack!Mentioning, page, {cutoff})
<1>1. /\ stage = "mentions" /\ mentions' = mentions \union Slack!Found(Slack!Mentioning, page)
      /\ UNCHANGED <<shut, posts, known, cutoff, mine, toRead, histories, waiting, warned,
                     begun, waited>>
  BY DEF Slack!SearchMentions, Slack!slack
<1>2. \/ /\ ~ended /\ page < SearchMaxPages
         /\ page' = page + 1 /\ UNCHANGED <<stage, warnings>>
      \/ /\ ended \/ page = SearchMaxPages
         /\ page' = 1 /\ stage' = IF Slack!OpenMentions(mentions') = {} THEN "list" ELSE "mine"
         /\ warnings' = warnings \union {w \in {"mentions"} : ~ended}
  BY DEF Slack!SearchMentions
<1>3. /\ Len(posts) \in Nat /\ Slack!Mentioning \subseteq 1 .. Len(posts) /\
           Slack!Own \subseteq 1 .. Len(posts)
      /\ page \in 1 .. SearchMaxPages /\ SearchMaxPages \in Nat \ {0}
      /\ cutoff \in Nat /\ Given(Slack!Mentioning, mentions, page) /\ {cutoff} \in SUBSET Nat
  BY <1>1
  DEF SlackInv, Typed, SearchesFit, Slack!Mentioning, Slack!Own, Slack!Assumptions
<1> HIDE DEF ended
<1>4. /\ Given(Slack!Mentioning, mentions', page + 1)
      /\ ended => \A t \in Slack!Mentioning : cutoff <= t /\ t <= begun => t \in mentions'
      /\ Slack!Found(Slack!Mentioning, page) \subseteq Slack!Mentioning
  <2> DEFINE got == mentions \union Slack!Found(Slack!Mentioning, page)
  <2>1. /\ Given(Slack!Mentioning, got, page + 1)
        /\ Slack!Exhausted(Slack!Mentioning, page, {cutoff}) =>
              \A w \in {cutoff}, t \in Slack!Mentioning : w <= t /\ t <= begun => t \in got
        /\ Slack!Found(Slack!Mentioning, page) \subseteq Slack!Mentioning
    BY <1>3, SearchFits
  <2> QED
    BY <1>1, <2>1 DEF ended
<1>5. UNCHANGED <<Slack!Mentioning, Slack!Own, Slack!Open>>
  BY <1>1 DEF Slack!Mentioning, Slack!Own, Slack!Open
<1>6. page' \in 1 .. SearchMaxPages /\ stage' \in Slack!Stages /\
        warnings' \subseteq Slack!Warnings
  <2>1. warnings \subseteq Slack!Warnings
    BY DEF SlackInv, Typed
  <2>2. page < SearchMaxPages => page + 1 \in 1 .. SearchMaxPages
    BY <1>3
  <2>3. CASE page' = page + 1 /\ page < SearchMaxPages /\ UNCHANGED <<stage, warnings>>
    BY <1>1, <2>1, <2>2, <2>3 DEF Slack!Stages
  <2>4. CASE page' = 1 /\ stage' \in {"list", "mine"} /\
               warnings' \subseteq warnings \union {"mentions", "mine"}
    <3>1. 1 \in 1 .. SearchMaxPages
      BY <1>3
    <3> QED
      BY <2>1, <2>4, <3>1 DEF Slack!Stages, Slack!Warnings
  <2> QED
    BY <1>2, <2>3, <2>4
<1>7. Typed'
  BY <1>1, <1>4, <1>5, <1>6 DEF SlackInv, Typed
<1>8. WaitedFits'
  BY <1>1, <1>5 DEF SlackInv, WaitedFits, Asks, AnsweredBy, Slack!Answers
<1>9. SearchesFit'
  <2>1. CASE page' = page + 1 /\ UNCHANGED <<stage, warnings>>
    <3>1. begun' = begun /\ Slack!Mentioning' = Slack!Mentioning /\ page' = page + 1
      BY <1>1, <1>5, <2>1
    <3>2. Given(Slack!Mentioning, mentions, page)'
      BY <1>4, <3>1 DEF Given, Slack!Place
    <3> QED
      BY <1>1, <2>1, <3>2 DEF SearchesFit
  <2>2. CASE /\ page' = 1 /\ stage' = IF Slack!OpenMentions(mentions') = {} THEN "list" ELSE
                  "mine"
             /\ warnings' = warnings \union {w \in {"mentions"} : ~ended}
    <3>1. stage' \in {"list", "mine"} /\ (stage' = "list" => Slack!OpenMentions(mentions') = {})
      BY <2>2
    <3>2. \A t \in Slack!Own : ~(Slack!Place(Slack!Own, t) <= (1 - 1) * SearchCount)
      BY <1>3, NothingGiven
    <3>3. Given(Slack!Own, mine, page)'
      BY <1>1, <1>3, <1>5, <2>2, <3>2 DEF Given, Slack!Place
    <3>4. "mentions" \notin warnings' =>
             \A t \in Slack!Mentioning : cutoff <= t /\ t <= begun => t \in mentions'
      BY <1>4, <2>2
    <3>5. Slack!OpenMentions(mentions)' = Slack!OpenMentions(mentions')
      BY <1>1 DEF Slack!OpenMentions
    <3> QED
      BY <1>1, <1>5, <3>1, <3>3, <3>4, <3>5 DEF SearchesFit
  <2> QED
    BY <1>2, <2>1, <2>2
<1>10. HistoriesFit'
  <2>1. \A d \in DOMAIN histories : Newest(d)'
    BY <1>1, HistoriesStay
  <2> QED
    BY <1>1, <1>2, <2>1 DEF HistoriesFit
<1> QED
  BY <1>7, <1>8, <1>9, <1>10 DEF SlackInv

(* Your own messages.                                                      *)
LEMMA SearchMineFits ==
    ASSUME Slack!Assumptions, SlackInv, Slack!SearchMine
    PROVE  SlackInv'
<1> DEFINE ended == Slack!Exhausted(Slack!Own, page, Slack!OpenMentions(mentions))
<1>1. /\ stage = "mine" /\ mine' = mine \union Slack!Found(Slack!Own, page)
      /\ UNCHANGED <<shut, posts, known, cutoff, mentions, toRead, histories, waiting, warned,
                     begun, waited>>
  BY DEF Slack!SearchMine, Slack!slack
<1>2. \/ /\ ~ended /\ page < SearchMaxPages
         /\ page' = page + 1 /\ UNCHANGED <<stage, warnings>>
      \/ /\ ended \/ page = SearchMaxPages
         /\ page' = 1 /\ stage' = "list"
         /\ warnings' = warnings \union {w \in {"mine"} : ~ended}
  BY DEF Slack!SearchMine
<1>3. /\ Len(posts) \in Nat /\ Slack!Mentioning \subseteq 1 .. Len(posts) /\
           Slack!Own \subseteq 1 .. Len(posts)
      /\ page \in 1 .. SearchMaxPages /\ SearchMaxPages \in Nat \ {0}
      /\ Given(Slack!Own, mine, page) /\ mentions \subseteq Slack!Mentioning
  BY <1>1
  DEF SlackInv, Typed, SearchesFit, Slack!Mentioning, Slack!Own, Slack!Assumptions
<1>4. Slack!OpenMentions(mentions) \in SUBSET Nat
  <2>1. mentions \subseteq Nat
    BY <1>3
  <2> QED
    BY <2>1 DEF Slack!OpenMentions
<1> HIDE DEF ended
<1>5. /\ Given(Slack!Own, mine', page + 1)
      /\ ended => \A m \in Slack!OpenMentions(mentions), t \in Slack!Own :
                     m <= t /\ t <= begun => t \in mine'
      /\ Slack!Found(Slack!Own, page) \subseteq Slack!Own
  <2> DEFINE got == mine \union Slack!Found(Slack!Own, page)
             wanted == Slack!OpenMentions(mentions)
  <2>1. /\ Given(Slack!Own, got, page + 1)
        /\ Slack!Exhausted(Slack!Own, page, wanted) =>
              \A w \in wanted, t \in Slack!Own : w <= t /\ t <= begun => t \in got
        /\ Slack!Found(Slack!Own, page) \subseteq Slack!Own
    BY <1>3, <1>4, SearchFits
  <2> QED
    BY <1>1, <2>1 DEF ended
<1>6. UNCHANGED <<Slack!Mentioning, Slack!Own, Slack!Open, Slack!OpenMentions(mentions)>>
  BY <1>1 DEF Slack!Mentioning, Slack!Own, Slack!Open, Slack!OpenMentions
<1>7. page' \in 1 .. SearchMaxPages /\ stage' \in Slack!Stages /\
        warnings' \subseteq Slack!Warnings
  <2>1. warnings \subseteq Slack!Warnings
    BY DEF SlackInv, Typed
  <2>2. page < SearchMaxPages => page + 1 \in 1 .. SearchMaxPages
    BY <1>3
  <2>3. CASE page' = page + 1 /\ page < SearchMaxPages /\ UNCHANGED <<stage, warnings>>
    BY <1>1, <2>1, <2>2, <2>3 DEF Slack!Stages
  <2>4. CASE page' = 1 /\ stage' \in {"list", "mine"} /\
               warnings' \subseteq warnings \union {"mentions", "mine"}
    <3>1. 1 \in 1 .. SearchMaxPages
      BY <1>3
    <3> QED
      BY <2>1, <2>4, <3>1 DEF Slack!Stages, Slack!Warnings
  <2> QED
    BY <1>2, <2>3, <2>4
<1>8. Typed'
  BY <1>1, <1>5, <1>6, <1>7 DEF SlackInv, Typed
<1>9. WaitedFits'
  BY <1>1, <1>6 DEF SlackInv, WaitedFits, Asks, AnsweredBy, Slack!Answers
<1>10. ASSUME "mentions" \notin warnings', NEW t \in Slack!Mentioning, cutoff <= t, t <= begun
       PROVE  t \in mentions
  BY <1>1, <1>2, <1>10 DEF SlackInv, SearchesFit
<1>11. SearchesFit'
  <2>1. CASE page' = page + 1 /\ UNCHANGED <<stage, warnings>>
    <3>1. begun' = begun /\ Slack!Own' = Slack!Own /\ page' = page + 1
      BY <1>1, <1>6, <2>1
    <3>2. Given(Slack!Own, mine, page)'
      BY <1>5, <3>1 DEF Given, Slack!Place
    <3> QED
      BY <1>1, <1>6, <1>10, <2>1, <3>2 DEF SearchesFit
  <2>2. CASE /\ page' = 1 /\ stage' = "list"
             /\ warnings' = warnings \union {w \in {"mine"} : ~ended}
    <3>1. "mine" \notin warnings' =>
             \A m \in Slack!OpenMentions(mentions), t \in Slack!Own : m <= t /\
               t <= begun => t \in mine'
      BY <1>5, <2>2
    <3> QED
      BY <1>1, <1>6, <1>10, <2>2, <3>1 DEF SearchesFit
  <2> QED
    BY <1>2, <2>1, <2>2
<1>12. HistoriesFit'
  <2>1. \A d \in DOMAIN histories : Newest(d)'
    BY <1>1, HistoriesStay
  <2> QED
    BY <1>1, <1>2, <2>1 DEF HistoriesFit
<1> QED
  BY <1>8, <1>9, <1>11, <1>12 DEF SlackInv

(* The open conversations, all of them unless it says that some are not.   *)
LEMMA ListFits ==
    ASSUME Slack!Assumptions, Slack!ListIsRead, SlackInv, Slack!List
    PROVE  SlackInv'
<1> DEFINE open == {i \in DOMAIN Directs : i <= ListRead /\ Directs[i] \in Slack!Open}
           upTo(i) == {j \in open : j <= i}
<1>1. /\ stage = "list" /\ stage' \in {"names", "history"} /\ (stage' = "names" => toRead' = {})
      /\ toRead' = {i \in open : Slack!Cardinality(upTo(i)) <= MaxConversations}
      /\ warnings' = warnings \union
                       {w \in {"conversations"} : Slack!Cardinality(open) > MaxConversations}
      /\ UNCHANGED <<shut, posts, known, page, cutoff, mentions, mine, histories, waiting,
                     warned, begun, waited>>
  BY DEF Slack!List, Slack!slack
<1>2. /\ DOMAIN Directs = 1 .. Len(Directs) /\ Len(Directs) \in Nat /\ Len(Directs) <= ListRead
      /\ ListRead \in Nat /\ MaxConversations \in Nat
  BY DEF Slack!Assumptions, Slack!ListIsRead
<1>3. Slack!IsFiniteSet(open)
  <2>1. 1 \in Int /\ Len(Directs) \in Int
    BY <1>2
  <2>2. Slack!IsFiniteSet(1 .. Len(Directs))
    BY <2>1, SlackCounts, SlackFinite, FS_Interval
  <2> QED
    BY <1>2, <2>2, SlackCounts, SlackFinite, FS_Subset
<1>4. ASSUME NEW i \in DOMAIN Directs, Directs[i] \in Slack!Open,
               "conversations" \notin warnings'
      PROVE  i \in toRead'
  <2>1. i \in open
    BY <1>2, <1>4
  <2>2. ~(Slack!Cardinality(open) > MaxConversations)
    BY <1>1, <1>4
  <2>3. Slack!Cardinality(upTo(i)) <= Slack!Cardinality(open) /\ Slack!IsFiniteSet(upTo(i))
    BY <1>3, SlackCounts, SlackFinite, FS_Subset
  <2>4. Slack!Cardinality(upTo(i)) \in Nat /\ Slack!Cardinality(open) \in Nat
    BY <1>3, <2>3, SlackCounts, SlackFinite, FS_CardinalityType
  <2>5. Slack!Cardinality(upTo(i)) <= MaxConversations
    BY <1>2, <2>2, <2>3, <2>4
  <2> QED
    BY <1>1, <2>1, <2>5
<1>5. toRead' \subseteq {i \in DOMAIN Directs : Directs[i] \in Slack!Open}
  BY <1>1
<1> HIDE DEF open, upTo
<1>6. UNCHANGED <<Slack!Mentioning, Slack!Own, Slack!Open, Slack!OpenMentions(mentions)>>
  BY <1>1 DEF Slack!Mentioning, Slack!Own, Slack!Open, Slack!OpenMentions
<1>7. warnings' \subseteq Slack!Warnings
  BY <1>1 DEF SlackInv, Typed, Slack!Warnings
<1>8. Typed'
  BY <1>1, <1>5, <1>6, <1>7 DEF SlackInv, Typed, Slack!Stages
<1>9. WaitedFits'
  BY <1>1, <1>6 DEF SlackInv, WaitedFits, Asks, AnsweredBy, Slack!Answers
<1>10. SearchesFit'
  <2>1. ("mentions" \in warnings' <=> "mentions" \in warnings)
        /\ ("mine" \in warnings' <=> "mine" \in warnings)
    BY <1>1
  <2> QED
    BY <1>1, <1>6, <2>1 DEF SlackInv, SearchesFit
<1>11. HistoriesFit'
  <2>1. \A d \in DOMAIN histories : Newest(d)'
    BY <1>1, HistoriesStay
  <2> QED
    BY <1>1, <1>4, <1>6, <2>1 DEF HistoriesFit
<1> QED
  BY <1>8, <1>9, <1>10, <1>11 DEF SlackInv

(* The newest of what is inside the lookback.                              *)
LEMMA NewestRead ==
    ASSUME Slack!Assumptions, Typed, NEW d,
           NEW inside, inside = Slack!History(d),
           histories'[d] = {t \in inside :
             Slack!Cardinality({u \in inside : u > t}) < HistoryLimit},
           UNCHANGED <<posts, cutoff, begun>>
    PROVE  Newest(d)' /\ histories'[d] \subseteq DOMAIN posts
<1> DEFINE later(t) == {u \in inside : u > t}
<1>1. /\ DOMAIN posts = 1 .. Len(posts) /\ Len(posts) \in Nat /\ cutoff \in Nat
      /\ begun \in Nat /\ HistoryLimit \in Nat
  BY DEF Typed, Slack!Assumptions
<1>2. Slack!IsFiniteSet(1 .. Len(posts))
  <2>1. 1 \in Int /\ Len(posts) \in Int
    BY <1>1
  <2> QED
    BY <2>1, SlackCounts, SlackFinite, FS_Interval
<1>3. inside \subseteq 1 .. Len(posts)
  BY <1>1 DEF Slack!History
<1>4. ASSUME NEW t PROVE Slack!IsFiniteSet(later(t)) /\ Slack!Cardinality(later(t)) \in Nat
  BY <1>2, <1>3, SlackCounts, SlackFinite, FS_Subset, FS_CardinalityType
<1>5. ASSUME NEW t \in DOMAIN posts, t \in histories'[d]
      PROVE  /\ t >= cutoff /\ posts[t].place = d /\ ~posts[t].reply
             /\ \A u \in DOMAIN posts :
                   t < u /\ u <= begun /\ posts[u].place = d /\ ~posts[u].reply
                      => u \in histories'[d]
  <2>1. t \in inside /\ Slack!Cardinality(later(t)) < HistoryLimit
    BY <1>5
  <2>2. ASSUME NEW u \in DOMAIN posts, t < u, posts[u].place = d, ~posts[u].reply
        PROVE  u \in histories'[d]
    <3>1. u >= cutoff
      BY <1>1, <2>1, <2>2 DEF Slack!History
    <3>2. u \in inside
      BY <2>2, <3>1 DEF Slack!History
    <3>3. \A v \in 1 .. Len(posts) : v > u => v > t
      BY <1>1, <2>2
    <3>4. later(u) \in SUBSET later(t)
      BY <1>3, <3>3
    <3>5. Slack!Cardinality(later(u)) <= Slack!Cardinality(later(t))
      BY <1>4, <3>4, SlackCounts, SlackFinite, FS_Subset
    <3>6. Slack!Cardinality(later(u)) < HistoryLimit
      <4>1. Slack!Cardinality(later(u)) \in Nat /\ Slack!Cardinality(later(t)) \in Nat
        BY <1>4
      <4> QED
        BY <1>1, <2>1, <3>5, <4>1
    <3> QED
      BY <3>2, <3>6
  <2> QED
    BY <2>1, <2>2 DEF Slack!History
<1>6. ASSUME NEW t \in DOMAIN posts, cutoff <= t, posts[t].place = d, ~posts[t].reply,
             Slack!Cardinality(After(d, t)) < HistoryLimit
      PROVE  t \in histories'[d]
  <2>1. t \in inside
    BY <1>1, <1>6 DEF Slack!History
  <2>2. later(t) \in SUBSET After(d, t)
    <3>1. \A u \in 1 .. Len(posts) : u > t => u \in t + 1 .. Len(posts)
      BY <1>1
    <3> QED
      BY <1>3, <3>1 DEF After, Slack!History
  <2>3. Slack!IsFiniteSet(After(d, t))
    <3>1. After(d, t) \subseteq 1 .. Len(posts)
      BY <1>1 DEF After
    <3> QED
      BY <1>2, <3>1, SlackCounts, SlackFinite, FS_Subset
  <2>4. Slack!Cardinality(later(t)) <= Slack!Cardinality(After(d, t)) /\
          Slack!Cardinality(After(d, t)) \in Nat
    BY <2>2, <2>3, SlackCounts, SlackFinite, FS_Subset, FS_CardinalityType
  <2>5. Slack!Cardinality(later(t)) < HistoryLimit
    <3>1. Slack!Cardinality(later(t)) \in Nat
      BY <1>4
    <3> QED
      BY <1>1, <1>6, <2>4, <3>1
  <2> QED
    BY <2>1, <2>5
<1>7. \A t : After(d, t)' = After(d, t)
  BY DEF After
<1> QED
  BY <1>1, <1>3, <1>5, <1>6, <1>7 DEF Newest

(* A history is read.                                                      *)
LEMMA ReadHistoryFits ==
    ASSUME Slack!Assumptions, SlackInv, Slack!ReadHistory
    PROVE  SlackInv'
<1>1. /\ stage = "history" /\ stage' = IF toRead' = {} THEN "names" ELSE "history"
      /\ UNCHANGED <<shut, posts, known, page, cutoff, mentions, mine, warnings, waiting,
                     warned, begun, waited>>
  BY DEF Slack!ReadHistory, Slack!slack
<1>2. PICK i \in toRead :
         /\ toRead' = toRead \ {i}
         /\ LET d == Directs[i]
                inside == Slack!History(d)
            IN  histories' = [e \in DOMAIN histories \union {d} |->
                                IF e # d THEN histories[e]
                                ELSE {t \in inside :
                                        Slack!Cardinality({u \in inside :
                                          u > t}) < HistoryLimit}]
  BY DEF Slack!ReadHistory
<1> DEFINE d == Directs[i]
           inside == Slack!History(d)
           newest == {t \in inside : Slack!Cardinality({u \in inside : u > t}) < HistoryLimit}
<1>3. /\ DOMAIN histories' = DOMAIN histories \union {d} /\ histories'[d] = newest
      /\ \A e \in DOMAIN histories : e # d => histories'[e] = histories[e]
  <2>1. histories' = [e \in DOMAIN histories \union {d} |->
                        IF e # d THEN histories[e] ELSE newest]
    BY <1>2
  <2> HIDE DEF newest, d
  <2> QED
    BY <2>1
<1>4. i \in DOMAIN Directs /\ d \in Slack!Open
  BY <1>2 DEF SlackInv, Typed
<1>5. Newest(d)' /\ histories'[d] \subseteq DOMAIN posts
  BY <1>1, <1>3, NewestRead DEF SlackInv
<1> HIDE DEF newest, d
<1>6. UNCHANGED <<Slack!Mentioning, Slack!Own, Slack!Open, Slack!OpenMentions(mentions)>>
  BY <1>1 DEF Slack!Mentioning, Slack!Own, Slack!Open, Slack!OpenMentions
<1>7. Typed'
  <2>1. DOMAIN histories' \subseteq Slack!Open /\ \A e \in DOMAIN histories' :
          histories'[e] \subseteq DOMAIN posts
    BY <1>3, <1>4, <1>5 DEF SlackInv, Typed
  <2> QED
    BY <1>1, <1>2, <1>6, <2>1 DEF SlackInv, Typed, Slack!Stages
<1>8. WaitedFits'
  BY <1>1, <1>6 DEF SlackInv, WaitedFits, Asks, AnsweredBy, Slack!Answers
<1>9. SearchesFit'
  BY <1>1, <1>6 DEF SlackInv, SearchesFit
<1>10. HistoriesFit'
  <2>1. ASSUME NEW e \in DOMAIN histories' PROVE Newest(e)'
    <3>1. CASE e = d
      BY <1>5, <3>1
    <3>2. CASE e # d
      <4>1. e \in DOMAIN histories /\ histories'[e] = histories[e]
        BY <1>3, <3>2
      <4>2. Newest(e)
        BY <4>1 DEF SlackInv, HistoriesFit
      <4>3. \A t : After(e, t)' = After(e, t)
        BY <1>1 DEF After
      <4> QED
        BY <1>1, <4>1, <4>2, <4>3 DEF Newest
    <3> QED
      BY <3>1, <3>2
  <2>2. ASSUME "conversations" \notin warnings, NEW j \in DOMAIN Directs,
                 Directs[j] \in Slack!Open
        PROVE  j \in toRead' \/ Directs[j] \in DOMAIN histories'
    <3>1. j \in toRead \/ Directs[j] \in DOMAIN histories
      BY <1>1, <2>2 DEF SlackInv, HistoriesFit
    <3> QED
      BY <1>2, <1>3, <3>1 DEF d
  <2> QED
    BY <1>1, <1>6, <2>1, <2>2 DEF HistoriesFit
<1> QED
  BY <1>7, <1>8, <1>9, <1>10 DEF SlackInv

(* What is listed was read: in a history, or among the mentions.           *)
Listed(t) ==
    \/ \E d \in DOMAIN histories : t \in Slack!Unanswered(histories[d])
    \/ t \in Slack!OpenMentions(mentions) /\ ~Slack!Answered(t) /\ ~Slack!Decided(t)

(* That is what has an item.                                               *)
LEMMA ItemsFit ==
    ASSUME Slack!Assumptions, SlackInv
    PROVE  /\ Slack!Items \subseteq [ts : Slack!Times, kind : {"dm", "mention"}]
           /\ \A t : t \in {x.ts : x \in Slack!Items} <=> Listed(t)
<1> DEFINE inHistories == UNION {Slack!Unanswered(histories[d]) : d \in DOMAIN histories}
           inSearches == {t \in Slack!OpenMentions(mentions) : ~Slack!Answered(t) /\
             ~Slack!Decided(t)}
           dms == {[ts |-> t, kind |-> "dm"] : t \in inHistories}
           searched == {[ts |-> t, kind |-> IF Slack!Direct(t) THEN "dm" ELSE "mention"] :
                        t \in inSearches}
<1>1. Slack!Items = dms \union searched
  BY DEF Slack!Items
<1>2. \A t : Listed(t) <=> t \in inHistories \/ t \in inSearches
  BY DEF Listed
<1>3. inHistories \subseteq Slack!Times /\ inSearches \subseteq Slack!Times
  <2>1. DOMAIN posts \subseteq Slack!Times
    BY DEF SlackInv, Typed, Slack!Times, Slack!Assumptions
  <2>2. inHistories \subseteq DOMAIN posts
    BY DEF SlackInv, Typed, Slack!Unanswered
  <2>3. inSearches \subseteq DOMAIN posts
    BY DEF SlackInv, Typed, Slack!OpenMentions, Slack!Mentioning
  <2> QED
    BY <2>1, <2>2, <2>3
<1> HIDE DEF inHistories, inSearches
<1>4. dms \subseteq [ts : Slack!Times, kind : {"dm", "mention"}]
      /\ searched \subseteq [ts : Slack!Times, kind : {"dm", "mention"}]
  BY <1>3
<1>5. \A t : t \in {x.ts : x \in Slack!Items} <=> t \in inHistories \/ t \in inSearches
  <2>1. ASSUME NEW x \in Slack!Items PROVE x.ts \in inHistories \/ x.ts \in inSearches
    BY <1>1
  <2>2. ASSUME NEW t \in inHistories PROVE \E x \in Slack!Items : x.ts = t
    <3>1. [ts |-> t, kind |-> "dm"] \in Slack!Items
      BY <1>1
    <3> QED
      BY <3>1
  <2>3. ASSUME NEW t \in inSearches PROVE \E x \in Slack!Items : x.ts = t
    <3>1. [ts |-> t, kind |-> IF Slack!Direct(t) THEN "dm" ELSE "mention"] \in Slack!Items
      BY <1>1
    <3> QED
      BY <3>1
  <2> QED
    BY <2>1, <2>2, <2>3
<1> QED
  BY <1>1, <1>2, <1>4, <1>5

(* The store is replaced.                                                  *)
LEMMA StoreFits == ASSUME Slack!Assumptions, SlackInv, Slack!Store PROVE SlackInv'
<1>1. Slack!Return /\ UNCHANGED <<Slack!slack, known>> /\ waiting' = Slack!Items /\
        warned' = warnings
  BY DEF Slack!Store
<1>2. warned' \subseteq Slack!Warnings /\
        waiting' \subseteq [ts : Slack!Times, kind : {"dm", "mention"}]
  BY <1>1, ItemsFit DEF SlackInv, Typed
<1> QED
  BY <1>1, <1>2, ReturnFits

(* One step of the adapter.                                                *)
LEMMA StepFits ==
    ASSUME Slack!Assumptions, Slack!ListIsRead, SlackInv, [Slack!Next]_(Slack!vars)
    PROVE  SlackInv'
<1>1. CASE Slack!Fail
  <2>1. Slack!Return /\ UNCHANGED <<Slack!slack, known, waiting, warned>>
    BY <1>1 DEF Slack!Fail
  <2>2. warned' \subseteq Slack!Warnings /\
          waiting' \subseteq [ts : Slack!Times, kind : {"dm", "mention"}]
    BY <2>1 DEF SlackInv, Typed
  <2>3. UNCHANGED <<Slack!slack, known>>
    BY <2>1
  <2> QED
    BY <2>1, <2>2, <2>3, ReturnFits
<1>2. ASSUME NEW place \in Slack!Places, NEW byYou \in BOOLEAN, NEW mention \in BOOLEAN,
             NEW reply \in BOOLEAN, Slack!Post(place, byYou, mention, reply)
      PROVE  SlackInv'
  BY <1>2, PostFits
<1>3. CASE UNCHANGED Slack!vars
  <2>1. UNCHANGED <<Slack!Mentioning, Slack!Own, Slack!Open, Slack!OpenMentions(mentions)>>
    BY <1>3 DEF Slack!vars, Slack!Mentioning, Slack!Own, Slack!Open, Slack!OpenMentions
  <2>2. Typed'
    BY <1>3, <2>1 DEF Slack!vars, SlackInv, Typed
  <2>3. WaitedFits'
    BY <1>3, <2>1 DEF Slack!vars, SlackInv, WaitedFits, Asks, AnsweredBy, Slack!Answers
  <2>4. SearchesFit'
    BY <1>3, <2>1 DEF Slack!vars, SlackInv, SearchesFit, Given, Slack!Place
  <2>5. HistoriesFit'
    <3>1. \A d \in DOMAIN histories : Newest(d)'
      BY <1>3, HistoriesStay DEF Slack!vars
    <3> QED
      BY <1>3, <2>1, <3>1 DEF Slack!vars, SlackInv, HistoriesFit
  <2> QED
    BY <2>2, <2>3, <2>4, <2>5 DEF SlackInv
<1>4. CASE Slack!Next
  <2>1. \/ Slack!Begin \/ Slack!AuthTest \/ Slack!SearchMentions \/ Slack!SearchMine \/ Slack!List \/ Slack!ReadHistory
        \/ Slack!Fail \/ Slack!Store
        \/ \E place \in Slack!Places, byYou \in BOOLEAN, mention \in BOOLEAN,
             reply \in BOOLEAN :
              Slack!Post(place, byYou, mention, reply)
    BY <1>4 DEF Slack!Next
  <2> QED
    BY <1>1, <1>2, <2>1, SlackBeginFits, AuthTestFits, SearchMentionsFits,
       SearchMineFits, ListFits, ReadHistoryFits, StoreFits
<1> QED
  BY <1>3, <1>4

(* What is due is listed.                                                  *)
LEMMA DueIsListed ==
    ASSUME Slack!Assumptions, SlackInv, stage = "names", warnings = {},
           NEW t \in cutoff .. begun, t \in DOMAIN posts, Slack!Waits(t), Slack!InReach(t)
    PROVE  Listed(t)
<1>1. /\ DOMAIN posts = 1 .. Len(posts) /\ Len(posts) \in Nat /\ cutoff \in Nat
      /\ begun \in Nat /\ cutoff <= t /\ t <= begun
  BY DEF SlackInv, Typed
<1>2. /\ ~posts[t].mine /\ (posts[t].mention \/ posts[t].place \in Slack!Open)
      /\ \A u \in DOMAIN posts : t < u => ~Slack!Answers(posts, u, t)
  <2>1. \A u \in DOMAIN posts : t < u => u \in t + 1 .. Len(posts)
    BY <1>1
  <2> QED
    BY <2>1 DEF Slack!Waits, Slack!WaitsIn
<1>3. CASE posts[t].place \in Slack!Open
  <2> DEFINE d == posts[t].place
  <2>1. PICK i \in DOMAIN Directs : Directs[i] = d
    BY <1>3 DEF Slack!Open, Slack!Range
  <2>2. d \in DOMAIN histories
    BY <1>3, <2>1 DEF SlackInv, HistoriesFit
  <2>3. Slack!Cardinality(After(d, t)) < HistoryLimit
    BY <1>3 DEF Slack!InReach, After, Slack!Open, Slack!Assumptions
  <2>4. t \in histories[d] /\ Newest(d)
    BY <1>1, <1>3, <2>2, <2>3
    DEF Slack!InReach, Slack!Open, Slack!Assumptions, SlackInv, HistoriesFit, Newest
  <2>5. ASSUME NEW u \in histories[d], posts[u].mine PROVE u < t
    <3>1. u \in DOMAIN posts /\ posts[u].place = d /\ ~posts[u].reply
      BY <2>2, <2>4 DEF SlackInv, Typed, Newest
    <3>2. u # t /\ ~(t < u)
      BY <1>2, <2>5, <3>1 DEF Slack!Answers
    <3> QED
      BY <1>1, <3>1, <3>2
  <2>6. t \in Slack!Unanswered(histories[d])
    BY <1>2, <2>4, <2>5 DEF Slack!Unanswered
  <2> QED
    BY <2>2, <2>6 DEF Listed
<1>4. CASE posts[t].place \notin Slack!Open
  <2>1. t \in Slack!Mentioning
    BY <1>2, <1>4 DEF Slack!Mentioning
  <2>2. t \in Slack!OpenMentions(mentions)
    BY <1>1, <1>2, <2>1 DEF SlackInv, SearchesFit, Slack!OpenMentions
  <2>3. ~Slack!Answered(t)
    BY <1>2, <1>4 DEF Slack!Answered, Slack!Answers, SlackInv, Typed, Slack!Own
  <2>4. ~Slack!Decided(t)
    BY <1>4 DEF Slack!Decided, SlackInv, Typed
  <2> QED
    BY <2>2, <2>3, <2>4 DEF Listed
<1> QED
  BY <1>3, <1>4

(* What is listed has waited.                                              *)
LEMMA ListedHasWaited ==
    ASSUME Slack!Assumptions, SlackInv, stage = "names", "mine" \notin warnings, NEW t,
             Listed(t)
    PROVE  t \in waited
<1>1. /\ DOMAIN posts = 1 .. Len(posts) /\ Len(posts) \in Nat /\ cutoff \in Nat
      /\ begun \in Nat
  BY DEF SlackInv, Typed
<1>2. SUFFICES t \in DOMAIN posts /\ Asks(t) /\ ~AnsweredBy(t, begun)
  BY DEF SlackInv, WaitedFits
<1>3. ASSUME NEW d \in DOMAIN histories, t \in Slack!Unanswered(histories[d])
      PROVE  t \in DOMAIN posts /\ Asks(t) /\ ~AnsweredBy(t, begun)
  <2>1. t \in histories[d] /\ t \in DOMAIN posts /\ d \in Slack!Open /\ Newest(d)
    BY <1>3 DEF SlackInv, Typed, Slack!Unanswered, HistoriesFit
  <2>2. /\ ~posts[t].mine /\ \A u \in histories[d] : posts[u].mine => u < t
        /\ posts[t].place = d
        /\ \A u \in DOMAIN posts :
              t < u /\ u <= begun /\ posts[u].place = d /\ ~posts[u].reply
                 => u \in histories[d]
    BY <1>3, <2>1 DEF Slack!Unanswered, Newest
  <2>3. ASSUME NEW u \in DOMAIN posts, t < u, u <= begun, Slack!Answers(posts, u, t) PROVE FALSE
    <3>1. u < t
      BY <2>1, <2>2, <2>3 DEF Slack!Answers
    <3> QED
      BY <1>1, <2>1, <2>3, <3>1
  <2> QED
    BY <2>1, <2>2, <2>3 DEF Asks, AnsweredBy
<1>4. ASSUME t \in Slack!OpenMentions(mentions), ~Slack!Answered(t)
      PROVE  t \in DOMAIN posts /\ Asks(t) /\ ~AnsweredBy(t, begun)
  <2>1. t \in Slack!Mentioning /\ t \in DOMAIN posts /\ posts[t].mention /\ ~posts[t].mine
    BY <1>4 DEF Slack!OpenMentions, SlackInv, Typed, Slack!Mentioning
  <2>2. ASSUME NEW u \in DOMAIN posts, t < u, u <= begun, Slack!Answers(posts, u, t) PROVE FALSE
    <3>1. u \in Slack!Own /\ t <= u
      BY <1>1, <2>1, <2>2 DEF Slack!Own, Slack!Answers
    <3>2. u \in mine
      BY <1>4, <2>2, <3>1 DEF SlackInv, SearchesFit
    <3> QED
      BY <1>1, <1>4, <2>1, <2>2, <3>2 DEF Slack!Answered, Slack!Answers
  <2> QED
    BY <2>1, <2>2 DEF Asks, AnsweredBy
<1> QED
  BY <1>3, <1>4 DEF Listed

(* Snapshot and Normalize, slack.go:176-222 and items.go:39-107: however   *)
(* many messages arrive while a poll reads, what was there when it began,  *)
(* is in its reach and waits at its end is listed, unless it says what is  *)
(* missing; nothing is that was answered before; for any conversations,    *)
(* messages and limits with which the list of conversations is read to its *)
(* end.  A reply in a thread of a direct conversation is out of its reach, *)
(* a mention of you in one as well.                                        *)
THEOREM WaitingIsShown ==
    ASSUME Slack!Assumptions, Slack!ListIsRead PROVE Slack!Spec => BoardIsWhatWaits
<1> DEFINE ToldTrue ==
        LET shown == {i.ts : i \in waiting'}
            due == {t \in cutoff .. begun : Slack!Waits(t) /\ Slack!InReach(t)}
        IN  /\ warned' = {} => due \subseteq shown
            /\ "mine" \notin warned' => shown \subseteq waited
<1>1. Slack!Init => SlackInv
  BY SlackInitFits
<1>2. SlackInv /\ [Slack!Next]_(Slack!vars) => SlackInv'
  BY StepFits
<1>3. SlackInv /\ [Slack!Next]_(Slack!vars) => [Slack!Store => ToldTrue]_(Slack!vars)
  <2> SUFFICES ASSUME SlackInv, Slack!Store PROVE ToldTrue
    BY DEF Slack!vars
  <2>1. waiting' = Slack!Items /\ warned' = warnings /\ stage = "names"
    BY DEF Slack!Store
  <2>2. \A t : t \in {i.ts : i \in waiting'} <=> Listed(t)
    BY <2>1, ItemsFit
  <2>3. ASSUME warned' = {}, NEW t \in cutoff .. begun, Slack!Waits(t), Slack!InReach(t)
        PROVE  Listed(t)
    <3>1. t \in DOMAIN posts
      BY <2>1 DEF SlackInv, Typed
    <3> QED
      BY <2>1, <2>3, <3>1, DueIsListed
  <2>4. ASSUME "mine" \notin warned', NEW t, Listed(t) PROVE t \in waited
    BY <2>1, <2>4, ListedHasWaited
  <2> QED
    BY <2>2, <2>3, <2>4
<1> HIDE DEF ToldTrue
<1> QED
  BY <1>1, <1>2, <1>3, PTL
  DEF Slack!Spec, BoardIsWhatWaits, Slack!BoardIsWhatWaits, ToldTrue

-----------------------------------------------------------------------------
(***************************************************************************)
(* Outline.  A notification never comes to an earlier place, so that all   *)
(* that was unread from the beginning and comes before the next page is    *)
(* kept.                                                                   *)
(***************************************************************************)

(* The library's facts count the sets of this adapter.                     *)
LEMMA OutlineCounts == ASSUME NEW S PROVE Outline!Cardinality(S) = Cardinality(S)
BY DEF Outline!Cardinality, Cardinality

(* ... and tell that they are finite.                                      *)
LEMMA OutlineFinite == ASSUME NEW S PROVE Outline!IsFiniteSet(S) = IsFiniteSet(S)
BY DEF Outline!IsFiniteSet, IsFiniteSet

(* The smaller of two numbers is one of them.                              *)
LEMMA OutlineMinOfTwo ==
    ASSUME NEW a \in Nat, NEW b \in Nat
    PROVE  Outline!Min({a, b}) \in {a, b} /\ Outline!Min({a, b}) <= a /\
             Outline!Min({a, b}) <= b
<1>1. \E x \in {a, b} : \A y \in {a, b} : x <= y
  <2>1. CASE a <= b
    BY <2>1
  <2>2. CASE b <= a
    BY <2>2
  <2> QED
    BY <2>1, <2>2
<1> QED
  BY <1>1 DEF Outline!Min

(* Before page k of the list, as it stands now, comes n.                   *)
Before(n, k) == Len(sent) - n < k * OutlinePage

(* What was unread all through the poll is kept, as far as it has been     *)
(* read: what arrives moves notifications to later pages only.             *)
KeptSoFar ==
    /\ unread \subseteq {n \in DOMAIN sent : Outline!IsMention(n)}
    /\ progress = "list" =>
          /\ taken < MaxItems /\ offset < MaxPages
          /\ \A n \in unread : Before(n, offset) => n \in kept
    /\ progress = "documents" /\ ~cut => unread \subseteq kept
    /\ progress = "idle" => offset = 0 /\ kept = {} /\ taken = 0 /\ unread = {}

Numbered == Len(sent) <= MaxSent

OutlineInv == Outline!TypeOK /\ Numbered /\ KeptSoFar

(* Nothing has been sent and nothing is read.                              *)
LEMMA OutlineInitFits == ASSUME Outline!Assumptions, Outline!Init PROVE OutlineInv
<1>1. sent = <<>> /\ Len(sent) = 0 /\ sent \in Seq({"mention", "other"})
  BY DEF Outline!Init
<1>2. 0 \in 0 .. MaxPages /\ 0 \in 0 .. MaxItems /\ 0 <= MaxSent
  BY DEF Outline!Assumptions
<1> QED
  BY <1>1, <1>2 DEF Outline!Init, OutlineInv, Outline!TypeOK, Numbered, KeptSoFar

(* A page is the notifications between two places, and a full one reaches  *)
(* the next.                                                               *)
LEMMA PageOf ==
    ASSUME Outline!Assumptions, Outline!TypeOK, Numbered, NEW k \in Nat
    PROVE  /\ Outline!IsFiniteSet(Outline!Listed(k)) /\ Outline!Listed(k) \subseteq DOMAIN sent
           /\ Outline!Listed(k) \subseteq Outline!Ids
           /\ \A n \in DOMAIN sent : Before(n, k + 1) => n \in Outline!Listed(k) \/ Before(n, k)
           /\ Outline!Short(Outline!Listed(k)) => \A n \in DOMAIN sent : Before(n, k + 1)
<1> DEFINE from == Len(sent) - (k + 1) * OutlinePage + 1
           to == Len(sent) - k * OutlinePage
<1>1. /\ Len(sent) \in Nat /\ DOMAIN sent = 1 .. Len(sent) /\ Len(sent) <= MaxSent
      /\ OutlinePage \in Nat \ {0} /\ MaxSent \in Nat
  BY DEF Outline!TypeOK, Numbered, Outline!Assumptions
<1>2. k * OutlinePage \in Nat /\ (k + 1) * OutlinePage = k * OutlinePage + OutlinePage
  BY <1>1
<1>3. Outline!Listed(k) \subseteq 1 .. Len(sent) /\ Outline!Listed(k) \subseteq Outline!Ids
  BY <1>1 DEF Outline!Listed, Outline!Ids
<1>4. Outline!IsFiniteSet(Outline!Listed(k))
  <2>1. Len(sent) \in Int /\ 1 \in Int
    BY <1>1
  <2>2. Outline!IsFiniteSet(1 .. Len(sent))
    BY <2>1, OutlineCounts, OutlineFinite, FS_Interval
  <2> QED
    BY <1>3, <2>2, OutlineCounts, OutlineFinite, FS_Subset
<1>5. ASSUME NEW n \in DOMAIN sent, Before(n, k + 1)
      PROVE  n \in Outline!Listed(k) \/ Before(n, k)
  BY <1>1, <1>2, <1>5 DEF Before, Outline!Listed
<1>6. ASSUME Outline!Short(Outline!Listed(k)), NEW n \in DOMAIN sent PROVE Before(n, k + 1)
  <2> SUFFICES ASSUME ~Before(n, k + 1) PROVE FALSE
    OBVIOUS
  <2>1. from \in Int /\ to \in Int /\ from >= 1 /\ to <= Len(sent) /\
          to - from + 1 = OutlinePage
    BY <1>1, <1>2, <1>6 DEF Before
  <2>2. \A m \in from .. to : m \in Outline!Listed(k)
    <3> SUFFICES ASSUME NEW m \in from .. to PROVE m \in Outline!Listed(k)
      OBVIOUS
    <3>1. m \in 1 .. Len(sent)
      BY <1>1, <2>1
    <3>2. k * OutlinePage <= Len(sent) - m /\ Len(sent) - m < (k + 1) * OutlinePage
      BY <1>1, <1>2, <3>1
    <3> QED
      BY <1>1, <3>1, <3>2 DEF Outline!Listed
  <2> HIDE DEF from, to
  <2>3. Outline!Cardinality(from .. to) = OutlinePage
    <3>1. Outline!Cardinality(from .. to) = IF from > to THEN 0 ELSE to - from + 1
      BY <2>1, OutlineCounts, OutlineFinite, FS_Interval
    <3> QED
      BY <1>1, <2>1, <3>1
  <2>4. Outline!Cardinality(from .. to) <= Outline!Cardinality(Outline!Listed(k))
    BY <1>4, <2>2, OutlineCounts, OutlineFinite, FS_Subset
  <2>5. Outline!Cardinality(Outline!Listed(k)) \in Nat
    BY <1>4, OutlineCounts, OutlineFinite, FS_CardinalityType
  <2> QED
    BY <1>1, <1>6, <2>3, <2>4, <2>5 DEF Outline!Short
<1> QED
  BY <1>1, <1>3, <1>4, <1>5, <1>6

(* A page reads on: what was unread all through it and comes before its    *)
(* end is kept, unless a bound is met.                                     *)
LEMMA OutlinePageFits ==
    ASSUME Outline!Assumptions, OutlineInv, Outline!Page
    PROVE  OutlineInv'
<1> DEFINE got == Outline!Listed(offset)
           new == {n \in got : Outline!IsMention(n)}
           fit == MaxItems - taken
           fitting == {n \in new : Outline!Cardinality({m \in new : m >= n}) <= fit}
<1>1. /\ progress = "list" /\ offset \in Nat /\ offset < MaxPages
      /\ taken \in Nat /\ taken < MaxItems /\ MaxItems \in Nat /\ MaxPages \in Nat
  BY DEF Outline!Page, OutlineInv, Outline!TypeOK, KeptSoFar, Outline!Assumptions
<1>2. /\ Outline!IsFiniteSet(got) /\ got \subseteq DOMAIN sent /\ got \subseteq Outline!Ids
      /\ \A n \in DOMAIN sent : Before(n, offset + 1) => n \in got \/ Before(n, offset)
      /\ Outline!Short(got) => \A n \in DOMAIN sent : Before(n, offset + 1)
  BY <1>1, PageOf DEF OutlineInv
<1>3. /\ kept' = kept \union fitting
      /\ taken' = taken + Outline!Min({fit, Outline!Cardinality(new)})
      /\ progress' = IF Outline!Short(got) \/ taken' = MaxItems \/ offset + 1 = MaxPages
                     THEN "documents" ELSE "list"
      /\ cut' = (taken' = MaxItems \/ (offset + 1 = MaxPages /\ ~Outline!Short(got)))
      /\ offset' = offset + 1 /\ UNCHANGED <<sent, read, mentioned, unread>>
  BY DEF Outline!Page, Outline!Room, Outline!outline
<1>4. Outline!IsFiniteSet(new) /\ Outline!Cardinality(new) \in Nat
  BY <1>2, OutlineCounts, OutlineFinite, FS_Subset, FS_CardinalityType
<1> HIDE DEF got, new
<1>5. /\ taken' \in 0 .. MaxItems
      /\ taken' # MaxItems => Outline!Cardinality(new) <= fit
  <2>1. fit \in Nat
    BY <1>1
  <2>2. PICK least : least = Outline!Min({fit, Outline!Cardinality(new)})
    OBVIOUS
  <2>3. least \in {fit, Outline!Cardinality(new)} /\ least <= fit /\
          least <= Outline!Cardinality(new)
    BY <1>4, <2>1, <2>2, OutlineMinOfTwo
  <2> QED
    BY <1>1, <1>3, <1>4, <2>1, <2>2, <2>3
<1>6. ASSUME taken' # MaxItems PROVE new \subseteq kept'
  <2> SUFFICES ASSUME NEW n \in new PROVE n \in fitting
    BY <1>3
  <2> DEFINE newer == {m \in new : m >= n}
  <2>1. Outline!IsFiniteSet(newer) /\ Outline!Cardinality(newer) <= Outline!Cardinality(new)
    BY <1>4, OutlineCounts, OutlineFinite, FS_Subset
  <2>2. Outline!Cardinality(newer) \in Nat
    BY <2>1, OutlineCounts, OutlineFinite, FS_CardinalityType
  <2>3. Outline!Cardinality(newer) <= fit
    BY <1>1, <1>4, <1>5, <1>6, <2>1, <2>2
  <2> QED
    BY <2>3
<1> HIDE DEF fitting, fit
<1>7. fitting \subseteq Outline!Ids
  BY <1>2 DEF fitting, new
<1>8. unread \subseteq {n \in DOMAIN sent : Outline!IsMention(n)}
  BY DEF OutlineInv, KeptSoFar
<1>9. ASSUME taken' # MaxItems, NEW n \in unread, Before(n, offset + 1) PROVE n \in kept'
  <2>1. n \in DOMAIN sent /\ Outline!IsMention(n)
    BY <1>8
  <2>2. CASE Before(n, offset)
    BY <1>1, <1>3, <2>2 DEF OutlineInv, KeptSoFar
  <2>3. CASE n \in got
    BY <1>6, <1>9, <2>1, <2>3 DEF new
  <2> QED
    BY <1>2, <1>9, <2>1, <2>2, <2>3
<1>10. Outline!TypeOK' /\ Numbered'
  <2>1. offset' \in 0 .. MaxPages
    BY <1>1, <1>3
  <2>2. cut' \in BOOLEAN /\ progress' \in {"idle", "list", "documents"}
    BY <1>3
  <2> QED
    BY <1>3, <1>5, <1>7, <2>1, <2>2 DEF OutlineInv, Outline!TypeOK, Numbered
<1>11. progress' = "list" => taken' < MaxItems /\ offset' < MaxPages
  BY <1>1, <1>3, <1>5
<1>12. ASSUME progress' = "list", NEW n \in unread', Before(n, offset)' PROVE n \in kept'
  <2>1. taken' # MaxItems /\ n \in unread /\ Before(n, offset + 1)
    BY <1>3, <1>12 DEF Before
  <2> QED
    BY <1>9, <2>1
<1>13. ASSUME progress' = "documents", ~cut', NEW n \in unread' PROVE n \in kept'
  <2>1. taken' # MaxItems /\ Outline!Short(got) /\ n \in unread
    BY <1>3, <1>13
  <2>2. Before(n, offset + 1)
    BY <1>2, <1>8, <2>1
  <2> QED
    BY <1>9, <2>1, <2>2
<1>14. KeptSoFar'
  BY <1>3, <1>8, <1>11, <1>12, <1>13 DEF KeptSoFar, Outline!IsMention
<1> QED
  BY <1>10, <1>14 DEF OutlineInv

(* A poll begins before the first page.                                    *)
LEMMA OutlineBeginFits ==
    ASSUME Outline!Assumptions, OutlineInv, Outline!Begin
    PROVE  OutlineInv'
<1>1. /\ progress = "idle" /\ progress' = "list" /\ offset = 0 /\ kept = {} /\ taken = 0
      /\ UNCHANGED <<sent, read, offset, kept, taken, cut, mentioned>>
      /\ unread' = {n \in DOMAIN sent : Outline!IsMention(n)}
  BY DEF Outline!Begin, OutlineInv, KeptSoFar, Outline!outline
<1>2. Len(sent) \in Nat /\ DOMAIN sent = 1 .. Len(sent) /\ Len(sent) <= MaxSent
  BY DEF OutlineInv, Outline!TypeOK, Numbered
<1>3. unread' \subseteq Outline!Ids /\ MaxSent \in Nat /\ 0 * OutlinePage = 0
  BY <1>1, <1>2 DEF Outline!Ids, Outline!Assumptions
<1>4. \A n \in unread' : ~Before(n, offset)'
  BY <1>1, <1>2, <1>3 DEF Before
<1> QED
  BY <1>1, <1>3, <1>4
  DEF OutlineInv, Outline!TypeOK, Numbered, KeptSoFar, Outline!IsMention,
      Outline!Assumptions

(* What arrives moves what is there to later places.                       *)
LEMMA SendFits ==
    ASSUME Outline!Assumptions, OutlineInv, NEW kind \in {"mention", "other"},
             Outline!Send(kind)
    PROVE  OutlineInv'
<1>1. /\ sent \in Seq({"mention", "other"}) /\ Len(sent) \in Nat /\ MaxSent \in Nat
      /\ DOMAIN sent = 1 .. Len(sent)
  BY DEF OutlineInv, Outline!TypeOK, Outline!Assumptions
<1>2. /\ sent' \in Seq({"mention", "other"}) /\ Len(sent') = Len(sent) + 1
      /\ \A n \in DOMAIN sent : n \in DOMAIN sent' /\ sent'[n] = sent[n]
      /\ Len(sent') <= MaxSent
  BY <1>1 DEF Outline!Send
<1>3. ASSUME NEW n \in unread
      PROVE  /\ n \in DOMAIN sent' /\ Outline!IsMention(n)'
             /\ Before(n, offset)' => Before(n, offset)
  <2>1. n \in DOMAIN sent /\ Outline!IsMention(n)
    BY DEF OutlineInv, KeptSoFar
  <2>2. Outline!IsMention(n)'
    BY <1>2, <2>1 DEF Outline!IsMention, Outline!Send
  <2>3. offset * OutlinePage \in Nat
    BY DEF OutlineInv, Outline!TypeOK, Outline!Assumptions
  <2>4. Before(n, offset)' => Before(n, offset)
    <3>1. (offset * OutlinePage)' = offset * OutlinePage
      BY DEF Outline!Send
    <3> QED
      BY <1>1, <1>2, <2>1, <2>3, <3>1 DEF Before
  <2> QED
    BY <1>2, <2>1, <2>2, <2>4
<1>4. UNCHANGED <<read, progress, offset, kept, taken, cut, mentioned, unread>>
  BY DEF Outline!Send
<1> QED
  BY <1>2, <1>3, <1>4 DEF OutlineInv, Outline!TypeOK, Numbered, KeptSoFar

(* Every step keeps the invariant.                                         *)
LEMMA OutlineNextFits ==
    ASSUME Outline!Assumptions, OutlineInv, [Outline!Next]_(Outline!vars)
    PROVE  OutlineInv'
<1>1. ASSUME Outline!Return, UNCHANGED Outline!outline, mentioned' \subseteq Outline!Ids
      PROVE  OutlineInv'
  <2>1. 0 \in 0 .. MaxPages /\ 0 \in 0 .. MaxItems
    BY DEF Outline!Assumptions
  <2>2. Outline!TypeOK' /\ Numbered'
    BY <1>1, <2>1
    DEF Outline!Return, Outline!outline, OutlineInv, Outline!TypeOK, Numbered
  <2>3. KeptSoFar'
    BY <1>1 DEF Outline!Return, KeptSoFar
  <2> QED
    BY <2>2, <2>3 DEF OutlineInv
<1>2. CASE Outline!Store \/ Outline!Fail
  BY <1>1, <1>2 DEF Outline!Store, Outline!Fail, OutlineInv, Outline!TypeOK
<1>3. ASSUME NEW n \in DOMAIN sent, Outline!Open(n) PROVE OutlineInv'
  <2>1. n \in Outline!Ids
    BY DEF OutlineInv, Outline!TypeOK, Numbered, Outline!Ids, Outline!Assumptions
  <2>2. Outline!TypeOK' /\ Numbered'
    BY <1>3, <2>1 DEF Outline!Open, OutlineInv, Outline!TypeOK, Numbered
  <2>3. \A m \in unread' : Outline!IsMention(m) => Outline!IsMention(m)'
    BY <1>3 DEF Outline!Open, Outline!IsMention
  <2>4. \A m : Before(m, offset)' <=> Before(m, offset)
    BY <1>3 DEF Outline!Open, Before
  <2>5. KeptSoFar'
    BY <1>3, <2>3, <2>4 DEF Outline!Open, OutlineInv, KeptSoFar
  <2> QED
    BY <2>2, <2>5 DEF OutlineInv
<1>4. CASE UNCHANGED Outline!vars
  BY <1>4
  DEF Outline!vars, OutlineInv, Outline!TypeOK, Numbered, KeptSoFar, Before,
      Outline!IsMention
<1> QED
  BY <1>2, <1>3, <1>4, OutlineBeginFits, OutlinePageFits, SendFits
  DEF Outline!Next, Outline!Poll

(* outline.go:140-145: a poll that met none of its bounds lists every      *)
(* mention that was unread all through it, whatever arrived between its    *)
(* pages; for any sizes and any number of notifications.                   *)
THEOREM UnreadAreShown ==
    ASSUME Outline!Assumptions PROVE Outline!Spec => UnreadIsShown
<1>1. Outline!Init => OutlineInv
  BY OutlineInitFits
<1>2. OutlineInv /\ [Outline!Next]_(Outline!vars) => OutlineInv'
  BY OutlineNextFits
<1>3. OutlineInv /\ [Outline!Next]_(Outline!vars) =>
        [Outline!Store /\ ~cut => unread \subseteq mentioned']_(Outline!vars)
  BY DEF OutlineInv, KeptSoFar, Outline!Store
<1> QED
  BY <1>1, <1>2, <1>3, PTL DEF Outline!Spec, UnreadIsShown, Outline!UnreadIsShown

-----------------------------------------------------------------------------
(***************************************************************************)
(* The calendar.  However it has been edited, what the feeds say of an     *)
(* event is its plan, slot by slot; and the ticker never lets an interval  *)
(* pass.                                                                   *)
(***************************************************************************)

(* A single event has one slot, its first start.                           *)
LEMMA SlotsFit ==
    ASSUME Calendar!Assumptions, NEW u \in Uids
    PROVE  /\ Calendar!Slots(u) \subseteq Calendar!Times /\ FirstStart[u] \in Calendar!Slots(u)
           /\ Every[u] = 0 => Calendar!Slots(u) = {FirstStart[u]}
<1>1. Calendar!Slots(u) \subseteq Calendar!Times /\ FirstStart[u] \in Calendar!Slots(u)
  BY DEF Calendar!Assumptions, Calendar!Slots
<1>2. ASSUME Every[u] = 0, NEW t \in Calendar!Slots(u) PROVE t = FirstStart[u]
  BY <1>2 DEF Calendar!Slots
<1> QED
  BY <1>1, <1>2

(* What a feed tells of a series, and of a single meeting, is what is      *)
(* planned.                                                                *)
SeriesFits(u) ==
    Every[u] > 0 =>
        \A s \in Calendar!Slots(u) :
            plan[u][s] = IF overrides[u][s] \in Calendar!Times THEN overrides[u][s]
                         ELSE IF \/ overrides[u][s] = Cancelled
                                 \/ s \in exdates[u] \/ u \in calledOff THEN Off
                         ELSE s

SingleFits(u) ==
    Every[u] = 0 =>
        \A s \in Calendar!Slots(u) :
            /\ overrides[u][s] = Off
            /\ plan[u][s] = IF u \in calledOff THEN Off ELSE start[u]

(* The next poll is at most an interval away, and what starts before it    *)
(* has been announced if it was left alone for an interval.                *)
CalendarPollFits ==
    /\ clock <= nextPoll /\ nextPoll <= clock + Interval /\ settled <= clock
    /\ \A u \in Uids : \A s \in Calendar!Slots(u) :
          LET t == plan[u][s]
          IN  t # Off /\ settled + Interval < t /\ t <= nextPoll
                => [uid |-> u, start |-> t] \in announced

FeedsFit == \A u \in Uids : SeriesFits(u) /\ SingleFits(u)

CalendarInv == Calendar!TypeOK /\ FeedsFit

(* Before any edit the feeds tell the plan.                                *)
LEMMA CalendarInitFits ==
    ASSUME Calendar!Assumptions, Calendar!Init
    PROVE  CalendarInv /\ CalendarPollFits
<1>1. 0 \in Calendar!Times /\ 0 \in 0 .. MaxClock + Interval /\ 0 \in 0 .. MaxCalendarEdits
  BY DEF Calendar!Assumptions, Calendar!Times
<1>2. ASSUME NEW u \in Uids
      PROVE  /\ overrides[u] \in [Calendar!Slots(u) -> Calendar!Times \union {Off, Cancelled}]
             /\ plan[u] \in [Calendar!Slots(u) -> Calendar!Times \union {Off}]
             /\ SeriesFits(u) /\ SingleFits(u)
  <2>1. Calendar!Slots(u) \subseteq Calendar!Times /\
          (Every[u] = 0 => Calendar!Slots(u) = {FirstStart[u]})
    BY SlotsFit
  <2>2. overrides[u] = [s \in Calendar!Slots(u) |-> Off] /\
          plan[u] = [s \in Calendar!Slots(u) |-> s]
    BY DEF Calendar!Init
  <2>3. exdates[u] = {} /\ calledOff = {} /\ start = FirstStart
    BY DEF Calendar!Init
  <2>4. Off \notin Calendar!Times /\ Off # Cancelled
    BY DEF Calendar!Assumptions
  <2> QED
    BY <2>1, <2>2, <2>3, <2>4 DEF SeriesFits, SingleFits
<1>3. Calendar!TypeOK
  <2>1. start \in [Uids -> Calendar!Times] /\ exdates \in [Uids -> SUBSET Calendar!Times]
    BY DEF Calendar!Init, Calendar!Assumptions
  <2> QED
    BY <1>1, <1>2, <2>1 DEF Calendar!Init, Calendar!TypeOK
<1>4. CalendarPollFits
  <2>1. ASSUME NEW u \in Uids, NEW s \in Calendar!Slots(u), plan[u][s] <= nextPoll
        PROVE  ~(settled + Interval < plan[u][s])
    <3>1. plan[u][s] = s /\ s \in Calendar!Times /\ Interval > 0 /\ settled = 0 /\ nextPoll = 0
      BY <2>1, SlotsFit DEF Calendar!Init, Calendar!Assumptions
    <3>2. s \in Nat /\ Interval \in Nat /\ MaxClock \in Nat
      BY <3>1 DEF Calendar!Times, Calendar!Assumptions
    <3> QED
      BY <2>1, <3>1, <3>2
  <2> QED
    BY <2>1 DEF CalendarPollFits, Calendar!Init, Calendar!Assumptions
<1> QED
  BY <1>2, <1>3, <1>4 DEF CalendarInv, FeedsFit

(* A poll finds of each event the meetings that are planned.               *)
LEMMA HeldArePlanned ==
    ASSUME Calendar!Assumptions, Calendar!SeriesAreShort, CalendarInv,
             NEW m \in Calendar!Meeting, Calendar!At(m)
    PROVE  m.start \in Calendar!Held(m.uid) <=> \E s \in Calendar!Slots(m.uid) :
             plan[m.uid][s] = m.start
<1> DEFINE u == m.uid
           t == m.start
<1>1. u \in Uids /\ t \in Calendar!Times
  BY DEF Calendar!Meeting
<1>2. SeriesFits(u) /\ SingleFits(u) /\ Calendar!Slots(u) \subseteq Calendar!Times
  BY <1>1, SlotsFit DEF CalendarInv, FeedsFit
<1>3. /\ Every[u] \in Nat /\ Off \notin Calendar!Times /\ Cancelled \notin Calendar!Times /\
           Off # Cancelled
      /\ Length[u] \in Nat /\ LookBack \in Nat /\ clock \in Nat /\ t \in Nat /\ Horizon \in Nat
  BY <1>1 DEF Calendar!Assumptions, CalendarInv, Calendar!TypeOK, Calendar!Times
<1>4. t + Length[u] > clock /\ t < clock + Horizon
  BY DEF Calendar!At, Calendar!Until
<1>5. CASE Every[u] > 0
  <2>1. t <= Calendar!Until /\ clock <= t + LookBack
    BY <1>1, <1>3, <1>4, <1>5 DEF Calendar!Until, Calendar!SeriesAreShort
  <2>2. t \in Calendar!Starts(u) <=> t \in Calendar!Slots(u) /\ t \notin exdates[u]
    BY <1>5, <1>3, <2>1 DEF Calendar!Starts
  <2>3. t \in Calendar!Replaced(u) <=> t \in Calendar!Slots(u) /\ overrides[u][t] # Off
    BY DEF Calendar!Replaced
  <2>4. \A s \in Calendar!Slots(u) :
           plan[u][s] = IF overrides[u][s] \in Calendar!Times THEN overrides[u][s]
                        ELSE IF \/ overrides[u][s] = Cancelled
                                \/ s \in exdates[u] \/ u \in calledOff THEN Off
                        ELSE s
    BY <1>2, <1>5 DEF SeriesFits
  <2>5. \A s \in Calendar!Slots(u) : overrides[u][s] \in Calendar!Times \union {Off, Cancelled}
    BY <1>1 DEF CalendarInv, Calendar!TypeOK
  <2>6. t \in Calendar!Held(u) <=>
           \/ /\ u \notin calledOff /\ t \in Calendar!Slots(u) /\ t \notin exdates[u]
              /\ overrides[u][t] = Off
           \/ \E s \in Calendar!Slots(u) : overrides[u][s] = t
    BY <2>2, <2>3 DEF Calendar!Held
  <2> HIDE DEF u, t
  <2>7. \A s \in Calendar!Slots(u) :
           plan[u][s] = t <=> \/ overrides[u][s] = t
                              \/ /\ u \notin calledOff /\ s = t /\ t \notin exdates[u]
                                 /\ overrides[u][s] = Off
    BY <1>1, <1>3, <2>4, <2>5
  <2>8. t \in Calendar!Held(u) <=> \E s \in Calendar!Slots(u) : plan[u][s] = t
    BY <2>6, <2>7
  <2> QED
    BY <2>8 DEF u, t
<1>6. CASE Every[u] = 0
  <2>1. Calendar!Slots(u) = {FirstStart[u]}
    BY <1>1, <1>6, SlotsFit
  <2>2. /\ overrides[u][FirstStart[u]] = Off
        /\ plan[u][FirstStart[u]] = IF u \in calledOff THEN Off ELSE start[u]
    BY <1>2, <1>6, <2>1 DEF SingleFits
  <2>3. Calendar!Starts(u) = {start[u]} /\ Calendar!Replaced(u) = {}
    BY <1>6, <2>1, <2>2 DEF Calendar!Starts, Calendar!Replaced
  <2> HIDE DEF u, t
  <2>4. {overrides[u][s] : s \in Calendar!Slots(u)} = {Off}
    BY <2>1, <2>2
  <2>5. t \in Calendar!Held(u) <=> u \notin calledOff /\ t = start[u]
    BY <1>1, <1>3, <2>3, <2>4 DEF Calendar!Held
  <2>6. (\E s \in Calendar!Slots(u) : plan[u][s] = t) <=> u \notin calledOff /\ t = start[u]
    BY <1>1, <1>3, <2>1, <2>2
  <2> QED
    BY <2>5, <2>6 DEF u, t
<1> QED
  BY <1>3, <1>5, <1>6

(* What a poll lists is what is planned in the feeds that answered.        *)
LEMMA PollPlans ==
    ASSUME Calendar!Assumptions, Calendar!SeriesAreShort, CalendarInv,
           NEW failing \in SUBSET Calendar!Feeds, Calendar!Poll(failing)
    PROVE  {[uid |-> i.uid, start |-> i.start] : i \in meetings'} = Calendar!Planned(failing)
<1> DEFINE held == UNION {Calendar!Expand(f) : f \in Calendar!Feeds \ failing}
<1>1. ASSUME NEW m \in Calendar!Meeting PROVE m \in held <=> m \in Calendar!Planned(failing)
  <2>1. FeedOf[m.uid] \in Calendar!Feeds
    BY DEF Calendar!Meeting, Calendar!Feeds
  <2>2. m \in held <=> FeedOf[m.uid] \notin failing /\ m.start \in Calendar!Held(m.uid) /\
          Calendar!At(m)
    BY <2>1 DEF Calendar!Expand
  <2>3. Calendar!At(m) <=> m.start + Length[m.uid] > clock /\ m.start < clock + Horizon
    BY DEF Calendar!At, Calendar!Until
  <2> HIDE DEF held
  <2> QED
    BY <2>2, <2>3, HeldArePlanned DEF Calendar!Planned
<1>2. held \subseteq Calendar!Meeting /\ Calendar!Planned(failing) \subseteq Calendar!Meeting
  BY DEF Calendar!Expand, Calendar!Planned
<1>3. meetings' = Calendar!Normalize(held)
  BY DEF Calendar!Poll
<1>4. held = Calendar!Planned(failing)
  BY <1>1, <1>2
<1> HIDE DEF held
<1>5. \A i \in meetings' : [uid |-> i.uid, start |-> i.start] \in held
  <2> SUFFICES ASSUME NEW i \in meetings' PROVE [uid |-> i.uid, start |-> i.start] \in held
    OBVIOUS
  <2>1. PICK m \in held : i = [uid |-> m.uid, start |-> m.start, phase |-> Calendar!Phase(m)]
    BY <1>3 DEF Calendar!Normalize
  <2>2. m = [uid |-> m.uid, start |-> m.start]
    BY <1>2 DEF Calendar!Meeting
  <2> QED
    BY <2>1, <2>2
<1>6. \A m \in held : \E i \in meetings' : m = [uid |-> i.uid, start |-> i.start]
  <2> SUFFICES ASSUME NEW m \in held
               PROVE  \E i \in meetings' : m = [uid |-> i.uid, start |-> i.start]
    OBVIOUS
  <2>1. m = [uid |-> m.uid, start |-> m.start]
    BY <1>2 DEF Calendar!Meeting
  <2>2. [uid |-> m.uid, start |-> m.start, phase |-> Calendar!Phase(m)] \in meetings'
    BY <1>3 DEF Calendar!Normalize
  <2> QED
    BY <2>1, <2>2
<1> QED
  BY <1>4, <1>5, <1>6

(* An edit of one event leaves the feeds telling what is planned.          *)
LEMMA EditFits ==
    ASSUME Calendar!Assumptions, CalendarInv, NEW u \in Uids,
           NEW planned \in [Calendar!Slots(u) -> Calendar!Times \union {Off}],
             Calendar!Edit(u, planned),
           start' \in [Uids -> Calendar!Times], calledOff' \subseteq Uids,
           exdates' \in [Uids -> SUBSET Calendar!Times], DOMAIN overrides' = Uids,
           overrides'[u] \in [Calendar!Slots(u) -> Calendar!Times \union {Off, Cancelled}],
           \A v \in Uids : v # u =>
              /\ start'[v] = start[v] /\ exdates'[v] = exdates[v]
              /\ overrides'[v] = overrides[v] /\ (v \in calledOff' <=> v \in calledOff),
           SeriesFits(u)', SingleFits(u)'
    PROVE  CalendarInv'
<1>1. /\ plan' = [plan EXCEPT ![u] = planned]
      /\ edits' = edits + 1 /\ edits < MaxCalendarEdits /\ settled' = clock
      /\ UNCHANGED <<clock, nextPoll, meetings, lost, announced>>
  BY DEF Calendar!Edit
<1>2. \A v \in Uids : plan[v] \in [Calendar!Slots(v) -> Calendar!Times \union {Off}]
  BY DEF CalendarInv, Calendar!TypeOK
<1>3. DOMAIN plan = Uids
  BY DEF CalendarInv, Calendar!TypeOK
<1>4. /\ DOMAIN plan' = Uids /\ \A v \in Uids : v # u => plan'[v] = plan[v]
      /\ plan'[u] = planned
  BY <1>1, <1>3
<1>5. plan'[u] \in [Calendar!Slots(u) -> Calendar!Times \union {Off}]
  BY <1>4
<1>6. \A v \in Uids : plan'[v] \in [Calendar!Slots(v) -> Calendar!Times \union {Off}]
  BY <1>2, <1>4, <1>5
<1>7. \A v \in Uids :
        overrides'[v] \in [Calendar!Slots(v) -> Calendar!Times \union {Off, Cancelled}]
  BY DEF CalendarInv, Calendar!TypeOK
<1>8. edits' \in 0 .. MaxCalendarEdits
  BY <1>1 DEF CalendarInv, Calendar!TypeOK, Calendar!Assumptions
<1>9. Calendar!TypeOK'
  BY <1>1, <1>4, <1>6, <1>7, <1>8 DEF CalendarInv, Calendar!TypeOK
<1>10. ASSUME NEW v \in Uids PROVE SeriesFits(v)' /\ SingleFits(v)'
  <2>1. CASE v = u
    BY <2>1
  <2>2. CASE v # u
    <3>1. /\ plan'[v] = plan[v] /\ start'[v] = start[v] /\ exdates'[v] = exdates[v]
          /\ overrides'[v] = overrides[v] /\ (v \in calledOff' <=> v \in calledOff)
      BY <1>4, <2>2
    <3> QED
      BY <3>1 DEF CalendarInv, FeedsFit, SeriesFits, SingleFits
  <2> QED
    BY <2>1, <2>2
<1> QED
  BY <1>9, <1>10 DEF CalendarInv, FeedsFit

(* Each way of moving or cancelling a meeting is such an edit.             *)
LEMMA EditsFit ==
    ASSUME Calendar!Assumptions, CalendarInv, NEW u \in Uids, NEW slot \in Calendar!Slots(u),
           \/ Calendar!CancelInstance(u, slot) \/ Calendar!DeleteInstance(u,
                slot) \/ Calendar!CancelEvent(u)
           \/ \E t \in Calendar!Times : Calendar!Move(u, slot, t)
    PROVE  CalendarInv' /\ \E planned : Calendar!Edit(u, planned)
<1>1. /\ start \in [Uids -> Calendar!Times] /\ calledOff \subseteq Uids
      /\ exdates \in [Uids -> SUBSET Calendar!Times] /\ DOMAIN overrides = Uids
      /\ overrides[u] \in [Calendar!Slots(u) -> Calendar!Times \union {Off, Cancelled}]
      /\ DOMAIN plan = Uids /\ plan[u] \in [Calendar!Slots(u) -> Calendar!Times \union {Off}]
  BY DEF CalendarInv, Calendar!TypeOK
<1>2. SeriesFits(u) /\ SingleFits(u) /\ Calendar!Slots(u) \subseteq Calendar!Times
      /\ (Every[u] = 0 => Calendar!Slots(u) = {FirstStart[u]})
  BY SlotsFit DEF CalendarInv, FeedsFit
<1>3. Off \notin Calendar!Times /\ Cancelled \notin Calendar!Times /\ Off # Cancelled /\
        Every[u] \in Nat
  BY DEF Calendar!Assumptions
<1> DEFINE with(t) == [plan[u] EXCEPT ![slot] = t]
<1>4. \A t \in Calendar!Times \union {Off} :
         /\ with(t) \in [Calendar!Slots(u) -> Calendar!Times \union {Off}]
         /\ Calendar!Edit(u, with(t)) =>
               plan'[u][slot] = t /\ \A s \in Calendar!Slots(u) : s # slot =>
                 plan'[u][s] = plan[u][s]
  BY <1>1 DEF Calendar!Edit
<1> HIDE DEF with
<1>5. CASE Calendar!CancelInstance(u, slot)
  <2>1. /\ Calendar!Edit(u, with(Off)) /\ Every[u] > 0 /\ plan[u][slot] # Off
        /\ overrides' = [overrides EXCEPT ![u][slot] = Cancelled]
        /\ UNCHANGED <<start, calledOff, exdates>>
    BY <1>5 DEF Calendar!CancelInstance, with
  <2>2. /\ DOMAIN overrides' = Uids /\ overrides'[u] = [overrides[u] EXCEPT ![slot] = Cancelled]
        /\ \A v \in Uids : v # u => overrides'[v] = overrides[v]
    BY <1>1, <2>1
  <2>3. SeriesFits(u)' /\ SingleFits(u)'
    BY <1>1, <1>2, <1>3, <1>4, <2>1, <2>2 DEF SeriesFits, SingleFits
  <2> QED
    BY <1>1, <1>4, <2>1, <2>2, <2>3, EditFits
<1>6. CASE Calendar!DeleteInstance(u, slot)
  <2>1. /\ Calendar!Edit(u, with(Off)) /\ Every[u] > 0 /\ plan[u][slot] # Off
        /\ overrides' = [overrides EXCEPT ![u][slot] = Off]
        /\ exdates' = [exdates EXCEPT ![u] = @ \union {slot}]
        /\ UNCHANGED <<start, calledOff>>
    BY <1>6 DEF Calendar!DeleteInstance, with
  <2>2. /\ DOMAIN overrides' = Uids /\ overrides'[u] = [overrides[u] EXCEPT ![slot] = Off]
        /\ \A v \in Uids : v # u => overrides'[v] = overrides[v]
    BY <1>1, <2>1
  <2>3. /\ exdates' \in [Uids -> SUBSET Calendar!Times] /\
             exdates'[u] = exdates[u] \union {slot}
        /\ \A v \in Uids : v # u => exdates'[v] = exdates[v]
    BY <1>1, <1>2, <2>1
  <2>4. SeriesFits(u)' /\ SingleFits(u)'
    BY <1>1, <1>2, <1>3, <1>4, <2>1, <2>2, <2>3 DEF SeriesFits, SingleFits
  <2> QED
    BY <1>1, <1>4, <2>1, <2>2, <2>3, <2>4, EditFits
<1>7. CASE Calendar!CancelEvent(u)
  <2> DEFINE left == [s \in Calendar!Slots(u) |-> IF overrides[u][s] = Off THEN Off ELSE
        plan[u][s]]
  <2>1. /\ Calendar!Edit(u, left)
        /\ calledOff' = calledOff \union {u} /\ UNCHANGED <<start, exdates, overrides>>
    BY <1>7 DEF Calendar!CancelEvent
  <2>2. plan'[u] = left /\ left \in [Calendar!Slots(u) -> Calendar!Times \union {Off}]
    BY <1>1, <2>1 DEF Calendar!Edit
  <2>3. SeriesFits(u)' /\ SingleFits(u)'
    BY <1>1, <1>2, <1>3, <2>1, <2>2 DEF SeriesFits, SingleFits
  <2> HIDE DEF left
  <2> QED
    BY <1>1, <2>1, <2>2, <2>3, EditFits
<1>8. ASSUME NEW t \in Calendar!Times, Calendar!Move(u, slot, t)
      PROVE  CalendarInv' /\ \E planned : Calendar!Edit(u, planned)
  <2>1. /\ Calendar!Edit(u, with(t)) /\ plan[u][slot] # Off
        /\ UNCHANGED <<calledOff, exdates>>
    BY <1>8 DEF Calendar!Move, with
  <2>2. CASE Every[u] > 0
    <3>1. overrides' = [overrides EXCEPT ![u][slot] = t] /\ UNCHANGED start
      BY <1>8, <2>2 DEF Calendar!Move
    <3>2. /\ DOMAIN overrides' = Uids /\ overrides'[u] = [overrides[u] EXCEPT ![slot] = t]
          /\ \A v \in Uids : v # u => overrides'[v] = overrides[v]
      BY <1>1, <3>1
    <3>3. SeriesFits(u)' /\ SingleFits(u)'
      BY <1>1, <1>2, <1>3, <1>4, <2>1, <2>2, <3>1, <3>2 DEF SeriesFits, SingleFits
    <3> QED
      BY <1>1, <1>4, <2>1, <3>1, <3>2, <3>3, EditFits
  <2>3. CASE Every[u] = 0
    <3>1. start' = [start EXCEPT ![u] = t] /\ UNCHANGED overrides
      BY <1>8, <2>3 DEF Calendar!Move
    <3>2. SeriesFits(u)' /\ SingleFits(u)'
      BY <1>1, <1>2, <1>3, <1>4, <2>1, <2>3, <3>1 DEF SeriesFits, SingleFits
    <3> QED
      BY <1>1, <1>4, <2>1, <3>1, <3>2, EditFits
  <2> QED
    BY <1>3, <2>2, <2>3
<1> QED
  BY <1>5, <1>6, <1>7, <1>8

(* A meeting is in one of three phases.                                    *)
LEMMA PhaseType == ASSUME NEW m PROVE Calendar!Phase(m) \in Calendar!Phases
BY DEF Calendar!Phase, Calendar!Phases

(* A poll changes no feed and lists meetings.                              *)
LEMMA PollTyped ==
    ASSUME Calendar!Assumptions, CalendarInv, NEW failing \in SUBSET Calendar!Feeds,
             Calendar!Poll(failing)
    PROVE  CalendarInv'
<1>1. \A f : Calendar!Expand(f) \subseteq Calendar!Meeting
  BY DEF Calendar!Expand
<1> DEFINE held == UNION {Calendar!Expand(f) : f \in Calendar!Feeds \ failing}
<1>2. held \subseteq Calendar!Meeting
  BY <1>1
<1>3. meetings' = Calendar!Normalize(held) /\ lost' = failing
  BY DEF Calendar!Poll
<1> HIDE DEF held
<1>4. meetings' \subseteq [uid : Uids, start : Calendar!Times, phase : Calendar!Phases]
  <2>1. \A m \in held : m.uid \in Uids /\ m.start \in Calendar!Times
    BY <1>2 DEF Calendar!Meeting
  <2> QED
    BY <1>3, <2>1, PhaseType DEF Calendar!Normalize
<1>5. announced' \subseteq Calendar!Meeting
  <2>1. \A i \in meetings' : [uid |-> i.uid, start |-> i.start] \in Calendar!Meeting
    BY <1>4 DEF Calendar!Meeting
  <2>2. announced' = announced \union
            {[uid |-> i.uid, start |-> i.start] :
                i \in {j \in meetings' : j.phase = "starting soon"}}
    BY DEF Calendar!Poll
  <2>3. announced \subseteq Calendar!Meeting
    BY DEF CalendarInv, Calendar!TypeOK
  <2> QED
    BY <2>1, <2>2, <2>3
<1>6. nextPoll' \in 0 .. MaxClock + Interval /\ settled' \in Calendar!Times
  <2>1. /\ clock \in Nat /\ clock <= MaxClock /\ settled \in Calendar!Times /\
             clock \in Calendar!Times
        /\ MaxClock \in Nat /\ Interval \in Nat
    BY DEF CalendarInv, Calendar!TypeOK, Calendar!Times, Calendar!Assumptions
  <2>2. nextPoll' = clock + Interval /\ settled' \in {settled, clock}
    BY DEF Calendar!Poll
  <2> QED
    BY <2>1, <2>2
<1>7. Calendar!TypeOK'
  BY <1>3, <1>4, <1>5, <1>6
  DEF Calendar!Poll, Calendar!feeds, CalendarInv, Calendar!TypeOK
<1>8. FeedsFit'
  BY DEF Calendar!Poll, Calendar!feeds, CalendarInv, FeedsFit, SeriesFits, SingleFits
<1> QED
  BY <1>7, <1>8 DEF CalendarInv

(* Every step keeps the invariant.                                         *)
LEMMA CalendarNextFits ==
    ASSUME Calendar!Assumptions, CalendarInv, [Calendar!Next]_(Calendar!vars)
    PROVE  CalendarInv'
<1>1. CASE Calendar!Tick
  <2>1. clock' \in Calendar!Times
    BY <1>1
    DEF Calendar!Tick, CalendarInv, Calendar!TypeOK, Calendar!Times,
        Calendar!Assumptions
  <2> QED
    BY <1>1, <2>1
    DEF Calendar!Tick, Calendar!feeds, CalendarInv, Calendar!TypeOK, FeedsFit,
        SeriesFits, SingleFits
<1>2. CASE UNCHANGED Calendar!vars
  BY <1>2
  DEF Calendar!vars, CalendarInv, Calendar!TypeOK, FeedsFit, SeriesFits, SingleFits
<1>3. ASSUME NEW u \in Uids, Calendar!CancelEvent(u) PROVE CalendarInv'
  BY <1>3, SlotsFit, EditsFit
<1> QED
  BY <1>1, <1>2, <1>3, PollTyped, EditsFit DEF Calendar!Next, Calendar!AtBound

(* The board is the plan after each poll.                                  *)
THEOREM CalendarShowsThePlan ==
    ASSUME Calendar!Assumptions, Calendar!SeriesAreShort PROVE Calendar!Spec => BoardIsThePlan
<1>1. Calendar!Init => CalendarInv
  BY CalendarInitFits
<1>2. CalendarInv /\ [Calendar!Next]_(Calendar!vars) => CalendarInv'
  BY CalendarNextFits
<1>3. ASSUME CalendarInv, [Calendar!Next]_(Calendar!vars), nextPoll' # nextPoll
      PROVE  {[uid |-> i.uid, start |-> i.start] : i \in meetings'} = Calendar!Planned(lost')
  <2>1. PICK failing \in SUBSET Calendar!Feeds : Calendar!Poll(failing)
    BY <1>3
    DEF Calendar!Next, Calendar!Tick, Calendar!AtBound, Calendar!vars, Calendar!Move,
        Calendar!CancelInstance, Calendar!DeleteInstance, Calendar!CancelEvent,
        Calendar!Edit
  <2>2. lost' = failing
    BY <2>1 DEF Calendar!Poll
  <2> QED
    BY <1>3, <2>1, <2>2, PollPlans
<1> QED
  BY <1>1, <1>2, <1>3, PTL DEF Calendar!Spec, BoardIsThePlan, Calendar!BoardIsThePlan

(* A poll announces what starts before the next.                           *)
LEMMA PollAnnounces ==
    ASSUME Calendar!Assumptions, Calendar!SeriesAreShort, Calendar!PollsAreFrequent,
             CalendarInv, CalendarPollFits,
           NEW failing \in SUBSET Calendar!Feeds, Calendar!Poll(failing)
    PROVE  CalendarPollFits'
<1>1. /\ clock \in Nat /\ Interval \in Nat \ {0} /\ settled \in Nat /\ Lead \in Nat
      /\ Horizon \in Nat /\ settled <= clock /\ nextPoll \in Nat /\ MaxClock \in Nat
  BY
  DEF Calendar!Assumptions, CalendarInv, Calendar!TypeOK, Calendar!Times,
      CalendarPollFits
<1>2. /\ clock = nextPoll /\ nextPoll' = clock + Interval /\ clock' = clock /\ plan' = plan
      /\ failing = {} => settled' = settled
      /\ failing # {} => settled' = clock
  BY DEF Calendar!Poll, Calendar!feeds
<1>6. announced' = announced \union
            {[uid |-> i.uid, start |-> i.start] :
                i \in {j \in meetings' : j.phase = "starting soon"}}
  BY DEF Calendar!Poll
<1>3. ASSUME NEW u \in Uids, NEW s \in Calendar!Slots(u), plan[u][s] # Off,
             settled' + Interval < plan[u][s], plan[u][s] <= nextPoll'
      PROVE  [uid |-> u, start |-> plan[u][s]] \in announced'
  <2> DEFINE m == [uid |-> u, start |-> plan[u][s]]
  <2>1. plan[u][s] \in Calendar!Times /\ plan[u][s] \in Nat /\ Length[u] \in Nat
    BY <1>3 DEF CalendarInv, Calendar!TypeOK, Calendar!Times, Calendar!Assumptions
  <2>2. failing = {} /\ settled' = settled
    BY <1>1, <1>2, <1>3, <2>1
  <2>3. CASE plan[u][s] <= nextPoll
    BY <1>2, <1>3, <1>6, <2>2, <2>3 DEF CalendarPollFits
  <2>4. CASE ~(plan[u][s] <= nextPoll)
    <3>1. clock < plan[u][s] /\ plan[u][s] <= clock + Interval
      BY <1>1, <1>2, <1>3, <2>1, <2>4
    <3>2. m \in Calendar!Meeting /\ m.uid = u /\ m.start = plan[u][s]
      BY <2>1 DEF Calendar!Meeting
    <3>3. m.start + Length[u] > clock /\ m.start < clock + Horizon /\ m.start - clock <= Lead
      BY <1>1, <2>1, <3>1, <3>2 DEF Calendar!PollsAreFrequent
    <3>4. Calendar!At(m)
      BY <3>2, <3>3 DEF Calendar!At, Calendar!Until
    <3>5. m.start \in Calendar!Held(u)
      BY <3>2, <3>4, HeldArePlanned
    <3>6. FeedOf[u] \in Calendar!Feeds \ failing
      BY <2>2 DEF Calendar!Feeds
    <3>7. m \in Calendar!Expand(FeedOf[u])
      BY <3>2, <3>4, <3>5 DEF Calendar!Expand
    <3>8. Calendar!Phase(m) = "starting soon"
      BY <1>1, <2>1, <3>1, <3>2, <3>3 DEF Calendar!Phase
    <3>9. PICK i : i = [uid |-> u, start |-> plan[u][s], phase |-> Calendar!Phase(m)]
      OBVIOUS
    <3>10. i \in meetings'
      <4>1. m \in UNION {Calendar!Expand(f) : f \in Calendar!Feeds \ failing}
        BY <3>2, <3>6, <3>7
      <4>2. PICK held : held = UNION {Calendar!Expand(f) : f \in Calendar!Feeds \ failing}
        OBVIOUS
      <4>3. meetings' = Calendar!Normalize(held) /\ m \in held
        BY <4>1, <4>2 DEF Calendar!Poll
      <4> QED
        BY <3>2, <3>9, <4>3 DEF Calendar!Normalize
    <3>11. i.uid = u /\ i.start = plan[u][s] /\ i.phase = "starting soon"
      BY <3>8, <3>9
    <3> QED
      BY <1>6, <3>10, <3>11
  <2> QED
    BY <2>3, <2>4
<1>4. settled' <= clock' /\ clock' <= nextPoll' /\ nextPoll' <= clock' + Interval
  BY <1>1, <1>2
<1> QED
  BY <1>2, <1>3, <1>4 DEF CalendarPollFits

(* Every step keeps that what starts before the next poll is announced.    *)
LEMMA AnnouncedNext ==
    ASSUME Calendar!Assumptions, Calendar!SeriesAreShort, Calendar!PollsAreFrequent,
             CalendarInv, CalendarPollFits,
           [Calendar!Next]_(Calendar!vars)
    PROVE  CalendarPollFits'
<1>1. /\ clock \in Nat /\ Interval \in Nat \ {0} /\ settled \in Nat /\ nextPoll \in Nat
      /\ settled <= clock /\ clock <= nextPoll /\ nextPoll <= clock + Interval
  BY
  DEF Calendar!Assumptions, CalendarInv, Calendar!TypeOK, Calendar!Times,
      CalendarPollFits
<1>2. CASE Calendar!Tick
  <2>1. /\ clock < nextPoll /\ clock' = clock + 1
        /\ UNCHANGED <<nextPoll, plan, settled, announced>>
    BY <1>2 DEF Calendar!Tick, Calendar!feeds
  <2> QED
    BY <1>1, <2>1 DEF CalendarPollFits
<1>3. CASE UNCHANGED Calendar!vars
  BY <1>3 DEF Calendar!vars, CalendarPollFits
<1>4. ASSUME NEW u \in Uids, NEW planned, Calendar!Edit(u, planned), CalendarInv'
      PROVE  CalendarPollFits'
  <2>1. settled' = clock /\ UNCHANGED <<clock, nextPoll, announced>>
    BY <1>4 DEF Calendar!Edit
  <2>2. ASSUME NEW v \in Uids, NEW s \in Calendar!Slots(v), plan'[v][s] # Off,
               settled' + Interval < plan'[v][s], plan'[v][s] <= nextPoll'
        PROVE  FALSE
    <3>1. plan'[v][s] \in Calendar!Times
      BY <1>4, <2>2 DEF CalendarInv, Calendar!TypeOK
    <3>2. plan'[v][s] \in Nat
      BY <3>1 DEF Calendar!Times, Calendar!Assumptions
    <3> QED
      BY <1>1, <2>1, <2>2, <3>2
  <2> QED
    BY <1>1, <2>1, <2>2 DEF CalendarPollFits
<1>5. ASSUME NEW u \in Uids, Calendar!CancelEvent(u) PROVE CalendarPollFits'
  <2>1. CalendarInv' /\ \E planned : Calendar!Edit(u, planned)
    BY <1>5, SlotsFit, EditsFit
  <2> QED
    BY <1>4, <2>1, SlotsFit
<1>6. ASSUME NEW u \in Uids, NEW s \in Calendar!Slots(u),
             \/ Calendar!CancelInstance(u, s) \/ Calendar!DeleteInstance(u, s)
             \/ \E t \in Calendar!Times : Calendar!Move(u, s, t)
      PROVE  CalendarPollFits'
  <2>1. CalendarInv' /\ \E planned : Calendar!Edit(u, planned)
    BY <1>6, EditsFit
  <2> QED
    BY <1>4, <2>1
<1> QED
  BY <1>2, <1>3, <1>5, <1>6, PollAnnounces DEF Calendar!Next, Calendar!AtBound

(* classify, events.go:343-347: with polls no further apart than the lead  *)
(* and the window, a meeting left alone for an interval before its start,  *)
(* in feeds that answered, has asked for attention by then.                *)
THEOREM MeetingsAreAnnounced ==
    ASSUME Calendar!Assumptions, Calendar!SeriesAreShort, Calendar!PollsAreFrequent
    PROVE  Calendar!Spec => []AnnouncedInTime
<1>1. Calendar!Init => CalendarInv /\ CalendarPollFits
  BY CalendarInitFits
<1>2. CalendarInv /\ CalendarPollFits /\ [Calendar!Next]_(Calendar!vars) =>
        (CalendarInv /\ CalendarPollFits)'
  BY CalendarNextFits, AnnouncedNext
<1>3. CalendarInv /\ CalendarPollFits => AnnouncedInTime
  <2> SUFFICES ASSUME CalendarInv, CalendarPollFits, NEW u \in Uids,
                        NEW s \in Calendar!Slots(u),
                      plan[u][s] # Off, plan[u][s] <= clock, settled + Interval < plan[u][s]
               PROVE  [uid |-> u, start |-> plan[u][s]] \in announced
    BY DEF AnnouncedInTime, Calendar!AnnouncedInTime
  <2>1. plan[u][s] \in Calendar!Times
    BY DEF CalendarInv, Calendar!TypeOK
  <2>2. plan[u][s] <= nextPoll
    BY <2>1
    DEF CalendarPollFits, CalendarInv, Calendar!TypeOK, Calendar!Times,
        Calendar!Assumptions
  <2> QED
    BY <2>2 DEF CalendarPollFits
<1> QED
  BY <1>1, <1>2, <1>3, PTL DEF Calendar!Spec

-----------------------------------------------------------------------------
(***************************************************************************)
(* Spend.  What the index holds has been spent, whenever it was taken; an  *)
(* index command that works brings in what had been spent when the poll    *)
(* began, and the index is whole up to the newest message it holds unless  *)
(* a command has failed.                                                   *)
(***************************************************************************)

(* What the index holds was spent, and so was what had been spent when the *)
(* poll began, which an index command that works brings in; an advisor has *)
(* no more of anything, and nothing later, than there are messages.        *)
UsageFits ==
    \A a \in Advisors :
        /\ spent[a].cost <= written /\ spent[a].lookups <= written
        /\ spent[a].notes <= written /\ spent[a].last <= written
        /\ index[a].last <= written
        /\ index[a].cost <= spent[a].cost /\ atBegin[a].cost <= spent[a].cost
        /\ phase = "read" /\ ~late /\ syncs => atBegin[a].cost <= index[a].cost

(* The index is whole: an advisor that had passed the limit when the newest *)
(* message it holds was written has passed it there too.                    *)
Whole ==
    \A a, b \in Advisors :
        passed[a] \in 1 .. index[b].last => index[a].cost >= AdvisorCost

(* It is while nobody runs a command that may fail, and after one that did *)
(* not.                                                                    *)
DatesFit ==
    /\ \A a \in Advisors :
          /\ passed[a] <= written
          /\ passed[a] # 0 => AdvisorCost > 0 /\ spent[a].cost >= AdvisorCost
    /\ ~syncs \/ (phase = "read" /\ ~late) => Whole

(* A row that flags a session for cost has an advisor to show for it.      *)
RowsFit ==
    \A r \in rows : r.label = "advisor cost" =>
        \E a \in Advisors : SessionOf[a] = r.session /\ index[a].cost > 0 /\ Spend!OverCost(a)

SpendInv == Spend!TypeOK /\ UsageFits /\ DatesFit /\ RowsFit

(* judge flags a session for cost if and only if an advisor of its own has *)
(* passed the limit: cost is judged over all of them before lookups are.   *)
LEMMA JudgeCost ==
    ASSUME NEW s
    PROVE  /\ Spend!Judge(s).session = s
           /\ Spend!Judge(s).label = "advisor cost" <=> \E a \in Spend!Children(s) :
                Spend!OverCost(a)
<1> DEFINE costly == {a \in Spend!Children(s) : Spend!OverCost(a)}
           searching == {a \in Spend!Children(s) : Spend!OverLookups(a)}
<1>0. \A label, a : Spend!Row(s, label, a).session = s /\ Spend!Row(s, label, a).label = label
  BY DEF Spend!Row
<1>1. CASE costly # {}
  <2>1. Spend!Judge(s) = Spend!Row(s, "advisor cost", Spend!First(costly))
    BY <1>1 DEF Spend!Judge
  <2> QED
    BY <1>0, <1>1, <2>1
<1>2. CASE costly = {}
  <2>1. \E label \in {"advisor lookups", "tracking"} : \E a :
          Spend!Judge(s) = Spend!Row(s, label, a)
    BY <1>2 DEF Spend!Judge
  <2>2. PICK label \in {"advisor lookups", "tracking"} : \E a :
               Spend!Judge(s) = Spend!Row(s, label, a)
    BY <2>1
  <2>3. Spend!Judge(s).session = s /\ Spend!Judge(s).label = label
    BY <1>0, <2>2
  <2>4. label # "advisor cost"
    BY <2>2
  <2> QED
    BY <1>2, <2>3, <2>4
<1> QED
  BY <1>1, <1>2

(* A set of numbers that is not empty has a least one.                     *)
Less == {p \in Nat \X Nat : p[1] < p[2]}

LEMMA LeastNumber ==
    ASSUME NEW T \in SUBSET Nat, T # {} PROVE \E x \in T : \A y \in T : x <= y
<1>1. IsWellFoundedOn(Less, Nat)
  <2>1. OpToRel(<, Nat) = Less
    BY DEF OpToRel, Less
  <2> QED
    BY <2>1, NatLessThanWellFounded
<1>2. PICK x \in T : \A y \in T : <<y, x>> \notin Less
  BY <1>1, WFMin
<1>3. ASSUME NEW y \in T PROVE x <= y
  <2>1. <<y, x>> \in Nat \X Nat /\ <<y, x>>[1] = y /\ <<y, x>>[2] = x
    OBVIOUS
  <2>2. ~(y < x)
    BY <1>2, <2>1 DEF Less
  <2> QED
    BY <2>2
<1> QED
  BY <1>3

(* Query's order has a first: of those that cost most, the one whose path  *)
(* comes first.                                                            *)
LEMMA FirstIsOne ==
    ASSUME Spend!Assumptions, Spend!TypeOK, NEW S \in SUBSET Advisors, S # {}
    PROVE  Spend!First(S) \in S
<1>1. \A a \in Advisors : index[a].cost \in 0 .. MaxMessages /\ a \in Nat
  BY DEF Spend!TypeOK, Spend!Usage, Spend!Assumptions
<1> DEFINE room(a) == MaxMessages - index[a].cost
           saved == {room(a) : a \in S}
<1>2. saved \in SUBSET Nat /\ saved # {}
  <2>1. ASSUME NEW a \in S PROVE room(a) \in Nat
    <3>1. index[a].cost \in 0 .. MaxMessages /\ MaxMessages \in Nat
      BY <1>1 DEF Spend!Assumptions
    <3> QED
      BY <3>1
  <2> HIDE DEF room
  <2> QED
    BY <2>1
<1>3. PICK x \in saved : \A y \in saved : x <= y
  BY <1>2, LeastNumber
<1>4. PICK top \in S : \A b \in S : room(top) <= room(b)
  BY <1>3
<1>5. \A b \in S : index[b].cost <= index[top].cost
  BY <1>1, <1>4 DEF Spend!Assumptions
<1> HIDE DEF room, saved
<1> DEFINE costliest == {a \in S : index[a].cost = index[top].cost}
<1>6. PICK a \in costliest : \A b \in costliest : a <= b
  <2>1. costliest \in SUBSET Nat /\ costliest # {}
    BY <1>1
  <2> QED
    BY <2>1, LeastNumber
<1>7. \A b \in S : index[a].cost > index[b].cost \/ (index[a].cost = index[b].cost /\ a <= b)
  BY <1>1, <1>5, <1>6
<1> QED
  BY <1>6, <1>7 DEF Spend!First

(* The newest message has a date.                                          *)
LEMMA NewestIsOne ==
    ASSUME Spend!Assumptions, Spend!TypeOK
    PROVE  /\ Spend!Newest \in 0 .. MaxMessages
           /\ Spend!Newest = 0 \/ \E a \in Advisors : Spend!Newest = index[a].last
<1> DEFINE dates == {0} \union {index[a].last : a \in Advisors}
           room == {MaxMessages - n : n \in dates}
<1>1. MaxMessages \in Nat /\ \A a \in Advisors : index[a].last \in 0 .. MaxMessages
  BY DEF Spend!TypeOK, Spend!Usage, Spend!Assumptions
<1>2. dates \subseteq 0 .. MaxMessages /\ 0 \in dates
  BY <1>1
<1> HIDE DEF dates
<1>3. room \in SUBSET Nat /\ room # {}
  BY <1>1, <1>2
<1>4. PICK x \in room : \A y \in room : x <= y
  BY <1>3, LeastNumber
<1>5. PICK n \in dates : x = MaxMessages - n
  BY <1>4
<1>6. \A m \in dates : MaxMessages - n <= MaxMessages - m
  BY <1>4, <1>5
<1>7. \A m \in dates : m <= n
  BY <1>1, <1>2, <1>6
<1>8. Spend!Newest \in dates
  BY <1>5, <1>7 DEF Spend!Newest, dates
<1> QED
  BY <1>2, <1>8 DEF dates

(* Nothing has been spent.                                                 *)
LEMMA SpendInitFits == ASSUME Spend!Assumptions, Spend!Init PROVE SpendInv
<1>1. Spend!Nothing \in [Advisors -> Spend!Usage] /\ \A a \in Advisors :
        Spend!Nothing[a] = Spend!Unused
  BY DEF Spend!Nothing, Spend!Unused, Spend!Usage, Spend!Assumptions
<1>2. \A a \in Advisors : Spend!Nothing[a].cost = 0 /\ Spend!Nothing[a].lookups = 0 /\
        Spend!Nothing[a].notes = 0
      /\ Spend!Nothing[a].last = 0
  BY <1>1 DEF Spend!Unused
<1>3. 0 \in 0 .. MaxMessages
  BY DEF Spend!Assumptions
<1>4. Spend!TypeOK
  BY <1>1, <1>3 DEF Spend!Init, Spend!TypeOK
<1>5. UsageFits
  BY <1>2 DEF Spend!Init, UsageFits
<1>6. DatesFit
  BY <1>2 DEF Spend!Init, DatesFit, Whole
<1> QED
  BY <1>4, <1>5, <1>6 DEF Spend!Init, SpendInv, RowsFit

(* judge gives each session a row, which names one of its advisors or none.*)
LEMMA JudgeType ==
    ASSUME Spend!Assumptions, Spend!TypeOK, NEW s \in Sessions
    PROVE  /\ Spend!Judge(s) \in [session : Sessions, label : Spend!Labels,
                               advisor : Advisors \union {Spend!Nobody}, asOf :
                                 0 .. MaxMessages]
           /\ Spend!Judge(s).asOf = Spend!Newest
<1> DEFINE costly == {a \in Spend!Children(s) : Spend!OverCost(a)}
           searching == {a \in Spend!Children(s) : Spend!OverLookups(a)}
<1>1. costly \in SUBSET Advisors /\ searching \in SUBSET Advisors
      /\ Spend!Children(s) \in SUBSET Advisors
  BY DEF Spend!Children
<1> HIDE DEF costly, searching
<1>0. Spend!Newest \in 0 .. MaxMessages
  BY NewestIsOne
<1>2. CASE costly # {}
  BY <1>0, <1>1, <1>2, FirstIsOne DEF Spend!Judge, Spend!Row, Spend!Labels, costly
<1>3. CASE costly = {} /\ searching # {}
  BY <1>0, <1>1, <1>3, FirstIsOne
  DEF Spend!Judge, Spend!Row, Spend!Labels, costly, searching
<1>4. CASE costly = {} /\ searching = {}
  <2>1. Spend!Judge(s) = Spend!Row(s, "tracking", IF Spend!Children(s) = {} THEN
          Spend!Nobody ELSE Spend!First(Spend!Children(s)))
    BY <1>4 DEF Spend!Judge, costly, searching
  <2> QED
    BY <1>0, <1>1, <2>1, FirstIsOne DEF Spend!Row, Spend!Labels
<1> QED
  BY <1>2, <1>3, <1>4

(* Every step keeps what the index holds within what was spent.            *)
LEMMA UsageNext ==
    ASSUME Spend!Assumptions, SpendInv, [Spend!Next]_(Spend!vars)
    PROVE  Spend!TypeOK' /\ UsageFits'
<1> USE DEF SpendInv
<1>0. Spend!Nothing \in [Advisors -> Spend!Usage] /\ \A a \in Advisors :
        Spend!Nothing[a].cost = 0
      /\ Spend!Nothing[a].last = 0
  BY DEF Spend!Nothing, Spend!Unused, Spend!Usage, Spend!Assumptions
<1>1. CASE Spend!Begin
  <2>1. Spend!TypeOK'
    BY <1>1 DEF Spend!Begin, Spend!omp, Spend!TypeOK
  <2> QED
    BY <1>1, <2>1 DEF Spend!Begin, Spend!omp, Spend!TypeOK, UsageFits, Spend!Usage
<1>2. CASE Spend!List \/ Spend!ListFails \/ Spend!ReadFails
  <2>1. Spend!TypeOK'
    BY <1>0, <1>2
    DEF Spend!List, Spend!ListFails, Spend!ReadFails, Spend!Failed, Spend!omp,
        Spend!TypeOK
  <2> QED
    BY <1>0, <1>2, <2>1
    DEF Spend!List, Spend!ListFails, Spend!ReadFails, Spend!Failed, Spend!omp,
        Spend!TypeOK, UsageFits, Spend!Usage
<1>3. CASE Spend!Sync \/ Spend!OmpStats
  <2>1. Spend!TypeOK'
    BY <1>3 DEF Spend!Sync, Spend!OmpStats, Spend!omp, Spend!TypeOK
  <2> QED
    BY <1>3, <2>1
    DEF Spend!Sync, Spend!OmpStats, Spend!omp, Spend!TypeOK, UsageFits, Spend!Usage
<1>3a. CASE Spend!NoSync
  BY <1>3a DEF Spend!NoSync, Spend!omp, Spend!TypeOK, UsageFits
<1>4. CASE Spend!SyncFails
  <2>1. PICK done \in SUBSET Advisors :
           index' = [a \in Advisors |-> IF a \in done THEN spent[a] ELSE index[a]]
    BY <1>4 DEF Spend!SyncFails
  <2>2. index' \in [Advisors -> Spend!Usage] /\ \A a \in Advisors :
          index'[a].cost <= spent[a].cost
        /\ index'[a].last <= written
    BY <2>1 DEF Spend!Usage, Spend!TypeOK, UsageFits
  <2>3. Spend!TypeOK'
    BY <1>4, <2>2 DEF Spend!SyncFails, Spend!omp, Spend!TypeOK
  <2> QED
    BY <1>4, <2>2, <2>3 DEF Spend!SyncFails, Spend!omp, UsageFits
<1>5. CASE Spend!Read
  <2>1. rows' \subseteq [session : Sessions, label : Spend!Labels,
                         advisor : Advisors \union {Spend!Nobody}, asOf : 0 .. MaxMessages]
    BY <1>5, JudgeType DEF Spend!Read, Spend!TypeOK
  <2>2. Spend!TypeOK'
    BY <1>0, <1>5, <2>1 DEF Spend!Read, Spend!omp, Spend!TypeOK
  <2> QED
    BY <1>0, <1>5, <2>2 DEF Spend!Read, Spend!omp, UsageFits, Spend!TypeOK, Spend!Usage
<1>6. ASSUME NEW s \in Sessions, Spend!OpenOrClose(s) PROVE Spend!TypeOK' /\ UsageFits'
  BY <1>6 DEF Spend!OpenOrClose, Spend!TypeOK, UsageFits
<1>7. ASSUME NEW a \in Advisors, NEW l \in {0, 1}, NEW n \in {0, 1}, Spend!Message(a, l, n)
      PROVE  Spend!TypeOK' /\ UsageFits'
  <2>1. /\ written \in Nat /\ written' = written + 1 /\ written' \in 0 .. MaxMessages
        /\ UNCHANGED <<syncs, opened, asked, index, atBegin, midnight, phase, late, behind,
             rows>>
    BY <1>7 DEF Spend!Message, Spend!TypeOK, Spend!Assumptions
  <2>2. \A b \in Advisors : spent[b] \in Spend!Usage /\ index[b] \in Spend!Usage /\
          atBegin[b] \in Spend!Usage
    BY DEF Spend!TypeOK
  <2> DEFINE grown == [cost |-> spent[a].cost + 1, lookups |-> spent[a].lookups + l,
                       notes |-> spent[a].notes + n, last |-> written + 1]
  <2>3. grown \in Spend!Usage
    <3>1. /\ spent[a].cost + 1 \in 0 .. MaxMessages
          /\ spent[a].lookups + l \in 0 .. MaxMessages
          /\ spent[a].notes + n \in 0 .. MaxMessages
      BY <2>1, <2>2 DEF Spend!Usage, UsageFits, Spend!Assumptions
    <3>2. written + 1 \in 0 .. MaxMessages
      BY <2>1
    <3> QED
      BY <3>1, <3>2 DEF Spend!Usage
  <2>4. spent' = [spent EXCEPT ![a] = grown]
    BY <1>7 DEF Spend!Message
  <2>5. /\ grown.cost = spent[a].cost + 1
        /\ grown.lookups <= written' /\ grown.notes <= written' /\ grown.last <= written'
    BY <2>1, <2>2 DEF Spend!Usage, UsageFits
  <2> HIDE DEF grown
  <2>6. Spend!TypeOK'
    <3>1. passed' \in [Advisors -> 0 .. MaxMessages]
      BY <1>7, <2>1 DEF Spend!Message, Spend!TypeOK
    <3> QED
      BY <2>1, <2>3, <2>4, <3>1 DEF Spend!TypeOK
  <2>7. ASSUME NEW b \in Advisors
        PROVE  /\ spent'[b].cost <= written' /\ spent'[b].lookups <= written'
               /\ spent'[b].notes <= written' /\ spent'[b].last <= written'
               /\ spent[b].cost <= spent'[b].cost
    <3>1. CASE b = a
      BY <2>1, <2>2, <2>4, <2>5, <3>1 DEF Spend!TypeOK, UsageFits, Spend!Usage
    <3>2. CASE b # a
      BY <2>1, <2>2, <2>4, <3>2 DEF Spend!TypeOK, UsageFits, Spend!Usage
    <3> QED
      BY <3>1, <3>2
  <2>8. \A b \in Advisors : spent'[b] \in Spend!Usage
    BY <2>6 DEF Spend!TypeOK
  <2> QED
    BY <2>1, <2>2, <2>6, <2>7, <2>8 DEF UsageFits, Spend!Usage
<1>8. CASE Spend!Midnight
  <2>1. \A a \in Advisors : spent[a].cost \in 0 .. MaxMessages
    BY DEF Spend!TypeOK, Spend!Usage
  <2> QED
    BY <1>8, <2>1 DEF Spend!Midnight, Spend!TypeOK, UsageFits
<1>9. CASE UNCHANGED Spend!vars
  BY <1>9 DEF Spend!vars, Spend!TypeOK, UsageFits
<1> QED
  BY <1>1, <1>2, <1>3, <1>3a, <1>4, <1>5, <1>6, <1>7, <1>8, <1>9 DEF Spend!Next

(* A message is later than all that is indexed, and an index run brings in *)
(* what there is.                                                          *)
LEMMA DatesNext ==
    ASSUME Spend!Assumptions, SpendInv, [Spend!Next]_(Spend!vars), Spend!TypeOK' PROVE DatesFit'
<1> USE DEF SpendInv
<1>1. \A a \in Advisors : /\ spent[a].cost \in Nat /\ spent[a].last \in Nat
                         /\ index[a].cost \in Nat /\ index[a].last \in Nat
                         /\ passed[a] \in Nat /\ written \in Nat /\ AdvisorCost \in Nat
                         /\ index[a].last <= written
  BY DEF Spend!TypeOK, Spend!Usage, UsageFits, Spend!Assumptions
<1>2. CASE Spend!Sync \/ Spend!OmpStats
  <2>1. index' = spent /\ UNCHANGED <<passed, spent, written>>
    BY <1>2 DEF Spend!Sync, Spend!OmpStats, Spend!omp
  <2>2. Whole'
    BY <1>1, <2>1 DEF DatesFit, Whole
  <2> QED
    BY <2>1, <2>2 DEF DatesFit
<1>3. CASE Spend!SyncFails
  BY <1>3 DEF Spend!SyncFails, Spend!omp, DatesFit
<1>4. ASSUME NEW a \in Advisors, NEW l, NEW n, Spend!Message(a, l, n) PROVE DatesFit'
  <2>1. /\ written' = written + 1 /\ UNCHANGED <<syncs, index, phase, late>>
        /\ \A b \in Advisors :
              /\ b # a => spent'[b] = spent[b] /\ passed'[b] = passed[b]
              /\ b = a => spent'[b].cost = spent[b].cost + 1
              /\ passed'[b] = passed[b] \/ (/\ AdvisorCost > 0 /\ spent'[b].cost = AdvisorCost
                                           /\ passed'[b] = written + 1)
    <3>1. /\ written' = written + 1 /\ UNCHANGED <<syncs, index, phase, late>>
          /\ spent' = [spent EXCEPT ![a] = [cost |-> @.cost + 1, lookups |-> @.lookups + l,
                                             notes |-> @.notes + n, last |-> written + 1]]
          /\ passed' = [passed EXCEPT ![a] = IF AdvisorCost > 0 /\ spent'[a].cost = AdvisorCost
                                             THEN written + 1 ELSE @]
          /\ spent \in [Advisors -> Spend!Usage] /\ passed \in [Advisors -> 0 .. MaxMessages]
      BY <1>4 DEF Spend!Message, Spend!TypeOK
    <3> QED
      BY <3>1
  <2>2. \A b \in Advisors : passed'[b] <= written'
                           /\ (passed'[b] # 0 => AdvisorCost > 0 /\
                                spent'[b].cost >= AdvisorCost)
    BY <1>1, <2>1 DEF DatesFit
  <2>3. ASSUME Whole PROVE Whole'
    <3> SUFFICES ASSUME NEW b \in Advisors, NEW c \in Advisors,
                          passed'[b] \in 1 .. index[c].last
                 PROVE  index[b].cost >= AdvisorCost
      BY <2>1 DEF Whole
    <3>1. passed'[b] = passed[b]
      BY <1>1, <2>1
    <3> QED
      BY <2>3, <3>1 DEF Whole
  <2> QED
    BY <2>1, <2>2, <2>3 DEF DatesFit
<1>5. CASE \/ Spend!Begin \/ Spend!List \/ Spend!ListFails \/ Spend!NoSync \/ Spend!Read \/ Spend!ReadFails \/ Spend!Midnight
           \/ (\E s \in Sessions : Spend!OpenOrClose(s)) \/ UNCHANGED Spend!vars
  <2>1. UNCHANGED <<syncs, spent, index, passed, written>>
    BY <1>5
    DEF Spend!Begin, Spend!List, Spend!ListFails, Spend!Failed, Spend!NoSync,
        Spend!Read, Spend!ReadFails, Spend!Midnight, Spend!OpenOrClose, Spend!omp,
        Spend!vars
  <2>2. ~syncs' \/ (phase' = "read" /\ ~late') => ~syncs \/ (phase = "read" /\ ~late)
    BY <1>5
    DEF Spend!Begin, Spend!List, Spend!ListFails, Spend!Failed, Spend!NoSync,
        Spend!Read, Spend!ReadFails, Spend!Midnight, Spend!OpenOrClose, Spend!omp,
        Spend!vars
  <2> QED
    BY <2>1, <2>2 DEF DatesFit, Whole
<1> QED
  BY <1>2, <1>3, <1>4, <1>5 DEF Spend!Next

(* The index only grows, so what a row shows of it stays true.             *)
LEMMA RowsNext ==
    ASSUME Spend!Assumptions, SpendInv, [Spend!Next]_(Spend!vars), Spend!TypeOK' PROVE RowsFit'
<1>1. \A a \in Advisors : index[a].cost > 0 /\ Spend!OverCost(a)
                             => index'[a].cost > 0 /\ Spend!OverCost(a)'
  <2>1. \A a \in Advisors : index[a].cost <= index'[a].cost
    <3>1. CASE UNCHANGED index
      BY <3>1 DEF SpendInv, Spend!TypeOK, UsageFits, Spend!Usage
    <3>2. CASE Spend!Sync \/ Spend!OmpStats
      BY <3>2 DEF Spend!Sync, Spend!OmpStats, SpendInv, UsageFits
    <3>3. CASE Spend!SyncFails
      BY <3>3 DEF Spend!SyncFails, SpendInv, Spend!TypeOK, UsageFits, Spend!Usage
    <3> QED
      BY <3>1, <3>2, <3>3
      DEF Spend!Next, Spend!Begin, Spend!List, Spend!ListFails, Spend!Failed,
          Spend!NoSync, Spend!Read, Spend!ReadFails, Spend!OpenOrClose, Spend!Message,
          Spend!Midnight, Spend!vars
  <2> SUFFICES ASSUME NEW a \in Advisors, index[a].cost > 0, Spend!OverCost(a)
               PROVE  index'[a].cost > 0 /\ Spend!OverCost(a)'
    OBVIOUS
  <2>2. index[a].cost \in Nat /\ index'[a].cost \in Nat /\ AdvisorCost \in Nat
    BY DEF SpendInv, Spend!TypeOK, Spend!Usage, Spend!Assumptions
  <2> QED
    BY <2>1, <2>2 DEF Spend!OverCost, Spend!Cost
<1>2. CASE rows' \subseteq rows
  BY <1>1, <1>2 DEF SpendInv, RowsFit
<1>3. CASE Spend!Read
  <2> SUFFICES ASSUME NEW r \in rows', r.label = "advisor cost"
               PROVE  \E a \in Advisors : SessionOf[a] = r.session /\ index'[a].cost > 0
                                             /\ Spend!OverCost(a)'
    BY DEF RowsFit
  <2>1. PICK s \in asked : r = Spend!Judge(s)
    BY <1>3 DEF Spend!Read
  <2>2. r.session = s /\ \E a \in Advisors : SessionOf[a] = s /\ index[a].cost > 0 /\
          Spend!OverCost(a)
    BY <2>1, JudgeCost DEF Spend!Children
  <2> QED
    BY <1>1, <2>2
<1> QED
  BY <1>2, <1>3
  DEF Spend!Next, Spend!Begin, Spend!List, Spend!ListFails, Spend!Failed,
      Spend!NoSync, Spend!Sync, Spend!SyncFails, Spend!ReadFails, Spend!OpenOrClose,
      Spend!Message, Spend!Midnight, Spend!OmpStats, Spend!vars

(* What a reading of the index tells, from the rows it makes.              *)
LEMMA AtRead ==
    ASSUME Spend!Assumptions, SpendInv, Spend!Read
    PROVE  LET before == Spend!Flagged("advisor cost", rows)
               after == Spend!Flagged("advisor cost", rows')
               judged == {r.session : r \in rows'}
           IN  /\ after \subseteq Spend!Costly(spent)
               /\ before \intersect judged \subseteq after
               /\ ~behind' => \A r \in rows' :
                                 r.session \in Spend!CostlyBy(r.asOf) => r.session \in after
               /\ syncs /\ ~behind' => Spend!Costly(atBegin) \intersect judged \subseteq after
<1> DEFINE after == Spend!Flagged("advisor cost", rows')
           judged == {r.session : r \in rows'}
<1>1. \A s : s \in judged <=> s \in asked
  BY JudgeCost DEF Spend!Read
<1>2. \A s : s \in after <=> s \in asked /\ \E a \in Spend!Children(s) : Spend!OverCost(a)
  <2>1. \A r \in rows' : \E s \in asked : r = Spend!Judge(s)
    BY DEF Spend!Read
  <2>2. \A s \in asked : Spend!Judge(s) \in rows'
    BY DEF Spend!Read
  <2>3. \A s : s \in after <=> \E r \in rows' : r.label = "advisor cost" /\ r.session = s
    BY DEF Spend!Flagged
  <2>4. ASSUME NEW s, s \in after
        PROVE  s \in asked /\ \E a \in Spend!Children(s) : Spend!OverCost(a)
    <3>1. PICK r \in rows' : r.label = "advisor cost" /\ r.session = s
      BY <2>3, <2>4
    <3>2. PICK t \in asked : r = Spend!Judge(t)
      BY <2>1
    <3>3. t = s
      BY <3>1, <3>2, JudgeCost
    <3> QED
      BY <3>1, <3>2, <3>3, JudgeCost
  <2>5. ASSUME NEW s \in asked, \E a \in Spend!Children(s) : Spend!OverCost(a) PROVE s \in after
    BY <2>2, <2>3, <2>5, JudgeCost
  <2> QED
    BY <2>4, <2>5
<1> HIDE DEF after, judged
<1>3. \A a \in Advisors : /\ index[a].cost \in Nat /\ spent[a].cost \in Nat
                         /\ atBegin[a].cost \in Nat /\ index[a].cost <= spent[a].cost
  BY DEF SpendInv, Spend!TypeOK, UsageFits, Spend!Usage
<1>4. AdvisorCost \in Nat
  BY DEF Spend!Assumptions
<1>5. after \subseteq Spend!Costly(spent)
  <2> SUFFICES ASSUME NEW s \in after PROVE s \in Spend!Costly(spent)
    OBVIOUS
  <2>1. PICK a \in Advisors : SessionOf[a] = s /\ Spend!OverCost(a)
    BY <1>2 DEF Spend!Children
  <2>2. AdvisorCost > 0 /\ spent[a].cost >= AdvisorCost
    <3>1. AdvisorCost > 0 /\ index[a].cost >= AdvisorCost
      BY <2>1 DEF Spend!OverCost, Spend!Cost
    <3> QED
      BY <1>3, <1>4, <3>1
  <2> QED
    BY <2>1, <2>2 DEF Spend!Costly
<1>6. Spend!Flagged("advisor cost", rows) \intersect judged \subseteq after
  BY <1>1, <1>2 DEF SpendInv, RowsFit, Spend!Flagged, Spend!Children
<1>8. ASSUME ~behind', NEW r \in rows', r.session \in Spend!CostlyBy(r.asOf)
      PROVE  r.session \in after
  <2>1. PICK s \in asked : r = Spend!Judge(s)
    BY DEF Spend!Read
  <2>2. r.session = s /\ r.asOf = Spend!Newest
    BY <2>1, JudgeCost, JudgeType DEF SpendInv, Spend!TypeOK
  <2>3. PICK a \in Advisors : SessionOf[a] = s /\ passed[a] \in 1 .. Spend!Newest
    BY <1>8, <2>2 DEF Spend!CostlyBy
  <2>4. PICK b \in Advisors : Spend!Newest = index[b].last
    BY <2>3, NewestIsOne DEF SpendInv
  <2>5. Whole
    BY <1>8 DEF Spend!Read, SpendInv, DatesFit
  <2>6. AdvisorCost > 0 /\ index[a].cost >= AdvisorCost
    BY <2>3, <2>4, <2>5 DEF Whole, SpendInv, DatesFit
  <2> QED
    BY <1>2, <1>3, <1>4, <2>2, <2>3, <2>6 DEF Spend!Children, Spend!OverCost, Spend!Cost
<1>7. ASSUME syncs, ~behind' PROVE Spend!Costly(atBegin) \intersect judged \subseteq after
  <2> SUFFICES ASSUME NEW s \in Spend!Costly(atBegin), s \in asked PROVE s \in after
    BY <1>1
  <2>1. PICK a \in Advisors : /\ SessionOf[a] = s /\ AdvisorCost > 0
                              /\ atBegin[a].cost >= AdvisorCost
    BY DEF Spend!Costly
  <2>2. atBegin[a].cost <= index[a].cost
    BY <1>7 DEF Spend!Read, SpendInv, UsageFits
  <2>3. index[a].cost >= AdvisorCost /\ index[a].cost > 0
    BY <1>3, <1>4, <2>1, <2>2
  <2> QED
    BY <1>2, <2>1, <2>3 DEF Spend!Children, Spend!OverCost, Spend!Cost
<1> QED
  BY <1>5, <1>6, <1>7, <1>8 DEF after, judged

(* spend.go, judge, and poller.go, sync: unless its index command failed,  *)
(* which it says, a poll flags the sessions whose advisors had passed the  *)
(* limit by the date its rows bear, and by its beginning if there is a     *)
(* command; it flags no other, and takes the flag from no session that is  *)
(* still listed; for any sessions, advisors and limits, with a command and *)
(* without.                                                                *)
THEOREM RunawaysAreTold ==
    ASSUME Spend!Assumptions PROVE Spend!Spec => RunawayCostIsTold
<1>1. Spend!Init => SpendInv
  BY SpendInitFits
<1>2. SpendInv /\ [Spend!Next]_(Spend!vars) => SpendInv'
  BY UsageNext, DatesNext, RowsNext DEF SpendInv
<1>3. SpendInv /\ [Spend!Next]_(Spend!vars) =>
       [LET before == Spend!Flagged("advisor cost", rows)
            after == Spend!Flagged("advisor cost", rows')
            judged == {r.session : r \in rows'}
        IN  Spend!Read => /\ after \subseteq Spend!Costly(spent)
                          /\ before \intersect judged \subseteq after
                          /\ ~behind' => \A r \in rows' :
                                            r.session \in Spend!CostlyBy(r.asOf) =>
                                              r.session \in after
                          /\ syncs /\ ~behind'
                                => Spend!Costly(atBegin) \intersect judged \subseteq after]_(Spend!vars)
  BY AtRead
<1> QED
  BY <1>1, <1>2, <1>3, PTL DEF Spend!Spec, RunawayCostIsTold, Spend!RunawayCostIsTold

-----------------------------------------------------------------------------
(***************************************************************************)
(* The notes.  For each path, the scan is before its directory, before the *)
(* file, or past it, when all that can be said of it has been said.        *)
(***************************************************************************)

(* The library's facts count the sets of this adapter.                     *)
LEMMA NotesCounts == ASSUME NEW S PROVE Notes!Cardinality(S) = Cardinality(S)
BY DEF Notes!Cardinality, Cardinality

(* ... and tell that they are finite.                                      *)
LEMMA NotesFinite == ASSUME NEW S PROVE Notes!IsFiniteSet(S) = IsFiniteSet(S)
BY DEF Notes!IsFiniteSet, IsFiniteSet

(* Where a scan is with one path: what it shows of it is what the file has *)
(* been, and once the file has been passed all that can be said of it has  *)
(* been.                                                                   *)
ShownWas(p) ==
    \A n \in scanned : n.path = p =>
        n.is \in were[p] /\ p \notin listed /\ p[1] \notin Notes!Range(todo)

ShownOnce(p) == \A n, m \in scanned : n.path = p /\ m.path = p => n = m

ListedPassed(p) ==
    p[1] \notin Notes!Range(todo) /\ p \notin listed =>
        /\ were[p] \subseteq Notes!Contents => \E n \in scanned : n.path = p
        /\ were[p] \subseteq Notes!Unread => p \in trouble

ListedDirs(p) ==
    p[1] \notin Notes!Range(todo) /\ were[p] = {"hidden"} => Notes!Itself(p[1]) \in trouble

PathFits(p) ==
    /\ Notes!Seen(p) \in were[p]
    /\ p \in listed => p[1] \notin Notes!Range(todo)
    /\ ShownWas(p) /\ ShownOnce(p) /\ ListedPassed(p) /\ ListedDirs(p)

EachDirOnce == \A i, j \in DOMAIN todo : todo[i] = todo[j] => i = j

ScanFits ==
    IF scanning THEN EachDirOnce /\ \A p \in Notes!Paths : PathFits(p)
    ELSE scanned = {} /\ trouble = {} /\ listed = {} /\ todo = <<>>

NotesInv == Notes!TypeOK /\ ScanFits

(* Nothing has been scanned.                                               *)
LEMMA InitTyped ==
    ASSUME Notes!Assumptions, Notes!Init PROVE NotesInv
<1>1. disk \in [Notes!Paths -> Notes!Files] /\
        were \in [Notes!Paths -> SUBSET (Notes!Files \union {"hidden"})]
  BY DEF Notes!Init, Notes!Nothing, Notes!Files
<1>2. todo \in Seq(Notes!Range(Dirs)) /\ changes \in 0 .. MaxFileEdits
  BY DEF Notes!Assumptions, Notes!Init
<1> QED
  BY <1>1, <1>2 DEF Notes!Init, NotesInv, Notes!TypeOK, ScanFits

(* What a read of a path meets is a file or a closed directory.            *)
LEMMA SeenType ==
    ASSUME Notes!TypeOK, NEW p \in Notes!Paths
    PROVE  Notes!Seen(p) \in Notes!Files \union {"hidden"}
BY DEF Notes!TypeOK, Notes!Seen

(* The same, after a step.                                                 *)
LEMMA SeenTypeNext ==
    ASSUME Notes!TypeOK', NEW p \in Notes!Paths
    PROVE  Notes!Seen(p)' \in Notes!Files \union {"hidden"}
BY DEF Notes!TypeOK, Notes!Seen

(* The rest of a list has what the list has but its head.                  *)
LEMMA TailRange ==
    ASSUME NEW S, NEW s \in Seq(S), s # <<>>
    PROVE  /\ Tail(s) \in Seq(S) /\ Head(s) \in S
           /\ Notes!Range(s) = {Head(s)} \union Notes!Range(Tail(s))
           /\ (\A i, j \in DOMAIN s : s[i] = s[j] => i = j) =>
                 /\ Head(s) \notin Notes!Range(Tail(s))
                 /\ \A i, j \in DOMAIN Tail(s) : Tail(s)[i] = Tail(s)[j] => i = j
<1> DEFINE t == Tail(s)
<1>1. t \in Seq(S) /\ Len(t) = Len(s) - 1 /\ Len(s) \in Nat /\ Len(s) > 0
  OBVIOUS
<1>2. \A i \in 1 .. Len(t) : t[i] = s[i + 1]
  OBVIOUS
<1>3. Head(s) = s[1] /\ Head(s) \in S
  BY <1>1
<1>4. DOMAIN s = 1 .. Len(s) /\ DOMAIN t = 1 .. Len(t)
  BY <1>1
<1> HIDE DEF t
<1>5. Notes!Range(s) = {s[1]} \union Notes!Range(t)
  <2>1. ASSUME NEW i \in DOMAIN s PROVE s[i] \in {s[1]} \union Notes!Range(t)
    <3>1. CASE i = 1
      BY <3>1
    <3>2. CASE i # 1
      <4>1. i - 1 \in DOMAIN t /\ t[i - 1] = s[i]
        BY <3>2, <2>1, <1>1, <1>2, <1>4
      <4> QED
        BY <4>1 DEF Notes!Range
    <3> QED
      BY <3>1, <3>2
  <2>2. ASSUME NEW i \in DOMAIN t PROVE t[i] \in Notes!Range(s)
    <3>1. i + 1 \in DOMAIN s /\ t[i] = s[i + 1]
      BY <2>2, <1>1, <1>2, <1>4
    <3> QED
      BY <3>1 DEF Notes!Range
  <2>3. s[1] \in Notes!Range(s)
    BY <1>1, <1>4 DEF Notes!Range
  <2> QED
    BY <2>1, <2>2, <2>3 DEF Notes!Range
<1>6. ASSUME \A i, j \in DOMAIN s : s[i] = s[j] => i = j
      PROVE  /\ s[1] \notin Notes!Range(t)
             /\ \A i, j \in DOMAIN t : t[i] = t[j] => i = j
  <2>1. ASSUME NEW i \in DOMAIN t PROVE t[i] # s[1]
    <3>1. i + 1 \in DOMAIN s /\ 1 \in DOMAIN s /\ t[i] = s[i + 1] /\ i + 1 # 1
      BY <2>1, <1>1, <1>2, <1>4
    <3> QED
      BY <3>1, <1>6
  <2>2. ASSUME NEW i \in DOMAIN t, NEW j \in DOMAIN t, t[i] = t[j] PROVE i = j
    <3>1. i + 1 \in DOMAIN s /\ j + 1 \in DOMAIN s /\ s[i + 1] = s[j + 1]
      BY <2>2, <1>1, <1>2, <1>4
    <3>2. i + 1 = j + 1
      BY <3>1, <1>6
    <3> QED
      BY <3>2, <1>4, <1>1
  <2> QED
    BY <2>1, <2>2 DEF Notes!Range
<1> QED
  BY <1>1, <1>3, <1>5, <1>6 DEF t

(* Every step keeps the types.                                             *)
LEMMA TypedNext ==
    ASSUME Notes!Assumptions, Notes!TypeOK, [Notes!Next]_(Notes!vars) PROVE Notes!TypeOK'
<1>1. CASE Notes!Begin
  <2>1. \A p \in Notes!Paths : Notes!Seen(p) \in Notes!Files \union {"hidden"}
    BY SeenType
  <2>2. were' \in [Notes!Paths -> SUBSET (Notes!Files \union {"hidden"})]
    BY <1>1, <2>1 DEF Notes!Begin
  <2> QED
    BY <1>1, <2>2 DEF Notes!TypeOK, Notes!Begin, Notes!Assumptions, Notes!dirs
<1>2. CASE Notes!ReadDir
  <2>1. Tail(todo) \in Seq(Notes!Range(Dirs)) /\ Head(todo) \in Notes!Range(Dirs)
    BY <1>2, TailRange DEF Notes!TypeOK, Notes!ReadDir
  <2>2. {Notes!Itself(d) : d \in closed \intersect {Head(todo)}} \subseteq Notes!Subjects
    BY <2>1 DEF Notes!Itself, Notes!Subjects
  <2> QED
    BY <1>2, <2>1, <2>2 DEF Notes!TypeOK, Notes!ReadDir, Notes!dirs
<1>3. CASE Notes!Store
  BY <1>3 DEF Notes!TypeOK, Notes!Store, Notes!dirs, Notes!Nothing, Notes!Paths
<1>4. ASSUME NEW p \in Notes!Paths, Notes!Read(p) PROVE Notes!TypeOK'
  <2>1. {n \in [path : {p}, is : Notes!Contents] : n.is = Notes!Seen(p)}
            \subseteq [path : Notes!Paths, is : Notes!Contents]
    OBVIOUS
  <2>2. {q \in {p} : Notes!Trouble(q)} \subseteq Notes!Subjects
    BY DEF Notes!Subjects, Notes!Paths
  <2> QED
    BY <1>4, <2>1, <2>2 DEF Notes!TypeOK, Notes!Read, Notes!dirs
<1>5. ASSUME Notes!Changes, disk' \in [Notes!Paths -> Notes!Files],
               closed' \subseteq Notes!Range(Dirs)
      PROVE  Notes!TypeOK'
  <2>1. \A p \in Notes!Paths : Notes!Seen(p)' \in Notes!Files \union {"hidden"}
    BY <1>5 DEF Notes!Seen
  <2>2. were' \in [Notes!Paths -> SUBSET (Notes!Files \union {"hidden"})]
    BY <1>5, <2>1 DEF Notes!Changes, Notes!TypeOK
  <2>3. changes' \in 0 .. MaxFileEdits
    BY <1>5 DEF Notes!Changes, Notes!TypeOK, Notes!Assumptions
  <2> QED
    BY <1>5, <2>2, <2>3 DEF Notes!TypeOK, Notes!Changes
<1>6. ASSUME NEW p \in Notes!Paths, NEW file \in Notes!Files, Notes!Write(p, file)
      PROVE  Notes!TypeOK'
  BY <1>5, <1>6 DEF Notes!Write, Notes!TypeOK
<1>7. ASSUME NEW d \in Notes!Range(Dirs), Notes!OpenOrClose(d) PROVE Notes!TypeOK'
  BY <1>5, <1>7 DEF Notes!OpenOrClose, Notes!TypeOK
<1>8. CASE UNCHANGED Notes!vars
  BY <1>8 DEF Notes!vars, Notes!TypeOK
<1> QED
  BY <1>1, <1>2, <1>3, <1>4, <1>6, <1>7, <1>8 DEF Notes!Next

(* A change makes of a path what somebody who reads it may see from now on.*)
LEMMA ChangeFits ==
    ASSUME NotesInv, Notes!Changes PROVE ScanFits'
<1>1. CASE ~scanning
  BY <1>1 DEF NotesInv, ScanFits, Notes!Changes
<1>2. CASE scanning
  <2>1. scanning' /\ EachDirOnce'
    BY <1>2 DEF NotesInv, ScanFits, Notes!Changes, EachDirOnce
  <2>2. ASSUME NEW p \in Notes!Paths PROVE PathFits(p)'
    <3>1. PathFits(p)
      BY <1>2 DEF NotesInv, ScanFits
    <3>2. were'[p] = were[p] \union {Notes!Seen(p)'}
      BY <1>2 DEF Notes!Changes
    <3>3. UNCHANGED <<todo, listed, scanned, trouble>>
      BY DEF Notes!Changes
    <3>4. were'[p] = {"hidden"} => were[p] = {"hidden"}
      BY <3>1, <3>2 DEF PathFits
    <3> QED
      BY <3>1, <3>2, <3>3, <3>4
      DEF PathFits, ShownWas, ShownOnce, ListedPassed, ListedDirs
  <2> QED
    BY <2>1, <2>2 DEF ScanFits
<1> QED
  BY <1>1, <1>2

(* A scan begins with all directories before it.                           *)
LEMMA NotesBeginFits ==
    ASSUME Notes!Assumptions, NotesInv, Notes!Begin PROVE ScanFits'
<1>1. scanning' /\ EachDirOnce'
  BY DEF Notes!Begin, Notes!Assumptions, EachDirOnce
<1>2. ASSUME NEW p \in Notes!Paths PROVE PathFits(p)'
  <2>1. were'[p] = {Notes!Seen(p)} /\ Notes!Seen(p)' = Notes!Seen(p)
    BY DEF Notes!Begin, Notes!dirs, Notes!Seen
  <2>2. scanned' = {} /\ listed' = {} /\ todo' = Dirs
    BY DEF Notes!Begin, NotesInv, ScanFits
  <2>3. p[1] \in Notes!Range(Dirs)
    BY DEF Notes!Paths
  <2> QED
    BY <2>1, <2>2, <2>3 DEF PathFits, ShownWas, ShownOnce, ListedPassed, ListedDirs
<1> QED
  BY <1>1, <1>2 DEF ScanFits

(* A directory is listed: what it hides or lacks is passed.                *)
LEMMA ReadDirFits ==
    ASSUME NotesInv, Notes!ReadDir, Notes!Assumptions PROVE ScanFits'
<1>0. scanning /\ todo \in Seq(Notes!Range(Dirs)) /\ todo # <<>> /\ EachDirOnce /\ listed = {}
  BY DEF Notes!ReadDir, NotesInv, Notes!TypeOK, ScanFits
<1>1. /\ Notes!Range(todo) = {Head(todo)} \union Notes!Range(Tail(todo))
      /\ Head(todo) \notin Notes!Range(Tail(todo))
      /\ EachDirOnce'
  BY <1>0, TailRange DEF EachDirOnce, Notes!ReadDir
<1>2. ASSUME NEW p \in Notes!Paths PROVE PathFits(p)'
  <2>1. PathFits(p)
    BY <1>0, <1>2 DEF NotesInv, ScanFits
  <2>2. /\ Notes!Seen(p)' = Notes!Seen(p) /\ were' = were /\ scanned' = scanned
        /\ todo' = Tail(todo)
        /\ p \in listed' <=> p[1] = Head(todo) /\ Notes!Seen(p) \notin {"hidden", NoFile}
    BY DEF Notes!ReadDir, Notes!dirs, Notes!Seen
  <2>3. ShownWas(p)' /\ ShownOnce(p)'
    BY <1>1, <2>1, <2>2 DEF PathFits, ShownWas, ShownOnce
  <2>4. trouble \subseteq trouble'
    BY DEF Notes!ReadDir
  <2>5. CASE p[1] = Head(todo)
    <3>1. Notes!Seen(p) \in were[p]
      BY <2>1 DEF PathFits
    <3>2. ASSUME p \notin listed'
          PROVE  ~(were[p] \subseteq Notes!Contents) /\ ~(were[p] \subseteq Notes!Unread)
      BY <2>2, <2>5, <3>1, <3>2 DEF Notes!Contents, Notes!Unread, Notes!Assumptions
    <3>3. ASSUME were[p] = {"hidden"} PROVE Notes!Itself(p[1]) \in trouble'
      <4>1. p[1] \in closed
        <5>1. disk[p] # "hidden"
          BY DEF NotesInv, Notes!TypeOK, Notes!Files, Notes!Contents, Notes!Assumptions
        <5> QED
          BY <3>1, <3>3, <5>1 DEF Notes!Seen
      <4> QED
        BY <2>5, <4>1 DEF Notes!ReadDir
    <3> QED
      BY <1>1, <2>2, <2>3, <2>5, <3>1, <3>2, <3>3 DEF PathFits, ListedPassed, ListedDirs
  <2>6. CASE p[1] # Head(todo)
    BY <1>0, <1>1, <2>1, <2>2, <2>3, <2>4, <2>6 DEF PathFits, ListedPassed, ListedDirs
  <2> QED
    BY <2>5, <2>6
<1> QED
  BY <1>0, <1>1, <1>2 DEF ScanFits, Notes!ReadDir

(* A file is read: it is shown, or told as trouble, or gone.               *)
LEMMA ReadFits ==
    ASSUME NotesInv, NEW q \in Notes!Paths, Notes!Read(q), Notes!Assumptions PROVE ScanFits'
<1>0. scanning /\ EachDirOnce' /\ scanning' /\ q \in listed
  BY DEF Notes!Read, NotesInv, ScanFits, EachDirOnce
<1>1. ASSUME NEW p \in Notes!Paths PROVE PathFits(p)'
  <2>1. PathFits(p)
    BY <1>0 DEF NotesInv, ScanFits
  <2>2. /\ Notes!Seen(p)' = Notes!Seen(p) /\ were' = were /\ todo' = todo
        /\ listed' = listed \ {q}
        /\ trouble \subseteq trouble'
    BY DEF Notes!Read, Notes!dirs, Notes!Seen
  <2>3. CASE p # q
    <3>1. \A n \in scanned' : n.path = p => n \in scanned
      BY <2>3 DEF Notes!Read
    <3>2. scanned \subseteq scanned'
      BY DEF Notes!Read
    <3> QED
      BY <2>1, <2>2, <2>3, <3>1, <3>2
      DEF PathFits, ShownWas, ShownOnce, ListedPassed, ListedDirs
  <2>4. CASE p = q
    <3>1. \A n \in scanned : n.path # p
      BY <1>0, <2>1, <2>4 DEF PathFits, ShownWas
    <3>2. p[1] \notin Notes!Range(todo) /\ Notes!Seen(p) \in were[p]
      BY <1>0, <2>1, <2>4 DEF PathFits
    <3>3. \A n \in scanned' : n.path = p => n = [path |-> p, is |-> Notes!Seen(p)]
      BY <2>4, <3>1 DEF Notes!Read
    <3>4. Notes!Seen(p) \in Notes!Contents => [path |-> p, is |-> Notes!Seen(p)] \in scanned'
      BY <2>4 DEF Notes!Read
    <3>5. Notes!Seen(p) \in Notes!Unread => p \in trouble'
      BY <2>4 DEF Notes!Read, Notes!Trouble, Notes!Unread
    <3>6. ListedPassed(p)'
      BY <2>2, <3>2, <3>4, <3>5 DEF ListedPassed
    <3>7. ShownWas(p)' /\ ShownOnce(p)'
      BY <2>2, <2>4, <3>2, <3>3 DEF ShownWas, ShownOnce
    <3> QED
      BY <2>1, <2>2, <2>4, <3>2, <3>6, <3>7 DEF PathFits, ListedDirs
  <2> QED
    BY <2>3, <2>4
<1> QED
  BY <1>0, <1>1 DEF ScanFits

(* Every step keeps the invariant.                                         *)
LEMMA FitsNext ==
    ASSUME Notes!Assumptions, NotesInv, [Notes!Next]_(Notes!vars) PROVE NotesInv'
<1>1. Notes!TypeOK'
  BY TypedNext DEF NotesInv
<1>2. CASE Notes!Store
  BY <1>1, <1>2 DEF Notes!Store, NotesInv, ScanFits
<1>3. CASE UNCHANGED Notes!vars
  <2>1. \A p \in Notes!Paths : PathFits(p)' <=> PathFits(p)
    BY <1>3
    DEF Notes!vars, PathFits, Notes!Seen, ShownWas, ShownOnce, ListedPassed,
        ListedDirs
  <2> QED
    BY <1>1, <1>3, <2>1 DEF Notes!vars, NotesInv, ScanFits, EachDirOnce
<1> QED
  BY <1>1, <1>2, <1>3, ChangeFits, NotesBeginFits, ReadDirFits, ReadFits
  DEF Notes!Next, Notes!Write, Notes!OpenOrClose, NotesInv

(* What a finished scan stores of a path.                                  *)
LEMMA AtStore ==
    ASSUME NotesInv, Notes!Store, NEW p \in Notes!Paths
    PROVE  LET items == {n \in notes' : n.path = p}
           IN  /\ Notes!Cardinality(items) <= 1
               /\ \A n \in items : n.is \in were[p]
               /\ were[p] \subseteq Notes!Contents => items # {}
               /\ were[p] \subseteq Notes!Unread => p \in problems'
               /\ were[p] = {"hidden"} => Notes!Itself(p[1]) \in problems'
<1> DEFINE items == {n \in notes' : n.path = p}
<1>1. PathFits(p) /\ listed = {} /\ todo = <<>> /\ notes' = scanned /\ problems' = trouble
  BY DEF Notes!Store, NotesInv, ScanFits
<1>2. Notes!Range(todo) = {}
  BY <1>1 DEF Notes!Range
<1>3. Notes!Cardinality(items) <= 1
  <2>1. CASE items = {}
    BY <2>1, NotesCounts, NotesFinite, FS_EmptySet
  <2>2. ASSUME NEW n \in items PROVE Notes!Cardinality(items) <= 1
    <3>1. items = {n}
      BY <1>1, <2>2 DEF PathFits, ShownOnce
    <3> QED
      BY <3>1, NotesCounts, NotesFinite, FS_Singleton
  <2> QED
    BY <2>1, <2>2
<1> QED
  BY <1>1, <1>2, <1>3 DEF PathFits, ShownWas, ListedPassed, ListedDirs

(* notes.go, Scan: a note that was readable all through a scan is listed   *)
(* once, with a content it had meanwhile; what could not be read all       *)
(* through it is told; nothing that was never there is listed; for any     *)
(* directories, names and edits.                                           *)
THEOREM ScanTellsWhatWasThere ==
    ASSUME Notes!Assumptions PROVE Notes!Spec => ScanIsOfWhatWasThere
<1>1. Notes!Init => NotesInv
  BY InitTyped
<1>2. NotesInv /\ [Notes!Next]_(Notes!vars) => NotesInv'
  BY FitsNext
<1>3. NotesInv /\ [Notes!Next]_(Notes!vars) =>
       [Notes!Store => \A p \in Notes!Paths :
          LET items == {n \in notes' : n.path = p}
          IN  /\ Notes!Cardinality(items) <= 1
              /\ \A n \in items : n.is \in were[p]
              /\ were[p] \subseteq Notes!Contents => items # {}
              /\ were[p] \subseteq Notes!Unread => p \in problems'
              /\ were[p] = {"hidden"} => Notes!Itself(p[1]) \in problems']_(Notes!vars)
  BY AtStore
<1> QED
  BY <1>1, <1>2, <1>3, PTL
  DEF Notes!Spec, ScanIsOfWhatWasThere, Notes!ScanIsOfWhatWasThere

-----------------------------------------------------------------------------
(***************************************************************************)
(* Herdr.  Somebody always answers for what is on the screen: a request    *)
(* that still has to choose the workspace, the tab or the pane, or one     *)
(* that chose them all; whichever step comes last, it is the one it came   *)
(* from.                                                                   *)
(***************************************************************************)

(* A pane is in a tab that is open.                                        *)
HerdrPlacesFit == \A p \in Panes : paneIn[p] # NoPlace => tabIn[paneIn[p]] # NoPlace

(* Herdr has said where the tab or the pane is.                            *)
Placed(q) ==
    /\ q.step \in {"workspace", "tab", "agent"} \/ q.answer = "ok"
    /\ q.target.kind # "workspace"

RequestFits(q) ==
    /\ q.step # "none" \/ q.answer = "ok" => q.target \in Herdr!Targets
    /\ q.step \in {"get", "tab", "agent"} => q.target.kind # "workspace"
    /\ Placed(q) => /\ q.at.tab \in Tabs /\ q.at.workspace \in Workspaces
                    /\ q.at.agent => q.target.kind = "pane"
    /\ q.step = "agent" => q.at.agent
    /\ q.answer = "ok" => q.step = "none"

(* It is there still.                                                      *)
StillThere(q) ==
    Placed(q) => /\ q.at.workspace = tabIn[q.at.tab]
                 /\ q.target.kind = "tab" => q.at.tab = q.target.id
                 /\ q.target.kind = "pane" => q.at.tab = paneIn[q.target.id]

(* Somebody answers for what is on the screen: a request that still has to *)
(* choose the workspace, the tab in it or the pane in that, or one that has*)
(* chosen them all.                                                        *)
ScreenIsSomeones ==
    \/ \E r \in Requests : request[r].step \in {"get", "workspace"}
    \/ \E r \in Requests : /\ request[r].step = "tab"
                           /\ request[r].at.workspace = screen.workspace
    \/ \E r \in Requests : request[r].step = "agent" /\ request[r].at.tab = Herdr!TabOnScreen
    \/ \E r \in Requests : request[r].answer = "ok" /\ Herdr!InFront(request[r])

HerdrInv ==
    /\ Herdr!TypeOK /\ HerdrPlacesFit /\ \A r \in Requests : RequestFits(request[r])
    /\ calm => ScreenIsSomeones /\ \A r \in Requests : StillThere(request[r])

Requested == [target : Herdr!Targets \union {Herdr!Other}, step : Herdr!Steps, answer :
  Herdr!Answers, at : Herdr!Located]

Screens == [workspace : Workspaces, tab : [Workspaces -> Tabs \union {NoPlace}],
            pane : [Tabs -> Panes \union {NoPlace}]]

(* A request that is not made is one of the records.                       *)
LEMMA NoRequestType == Herdr!NoRequest \in Requested
BY
DEF Herdr!NoRequest, Herdr!Nowhere, Requested, Herdr!Other, Herdr!Steps,
    Herdr!Answers, Herdr!Located

(* What Herdr falls back to is open, or nothing.                           *)
LEMMA SomeType ==
    /\ \A t, panes : Herdr!SomePane(t, panes) \in Panes \union {NoPlace}
    /\ \A w, tabs : Herdr!SomeTab(w, tabs) \in Tabs \union {NoPlace}
<1>1. ASSUME NEW t, NEW panes PROVE Herdr!SomePane(t, panes) \in Panes \union {NoPlace}
  <2>1. CASE \E p \in Panes : panes[p] = t
    <3>1. (CHOOSE p \in Panes : panes[p] = t) \in Panes
      BY <2>1
    <3> QED
      BY <2>1, <3>1 DEF Herdr!SomePane
  <2>2. CASE ~\E p \in Panes : panes[p] = t
    BY <2>2 DEF Herdr!SomePane
  <2> QED
    BY <2>1, <2>2
<1>2. ASSUME NEW w, NEW tabs PROVE Herdr!SomeTab(w, tabs) \in Tabs \union {NoPlace}
  <2>1. CASE \E t \in Tabs : tabs[t] = w
    <3>1. (CHOOSE t \in Tabs : tabs[t] = w) \in Tabs
      BY <2>1
    <3> QED
      BY <2>1, <3>1 DEF Herdr!SomeTab
  <2>2. CASE ~\E t \in Tabs : tabs[t] = w
    BY <2>2 DEF Herdr!SomeTab
  <2> QED
    BY <2>1, <2>2
<1> QED
  BY <1>1, <1>2

(* Herdr before any request.                                               *)
LEMMA HerdrInitFits == ASSUME Herdr!Assumptions, Herdr!Init PROVE HerdrInv
<1>1. (CHOOSE w \in Workspaces : TRUE) \in Workspaces
  BY DEF Herdr!Assumptions
<1>2. screen \in Screens
  BY <1>1, SomeType DEF Herdr!Init, Screens
<1>3. request \in [Requests -> Requested] /\ touches \in 0 .. MaxTouches
  BY NoRequestType DEF Herdr!Init, Herdr!Assumptions
<1>4. Herdr!TypeOK
  BY <1>2, <1>3 DEF Herdr!Init, Herdr!TypeOK, Screens, Requested, Herdr!Assumptions
<1>5. HerdrPlacesFit
  BY DEF Herdr!Init, HerdrPlacesFit, Herdr!Assumptions
<1>6. \A r \in Requests : RequestFits(request[r])
  BY DEF Herdr!Init, RequestFits, Herdr!NoRequest, Placed
<1> QED
  BY <1>4, <1>5, <1>6 DEF HerdrInv, Herdr!Init

(* Herdr shows something that is open after a change.                      *)
LEMMA RearrangedType ==
    ASSUME Herdr!TypeOK, NEW tabs, NEW panes PROVE Herdr!Rearranged(tabs, panes) \in Screens
<1>1. screen \in Screens
  BY DEF Herdr!TypeOK, Screens
<1> DEFINE front == [w \in Workspaces |->
              IF screen.tab[w] # NoPlace /\ tabs[screen.tab[w]] = w
              THEN screen.tab[w] ELSE Herdr!SomeTab(w, tabs)]
           inside == [t \in Tabs |->
              IF screen.pane[t] # NoPlace /\ panes[screen.pane[t]] = t
              THEN screen.pane[t] ELSE Herdr!SomePane(t, panes)]
<1>2. front \in [Workspaces -> Tabs \union {NoPlace}]
  BY <1>1, SomeType DEF Screens
<1>3. inside \in [Tabs -> Panes \union {NoPlace}]
  BY <1>1, SomeType DEF Screens
<1>4. Herdr!Rearranged(tabs, panes) = [screen EXCEPT !.tab = front, !.pane = inside]
  BY DEF Herdr!Rearranged
<1> HIDE DEF front, inside
<1> QED
  BY <1>1, <1>2, <1>3, <1>4 DEF Screens

(* What humans do in Herdr.                                                *)
LEMMA TouchFits ==
    ASSUME Herdr!Assumptions, HerdrInv, Herdr!Touch,
           screen' \in Screens, tabIn' \in [Tabs -> Workspaces \union {NoPlace}],
           paneIn' \in [Panes -> Tabs \union {NoPlace}], HerdrPlacesFit'
    PROVE  HerdrInv'
<1>1. touches' \in 0 .. MaxTouches
  BY DEF Herdr!Touch, HerdrInv, Herdr!TypeOK, Herdr!Assumptions
<1>2. Herdr!TypeOK'
  BY <1>1 DEF HerdrInv, Herdr!TypeOK, Herdr!Touch, Screens
<1> QED
  BY <1>2 DEF HerdrInv, Herdr!Touch

(* A human moves a pane.                                                   *)
LEMMA MovesFit ==
    ASSUME Herdr!Assumptions, HerdrInv, NEW p \in Panes, NEW t \in Tabs,
             Herdr!HumanMovesPane(p, t)
    PROVE  HerdrInv'
<1>1. paneIn' \in [Panes -> Tabs \union {NoPlace}] /\ HerdrPlacesFit' /\ UNCHANGED tabIn
  BY DEF Herdr!HumanMovesPane, HerdrInv, Herdr!TypeOK, HerdrPlacesFit
<1>2. screen' \in Screens
  <2>1. PICK panes : panes = paneIn'
    OBVIOUS
  <2>2. screen' = Herdr!Rearranged(tabIn, panes)
    BY <2>1 DEF Herdr!HumanMovesPane
  <2> QED
    BY <2>2, RearrangedType DEF HerdrInv
<1> QED
  BY <1>1, <1>2, TouchFits DEF Herdr!HumanMovesPane, HerdrInv, Herdr!TypeOK

(* A human closes a tab.                                                   *)
LEMMA ClosesFit ==
    ASSUME Herdr!Assumptions, HerdrInv, NEW t \in Tabs, Herdr!HumanClosesTab(t) PROVE HerdrInv'
<1>1. paneIn' \in [Panes -> Tabs \union {NoPlace}] /\ HerdrPlacesFit'
  BY DEF Herdr!HumanClosesTab, HerdrInv, Herdr!TypeOK, HerdrPlacesFit
<1>2. screen' \in Screens
  <2>1. PICK tabs, panes : tabs = tabIn' /\ panes = paneIn'
    OBVIOUS
  <2>2. screen' = Herdr!Rearranged(tabs, panes)
    BY <2>1 DEF Herdr!HumanClosesTab
  <2> QED
    BY <2>2, RearrangedType DEF HerdrInv
<1>3. tabIn' \in [Tabs -> Workspaces \union {NoPlace}]
  BY DEF Herdr!HumanClosesTab, HerdrInv, Herdr!TypeOK
<1> QED
  BY <1>1, <1>2, <1>3, TouchFits DEF Herdr!HumanClosesTab

(* A human looks at another workspace.                                     *)
LEMMA LooksFit ==
    ASSUME Herdr!Assumptions, HerdrInv, NEW w \in Workspaces, Herdr!HumanLooksAt(w)
    PROVE  HerdrInv'
<1>1. screen' \in Screens
  BY DEF Herdr!HumanLooksAt, HerdrInv, Herdr!TypeOK, Screens
<1>2. HerdrPlacesFit'
  BY DEF Herdr!HumanLooksAt, HerdrInv, HerdrPlacesFit
<1> QED
  BY <1>1, <1>2, TouchFits DEF Herdr!HumanLooksAt, HerdrInv, Herdr!TypeOK

(* A request begins.                                                       *)
LEMMA HerdrBeginFits ==
    ASSUME Herdr!Assumptions, HerdrInv, NEW r \in Requests,
             NEW target \in Herdr!Targets \union {Herdr!Other},
           Herdr!Begin(r, target)
    PROVE  HerdrInv'
<1>1. PICK opening \in Requested, others \in [Requests -> Requested] :
        /\ request' = [others EXCEPT ![r] = opening]
        /\ opening.target = target /\ opening.answer # "ok"
        /\ target # Herdr!Other => opening.answer = "none" /\
             opening.step = Herdr!FirstStep(target)
        /\ target = Herdr!Other => opening.step = "none"
        /\ \/ others = request /\ (calm' => calm)
           \/ others = [q \in Requests |-> Herdr!NoRequest]
  <2> DEFINE b == [Herdr!NoRequest EXCEPT
                    !.target = target,
                    !.step = IF target = Herdr!Other THEN "none" ELSE Herdr!FirstStep(target),
                    !.answer = IF target = Herdr!Other THEN "unsupported" ELSE "none"]
             o == IF \A q \in Requests : ~Herdr!Running(q) THEN
               [q \in Requests |-> Herdr!NoRequest]
                  ELSE request
  <2>1. Herdr!FirstStep(target) \in Herdr!Steps
    BY DEF Herdr!FirstStep, Herdr!Steps
  <2>2. /\ b \in Requested /\ b.target = target /\ b.answer # "ok"
        /\ target # Herdr!Other => b.answer = "none" /\ b.step = Herdr!FirstStep(target)
        /\ target = Herdr!Other => b.step = "none"
    BY <2>1, NoRequestType DEF Requested, Herdr!Steps, Herdr!Answers
  <2>3. o \in [Requests -> Requested]
    BY NoRequestType DEF HerdrInv, Herdr!TypeOK, Requested
  <2>4. request' = [o EXCEPT ![r] = b]
    BY DEF Herdr!Begin
  <2>5. \/ o = request /\ (calm' => calm)
        \/ o = [q \in Requests |-> Herdr!NoRequest]
    BY DEF Herdr!Begin
  <2> HIDE DEF b, o
  <2> QED
    BY <2>2, <2>3, <2>4, <2>5
<1>2. UNCHANGED Herdr!herdr /\ calm' \in BOOLEAN /\ (calm' => target \in Herdr!Targets)
  BY DEF Herdr!Begin, HerdrInv, Herdr!TypeOK
<1>3. request' \in [Requests -> Requested]
  BY <1>1
<1>4. Herdr!TypeOK' /\ HerdrPlacesFit'
  BY <1>2, <1>3 DEF HerdrInv, Herdr!TypeOK, HerdrPlacesFit, Requested, Herdr!herdr
<1>5. \A q \in Requests : q # r => \/ request'[q] = request[q] /\ (calm' => calm)
                                   \/ request'[q] = Herdr!NoRequest
  BY <1>1
<1>6. request'[r] = opening /\ (target = Herdr!Other => opening.step = "none")
  BY <1>1
<1>7. \A q \in Requests : RequestFits(request[q])'
  <2>1. RequestFits(opening) /\ RequestFits(Herdr!NoRequest)
    BY <1>1, <1>6 DEF RequestFits, Placed, Herdr!FirstStep, Herdr!NoRequest
  <2> QED
    BY <1>5, <1>6, <2>1 DEF HerdrInv, RequestFits
<1>8. ASSUME calm' PROVE ScreenIsSomeones' /\ \A q \in Requests : StillThere(request[q])'
  <2>1. target # Herdr!Other
    BY <1>8 DEF Herdr!Begin
  <2>2. request'[r] = opening /\ opening.step \in {"get", "workspace"}
    BY <1>1, <1>6, <2>1 DEF Herdr!FirstStep
  <2>3. ScreenIsSomeones'
    BY <2>2 DEF ScreenIsSomeones
  <2>4. StillThere(request[r])'
    BY <1>1, <2>1, <2>2 DEF StillThere, Placed, Herdr!FirstStep
  <2>5. ASSUME NEW q \in Requests, q # r PROVE StillThere(request[q])'
    <3>1. CASE request'[q] = request[q] /\ calm
      BY <1>2, <3>1 DEF HerdrInv, StillThere, Herdr!herdr
    <3>2. CASE request'[q] = Herdr!NoRequest
      BY <3>2 DEF StillThere, Placed, Herdr!NoRequest
    <3> QED
      BY <1>5, <1>8, <2>5, <3>1, <3>2
  <2> QED
    BY <2>3, <2>4, <2>5
<1> QED
  BY <1>4, <1>7, <1>8 DEF HerdrInv

(* The target of a request is looked up.                                   *)
LEMMA GetFits ==
    ASSUME Herdr!Assumptions, HerdrInv, NEW r \in Requests, Herdr!Get(r) PROVE HerdrInv'
<1>1. PICK q, tab : /\ q = request[r]
                    /\ tab = IF q.target.kind = "tab" THEN q.target.id ELSE paneIn[q.target.id]
  OBVIOUS
<1>2. PICK located : located = [workspace |-> tabIn[tab], tab |-> tab,
                          agent |-> q.target.kind = "pane" /\ q.target.id \notin Shells]
  OBVIOUS
<1>3. PICK next : next = [q EXCEPT !.step = "workspace", !.at = located]
  OBVIOUS
<1>4. q \in Requested /\ request \in [Requests -> Requested] /\ RequestFits(q)
  BY <1>1 DEF HerdrInv, Herdr!TypeOK, Requested
<1>5. /\ q.step = "get" /\ Herdr!Exists(q.target)
      /\ request' = [request EXCEPT ![r] = next]
      /\ UNCHANGED <<Herdr!herdr, calm>>
  BY <1>1, <1>2, <1>3, <1>4 DEF Herdr!Get
<1>6. q.target \in [kind : {"tab"}, id : Tabs] \union [kind : {"pane"}, id : Panes]
  BY <1>4, <1>5 DEF RequestFits, Herdr!Targets
<1>7. tab \in Tabs /\ tabIn[tab] \in Workspaces
  <2>1. CASE q.target.kind = "tab"
    BY <1>1, <1>5, <1>6, <2>1 DEF HerdrInv, Herdr!TypeOK, Herdr!Exists, Herdr!TabExists
  <2>2. CASE q.target.kind = "pane"
    <3>1. q.target.id \in Panes /\ paneIn[q.target.id] # NoPlace /\ tab = paneIn[q.target.id]
      BY <1>1, <1>5, <1>6, <2>2 DEF Herdr!Exists, Herdr!PaneExists
    <3> QED
      BY <3>1 DEF HerdrInv, Herdr!TypeOK, HerdrPlacesFit
  <2> QED
    BY <1>6, <2>1, <2>2
<1>8. next \in Requested /\ next.step = "workspace" /\ next.at = located
      /\ next.target = q.target /\ next.answer = q.answer
  <2>1. located \in Herdr!Located
    BY <1>2, <1>7 DEF Herdr!Located
  <2> QED
    BY <1>3, <1>4, <2>1 DEF Requested, Herdr!Steps
<1>9. /\ located.tab = tab /\ located.workspace = tabIn[tab]
      /\ located.agent => q.target.kind = "pane"
  BY <1>2
<1>10. RequestFits(next) /\ StillThere(next)
  <2>1. q.target \in Herdr!Targets /\ q.answer # "ok"
    BY <1>4, <1>5 DEF RequestFits
  <2>2. q.target.kind = "pane" => tab = paneIn[q.target.id]
    BY <1>1
  <2>3. q.target.kind = "tab" => tab = q.target.id
    BY <1>1
  <2> QED
    BY <1>7, <1>8, <1>9, <2>1, <2>2, <2>3 DEF RequestFits, StillThere, Placed
<1>11. Herdr!TypeOK' /\ HerdrPlacesFit'
  BY <1>4, <1>5, <1>8 DEF HerdrInv, Herdr!TypeOK, HerdrPlacesFit, Requested, Herdr!herdr
<1>12. /\ request'[r] = next
       /\ \A x \in Requests : x # r => request'[x] = request[x]
  BY <1>4, <1>5
<1>13. \A x \in Requests : RequestFits(request[x])'
  BY <1>10, <1>12 DEF HerdrInv, RequestFits
<1>14. calm => \A x \in Requests : StillThere(request[x])'
  BY <1>5, <1>10, <1>12 DEF HerdrInv, StillThere, Herdr!herdr
<1>15. ScreenIsSomeones'
  BY <1>8, <1>12 DEF ScreenIsSomeones
<1> QED
  BY <1>5, <1>11, <1>13, <1>14, <1>15 DEF HerdrInv

(* What Herdr does for a call leaves a screen.                             *)
LEMMA DoneType ==
    ASSUME HerdrInv, NEW r \in Requests, Herdr!Found(request[r])
    PROVE  Herdr!Done(request[r]) \in Screens
<1>1. PICK q : q = request[r]
  OBVIOUS
<1>2. q \in Requested /\ RequestFits(q) /\ screen \in Screens
  BY <1>1 DEF HerdrInv, Herdr!TypeOK, Requested, Screens
<1>3. CASE q.step = "workspace"
  <2>1. Herdr!WorkspaceOf(q) \in Workspaces
    BY <1>2, <1>3 DEF Herdr!WorkspaceOf, RequestFits, Placed, Herdr!Targets
  <2>2. Herdr!Done(q) = [screen EXCEPT !.workspace = Herdr!WorkspaceOf(q)]
    BY <1>3 DEF Herdr!Done
  <2> QED
    BY <1>1, <1>2, <2>1, <2>2 DEF Screens
<1>4. CASE q.step = "tab"
  <2>1. q.at.tab \in Tabs /\ tabIn[q.at.tab] \in Workspaces
    BY <1>1, <1>2, <1>4
    DEF RequestFits, Placed, Herdr!Found, Herdr!TabExists, HerdrInv, Herdr!TypeOK
  <2>2. Herdr!Done(q) = [screen EXCEPT !.tab[tabIn[q.at.tab]] = q.at.tab]
    BY <1>4 DEF Herdr!Done
  <2> QED
    BY <1>1, <1>2, <2>1, <2>2 DEF Screens
<1>5. CASE q.step = "agent"
  <2>1. q.target.id \in Panes /\ q.target.kind = "pane"
    BY <1>2, <1>5 DEF RequestFits, Placed, Herdr!Targets
  <2>2. paneIn[q.target.id] \in Tabs
    BY <1>1, <1>5, <2>1
    DEF Herdr!Found, Herdr!Exists, Herdr!PaneExists, HerdrInv, Herdr!TypeOK
  <2>3. Herdr!Done(q) = [screen EXCEPT !.pane[paneIn[q.target.id]] = q.target.id]
    BY <1>5 DEF Herdr!Done
  <2> QED
    BY <1>1, <1>2, <2>1, <2>2, <2>3 DEF Screens
<1>6. CASE q.step \notin {"workspace", "tab", "agent"}
  BY <1>1, <1>2, <1>6 DEF Herdr!Done
<1> QED
  BY <1>3, <1>4, <1>5, <1>6

(* Herdr refuses a call, or its answer is lost.                            *)
LEMMA RefusedFits ==
    ASSUME HerdrInv, NEW r \in Requests, Herdr!NotFound(r) \/ Herdr!Fails(r) PROVE HerdrInv'
<1>1. PICK next \in Requested : /\ request' = [request EXCEPT ![r] = next]
                               /\ next.step = "none" /\ next.answer # "ok"
  <2>1. PICK answer \in {"missing", "unavailable"} : request' = Herdr!Refused(r, answer)
    BY DEF Herdr!NotFound, Herdr!Fails
  <2>2. [Herdr!NoRequest EXCEPT !.answer = answer] \in Requested
    BY <2>1, NoRequestType DEF Requested, Herdr!Answers
  <2>3. /\ [Herdr!NoRequest EXCEPT !.answer = answer].step = "none"
        /\ [Herdr!NoRequest EXCEPT !.answer = answer].answer # "ok"
    BY <2>1 DEF Herdr!NoRequest
  <2> QED
    BY <2>1, <2>2, <2>3 DEF Herdr!Refused
<1>2. screen' \in Screens
  BY DoneType
  DEF Herdr!NotFound, Herdr!Fails, Herdr!herdr, HerdrInv, Herdr!TypeOK, Screens
<1>3. UNCHANGED <<tabIn, paneIn, touches>> /\ calm' = FALSE
  BY DEF Herdr!NotFound, Herdr!Fails, Herdr!herdr
<1>4. request \in [Requests -> Requested]
  BY DEF HerdrInv, Herdr!TypeOK, Requested
<1>5. Herdr!TypeOK' /\ HerdrPlacesFit'
  BY <1>1, <1>2, <1>3, <1>4
  DEF HerdrInv, Herdr!TypeOK, HerdrPlacesFit, Screens, Requested
<1>6. ASSUME NEW x \in Requests PROVE RequestFits(request[x])'
  <2>1. CASE x = r
    BY <1>1, <1>4, <2>1 DEF RequestFits, Placed
  <2>2. CASE x # r
    BY <1>1, <1>4, <2>2 DEF HerdrInv, RequestFits
  <2> QED
    BY <2>1, <2>2
<1> QED
  BY <1>3, <1>5, <1>6 DEF HerdrInv

(* A call works.  What is chosen is the caller's; what was somebody's and  *)
(* is not chosen anew still is.                                            *)
LEMMA FocusFits ==
    ASSUME Herdr!Assumptions, HerdrInv, NEW r \in Requests, Herdr!Focus(r) PROVE HerdrInv'
<1>1. PICK q : q = request[r]
  OBVIOUS
<1>2. q \in Requested /\ RequestFits(q) /\ request \in [Requests -> Requested]
  BY <1>1 DEF HerdrInv, Herdr!TypeOK, Requested
<1>3. PICK step : step = IF q.step = "workspace" THEN Herdr!AfterWorkspace(q)
                         ELSE IF q.step = "tab" THEN Herdr!AfterTab(q) ELSE "none"
  OBVIOUS
<1>4. step \in Herdr!Steps /\ step \in {"none", "tab", "agent"}
  BY <1>3 DEF Herdr!AfterWorkspace, Herdr!AfterTab, Herdr!Steps
<1>5. PICK next : next = IF step = "none" THEN [q EXCEPT !.step = "none", !.answer = "ok"]
                         ELSE [q EXCEPT !.step = step]
  OBVIOUS
<1>6. /\ q.step \in {"workspace", "tab", "agent"} /\ Herdr!Found(q) /\ screen' = Herdr!Done(q)
      /\ UNCHANGED <<tabIn, paneIn, touches, calm>>
      /\ request' = [request EXCEPT ![r] = next]
  <2>1. request' = IF step = "none" THEN Herdr!Answered(r, "ok") ELSE
          [request EXCEPT ![r].step = step]
    BY <1>1, <1>3 DEF Herdr!Focus, Herdr!Goes
  <2>2. request' = [request EXCEPT ![r] = next]
    BY <1>1, <1>2, <1>5, <2>1 DEF Herdr!Answered, Requested
  <2> QED
    BY <1>1, <2>2 DEF Herdr!Focus
<1>7. /\ next \in Requested /\ next.step = step /\ next.at = q.at
      /\ next.target = q.target /\ next.answer = IF step = "none" THEN "ok" ELSE q.answer
  BY <1>2, <1>4, <1>5 DEF Requested, Herdr!Answers
<1>8. screen' \in Screens
  BY <1>1, <1>6, DoneType
<1>9. Herdr!TypeOK' /\ HerdrPlacesFit'
  BY <1>2, <1>6, <1>7, <1>8
  DEF HerdrInv, Herdr!TypeOK, HerdrPlacesFit, Screens, Requested
<1>10. /\ request'[r] = next
       /\ \A x \in Requests : x # r => request'[x] = request[x]
  BY <1>2, <1>6
<1>11. /\ Placed(next) => Placed(q)
       /\ step # "none" => q.target.kind # "workspace"
       /\ step = "agent" => q.at.agent
       /\ q.answer # "ok" /\ q.target \in Herdr!Targets
  BY <1>2, <1>3, <1>6, <1>7
  DEF Placed, Herdr!AfterWorkspace, Herdr!AfterTab, RequestFits
<1>12. RequestFits(next)
  BY <1>2, <1>4, <1>7, <1>11 DEF RequestFits, Placed
<1>13. \A x \in Requests : RequestFits(request[x])'
  BY <1>10, <1>12 DEF HerdrInv, RequestFits
<1>14. ASSUME calm PROVE \A x \in Requests : StillThere(request[x])'
  <2>1. StillThere(q)
    BY <1>1, <1>14 DEF HerdrInv
  <2>2. StillThere(next)
    BY <1>7, <1>11, <2>1 DEF StillThere
  <2> QED
    BY <1>6, <1>10, <1>14, <2>2 DEF HerdrInv, StillThere
<1>15. ASSUME calm PROVE ScreenIsSomeones'
  <2>1. StillThere(q) /\ ScreenIsSomeones
    BY <1>1, <1>15 DEF HerdrInv
  <2>2. screen \in Screens
    BY DEF HerdrInv, Herdr!TypeOK, Screens
  <2>3. CASE q.step = "workspace"
    <3>1. screen' = [screen EXCEPT !.workspace = Herdr!WorkspaceOf(q)]
      BY <1>6, <2>3 DEF Herdr!Done
    <3>2. screen'.workspace = Herdr!WorkspaceOf(q)
      BY <2>2, <3>1 DEF Screens
    <3>3. CASE q.target.kind = "workspace"
      <4>1. next.answer = "ok" /\ next.target = q.target
        BY <1>3, <1>7, <2>3, <3>3 DEF Herdr!AfterWorkspace
      <4>2. Herdr!InFront(request[r])'
        BY <1>10, <3>2, <3>3, <4>1 DEF Herdr!InFront, Herdr!WorkspaceOf
      <4> QED
        BY <1>10, <4>1, <4>2 DEF ScreenIsSomeones
    <3>4. CASE q.target.kind # "workspace"
      <4>1. next.step = "tab" /\ next.at.workspace = screen'.workspace
        BY <1>3, <1>7, <2>3, <3>2, <3>4 DEF Herdr!AfterWorkspace, Herdr!WorkspaceOf
      <4> QED
        BY <1>10, <4>1 DEF ScreenIsSomeones
    <3> QED
      BY <3>3, <3>4
  <2>4. CASE q.step = "tab"
    <3>1. /\ q.at.tab \in Tabs /\ q.at.workspace = tabIn[q.at.tab] /\
               q.at.workspace \in Workspaces
          /\ q.target.kind = "tab" => q.at.tab = q.target.id
          /\ q.at.agent => q.target.kind = "pane"
          /\ q.target.kind \in {"tab", "pane"}
      BY <1>2, <1>11, <2>1, <2>4 DEF RequestFits, StillThere, Placed, Herdr!Targets
    <3>2. screen' = [screen EXCEPT !.tab[q.at.workspace] = q.at.tab]
      BY <1>6, <2>4, <3>1 DEF Herdr!Done
    <3>3. /\ screen'.workspace = screen.workspace /\ screen'.pane = screen.pane
          /\ Herdr!TabOnScreen' = IF screen.workspace = q.at.workspace THEN q.at.tab ELSE
               Herdr!TabOnScreen
      BY <2>2, <3>1, <3>2 DEF Screens, Herdr!TabOnScreen
    <3>4. CASE screen.workspace = q.at.workspace
      <4>1. CASE step = "agent"
        BY <1>7, <1>10, <3>3, <3>4, <4>1 DEF ScreenIsSomeones
      <4>2. CASE step = "none"
        <5>1. q.target.kind = "pane" => ~q.at.agent
          BY <1>3, <2>4, <4>2 DEF Herdr!AfterTab
        <5>2. next.answer = "ok" /\ next.target = q.target /\ next.at = q.at
          BY <1>7, <4>2
        <5>3. Herdr!InFront(request[r])'
          BY <1>10, <3>1, <3>3, <3>4, <5>1, <5>2 DEF Herdr!InFront
        <5> QED
          BY <1>10, <5>2, <5>3 DEF ScreenIsSomeones
      <4> QED
        BY <1>3, <2>4, <4>1, <4>2 DEF Herdr!AfterTab
    <3>5. CASE screen.workspace # q.at.workspace
      <4>1. Herdr!TabOnScreen' = Herdr!TabOnScreen
        BY <3>3, <3>5
      <4>2. ASSUME NEW x \in Requests, x # r, Herdr!InFront(request[x])
            PROVE  Herdr!InFront(request[x])'
        BY <1>10, <3>3, <4>1, <4>2 DEF Herdr!InFront, Herdr!PaneOnScreen
      <4> QED
        BY <1>1, <1>10, <1>11, <2>1, <2>4, <3>3, <3>5, <4>1, <4>2 DEF ScreenIsSomeones
    <3> QED
      BY <3>4, <3>5
  <2>5. CASE q.step = "agent"
    <3>1. /\ q.at.tab \in Tabs /\ q.at.tab = paneIn[q.target.id]
          /\ q.target.kind = "pane" /\ q.at.agent /\ q.target.id \in Panes
      BY <1>2, <1>11, <2>1, <2>5 DEF RequestFits, StillThere, Placed, Herdr!Targets
    <3>2. screen' = [screen EXCEPT !.pane[q.at.tab] = q.target.id]
      BY <1>6, <2>5, <3>1 DEF Herdr!Done
    <3>3. /\ screen'.workspace = screen.workspace /\ Herdr!TabOnScreen' = Herdr!TabOnScreen
          /\ screen'.pane[q.at.tab] = q.target.id
          /\ \A t \in Tabs : t # q.at.tab => screen'.pane[t] = screen.pane[t]
          /\ Herdr!TabOnScreen \in Tabs \union {NoPlace}
      BY <2>2, <3>1, <3>2 DEF Screens, Herdr!TabOnScreen
    <3>4. next.answer = "ok" /\ next.target = q.target /\ next.at = q.at
      BY <1>3, <1>7, <2>5
    <3>5. CASE Herdr!TabOnScreen = q.at.tab
      <4>1. Herdr!PaneOnScreen' = q.target.id
        BY <3>1, <3>3, <3>5 DEF Herdr!PaneOnScreen, Herdr!Assumptions
      <4>2. Herdr!InFront(request[r])'
        BY <1>10, <3>1, <3>4, <4>1 DEF Herdr!InFront
      <4> QED
        BY <1>10, <3>4, <4>2 DEF ScreenIsSomeones
    <3>6. CASE Herdr!TabOnScreen # q.at.tab
      <4>1. Herdr!PaneOnScreen' = Herdr!PaneOnScreen
        BY <3>3, <3>6 DEF Herdr!PaneOnScreen
      <4>2. ASSUME NEW x \in Requests, x # r, Herdr!InFront(request[x])
            PROVE  Herdr!InFront(request[x])'
        BY <1>10, <3>3, <4>1, <4>2 DEF Herdr!InFront
      <4> QED
        BY <1>1, <1>10, <1>11, <2>1, <2>5, <3>3, <3>6, <4>2 DEF ScreenIsSomeones
    <3> QED
      BY <3>5, <3>6
  <2> QED
    BY <1>6, <2>3, <2>4, <2>5
<1> QED
  BY <1>6, <1>9, <1>13, <1>14, <1>15 DEF HerdrInv

(* Every step keeps the invariant.                                         *)
LEMMA HerdrNextFits ==
    ASSUME Herdr!Assumptions, HerdrInv, [Herdr!Next]_(Herdr!vars)
    PROVE  HerdrInv'
<1>1. CASE UNCHANGED Herdr!vars
  BY <1>1
  DEF Herdr!vars, HerdrInv, Herdr!TypeOK, HerdrPlacesFit, ScreenIsSomeones,
      StillThere, Herdr!InFront, Herdr!TabOnScreen, Herdr!PaneOnScreen
<1> QED
  BY <1>1, MovesFit, ClosesFit, LooksFit, HerdrBeginFits, GetFits, FocusFits,
     RefusedFits
  DEF Herdr!Next

(* actions.go:27-52: when requests that overlap have all been answered 200 *)
(* and nobody else touched Herdr, the screen is what one of them asked for;*)
(* for any number of requests, workspaces, tabs and panes.                 *)
THEOREM SomebodyGetsTheFocus ==
    ASSUME Herdr!Assumptions PROVE Herdr!Spec => []FocusIsWhatSomeoneAskedFor
<1>1. Herdr!Init => HerdrInv
  BY HerdrInitFits
<1>2. HerdrInv /\ [Herdr!Next]_(Herdr!vars) => HerdrInv'
  BY HerdrNextFits
<1>3. HerdrInv => FocusIsWhatSomeoneAskedFor
  BY
  DEF HerdrInv, ScreenIsSomeones, FocusIsWhatSomeoneAskedFor,
      Herdr!FocusIsWhatSomeoneAskedFor, Herdr!Running
<1> QED
  BY <1>1, <1>2, <1>3, PTL DEF Herdr!Spec

-----------------------------------------------------------------------------
(***************************************************************************)
(* Types, which each of the invariants above begins with.                  *)
(***************************************************************************)

LEMMA GitHubTypes == ASSUME GitHub!Assumptions PROVE GitHub!Spec => []GitHub!TypeOK
<1>1. GitHub!Init => GitHubInv
  BY GitHubInitFits
<1>2. GitHubInv /\ [GitHub!Next]_(GitHub!vars) => GitHubInv'
  BY GitHubNextFits
<1>3. GitHubInv => GitHub!TypeOK
  BY DEF GitHubInv, TypeInv
<1> QED
  BY <1>1, <1>2, <1>3, PTL DEF GitHub!Spec

LEMMA SlackTypes ==
    ASSUME Slack!Assumptions, Slack!ListIsRead PROVE Slack!Spec => []Slack!TypeOK
<1>1. Slack!Init => SlackInv
  BY SlackInitFits
<1>2. SlackInv /\ [Slack!Next]_(Slack!vars) => SlackInv'
  BY StepFits
<1>3. SlackInv => Slack!TypeOK
  <2> SUFFICES ASSUME SlackInv PROVE Slack!TypeOK
    OBVIOUS
  <2>1. DOMAIN posts \subseteq Slack!Times /\ begun \in 0 .. MaxPosts
    BY DEF SlackInv, Typed, Slack!Times, Slack!Assumptions
  <2>2. /\ Slack!Mentioning \subseteq DOMAIN posts /\ Slack!Own \subseteq DOMAIN posts
        /\ Slack!Open \subseteq Slack!Range(Directs)
    BY DEF Slack!Mentioning, Slack!Own, Slack!Open
  <2> QED
    BY <2>1, <2>2 DEF SlackInv, Typed, Posts, Slack!TypeOK
<1> QED
  BY <1>1, <1>2, <1>3, PTL DEF Slack!Spec

LEMMA OutlineTypes == ASSUME Outline!Assumptions PROVE Outline!Spec => []Outline!TypeOK
<1>1. Outline!Init => OutlineInv
  BY OutlineInitFits
<1>2. OutlineInv /\ [Outline!Next]_(Outline!vars) => OutlineInv'
  BY OutlineNextFits
<1>3. OutlineInv => Outline!TypeOK
  BY DEF OutlineInv
<1> QED
  BY <1>1, <1>2, <1>3, PTL DEF Outline!Spec

LEMMA CalendarTypes ==
    ASSUME Calendar!Assumptions, Calendar!SeriesAreShort
    PROVE  Calendar!Spec => []Calendar!TypeOK
<1>1. Calendar!Init => CalendarInv
  BY CalendarInitFits
<1>2. CalendarInv /\ [Calendar!Next]_(Calendar!vars) => CalendarInv'
  BY CalendarNextFits
<1>3. CalendarInv => Calendar!TypeOK
  BY DEF CalendarInv
<1> QED
  BY <1>1, <1>2, <1>3, PTL DEF Calendar!Spec

LEMMA SpendTypes == ASSUME Spend!Assumptions PROVE Spend!Spec => []Spend!TypeOK
<1>1. Spend!Init => SpendInv
  BY SpendInitFits
<1>2. SpendInv /\ [Spend!Next]_(Spend!vars) => SpendInv'
  BY UsageNext, DatesNext, RowsNext DEF SpendInv
<1>3. SpendInv => Spend!TypeOK
  BY DEF SpendInv
<1> QED
  BY <1>1, <1>2, <1>3, PTL DEF Spend!Spec

LEMMA NotesTypes == ASSUME Notes!Assumptions PROVE Notes!Spec => []Notes!TypeOK
<1>1. Notes!Init => Notes!TypeOK
  BY InitTyped DEF NotesInv
<1>2. Notes!TypeOK /\ [Notes!Next]_(Notes!vars) => Notes!TypeOK'
  BY TypedNext
<1> QED
  BY <1>1, <1>2, PTL DEF Notes!Spec

LEMMA HerdrTypes == ASSUME Herdr!Assumptions PROVE Herdr!Spec => []Herdr!TypeOK
<1>1. Herdr!Init => HerdrInv
  BY HerdrInitFits
<1>2. HerdrInv /\ [Herdr!Next]_(Herdr!vars) => HerdrInv'
  BY HerdrNextFits
<1>3. HerdrInv => Herdr!TypeOK
  BY DEF HerdrInv
<1> QED
  BY <1>1, <1>2, <1>3, PTL DEF Herdr!Spec

(* Every adapter's state is of its type: among others, what is read of a   *)
(* search stays within its limit, and judge always has an advisor to name. *)
THEOREM AdaptersTyped ==
    ASSUME GitHub!Assumptions, Slack!Assumptions, Slack!ListIsRead,
           Calendar!Assumptions, Calendar!SeriesAreShort, Outline!Assumptions,
           Spend!Assumptions, Notes!Assumptions, Herdr!Assumptions
    PROVE  /\ GitHub!Spec /\ Slack!Spec /\ Calendar!Spec /\ Outline!Spec
           /\ Spend!Spec /\ Notes!Spec /\ Herdr!Spec
           => []Types
BY GitHubTypes, SlackTypes, CalendarTypes, OutlineTypes, SpendTypes, NotesTypes,
   HerdrTypes, PTL DEF Types
=============================================================================
