------------------------- MODULE PullRequestsProofs -------------------------
(***************************************************************************)
(* That the tables of src/internal/github/pulls.go agree (PullRequests),   *)
(* for a pull request with any history.  What they say of a review asked   *)
(* of somebody else alone would be wrong for a reviewer; so the invariant  *)
(* needs that a reviewer is one because you or a team of yours is asked.   *)
(***************************************************************************)
EXTENDS PullRequestLife, TLAPS

(* You are a reviewer as long as you are asked, by name or by a team. *)
ReviewersAreAsked ==
    pull.role = "reviewer" => pull.requests \intersect {"you", "team"} # {}

IInv == TypeOK /\ ReviewersAreAsked

-----------------------------------------------------------------------------
(* What the tables say, label by label                                     *)

(* classify: the label of a pull request is one of ten, and a request for  *)
(* your review is the label of exactly those you are to review.            *)
LEMMA Labels ==
    ASSUME NEW p \in Pulls
    PROVE  /\ Label(p) = "review requested" <=> p.role = "reviewer"
           /\ Label(p) = "ready to merge" <=> Mergeable(p) /\ p.role # "reviewer"
           /\ Label(p) \in {"review requested", "stale draft", "draft",
                            "rebase required", "checks failing",
                            "changes requested", "checks running",
                            "awaiting review", "ready to merge", "approved"}
<1>1. CASE p.role = "reviewer"
  BY <1>1 DEF Label, Drafted
<1>2. CASE p.role # "reviewer" /\ p.draft
  <2>1. Label(p) \in {"stale draft", "draft"}
    BY <1>2 DEF Pulls, Label, Drafted
  <2> QED
    BY <1>2, <2>1 DEF Mergeable
<1>3. CASE p.role # "reviewer" /\ ~p.draft
  BY <1>3 DEF Pulls, Label, Drafted, Mergeable, Conflicts, Red, Running
<1> QED
  BY <1>1, <1>2, <1>3 DEF Pulls

(* rank: a request for your review ranks at 45 when only you can give it   *)
(* and it is no draft, below 20 when somebody else can give it as well.    *)
LEMMA Reviews ==
    ASSUME NEW p \in Pulls, p.requests \intersect {"you", "team"} # {}
    PROVE  /\ ReviewRank(p) \in {15, 18, 20, 30, 45}
           /\ ReviewRank(p) > 40 <=> OnlyYou(p) /\ ~p.draft
           /\ p.requests \intersect {"other", "team"} # {} => ReviewRank(p) < 20
<1>1. p.requests \subseteq {"you", "other", "team", "unnamed"} /\ p.draft \in BOOLEAN
      /\ p.important \in BOOLEAN
  BY DEF Pulls, Asked
<1>2. p.requests \intersect {"other", "team"} # {} => ~OnlyYou(p) /\ Shared(p)
  BY <1>1 DEF OnlyYou, Shared
<1> QED
  BY <1>1, <1>2 DEF ReviewRank

-----------------------------------------------------------------------------
(* Type correctness, and that a reviewer is asked                          *)

(* A pull request is at all times what GitHub can say of one. *)
LEMMA Inductive == Spec => []IInv
<1>1. Init => IInv
  <2> SUFFICES ASSUME NEW role \in {"author", "reviewer"}, NEW important \in BOOLEAN,
                      pull = [role |-> role,
                              requests |-> IF role = "reviewer" THEN {"you"} ELSE {},
                              draft |-> FALSE, old |-> FALSE, merge |-> "UNKNOWN",
                              conflicting |-> FALSE, checks |-> "", decision |-> "",
                              important |-> important]
               PROVE  IInv
    BY DEF Init
  <2>1. (IF role = "reviewer" THEN {"you"} ELSE {}) \in SUBSET Asked
    BY DEF Asked
  <2>2. TypeOK
    BY <2>1 DEF TypeOK, Pulls
  <2>3. ReviewersAreAsked
    BY DEF ReviewersAreAsked
  <2> QED
    BY <2>2, <2>3 DEF IInv
<1>2. IInv /\ [Next]_vars => IInv'
  <2> SUFFICES ASSUME IInv, [Next]_vars PROVE IInv'
    OBVIOUS
  <2> USE DEF IInv, TypeOK, ReviewersAreAsked
  <2>0. CASE UNCHANGED vars
    BY <2>0 DEF vars
  <2> USE DEF Pulls
  <2>1. ASSUME NEW a \in Asked \ {"you"}, AskAnother(a) PROVE IInv'
    BY <2>1 DEF AskAnother, Asked
  <2>2. ASSUME NEW a \in Asked, Withdraw(a) PROVE IInv'
    BY <2>2 DEF Withdraw
  <2>3. CASE AskYou
    BY <2>3 DEF AskYou, Asked
  <2>4. CASE Push
    BY <2>4 DEF Push
  <2>5. CASE Draft
    BY <2>5 DEF Draft
  <2>6. CASE Age
    BY <2>6 DEF Age
  <2>7. ASSUME NEW d \in {"", "APPROVED", "CHANGES_REQUESTED", "REVIEW_REQUIRED"},
               Decide(d)
        PROVE  IInv'
    BY <2>7 DEF Decide
  <2>8. ASSUME NEW c \in {"SUCCESS", "EXPECTED", "FAILURE", "ERROR"}, Check(c)
        PROVE  IInv'
    BY <2>8 DEF Check
  <2>9. ASSUME NEW m \in {"CLEAN", "BEHIND", "DIRTY", "BLOCKED"}, NEW c \in BOOLEAN,
               Mergeability(m, c)
        PROVE  IInv'
    BY <2>9 DEF Mergeability
  <2> QED
    BY <2>0, <2>1, <2>2, <2>3, <2>4, <2>5, <2>6, <2>7, <2>8, <2>9 DEF Next
<1> QED
  BY <1>1, <1>2, PTL DEF Spec

-----------------------------------------------------------------------------
(* The tables agree                                                        *)

(* classify, rank and reviewScope: whatever happens to a pull request, it  *)
(* is in the queue when it ranks above the background, ready when a click  *)
(* merges it, and above all others only when nobody else can answer.       *)
THEOREM TablesAgree == Spec => []RankSaysWhoseTurn
<1>1. IInv => RankSaysWhoseTurn
  <2> SUFFICES ASSUME IInv PROVE RankSaysWhoseTurn
    OBVIOUS
  <2>1. pull \in Pulls
    BY DEF IInv, TypeOK
  <2>2. CASE pull.role = "reviewer"
    <3>1. pull.requests \intersect {"you", "team"} # {}
      BY <2>2 DEF IInv, ReviewersAreAsked
    <3>2. Label(pull) = "review requested"
      BY <2>1, <2>2, Labels
    <3>3. Rank(pull) = ReviewRank(pull) /\ State(Label(pull)) = "needs_attention"
      BY <3>2 DEF Rank, State
    <3>4. /\ Rank(pull) \in {15, 18, 20, 30, 45}
          /\ Rank(pull) > 40 <=> OnlyYou(pull) /\ ~pull.draft
          /\ pull.requests \intersect {"other", "team"} # {} => Rank(pull) < 20
      BY <2>1, <3>1, <3>3, Reviews
    <3>5. ReviewScope(pull) = "sole" <=> OnlyYou(pull)
      BY <2>2 DEF ReviewScope
    <3>6. Rank(pull) > 0 /\ Rank(pull) # 40
      BY <3>4
    <3> QED
      BY <2>2, <3>3, <3>4, <3>5, <3>6, Zenon DEF RankSaysWhoseTurn
  <2>3. CASE pull.role # "reviewer"
    <3>1. /\ Label(pull) # "review requested"
          /\ Label(pull) = "ready to merge" <=> Mergeable(pull)
          /\ Label(pull) \in {"review requested", "stale draft", "draft",
                              "rebase required", "checks failing",
                              "changes requested", "checks running",
                              "awaiting review", "ready to merge", "approved"}
      BY <2>1, <2>3, Labels
    <3>2. ReviewScope(pull) = ""
      BY <2>3 DEF ReviewScope
    <3>3. CASE Label(pull) = "ready to merge"
      <4>1. Rank(pull) = 40 /\ State(Label(pull)) = "needs_attention"
        BY <3>3 DEF Rank, State
      <4>2. 40 > 0 /\ ~(40 > 40)
        OBVIOUS
      <4> QED
        BY <2>3, <3>1, <3>2, <3>3, <4>1, <4>2 DEF RankSaysWhoseTurn
    <3>4. CASE Label(pull) \in {"changes requested", "rebase required", "checks failing"}
      <4>1. Rank(pull) = 10 /\ State(Label(pull)) \in {"needs_attention", "failed"}
        BY <3>4 DEF Rank, State
      <4>2. 10 > 0 /\ ~(10 > 40) /\ 10 # 40
        OBVIOUS
      <4>3. Label(pull) # "ready to merge"
        BY <3>4
      <4> QED
        BY <2>3, <3>1, <3>2, <4>1, <4>2, <4>3, Zenon DEF RankSaysWhoseTurn
    <3>5. CASE Label(pull) \in {"stale draft", "draft", "checks running",
                                "awaiting review", "approved"}
      <4>1. Rank(pull) = 0 /\ State(Label(pull)) \in {"waiting", "working"}
        BY <3>5 DEF Rank, State
      <4>2. ~(0 > 0) /\ ~(0 > 40) /\ 0 # 40
        OBVIOUS
      <4>3. Label(pull) # "ready to merge"
        BY <3>5
      <4>4. State(Label(pull)) \notin {"needs_attention", "failed"}
        BY <4>1
      <4> QED
        BY <2>3, <3>1, <3>2, <4>1, <4>2, <4>3, <4>4, Zenon DEF RankSaysWhoseTurn
    <3> QED
      BY <3>1, <3>3, <3>4, <3>5
  <2> QED
    BY <2>2, <2>3
<1> QED
  BY <1>1, Inductive, PTL
=============================================================================
