---------------------------- MODULE PullRequests ----------------------------
(***************************************************************************)
(* What the board says of one pull request (src/internal/github/pulls.go): *)
(* classify picks the reason, rank the place in the queue, reviewScope who *)
(* else could answer.  What happens to a pull request is in                *)
(* PullRequestLife.                                                        *)
(***************************************************************************)
EXTENDS Integers

VARIABLE pull   \* the pull request as GitHub has it

\* Who a review is asked of: you, another user, a team you are in.  GitHub
\* may count a request whose reviewer it does not name.
Asked == {"you", "other", "team", "unnamed"}

Pulls == [role : {"reviewer", "author", "reviewed"},
          requests : SUBSET Asked,
          draft : BOOLEAN,
          old : BOOLEAN,      \* untouched for longer than stale_draft, if set
          merge : {"CLEAN", "BEHIND", "DIRTY", "BLOCKED", "UNKNOWN"},
          conflicting : BOOLEAN,
          checks : {"", "SUCCESS", "PENDING", "EXPECTED", "FAILURE", "ERROR"},
          decision : {"", "APPROVED", "CHANGES_REQUESTED", "REVIEW_REQUIRED"},
          important : BOOLEAN]  \* its repository is one of priority_repos

-----------------------------------------------------------------------------
(* classify: the first condition that holds                                *)

Drafted(p) == p.role # "reviewer" /\ p.draft

\* Variant of Conflicts: a conflict is only seen once GitHub has merged.
ConflictsOnceMerged(p) == p.merge = "DIRTY"

Conflicts(p) == p.merge = "DIRTY" \/ p.conflicting

Red(p) == p.checks \in {"FAILURE", "ERROR"}
Running(p) == p.checks \in {"PENDING", "EXPECTED"}

Label(p) ==
    CASE p.role = "reviewer" -> "review requested"
      [] Drafted(p) /\ p.old -> "stale draft"
      [] Drafted(p) /\ ~p.old -> "draft"
      [] OTHER ->
            IF Conflicts(p) THEN "rebase required"
            ELSE IF Red(p) THEN "checks failing"
            ELSE IF p.decision = "CHANGES_REQUESTED" THEN "changes requested"
            ELSE IF Running(p) THEN "checks running"
            ELSE IF p.merge = "BEHIND" THEN "rebase required"
            ELSE IF p.decision # "APPROVED" THEN "awaiting review"
            ELSE IF p.merge = "CLEAN" THEN "ready to merge" ELSE "approved"

State(label) ==
    CASE label \in {"review requested", "rebase required", "changes requested",
                    "ready to merge"} -> "needs_attention"
      [] label = "checks failing" -> "failed"
      [] label = "checks running" -> "working"
      [] OTHER -> "waiting"

-----------------------------------------------------------------------------
(* rank                                                                    *)

\* Variant of OnlyYou: a team of yours is you.
OnlyYours(p) == p.requests \in {{"you"}, {"team"}}

\* You are asked by name, and nobody else is.
OnlyYou(p) == p.requests = {"you"}

\* Another reviewer can answer, or any member of a team.
Shared(p) ==
    \/ \E a, b \in p.requests : a # b
    \/ p.requests = {"team"}

ReviewRank(p) ==
    IF OnlyYou(p) /\ ~p.draft THEN 45
    ELSE IF Shared(p) THEN (IF p.important THEN 18 ELSE 15)
    ELSE (IF p.important THEN 30 ELSE 20)

Rank(p) ==
    CASE Label(p) = "review requested" -> ReviewRank(p)
      [] Label(p) = "ready to merge" -> 40
      [] Label(p) \in {"changes requested", "rebase required", "checks failing"} -> 10
      [] OTHER -> 0

ReviewScope(p) ==
    IF p.role # "reviewer" THEN ""
    ELSE IF OnlyYou(p) THEN "sole" ELSE IF Shared(p) THEN "shared" ELSE ""

-----------------------------------------------------------------------------
(* Properties                                                              *)

\* What the board says of pull p is what it would take to act on it.
Mergeable(p) == p.merge = "CLEAN" /\ ~p.conflicting /\ ~p.draft
                  /\ p.decision = "APPROVED" /\ ~Red(p) /\ ~Running(p)

\* classify and rank, pulls.go:79-190: tables that have to agree.  A pull
\* request is in the queue exactly when it ranks above the background; it is
\* called ready exactly when it can be merged by a click and nobody asked you
\* for a review of it; nothing but a review that only you can give ranks above
\* that; and one that somebody else can give too ranks below all others.
RankSaysWhoseTurn ==
    /\ State(Label(pull)) \in {"needs_attention", "failed"} <=> Rank(pull) > 0
    /\ Rank(pull) = 40 <=> Mergeable(pull) /\ pull.role # "reviewer"
    /\ Rank(pull) > 40 <=> ReviewScope(pull) = "sole" /\ ~pull.draft
    /\ pull.role = "reviewer" /\ pull.requests \intersect {"other", "team"} # {}
        => Rank(pull) < 20
=============================================================================
