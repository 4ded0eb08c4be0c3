-------------------------- MODULE PullRequestLife ---------------------------
(***************************************************************************)
(* A pull request's life: people push, review, ask and withdraw, in any    *)
(* order, and each poll says anew what the tables of PullRequests make of  *)
(* it.                                                                     *)
(***************************************************************************)
EXTENDS PullRequests

vars == <<pull>>

TypeOK == pull \in Pulls

\* A pull request of yours or of somebody else's, just opened.
Init ==
    \E role \in {"author", "reviewer"}, important \in BOOLEAN :
        pull = [role |-> role, requests |-> IF role = "reviewer" THEN {"you"} ELSE {},
                draft |-> FALSE, old |-> FALSE,
                merge |-> "UNKNOWN", conflicting |-> FALSE, checks |-> "",
                decision |-> "", important |-> important]

\* Somebody else is asked too, or no longer.
AskAnother(a) ==
    /\ a \notin pull.requests
    /\ pull' = [pull EXCEPT !.requests = @ \union {a}]

\* A request is answered or taken back.  You are a reviewer as long as you or
\* a team of yours is asked.
Withdraw(a) ==
    /\ a \in pull.requests
    /\ LET rest == pull.requests \ {a}
           released == pull.role = "reviewer" /\ rest \intersect {"you", "team"} = {}
       IN  pull' = [pull EXCEPT !.requests = rest,
                                !.role = IF released THEN "reviewed" ELSE @]

AskYou == pull.role = "reviewed" /\ pull' = [pull EXCEPT !.role = "reviewer",
                                                 !.requests = @ \union {"you"}]

Decide(decision) == pull' = [pull EXCEPT !.decision = decision]

\* A push, or one to its base: checks start over, and so does mergeability.
Push == pull' = [pull EXCEPT !.checks = "PENDING", !.merge = "UNKNOWN",
                             !.conflicting = FALSE, !.old = FALSE]

Check(checks) == pull' = [pull EXCEPT !.checks = checks]

Mergeability(merge, conflicting) ==
    pull' = [pull EXCEPT !.merge = merge, !.conflicting = conflicting]

Draft == pull' = [pull EXCEPT !.draft = ~@, !.old = FALSE]
Age == pull' = [pull EXCEPT !.old = TRUE]

Next ==
    \/ \E a \in Asked \ {"you"} : AskAnother(a)
    \/ \E a \in Asked : Withdraw(a)
    \/ AskYou \/ Push \/ Draft \/ Age
    \/ \E d \in {"", "APPROVED", "CHANGES_REQUESTED", "REVIEW_REQUIRED"} : Decide(d)
    \/ \E c \in {"SUCCESS", "EXPECTED", "FAILURE", "ERROR"} : Check(c)
    \/ \E m \in {"CLEAN", "BEHIND", "DIRTY", "BLOCKED"}, c \in BOOLEAN : Mergeability(m, c)

Spec == Init /\ [][Next]_vars
=============================================================================
