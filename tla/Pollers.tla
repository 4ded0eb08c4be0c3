------------------------------- MODULE Pollers -------------------------------
(***************************************************************************)
(* The adapters' pollers: eight goroutines that ask a backend, replace     *)
(* their source in the store and record how that went, while requests read *)
(* the store and the records.  An adapter whose backend does not answer    *)
(* either keeps the last list (GitHub, Datadog, Slack, Outline) or blanks  *)
(* its source (Herdr, Calendar, Spend); Notes reads files and never fails  *)
(* as a whole.                                                             *)
(*                                                                         *)
(* The store and the record are two locks, taken one after the other; a    *)
(* request for the board reads them one after the other too.  A shutdown   *)
(* cancels the context every fetch runs under.                             *)
(***************************************************************************)
EXTENDS Naturals, FiniteSets

CONSTANTS
    Adapters,
    Keeps,     \* adapters that keep the last list when a poll fails
    Zeroes,    \* adapters that blank it and record that they hold nothing
    Local,     \* adapters whose poll cannot fail
    Ids,       \* source-local ids
    Outages,   \* whether a backend may stop answering
    Caps,      \* whether an answer may be known to be incomplete
    Shutdowns, \* whether the daemon may be told to stop
    Requests,  \* whether the board is asked for
    MaxEnabled \* bound on the adapters one configuration enables

ASSUME PollerAssumptions ==
    /\ Keeps \subseteq Adapters /\ Zeroes \subseteq Adapters \ Keeps
    /\ Local \subseteq Adapters \ (Keeps \cup Zeroes)
    /\ Outages \in BOOLEAN /\ Caps \in BOOLEAN /\ Shutdowns \in BOOLEAN
    /\ Requests \in BOOLEAN
    /\ MaxEnabled \in Nat /\ IsFiniteSet(Ids)

VARIABLES
    enabled,   \* the adapters the configuration enables
    backend,   \* backend[a]: the work a's backend holds
    reachable, \* reachable[a]: whether it answers
    pc,        \* pc[a]: where a's pollOnce is
    answer,    \* answer[a]: the list it is about to store, and if it is partial
    board,     \* board[a]: what the store holds of source a
    status,    \* status[a]: Poller.status
    cancelled, \* whether the context is done
    reply,     \* the request for the board that is being answered
    partial,   \* history: whether board[a] came from a partial answer
    left       \* history: what backend a dropped since board[a] was stored

pollVars == <<pc, answer, board, status, partial>>

environment == <<enabled, backend, reachable, cancelled>>

vars == <<environment, pollVars, reply, left>>

-----------------------------------------------------------------------------
Nobody == [a \in Adapters |-> {}]

NewStatus == [healthy |-> FALSE, items |-> 0, error |-> FALSE, warning |-> FALSE]

NoReply == [stage |-> "none", partial |-> {}, warned |-> {}, during |-> {}]

Init ==
    /\ enabled \in {S \in SUBSET Adapters : Cardinality(S) <= MaxEnabled}
    /\ backend = Nobody
    /\ reachable = [a \in Adapters |-> TRUE]
    /\ pc = [a \in Adapters |-> "idle"]
    /\ answer = [a \in Adapters |-> [ids |-> {}, partial |-> FALSE]]
    /\ board = Nobody
    /\ status = [a \in Adapters |-> NewStatus]
    /\ cancelled = FALSE
    /\ reply = NoReply
    /\ partial = [a \in Adapters |-> FALSE]
    /\ left = Nobody

BackendMoves(a) ==
    /\ \E ids \in SUBSET Ids : backend' = [backend EXCEPT ![a] = ids]
    /\ left' = [left EXCEPT ![a] = @ \cup (backend[a] \ backend'[a])]
    /\ UNCHANGED <<enabled, reachable, cancelled, reply>> /\ UNCHANGED pollVars

Outage(a) ==
    /\ Outages /\ a \notin Local
    /\ reachable' = [reachable EXCEPT ![a] = ~@]
    /\ UNCHANGED <<enabled, backend, cancelled, reply, left>> /\ UNCHANGED pollVars

-----------------------------------------------------------------------------
(* pollOnce, on a tick or at the start.  A tick that is due when the       *)
(* context is done may still be the one that select takes.                 *)
Moves(a, from, to) == pc[a] = from /\ pc' = [pc EXCEPT ![a] = to]

Answers(a) == a \in Local \/ (reachable[a] /\ ~cancelled)

Fetch(a) ==
    /\ Moves(a, "idle", "fetched")
    /\ Answers(a)
    /\ \/ answer' = [answer EXCEPT ![a] = [ids |-> backend[a], partial |-> FALSE]]
       \/ /\ Caps
          /\ \E some \in SUBSET backend[a] :
                answer' = [answer EXCEPT ![a] = [ids |-> some, partial |-> TRUE]]
    /\ UNCHANGED <<board, status, partial, reply, left>> /\ UNCHANGED environment

FetchFails(a) ==
    /\ Moves(a, "idle", "failed")
    /\ ~Answers(a)
    /\ UNCHANGED <<answer, board, status, partial, reply, left>> /\ UNCHANGED environment

(* A step of a's poll while a request is between its two reads. *)
During(a) ==
    reply' = IF reply.stage = "board" THEN [reply EXCEPT !.during = @ \cup {a}] ELSE reply

(* ReplaceSource: an item that is not in the new list is said to be gone.  *)
Replace(a, ids, incomplete) ==
    /\ board' = [board EXCEPT ![a] = ids]
    /\ partial' = [partial EXCEPT ![a] = incomplete]
    /\ left' = [left EXCEPT ![a] = ids \ backend[a]]
    /\ During(a)

Store(a) ==
    /\ Moves(a, "fetched", "stored")
    /\ Replace(a, answer[a].ids, answer[a].partial)
    /\ UNCHANGED <<answer, status>> /\ UNCHANGED environment

(* Variant of RecordSuccess: the polls add up. *)
RecordSuccessAdds(a) ==
    /\ Moves(a, "stored", "idle")
    /\ status' = [status EXCEPT ![a] =
                    [healthy |-> TRUE, items |-> @.items + Cardinality(answer[a].ids),
                     error |-> FALSE, warning |-> answer[a].partial]]
    /\ During(a)
    /\ UNCHANGED <<answer, board, partial, left>> /\ UNCHANGED environment

RecordSuccess(a) ==
    /\ Moves(a, "stored", "idle")
    /\ status' = [status EXCEPT ![a] =
                    [healthy |-> TRUE, items |-> Cardinality(answer[a].ids),
                     error |-> FALSE, warning |-> answer[a].partial]]
    /\ During(a)
    /\ UNCHANGED <<answer, board, partial, left>> /\ UNCHANGED environment

(* Variant of KeepLast: the warning goes with the failure, as it does for  *)
(* the adapters that blank.                                                *)
KeepUnwarned(a) ==
    /\ a \in Keeps
    /\ Moves(a, "failed", "idle")
    /\ status' = [status EXCEPT ![a].healthy = FALSE, ![a].error = TRUE, ![a].warning = FALSE]
    /\ During(a)
    /\ UNCHANGED <<answer, board, partial, left>> /\ UNCHANGED environment

(* Variant of KeepLast: the poller gives up. *)
KeepAndStop(a) ==
    /\ a \in Keeps
    /\ Moves(a, "failed", "stopped")
    /\ status' = [status EXCEPT ![a].healthy = FALSE, ![a].error = TRUE]
    /\ During(a)
    /\ UNCHANGED <<answer, board, partial, left>> /\ UNCHANGED environment

(* Variant of KeepLast: the source is blanked. *)
KeepNothing(a) ==
    /\ a \in Keeps
    /\ Moves(a, "failed", "idle")
    /\ status' = [status EXCEPT ![a].healthy = FALSE, ![a].error = TRUE]
    /\ Replace(a, {}, FALSE)
    /\ UNCHANGED answer /\ UNCHANGED environment

(* recordFailure: a keeper leaves everything but the error as it was.      *)
KeepLast(a) ==
    /\ a \in Keeps
    /\ Moves(a, "failed", "idle")
    /\ status' = [status EXCEPT ![a].healthy = FALSE, ![a].error = TRUE]
    /\ During(a)
    /\ UNCHANGED <<answer, board, partial, left>> /\ UNCHANGED environment

(* Variant of RecordFailure: what the adapter held is still counted. *)
RecordFailureOnly(a) ==
    /\ a \notin Keeps
    /\ Moves(a, "failed", "blank")
    /\ status' = [status EXCEPT ![a].healthy = FALSE, ![a].error = TRUE]
    /\ During(a)
    /\ UNCHANGED <<answer, board, partial, left>> /\ UNCHANGED environment

RecordFailure(a) ==
    /\ a \notin Keeps
    /\ Moves(a, "failed", "blank")
    /\ status' = [status EXCEPT ![a] =
                    [healthy |-> FALSE, items |-> IF a \in Zeroes THEN 0 ELSE @.items,
                     error |-> TRUE, warning |-> FALSE]]
    /\ During(a)
    /\ UNCHANGED <<answer, board, partial, left>> /\ UNCHANGED environment

Blank(a) ==
    /\ Moves(a, "blank", "idle")
    /\ Replace(a, {}, FALSE)
    /\ UNCHANGED <<answer, status>> /\ UNCHANGED environment

Poll(a) ==
    Fetch(a) \/ FetchFails(a) \/ Store(a) \/ RecordSuccess(a)
      \/ KeepLast(a) \/ RecordFailure(a) \/ Blank(a)

(* SIGTERM; Run returns when select sees it; the process ends, and another *)
(* one starts with an empty store.                                         *)
Cancel ==
    /\ Shutdowns /\ ~cancelled
    /\ cancelled' = TRUE
    /\ UNCHANGED <<enabled, backend, reachable, reply, left>> /\ UNCHANGED pollVars

Stop(a) ==
    /\ cancelled
    /\ Moves(a, "idle", "stopped")
    /\ UNCHANGED <<answer, board, status, partial, reply, left>> /\ UNCHANGED environment

Restart ==
    /\ cancelled
    /\ pc' = [a \in Adapters |-> "idle"]
    /\ board' = Nobody
    /\ status' = [a \in Adapters |-> NewStatus]
    /\ partial' = [a \in Adapters |-> FALSE]
    /\ cancelled' = FALSE
    /\ reply' = NoReply
    /\ UNCHANGED <<answer, enabled, backend, reachable, left>>

-----------------------------------------------------------------------------
(* GET /api/work and /api/attention: the board, then the warnings.         *)
ReadBoard ==
    /\ Requests
    /\ reply.stage # "board"
    /\ reply' = [stage |-> "board", partial |-> {a \in Adapters : partial[a]},
                 warned |-> {}, during |-> {a \in Adapters : pc[a] \in {"stored", "blank"}}]
    /\ UNCHANGED <<environment, pollVars, left>>

ReadWarnings ==
    /\ reply.stage = "board"
    /\ reply' = [reply EXCEPT !.stage = "sent",
                              !.warned = {a \in Adapters : status[a].warning}]
    /\ UNCHANGED <<environment, pollVars, left>>

Next ==
    \/ \E a \in enabled : BackendMoves(a) \/ Outage(a) \/ Poll(a) \/ Stop(a)
    \/ Cancel
    \/ Restart
    \/ ReadBoard
    \/ ReadWarnings

Spec == Init /\ [][Next]_vars

(* Run polls on a ticker until the context is done; every fetch has a      *)
(* timeout, so each step of a poll ends.                                   *)
FairSpec == Spec /\ \A a \in Adapters : WF_vars(a \in enabled /\ Poll(a))

-----------------------------------------------------------------------------
(* Types of the state. *)
TypeOK ==
    /\ enabled \subseteq Adapters
    /\ backend \in [Adapters -> SUBSET Ids]
    /\ reachable \in [Adapters -> BOOLEAN]
    /\ pc \in [Adapters -> {"idle", "fetched", "stored", "failed", "blank", "stopped"}]
    /\ answer \in [Adapters -> [ids : SUBSET Ids, partial : BOOLEAN]]
    /\ board \in [Adapters -> SUBSET Ids]
    /\ status \in [Adapters -> [healthy : BOOLEAN, items : 0..Cardinality(Ids),
                                error : BOOLEAN, warning : BOOLEAN]]
    /\ cancelled \in BOOLEAN
    /\ partial \in [Adapters -> BOOLEAN]
    /\ left \in [Adapters -> SUBSET Ids]

(* Between two polls, what /health says of an adapter is what the store    *)
(* holds: the count (but for Calendar, which keeps counting what it has    *)
(* blanked), a warning exactly when the list on the board is known to be   *)
(* incomplete, however many polls have failed since, and health exactly    *)
(* when the last poll had an answer.                                       *)
StatusIsTheBoard ==
    \A a \in Adapters : pc[a] \in {"idle", "stopped"} =>
        /\ a \in Keeps \cup Zeroes \cup Local => status[a].items = Cardinality(board[a])
        /\ status[a].warning = partial[a]
        /\ ~(status[a].healthy /\ status[a].error)

(* README.md:792-794: an unreachable backend says nothing about the work.  *)
(* However polls fail and whenever the daemon is told to stop, an item of  *)
(* a keeper, or of a local adapter, disappears only after its backend      *)
(* dropped it, and never because of an answer that is older than that.     *)
(* This is of answers that are complete: a capped one may leave work out.  *)
Gone(a) == board[a] \ board'[a] \subseteq left[a]

KeepersLoseNothing ==
    [][\A a \in Keeps \cup Local :
          Poll(a) /\ ~(pc[a] = "fetched" /\ answer[a].partial) => Gone(a)]_vars

(* However a backend behaved before and however often the daemon was       *)
(* restarted, once the backend answers for good and its work stays as it   *)
(* is, a poll leaves the board with exactly that work, and healthy, unless *)
(* it says that its answer is incomplete.                                  *)
Recovers ==
    \A a \in Adapters, ids \in SUBSET Ids :
        a \in enabled /\ <>[](backend[a] = ids /\ reachable[a] /\ ~cancelled) =>
            <>[](pc[a] \in {"idle", "stopped"} /\ ~status[a].warning =>
                    board[a] = ids /\ status[a].healthy)

(* server.go:66-69: a list that is known to be incomplete says so where it *)
(* is read, unless the adapter was between storing the list and recording  *)
(* how the poll went, or ended a poll, while the request was answered:     *)
(* the list and the record are two locks, taken one after the other.       *)
WorkSaysWhatItMissesBetweenPolls ==
    reply.stage = "sent" => reply.partial \ reply.during \subseteq reply.warned
=============================================================================
