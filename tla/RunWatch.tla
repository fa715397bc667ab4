------------------------------ MODULE RunWatch ------------------------------
(***************************************************************************)
(* WatchRun (api/rpc/services.py): a client follows one run.  The handler  *)
(* polls: it reads the run's row, then the results, sends what changed,    *)
(* and ends after a round whose row is terminal or past its time limit.    *)
(* Each read is a query of its own, and the workers write in between: the  *)
(* one that holds the run, and one of an earlier attempt that lost it and  *)
(* still upserts what it had under way.                                    *)
(***************************************************************************)
EXTENDS Integers, FiniteSets

CONSTANTS
  ResultIds,     \* results the run may have
  MaxWrites,     \* bound: writes of each result
  MaxAttempts    \* max_run_attempts

ASSUME RunWatchAssumption == MaxWrites \in Nat /\ MaxAttempts \in Nat \ {0}

VARIABLES
  row,       \* the run's row: status and attempt
  stored,    \* how often each result has been written, 0: it does not exist
  closing,   \* what was stored when the row became terminal
  watch,     \* where the handler is
  rowSeen,   \* the row it read last
  fresh,     \* the results it read last
  seen,      \* what it has sent of each result
  sent       \* the row it sent last

rvars == <<row, stored, closing, watch, rowSeen, fresh, seen, sent>>
reader == <<watch, rowSeen, fresh, seen, sent>>

TerminalStatuses == {"succeeded", "failed", "cancelled"}
NoResults == [r \in ResultIds |-> 0]
NoRow == [status |-> "none", attempt |-> 0]

RunWatchInit ==
  /\ row = [status |-> "queued", attempt |-> 0]
  /\ stored = NoResults /\ closing = NoResults
  /\ watch = "row" /\ rowSeen = NoRow /\ sent = NoRow
  /\ fresh = NoResults /\ seen = NoResults

-----------------------------------------------------------------------------
(* The writers, as run/worker.py and storage/repos/postgres.py have them.  *)

\* A queued run, or one whose lease has run out.
ClaimRun ==
  /\ row.status \in {"queued", "running"} /\ row.attempt < MaxAttempts
  /\ row' = [status |-> "running", attempt |-> row.attempt + 1]
  /\ UNCHANGED <<stored, closing, reader>>

\* upsert_many of a partial or of the whole run: one transaction.  A worker
\* that lost the run may still write when the row is terminal.
UpsertResults ==
  /\ row.attempt > 0
  /\ \E written \in SUBSET ResultIds \ {{}} :
       /\ \A r \in written : stored[r] < MaxWrites
       /\ stored' = [r \in ResultIds |-> stored[r] + IF r \in written THEN 1 ELSE 0]
  /\ UNCHANGED <<row, closing, reader>>

\* update_status has no condition on the row: a worker that lost the run
\* overwrites the terminal status the row got meanwhile.  A queued row ends
\* only by a cancellation.
FinishRow ==
  /\ \E status \in TerminalStatuses :
       /\ row.attempt = 0 => row.status = "queued" /\ status = "cancelled"
       /\ row' = [row EXCEPT !.status = status]
  /\ closing' = IF row.status \in TerminalStatuses THEN closing ELSE stored
  /\ UNCHANGED <<stored, reader>>

-----------------------------------------------------------------------------
(* The handler.                                                            *)

ReadRow ==
  /\ watch = "row"
  /\ rowSeen' = row /\ watch' = "results"
  /\ UNCHANGED <<row, stored, closing, fresh, seen, sent>>

ReadResults ==
  /\ watch = "results"
  /\ fresh' = stored /\ watch' = "send"
  /\ UNCHANGED <<row, stored, closing, rowSeen, seen, sent>>

\* Mutant: the row is read again to see whether the run is over.
SendChangesByNow ==
  /\ watch = "send"
  /\ seen' = fresh /\ sent' = row
  /\ watch' = IF row.status \in TerminalStatuses THEN "over" ELSE "row"
  /\ UNCHANGED <<row, stored, closing, rowSeen, fresh>>

\* One message with the row and the results that changed, none when nothing
\* did.  A client that leaves ends the handler at a yield or an await.
SendChanges ==
  /\ watch = "send"
  /\ seen' = fresh /\ sent' = rowSeen
  /\ \/ watch' = "over" /\ rowSeen.status \in TerminalStatuses
     \/ watch' = "row" /\ rowSeen.status \notin TerminalStatuses
     \/ watch' = "expired" /\ rowSeen.status \notin TerminalStatuses
  /\ UNCHANGED <<row, stored, closing, rowSeen, fresh>>

WatcherLeaves ==
  /\ watch \in {"row", "results", "send"}
  /\ watch' = "left"
  /\ UNCHANGED <<row, stored, closing, rowSeen, fresh, seen, sent>>

WatchStep == ReadRow \/ ReadResults \/ SendChanges
RunWatchNext == ClaimRun \/ UpsertResults \/ FinishRow \/ WatchStep \/ WatcherLeaves
RunWatchFairness == WF_rvars(WatchStep)
RunWatchSpec == RunWatchInit /\ [][RunWatchNext]_rvars /\ RunWatchFairness

(***************************************************************************)
(* Properties.                                                             *)
(***************************************************************************)

RunWatchTypeOK ==
  /\ watch \in {"row", "results", "send", "over", "expired", "left"}
  /\ \A r \in ResultIds : fresh[r] \in 0 .. stored[r] /\ seen[r] \in 0 .. fresh[r]

\* A watch that ends with the run has sent a terminal row of the run and every
\* result, in the form or a later one, that was stored when the run ended: nothing
\* falls between the last read of the results and the row that ends the watch
\* (services.py:284-301), whoever wrote in between.
WatchEndsWithEverything ==
  watch = "over" =>
    /\ sent.status \in TerminalStatuses
    /\ \A r \in ResultIds : seen[r] >= closing[r]

\* In the end a client that stayed for a run that is over has been told so.
EndIsTold == row.status \in TerminalStatuses => watch \in {"over", "expired", "left"}
=============================================================================
