------------------------------ MODULE RunStore ------------------------------
(***************************************************************************)
(* The agentevals.run table and the statements PostgresRunRepository runs  *)
(* on it (src/agentevals/storage/repos/postgres.py).  Each statement or    *)
(* transaction is one value of the whole table: RunWorker's actions assign *)
(* it to rows'.                                                            *)
(*                                                                         *)
(* now() only decides whether a lease has run out, so a lease is "live" or *)
(* "expired".  Of error only the writer is kept.  created_at orders the    *)
(* claim, but FOR UPDATE SKIP LOCKED steps over a row another transaction  *)
(* holds, so any claimable row can be the one taken.                       *)
(***************************************************************************)
EXTENDS Integers, FiniteSets

CONSTANTS Runs,        \* run ids
          Uploaded,    \* the runs recorded by /api/evaluate (target kind "uploaded")
          Workers,     \* worker loops, over all replicas
          MaxAttempts, \* StorageSettings.max_run_attempts
          Nobody,      \* worker_id IS NULL
          Sync         \* the worker_id record_eval_run writes

ASSUME UploadedAssumption == Uploaded \subseteq Runs
ASSUME AttemptsAssumption == MaxAttempts \in Nat \ {0}
ASSUME WorkerAssumption == /\ Nobody \notin Workers
                           /\ Sync \notin Workers
                           /\ Nobody # Sync

VARIABLE rows          \* [Runs -> Row]

Terminal == {"succeeded", "failed", "cancelled"}
Status == {"absent", "queued", "running"} \cup Terminal
Error == {"none", "request", "stopped", "deadline", "error", "lease"}

Row == [status: Status, attempt: 0..MaxAttempts, worker: Workers \cup {Nobody, Sync},
        lease: {"none", "live", "expired"}, cancel: BOOLEAN,
        error: Error, summary: BOOLEAN]

Absent == [status |-> "absent", attempt |-> 0, worker |-> Nobody, lease |-> "none",
           cancel |-> FALSE, error |-> "none", summary |-> FALSE]

\* INSERT of a submitted run, and of one record_eval_run has already executed.
Submitted == [Absent EXCEPT !.status = "queued"]
Recorded == [Absent EXCEPT !.status = "queued", !.attempt = 1, !.worker = Sync]

\* Mutant: a running run is taken over without waiting for its lease.
LeaseIgnored(r) == rows[r].status = "running"

LeaseOver(r) == rows[r].status = "running" /\ rows[r].lease = "expired"

\* Mutant: the sweep does not ask whether the lease is over.
UnclaimableAtOnce(r) ==
  rows[r].status = "running" /\ (rows[r].attempt >= MaxAttempts \/ rows[r].cancel)

\* First statement of claim_next: a run nobody may claim again is finished.
Unclaimable(r) == LeaseOver(r) /\ (rows[r].attempt >= MaxAttempts \/ rows[r].cancel)

\* Mutant: claim_next without its first statement.
NeverSweptRow(r) == rows[r]

SweptRow(r) ==
  IF ~Unclaimable(r) THEN rows[r]
  ELSE IF rows[r].cancel THEN [rows[r] EXCEPT !.status = "cancelled"]
  ELSE [rows[r] EXCEPT !.status = "failed", !.error = "lease"]

Swept == [r \in Runs |-> SweptRow(r)]

\* Mutants: attempt <= max_attempts; the cancel flag is not looked at; any row
\* without a live lease is taken.
ClaimableOnceMore(r) == /\ rows[r].attempt <= MaxAttempts
                        /\ ~rows[r].cancel
                        /\ rows[r].status = "queued" \/ LeaseOver(r)
ClaimableCancelled(r) == /\ rows[r].attempt < MaxAttempts
                         /\ rows[r].status = "queued" \/ LeaseOver(r)
ClaimableFinished(r) == /\ rows[r].attempt < MaxAttempts
                        /\ ~rows[r].cancel
                        /\ rows[r].status # "absent" /\ rows[r].lease # "live"

\* Second statement: the rows its sub-select can return.
Claimable(r) == /\ rows[r].attempt < MaxAttempts
                /\ ~rows[r].cancel
                /\ rows[r].status = "queued" \/ LeaseOver(r)

ClaimedRow(r, w) == [rows[r] EXCEPT !.status = "running", !.worker = w,
                                    !.lease = "live", !.attempt = @ + 1]

Claimed(r, w) == [Swept EXCEPT ![r] = ClaimedRow(r, w)]

\* Mutant: heartbeat does not compare worker_id.
AnyoneHoldsLease(r, w) == rows[r].status = "running" /\ ~rows[r].cancel

\* WHERE clause of heartbeat: the lease is extended only for its holder.
HoldsLease(r, w) == /\ rows[r].worker = w
                    /\ rows[r].status = "running"
                    /\ ~rows[r].cancel

Renewed(r) == [rows EXCEPT ![r].lease = "live"]

\* update_status, as every caller uses it: to a terminal status, COALESCE
\* keeping the old error and summary when none is given.  No clause names the
\* worker or the attempt that writes.
UpdatedRow(r, status, error, summary) ==
  [rows[r] EXCEPT !.status = status,
                  !.error = IF error = "none" THEN @ ELSE error,
                  !.summary = @ \/ summary,
                  !.worker = Nobody,
                  !.lease = "none"]

Updated(r, status, error, summary) ==
  [rows EXCEPT ![r] = UpdatedRow(r, status, error, summary)]

\* cancel: flags a queued or running run; a queued one is over at once.
Cancellable(r) == rows[r].status \in {"queued", "running"}

\* Mutant: a queued run is flagged and left in the queue.
FlaggedRow(r) == [rows[r] EXCEPT !.cancel = TRUE]

CancelledRow(r) ==
  [rows[r] EXCEPT !.cancel = TRUE,
                  !.status = IF @ = "queued" THEN "cancelled" ELSE @]

CancelRequested(r) == [rows EXCEPT ![r] = CancelledRow(r)]
=============================================================================
