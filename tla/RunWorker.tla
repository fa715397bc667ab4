----------------------------- MODULE RunWorker -----------------------------
(***************************************************************************)
(* AsyncRunWorker (src/agentevals/run/worker.py): worker loops claim runs, *)
(* keep the lease with a heartbeat task, and drive the evaluation          *)
(* (src/agentevals/runner.py) while RunService submits, cancels and        *)
(* records runs (src/agentevals/run/service.py).                           *)
(*                                                                         *)
(* One await is one step.  An execution is a claimed (run, attempt) pair;  *)
(* it outlives its lease, its row and even its worker loop when evaluator  *)
(* tasks are left running.  A unit is one evaluator of one trace group.    *)
(***************************************************************************)
EXTENDS RunStore

CONSTANTS Units,   \* evaluator tasks of a run
          Group,   \* [Units -> the trace group the evaluator scores]
          Budget   \* [Faults -> Nat]: how often each disturbance may happen

Faults == {"crash", "stop", "db", "stall", "cancel"}
Attempts == 1..MaxAttempts

ASSUME BudgetAssumption == Budget \in [Faults -> Nat]

VARIABLES ex,      \* [Runs -> [Attempts -> Execution]]
          loop,    \* [Workers -> LoopState], the task running _loop
          results, \* [Runs -> [Units -> attempt that last wrote the row, 0: no row]]
          rec,     \* [Runs -> RecState], the record_eval_run call of an uploaded run
          budget   \* [Faults -> what is left of Budget]

vars == <<rows, ex, loop, results, rec, budget>>

\* "fetch" .. "commit" lie in the try of _execute, "abort" and "report" in its
\* except clauses; "gone" is an execution whose process died.
Trying == {"fetch", "eval", "store", "final", "commit"}
Handling == {"abort", "report"}
Live == Trying \cup Handling
Stage == {"none", "over", "gone"} \cup Live
Reason == {"none", "request", "stopped", "deadline", "error"}
UnitState == {"todo", "written", "done", "raised", "error", "skipped"}
LoopState == {"idle", "busy", "stopped", "crashed", "dead"}
RecState == {"none", "created", "stored", "done"}

Execution == [worker: Workers \cup {Nobody}, stage: Stage, reason: Reason,
              event: BOOLEAN, hb: BOOLEAN, unit: [Units -> UnitState],
              final: BOOLEAN]

NoExecution == [worker |-> Nobody, stage |-> "none", reason |-> "none",
                event |-> FALSE, hb |-> FALSE, unit |-> [u \in Units |-> "todo"],
                final |-> FALSE]

Init == /\ rows = [r \in Runs |-> Absent]
        /\ ex = [r \in Runs |-> [a \in Attempts |-> NoExecution]]
        /\ loop = [w \in Workers |-> "idle"]
        /\ results = [r \in Runs |-> [u \in Units |-> 0]]
        /\ rec = [r \in Runs |-> "none"]
        /\ budget = Budget

Spend(f) == budget[f] > 0 /\ budget' = [budget EXCEPT ![f] = @ - 1]

\* Execution (r, a) changes to what the caller makes of it.
Becomes(r, a, e) == ex' = [ex EXCEPT ![r][a] = e]

\* Mutant: ON CONFLICT DO NOTHING.
InsertedOnly(r, a, us) ==
  [results EXCEPT ![r] = [u \in Units |-> IF u \in us /\ @[u] = 0 THEN a ELSE @[u]]]

\* upsert_many by attempt a of the result rows of us.
Upserted(r, a, us) ==
  [results EXCEPT ![r] = [u \in Units |-> IF u \in us THEN a ELSE @[u]]]

\* A write that raises may still have reached the database.
MaybeApplied(written) == rows' \in {rows, written}
-----------------------------------------------------------------------------
(* RunService *)

Submit(r) == /\ r \notin Uploaded
             /\ rows[r].status = "absent"
             /\ rows' = [rows EXCEPT ![r] = Submitted]
             /\ UNCHANGED <<ex, loop, results, rec, budget>>

CancelRun(r) == /\ Cancellable(r)
                /\ Spend("cancel")
                /\ rows' = CancelRequested(r)
                /\ UNCHANGED <<ex, loop, results, rec>>

RecordCreate(r) == /\ r \in Uploaded
                   /\ rec[r] = "none"
                   /\ rows' = [rows EXCEPT ![r] = Recorded]
                   /\ rec' = [rec EXCEPT ![r] = "created"]
                   /\ UNCHANGED <<ex, loop, results, budget>>

RecordStore(r) == /\ rec[r] = "created"
                  /\ rec' = [rec EXCEPT ![r] = "stored"]
                  /\ results' = Upserted(r, 1, Units)
                  /\ UNCHANGED <<rows, ex, loop, budget>>

RecordCommit(r) == /\ rec[r] = "stored"
                   /\ rec' = [rec EXCEPT ![r] = "done"]
                   /\ \/ rows' = Updated(r, "succeeded", "none", TRUE)
                      \/ rows' = Updated(r, "failed", "error", TRUE)
                   /\ UNCHANGED <<ex, loop, results, budget>>

\* The request dies with its process or an insert fails: nothing is undone.
RecordFails(r) == /\ rec[r] \in {"created", "stored"}
                  /\ Spend("db")
                  /\ rec' = [rec EXCEPT ![r] = "done"]
                  /\ UNCHANGED <<rows, ex, loop, results>>

ServiceStep(r) == \/ Submit(r) \/ CancelRun(r) \/ RecordCreate(r)
                  \/ RecordStore(r) \/ RecordCommit(r) \/ RecordFails(r)
-----------------------------------------------------------------------------
(* The loop: claim_next *)

Starts(r, w, stage) ==
  Becomes(r, rows[r].attempt + 1,
          [NoExecution EXCEPT !.worker = w, !.stage = stage, !.hb = (stage = "fetch")])

\* Mutant: the loop starts _execute as a task and polls on.
ClaimDetached(w, r) == /\ loop[w] = "idle"
                       /\ Claimable(r)
                       /\ rows' = Claimed(r, w)
                       /\ Starts(r, w, "fetch")
                       /\ UNCHANGED <<loop, results, rec, budget>>

ClaimRun(w, r) == /\ loop[w] = "idle"
                  /\ Claimable(r)
                  /\ rows' = Claimed(r, w)
                  /\ Starts(r, w, "fetch")
                  /\ loop' = [loop EXCEPT ![w] = "busy"]
                  /\ UNCHANGED <<results, rec, budget>>

\* claim_next commits, but the loop never sees the row: the connection fails
\* (the loop backs off) or stop() cancels the await (the loop returns).
ClaimLost(w, r) == /\ loop[w] = "idle"
                   /\ Claimable(r)
                   /\ rows' = Claimed(r, w)
                   /\ Starts(r, w, "gone")
                   /\ \/ Spend("db") /\ UNCHANGED loop
                      \/ Spend("stop") /\ loop' = [loop EXCEPT ![w] = "stopped"]
                   /\ UNCHANGED <<results, rec>>

\* claim_next finds nothing to claim and only sweeps.
SweepOnly(w) == /\ loop[w] = "idle"
                /\ \A r \in Runs : ~Claimable(r)
                /\ rows' = Swept
                /\ UNCHANGED <<ex, loop, results, rec, budget>>
-----------------------------------------------------------------------------
(* _run_evaluation *)

At(r, a, stage) == ex[r][a].stage = stage
Goes(r, a, stage) == Becomes(r, a, [ex[r][a] EXCEPT !.stage = stage])
Aborts(r, a, reason) ==
  Becomes(r, a, [ex[r][a] EXCEPT !.stage = "abort", !.reason = reason])

\* Credentials, parameters, eval set, fetcher and trace groups.
FetchFails(r, a) == /\ At(r, a, "fetch")
                    /\ Aborts(r, a, "error")
                    /\ UNCHANGED <<rows, loop, results, rec, budget>>

FetchOk(r, a) == /\ At(r, a, "fetch")
                 /\ r \notin Uploaded
                 /\ IF ex[r][a].event THEN Aborts(r, a, "request")
                                      ELSE Goes(r, a, "eval")
                 /\ UNCHANGED <<rows, loop, results, rec, budget>>

\* asyncio.timeout spans the fetch and the evaluation only.
Deadline(r, a) == /\ ex[r][a].stage \in {"fetch", "eval"}
                  /\ r \notin Uploaded
                  /\ Aborts(r, a, "deadline")
                  /\ UNCHANGED <<rows, loop, results, rec, budget>>

Broken(r, a, g) == \E u \in Units : /\ Group[u] = g
                                    /\ ex[r][a].unit[u] \in {"raised", "error"}

\* The inner gather of _evaluate_group raises at once and leaves the other
\* evaluators of its group running, whatever becomes of the execution.
UnitActive(r, a, u) ==
  /\ ex[r][a].unit[u] \in {"todo", "written"}
  /\ At(r, a, "eval") \/ (Broken(r, a, Group[u]) /\ ~At(r, a, "gone"))

SetUnit(r, a, u, state) == [ex[r][a] EXCEPT !.unit[u] = state]

\* Every metric the group has so far is upserted.
UnitWrite(r, a, u) ==
  /\ UnitActive(r, a, u) /\ ex[r][a].unit[u] = "todo"
  /\ Becomes(r, a, SetUnit(r, a, u, "written"))
  /\ LET scored == {v \in Units : /\ Group[v] = Group[u]
                                  /\ v = u \/ ex[r][a].unit[v] \in {"written", "done", "raised"}}
     IN results' = Upserted(r, a, scored)
  /\ UNCHANGED <<rows, loop, rec, budget>>

UnitFails(r, a, u) == /\ UnitActive(r, a, u)
                      /\ ex[r][a].unit[u] = "todo"
                      /\ Becomes(r, a, SetUnit(r, a, u, "error"))
                      /\ UNCHANGED <<rows, loop, results, rec, budget>>

\* Mutant: emit_partial before upsert_many.
EmitFirst(r, a, u) ==
  /\ UnitActive(r, a, u)
  /\ Becomes(r, a, SetUnit(r, a, u, IF ex[r][a].event THEN "raised" ELSE "done"))
  /\ UNCHANGED <<rows, loop, results, rec, budget>>

\* emit_partial, then the cancellation check of _trace_progress.
UnitEmit(r, a, u) ==
  /\ UnitActive(r, a, u) /\ ex[r][a].unit[u] = "written"
  /\ Becomes(r, a, SetUnit(r, a, u, IF ex[r][a].event THEN "raised" ELSE "done"))
  /\ UNCHANGED <<rows, loop, results, rec, budget>>

\* Turn extraction fails: the group gets one error result and no evaluator runs.
GroupSkipped(r, a, g) ==
  /\ At(r, a, "eval")
  /\ \A u \in Units : Group[u] = g => ex[r][a].unit[u] = "todo"
  /\ Becomes(r, a, [ex[r][a] EXCEPT !.unit =
       [u \in Units |-> IF Group[u] = g THEN "skipped" ELSE @[u]]])
  /\ UNCHANGED <<rows, loop, results, rec, budget>>

\* The outer gather waits for every group and keeps exceptions as values.
EvalDone(r, a) ==
  /\ At(r, a, "eval")
  /\ \A u \in Units : \/ ex[r][a].unit[u] \in {"done", "skipped"}
                      \/ Broken(r, a, Group[u])
  /\ Goes(r, a, "store")
  /\ UNCHANGED <<rows, loop, results, rec, budget>>

\* A group that raised is only an entry of errors.
Scored(r, a) == {u \in Units : ex[r][a].unit[u] = "done" /\ ~Broken(r, a, Group[u])}

\* Mutant: the run is committed without emit_final.
StoreUnannounced(r, a) ==
  /\ At(r, a, "store")
  /\ Goes(r, a, "commit")
  /\ results' = Upserted(r, a, Scored(r, a))
  /\ UNCHANGED <<rows, loop, rec, budget>>

StoreResults(r, a) ==
  /\ At(r, a, "store")
  /\ Goes(r, a, "final")
  /\ results' = Upserted(r, a, Scored(r, a))
  /\ UNCHANGED <<rows, loop, rec, budget>>

StoreFails(r, a) == /\ At(r, a, "store")
                    /\ Spend("db")
                    /\ Aborts(r, a, "error")
                    /\ UNCHANGED <<rows, loop, results, rec>>

EmitFinal(r, a) == /\ At(r, a, "final")
                   /\ Becomes(r, a, [ex[r][a] EXCEPT !.stage = "commit",
                                                     !.final = TRUE])
                   /\ UNCHANGED <<rows, loop, results, rec, budget>>

\* _execute is left: its finally clause ends the heartbeat task.
Ends(r, a) == Becomes(r, a, [ex[r][a] EXCEPT !.stage = "over", !.hb = FALSE,
                                             !.reason = "none"])

Commit(r, a) == /\ At(r, a, "commit")
                /\ rows' = Updated(r, "succeeded", "none", TRUE)
                /\ Ends(r, a)
                /\ loop' = [loop EXCEPT ![ex[r][a].worker] = "idle"]
                /\ UNCHANGED <<results, rec, budget>>

CommitFails(r, a) == /\ At(r, a, "commit")
                     /\ Spend("db")
                     /\ MaybeApplied(Updated(r, "succeeded", "none", TRUE))
                     /\ Aborts(r, a, "error")
                     /\ UNCHANGED <<loop, results, rec>>
-----------------------------------------------------------------------------
(* The except clauses of _execute *)

Outcome(reason) == IF reason \in {"request", "stopped"} THEN "cancelled" ELSE "failed"
Aborted(r, a) == Updated(r, Outcome(ex[r][a].reason), ex[r][a].reason, FALSE)

Abort(r, a) == /\ At(r, a, "abort")
               /\ rows' = Aborted(r, a)
               /\ Goes(r, a, "report")
               /\ UNCHANGED <<loop, results, rec, budget>>

\* update_status raises inside the except clause: nothing catches it and the
\* task running _loop is over.
AbortFails(r, a) == /\ At(r, a, "abort")
                    /\ Spend("db")
                    /\ MaybeApplied(Aborted(r, a))
                    /\ Ends(r, a)
                    /\ loop' = [loop EXCEPT ![ex[r][a].worker] = "dead"]
                    /\ UNCHANGED <<results, rec>>

\* emit_error; "worker cancelled" is re-raised and ends the loop.
Report(r, a) == /\ At(r, a, "report")
                /\ Ends(r, a)
                /\ loop' = [loop EXCEPT ![ex[r][a].worker] =
                     IF ex[r][a].reason = "stopped" THEN "stopped" ELSE "idle"]
                /\ UNCHANGED <<rows, results, rec, budget>>
-----------------------------------------------------------------------------
(* stop(), crashes, restarts *)

StopIdle(w) == /\ loop[w] = "idle"
               /\ Spend("stop")
               /\ loop' = [loop EXCEPT ![w] = "stopped"]
               /\ UNCHANGED <<rows, ex, results, rec>>

StopTrying(r, a) == /\ ex[r][a].stage \in Trying
                    /\ Spend("stop")
                    /\ IF At(r, a, "commit")
                       THEN MaybeApplied(Updated(r, "succeeded", "none", TRUE))
                       ELSE UNCHANGED rows
                    /\ Aborts(r, a, "stopped")
                    /\ UNCHANGED <<loop, results, rec>>

\* CancelledError lands in an except clause: the rest of it is skipped.
StopHandling(r, a) == /\ ex[r][a].stage \in Handling
                      /\ ex[r][a].reason # "stopped"
                      /\ Spend("stop")
                      /\ IF At(r, a, "abort") THEN MaybeApplied(Aborted(r, a))
                                              ELSE UNCHANGED rows
                      /\ Ends(r, a)
                      /\ loop' = [loop EXCEPT ![ex[r][a].worker] = "stopped"]
                      /\ UNCHANGED <<results, rec>>

\* The process of w is gone, detached evaluators included.
Killed(w) == [r \in Runs |-> [a \in Attempts |->
                IF ex[r][a].worker = w
                THEN [ex[r][a] EXCEPT !.stage = "gone", !.hb = FALSE, !.reason = "none"]
                ELSE ex[r][a]]]

Crash(w) == /\ loop[w] # "crashed"
            /\ Spend("crash")
            /\ ex' = Killed(w)
            /\ loop' = [loop EXCEPT ![w] = "crashed"]
            /\ UNCHANGED <<rows, results, rec>>

\* A new process may come up with the worker id of the old one.
Restart(w) == /\ loop[w] \in {"stopped", "crashed"}
              /\ ex' = Killed(w)
              /\ loop' = [loop EXCEPT ![w] = "idle"]
              /\ UNCHANGED <<rows, results, rec, budget>>
-----------------------------------------------------------------------------
(* _heartbeat, and the lease it keeps *)

HeartbeatOk(r, a) == /\ ex[r][a].hb
                     /\ HoldsLease(r, ex[r][a].worker)
                     /\ rows' = Renewed(r)
                     /\ UNCHANGED <<ex, loop, results, rec, budget>>

HeartbeatLost(r, a) ==
  /\ ex[r][a].hb
  /\ ~HoldsLease(r, ex[r][a].worker)
  /\ Becomes(r, a, [ex[r][a] EXCEPT !.event = TRUE, !.hb = FALSE])
  /\ UNCHANGED <<rows, loop, results, rec, budget>>

\* Only CancelledError is caught: any other exception ends the task unseen.
HeartbeatError(r, a) == /\ ex[r][a].hb
                        /\ Spend("db")
                        /\ Becomes(r, a, [ex[r][a] EXCEPT !.hb = FALSE])
                        /\ UNCHANGED <<rows, loop, results, rec>>

\* A lease a heartbeat still renews runs out only when that task is held up
\* ("stall"): a blocked event loop, a slow database, a paused process.
LeaseExpires(r) ==
  /\ rows[r].status = "running" /\ rows[r].lease = "live"
  /\ IF \E a \in Attempts : ex[r][a].hb /\ HoldsLease(r, ex[r][a].worker)
     THEN Spend("stall") ELSE UNCHANGED budget
  /\ rows' = [rows EXCEPT ![r].lease = "expired"]
  /\ UNCHANGED <<ex, loop, results, rec>>
-----------------------------------------------------------------------------
EvaluationStep(r, a) ==
  \/ FetchFails(r, a) \/ FetchOk(r, a) \/ Deadline(r, a)
  \/ \E u \in Units : UnitWrite(r, a, u) \/ UnitFails(r, a, u) \/ UnitEmit(r, a, u)
  \/ \E u \in Units : GroupSkipped(r, a, Group[u])
  \/ EvalDone(r, a) \/ StoreResults(r, a) \/ EmitFinal(r, a) \/ Commit(r, a)
  \/ Abort(r, a) \/ Report(r, a)

DisturbedStep(r, a) ==
  \/ StoreFails(r, a) \/ CommitFails(r, a) \/ AbortFails(r, a)
  \/ StopTrying(r, a) \/ StopHandling(r, a)

HeartbeatStep(r, a) ==
  HeartbeatOk(r, a) \/ HeartbeatLost(r, a) \/ HeartbeatError(r, a)

LoopStep(w) == (\E r \in Runs : ClaimRun(w, r)) \/ SweepOnly(w)

DisturbedLoop(w) ==
  (\E r \in Runs : ClaimLost(w, r)) \/ StopIdle(w) \/ Crash(w) \/ Restart(w)

Next == \/ \E r \in Runs : ServiceStep(r) \/ LeaseExpires(r)
        \/ \E r \in Runs, a \in Attempts :
             EvaluationStep(r, a) \/ DisturbedStep(r, a) \/ HeartbeatStep(r, a)
        \/ \E w \in Workers : LoopStep(w) \/ DisturbedLoop(w)

Spec == Init /\ [][Next]_vars

\* Loops and their tasks keep running and calls return or time out; leases that
\* nobody renews run out.  Stops, crashes, errors and requests are not owed.
Fairness ==
  /\ \A w \in Workers : WF_vars(LoopStep(w))
  /\ \A r \in Runs : WF_vars(LeaseExpires(r) /\ UNCHANGED budget)
  /\ \A r \in Runs, a \in Attempts :
       WF_vars(EvaluationStep(r, a)) /\ WF_vars(HeartbeatOk(r, a) \/ HeartbeatLost(r, a))

FairSpec == Spec /\ Fairness
-----------------------------------------------------------------------------
TypeOK ==
  /\ rows \in [Runs -> Row]
  /\ ex \in [Runs -> [Attempts -> Execution]]
  /\ loop \in [Workers -> LoopState]
  /\ results \in [Runs -> [Units -> 0..MaxAttempts]]
  /\ rec \in [Runs -> RecState]
  /\ budget \in [Faults -> Nat]

\* heartbeat() names the worker, not the attempt, and worker ids are used for
\* many attempts: a heartbeat task that can extend a lease still belongs to the
\* newest attempt of its run.
LeaseHolderIsNewest ==
  \A r \in Runs, a \in Attempts :
    ex[r][a].hb /\ HoldsLease(r, ex[r][a].worker) => a = rows[r].attempt

\* A worker id executes one run at a time, so that id alone tells claims apart.
OneExecutionPerWorker ==
  \A r, q \in Runs, a, b \in Attempts :
    /\ ex[r][a].stage \in Live
    /\ ex[q][b].stage \in Live
    /\ ex[r][a].worker = ex[q][b].worker
    => r = q /\ a = b

\* Why: attempts are claimed in order, each by a loop that works on nothing else,
\* and a loop that moved on never comes back to an earlier attempt.
ClaimInv ==
  /\ OneExecutionPerWorker
  /\ \A r \in Runs : rows[r].status = "absent" => rows[r] = Absent
  /\ \A r \in Runs : rec[r] = "none" /\ r \in Uploaded => rows[r].status = "absent"
  /\ \A r \in Runs : rec[r] # "none" => rows[r].attempt > 0
  /\ \A r \in Runs : rows[r].status = "running" =>
       \E a \in Attempts : /\ a = rows[r].attempt
                           /\ ex[r][a].stage # "none"
                           /\ ex[r][a].worker = rows[r].worker
  /\ \A r \in Runs, a \in Attempts :
       /\ ex[r][a].stage = "none" => ex[r][a].worker = Nobody
       /\ ex[r][a].stage # "none" => a <= rows[r].attempt
       /\ ex[r][a].stage \in Live => /\ ex[r][a].worker \in Workers
                                     /\ loop[ex[r][a].worker] = "busy"
       /\ ex[r][a].hb => ex[r][a].stage \in Live
  /\ \A r \in Runs, a, b \in Attempts :
       /\ a < b
       /\ ex[r][a].stage \in Live
       /\ ex[r][b].stage # "none"
       => ex[r][a].worker # ex[r][b].worker

\* What a sink was sent as a partial result, a reader of the API can read.
EmittedIsStored ==
  \A r \in Runs, a \in Attempts, u \in Units :
    ex[r][a].unit[u] \in {"done", "raised"} => results[r][u] # 0

\* A submitted run shows success only after some attempt told the sinks so.
SuccessAnnounced ==
  \A r \in Runs \ Uploaded :
    rows[r].status = "succeeded" => \E a \in Attempts : ex[r][a].final

\* Once a cancellation is recorded, no lease expiry and no retry starts the run
\* again, on any replica.
NoAttemptAfterCancel ==
  [][\A r \in Runs : rows[r].cancel => rows'[r].attempt = rows[r].attempt]_vars

\* A run that was finished is never picked up again, whoever finished it.
FinishedStaysFinished ==
  [][\A r \in Runs : rows[r].status \in Terminal => rows'[r].status \in Terminal]_vars

\* While every lease is renewed in time and no cancellation ends a heartbeat,
\* two loops never work on the same run.
OneExecutor ==
  \A r \in Runs, a, b \in Attempts :
    ex[r][a].stage \in Live /\ ex[r][b].stage \in Live => a = b

\* ... and only the attempt that reported an outcome may correct it, when its
\* own last write was interrupted.
OutcomeIsOwned ==
  [][\A r \in Runs \ Uploaded :
       rows[r].status \in Terminal /\ rows'[r].status # rows[r].status
       => ex[r][rows[r].attempt].stage = "abort"]_vars

\* ... and the rows of a succeeded run come from the attempt that succeeded, not
\* from one that was abandoned halfway.
ResultsAreFresh ==
  \A r \in Runs \ Uploaded : rows[r].status = "succeeded" =>
    \A u \in Units :
      results[r][u] # 0 /\ ex[r][rows[r].attempt].unit[u] = "done"
      => results[r][u] = rows[r].attempt

\* Every accepted run ends: crashes, lost leases and cancellations delay it.
RunsEnd == \A r \in Runs : rows[r].status = "queued" ~> rows[r].status \in Terminal

\* What a client may rely on.
Lifecycle == INSTANCE RunLifecycle
  WITH status <- [r \in Runs |-> rows[r].status],
       attempt <- [r \in Runs |-> rows[r].attempt],
       cancel <- [r \in Runs |-> rows[r].cancel]
ImplementsLifecycle == Lifecycle!Spec

\* worker.py: "The heartbeat task observes the flag on each tick and cancels the
\* worker task; the worker catches and finalizes the run as cancelled."
ObservedCancelPreventsSuccess ==
  \A r \in Runs, a \in Attempts :
    (\E u \in Units : ex[r][a].unit[u] = "raised") => ~ex[r][a].final

\* service.py: /api/evaluate "executes synchronously and synthesizes a Run row
\* plus Result rows after completion rather than queueing work for the worker".
RecordedRunsAreNotQueued ==
  \A r \in Uploaded, a \in Attempts : ex[r][a].stage = "none"
=============================================================================
