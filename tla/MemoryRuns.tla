----------------------------- MODULE MemoryRuns -----------------------------
(***************************************************************************)
(* The runs of a server without a database: RunService and the worker's    *)
(* loops on storage/repos/memory.py.  Every method of a repository is one  *)
(* step under its lock.  The row a loop claimed is the repository's own    *)
(* object, there are no leases, and nothing is swept: what the process     *)
(* forgets to end stays as it is.                                          *)
(***************************************************************************)
EXTENDS Integers, FiniteSets

CONSTANTS
  RunIds,       \* ids of submitted runs and of recorded evaluations
  RecordedIds,  \* those that record_eval_run creates
  Specs,
  Loops,        \* worker loops of the process
  MaxTries      \* max_run_attempts

ASSUME MemoryAssumption == RecordedIds \subseteq RunIds /\ MaxTries \in Nat \ {0}

VARIABLES
  kept,      \* _runs: the row of each run
  results,   \* _results of each run: "none", "partial", "all"
  loop,      \* what each loop executes: [at, run, told]
  recorder,  \* where record_eval_run of a recorded run stands
  answers    \* <<run, spec>> of the submissions that were answered 202

yvars == <<kept, results, loop, recorder, answers>>

Unkept == [status |-> "absent", attempt |-> 0, cancel |-> FALSE, spec |-> 0, born |-> 0]
IdleLoop == [at |-> "idle", run |-> 0, told |-> FALSE]
Ended == {"succeeded", "failed", "cancelled"}
Existing == {r \in RunIds : kept[r].status # "absent"}

MemoryInit ==
  /\ kept = [r \in RunIds |-> Unkept]
  /\ results = [r \in RunIds |-> "none"]
  /\ loop = [l \in Loops |-> IdleLoop]
  /\ recorder = [r \in RecordedIds |-> "new"]
  /\ answers = {}

-----------------------------------------------------------------------------
(* MemoryRunRepository.                                                    *)

\* create keeps the row that exists.
CreateRun(r, row_) ==
  kept' = IF r \in Existing THEN kept
          ELSE [kept EXCEPT ![r] = [row_ EXCEPT !.born = Cardinality(Existing)]]

SetStatus(r, status) == kept' = [kept EXCEPT ![r].status = status]

\* The oldest of the queued runs that may be tried.
Candidates == {r \in RunIds : kept[r].status = "queued" /\ kept[r].attempt < MaxTries}
Oldest == CHOOSE r \in Candidates : \A q \in Candidates : kept[r].born <= kept[q].born

ClaimOldest(l) ==
  /\ loop[l].at = "idle" /\ Candidates # {}
  /\ kept' = [kept EXCEPT ![Oldest].status = "running", ![Oldest].attempt = @ + 1]
  /\ loop' = [loop EXCEPT ![l] = [at |-> "fetching", run |-> Oldest, told |-> FALSE]]
  /\ UNCHANGED <<results, recorder, answers>>

\* heartbeat looks at the flag, not at the status: no other loop takes a run.
BeatFlag(l) ==
  /\ loop[l].at \in {"fetching", "evaluating"} /\ kept[loop[l].run].cancel
  /\ loop' = [loop EXCEPT ![l].told = TRUE]
  /\ UNCHANGED <<kept, results, recorder, answers>>

CancelRun(r) ==
  /\ kept[r].status \in {"queued", "running"}
  /\ kept' = [kept EXCEPT ![r].cancel = TRUE,
                          ![r].status = IF @ = "queued" THEN "cancelled" ELSE @]
  /\ UNCHANGED <<results, loop, recorder, answers>>

-----------------------------------------------------------------------------
(* RunService.                                                             *)

\* The row that exists decides: 202 when its spec is the one posted, else 409.
Submit(r, spec) ==
  /\ r \notin RecordedIds
  /\ CreateRun(r, [Unkept EXCEPT !.status = "queued", !.spec = spec])
  /\ answers' = IF kept'[r].spec = spec THEN answers \union {<<r, spec>>} ELSE answers
  /\ UNCHANGED <<results, loop, recorder>>

\* record_eval_run: create, upsert_many, update_status, each a step.
Record(r) ==
  /\ \/ /\ recorder[r] = "new"
        /\ CreateRun(r, [Unkept EXCEPT !.status = "queued", !.attempt = 1])
        /\ recorder' = [recorder EXCEPT ![r] = "created"]
        /\ UNCHANGED results
     \/ /\ recorder[r] = "created"
        /\ results' = [results EXCEPT ![r] = "all"]
        /\ recorder' = [recorder EXCEPT ![r] = "stored"]
        /\ UNCHANGED kept
     \/ /\ recorder[r] = "stored"
        /\ \E status \in {"succeeded", "failed"} : SetStatus(r, status)
        /\ recorder' = [recorder EXCEPT ![r] = "done"]
        /\ UNCHANGED results
  /\ UNCHANGED <<loop, answers>>

-----------------------------------------------------------------------------
(* AsyncRunWorker._execute.                                                *)

\* The flag is looked at once the traces are there; those of a recorded
\* evaluation cannot be fetched again.
FetchTraces(l) ==
  /\ loop[l].at = "fetching"
  /\ \E at \in IF loop[l].run \in RecordedIds THEN {"failed"}
               ELSE {"failed", IF loop[l].told THEN "cancelled" ELSE "evaluating"} :
       loop' = [loop EXCEPT ![l].at = at]
  /\ UNCHANGED <<kept, results, recorder, answers>>

\* A partial result is stored before the flag is looked at; what that raises
\* stays inside the group (runner.py:178-184).
StorePartial(l) ==
  /\ loop[l].at = "evaluating"
  /\ results' = [results EXCEPT ![loop[l].run] = IF @ = "none" THEN "partial" ELSE @]
  /\ UNCHANGED <<kept, loop, recorder, answers>>

\* The evaluation is through and its results are stored, or the deadline passed.
EvaluationEnded(l) ==
  /\ loop[l].at = "evaluating"
  /\ \/ /\ results' = [results EXCEPT ![loop[l].run] = "all"]
        /\ loop' = [loop EXCEPT ![l].at = "succeeded"]
     \/ loop' = [loop EXCEPT ![l].at = "failed"] /\ UNCHANGED results
  /\ UNCHANGED <<kept, recorder, answers>>

WriteOutcome(l) ==
  /\ loop[l].at \in Ended
  /\ SetStatus(loop[l].run, loop[l].at)
  /\ loop' = [loop EXCEPT ![l] = IdleLoop]
  /\ UNCHANGED <<results, recorder, answers>>

LoopStep(l) == ClaimOldest(l) \/ FetchTraces(l) \/ EvaluationEnded(l) \/ WriteOutcome(l)

MemoryNext ==
  \/ \E l \in Loops : LoopStep(l) \/ BeatFlag(l) \/ StorePartial(l)
  \/ \E r \in RecordedIds : Record(r)
  \/ \E r \in RunIds : CancelRun(r) \/ \E spec \in Specs : Submit(r, spec)

\* A loop goes on and a request is worked off; an evaluation has a deadline.
MemoryStep == (\E l \in Loops : LoopStep(l)) \/ \E r \in RecordedIds : Record(r)
MemorySpec == MemoryInit /\ [][MemoryNext]_yvars /\ WF_yvars(MemoryStep)

(***************************************************************************)
(* Properties.                                                             *)
(***************************************************************************)

MemoryTypeOK ==
  /\ \A r \in RunIds : kept[r].attempt \in 0 .. MaxTries /\ results[r] \in {"none", "partial", "all"}
  /\ \A l \in Loops : loop[l].at \in Ended \union {"idle", "fetching", "evaluating"}

\* Of the clients that posted one run id, those who were told 202 have their own
\* spec on the row, whatever order the posts came in (service.py:47-57); a run
\* that shows success has all its results, whoever finished it.
RowsKeepTheirWord ==
  /\ \A a \in answers : kept[a[1]].spec = a[2]
  /\ \A r \in RunIds : kept[r].status = "succeeded" => results[r] = "all"

\* In the end every run has ended and stays so, without leases or a sweep, even
\* when a recorded evaluation is claimed while it is being recorded.
MemoryRunsHaveEnded == \A r \in RunIds : kept[r].status \in Ended \union {"absent"}
=============================================================================
