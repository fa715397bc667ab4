-------------------------- MODULE RunOutcomeProofs --------------------------
(***************************************************************************)
(* What the outcome and the result rows of a run tell, proved for every    *)
(* number of runs, workers, attempts and evaluators.  The results that     *)
(* need a quiet environment say which disturbances must not happen, as     *)
(* hypotheses about Budget; all the others stay arbitrary.                 *)
(***************************************************************************)
EXTENDS RunWorkerProofs

\* One step concerns one execution, or the executions of one process.
ClaimOf(r, a, w, stage) ==
  /\ Claimable(r)
  /\ a = rows[r].attempt + 1
  /\ loop[w] = "idle"
  /\ rows' = Claimed(r, w)
  /\ ex'[r][a] = [NoExecution EXCEPT !.worker = w, !.stage = stage, !.hb = (stage = "fetch")]
  /\ UNCHANGED results

KilledOne(e) == [e EXCEPT !.stage = "gone", !.hb = FALSE, !.reason = "none"]

StepOf(r, a) ==
  \/ EvaluationStep(r, a) \/ DisturbedStep(r, a)
  \/ HeartbeatLost(r, a) \/ HeartbeatError(r, a)
  \/ \E w \in Workers, stage \in {"fetch", "gone"} : ClaimOf(r, a, w, stage)
  \/ /\ ex[r][a].worker \in Workers
     /\ ex'[r][a] = KilledOne(ex[r][a])
     /\ UNCHANGED <<rows, results>>

LEMMA BecomesElsewhere ==
  ASSUME TypeOK, NEW r \in Runs, NEW a \in Attempts, NEW e, Becomes(r, a, e)
  PROVE  /\ ex'[r][a] = e
         /\ \A q \in Runs, b \in Attempts : q # r \/ b # a => ex'[q][b] = ex[q][b]
BY DEF TypeOK, Becomes

LEMMA EvaluationBecomes ==
  ASSUME NEW r \in Runs, NEW a \in Attempts,
         EvaluationStep(r, a) \/ DisturbedStep(r, a) \/ HeartbeatLost(r, a) \/ HeartbeatError(r, a)
  PROVE  \E e : Becomes(r, a, e)
<1>1. CASE EvaluationStep(r, a)
  <2>1. CASE FetchFails(r, a) \/ FetchOk(r, a) \/ Deadline(r, a) \/ EvalDone(r, a)
    BY <2>1 DEF FetchFails, FetchOk, Deadline, EvalDone, Aborts, Goes
  <2>2. CASE StoreResults(r, a) \/ EmitFinal(r, a) \/ Commit(r, a) \/ Abort(r, a) \/ Report(r, a)
    BY <2>2 DEF StoreResults, EmitFinal, Commit, Abort, Report, Goes, Ends
  <2>3. ASSUME NEW u \in Units,
               \/ UnitWrite(r, a, u) \/ UnitFails(r, a, u) \/ UnitEmit(r, a, u)
               \/ GroupSkipped(r, a, Group[u])
        PROVE  \E e : Becomes(r, a, e)
    BY <2>3 DEF UnitWrite, UnitFails, UnitEmit, GroupSkipped
  <2>4. QED
    BY <1>1, <2>1, <2>2, <2>3 DEF EvaluationStep
<1>2. CASE DisturbedStep(r, a)
  BY <1>2 DEF DisturbedStep, StoreFails, CommitFails, AbortFails, StopTrying, StopHandling, Aborts, Ends
<1>3. CASE HeartbeatLost(r, a) \/ HeartbeatError(r, a)
  BY <1>3 DEF HeartbeatLost, HeartbeatError
<1>4. QED
  BY <1>1, <1>2, <1>3

LEMMA StepsAreLocal ==
  ASSUME TypeOK, ClaimInv, [Next]_vars, NEW q \in Runs, NEW b \in Attempts
  PROVE  ex'[q][b] = ex[q][b] \/ StepOf(q, b)
<1>1. ASSUME NEW r \in Runs, NEW a \in Attempts,
             \/ EvaluationStep(r, a) \/ DisturbedStep(r, a)
             \/ HeartbeatLost(r, a) \/ HeartbeatError(r, a)
      PROVE  ex'[q][b] = ex[q][b] \/ StepOf(q, b)
  <2>1. CASE q = r /\ b = a
    BY <1>1, <2>1 DEF StepOf
  <2>2. CASE q # r \/ b # a
    BY <1>1, <2>2, EvaluationBecomes, BecomesElsewhere
  <2>3. QED
    BY <2>1, <2>2
<1>2. ASSUME NEW r \in Runs, NEW w \in Workers, NEW stage \in {"fetch", "gone"},
             Claimable(r), loop[w] = "idle", rows' = Claimed(r, w),
             Starts(r, w, stage), UNCHANGED results
      PROVE  ex'[q][b] = ex[q][b] \/ StepOf(q, b)
  <2>1. rows[r].attempt + 1 \in Attempts
    BY <1>2, StartsType
  <2>2. CASE q = r /\ b = rows[r].attempt + 1
    <3>1. ClaimOf(q, b, w, stage)
      BY <1>2, <2>1, <2>2, BecomesElsewhere DEF Starts, ClaimOf
    <3>2. QED
      BY <3>1 DEF StepOf
  <2>3. CASE q # r \/ b # rows[r].attempt + 1
    BY <1>2, <2>1, <2>3, BecomesElsewhere DEF Starts
  <2>4. QED
    BY <2>2, <2>3
<1>3. ASSUME NEW w \in Workers, Crash(w) \/ Restart(w)
      PROVE  ex'[q][b] = ex[q][b] \/ StepOf(q, b)
  <2>1. ex' = Killed(w) /\ UNCHANGED <<rows, results>>
    BY <1>3 DEF Crash, Restart
  <2>2. ex'[q][b] = IF ex[q][b].worker = w THEN KilledOne(ex[q][b]) ELSE ex[q][b]
    BY <2>1 DEF Killed, KilledOne
  <2>3. QED
    BY <2>1, <2>2 DEF StepOf
<1>4. ASSUME NEW w \in Workers, LoopStep(w) \/ DisturbedLoop(w)
      PROVE  ex'[q][b] = ex[q][b] \/ StepOf(q, b)
  <2>1. CASE \E r \in Runs : ClaimRun(w, r) \/ ClaimLost(w, r)
    BY <1>2, <2>1 DEF ClaimRun, ClaimLost
  <2>2. CASE SweepOnly(w) \/ StopIdle(w)
    BY <2>2 DEF SweepOnly, StopIdle
  <2>3. QED
    BY <1>3, <1>4, <2>1, <2>2 DEF LoopStep, DisturbedLoop
<1>5. ASSUME NEW r \in Runs, ServiceStep(r) \/ LeaseExpires(r) PROVE ex' = ex
  BY <1>5 DEF ServiceStep, Submit, CancelRun, RecordCreate, RecordStore, RecordCommit, RecordFails,
     LeaseExpires
<1>6. ASSUME NEW r \in Runs, NEW a \in Attempts, HeartbeatOk(r, a) PROVE ex' = ex
  BY <1>6 DEF HeartbeatOk
<1>7. CASE UNCHANGED vars
  BY <1>7 DEF vars
<1>8. QED
  BY <1>1, <1>4, <1>5, <1>6, <1>7 DEF Next, HeartbeatStep
-----------------------------------------------------------------------------
(* Result rows are only ever upserted.                                       *)

LEMMA UpsertedRow ==
  ASSUME TypeOK, NEW q \in Runs, NEW a, NEW us, NEW r \in Runs, NEW u \in Units
  PROVE  Upserted(q, a, us)[r][u] = IF r = q /\ u \in us THEN a ELSE results[r][u]
BY DEF TypeOK, Upserted

ResultStep ==
  \/ UNCHANGED results
  \/ \E r \in Uploaded : results' = Upserted(r, 1, Units)
  \/ \E r \in Runs, a \in Attempts, us \in SUBSET Units :
       /\ ex[r][a].stage \notin {"none", "gone"}
       /\ results' = Upserted(r, a, us)

\* Nothing is recorded of an attempt before it starts.
NothingYet ==
  \A r \in Runs, a \in Attempts : ex[r][a].stage = "none" => ex[r][a] = NoExecution

OnlyUploadedRecord == \A r \in Runs : rec[r] # "none" => r \in Uploaded

\* An evaluator that can still write belongs to a process that is alive.
LEMMA ActiveIsStarted ==
  ASSUME NothingYet, NEW r \in Runs, NEW a \in Attempts, NEW u \in Units, UnitActive(r, a, u)
  PROVE  ex[r][a].stage \notin {"none", "gone"}
<1>1. ASSUME ex[r][a].stage = "none" PROVE FALSE
  <2>1. \A v \in Units : ex[r][a].unit[v] = "todo"
    BY <1>1 DEF NothingYet, NoExecution
  <2>2. QED
    BY <1>1, <2>1 DEF UnitActive, Broken, At
<1>2. QED
  BY <1>1 DEF UnitActive, At

LEMMA EveryResultStep ==
  ASSUME TypeOK, NothingYet, OnlyUploadedRecord, [Next]_vars
  PROVE  ResultStep
<1>1. ASSUME NEW r \in Runs, NEW a \in Attempts, NEW u \in Units, UnitWrite(r, a, u)
      PROVE  ResultStep
  <2> DEFINE scored == {v \in Units : /\ Group[v] = Group[u]
                                      /\ v = u \/ ex[r][a].unit[v] \in {"written", "done", "raised"}}
  <2>1. results' = Upserted(r, a, scored) /\ scored \in SUBSET Units
    BY <1>1 DEF UnitWrite
  <2>2. ex[r][a].stage \notin {"none", "gone"}
    BY <1>1, ActiveIsStarted DEF UnitWrite
  <2>3. QED
    BY <2>1, <2>2 DEF ResultStep
<1>2. ASSUME NEW r \in Runs, NEW a \in Attempts, StoreResults(r, a)
      PROVE  ResultStep
  <2>1. results' = Upserted(r, a, Scored(r, a)) /\ Scored(r, a) \in SUBSET Units
    BY <1>2 DEF StoreResults, Scored
  <2>2. ex[r][a].stage \notin {"none", "gone"}
    BY <1>2 DEF StoreResults, At
  <2>3. QED
    BY <2>1, <2>2 DEF ResultStep
<1>3. ASSUME NEW r \in Runs, RecordStore(r) PROVE ResultStep
  BY <1>3 DEF RecordStore, ResultStep, OnlyUploadedRecord
<1>4. CASE UNCHANGED results
  BY <1>4 DEF ResultStep
<1>5. ASSUME NEW r \in Runs, NEW a \in Attempts,
             EvaluationStep(r, a) \/ DisturbedStep(r, a) \/ HeartbeatStep(r, a)
      PROVE  ResultStep
  BY <1>1, <1>2, <1>4, <1>5 DEF EvaluationStep, DisturbedStep, HeartbeatStep,
     FetchFails, FetchOk, Deadline, UnitFails, UnitEmit, GroupSkipped, EvalDone, EmitFinal,
     Commit, Abort, Report, StoreFails, CommitFails, AbortFails, StopTrying, StopHandling,
     HeartbeatOk, HeartbeatLost, HeartbeatError
<1>6. ASSUME NEW r \in Runs, ServiceStep(r) \/ LeaseExpires(r) PROVE ResultStep
  BY <1>3, <1>4, <1>6 DEF ServiceStep, Submit, CancelRun, RecordCreate, RecordCommit,
     RecordFails, LeaseExpires
<1>7. ASSUME NEW w \in Workers, LoopStep(w) \/ DisturbedLoop(w) PROVE ResultStep
  BY <1>4, <1>7 DEF LoopStep, DisturbedLoop, ClaimRun, ClaimLost, SweepOnly, StopIdle,
     Crash, Restart
<1>8. CASE UNCHANGED vars
  BY <1>4, <1>8 DEF vars
<1>9. QED
  BY <1>5, <1>6, <1>7, <1>8 DEF Next
-----------------------------------------------------------------------------
(* What a step of an execution that is under way does to it.                 *)

Answered == {"written", "done", "raised"}

LosesLease(r, a) ==
  \/ ~HoldsLease(r, ex[r][a].worker) /\ UNCHANGED rows
  \/ Spend("db")

Settles(r, a) ==
  \/ ex[r][a].stage \in {"report", "over"}
  \/ rows'[r].status \in Terminal
  \/ Spend("db") \/ Spend("stop")

Advances(r, a, e) ==
  /\ ex[r][a].stage \notin {"none", "gone"}
  /\ e.stage \notin {"none", "gone"}
  /\ e.worker = ex[r][a].worker
  /\ e.stage \in Live => ex[r][a].stage \in Live
  /\ e.stage \in Trying => ex[r][a].stage \in Trying
  /\ e.stage \in Live /\ ex[r][a].hb => e.hb \/ LosesLease(r, a)
  /\ e.stage \in {"report", "over"} => Settles(r, a)
  /\ ex[r][a].final => e.final
  /\ e.stage = "commit" => e.final \/ ex[r][a].stage = "commit"
  /\ \A u \in Units : e.unit[u] \in Answered =>
       ex[r][a].unit[u] \in Answered \/ (ex[r][a].stage # "none" /\ results'[r][u] = a)

\* Stage changes: nothing of the evaluators' states is touched.
LEMMA StageAdvances ==
  ASSUME TypeOK, NEW r \in Runs, NEW a \in Attempts, ex[r][a].stage \in Live,
         \/ \E c : Aborts(r, a, c)
         \/ \E s \in Live : /\ Goes(r, a, s)
                            /\ s # "commit"
                            /\ s = "report" => Settles(r, a)
                            /\ s \in Trying => ex[r][a].stage \in Trying
         \/ Ends(r, a) /\ Settles(r, a)
         \/ /\ LosesLease(r, a)
            /\ \/ Becomes(r, a, [ex[r][a] EXCEPT !.event = TRUE, !.hb = FALSE])
               \/ Becomes(r, a, [ex[r][a] EXCEPT !.hb = FALSE])
  PROVE  Advances(r, a, ex'[r][a])
<1> DEFINE new == ex'[r][a]
<1>1. ex[r][a] \in Execution /\ ex[r][a].stage \notin {"none", "gone"}
  BY DEF TypeOK, Live, Trying, Handling
<1>2. /\ new.unit = ex[r][a].unit
      /\ new.final = ex[r][a].final
      /\ new.worker = ex[r][a].worker
      /\ \/ new.stage \in {"abort", "over", ex[r][a].stage}
         \/ /\ new.stage \in Live \ {"commit"}
            /\ new.stage \in Trying => ex[r][a].stage \in Trying
      /\ new.stage \in {"report", "over"} => Settles(r, a)
      /\ new.stage # "over" => new.hb = ex[r][a].hb \/ LosesLease(r, a)
  <2>1. ASSUME NEW c, Aborts(r, a, c)
        PROVE  new = [ex[r][a] EXCEPT !.stage = "abort", !.reason = c]
    <3> DEFINE e == [ex[r][a] EXCEPT !.stage = "abort", !.reason = c]
    <3>1. Becomes(r, a, e)
      BY <2>1 DEF Aborts
    <3> HIDE DEF e
    <3>2. new = e
      BY <3>1, BecomesElsewhere
    <3>3. QED
      BY <3>2 DEF e
  <2>2. ASSUME NEW s, Goes(r, a, s) PROVE new = [ex[r][a] EXCEPT !.stage = s]
    BY <2>2, BecomesElsewhere DEF Goes
  <2>3. ASSUME Ends(r, a)
        PROVE  new = [ex[r][a] EXCEPT !.stage = "over", !.hb = FALSE, !.reason = "none"]
    BY <2>3, BecomesElsewhere DEF Ends
  <2>4. ASSUME NEW e, Becomes(r, a, e) PROVE new = e
    BY <2>4, BecomesElsewhere
  <2> HIDE DEF new
  <2>0. (ex[r][a].stage \in {"report", "over"} => Settles(r, a)) /\ "over" \notin Live
    BY DEF Settles, Live, Trying, Handling
  <2>5. CASE \E c : Aborts(r, a, c)
    BY <1>1, <2>0, <2>1, <2>5 DEF Execution
  <2>6. CASE \E s \in Live : /\ Goes(r, a, s)
                             /\ s # "commit"
                             /\ s = "report" => Settles(r, a)
                             /\ s \in Trying => ex[r][a].stage \in Trying
    <3>1. PICK s \in Live : /\ Goes(r, a, s)
                            /\ s # "commit"
                            /\ s = "report" => Settles(r, a)
                            /\ s \in Trying => ex[r][a].stage \in Trying
      BY <2>6
    <3>2. /\ new.stage = s /\ new.unit = ex[r][a].unit /\ new.final = ex[r][a].final
          /\ new.worker = ex[r][a].worker /\ new.hb = ex[r][a].hb
      BY <1>1, <2>2, <3>1 DEF Execution
    <3>3. QED
      BY <2>0, <3>1, <3>2
  <2>7. CASE Ends(r, a) /\ Settles(r, a)
    BY <1>1, <2>0, <2>3, <2>7 DEF Execution
  <2>8. CASE /\ LosesLease(r, a)
             /\ Becomes(r, a, [ex[r][a] EXCEPT !.event = TRUE, !.hb = FALSE])
    BY <1>1, <2>0, <2>4, <2>8 DEF Execution
  <2>9. CASE LosesLease(r, a) /\ Becomes(r, a, [ex[r][a] EXCEPT !.hb = FALSE])
    BY <1>1, <2>0, <2>4, <2>9 DEF Execution
  <2>10. QED
    BY <2>5, <2>6, <2>7, <2>8, <2>9
<1> HIDE DEF new
<1>3. Advances(r, a, new)
  <2>1. "over" \notin Live /\ ex[r][a].hb \in BOOLEAN
    BY <1>1 DEF Live, Trying, Handling, Execution
  <2>2. QED
    BY <1>1, <1>2, <2>1 DEF Advances, Live, Trying, Handling
<1>4. QED
  BY <1>3 DEF new

\* An evaluator answers only after its result row is in.
LEMMA UnitAdvances ==
  ASSUME TypeOK, NothingYet, NEW r \in Runs, NEW a \in Attempts, NEW u \in Units,
         UnitWrite(r, a, u) \/ UnitFails(r, a, u) \/ UnitEmit(r, a, u) \/ GroupSkipped(r, a, Group[u])
  PROVE  Advances(r, a, ex'[r][a])
<1> DEFINE old == ex[r][a]
           new == ex'[r][a]
<1>1. old \in Execution /\ old.stage \notin {"none", "gone"}
  BY ActiveIsStarted DEF TypeOK, UnitWrite, UnitFails, UnitEmit, GroupSkipped, At
<1>0. old.stage \in {"report", "over"} => Settles(r, a)
  BY DEF Settles
<1>2. ASSUME NEW s, Becomes(r, a, SetUnit(r, a, u, s))
      PROVE  /\ new.stage = old.stage /\ new.final = old.final /\ new.worker = old.worker
             /\ new.hb = old.hb
             /\ \A v \in Units : new.unit[v] = IF v = u THEN s ELSE old.unit[v]
  <2>1. new = [old EXCEPT !.unit[u] = s]
    BY <1>2, BecomesElsewhere DEF SetUnit
  <2>2. QED
    BY <1>1, <2>1 DEF Execution
<1>3. CASE UnitWrite(r, a, u)
  <2>1. Becomes(r, a, SetUnit(r, a, u, "written"))
    BY <1>3 DEF UnitWrite
  <2>2. results'[r][u] = a
    BY <1>3, UpsertedRow DEF UnitWrite
  <2> HIDE DEF old, new
  <2>3. Advances(r, a, new)
    BY <1>0, <1>1, <1>2, <2>1, <2>2 DEF Advances, old
  <2>4. QED
    BY <2>3 DEF new
<1>4. CASE UnitFails(r, a, u)
  <2>1. Becomes(r, a, SetUnit(r, a, u, "error")) /\ "error" \notin Answered
    BY <1>4 DEF UnitFails, Answered
  <2> HIDE DEF old, new
  <2>2. Advances(r, a, new)
    BY <1>0, <1>1, <1>2, <2>1 DEF Advances, old
  <2>3. QED
    BY <2>2 DEF new
<1>5. CASE UnitEmit(r, a, u)
  <2>1. old.unit[u] \in Answered
    BY <1>5 DEF UnitEmit, Answered
  <2>2. \E s : Becomes(r, a, SetUnit(r, a, u, s))
    BY <1>5 DEF UnitEmit
  <2> HIDE DEF old, new
  <2>3. Advances(r, a, new)
    BY <1>0, <1>1, <1>2, <2>1, <2>2 DEF Advances, old
  <2>4. QED
    BY <2>3 DEF new
<1>6. CASE GroupSkipped(r, a, Group[u])
  <2>1. new = [old EXCEPT !.unit = [v \in Units |-> IF Group[v] = Group[u] THEN "skipped" ELSE @[v]]]
    BY <1>6, BecomesElsewhere DEF GroupSkipped
  <2>2. /\ new.stage = old.stage /\ new.final = old.final /\ new.worker = old.worker
        /\ new.hb = old.hb
        /\ \A v \in Units : new.unit[v] \in {"skipped", old.unit[v]}
    BY <1>1, <2>1 DEF Execution
  <2> HIDE DEF old, new
  <2>3. Advances(r, a, new)
    BY <1>0, <1>1, <2>2 DEF Advances, Answered, old
  <2>4. QED
    BY <2>3 DEF new
<1>7. QED
  BY <1>3, <1>4, <1>5, <1>6

LEMMA ExecutionAdvances ==
  ASSUME TypeOK, ClaimInv, NothingYet, NEW r \in Runs, NEW a \in Attempts,
         EvaluationStep(r, a) \/ DisturbedStep(r, a) \/ HeartbeatLost(r, a) \/ HeartbeatError(r, a)
  PROVE  Advances(r, a, ex'[r][a])
<1> USE DEF At
<1>1. CASE FetchFails(r, a) \/ FetchOk(r, a) \/ Deadline(r, a) \/ EvalDone(r, a) \/ StoreResults(r, a)
  <2>1. ex[r][a].stage \in Live /\ ex[r][a].stage \in Trying
    BY <1>1 DEF FetchFails, FetchOk, Deadline, EvalDone, StoreResults, Live, Trying
  <2>2. {"eval", "store", "final"} \subseteq Live \ {"commit", "report"}
    BY DEF Live, Trying
  <2>3. \/ \E c : Aborts(r, a, c)
        \/ \E s \in Live : /\ Goes(r, a, s)
                           /\ s \notin {"commit", "report"}
                           /\ s \in Trying => ex[r][a].stage \in Trying
    BY <1>1, <2>1, <2>2 DEF FetchFails, FetchOk, Deadline, EvalDone, StoreResults
  <2>4. QED
    BY <2>1, <2>3, StageAdvances
<1>2. CASE \E u \in Units : \/ UnitWrite(r, a, u) \/ UnitFails(r, a, u)
                            \/ UnitEmit(r, a, u) \/ GroupSkipped(r, a, Group[u])
  BY <1>2, UnitAdvances
<1>3. CASE EmitFinal(r, a)
  <2>1. ex'[r][a] = [ex[r][a] EXCEPT !.stage = "commit", !.final = TRUE]
    BY <1>3, BecomesElsewhere DEF EmitFinal
  <2>2. ex[r][a] \in Execution /\ ex[r][a].stage = "final"
    BY <1>3 DEF EmitFinal, TypeOK
  <2> DEFINE new == ex'[r][a]
  <2>3. /\ new.stage = "commit" /\ new.final /\ new.worker = ex[r][a].worker
        /\ new.unit = ex[r][a].unit /\ new.hb = ex[r][a].hb
    BY <2>1, <2>2 DEF Execution
  <2> HIDE DEF new
  <2>4. Advances(r, a, new)
    BY <2>2, <2>3 DEF Advances, Live, Trying
  <2>5. QED
    BY <2>4 DEF new
<1>4. CASE Commit(r, a) \/ Report(r, a) \/ AbortFails(r, a) \/ StopHandling(r, a)
  <2>1. ex[r][a].stage \in Live /\ Ends(r, a)
    BY <1>4 DEF Commit, Report, AbortFails, StopHandling, Live, Trying, Handling
  <2>2. Settles(r, a)
    <3>1. CASE Commit(r, a)
      <4>1. rows'[r].status = "succeeded"
        BY <3>1 DEF Commit, TypeOK, Updated, UpdatedRow, Row
      <4>2. QED
        BY <4>1 DEF Settles, Terminal
    <3>2. QED
      BY <1>4, <3>1 DEF Report, AbortFails, StopHandling, Settles
  <2>3. QED
    BY <2>1, <2>2, StageAdvances
<1>5. CASE Abort(r, a)
  <2>1. ex[r][a].stage \in Live /\ Goes(r, a, "report")
        /\ "report" \in Live \ Trying /\ "report" # "commit"
    BY <1>5 DEF Abort, Live, Trying, Handling
  <2>2. Settles(r, a)
    <3>1. rows'[r].status = Outcome(ex[r][a].reason)
      BY <1>5 DEF Abort, Aborted, TypeOK, Updated, UpdatedRow, Row
    <3>2. QED
      BY <3>1 DEF Settles, Outcome, Terminal
  <2>3. QED
    BY <2>1, <2>2, StageAdvances
<1>6. CASE StoreFails(r, a) \/ CommitFails(r, a) \/ StopTrying(r, a)
  <2>1. ex[r][a].stage \in Live /\ \E c : Aborts(r, a, c)
    BY <1>6 DEF StoreFails, CommitFails, StopTrying, Live, Trying
  <2>2. QED
    BY <2>1, StageAdvances
<1>7. CASE HeartbeatLost(r, a) \/ HeartbeatError(r, a)
  <2>1. ex[r][a].stage \in Live
    BY <1>7 DEF HeartbeatLost, HeartbeatError, ClaimInv
  <2>2. QED
    BY <1>7, <2>1, StageAdvances DEF HeartbeatLost, HeartbeatError, LosesLease
<1>8. QED
  BY <1>1, <1>2, <1>3, <1>4, <1>5, <1>6, <1>7 DEF EvaluationStep, DisturbedStep

LEMMA NothingYetStep ==
  ASSUME TypeOK, ClaimInv, NothingYet, OnlyUploadedRecord, [Next]_vars
  PROVE  NothingYet' /\ OnlyUploadedRecord'
<1>1. ASSUME NEW r \in Runs, NEW a \in Attempts, ex'[r][a].stage = "none"
      PROVE  ex'[r][a] = NoExecution
  <2>1. CASE ex'[r][a] = ex[r][a]
    BY <1>1, <2>1 DEF NothingYet
  <2>2. ASSUME NEW w, NEW s \in {"fetch", "gone"}, ClaimOf(r, a, w, s) PROVE FALSE
    BY <1>1, <2>2 DEF ClaimOf, NoExecution
  <2>3. CASE ex'[r][a] = KilledOne(ex[r][a])
    BY <1>1, <2>3 DEF KilledOne, TypeOK, Execution
  <2>4. ~Advances(r, a, ex'[r][a])
    BY <1>1 DEF Advances
  <2>5. QED
    BY <2>1, <2>2, <2>3, <2>4, StepsAreLocal, ExecutionAdvances DEF StepOf
<1>2. ASSUME NEW r \in Runs, rec'[r] # "none" PROVE r \in Uploaded
  <2>1. CASE UNCHANGED rec
    BY <1>2, <2>1 DEF OnlyUploadedRecord
  <2>2. ASSUME NEW q \in Runs,
               RecordCreate(q) \/ RecordStore(q) \/ RecordCommit(q) \/ RecordFails(q)
        PROVE  r \in Uploaded
    BY <1>2, <2>2 DEF RecordCreate, RecordStore, RecordCommit, RecordFails, OnlyUploadedRecord, TypeOK
  <2>3. ASSUME NEW q \in Runs, ServiceStep(q) \/ LeaseExpires(q) PROVE r \in Uploaded
    BY <2>1, <2>2, <2>3 DEF ServiceStep, Submit, CancelRun, LeaseExpires
  <2>4. ASSUME NEW q \in Runs, NEW a \in Attempts,
               EvaluationStep(q, a) \/ DisturbedStep(q, a) \/ HeartbeatStep(q, a)
        PROVE  r \in Uploaded
    BY <2>1, <2>4 DEF EvaluationStep, DisturbedStep, HeartbeatStep,
       FetchFails, FetchOk, Deadline, UnitWrite, UnitFails, UnitEmit, GroupSkipped, EvalDone,
       StoreResults, EmitFinal, Commit, Abort, Report, StoreFails, CommitFails, AbortFails,
       StopTrying, StopHandling, HeartbeatOk, HeartbeatLost, HeartbeatError
  <2>5. ASSUME NEW w \in Workers, LoopStep(w) \/ DisturbedLoop(w) PROVE r \in Uploaded
    BY <2>1, <2>5 DEF LoopStep, DisturbedLoop, ClaimRun, ClaimLost, SweepOnly, StopIdle,
       Crash, Restart
  <2>6. QED
    BY <2>1, <2>3, <2>4, <2>5 DEF Next, vars
<1>3. QED
  BY <1>1, <1>2 DEF NothingYet, OnlyUploadedRecord

LEMMA NothingYetInit == Init => NothingYet /\ OnlyUploadedRecord
BY DEF Init, NothingYet, OnlyUploadedRecord

\* The facts every proof below starts from.
BaseInv == TypeOK /\ ClaimInv /\ NothingYet /\ OnlyUploadedRecord

LEMMA BaseStep == BaseInv /\ [Next]_vars => BaseInv'
BY TypeStep, ClaimStep, NothingYetStep DEF BaseInv

LEMMA BaseAlways == Spec => []BaseInv
<1>1. Init => BaseInv
  BY TypeInit, ClaimInit, NothingYetInit DEF BaseInv
<1>2. QED
  BY <1>1, BaseStep, PTL DEF Spec
-----------------------------------------------------------------------------
(* EmittedIsStored: the row of an evaluator is written before its partial    *)
(* result is sent, and no later write takes it away.                         *)

StoredInv ==
  \A r \in Runs, a \in Attempts, u \in Units :
    ex[r][a].unit[u] \in Answered => results[r][u] # 0

LEMMA RowsAreKept ==
  ASSUME BaseInv, [Next]_vars, NEW r \in Runs, NEW u \in Units, results[r][u] # 0
  PROVE  results'[r][u] # 0
<1>1. ResultStep
  BY EveryResultStep DEF BaseInv
<1>2. ASSUME NEW q \in Runs, NEW a \in Attempts, NEW us, results' = Upserted(q, a, us)
      PROVE  results'[r][u] # 0
  BY <1>2, UpsertedRow DEF BaseInv, Attempts
<1>3. 1 \in Attempts
  BY AttemptsAssumption DEF Attempts
<1>4. QED
  BY <1>1, <1>2, <1>3, UploadedAssumption DEF ResultStep

LEMMA StoredStep == BaseInv /\ StoredInv /\ [Next]_vars => StoredInv'
<1> SUFFICES ASSUME BaseInv, StoredInv, [Next]_vars,
                    NEW r \in Runs, NEW a \in Attempts, NEW u \in Units,
                    ex'[r][a].unit[u] \in Answered
             PROVE  results'[r][u] # 0
  BY DEF StoredInv
<1>0. TypeOK /\ ClaimInv /\ NothingYet
  BY DEF BaseInv
<1>1. CASE ex[r][a].unit[u] \in Answered
  BY <1>1, RowsAreKept DEF StoredInv
<1>2. CASE ex'[r][a] = KilledOne(ex[r][a])
  <2>1. ex'[r][a].unit = ex[r][a].unit
    BY <1>0, <1>2 DEF KilledOne, TypeOK, Execution
  <2>2. QED
    BY <1>1, <2>1
<1>3. ASSUME NEW w, NEW s, ClaimOf(r, a, w, s) PROVE FALSE
  <2>1. ex'[r][a].unit[u] = "todo"
    BY <1>3 DEF ClaimOf, NoExecution
  <2>2. QED
    BY <2>1 DEF Answered
<1>4. CASE Advances(r, a, ex'[r][a])
  BY <1>1, <1>4 DEF Advances, Attempts
<1>5. QED
  BY <1>0, <1>1, <1>2, <1>3, <1>4, StepsAreLocal, ExecutionAdvances DEF StepOf

\* Whatever fails, a reader of the API finds a result row for every evaluator
\* whose partial result was sent to the sinks.
THEOREM EmittedResultsAreStored == Spec => []EmittedIsStored
<1>1. Init => StoredInv
  BY DEF Init, StoredInv, NoExecution, Answered
<1>2. StoredInv => EmittedIsStored
  BY DEF StoredInv, EmittedIsStored, Answered
<1>3. QED
  BY <1>1, <1>2, StoredStep, BaseAlways, PTL DEF Spec
-----------------------------------------------------------------------------
(* What a step does to one row, and who is answerable for it.                *)

Appears(r) ==
  /\ rows[r].status = "absent"
  /\ rows'[r] \in {Submitted, Recorded}

Succeeds(r, a) ==
  /\ ex[r][a].stage = "commit" /\ ex'[r][a].stage \notin Trying
  /\ rows'[r] = UpdatedRow(r, "succeeded", "none", TRUE)

Finalizes(r, a) ==
  /\ ex[r][a].stage = "abort" /\ ex'[r][a].stage \notin Trying
  /\ rows'[r] = UpdatedRow(r, Outcome(ex[r][a].reason), ex[r][a].reason, FALSE)

Records(r) ==
  /\ r \in Uploaded
  /\ \E s \in Terminal, e \in Error, b \in BOOLEAN : rows'[r] = UpdatedRow(r, s, e, b)

RowChange(r) ==
  \/ rows'[r] = rows[r]
  \/ Appears(r)
  \/ \E w \in Workers : Claimable(r) /\ rows'[r] = ClaimedRow(r, w)
  \/ Unclaimable(r) /\ rows'[r] = SweptRow(r)
  \/ Cancellable(r) /\ Spend("cancel") /\ rows'[r] = CancelledRow(r)
  \/ Records(r)
  \/ \E a \in Attempts : Succeeds(r, a) \/ Finalizes(r, a)
  \/ rows'[r] = [rows[r] EXCEPT !.lease = "live"]
  \/ LeaseExpires(r)

LEMMA SweptChange ==
  ASSUME NEW r \in Runs
  PROVE  Swept[r] = rows[r] \/ (Unclaimable(r) /\ Swept[r] = SweptRow(r))
BY DEF Swept, SweptRow

\* An execution that writes an outcome is past its try block.
LEMMA Leaves ==
  ASSUME TypeOK, NEW r \in Runs, NEW a \in Attempts,
         Ends(r, a) \/ Goes(r, a, "report") \/ \E c : Aborts(r, a, c)
  PROVE  ex'[r][a].stage \notin Trying
<1>1. ex[r][a] \in Execution
  BY DEF TypeOK
<1>2. ex'[r][a].stage \in {"over", "report", "abort"}
  <2>1. ASSUME Ends(r, a) PROVE ex'[r][a].stage = "over"
    <3>1. ex'[r][a] = [ex[r][a] EXCEPT !.stage = "over", !.hb = FALSE, !.reason = "none"]
      BY <2>1 DEF Ends, Becomes, TypeOK
    <3>2. QED
      BY <1>1, <3>1 DEF Execution
  <2>2. CASE Goes(r, a, "report")
    BY <1>1, <2>2, BecomesElsewhere DEF Goes, Execution
  <2>3. ASSUME NEW c, Aborts(r, a, c) PROVE ex'[r][a].stage = "abort"
    <3>1. ex'[r][a] = [ex[r][a] EXCEPT !.stage = "abort", !.reason = c]
      BY <2>3 DEF Aborts, Becomes, TypeOK
    <3>2. QED
      BY <1>1, <3>1 DEF Execution
  <2>4. QED
    BY <2>1, <2>2, <2>3
<1>3. QED
  BY <1>2 DEF Trying

LEMMA EveryRowChange ==
  ASSUME BaseInv, [Next]_vars, NEW r \in Runs
  PROVE  RowChange(r)
<1>0. TypeOK
  BY DEF BaseInv
<1>1. ASSUME NEW q \in Runs, ServiceStep(q) PROVE RowChange(r)
  <2>1. CASE Submit(q)
    BY <1>0, <2>1 DEF Submit, TypeOK, RowChange, Appears
  <2>2. CASE CancelRun(q)
    BY <1>0, <2>2 DEF CancelRun, CancelRequested, TypeOK, RowChange
  <2>3. CASE RecordCreate(q)
    <3>1. rows[q].status = "absent"
      BY <2>3 DEF RecordCreate, BaseInv, ClaimInv
    <3>2. QED
      BY <1>0, <2>3, <3>1 DEF RecordCreate, TypeOK, RowChange, Appears
  <2>4. CASE RecordStore(q) \/ RecordFails(q)
    BY <2>4 DEF RecordStore, RecordFails, RowChange
  <2>5. CASE RecordCommit(q)
    <3>1. PICK s \in {"succeeded", "failed"}, e \in {"none", "error"} : rows' = Updated(q, s, e, TRUE)
      BY <2>5 DEF RecordCommit
    <3>2. s \in Terminal /\ e \in Error /\ TRUE \in BOOLEAN
      BY DEF Terminal, Error
    <3>3. q \in Uploaded
      BY <2>5 DEF RecordCommit, BaseInv, OnlyUploadedRecord
    <3>4. rows'[r] = rows[r] \/ (r = q /\ rows'[r] = UpdatedRow(r, s, e, TRUE))
      BY <1>0, <3>1 DEF TypeOK, Updated
    <3>5. QED
      BY <3>2, <3>3, <3>4, Zenon DEF RowChange, Records
  <2>6. QED
    BY <1>1, <2>1, <2>2, <2>3, <2>4, <2>5 DEF ServiceStep
<1>2. ASSUME NEW q \in Runs, NEW a \in Attempts, ex[q][a].stage = "commit", ex'[q][a].stage \notin Trying,
             rows' = rows \/ rows' = Updated(q, "succeeded", "none", TRUE)
      PROVE  RowChange(r)
  <2>1. rows'[r] = rows[r] \/ (r = q /\ rows'[r] = UpdatedRow(r, "succeeded", "none", TRUE))
    BY <1>0, <1>2 DEF TypeOK, Updated
  <2>2. QED
    BY <1>2, <2>1, Zenon DEF RowChange, Succeeds
<1>3. ASSUME NEW q \in Runs, NEW a \in Attempts, ex[q][a].stage = "abort", ex'[q][a].stage \notin Trying,
             rows' = rows \/ rows' = Aborted(q, a)
      PROVE  RowChange(r)
  <2> DEFINE c == ex[q][a].reason
  <2>1. rows' = rows \/ rows' = Updated(q, Outcome(c), c, FALSE)
    BY <1>3 DEF Aborted
  <2>2. rows'[r] = rows[r] \/ (r = q /\ rows'[r] = UpdatedRow(r, Outcome(c), c, FALSE))
    BY <1>0, <2>1 DEF TypeOK, Updated
  <2>3. QED
    BY <1>3, <2>2, Zenon DEF RowChange, Finalizes
<1>4. CASE UNCHANGED rows
  BY <1>4 DEF RowChange
<1>5. ASSUME NEW q \in Runs, NEW a \in Attempts, EvaluationStep(q, a) PROVE RowChange(r)
  <2>1. CASE Commit(q, a)
    BY <1>0, <1>2, <2>1, Leaves DEF Commit, At
  <2>2. CASE Abort(q, a)
    BY <1>0, <1>3, <2>2, Leaves DEF Abort, At
  <2>3. QED
    BY <1>4, <1>5, <2>1, <2>2 DEF EvaluationStep, FetchFails, FetchOk, Deadline, UnitWrite,
       UnitFails, UnitEmit, GroupSkipped, EvalDone, StoreResults, EmitFinal, Report
<1>6. ASSUME NEW q \in Runs, NEW a \in Attempts, DisturbedStep(q, a) PROVE RowChange(r)
  <2>1. CASE CommitFails(q, a)
    BY <1>0, <1>2, <2>1, Leaves DEF CommitFails, At, MaybeApplied
  <2>2. CASE AbortFails(q, a)
    BY <1>0, <1>3, <2>2, Leaves DEF AbortFails, At, MaybeApplied
  <2>3. CASE StopTrying(q, a)
    BY <1>0, <1>2, <1>4, <2>3, Leaves DEF StopTrying, At, MaybeApplied
  <2>4. CASE StopHandling(q, a)
    BY <1>0, <1>3, <1>4, <2>4, Leaves DEF StopHandling, At, MaybeApplied
  <2>5. QED
    BY <1>4, <1>6, <2>1, <2>2, <2>3, <2>4 DEF DisturbedStep, StoreFails
<1>7. ASSUME NEW q \in Runs, NEW a \in Attempts, HeartbeatStep(q, a) PROVE RowChange(r)
  <2>1. CASE HeartbeatOk(q, a)
    BY <1>0, <2>1 DEF HeartbeatOk, Renewed, TypeOK, RowChange
  <2>2. QED
    BY <1>4, <1>7, <2>1 DEF HeartbeatStep, HeartbeatLost, HeartbeatError
<1>8. ASSUME NEW q \in Runs, LeaseExpires(q) PROVE RowChange(r)
  <2>1. CASE q = r
    BY <1>8, <2>1 DEF RowChange
  <2>2. CASE q # r
    BY <1>0, <1>8, <2>2 DEF LeaseExpires, TypeOK, RowChange
  <2>3. QED
    BY <2>1, <2>2
<1>9. ASSUME NEW w \in Workers, LoopStep(w) \/ DisturbedLoop(w) PROVE RowChange(r)
  <2>1. ASSUME NEW q \in Runs, Claimable(q), rows' = Claimed(q, w) PROVE RowChange(r)
    <3>1. rows'[r] = IF r = q THEN ClaimedRow(q, w) ELSE Swept[r]
      BY <2>1 DEF Claimed, Swept
    <3>2. QED
      BY <2>1, <3>1, SweptChange DEF RowChange
  <2>2. CASE SweepOnly(w)
    BY <2>2, SweptChange DEF SweepOnly, RowChange
  <2>3. QED
    BY <1>4, <1>9, <2>1, <2>2 DEF LoopStep, DisturbedLoop, ClaimRun, ClaimLost, StopIdle, Crash, Restart
<1>10. QED
  BY <1>1, <1>4, <1>5, <1>6, <1>7, <1>8, <1>9 DEF Next, vars
-----------------------------------------------------------------------------
(* SuccessAnnounced: emit_final comes before the commit of the outcome, and  *)
(* what was emitted stays emitted when the process dies in between.          *)

AnnouncedInv ==
  /\ \A r \in Runs, a \in Attempts : ex[r][a].stage = "commit" => ex[r][a].final
  /\ SuccessAnnounced

\* A claim takes an attempt nothing has used yet.
LEMMA ClaimIsNew ==
  ASSUME TypeOK, ClaimInv, NEW r \in Runs, NEW a \in Attempts, a = rows[r].attempt + 1
  PROVE  ex[r][a].stage = "none"
<1>1. rows[r].attempt \in Nat
  BY DEF TypeOK, Row
<1>2. QED
  BY <1>1 DEF ClaimInv, Attempts

LEMMA FinalStep ==
  ASSUME BaseInv, [Next]_vars, NEW r \in Runs, NEW a \in Attempts
  PROVE  /\ ex[r][a].final => ex'[r][a].final
         /\ ex'[r][a].stage = "commit" => ex'[r][a].final \/ ex[r][a].stage = "commit"
<1>0. TypeOK /\ ClaimInv /\ NothingYet
  BY DEF BaseInv
<1>1. CASE ex'[r][a] = KilledOne(ex[r][a])
  BY <1>0, <1>1 DEF KilledOne, TypeOK, Execution
<1>2. ASSUME NEW w, NEW s \in {"fetch", "gone"}, ClaimOf(r, a, w, s)
      PROVE  ~ex[r][a].final /\ ex'[r][a].stage # "commit"
  <2>1. ex[r][a] = NoExecution
    BY <1>0, <1>2, ClaimIsNew DEF ClaimOf, NothingYet
  <2>2. QED
    BY <1>2, <2>1 DEF ClaimOf, NoExecution
<1>3. CASE Advances(r, a, ex'[r][a])
  BY <1>3 DEF Advances
<1>4. QED
  BY <1>0, <1>1, <1>2, <1>3, StepsAreLocal, ExecutionAdvances DEF StepOf

LEMMA AnnouncedStep == BaseInv /\ AnnouncedInv /\ [Next]_vars => AnnouncedInv'
<1> SUFFICES ASSUME BaseInv, AnnouncedInv, [Next]_vars PROVE AnnouncedInv'
  OBVIOUS
<1>1. ASSUME NEW r \in Runs, NEW a \in Attempts, ex'[r][a].stage = "commit"
      PROVE  ex'[r][a].final
  BY <1>1, FinalStep DEF AnnouncedInv
<1>2. ASSUME NEW r \in Runs \ Uploaded, rows'[r].status = "succeeded"
      PROVE  \E a \in Attempts : ex'[r][a].final
  <2>0. rows[r] \in Row
    BY DEF BaseInv, TypeOK
  <2>1. CASE rows[r].status = "succeeded"
    BY <2>1, FinalStep DEF AnnouncedInv, SuccessAnnounced
  <2>2. ASSUME NEW a \in Attempts, Succeeds(r, a) PROVE \E b \in Attempts : ex'[r][b].final
    BY <2>2, FinalStep DEF Succeeds, AnnouncedInv
  <2>3. ASSUME NEW a \in Attempts, Finalizes(r, a) PROVE FALSE
    BY <1>2, <2>0, <2>3 DEF Finalizes, UpdatedRow, Outcome, Row
  <2>4. CASE \E w \in Workers : Claimable(r) /\ rows'[r] = ClaimedRow(r, w)
    BY <1>2, <2>0, <2>4 DEF ClaimedRow, Row
  <2>5. CASE Unclaimable(r) /\ rows'[r] = SweptRow(r)
    BY <1>2, <2>0, <2>5 DEF SweptRow, Row
  <2>6. CASE Cancellable(r) /\ rows'[r] = CancelledRow(r)
    BY <1>2, <2>0, <2>1, <2>6 DEF CancelledRow, Cancellable, Row
  <2>7. CASE rows'[r] = [rows[r] EXCEPT !.lease = "live"]
    BY <1>2, <2>0, <2>1, <2>7 DEF Row
  <2>8. CASE LeaseExpires(r)
    <3>1. rows'[r] = [rows[r] EXCEPT !.lease = "expired"]
      BY <2>8 DEF LeaseExpires, BaseInv, TypeOK
    <3>2. QED
      BY <1>2, <2>0, <2>1, <3>1 DEF Row
  <2>9. QED
    BY <1>2, <2>1, <2>2, <2>3, <2>4, <2>5, <2>6, <2>7, <2>8, EveryRowChange
       DEF RowChange, Appears, Records, Submitted, Recorded, Absent
<1>3. QED
  BY <1>1, <1>2 DEF AnnouncedInv, SuccessAnnounced

\* Whatever fails, a submitted run that shows success was announced to its sinks.
THEOREM SuccessIsAnnounced == Spec => []SuccessAnnounced
<1>1. Init => AnnouncedInv
  BY DEF Init, AnnouncedInv, SuccessAnnounced, NoExecution, Absent
<1>2. AnnouncedInv => SuccessAnnounced
  BY DEF AnnouncedInv
<1>3. QED
  BY <1>1, <1>2, AnnouncedStep, BaseAlways, PTL DEF Spec
-----------------------------------------------------------------------------
(* A disturbance that may not happen never does.                             *)

Never(f) == budget[f] = 0

LEMMA BudgetStep ==
  ASSUME [Next]_vars
  PROVE  UNCHANGED budget \/ \E f \in Faults : Spend(f)
<1> USE DEF Faults
<1>1. ASSUME NEW r \in Runs, ServiceStep(r) \/ LeaseExpires(r)
      PROVE  UNCHANGED budget \/ \E f \in Faults : Spend(f)
  BY <1>1 DEF ServiceStep, Submit, CancelRun, RecordCreate, RecordStore, RecordCommit,
     RecordFails, LeaseExpires
<1>2. ASSUME NEW r \in Runs, NEW a \in Attempts,
             EvaluationStep(r, a) \/ DisturbedStep(r, a) \/ HeartbeatStep(r, a)
      PROVE  UNCHANGED budget \/ \E f \in Faults : Spend(f)
  <2>1. CASE EvaluationStep(r, a)
    BY <2>1 DEF EvaluationStep, FetchFails, FetchOk, Deadline, UnitWrite, UnitFails, UnitEmit,
       GroupSkipped, EvalDone, StoreResults, EmitFinal, Commit, Abort, Report
  <2>2. CASE DisturbedStep(r, a) \/ HeartbeatStep(r, a)
    BY <2>2 DEF DisturbedStep, HeartbeatStep, StoreFails, CommitFails, AbortFails, StopTrying,
       StopHandling, HeartbeatOk, HeartbeatLost, HeartbeatError
  <2>3. QED
    BY <1>2, <2>1, <2>2
<1>3. ASSUME NEW w \in Workers, LoopStep(w) \/ DisturbedLoop(w)
      PROVE  UNCHANGED budget \/ \E f \in Faults : Spend(f)
  BY <1>3 DEF LoopStep, DisturbedLoop, ClaimRun, ClaimLost, SweepOnly, StopIdle, Crash, Restart
<1>4. QED
  BY <1>1, <1>2, <1>3 DEF Next, vars

LEMMA NeverStays ==
  ASSUME TypeOK, [Next]_vars, NEW f \in Faults, Never(f)
  PROVE  Never(f)'
<1>1. ASSUME NEW g \in Faults, Spend(g) PROVE budget'[f] = 0
  BY <1>1 DEF Spend, Never, TypeOK
<1>2. QED
  BY <1>1, BudgetStep DEF Never

LEMMA NeverSpent ==
  ASSUME NEW f, Never(f)
  PROVE  ~Spend(f)
BY DEF Never, Spend

LEMMA NeverAlways ==
  ASSUME NEW f \in Faults, Budget[f] = 0
  PROVE  Spec => []Never(f)
<1>1. Init => Never(f)
  BY DEF Init, Never
<1>2. TypeOK /\ Never(f) /\ [Next]_vars => Never(f)'
  BY NeverStays
<1>3. QED
  BY <1>1, <1>2, TypeCorrect, PTL DEF Spec
-----------------------------------------------------------------------------
(* LeaseKept: without stalls and failing calls, whoever works on a run holds *)
(* its lease or was told to stop.                                            *)

KeepsLease(r, a) ==
  /\ a = rows[r].attempt
  /\ rows[r].status # "queued"
  /\ rows[r].status = "running" /\ ~rows[r].cancel =>
       rows[r].lease = "live" /\ rows[r].worker = ex[r][a].worker /\ ex[r][a].hb

LeaseKept == \A r \in Runs, a \in Attempts : ex[r][a].stage \in Live => KeepsLease(r, a)

LeaseInv == BaseInv /\ Never("stall") /\ Never("db") /\ LeaseKept

\* While (r, a) works, its row is neither inserted nor claimed nor swept.
LEMMA WorkedOn ==
  ASSUME LeaseInv, [Next]_vars, NEW r \in Runs, NEW a \in Attempts, ex[r][a].stage \in Live
  PROVE  /\ ~Appears(r)
         /\ ~Claimable(r)
         /\ ~rows[r].cancel => ~Unclaimable(r)
         /\ rows'[r].attempt = a
         /\ rows'[r].status # "queued"
         /\ rows'[r].status = "running" /\ ~rows'[r].cancel =>
              /\ rows[r].status = "running" /\ ~rows[r].cancel
              /\ rows'[r].worker = rows[r].worker
              /\ rows'[r].lease = "live"
<1>0. /\ rows[r] \in Row /\ ex[r][a] \in Execution /\ ClaimInv
      /\ KeepsLease(r, a)
  BY DEF LeaseInv, BaseInv, TypeOK, LeaseKept
<1>1. ~Appears(r)
  BY <1>0 DEF Appears, KeepsLease, ClaimInv, Absent, Attempts
<1>2. ~Claimable(r) /\ (~rows[r].cancel => ~Unclaimable(r))
  BY <1>0 DEF Claimable, Unclaimable, LeaseOver, KeepsLease
<1> DEFINE Kept == /\ rows'[r].attempt = a
                   /\ rows'[r].status # "queued"
                   /\ rows'[r].status = "running" /\ ~rows'[r].cancel =>
                        /\ rows[r].status = "running" /\ ~rows[r].cancel
                        /\ rows'[r].worker = rows[r].worker
                        /\ rows'[r].lease = "live"
<1>3. ASSUME rows'[r] = rows[r] PROVE Kept
  BY <1>0, <1>3 DEF KeepsLease
<1>4. ASSUME Unclaimable(r), rows'[r] = SweptRow(r) PROVE Kept
  BY <1>0, <1>4 DEF KeepsLease, SweptRow, Row
<1>5. ASSUME Cancellable(r), rows'[r] = CancelledRow(r) PROVE Kept
  BY <1>0, <1>5 DEF KeepsLease, CancelledRow, Row
<1>6. ASSUME NEW s \in Terminal, NEW e, NEW b, rows'[r] = UpdatedRow(r, s, e, b) PROVE Kept
  <2>1. rows'[r].attempt = a /\ rows'[r].status \in Terminal
    BY <1>0, <1>6 DEF KeepsLease, UpdatedRow, Row
  <2>2. QED
    BY <2>1 DEF Terminal
<1>7. ASSUME NEW b \in Attempts, Succeeds(r, b) \/ Finalizes(r, b) PROVE Kept
  <2>1. "succeeded" \in Terminal /\ \A c : Outcome(c) \in Terminal
    BY DEF Terminal, Outcome
  <2>2. QED
    BY <1>6, <1>7, <2>1 DEF Succeeds, Finalizes
<1>8. ASSUME rows'[r] = [rows[r] EXCEPT !.lease = "live"] PROVE Kept
  BY <1>0, <1>8 DEF KeepsLease, Row
<1>9. ASSUME LeaseExpires(r) PROVE Kept
  <2>1. rows'[r] = [rows[r] EXCEPT !.lease = "expired"]
    BY <1>9 DEF LeaseExpires, LeaseInv, BaseInv, TypeOK
  <2>2. rows[r].cancel
    <3>1. ~Spend("stall")
      BY NeverSpent DEF LeaseInv
    <3>2. ~(ex[r][a].hb /\ HoldsLease(r, ex[r][a].worker))
      BY <1>9, <3>1 DEF LeaseExpires
    <3>3. QED
      BY <1>0, <1>9, <3>2 DEF LeaseExpires, HoldsLease, KeepsLease
  <2>3. QED
    BY <1>0, <2>1, <2>2 DEF KeepsLease, Row
<1>10. RowChange(r)
  BY EveryRowChange DEF LeaseInv
<1>11. Kept
  BY <1>1, <1>2, <1>3, <1>4, <1>5, <1>6, <1>7, <1>8, <1>9, <1>10 DEF RowChange, Records
<1>12. QED
  BY <1>1, <1>2, <1>11

LEMMA LeaseStep == LeaseInv /\ [Next]_vars => LeaseInv'
<1> SUFFICES ASSUME LeaseInv, [Next]_vars PROVE LeaseInv'
  OBVIOUS
<1>0. BaseInv /\ TypeOK /\ ClaimInv /\ NothingYet
  BY DEF LeaseInv, BaseInv
<1>1. ASSUME NEW r \in Runs, NEW a \in Attempts, ex'[r][a].stage \in Live
      PROVE  KeepsLease(r, a)'
  <2>1. CASE ex'[r][a] = ex[r][a]
    <3>1. ex[r][a].stage \in Live
      BY <1>1, <2>1
    <3>2. KeepsLease(r, a)
      BY <3>1 DEF LeaseInv, LeaseKept
    <3>3. QED
      BY <2>1, <3>1, <3>2, WorkedOn DEF KeepsLease
  <2>2. ASSUME NEW w \in Workers, NEW s \in {"fetch", "gone"}, ClaimOf(r, a, w, s)
        PROVE  KeepsLease(r, a)'
    <3>1. /\ ex'[r][a].stage = s
          /\ ex'[r][a].worker = w
          /\ ex'[r][a].hb = (s = "fetch")
      BY <2>2 DEF ClaimOf, NoExecution
    <3>2. ex'[r][a].hb
      BY <1>1, <3>1 DEF Live, Trying, Handling
    <3>3. rows'[r] = ClaimedRow(r, w) /\ rows[r] \in Row
      BY <1>0, <2>2 DEF ClaimOf, Claimed, Swept, TypeOK
    <3>4. /\ rows'[r].attempt = a
          /\ rows'[r].status = "running"
          /\ rows'[r].lease = "live"
          /\ rows'[r].worker = w
      BY <2>2, <3>3 DEF ClaimOf, ClaimedRow, Row
    <3>5. QED
      BY <3>1, <3>2, <3>4 DEF KeepsLease
  <2>3. CASE ex'[r][a] = KilledOne(ex[r][a])
    BY <1>0, <1>1, <2>3 DEF KilledOne, TypeOK, Execution, Live, Trying, Handling
  <2>4. CASE Advances(r, a, ex'[r][a])
    <3>1. ex[r][a].stage \in Live /\ ex'[r][a].worker = ex[r][a].worker
      BY <1>1, <2>4 DEF Advances
    <3>2. KeepsLease(r, a)
      BY <3>1 DEF LeaseInv, LeaseKept
    <3>3. ASSUME rows'[r].status = "running", ~rows'[r].cancel PROVE ex'[r][a].hb
      <4>1. rows[r].status = "running" /\ ~rows[r].cancel
        BY <3>1, <3>3, WorkedOn
      <4>2. ~LosesLease(r, a)
        BY <3>2, <4>1, NeverSpent DEF LosesLease, LeaseInv, KeepsLease, HoldsLease
      <4>3. QED
        BY <1>1, <2>4, <3>2, <4>1, <4>2 DEF Advances, KeepsLease
    <3>4. QED
      BY <3>1, <3>2, <3>3, WorkedOn DEF KeepsLease
  <2>5. QED
    BY <1>0, <2>1, <2>2, <2>3, <2>4, StepsAreLocal, ExecutionAdvances DEF StepOf
<1>2. BaseInv' /\ Never("stall")' /\ Never("db")'
  BY <1>0, BaseStep, NeverStays DEF LeaseInv, Faults
<1>3. QED
  BY <1>1, <1>2 DEF LeaseInv, LeaseKept

\* No heartbeat task is held up past its lease, and no database call fails.
CallsInTime == Budget["stall"] = 0 /\ Budget["db"] = 0

LEMMA LeaseAlways ==
  ASSUME CallsInTime
  PROVE  Spec => []LeaseInv
<1>1. Init => LeaseInv
  BY TypeInit, ClaimInit, NothingYetInit
     DEF CallsInTime, Init, LeaseInv, BaseInv, Never, LeaseKept, NoExecution, Live, Trying, Handling
<1>2. QED
  BY <1>1, LeaseStep, PTL DEF Spec

\* While leases are renewed in time, two loops never work on the same run:
\* crashes, stops and cancellations make no difference.
THEOREM ExecutorIsAlone ==
  ASSUME CallsInTime
  PROVE  Spec => []OneExecutor
<1>1. LeaseInv => OneExecutor
  BY DEF LeaseInv, LeaseKept, KeepsLease, OneExecutor
<1>2. QED
  BY <1>1, LeaseAlways, PTL
-----------------------------------------------------------------------------
(* OutcomeIsOwned: when no cancellation interferes either, the run of an     *)
(* execution inside its try block is running, so only the except clause of   *)
(* that execution finds a finished row it may write again.                   *)

Owned ==
  \A r \in Runs \ Uploaded, a \in Attempts :
    ex[r][a].stage \in Trying => rows[r].status = "running"

OwnedInv ==
  /\ LeaseInv /\ Never("cancel")
  /\ \A r \in Runs : ~rows[r].cancel
  /\ Owned

LEMMA CancelStep ==
  ASSUME OwnedInv, [Next]_vars, NEW r \in Runs
  PROVE  ~rows'[r].cancel
<1>0. rows[r] \in Row /\ ~rows[r].cancel /\ TypeOK /\ BaseInv
  BY DEF OwnedInv, LeaseInv, BaseInv, TypeOK
<1>1. ASSUME NEW s, NEW e, NEW b, rows'[r] = UpdatedRow(r, s, e, b) PROVE ~rows'[r].cancel
  BY <1>0, <1>1 DEF UpdatedRow, Row
<1>2. CASE Appears(r)
  BY <1>2 DEF Appears, Submitted, Recorded, Absent
<1>3. CASE rows'[r] = [rows[r] EXCEPT !.lease = "live"]
  BY <1>0, <1>3 DEF Row
<1>4. CASE LeaseExpires(r)
  BY <1>0, <1>4 DEF LeaseExpires, TypeOK, Row
<1>5. CASE \E w \in Workers : rows'[r] = ClaimedRow(r, w)
  BY <1>0, <1>5 DEF ClaimedRow, Row
<1>6. CASE rows'[r] = SweptRow(r)
  BY <1>0, <1>6 DEF SweptRow, Row
<1>7. ~Spend("cancel")
  BY NeverSpent DEF OwnedInv
<1>8. QED
  BY <1>0, <1>1, <1>2, <1>3, <1>4, <1>5, <1>6, <1>7, EveryRowChange
     DEF RowChange, Records, Succeeds, Finalizes

\* The row of a running submitted run that is worked on leaves "running" only
\* when that execution leaves its try block.
LEMMA OwnedRow ==
  ASSUME OwnedInv, [Next]_vars, NEW r \in Runs \ Uploaded, NEW a \in Attempts,
         ex[r][a].stage \in Trying, ex'[r][a].stage \in Trying
  PROVE  rows'[r].status = "running"
<1>0. /\ rows[r] \in Row /\ TypeOK /\ BaseInv /\ LeaseInv /\ ~rows[r].cancel
      /\ rows[r].status = "running" /\ ex[r][a].stage \in Live
  BY DEF OwnedInv, LeaseInv, BaseInv, TypeOK, Owned, Live
<1>1. ~Appears(r) /\ ~Claimable(r) /\ ~Unclaimable(r) /\ ~Spend("cancel")
  BY <1>0, WorkedOn, NeverSpent DEF OwnedInv
<1>2. ASSUME NEW b \in Attempts, Succeeds(r, b) \/ Finalizes(r, b) PROVE FALSE
  <2>1. ex[r][b].stage \in Live /\ ex'[r][b].stage \notin Trying
    BY <1>2 DEF Succeeds, Finalizes, Live, Trying, Handling
  <2>2. a = b
    BY <1>0, <2>1 DEF LeaseInv, LeaseKept, KeepsLease
  <2>3. QED
    BY <2>1, <2>2
<1>3. CASE rows'[r] = [rows[r] EXCEPT !.lease = "live"]
  BY <1>0, <1>3 DEF Row
<1>4. CASE LeaseExpires(r)
  BY <1>0, <1>4 DEF LeaseExpires, TypeOK, Row
<1>5. QED
  BY <1>0, <1>1, <1>2, <1>3, <1>4, EveryRowChange DEF RowChange, Records

LEMMA OwnedStep == OwnedInv /\ [Next]_vars => OwnedInv'
<1> SUFFICES ASSUME OwnedInv, [Next]_vars PROVE OwnedInv'
  OBVIOUS
<1>0. LeaseInv /\ BaseInv /\ TypeOK /\ ClaimInv /\ NothingYet
  BY DEF OwnedInv, LeaseInv, BaseInv
<1>1. ASSUME NEW r \in Runs \ Uploaded, NEW a \in Attempts, ex'[r][a].stage \in Trying
      PROVE  rows'[r].status = "running"
  <2>1. CASE ex[r][a].stage \in Trying
    BY <1>1, <2>1, OwnedRow
  <2>2. ASSUME NEW w \in Workers, NEW s, ClaimOf(r, a, w, s) PROVE rows'[r].status = "running"
    <3>1. rows'[r] = ClaimedRow(r, w) /\ rows[r] \in Row
      BY <1>0, <2>2 DEF ClaimOf, Claimed, Swept, TypeOK
    <3>2. QED
      BY <3>1 DEF ClaimedRow, Row
  <2>3. CASE ex'[r][a] = KilledOne(ex[r][a])
    BY <1>0, <1>1, <2>3 DEF KilledOne, TypeOK, Execution, Trying
  <2>4. CASE Advances(r, a, ex'[r][a])
    BY <1>1, <2>1, <2>4 DEF Advances
  <2>5. QED
    BY <1>0, <1>1, <2>1, <2>2, <2>3, <2>4, StepsAreLocal, ExecutionAdvances DEF StepOf
<1>2. LeaseInv' /\ Never("cancel")'
  BY <1>0, LeaseStep, NeverStays DEF OwnedInv, Faults
<1>3. \A r \in Runs : ~rows'[r].cancel
  BY CancelStep
<1>4. QED
  BY <1>1, <1>2, <1>3 DEF OwnedInv, Owned

NoCancellations == Budget["cancel"] = 0

LEMMA OwnedAlways ==
  ASSUME CallsInTime, NoCancellations
  PROVE  Spec => []OwnedInv
<1>1. Init => OwnedInv
  <2>1. Init => LeaseInv
    BY TypeInit, ClaimInit, NothingYetInit
       DEF CallsInTime, Init, LeaseInv, BaseInv, Never, LeaseKept, NoExecution, Live, Trying, Handling
  <2>2. QED
    BY <2>1 DEF NoCancellations, Init, OwnedInv, Never, Owned, Absent, NoExecution, Trying
<1>2. QED
  BY <1>1, OwnedStep, PTL DEF Spec

\* While leases are renewed in time and nobody cancels, a finished run changes
\* its outcome only at the hands of the attempt that reported it: crashes and
\* stops make no difference.
THEOREM OutcomesAreOwned ==
  ASSUME CallsInTime, NoCancellations
  PROVE  Spec => OutcomeIsOwned
<1> DEFINE A == \A r \in Runs \ Uploaded :
                  rows[r].status \in Terminal /\ rows'[r].status # rows[r].status
                  => ex[r][rows[r].attempt].stage = "abort"
<1>1. OwnedInv /\ [Next]_vars => A
  <2> SUFFICES ASSUME OwnedInv, [Next]_vars, NEW r \in Runs \ Uploaded,
                      rows[r].status \in Terminal, rows'[r].status # rows[r].status
               PROVE  ex[r][rows[r].attempt].stage = "abort"
    OBVIOUS
  <2>0. LeaseInv /\ BaseInv /\ TypeOK /\ rows[r] \in Row /\ rows[r].status \notin {"absent", "queued", "running"}
    BY DEF OwnedInv, LeaseInv, BaseInv, TypeOK, Terminal
  <2>1. ~Appears(r) /\ ~Claimable(r) /\ ~Unclaimable(r) /\ ~Cancellable(r)
    BY <2>0 DEF Appears, Claimable, Unclaimable, LeaseOver, Cancellable
  <2>2. ASSUME NEW a \in Attempts PROVE ~Succeeds(r, a)
    BY <2>0 DEF Succeeds, OwnedInv, Owned, Trying
  <2>3. ASSUME NEW a \in Attempts, Finalizes(r, a) PROVE ex[r][rows[r].attempt].stage = "abort"
    <3>1. ex[r][a].stage = "abort" /\ ex[r][a].stage \in Live
      BY <2>3 DEF Finalizes, Live, Handling
    <3>2. a = rows[r].attempt
      BY <2>0, <3>1 DEF LeaseInv, LeaseKept, KeepsLease
    <3>3. QED
      BY <3>1, <3>2
  <2>4. rows'[r] # [rows[r] EXCEPT !.lease = "live"]
    BY <2>0 DEF Row
  <2>5. ~LeaseExpires(r)
    BY <2>0 DEF LeaseExpires
  <2>6. QED
    BY <2>0, <2>1, <2>2, <2>3, <2>4, <2>5, EveryRowChange DEF RowChange, Records
<1>2. QED
  BY <1>1, OwnedAlways, PTL DEF Spec, OutcomeIsOwned
-----------------------------------------------------------------------------
(* ResultsAreFresh: when no stop() strands evaluators, a new attempt starts  *)
(* only over the dead body of the one before, so nobody else writes to the   *)
(* rows of a submitted run.                                                  *)

Superseded ==
  \A r \in Runs, a \in Attempts :
    ex[r][a].stage \notin {"none", "gone"} => a = rows[r].attempt

Settled ==
  \A r \in Runs, a \in Attempts :
    ex[r][a].stage \in {"report", "over"} => rows[r].status \in Terminal

Fresh ==
  \A r \in Runs \ Uploaded, u \in Units, a \in Attempts :
    a = rows[r].attempt /\ ex[r][a].unit[u] \in Answered => results[r][u] = a

FreshInv == LeaseInv /\ Never("stop") /\ Superseded /\ Settled /\ Fresh

\* A finished row keeps its attempt, and a row nobody has claimed cannot appear
\* a second time.
LEMMA AttemptChange ==
  ASSUME BaseInv, [Next]_vars, NEW r \in Runs
  PROVE  \/ rows'[r].attempt = rows[r].attempt
         \/ Claimable(r) /\ rows'[r].attempt = rows[r].attempt + 1
         \/ rows[r].attempt = 0
<1>0. rows[r] \in Row /\ TypeOK /\ ClaimInv
  BY DEF BaseInv, TypeOK
<1>1. ASSUME NEW s, NEW e, NEW b, rows'[r] = UpdatedRow(r, s, e, b)
      PROVE  rows'[r].attempt = rows[r].attempt
  BY <1>0, <1>1 DEF UpdatedRow, Row
<1>2. CASE Appears(r)
  BY <1>0, <1>2 DEF Appears, ClaimInv, Absent
<1>3. CASE rows'[r] = [rows[r] EXCEPT !.lease = "live"]
  BY <1>0, <1>3 DEF Row
<1>4. CASE LeaseExpires(r)
  BY <1>0, <1>4 DEF LeaseExpires, TypeOK, Row
<1>5. CASE \E w \in Workers : Claimable(r) /\ rows'[r] = ClaimedRow(r, w)
  BY <1>0, <1>5 DEF ClaimedRow, Row
<1>6. CASE rows'[r] = SweptRow(r)
  BY <1>0, <1>6 DEF SweptRow, Row
<1>7. CASE rows'[r] = CancelledRow(r)
  BY <1>0, <1>7 DEF CancelledRow, Row
<1>8. QED
  BY <1>1, <1>2, <1>3, <1>4, <1>5, <1>6, <1>7, EveryRowChange
     DEF RowChange, Records, Succeeds, Finalizes

\* Every result row an attempt writes is its own.
LEMMA FreshRows ==
  ASSUME FreshInv, [Next]_vars, NEW r \in Runs \ Uploaded, NEW u \in Units
  PROVE  results'[r][u] \in {results[r][u], rows[r].attempt}
<1>0. TypeOK /\ ResultStep
  BY EveryResultStep DEF FreshInv, LeaseInv, BaseInv
<1>1. ASSUME NEW q \in Uploaded, results' = Upserted(q, 1, Units)
      PROVE  results'[r][u] = results[r][u]
  BY <1>0, <1>1, UpsertedRow, UploadedAssumption
<1>2. ASSUME NEW q \in Runs, NEW a \in Attempts, NEW us,
             ex[q][a].stage \notin {"none", "gone"}, results' = Upserted(q, a, us)
      PROVE  results'[r][u] \in {results[r][u], rows[r].attempt}
  <2>1. a = rows[q].attempt
    BY <1>2 DEF FreshInv, Superseded
  <2>2. QED
    BY <1>0, <1>2, <2>1, UpsertedRow
<1>3. QED
  BY <1>0, <1>1, <1>2 DEF ResultStep

LEMMA SupersededStep ==
  ASSUME FreshInv, [Next]_vars
  PROVE  Superseded'
<1>0. LeaseInv /\ BaseInv /\ TypeOK /\ ClaimInv /\ NothingYet
  BY DEF FreshInv, LeaseInv, BaseInv
<1> SUFFICES ASSUME NEW r \in Runs, NEW a \in Attempts, ex'[r][a].stage \notin {"none", "gone"}
             PROVE  a = rows'[r].attempt
  BY DEF Superseded
<1>1. ASSUME ex[r][a].stage \notin {"none", "gone"} PROVE a = rows'[r].attempt
  <2>1. a = rows[r].attempt
    BY <1>1 DEF FreshInv, Superseded
  <2>2. CASE ex[r][a].stage \in Live
    BY <1>0, <2>2, WorkedOn
  <2>3. CASE ex[r][a].stage = "over"
    <3>1. ~Claimable(r)
      BY <2>3 DEF FreshInv, Settled, Terminal, Claimable, LeaseOver
    <3>2. QED
      BY <1>0, <2>1, <3>1, AttemptChange DEF Attempts
  <2>4. ex[r][a].stage \in Stage
    BY <1>0 DEF TypeOK, Execution
  <2>5. QED
    BY <1>1, <2>2, <2>3, <2>4 DEF Stage
<1>2. ASSUME NEW w \in Workers, NEW s, ClaimOf(r, a, w, s) PROVE a = rows'[r].attempt
  <2>1. rows'[r] = ClaimedRow(r, w) /\ rows[r] \in Row
    BY <1>0, <1>2 DEF ClaimOf, Claimed, Swept, TypeOK
  <2>2. QED
    BY <1>2, <2>1 DEF ClaimOf, ClaimedRow, Row
<1>3. CASE ex'[r][a] = KilledOne(ex[r][a])
  BY <1>0, <1>3 DEF KilledOne, TypeOK, Execution
<1>4. CASE Advances(r, a, ex'[r][a])
  BY <1>1, <1>4 DEF Advances
<1>5. QED
  BY <1>0, <1>1, <1>2, <1>3, <1>4, StepsAreLocal, ExecutionAdvances DEF StepOf

LEMMA SettledStep ==
  ASSUME FreshInv, [Next]_vars
  PROVE  Settled'
<1>0. LeaseInv /\ BaseInv /\ TypeOK /\ ClaimInv /\ NothingYet
  BY DEF FreshInv, LeaseInv, BaseInv
<1> SUFFICES ASSUME NEW r \in Runs, NEW a \in Attempts, ex'[r][a].stage \in {"report", "over"}
             PROVE  rows'[r].status \in Terminal
  BY DEF Settled
<1>1. CASE ex[r][a].stage \in {"report", "over"}
  <2>1. rows[r].status \in Terminal
    BY <1>1 DEF FreshInv, Settled
  <2>2. QED
    BY <1>0, <2>1, EveryRowStep, RowFacts
<1>2. ASSUME NEW w, NEW s \in {"fetch", "gone"}, ClaimOf(r, a, w, s) PROVE FALSE
  BY <1>2 DEF ClaimOf, NoExecution
<1>3. CASE ex'[r][a] = KilledOne(ex[r][a])
  BY <1>0, <1>3 DEF KilledOne, TypeOK, Execution
<1>4. CASE Advances(r, a, ex'[r][a])
  <2>1. ~Spend("db") /\ ~Spend("stop")
    BY <1>0, NeverSpent DEF FreshInv, LeaseInv
  <2>2. QED
    BY <1>1, <1>4, <2>1 DEF Advances, Settles
<1>5. QED
  BY <1>0, <1>1, <1>2, <1>3, <1>4, StepsAreLocal, ExecutionAdvances DEF StepOf

LEMMA FreshStep == FreshInv /\ [Next]_vars => FreshInv'
<1> SUFFICES ASSUME FreshInv, [Next]_vars PROVE FreshInv'
  OBVIOUS
<1>0. LeaseInv /\ BaseInv /\ TypeOK /\ ClaimInv /\ NothingYet
  BY DEF FreshInv, LeaseInv, BaseInv
<1>1. ASSUME NEW r \in Runs \ Uploaded, NEW u \in Units, NEW a \in Attempts,
             a = rows'[r].attempt, ex'[r][a].unit[u] \in Answered
      PROVE  results'[r][u] = a
  <2>1. ASSUME ex[r][a].unit[u] \in Answered PROVE results'[r][u] = a
    <3>1. ex[r][a].stage # "none"
      BY <1>0, <2>1 DEF NothingYet, NoExecution, Answered
    <3>2. a <= rows[r].attempt /\ rows[r].attempt \in Nat
      BY <1>0, <3>1 DEF ClaimInv, TypeOK, Row
    <3>3. a = rows[r].attempt
      BY <1>0, <1>1, <3>2, AttemptChange DEF Attempts
    <3>4. results[r][u] = a
      BY <2>1, <3>3 DEF FreshInv, Fresh
    <3>5. QED
      BY <3>3, <3>4, FreshRows
  <2>2. ASSUME NEW w, NEW s, ClaimOf(r, a, w, s) PROVE FALSE
    <3>1. ex'[r][a].unit[u] = "todo"
      BY <2>2 DEF ClaimOf, NoExecution
    <3>2. QED
      BY <1>1, <3>1 DEF Answered
  <2>3. CASE ex'[r][a] = KilledOne(ex[r][a])
    <3>1. ex'[r][a].unit = ex[r][a].unit
      BY <1>0, <2>3 DEF KilledOne, TypeOK, Execution
    <3>2. QED
      BY <1>1, <2>1, <3>1
  <2>4. CASE Advances(r, a, ex'[r][a])
    BY <1>1, <2>1, <2>4 DEF Advances
  <2>5. QED
    BY <1>0, <1>1, <2>1, <2>2, <2>3, <2>4, StepsAreLocal, ExecutionAdvances DEF StepOf
<1>2. LeaseInv' /\ Never("stop")'
  BY <1>0, LeaseStep, NeverStays DEF FreshInv, Faults
<1>3. QED
  BY <1>1, <1>2, SupersededStep, SettledStep DEF FreshInv, Fresh

NoStops == Budget["stop"] = 0

\* While leases are renewed in time and no loop is stopped, the rows of a
\* succeeded run are those of the attempt that succeeded: crashes, retries and
\* cancellations make no difference.
THEOREM ResultsComeFromTheLastAttempt ==
  ASSUME CallsInTime, NoStops
  PROVE  Spec => []ResultsAreFresh
<1>1. Init => FreshInv
  <2>1. Init => LeaseInv
    BY TypeInit, ClaimInit, NothingYetInit
       DEF CallsInTime, Init, LeaseInv, BaseInv, Never, LeaseKept, NoExecution, Live, Trying, Handling
  <2>2. QED
    BY <2>1 DEF NoStops, Init, FreshInv, Never, Superseded, Settled, Fresh, NoExecution, Answered
<1>2. FreshInv /\ SuccessAnnounced => ResultsAreFresh
  <2> SUFFICES ASSUME FreshInv, SuccessAnnounced, NEW r \in Runs \ Uploaded, rows[r].status = "succeeded",
                      NEW u \in Units, results[r][u] # 0, ex[r][rows[r].attempt].unit[u] = "done"
               PROVE  results[r][u] = rows[r].attempt
    BY DEF ResultsAreFresh
  <2>0. BaseInv /\ TypeOK /\ ClaimInv /\ NothingYet
    BY DEF FreshInv, LeaseInv, BaseInv
  <2>1. PICK a \in Attempts : ex[r][a].final
    BY DEF SuccessAnnounced
  <2>2. ex[r][a].stage # "none"
    BY <2>0, <2>1 DEF NothingYet, NoExecution
  <2>3. rows[r].attempt > 0 /\ rows[r].attempt \in 0..MaxAttempts
    BY <2>0, <2>2, StartedIsCounted DEF TypeOK, Row
  <2>4. rows[r].attempt \in Attempts
    BY <2>3, AttemptsAssumption DEF Attempts
  <2>5. QED
    BY <2>4 DEF FreshInv, Fresh, Answered
<1>3. QED
  BY <1>1, <1>2, FreshStep, SuccessIsAnnounced, PTL DEF Spec
=============================================================================
