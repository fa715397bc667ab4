-------------------------- MODULE RunWorkerProofs --------------------------
(***************************************************************************)
(* Proofs about RunWorker, for every number of runs, workers, attempts,    *)
(* evaluators and disturbances.                                            *)
(***************************************************************************)
EXTENDS RunWorker, TLAPS

\* The rows the statements of RunStore write are rows.
LEMMA RowTypes ==
  ASSUME rows \in [Runs -> Row], NEW r \in Runs
  PROVE  /\ rows[r] \in Row
         /\ SweptRow(r) \in Row
         /\ CancelledRow(r) \in Row
         /\ \A w \in Workers : Claimable(r) => ClaimedRow(r, w) \in Row
         /\ \A s \in Terminal, e \in Error, b \in BOOLEAN : UpdatedRow(r, s, e, b) \in Row
<1>1. rows[r] \in Row
  OBVIOUS
<1>2. SweptRow(r) \in Row
  BY <1>1 DEF SweptRow, Row, Status, Terminal, Error
<1>3. CancelledRow(r) \in Row
  BY <1>1 DEF CancelledRow, Row, Status, Terminal
<1>4. ASSUME NEW w \in Workers, Claimable(r) PROVE ClaimedRow(r, w) \in Row
  <2>1. rows[r].attempt \in 0..MaxAttempts
    BY <1>1 DEF Row
  <2>2. rows[r].attempt + 1 \in 0..MaxAttempts
    BY <1>4, <2>1, AttemptsAssumption DEF Claimable
  <2>3. QED
    BY <1>1, <2>2 DEF ClaimedRow, Row, Status
<1>5. ASSUME NEW s \in Terminal, NEW e \in Error, NEW b \in BOOLEAN
      PROVE UpdatedRow(r, s, e, b) \in Row
  <2>1. rows[r].summary \/ b \in BOOLEAN
    OBVIOUS
  <2>2. QED
    BY <1>1, <2>1 DEF UpdatedRow, Row, Status
<1>6. QED
  BY <1>1, <1>2, <1>3, <1>4, <1>5

\* ... and so are the tables.
LEMMA TableTypes ==
  ASSUME rows \in [Runs -> Row], NEW r \in Runs
  PROVE  /\ Swept \in [Runs -> Row]
         /\ Renewed(r) \in [Runs -> Row]
         /\ CancelRequested(r) \in [Runs -> Row]
         /\ [rows EXCEPT ![r] = Submitted] \in [Runs -> Row]
         /\ [rows EXCEPT ![r] = Recorded] \in [Runs -> Row]
         /\ [rows EXCEPT ![r].lease = "expired"] \in [Runs -> Row]
         /\ \A w \in Workers : Claimable(r) => Claimed(r, w) \in [Runs -> Row]
         /\ \A s \in Terminal, e \in Error, b \in BOOLEAN :
              Updated(r, s, e, b) \in [Runs -> Row]
<1>1. Swept \in [Runs -> Row]
  BY RowTypes DEF Swept
<1>2. Renewed(r) \in [Runs -> Row] /\ [rows EXCEPT ![r].lease = "expired"] \in [Runs -> Row]
  BY DEF Renewed, Row
<1>3. CancelRequested(r) \in [Runs -> Row]
  BY RowTypes DEF CancelRequested
<1>4. Submitted \in Row /\ Recorded \in Row
  <2>1. 0 \in 0..MaxAttempts /\ 1 \in 0..MaxAttempts
    BY AttemptsAssumption
  <2>2. Absent \in Row
    BY <2>1 DEF Absent, Row, Status, Error
  <2>3. QED
    BY <2>1, <2>2 DEF Submitted, Recorded, Row, Status
<1>5. ASSUME NEW w \in Workers, Claimable(r) PROVE Claimed(r, w) \in [Runs -> Row]
  <2>1. ClaimedRow(r, w) \in Row
    BY <1>5, RowTypes
  <2>2. QED
    BY <1>1, <2>1 DEF Claimed
<1>6. ASSUME NEW s \in Terminal, NEW e \in Error, NEW b \in BOOLEAN
      PROVE Updated(r, s, e, b) \in [Runs -> Row]
  BY RowTypes DEF Updated
<1>7. QED
  BY <1>1, <1>2, <1>3, <1>4, <1>5, <1>6

\* Every update of an execution in the model yields an execution.
LEMMA ExecutionUpdates ==
  ASSUME NEW e \in Execution
  PROVE  /\ \A s \in Stage : [e EXCEPT !.stage = s] \in Execution
         /\ \A c \in Reason : [e EXCEPT !.stage = "abort", !.reason = c] \in Execution
         /\ \A s \in Stage :
              [e EXCEPT !.stage = s, !.hb = FALSE, !.reason = "none"] \in Execution
         /\ [e EXCEPT !.stage = "commit", !.final = TRUE] \in Execution
         /\ [e EXCEPT !.event = TRUE, !.hb = FALSE] \in Execution
         /\ [e EXCEPT !.hb = FALSE] \in Execution
         /\ \A u \in Units, s \in UnitState : [e EXCEPT !.unit[u] = s] \in Execution
         /\ \A f \in [Units -> UnitState] : [e EXCEPT !.unit = f] \in Execution
<1>1. \A s \in Stage : [e EXCEPT !.stage = s] \in Execution
  BY DEF Execution
<1>2. \A c \in Reason : [e EXCEPT !.stage = "abort", !.reason = c] \in Execution
  BY DEF Execution, Stage, Live, Handling
<1>3. \A s \in Stage : [e EXCEPT !.stage = s, !.hb = FALSE, !.reason = "none"] \in Execution
  BY DEF Execution, Reason
<1>4. [e EXCEPT !.stage = "commit", !.final = TRUE] \in Execution
  BY DEF Execution, Stage, Live, Trying
<1>5. [e EXCEPT !.event = TRUE, !.hb = FALSE] \in Execution /\ [e EXCEPT !.hb = FALSE] \in Execution
  BY DEF Execution
<1>6. \A f \in [Units -> UnitState] : [e EXCEPT !.unit = f] \in Execution
  BY DEF Execution
<1>7. ASSUME NEW u \in Units, NEW s \in UnitState PROVE [e EXCEPT !.unit[u] = s] \in Execution
  <2>1. e.unit \in [Units -> UnitState]
    BY DEF Execution
  <2>2. [e.unit EXCEPT ![u] = s] \in [Units -> UnitState]
    BY <2>1
  <2>3. QED
    BY <2>2, <1>6
<1>8. QED
  BY <1>1, <1>2, <1>3, <1>4, <1>5, <1>6, <1>7

LEMMA BecomesType ==
  ASSUME TypeOK, NEW r \in Runs, NEW a \in Attempts, NEW e \in Execution, Becomes(r, a, e)
  PROVE  ex' \in [Runs -> [Attempts -> Execution]]
BY DEF TypeOK, Becomes

LEMMA SpendType ==
  ASSUME TypeOK, NEW f \in Faults, Spend(f)
  PROVE  budget' \in [Faults -> Nat]
<1>1. budget \in [Faults -> Nat] /\ budget[f] > 0
  BY DEF TypeOK, Spend
<1>2. budget[f] - 1 \in Nat
  BY <1>1
<1>3. QED
  BY <1>1, <1>2 DEF Spend

LEMMA UpsertedType ==
  ASSUME TypeOK, NEW r \in Runs, NEW a \in 0..MaxAttempts, NEW us
  PROVE  Upserted(r, a, us) \in [Runs -> [Units -> 0..MaxAttempts]]
BY DEF TypeOK, Upserted

\* One lemma per kind of step: each leaves the state well typed.
LEMMA ServiceTypes ==
  ASSUME TypeOK, NEW r \in Runs, ServiceStep(r)
  PROVE  TypeOK'
<1>1. CASE Submit(r)
  BY <1>1, TableTypes DEF TypeOK, Submit
<1>2. CASE CancelRun(r)
  <2>1. budget' \in [Faults -> Nat]
    BY <1>2, SpendType DEF CancelRun, Faults
  <2>2. QED
    BY <1>2, <2>1, TableTypes DEF TypeOK, CancelRun
<1>3. CASE RecordCreate(r)
  BY <1>3, TableTypes DEF TypeOK, RecordCreate, RecState
<1>4. CASE RecordStore(r)
  <2>1. results' \in [Runs -> [Units -> 0..MaxAttempts]]
    BY <1>4, UpsertedType, AttemptsAssumption DEF RecordStore
  <2>2. QED
    BY <1>4, <2>1 DEF TypeOK, RecordStore, RecState
<1>5. CASE RecordCommit(r)
  <2>1. rows' \in [Runs -> Row]
    <3>1. Updated(r, "succeeded", "none", TRUE) \in [Runs -> Row]
      BY TableTypes DEF TypeOK, Terminal, Error
    <3>2. Updated(r, "failed", "error", TRUE) \in [Runs -> Row]
      BY TableTypes DEF TypeOK, Terminal, Error
    <3>3. QED
      BY <1>5, <3>1, <3>2 DEF RecordCommit
  <2>2. QED
    BY <1>5, <2>1 DEF TypeOK, RecordCommit, RecState
<1>6. CASE RecordFails(r)
  <2>1. budget' \in [Faults -> Nat]
    BY <1>6, SpendType DEF RecordFails, Faults
  <2>2. QED
    BY <1>6, <2>1 DEF TypeOK, RecordFails, RecState
<1>7. QED
  BY <1>1, <1>2, <1>3, <1>4, <1>5, <1>6 DEF ServiceStep

LEMMA StartsType ==
  ASSUME TypeOK, NEW r \in Runs, NEW w \in Workers, NEW stage \in {"fetch", "gone"},
         Claimable(r), Starts(r, w, stage)
  PROVE  /\ rows[r].attempt + 1 \in Attempts
         /\ ex' \in [Runs -> [Attempts -> Execution]]
<1>1. rows[r].attempt \in 0..MaxAttempts
  BY DEF TypeOK, Row
<1>2. rows[r].attempt + 1 \in Attempts
  BY <1>1, AttemptsAssumption DEF Claimable, Attempts
<1>3. [NoExecution EXCEPT !.worker = w, !.stage = stage, !.hb = (stage = "fetch")] \in Execution
  BY DEF NoExecution, Execution, Stage, Live, Trying, Reason, UnitState
<1>4. QED
  BY <1>2, <1>3, BecomesType DEF Starts

LEMMA LoopTypes ==
  ASSUME TypeOK, NEW w \in Workers, LoopStep(w) \/ DisturbedLoop(w)
  PROVE  TypeOK'
<1>1. ASSUME NEW r \in Runs, ClaimRun(w, r) PROVE TypeOK'
  <2>1. ex' \in [Runs -> [Attempts -> Execution]] /\ rows' \in [Runs -> Row]
    BY <1>1, StartsType, TableTypes DEF ClaimRun, TypeOK
  <2>2. QED
    BY <1>1, <2>1 DEF TypeOK, ClaimRun, LoopState
<1>2. ASSUME NEW r \in Runs, ClaimLost(w, r) PROVE TypeOK'
  <2>1. ex' \in [Runs -> [Attempts -> Execution]] /\ rows' \in [Runs -> Row]
    BY <1>2, StartsType, TableTypes DEF ClaimLost, TypeOK
  <2>2. budget' \in [Faults -> Nat]
    BY <1>2, SpendType DEF ClaimLost, Faults
  <2>3. QED
    BY <1>2, <2>1, <2>2 DEF TypeOK, ClaimLost, LoopState
<1>3. CASE SweepOnly(w)
  <2>1. Swept \in [Runs -> Row]
    BY RowTypes DEF TypeOK, Swept
  <2>2. QED
    BY <1>3, <2>1 DEF TypeOK, SweepOnly
<1>4. CASE StopIdle(w)
  <2>1. budget' \in [Faults -> Nat]
    BY <1>4, SpendType DEF StopIdle, Faults
  <2>2. QED
    BY <1>4, <2>1 DEF TypeOK, StopIdle, LoopState
<1>5. Killed(w) \in [Runs -> [Attempts -> Execution]]
  BY ExecutionUpdates DEF TypeOK, Killed, Stage
<1>6. CASE Crash(w)
  <2>1. budget' \in [Faults -> Nat]
    BY <1>6, SpendType DEF Crash, Faults
  <2>2. QED
    BY <1>5, <1>6, <2>1 DEF TypeOK, Crash, LoopState
<1>7. CASE Restart(w)
  BY <1>5, <1>7 DEF TypeOK, Restart, LoopState
<1>8. QED
  BY <1>1, <1>2, <1>3, <1>4, <1>6, <1>7 DEF LoopStep, DisturbedLoop

LEMMA HeartbeatTypes ==
  ASSUME TypeOK, NEW r \in Runs, NEW a \in Attempts, HeartbeatStep(r, a)
  PROVE  TypeOK'
<1>1. ex[r][a] \in Execution
  BY DEF TypeOK
<1>2. CASE HeartbeatOk(r, a)
  BY <1>2, TableTypes DEF TypeOK, HeartbeatOk
<1>3. CASE HeartbeatLost(r, a)
  <2>1. ex' \in [Runs -> [Attempts -> Execution]]
    BY <1>1, <1>3, ExecutionUpdates, BecomesType DEF HeartbeatLost
  <2>2. QED
    BY <1>3, <2>1 DEF TypeOK, HeartbeatLost
<1>4. CASE HeartbeatError(r, a)
  <2>1. ex' \in [Runs -> [Attempts -> Execution]] /\ budget' \in [Faults -> Nat]
    BY <1>1, <1>4, ExecutionUpdates, BecomesType, SpendType DEF HeartbeatError, Faults
  <2>2. QED
    BY <1>4, <2>1 DEF TypeOK, HeartbeatError
<1>5. QED
  BY <1>2, <1>3, <1>4 DEF HeartbeatStep

LEMMA LeaseTypes ==
  ASSUME TypeOK, NEW r \in Runs, LeaseExpires(r)
  PROVE  TypeOK'
<1>1. budget' \in [Faults -> Nat]
  BY SpendType DEF LeaseExpires, Faults, TypeOK
<1>2. QED
  BY <1>1, TableTypes DEF TypeOK, LeaseExpires

\* The outcomes an execution writes, whether or not the write is reported back.
LEMMA OutcomeTypes ==
  ASSUME TypeOK, NEW r \in Runs, NEW a \in Attempts
  PROVE  /\ Updated(r, "succeeded", "none", TRUE) \in [Runs -> Row]
         /\ Aborted(r, a) \in [Runs -> Row]
<1>1. Updated(r, "succeeded", "none", TRUE) \in [Runs -> Row]
  BY TableTypes DEF TypeOK, Terminal, Error
<1>2. ex[r][a].reason \in Reason
  BY DEF TypeOK, Execution
<1>3. Outcome(ex[r][a].reason) \in Terminal /\ ex[r][a].reason \in Error
  BY <1>2 DEF Outcome, Terminal, Reason, Error
<1>4. QED
  BY <1>1, <1>3, TableTypes DEF TypeOK, Aborted

LEMMA EndsType ==
  ASSUME TypeOK, NEW r \in Runs, NEW a \in Attempts, Ends(r, a)
  PROVE  ex' \in [Runs -> [Attempts -> Execution]]
<1>1. ex[r][a] \in Execution
  BY DEF TypeOK
<1>2. [ex[r][a] EXCEPT !.stage = "over", !.hb = FALSE, !.reason = "none"] \in Execution
  BY <1>1, ExecutionUpdates DEF Stage
<1>3. QED
  BY <1>2, BecomesType DEF Ends

LEMMA AbortsType ==
  ASSUME TypeOK, NEW r \in Runs, NEW a \in Attempts, NEW c \in Reason, Aborts(r, a, c)
  PROVE  ex' \in [Runs -> [Attempts -> Execution]]
<1>1. ex[r][a] \in Execution
  BY DEF TypeOK
<1>2. [ex[r][a] EXCEPT !.stage = "abort", !.reason = c] \in Execution
  BY <1>1, ExecutionUpdates
<1>3. QED
  BY <1>2, BecomesType DEF Aborts

LEMMA GoesType ==
  ASSUME TypeOK, NEW r \in Runs, NEW a \in Attempts, NEW s \in Stage, Goes(r, a, s)
  PROVE  ex' \in [Runs -> [Attempts -> Execution]]
<1>1. ex[r][a] \in Execution
  BY DEF TypeOK
<1>2. [ex[r][a] EXCEPT !.stage = s] \in Execution
  BY <1>1, ExecutionUpdates
<1>3. QED
  BY <1>2, BecomesType DEF Goes

LEMMA UnitTypes ==
  ASSUME TypeOK, NEW r \in Runs, NEW a \in Attempts, NEW u \in Units,
         UnitWrite(r, a, u) \/ UnitFails(r, a, u) \/ UnitEmit(r, a, u) \/ GroupSkipped(r, a, Group[u])
  PROVE  TypeOK'
<1>1. ex[r][a] \in Execution /\ ex[r][a].unit \in [Units -> UnitState]
  BY DEF TypeOK, Execution
<1>2. \A s \in UnitState : SetUnit(r, a, u, s) \in Execution
  BY <1>1, ExecutionUpdates DEF SetUnit
<1>3. CASE UnitWrite(r, a, u)
  <2>1. ex' \in [Runs -> [Attempts -> Execution]]
    BY <1>2, <1>3, BecomesType DEF UnitWrite, UnitState
  <2>2. a \in 0..MaxAttempts
    BY DEF Attempts
  <2>3. results' \in [Runs -> [Units -> 0..MaxAttempts]]
    BY <1>3, <2>2, UpsertedType DEF UnitWrite
  <2>4. QED
    BY <1>3, <2>1, <2>3 DEF TypeOK, UnitWrite
<1>4. CASE UnitFails(r, a, u)
  <2>1. ex' \in [Runs -> [Attempts -> Execution]]
    BY <1>2, <1>4, BecomesType DEF UnitFails, UnitState
  <2>2. QED
    BY <1>4, <2>1 DEF TypeOK, UnitFails
<1>5. CASE UnitEmit(r, a, u)
  <2>1. ex' \in [Runs -> [Attempts -> Execution]]
    BY <1>2, <1>5, BecomesType DEF UnitEmit, UnitState
  <2>2. QED
    BY <1>5, <2>1 DEF TypeOK, UnitEmit
<1>6. CASE GroupSkipped(r, a, Group[u])
  <2> DEFINE f == [v \in Units |-> IF Group[v] = Group[u] THEN "skipped" ELSE ex[r][a].unit[v]]
  <2>1. f \in [Units -> UnitState]
    BY <1>1 DEF UnitState
  <2>2. [ex[r][a] EXCEPT !.unit = f] \in Execution
    BY <1>1, <2>1, ExecutionUpdates
  <2>3. Becomes(r, a, [ex[r][a] EXCEPT !.unit = f])
    BY <1>6 DEF GroupSkipped
  <2>4. ex' \in [Runs -> [Attempts -> Execution]]
    BY <2>2, <2>3, BecomesType
  <2>5. QED
    BY <1>6, <2>4 DEF TypeOK, GroupSkipped
<1>7. QED
  BY <1>3, <1>4, <1>5, <1>6

LEMMA EvaluationTypes ==
  ASSUME TypeOK, NEW r \in Runs, NEW a \in Attempts, EvaluationStep(r, a)
  PROVE  TypeOK'
<1> USE DEF Stage, Live, Trying, Handling, Reason
<1>1. CASE FetchFails(r, a)
  BY <1>1, AbortsType DEF TypeOK, FetchFails
<1>2. CASE FetchOk(r, a)
  <2>1. ex' \in [Runs -> [Attempts -> Execution]]
    BY <1>2, AbortsType, GoesType DEF FetchOk
  <2>2. QED
    BY <1>2, <2>1 DEF TypeOK, FetchOk
<1>3. CASE Deadline(r, a)
  BY <1>3, AbortsType DEF TypeOK, Deadline
<1>4. CASE \E u \in Units : \/ UnitWrite(r, a, u) \/ UnitFails(r, a, u)
                             \/ UnitEmit(r, a, u) \/ GroupSkipped(r, a, Group[u])
  BY <1>4, UnitTypes
<1>5. CASE EvalDone(r, a)
  BY <1>5, GoesType DEF TypeOK, EvalDone
<1>6. CASE StoreResults(r, a)
  <2>1. ex' \in [Runs -> [Attempts -> Execution]]
    BY <1>6, GoesType DEF StoreResults
  <2>2. a \in 0..MaxAttempts
    BY DEF Attempts
  <2>3. results' \in [Runs -> [Units -> 0..MaxAttempts]]
    BY <1>6, <2>2, UpsertedType DEF StoreResults
  <2>4. QED
    BY <1>6, <2>1, <2>3 DEF TypeOK, StoreResults
<1>7. CASE EmitFinal(r, a)
  <2>1. ex' \in [Runs -> [Attempts -> Execution]]
    <3>1. ex[r][a] \in Execution
      BY DEF TypeOK
    <3>2. [ex[r][a] EXCEPT !.stage = "commit", !.final = TRUE] \in Execution
      BY <3>1, ExecutionUpdates
    <3>3. QED
      BY <1>7, <3>2, BecomesType DEF EmitFinal
  <2>2. QED
    BY <1>7, <2>1 DEF TypeOK, EmitFinal
<1>8. CASE Commit(r, a)
  BY <1>8, EndsType, OutcomeTypes DEF TypeOK, Commit, LoopState
<1>9. CASE Abort(r, a)
  BY <1>9, GoesType, OutcomeTypes DEF TypeOK, Abort
<1>10. CASE Report(r, a)
  BY <1>10, EndsType DEF TypeOK, Report, LoopState
<1>11. QED
  BY <1>1, <1>2, <1>3, <1>4, <1>5, <1>6, <1>7, <1>8, <1>9, <1>10 DEF EvaluationStep

LEMMA DisturbedTypes ==
  ASSUME TypeOK, NEW r \in Runs, NEW a \in Attempts, DisturbedStep(r, a)
  PROVE  TypeOK'
<1> USE DEF Reason
<1>a. rows \in [Runs -> Row]
  BY DEF TypeOK
<1>b. Aborted(r, a) \in [Runs -> Row] /\ Updated(r, "succeeded", "none", TRUE) \in [Runs -> Row]
  BY OutcomeTypes
<1>0. ASSUME NEW f \in {"db", "stop"}, Spend(f) PROVE budget' \in [Faults -> Nat]
  BY <1>0, SpendType DEF Faults
<1>1. CASE StoreFails(r, a)
  <2>1. ex' \in [Runs -> [Attempts -> Execution]]
    BY <1>1, AbortsType DEF StoreFails
  <2>2. QED
    BY <1>0, <1>1, <2>1 DEF TypeOK, StoreFails
<1>2. CASE CommitFails(r, a)
  <2>1. ex' \in [Runs -> [Attempts -> Execution]]
    BY <1>2, AbortsType DEF CommitFails
  <2>2. rows' \in [Runs -> Row]
    BY <1>a, <1>b, <1>2 DEF CommitFails, MaybeApplied
  <2>3. QED
    BY <1>0, <1>2, <2>1, <2>2 DEF TypeOK, CommitFails
<1>3. CASE AbortFails(r, a)
  <2>1. ex' \in [Runs -> [Attempts -> Execution]]
    BY <1>3, EndsType DEF AbortFails
  <2>2. rows' \in [Runs -> Row]
    BY <1>a, <1>b, <1>3 DEF AbortFails, MaybeApplied
  <2>3. QED
    BY <1>0, <1>3, <2>1, <2>2 DEF TypeOK, AbortFails, LoopState
<1>4. CASE StopTrying(r, a)
  <2>1. ex' \in [Runs -> [Attempts -> Execution]]
    BY <1>4, AbortsType DEF StopTrying
  <2>2. rows' \in [Runs -> Row]
    BY <1>a, <1>b, <1>4 DEF StopTrying, MaybeApplied
  <2>3. QED
    BY <1>0, <1>4, <2>1, <2>2 DEF TypeOK, StopTrying
<1>5. CASE StopHandling(r, a)
  <2>1. ex' \in [Runs -> [Attempts -> Execution]]
    BY <1>5, EndsType DEF StopHandling
  <2>2. rows' \in [Runs -> Row]
    BY <1>a, <1>b, <1>5 DEF StopHandling, MaybeApplied
  <2>3. QED
    BY <1>0, <1>5, <2>1, <2>2 DEF TypeOK, StopHandling, LoopState
<1>6. QED
  BY <1>1, <1>2, <1>3, <1>4, <1>5 DEF DisturbedStep

LEMMA TypeStep == TypeOK /\ [Next]_vars => TypeOK'
<1> SUFFICES ASSUME TypeOK, [Next]_vars PROVE TypeOK'
  OBVIOUS
<1>1. CASE Next
  BY <1>1, ServiceTypes, LoopTypes, HeartbeatTypes, LeaseTypes, EvaluationTypes,
     DisturbedTypes DEF Next
<1>2. CASE UNCHANGED vars
  BY <1>2 DEF TypeOK, vars
<1>3. QED
  BY <1>1, <1>2

LEMMA TypeInit == Init => TypeOK
<1> SUFFICES ASSUME Init PROVE TypeOK
  OBVIOUS
<1>1. 0 \in 0..MaxAttempts
  BY AttemptsAssumption
<1>2. Absent \in Row
  BY <1>1 DEF Absent, Row, Status, Error
<1>3. NoExecution \in Execution
  BY DEF NoExecution, Execution, Stage, Reason, UnitState
<1>4. QED
  BY <1>1, <1>2, <1>3, BudgetAssumption DEF Init, TypeOK, LoopState, RecState

\* Every variable keeps its type; in particular no run is ever claimed more than
\* MaxAttempts times.
THEOREM TypeCorrect == Spec => []TypeOK
<1>1. QED
  BY TypeInit, TypeStep, PTL DEF Spec
-----------------------------------------------------------------------------
(* The inductive invariant ClaimInv.  Only a claim starts an execution; what *)
(* the other steps have in common is that they keep to these three rules.    *)

KeepsRows ==
  \A q \in Runs :
    /\ rows'[q].attempt = rows[q].attempt
    /\ rows[q].status = "absent" => rows'[q] = rows[q]
    /\ rows'[q].status = "absent" => rows[q].status = "absent"
    /\ rows'[q].status = "running" => /\ rows[q].status = "running"
                                      /\ rows'[q].worker = rows[q].worker

KeepsExecutions ==
  \A q \in Runs, b \in Attempts :
    /\ ex'[q][b].worker = ex[q][b].worker
    /\ ex'[q][b].stage = "none" <=> ex[q][b].stage = "none"
    /\ ex'[q][b].stage \in Live => ex[q][b].stage \in Live
    /\ ex'[q][b].hb => ex'[q][b].stage \in Live

KeepsBusy ==
  \A q \in Runs, b \in Attempts :
    ex'[q][b].stage \in Live => loop'[ex[q][b].worker] = "busy"

\* A step that starts nothing keeps ClaimInv.
LEMMA KeepsClaimInv ==
  ASSUME TypeOK, ClaimInv, KeepsRows, KeepsExecutions, KeepsBusy,
         \A r \in Runs : rec'[r] = "none" <=> rec[r] = "none"
  PROVE  ClaimInv'
<1>1. OneExecutionPerWorker'
  BY DEF ClaimInv, OneExecutionPerWorker, KeepsExecutions
<1>2. \A r \in Runs : rows'[r].status = "absent" => rows'[r] = Absent
  BY DEF ClaimInv, KeepsRows
<1>3. \A r \in Runs : rec'[r] = "none" /\ r \in Uploaded => rows'[r].status = "absent"
  BY DEF ClaimInv, KeepsRows
<1>4. \A r \in Runs : rec'[r] # "none" => rows'[r].attempt > 0
  BY DEF ClaimInv, KeepsRows
<1>5. \A r \in Runs : rows'[r].status = "running" =>
        \E a \in Attempts : /\ a = rows'[r].attempt
                            /\ ex'[r][a].stage # "none"
                            /\ ex'[r][a].worker = rows'[r].worker
  BY DEF ClaimInv, KeepsRows, KeepsExecutions
<1>6. \A r \in Runs, a \in Attempts :
        /\ ex'[r][a].stage = "none" => ex'[r][a].worker = Nobody
        /\ ex'[r][a].stage # "none" => a <= rows'[r].attempt
        /\ ex'[r][a].stage \in Live => /\ ex'[r][a].worker \in Workers
                                      /\ loop'[ex'[r][a].worker] = "busy"
        /\ ex'[r][a].hb => ex'[r][a].stage \in Live
  BY DEF ClaimInv, KeepsRows, KeepsExecutions, KeepsBusy
<1>7. \A r \in Runs, a, b \in Attempts :
        a < b /\ ex'[r][a].stage \in Live /\ ex'[r][b].stage # "none"
        => ex'[r][a].worker # ex'[r][b].worker
  BY DEF ClaimInv, KeepsExecutions
<1>8. QED
  BY <1>1, <1>2, <1>3, <1>4, <1>5, <1>6, <1>7 DEF ClaimInv

\* claim_next starts the next attempt on a loop that works on nothing.
LEMMA ClaimStarts ==
  ASSUME TypeOK, ClaimInv, NEW r \in Runs, NEW w \in Workers, NEW stage \in {"fetch", "gone"},
         Claimable(r), loop[w] = "idle", Starts(r, w, stage), rows' = Claimed(r, w),
         \A v \in Workers : loop[v] = "busy" => loop'[v] = "busy",
         stage = "fetch" => loop'[w] = "busy",
         UNCHANGED rec
  PROVE  ClaimInv'
<1> DEFINE n == rows[r].attempt + 1
<1>1. n \in Attempts /\ ex' \in [Runs -> [Attempts -> Execution]]
  BY StartsType
<1>2. /\ ex'[r][n].worker = w
      /\ ex'[r][n].stage = stage
      /\ ex'[r][n].hb => stage = "fetch"
  BY <1>1 DEF TypeOK, Starts, Becomes, NoExecution
<1>3. \A q \in Runs, b \in Attempts : q # r \/ b # n => ex'[q][b] = ex[q][b]
  BY <1>1 DEF TypeOK, Starts, Becomes
<1>4. /\ rows'[r].status = "running"
      /\ rows'[r].attempt = n
      /\ rows'[r].worker = w
  <2>1. rows' = [Swept EXCEPT ![r] = ClaimedRow(r, w)] /\ rows[r] \in Row
    BY DEF Claimed, TypeOK
  <2>2. rows'[r] = ClaimedRow(r, w)
    BY <2>1 DEF Swept
  <2>3. QED
    BY <2>1, <2>2 DEF ClaimedRow, Row
<1>5. \A q \in Runs : q # r =>
        /\ rows'[q].attempt = rows[q].attempt
        /\ rows[q].status = "absent" => rows'[q] = rows[q]
        /\ rows'[q].status = "absent" => rows[q].status = "absent"
        /\ rows'[q].status = "running" => /\ rows[q].status = "running"
                                          /\ rows'[q].worker = rows[q].worker
  <2> SUFFICES ASSUME NEW q \in Runs, q # r
               PROVE  /\ rows'[q].attempt = rows[q].attempt
                      /\ rows[q].status = "absent" => rows'[q] = rows[q]
                      /\ rows'[q].status = "absent" => rows[q].status = "absent"
                      /\ rows'[q].status = "running" => /\ rows[q].status = "running"
                                                        /\ rows'[q].worker = rows[q].worker
    OBVIOUS
  <2>1. rows'[q] = SweptRow(q) /\ rows[q] \in Row
    BY DEF Claimed, Swept, TypeOK
  <2>2. QED
    BY <2>1 DEF SweptRow, Unclaimable, LeaseOver, Row
<1>6. \A b \in Attempts : ex[r][b].stage # "none" => b < n
  BY DEF ClaimInv, TypeOK, Row, Attempts
<1>7. \A q \in Runs, b \in Attempts : ex[q][b].stage \in Live => ex[q][b].worker # w
  BY DEF ClaimInv
<1>8. rows[r].status \in {"queued", "running"} /\ rows[r].attempt \in Nat
  BY DEF Claimable, LeaseOver, TypeOK, Row
<1>9. "gone" \notin Live /\ "none" \notin Live /\ "fetch" \in Live
  BY DEF Live, Trying, Handling
<1>10. OneExecutionPerWorker'
  BY <1>1, <1>2, <1>3, <1>7 DEF ClaimInv, OneExecutionPerWorker
<1>11. \A q \in Runs : rows'[q].status = "absent" => rows'[q] = Absent
  BY <1>4, <1>5 DEF ClaimInv
<1>12. \A q \in Runs : rec'[q] = "none" /\ q \in Uploaded => rows'[q].status = "absent"
  BY <1>5, <1>8 DEF ClaimInv
<1>13. \A q \in Runs : rec'[q] # "none" => rows'[q].attempt > 0
  BY <1>4, <1>5, <1>8 DEF ClaimInv
<1>14. \A q \in Runs : rows'[q].status = "running" =>
         \E a \in Attempts : /\ a = rows'[q].attempt
                             /\ ex'[q][a].stage # "none"
                             /\ ex'[q][a].worker = rows'[q].worker
  BY <1>1, <1>2, <1>3, <1>4, <1>5 DEF ClaimInv
<1>15. \A q \in Runs, a \in Attempts :
         /\ ex'[q][a].stage = "none" => ex'[q][a].worker = Nobody
         /\ ex'[q][a].stage # "none" => a <= rows'[q].attempt
         /\ ex'[q][a].stage \in Live => /\ ex'[q][a].worker \in Workers
                                       /\ loop'[ex'[q][a].worker] = "busy"
         /\ ex'[q][a].hb => ex'[q][a].stage \in Live
  <2> SUFFICES ASSUME NEW q \in Runs, NEW a \in Attempts
               PROVE  /\ ex'[q][a].stage = "none" => ex'[q][a].worker = Nobody
                      /\ ex'[q][a].stage # "none" => a <= rows'[q].attempt
                      /\ ex'[q][a].stage \in Live => /\ ex'[q][a].worker \in Workers
                                                    /\ loop'[ex'[q][a].worker] = "busy"
                      /\ ex'[q][a].hb => ex'[q][a].stage \in Live
    OBVIOUS
  <2>1. CASE q = r /\ a = n
    BY <2>1, <1>2, <1>4, <1>8, <1>9
  <2>2. CASE q = r /\ a # n
    BY <2>2, <1>3, <1>4, <1>6, <1>8 DEF ClaimInv, Attempts
  <2>3. CASE q # r
    BY <2>3, <1>3, <1>5 DEF ClaimInv
  <2>4. QED
    BY <2>1, <2>2, <2>3
<1>16. \A q \in Runs, a, b \in Attempts :
         a < b /\ ex'[q][a].stage \in Live /\ ex'[q][b].stage # "none"
         => ex'[q][a].worker # ex'[q][b].worker
  <2> SUFFICES ASSUME NEW q \in Runs, NEW a \in Attempts, NEW b \in Attempts,
                      a < b, ex'[q][a].stage \in Live, ex'[q][b].stage # "none"
               PROVE  ex'[q][a].worker # ex'[q][b].worker
    OBVIOUS
  <2>1. CASE q = r /\ a = n
    <3>1. ex[r][b].stage # "none"
      BY <2>1, <1>3, <1>8 DEF Attempts
    <3>2. QED
      BY <2>1, <3>1, <1>6, <1>8 DEF Attempts
  <2>2. CASE q = r /\ b = n
    BY <2>2, <1>2, <1>3, <1>7, <1>8 DEF Attempts
  <2>3. CASE q # r \/ (a # n /\ b # n)
    BY <2>3, <1>3 DEF ClaimInv
  <2>4. QED
    BY <2>1, <2>2, <2>3
<1>17. QED
  BY <1>10, <1>11, <1>12, <1>13, <1>14, <1>15, <1>16 DEF ClaimInv

LEMMA UnchangedRowsKeep == ASSUME TypeOK, UNCHANGED rows PROVE KeepsRows
BY DEF KeepsRows

LEMMA UpdatedKeeps ==
  ASSUME TypeOK, ClaimInv, NEW r \in Runs, rows[r].attempt > 0,
         NEW s \in Terminal, NEW e, NEW b,
         rows' = rows \/ rows' = Updated(r, s, e, b)
  PROVE  KeepsRows
<1>1. CASE rows' = rows
  BY <1>1, UnchangedRowsKeep
<1>2. CASE rows' = Updated(r, s, e, b)
  <2>1. rows[r] \in Row /\ rows[r].status # "absent"
    BY DEF TypeOK, ClaimInv, Absent
  <2>2. rows'[r].attempt = rows[r].attempt /\ rows'[r].status = s
    BY <1>2, <2>1 DEF TypeOK, Updated, UpdatedRow, Row
  <2>3. \A q \in Runs : q # r => rows'[q] = rows[q]
    BY <1>2 DEF TypeOK, Updated
  <2>4. s \notin {"absent", "running"}
    BY DEF Terminal
  <2>5. QED
    BY <2>1, <2>2, <2>3, <2>4 DEF KeepsRows
<1>3. QED
  BY <1>1, <1>2

\* What every execution step does to the executions.
LEMMA BecomesKeeps ==
  ASSUME TypeOK, ClaimInv, NEW r \in Runs, NEW a \in Attempts, NEW e,
         Becomes(r, a, e), ex[r][a].stage # "none",
         e.worker = ex[r][a].worker, e.stage # "none",
         e.stage \in Live => ex[r][a].stage \in Live,
         e.hb => e.stage \in Live
  PROVE  KeepsExecutions
BY DEF KeepsExecutions, Becomes, TypeOK, ClaimInv

LEMMA SameLoopKeepsBusy ==
  ASSUME ClaimInv, KeepsExecutions, UNCHANGED loop
  PROVE  KeepsBusy
BY DEF KeepsBusy, KeepsExecutions, ClaimInv

\* The step that ends (r, a) frees its loop, which works on nothing else.
LEMMA EndKeeps ==
  ASSUME TypeOK, ClaimInv, NEW r \in Runs, NEW a \in Attempts,
         ex[r][a].stage \in Live, Ends(r, a), NEW s,
         loop' = [loop EXCEPT ![ex[r][a].worker] = s]
  PROVE  KeepsExecutions /\ KeepsBusy
<1>1. ex[r][a] \in Execution /\ "over" \notin Live /\ "over" # "none"
  BY DEF TypeOK, Live, Trying, Handling
<1>2. ex'[r][a].stage = "over" /\ ex'[r][a].worker = ex[r][a].worker /\ ex'[r][a].hb = FALSE
  BY <1>1 DEF Ends, Becomes, TypeOK, Execution
<1>3. \A q \in Runs, b \in Attempts : q # r \/ b # a => ex'[q][b] = ex[q][b]
  BY DEF Ends, Becomes, TypeOK
<1>4. ex[r][a].stage # "none"
  BY DEF Live, Trying, Handling
<1>5. KeepsExecutions
  BY <1>1, <1>2, <1>3, <1>4 DEF KeepsExecutions, ClaimInv
<1>6. KeepsBusy
  <2> SUFFICES ASSUME NEW q \in Runs, NEW b \in Attempts, ex'[q][b].stage \in Live
               PROVE  loop'[ex[q][b].worker] = "busy"
    BY DEF KeepsBusy
  <2>1. q # r \/ b # a
    BY <1>1, <1>2
  <2>2. ex[q][b].stage \in Live
    BY <1>3, <2>1
  <2>3. ex[q][b].worker # ex[r][a].worker
    BY <2>1, <2>2 DEF ClaimInv, OneExecutionPerWorker
  <2>4. loop[ex[q][b].worker] = "busy" /\ ex[q][b].worker \in Workers
    BY <2>2 DEF ClaimInv
  <2>5. QED
    BY <2>3, <2>4 DEF TypeOK
<1>7. QED
  BY <1>5, <1>6

\* Nothing is executed before it was claimed, so its attempt is counted.
LEMMA StartedIsCounted ==
  ASSUME TypeOK, ClaimInv, NEW r \in Runs, NEW a \in Attempts, ex[r][a].stage # "none"
  PROVE  rows[r].attempt > 0
BY DEF ClaimInv, TypeOK, Row, Attempts

\* An inserted row starts nothing.
LEMMA AppearClaimInv ==
  ASSUME TypeOK, ClaimInv, NEW r \in Runs, rows[r].status = "absent", UNCHANGED <<ex, loop>>,
         NEW row, rows' = [rows EXCEPT ![r] = row],
         row.status = "queued", row.attempt \in Nat,
         \A q \in Runs : q # r => rec'[q] = rec[q],
         rec'[r] # "none" => row.attempt > 0,
         r \in Uploaded => rec'[r] # "none"
  PROVE  ClaimInv'
<1>0. rows[r].attempt = 0
  BY DEF ClaimInv, Absent
<1>1. \A b \in Attempts : ex[r][b].stage = "none"
  BY <1>0, StartedIsCounted
<1>2. \A q \in Runs : q # r => rows'[q] = rows[q]
  BY DEF TypeOK
<1>3. rows'[r] = row
  BY DEF TypeOK
<1>4. OneExecutionPerWorker'
  BY DEF ClaimInv, OneExecutionPerWorker
<1>5. QED
  BY <1>1, <1>2, <1>3, <1>4 DEF ClaimInv

LEMMA ServiceClaimInv ==
  ASSUME TypeOK, ClaimInv, NEW r \in Runs, ServiceStep(r)
  PROVE  ClaimInv'
<1>1. ASSUME UNCHANGED <<ex, loop>> PROVE KeepsExecutions /\ KeepsBusy
  BY <1>1 DEF KeepsExecutions, KeepsBusy, ClaimInv
<1>2. CASE CancelRun(r)
  <2>1. KeepsRows
    BY <1>2 DEF CancelRun, CancelRequested, CancelledRow, Cancellable, KeepsRows, TypeOK, Row
  <2>2. QED
    BY <1>1, <1>2, <2>1, KeepsClaimInv DEF CancelRun
<1>3. CASE RecordCommit(r)
  <2>1. rows[r].attempt > 0
    BY <1>3 DEF RecordCommit, ClaimInv
  <2>2. KeepsRows
    <3>1. PICK t \in {"succeeded", "failed"}, e \in {"none", "error"} :
                 rows' = Updated(r, t, e, TRUE)
      BY <1>3 DEF RecordCommit
    <3>2. t \in Terminal
      BY DEF Terminal
    <3>3. QED
      BY <2>1, <3>1, <3>2, UpdatedKeeps
  <2>3. \A q \in Runs : rec'[q] = "none" <=> rec[q] = "none"
    BY <1>3 DEF RecordCommit, TypeOK
  <2>4. QED
    BY <1>1, <1>3, <2>2, <2>3, KeepsClaimInv DEF RecordCommit
<1>4. CASE RecordStore(r) \/ RecordFails(r)
  <2>1. KeepsRows
    BY <1>4, UnchangedRowsKeep DEF RecordStore, RecordFails
  <2>2. \A q \in Runs : rec'[q] = "none" <=> rec[q] = "none"
    BY <1>4 DEF RecordStore, RecordFails, TypeOK
  <2>3. QED
    BY <1>1, <1>4, <2>1, <2>2, KeepsClaimInv DEF RecordStore, RecordFails
<1>6. CASE Submit(r)
  <2>1. rec[r] = "none"
    BY <1>6 DEF Submit, ClaimInv, Absent
  <2>4. rec' = rec /\ r \notin Uploaded /\ rows[r].status = "absent" /\ UNCHANGED <<ex, loop>>
        /\ rows' = [rows EXCEPT ![r] = Submitted]
    BY <1>6 DEF Submit
  <2>2. Submitted.status = "queued" /\ Submitted.attempt \in Nat
    BY DEF Submitted, Absent
  <2>3. QED
    BY <2>1, <2>2, <2>4, AppearClaimInv, Zenon
<1>7. CASE RecordCreate(r)
  <2>1. rows[r].status = "absent"
    BY <1>7 DEF RecordCreate, ClaimInv
  <2>2. Recorded.status = "queued" /\ Recorded.attempt \in Nat /\ Recorded.attempt > 0
    BY DEF Recorded, Absent
  <2>3. rec'[r] = "created" /\ \A q \in Runs : q # r => rec'[q] = rec[q]
    BY <1>7 DEF RecordCreate, TypeOK
  <2>4. UNCHANGED <<ex, loop>> /\ rows' = [rows EXCEPT ![r] = Recorded]
    BY <1>7 DEF RecordCreate
  <2>5. QED
    BY <2>1, <2>2, <2>3, <2>4, AppearClaimInv, Zenon
<1>8. QED
  BY <1>2, <1>3, <1>4, <1>6, <1>7 DEF ServiceStep

LEMMA LoopClaimInv ==
  ASSUME TypeOK, ClaimInv, NEW w \in Workers, LoopStep(w) \/ DisturbedLoop(w)
  PROVE  ClaimInv'
<1>1. ASSUME NEW r \in Runs, ClaimRun(w, r) PROVE ClaimInv'
  <2>1. loop' = [loop EXCEPT ![w] = "busy"] /\ loop[w] = "idle" /\ Claimable(r)
        /\ Starts(r, w, "fetch") /\ rows' = Claimed(r, w) /\ UNCHANGED rec
    BY <1>1 DEF ClaimRun
  <2>2. loop'[w] = "busy" /\ \A v \in Workers : loop[v] = "busy" => loop'[v] = "busy"
    BY <2>1 DEF TypeOK
  <2>3. QED
    BY <2>1, <2>2, ClaimStarts
<1>2. ASSUME NEW r \in Runs, ClaimLost(w, r) PROVE ClaimInv'
  <2>1. loop[w] = "idle" /\ Claimable(r) /\ Starts(r, w, "gone")
        /\ rows' = Claimed(r, w) /\ UNCHANGED rec
    BY <1>2 DEF ClaimLost
  <2>2. \A v \in Workers : loop[v] = "busy" => loop'[v] = "busy"
    BY <1>2 DEF ClaimLost, TypeOK
  <2>3. QED
    BY <2>1, <2>2, ClaimStarts
<1>3. CASE SweepOnly(w)
  <2>1. KeepsExecutions /\ KeepsBusy
    BY <1>3 DEF SweepOnly, KeepsExecutions, KeepsBusy, ClaimInv
  <2>2. KeepsRows
    <3> SUFFICES ASSUME NEW q \in Runs
                 PROVE  /\ rows'[q].attempt = rows[q].attempt
                        /\ rows[q].status = "absent" => rows'[q] = rows[q]
                        /\ rows'[q].status = "absent" => rows[q].status = "absent"
                        /\ rows'[q].status = "running" => /\ rows[q].status = "running"
                                                          /\ rows'[q].worker = rows[q].worker
      BY DEF KeepsRows
    <3>1. rows'[q] = SweptRow(q) /\ rows[q] \in Row
      BY <1>3 DEF SweepOnly, Swept, TypeOK
    <3>2. QED
      BY <3>1 DEF SweptRow, Unclaimable, LeaseOver, Row
  <2>3. QED
    BY <1>3, <2>1, <2>2, KeepsClaimInv DEF SweepOnly
<1>4. CASE StopIdle(w)
  <2>1. KeepsExecutions
    BY <1>4 DEF StopIdle, KeepsExecutions, ClaimInv
  <2>2. KeepsBusy
    BY <1>4 DEF StopIdle, KeepsBusy, ClaimInv, TypeOK
  <2>3. KeepsRows
    BY <1>4, UnchangedRowsKeep DEF StopIdle
  <2>4. QED
    BY <1>4, <2>1, <2>2, <2>3, KeepsClaimInv DEF StopIdle
<1>5. CASE Crash(w) \/ Restart(w)
  <2>1. /\ ex' = Killed(w)
        /\ \A v \in Workers : v # w => loop'[v] = loop[v]
        /\ UNCHANGED <<rows, rec>>
    BY <1>5 DEF Crash, Restart, TypeOK
  <2>2. \A q \in Runs, b \in Attempts :
          ex'[q][b] = IF ex[q][b].worker = w
                      THEN [ex[q][b] EXCEPT !.stage = "gone", !.hb = FALSE, !.reason = "none"]
                      ELSE ex[q][b]
    BY <2>1 DEF Killed
  <2>3. \A q \in Runs, b \in Attempts : ex[q][b] \in Execution
    BY DEF TypeOK
  <2>4. "gone" \notin Live /\ "gone" # "none"
    BY DEF Live, Trying, Handling
  <2>5. KeepsExecutions
    <3> SUFFICES ASSUME NEW q \in Runs, NEW b \in Attempts
                 PROVE  /\ ex'[q][b].worker = ex[q][b].worker
                        /\ ex'[q][b].stage = "none" <=> ex[q][b].stage = "none"
                        /\ ex'[q][b].stage \in Live => ex[q][b].stage \in Live
                        /\ ex'[q][b].hb => ex'[q][b].stage \in Live
      BY DEF KeepsExecutions
    <3>1. CASE ex[q][b].worker = w
      <4>1. ex'[q][b].worker = w /\ ex'[q][b].stage = "gone" /\ ~ex'[q][b].hb
        BY <2>2, <2>3, <3>1 DEF Execution
      <4>2. ex[q][b].stage # "none"
        BY <3>1, WorkerAssumption DEF ClaimInv
      <4>3. QED
        BY <2>4, <3>1, <4>1, <4>2
    <3>2. CASE ex[q][b].worker # w
      <4>1. ex'[q][b] = ex[q][b]
        BY <2>2, <3>2
      <4>2. ex[q][b].hb => ex[q][b].stage \in Live
        BY DEF ClaimInv
      <4>3. QED
        BY <4>1, <4>2
    <3>3. QED
      BY <3>1, <3>2
  <2>6. KeepsBusy
    <3> SUFFICES ASSUME NEW q \in Runs, NEW b \in Attempts, ex'[q][b].stage \in Live
                 PROVE  loop'[ex[q][b].worker] = "busy"
      BY DEF KeepsBusy
    <3>1. ex[q][b].worker # w
      BY <2>2, <2>3, <2>4 DEF Execution
    <3>2. ex[q][b].stage \in Live
      BY <2>2, <3>1
    <3>3. QED
      BY <2>1, <3>1, <3>2 DEF ClaimInv
  <2>7. KeepsRows
    BY <2>1, UnchangedRowsKeep
  <2>8. QED
    BY <2>1, <2>5, <2>6, <2>7, KeepsClaimInv
<1>6. QED
  BY <1>1, <1>2, <1>3, <1>4, <1>5 DEF LoopStep, DisturbedLoop

LEMMA HeartbeatClaimInv ==
  ASSUME TypeOK, ClaimInv, NEW r \in Runs, NEW a \in Attempts, HeartbeatStep(r, a)
  PROVE  ClaimInv'
<1>0. ex[r][a] \in Execution /\ "none" \notin Live
  BY DEF TypeOK, Live, Trying, Handling
<1>1. CASE HeartbeatOk(r, a)
  <2>1. KeepsRows
    BY <1>1 DEF HeartbeatOk, HoldsLease, Renewed, KeepsRows, TypeOK, Row
  <2>2. KeepsExecutions /\ KeepsBusy
    BY <1>1 DEF HeartbeatOk, KeepsExecutions, KeepsBusy, ClaimInv
  <2>3. QED
    BY <1>1, <2>1, <2>2, KeepsClaimInv DEF HeartbeatOk
<1>2. CASE HeartbeatLost(r, a) \/ HeartbeatError(r, a)
  <2>1. ex[r][a].stage \in Live /\ UNCHANGED <<rows, loop, rec>>
    BY <1>2 DEF HeartbeatLost, HeartbeatError, ClaimInv
  <2>2. PICK e : /\ Becomes(r, a, e)
                 /\ e.worker = ex[r][a].worker
                 /\ e.stage = ex[r][a].stage
                 /\ ~e.hb
    <3>1. CASE HeartbeatLost(r, a)
      <4> DEFINE e == [ex[r][a] EXCEPT !.event = TRUE, !.hb = FALSE]
      <4>1. Becomes(r, a, e) /\ e.worker = ex[r][a].worker /\ e.stage = ex[r][a].stage /\ ~e.hb
        BY <1>0, <3>1 DEF HeartbeatLost, Execution
      <4>2. QED
        BY <4>1
    <3>2. CASE HeartbeatError(r, a)
      <4> DEFINE e == [ex[r][a] EXCEPT !.hb = FALSE]
      <4>1. Becomes(r, a, e) /\ e.worker = ex[r][a].worker /\ e.stage = ex[r][a].stage /\ ~e.hb
        BY <1>0, <3>2 DEF HeartbeatError, Execution
      <4>2. QED
        BY <4>1
    <3>3. QED
      BY <1>2, <3>1, <3>2
  <2>3. KeepsExecutions
    BY <1>0, <2>1, <2>2, BecomesKeeps
  <2>4. KeepsRows /\ KeepsBusy
    BY <2>1, <2>3, UnchangedRowsKeep, SameLoopKeepsBusy
  <2>5. QED
    BY <2>1, <2>3, <2>4, KeepsClaimInv
<1>3. QED
  BY <1>1, <1>2 DEF HeartbeatStep

LEMMA LeaseClaimInv ==
  ASSUME TypeOK, ClaimInv, NEW r \in Runs, LeaseExpires(r)
  PROVE  ClaimInv'
<1>1. KeepsRows
  BY DEF LeaseExpires, KeepsRows, TypeOK, Row
<1>2. KeepsExecutions /\ KeepsBusy
  BY DEF LeaseExpires, KeepsExecutions, KeepsBusy, ClaimInv
<1>3. QED
  BY <1>1, <1>2, KeepsClaimInv DEF LeaseExpires

\* A step within the try block: rows and loops stay, the execution goes on.
LEMMA ProgressClaimInv ==
  ASSUME TypeOK, ClaimInv, NEW r \in Runs, NEW a \in Attempts, KeepsRows,
         ex[r][a].stage \in Live, NEW e, Becomes(r, a, e),
         e.worker = ex[r][a].worker, e.stage \in Live,
         UNCHANGED <<loop, rec>>
  PROVE  ClaimInv'
<1>1. "none" \notin Live
  BY DEF Live, Trying, Handling
<1>2. KeepsExecutions
  BY <1>1, BecomesKeeps
<1>3. KeepsBusy
  BY <1>2, SameLoopKeepsBusy
<1>4. QED
  BY <1>2, <1>3, KeepsClaimInv

LEMMA GoesOnClaimInv ==
  ASSUME TypeOK, ClaimInv, NEW r \in Runs, NEW a \in Attempts, KeepsRows,
         ex[r][a].stage \in Live, UNCHANGED <<loop, rec>>,
         (\E c : Aborts(r, a, c)) \/ (\E s \in Live : Goes(r, a, s))
  PROVE  ClaimInv'
<1>0. ex[r][a] \in Execution /\ "abort" \in Live
  BY DEF TypeOK, Live, Handling
<1>1. ASSUME NEW c, Aborts(r, a, c) PROVE ClaimInv'
  <2> DEFINE e == [ex[r][a] EXCEPT !.stage = "abort", !.reason = c]
  <2>1. Becomes(r, a, e) /\ e.worker = ex[r][a].worker /\ e.stage \in Live
    BY <1>0, <1>1 DEF Aborts, Execution
  <2> HIDE DEF e
  <2>2. QED
    BY <2>1, ProgressClaimInv
<1>2. ASSUME NEW s \in Live, Goes(r, a, s) PROVE ClaimInv'
  <2> DEFINE e == [ex[r][a] EXCEPT !.stage = s]
  <2>1. Becomes(r, a, e) /\ e.worker = ex[r][a].worker /\ e.stage \in Live
    BY <1>0, <1>2 DEF Goes, Execution
  <2> HIDE DEF e
  <2>2. QED
    BY <2>1, ProgressClaimInv
<1>3. QED
  BY <1>1, <1>2

LEMMA EndsClaimInv ==
  ASSUME TypeOK, ClaimInv, NEW r \in Runs, NEW a \in Attempts, KeepsRows,
         ex[r][a].stage \in Live, Ends(r, a), NEW s,
         loop' = [loop EXCEPT ![ex[r][a].worker] = s], UNCHANGED rec
  PROVE  ClaimInv'
BY EndKeeps, KeepsClaimInv

\* Evaluators only change their own state, detached ones included.
LEMMA UnitClaimInv ==
  ASSUME TypeOK, ClaimInv, NEW r \in Runs, NEW a \in Attempts, NEW u \in Units,
         UnitWrite(r, a, u) \/ UnitFails(r, a, u) \/ UnitEmit(r, a, u) \/ GroupSkipped(r, a, Group[u])
  PROVE  ClaimInv'
<1>1. ex[r][a] \in Execution
  BY DEF TypeOK
<1>2. PICK f : Becomes(r, a, [ex[r][a] EXCEPT !.unit = f])
  <2>1. CASE GroupSkipped(r, a, Group[u])
    BY <2>1 DEF GroupSkipped
  <2>2. CASE UnitWrite(r, a, u) \/ UnitFails(r, a, u) \/ UnitEmit(r, a, u)
    <3>1. PICK s : Becomes(r, a, SetUnit(r, a, u, s))
      BY <2>2 DEF UnitWrite, UnitFails, UnitEmit
    <3>2. SetUnit(r, a, u, s) = [ex[r][a] EXCEPT !.unit = [ex[r][a].unit EXCEPT ![u] = s]]
      BY <1>1 DEF SetUnit, Execution
    <3>3. QED
      BY <3>1, <3>2
  <2>3. QED
    BY <2>1, <2>2
<1>3. UNCHANGED <<rows, loop, rec>>
  BY DEF UnitWrite, UnitFails, UnitEmit, GroupSkipped
<1> DEFINE e == [ex[r][a] EXCEPT !.unit = f]
<1>4. /\ Becomes(r, a, e)
      /\ e.worker = ex[r][a].worker
      /\ e.stage = ex[r][a].stage
      /\ e.hb = ex[r][a].hb
  BY <1>1, <1>2 DEF Execution
<1> HIDE DEF e
<1>5. ex[r][a].hb => ex[r][a].stage \in Live
  BY DEF ClaimInv
<1>6. KeepsExecutions
  <2>1. /\ ex'[r][a] = e
        /\ \A q \in Runs, b \in Attempts : q # r \/ b # a => ex'[q][b] = ex[q][b]
    BY <1>4 DEF Becomes, TypeOK
  <2>2. QED
    BY <1>4, <2>1 DEF KeepsExecutions, ClaimInv
<1>7. KeepsRows /\ KeepsBusy
  BY <1>3, <1>6, UnchangedRowsKeep, SameLoopKeepsBusy
<1>8. QED
  BY <1>3, <1>6, <1>7, KeepsClaimInv

\* The outcome of an execution may be written, since its run was claimed.
LEMMA OutcomeKeeps ==
  ASSUME TypeOK, ClaimInv, NEW r \in Runs, NEW a \in Attempts, ex[r][a].stage \in Live,
         \/ rows' = rows
         \/ rows' = Updated(r, "succeeded", "none", TRUE)
         \/ rows' = Aborted(r, a)
  PROVE  KeepsRows
<1>1. rows[r].attempt > 0
  BY StartedIsCounted DEF Live, Trying, Handling
<1>2. PICK s \in Terminal, e \in Error, b \in BOOLEAN :
             rows' = rows \/ rows' = Updated(r, s, e, b)
  <2>1. /\ Outcome(ex[r][a].reason) \in Terminal /\ ex[r][a].reason \in Error
        /\ "succeeded" \in Terminal /\ "none" \in Error
    BY DEF Outcome, Terminal, TypeOK, Execution, Reason, Error
  <2>2. QED
    BY <2>1 DEF Aborted
<1>3. QED
  BY <1>1, <1>2, UpdatedKeeps

LEMMA EvaluationClaimInv ==
  ASSUME TypeOK, ClaimInv, NEW r \in Runs, NEW a \in Attempts, EvaluationStep(r, a)
  PROVE  ClaimInv'
<1>0. ex[r][a] \in Execution
  BY DEF TypeOK
<1> USE DEF At
<1>1. CASE FetchFails(r, a) \/ FetchOk(r, a) \/ Deadline(r, a) \/ EvalDone(r, a) \/ StoreResults(r, a)
  <2>1. ex[r][a].stage \in Live /\ UNCHANGED <<rows, loop, rec>>
    BY <1>1 DEF FetchFails, FetchOk, Deadline, EvalDone, StoreResults, Live, Trying
  <2>2. (\E c : Aborts(r, a, c)) \/ (\E s \in Live : Goes(r, a, s))
    BY <1>1 DEF FetchFails, FetchOk, Deadline, EvalDone, StoreResults, Live, Trying
  <2>3. KeepsRows
    BY <2>1, UnchangedRowsKeep
  <2>4. QED
    BY <2>1, <2>2, <2>3, GoesOnClaimInv
<1>2. CASE \E u \in Units : \/ UnitWrite(r, a, u) \/ UnitFails(r, a, u)
                             \/ UnitEmit(r, a, u) \/ GroupSkipped(r, a, Group[u])
  BY <1>2, UnitClaimInv
<1>3. CASE EmitFinal(r, a)
  <2> DEFINE e == [ex[r][a] EXCEPT !.stage = "commit", !.final = TRUE]
  <2>1. Becomes(r, a, e) /\ e.worker = ex[r][a].worker /\ e.stage \in Live
    BY <1>0, <1>3 DEF EmitFinal, Execution, Live, Trying
  <2>2. ex[r][a].stage \in Live /\ UNCHANGED <<rows, loop, rec>>
    BY <1>3 DEF EmitFinal, Live, Trying
  <2> HIDE DEF e
  <2>3. KeepsRows
    BY <2>2, UnchangedRowsKeep
  <2>4. QED
    BY <2>1, <2>2, <2>3, ProgressClaimInv
<1>4. CASE Commit(r, a)
  <2>1. ex[r][a].stage \in Live
    BY <1>4 DEF Commit, Live, Trying
  <2>2. KeepsRows
    BY <1>4, <2>1, OutcomeKeeps DEF Commit
  <2>3. QED
    BY <1>4, <2>1, <2>2, EndsClaimInv DEF Commit
<1>5. CASE Abort(r, a)
  <2>1. ex[r][a].stage \in Live /\ "report" \in Live
    BY <1>5 DEF Abort, Live, Handling
  <2>2. KeepsRows
    BY <1>5, <2>1, OutcomeKeeps DEF Abort
  <2>3. QED
    BY <1>5, <2>1, <2>2, GoesOnClaimInv DEF Abort
<1>6. CASE Report(r, a)
  <2>1. ex[r][a].stage \in Live
    BY <1>6 DEF Report, Live, Handling
  <2>2. KeepsRows
    BY <1>6, UnchangedRowsKeep DEF Report
  <2>3. QED
    BY <1>6, <2>1, <2>2, EndsClaimInv DEF Report
<1>7. QED
  BY <1>1, <1>2, <1>3, <1>4, <1>5, <1>6 DEF EvaluationStep

LEMMA DisturbedClaimInv ==
  ASSUME TypeOK, ClaimInv, NEW r \in Runs, NEW a \in Attempts, DisturbedStep(r, a)
  PROVE  ClaimInv'
<1>1. ex[r][a].stage \in Live
  BY DEF DisturbedStep, StoreFails, CommitFails, AbortFails, StopTrying, StopHandling,
         At, Live, Trying, Handling
<1>2. \/ rows' = rows
      \/ rows' = Updated(r, "succeeded", "none", TRUE)
      \/ rows' = Aborted(r, a)
  BY DEF DisturbedStep, StoreFails, CommitFails, AbortFails, StopTrying, StopHandling,
         MaybeApplied
<1>3. KeepsRows
  BY <1>1, <1>2, OutcomeKeeps
<1>4. CASE StoreFails(r, a) \/ CommitFails(r, a) \/ StopTrying(r, a)
  <2>1. (\E c : Aborts(r, a, c)) /\ UNCHANGED <<loop, rec>>
    BY <1>4 DEF StoreFails, CommitFails, StopTrying
  <2>2. QED
    BY <1>1, <1>3, <2>1, GoesOnClaimInv
<1>5. CASE AbortFails(r, a)
  BY <1>1, <1>3, <1>5, EndsClaimInv DEF AbortFails
<1>6. CASE StopHandling(r, a)
  BY <1>1, <1>3, <1>6, EndsClaimInv DEF StopHandling
<1>7. QED
  BY <1>4, <1>5, <1>6 DEF DisturbedStep

LEMMA ClaimStep == TypeOK /\ ClaimInv /\ [Next]_vars => ClaimInv'
<1> SUFFICES ASSUME TypeOK, ClaimInv, [Next]_vars PROVE ClaimInv'
  OBVIOUS
<1>1. CASE Next
  BY <1>1, ServiceClaimInv, LoopClaimInv, HeartbeatClaimInv, LeaseClaimInv,
     EvaluationClaimInv, DisturbedClaimInv DEF Next
<1>2. CASE UNCHANGED vars
  BY <1>2 DEF ClaimInv, OneExecutionPerWorker, vars
<1>3. QED
  BY <1>1, <1>2

LEMMA ClaimInit == Init => ClaimInv
BY DEF Init, ClaimInv, OneExecutionPerWorker, Absent, NoExecution, Live, Trying, Handling

\* Claims and attempts are consistent, whatever fails.
THEOREM ClaimsConsistent == Spec => []ClaimInv
<1>1. QED
  BY TypeInit, TypeStep, ClaimInit, ClaimStep, PTL DEF Spec

\* A worker id names at most one execution at any time.
THEOREM WorkersExclusive == Spec => []OneExecutionPerWorker
<1>1. ClaimInv => OneExecutionPerWorker
  BY DEF ClaimInv
<1>2. QED
  BY <1>1, ClaimsConsistent, PTL

\* Only the newest attempt's heartbeat can extend the lease of a run.
THEOREM LeaseOfNewest == Spec => []LeaseHolderIsNewest
<1>1. TypeOK /\ ClaimInv => LeaseHolderIsNewest
  <2> SUFFICES ASSUME TypeOK, ClaimInv, NEW r \in Runs, NEW a \in Attempts,
                      ex[r][a].hb, HoldsLease(r, ex[r][a].worker)
               PROVE  a = rows[r].attempt
    BY DEF LeaseHolderIsNewest
  <2>1. ex[r][a].stage \in Live /\ ex[r][a].stage # "none"
    BY DEF ClaimInv, Live, Trying, Handling
  <2>2. PICK n \in Attempts : /\ n = rows[r].attempt
                              /\ ex[r][n].stage # "none"
                              /\ ex[r][n].worker = rows[r].worker
    BY DEF ClaimInv, HoldsLease
  <2>3. a <= n
    BY <2>1, <2>2 DEF ClaimInv
  <2>4. ~(a < n)
    BY <2>1, <2>2 DEF ClaimInv, HoldsLease
  <2>5. QED
    BY <2>2, <2>3, <2>4 DEF Attempts
<1>2. QED
  BY <1>1, TypeCorrect, ClaimsConsistent, PTL
-----------------------------------------------------------------------------
(* What the statements of the repository can do to the table.                *)

RowStep ==
  \/ UNCHANGED rows
  \/ \E r \in Runs \ Uploaded : /\ rows[r].status = "absent"
                               /\ rows' = [rows EXCEPT ![r] = Submitted]
  \/ \E r \in Uploaded : /\ rows[r].status = "absent"
                         /\ rows' = [rows EXCEPT ![r] = Recorded]
  \/ \E r \in Runs, w \in Workers : Claimable(r) /\ rows' = Claimed(r, w)
  \/ rows' = Swept
  \/ \E r \in Runs, s \in Terminal, e \in Error, b \in BOOLEAN :
       rows[r].attempt > 0 /\ rows' = Updated(r, s, e, b)
  \/ \E r \in Runs : Cancellable(r) /\ rows' = CancelRequested(r)
  \/ \E r \in Runs, l \in {"live", "expired"} : rows' = [rows EXCEPT ![r].lease = l]

LEMMA OutcomeRowStep ==
  ASSUME TypeOK, ClaimInv, NEW r \in Runs, NEW a \in Attempts, ex[r][a].stage \in Live,
         \/ rows' = rows
         \/ rows' = Updated(r, "succeeded", "none", TRUE)
         \/ rows' = Aborted(r, a)
  PROVE  RowStep
<1>1. rows[r].attempt > 0
  BY StartedIsCounted DEF Live, Trying, Handling
<1>2. ex[r][a].reason \in Error /\ Outcome(ex[r][a].reason) \in Terminal
  BY DEF TypeOK, Execution, Reason, Error, Outcome, Terminal
<1>3. "succeeded" \in Terminal /\ "none" \in Error /\ TRUE \in BOOLEAN /\ FALSE \in BOOLEAN
  BY DEF Terminal, Error
<1>4. CASE rows' = rows
  BY <1>4 DEF RowStep
<1>5. CASE rows' = Updated(r, "succeeded", "none", TRUE)
  BY <1>1, <1>3, <1>5 DEF RowStep
<1>6. CASE rows' = Aborted(r, a)
  BY <1>1, <1>2, <1>3, <1>6 DEF RowStep, Aborted
<1>7. QED
  BY <1>4, <1>5, <1>6

LEMMA ServiceRowStep ==
  ASSUME TypeOK, ClaimInv, NEW r \in Runs, ServiceStep(r)
  PROVE  RowStep
<1>1. CASE Submit(r)
  BY <1>1 DEF Submit, RowStep
<1>2. CASE CancelRun(r)
  BY <1>2 DEF CancelRun, RowStep
<1>3. CASE RecordCreate(r)
  BY <1>3 DEF RecordCreate, RowStep, ClaimInv
<1>4. CASE RecordStore(r) \/ RecordFails(r)
  BY <1>4 DEF RecordStore, RecordFails, RowStep
<1>5. CASE RecordCommit(r)
  <2>1. PICK s \in {"succeeded", "failed"}, e \in {"none", "error"} : rows' = Updated(r, s, e, TRUE)
    BY <1>5 DEF RecordCommit
  <2>2. s \in Terminal /\ e \in Error /\ TRUE \in BOOLEAN
    BY DEF Terminal, Error
  <2>3. rows[r].attempt > 0
    BY <1>5 DEF RecordCommit, ClaimInv
  <2>4. QED
    BY <2>1, <2>2, <2>3 DEF RowStep
<1>6. QED
  BY <1>1, <1>2, <1>3, <1>4, <1>5 DEF ServiceStep

LEMMA EveryRowStep ==
  ASSUME TypeOK, ClaimInv, [Next]_vars
  PROVE  RowStep
<1>1. ASSUME NEW r \in Runs, NEW a \in Attempts, EvaluationStep(r, a) PROVE RowStep
  <2>1. CASE Commit(r, a) \/ Abort(r, a)
    <3>1. ex[r][a].stage \in Live
      BY <2>1 DEF Commit, Abort, At, Live, Trying, Handling
    <3>2. QED
      BY <2>1, <3>1, OutcomeRowStep DEF Commit, Abort
  <2>2. CASE UNCHANGED rows
    BY <2>2 DEF RowStep
  <2>3. QED
    BY <1>1, <2>1, <2>2 DEF EvaluationStep, FetchFails, FetchOk, Deadline, UnitWrite, UnitFails,
       UnitEmit, GroupSkipped, EvalDone, StoreResults, EmitFinal, Report
<1>2. ASSUME NEW r \in Runs, NEW a \in Attempts, DisturbedStep(r, a) PROVE RowStep
  <2>1. ex[r][a].stage \in Live
    BY <1>2 DEF DisturbedStep, StoreFails, CommitFails, AbortFails, StopTrying, StopHandling,
       At, Live, Trying, Handling
  <2>2. \/ rows' = rows
        \/ rows' = Updated(r, "succeeded", "none", TRUE)
        \/ rows' = Aborted(r, a)
    BY <1>2 DEF DisturbedStep, StoreFails, CommitFails, AbortFails, StopTrying, StopHandling,
       MaybeApplied
  <2>3. QED
    BY <2>1, <2>2, OutcomeRowStep
<1>3. ASSUME NEW r \in Runs, NEW a \in Attempts, HeartbeatStep(r, a) PROVE RowStep
  BY <1>3 DEF HeartbeatStep, HeartbeatOk, HeartbeatLost, HeartbeatError, Renewed, RowStep
<1>4. ASSUME NEW r \in Runs, LeaseExpires(r) PROVE RowStep
  BY <1>4 DEF LeaseExpires, RowStep
<1>5. ASSUME NEW w \in Workers, LoopStep(w) \/ DisturbedLoop(w) PROVE RowStep
  BY <1>5 DEF LoopStep, DisturbedLoop, ClaimRun, ClaimLost, SweepOnly, StopIdle, Crash, Restart,
     RowStep
<1>6. CASE UNCHANGED vars
  BY <1>6 DEF vars, RowStep
<1>7. QED
  BY <1>1, <1>2, <1>3, <1>4, <1>5, <1>6, ServiceRowStep DEF Next


\* What each of them does to a single row.
LEMMA RowFacts ==
  ASSUME TypeOK, ClaimInv, RowStep, NEW r \in Runs
  PROVE  /\ rows[r].status \in Terminal => rows'[r].status \in Terminal
         /\ rows[r].cancel => rows'[r].attempt = rows[r].attempt
<1>0. rows[r] \in Row
  BY DEF TypeOK
<1> USE DEF Terminal
<1>1. CASE UNCHANGED rows
  BY <1>1
<1>2. CASE \E q \in Runs : /\ rows[q].status = "absent"
                           /\ \E row : rows' = [rows EXCEPT ![q] = row]
  BY <1>2 DEF TypeOK, ClaimInv, Absent
<1>3. ASSUME NEW q \in Runs, NEW w \in Workers, Claimable(q), rows' = Claimed(q, w)
      PROVE  /\ rows[r].status \in Terminal => rows'[r].status \in Terminal
             /\ rows[r].cancel => rows'[r].attempt = rows[r].attempt
  <2>1. rows'[r] = IF r = q THEN ClaimedRow(q, w) ELSE SweptRow(r)
    BY <1>3 DEF Claimed, Swept
  <2>2. CASE r = q
    BY <1>3, <2>2 DEF Claimable, LeaseOver
  <2>3. CASE r # q
    BY <1>0, <2>1, <2>3 DEF SweptRow, Unclaimable, LeaseOver, Row
  <2>4. QED
    BY <2>2, <2>3
<1>4. CASE rows' = Swept
  <2>1. rows'[r] = SweptRow(r)
    BY <1>4 DEF Swept
  <2>2. QED
    BY <1>0, <2>1 DEF SweptRow, Unclaimable, LeaseOver, Row
<1>5. ASSUME NEW q \in Runs, NEW s \in Terminal, NEW e, NEW b, rows' = Updated(q, s, e, b)
      PROVE  /\ rows[r].status \in Terminal => rows'[r].status \in Terminal
             /\ rows[r].cancel => rows'[r].attempt = rows[r].attempt
  BY <1>0, <1>5 DEF TypeOK, Updated, UpdatedRow, Row
<1>6. ASSUME NEW q \in Runs, rows' = CancelRequested(q)
      PROVE  /\ rows[r].status \in Terminal => rows'[r].status \in Terminal
             /\ rows[r].cancel => rows'[r].attempt = rows[r].attempt
  BY <1>0, <1>6 DEF TypeOK, CancelRequested, CancelledRow, Row
<1>7. ASSUME NEW q \in Runs, NEW l, rows' = [rows EXCEPT ![q].lease = l]
      PROVE  /\ rows[r].status \in Terminal => rows'[r].status \in Terminal
             /\ rows[r].cancel => rows'[r].attempt = rows[r].attempt
  BY <1>0, <1>7 DEF TypeOK, Row
<1>8. QED
  BY <1>1, <1>2, <1>3, <1>4, <1>5, <1>6, <1>7, UploadedAssumption DEF RowStep

\* A finished run is finished for good, whichever worker believes otherwise.
THEOREM FinishedForGood == Spec => FinishedStaysFinished
<1>1. TypeOK /\ ClaimInv /\ [Next]_vars =>
        [\A r \in Runs : rows[r].status \in Terminal => rows'[r].status \in Terminal]_vars
  BY EveryRowStep, RowFacts
<1>2. QED
  BY <1>1, TypeCorrect, ClaimsConsistent, PTL DEF Spec, FinishedStaysFinished

\* A cancelled run is never started again.
THEOREM CancelStopsRetries == Spec => NoAttemptAfterCancel
<1>1. TypeOK /\ ClaimInv /\ [Next]_vars =>
        [\A r \in Runs : rows[r].cancel => rows'[r].attempt = rows[r].attempt]_vars
  BY EveryRowStep, RowFacts
<1>2. QED
  BY <1>1, TypeCorrect, ClaimsConsistent, PTL DEF Spec, NoAttemptAfterCancel
-----------------------------------------------------------------------------
(* RunWorker implements RunLifecycle: each statement is a lifecycle step.    *)

status == [r \in Runs |-> rows[r].status]
attempt == [r \in Runs |-> rows[r].attempt]
cancel == [r \in Runs |-> rows[r].cancel]

LEMMA LifecycleStep ==
  ASSUME TypeOK, ClaimInv, RowStep
  PROVE  [Lifecycle!Next]_(Lifecycle!lifecycle)
<1> USE DEF status, attempt, cancel
<1>0. \A r \in Runs : rows[r] \in Row
  BY DEF TypeOK
<1>1. CASE UNCHANGED rows
  BY <1>1 DEF Lifecycle!lifecycle
<1>2. ASSUME NEW r \in Runs, rows[r].status = "absent",
             \/ r \notin Uploaded /\ rows' = [rows EXCEPT ![r] = Submitted]
             \/ r \in Uploaded /\ rows' = [rows EXCEPT ![r] = Recorded]
      PROVE  Lifecycle!Appear(r)
  <2>1. rows[r] = Absent
    BY <1>2 DEF ClaimInv
  <2>2. /\ rows'[r].status = "queued"
        /\ rows'[r].attempt = IF r \in Uploaded THEN 1 ELSE 0
        /\ rows'[r].cancel = FALSE
        /\ \A q \in Runs : q # r => rows'[q] = rows[q]
    BY <1>2 DEF TypeOK, Submitted, Recorded, Absent
  <2>3. status' = [status EXCEPT ![r] = "queued"]
    BY <2>2
  <2>4. attempt' = IF r \in Uploaded THEN [attempt EXCEPT ![r] = 1] ELSE attempt
    BY <2>1, <2>2 DEF Absent
  <2>5. cancel' = cancel
    <3>1. rows[r].cancel = FALSE
      BY <2>1 DEF Absent
    <3>2. \A q \in Runs : rows'[q].cancel = rows[q].cancel
      BY <2>2, <3>1
    <3>3. QED
      BY <3>2
  <2>6. QED
    BY <1>2, <2>3, <2>4, <2>5 DEF Lifecycle!Appear
<1> DEFINE swept == {q \in Runs : Unclaimable(q)}
<1>3. /\ swept \in SUBSET {q \in Runs : Lifecycle!Overdue(q)}
      /\ \A q \in Runs : /\ SweptRow(q).status = Lifecycle!GivenUp(swept)[q]
                          /\ SweptRow(q).attempt = rows[q].attempt
                          /\ SweptRow(q).cancel = rows[q].cancel
  <2>1. ASSUME NEW q \in swept PROVE Lifecycle!Overdue(q)
    BY <1>0 DEF Unclaimable, LeaseOver, Lifecycle!Overdue, Row
  <2>2. ASSUME NEW q \in Runs
        PROVE  /\ SweptRow(q).status = Lifecycle!GivenUp(swept)[q]
               /\ SweptRow(q).attempt = rows[q].attempt
               /\ SweptRow(q).cancel = rows[q].cancel
    BY <1>0 DEF SweptRow, Lifecycle!GivenUp, Row
  <2>3. QED
    BY <2>1, <2>2
<1> HIDE DEF swept
<1>4. ASSUME NEW r \in Runs, NEW w \in Workers, Claimable(r), rows' = Claimed(r, w)
      PROVE  Lifecycle!Start(r)
  <2>1. \A q \in Runs : rows'[q] = IF q = r THEN ClaimedRow(r, w) ELSE SweptRow(q)
    BY <1>4 DEF Claimed, Swept
  <2>2. /\ rows'[r].status = "running"
        /\ rows'[r].attempt = rows[r].attempt + 1
        /\ rows'[r].cancel = rows[r].cancel
    BY <1>0, <2>1 DEF ClaimedRow, Row
  <2>3. status' = [Lifecycle!GivenUp(swept) EXCEPT ![r] = "running"]
    BY <1>3, <2>1, <2>2 DEF Lifecycle!GivenUp
  <2>4. attempt' = [attempt EXCEPT ![r] = @ + 1]
    BY <1>3, <2>1, <2>2
  <2>5. cancel' = cancel
    BY <1>3, <2>1, <2>2
  <2>6. /\ rows[r].status \in {"queued", "running"}
        /\ ~rows[r].cancel
        /\ rows[r].attempt < MaxAttempts
    BY <1>4 DEF Claimable, LeaseOver
  <2>7. QED
    BY <1>3, <2>3, <2>4, <2>5, <2>6 DEF Lifecycle!Start
<1>5. CASE rows' = Swept
  <2>1. \A q \in Runs : rows'[q] = SweptRow(q)
    BY <1>5 DEF Swept
  <2>2. status' = Lifecycle!GivenUp(swept) /\ attempt' = attempt /\ cancel' = cancel
    BY <1>3, <2>1 DEF Lifecycle!GivenUp
  <2>3. Lifecycle!GiveUp
    BY <1>3, <2>2 DEF Lifecycle!GiveUp
  <2>4. QED
    BY <2>3 DEF Lifecycle!Next
<1>6. ASSUME NEW r \in Runs, NEW s \in Terminal, NEW e, NEW b,
             rows[r].attempt > 0, rows' = Updated(r, s, e, b)
      PROVE  Lifecycle!Finish(r, s)
  <2>1. /\ rows'[r].status = s
        /\ rows'[r].attempt = rows[r].attempt
        /\ rows'[r].cancel = rows[r].cancel
        /\ \A q \in Runs : q # r => rows'[q] = rows[q]
    BY <1>0, <1>6 DEF TypeOK, Updated, UpdatedRow, Row
  <2>2. status' = [status EXCEPT ![r] = s] /\ attempt' = attempt /\ cancel' = cancel
    BY <2>1
  <2>3. QED
    BY <1>6, <2>2 DEF Lifecycle!Finish
<1>7. ASSUME NEW r \in Runs, Cancellable(r), rows' = CancelRequested(r)
      PROVE  Lifecycle!Cancel(r)
  <2>1. /\ rows'[r].status = IF rows[r].status = "queued" THEN "cancelled" ELSE rows[r].status
        /\ rows'[r].attempt = rows[r].attempt
        /\ rows'[r].cancel = TRUE
        /\ \A q \in Runs : q # r => rows'[q] = rows[q]
    BY <1>0, <1>7 DEF TypeOK, CancelRequested, CancelledRow, Row
  <2>2. /\ status' = [status EXCEPT ![r] = IF @ = "queued" THEN "cancelled" ELSE @]
        /\ attempt' = attempt
        /\ cancel' = [cancel EXCEPT ![r] = TRUE]
    BY <2>1
  <2>3. QED
    BY <1>7, <2>2 DEF Lifecycle!Cancel, Cancellable
<1>8. ASSUME NEW r \in Runs, NEW l, rows' = [rows EXCEPT ![r].lease = l]
      PROVE  UNCHANGED Lifecycle!lifecycle
  <2>1. \A q \in Runs : /\ rows'[q].status = rows[q].status
                        /\ rows'[q].attempt = rows[q].attempt
                        /\ rows'[q].cancel = rows[q].cancel
    BY <1>0, <1>8 DEF TypeOK, Row
  <2>2. QED
    BY <2>1 DEF Lifecycle!lifecycle
<1>9. Terminal = Lifecycle!Finished
  BY DEF Terminal, Lifecycle!Finished
<1>10. QED
  BY <1>1, <1>2, <1>4, <1>5, <1>6, <1>7, <1>8, <1>9, UploadedAssumption
     DEF RowStep, Lifecycle!Next

\* Whatever fails, a client sees a run move through its lifecycle and no other way.
THEOREM LifecycleImplemented == Spec => ImplementsLifecycle
<1>1. Init => Lifecycle!Init
  BY DEF Init, Lifecycle!Init, Absent
<1>2. TypeOK /\ ClaimInv /\ [Next]_vars => [Lifecycle!Next]_(Lifecycle!lifecycle)
  BY EveryRowStep, LifecycleStep
<1>3. QED
  BY <1>1, <1>2, TypeCorrect, ClaimsConsistent, PTL DEF Spec, ImplementsLifecycle, Lifecycle!Spec
=============================================================================
