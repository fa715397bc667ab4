--------------------------- MODULE MarkersProofs ---------------------------
(***************************************************************************)
(* What a marker of the server says is so, proved for every number of      *)
(* processes, migrations, evaluations, loops and runs: a clean migration   *)
(* row tells the schema, an environment with its hash file is built, a     *)
(* healthy API has what it needs, and the row of an accepted or succeeded  *)
(* run has what was promised.  Of the routes on live sessions the module   *)
(* has the invariant, which StreamProofs uses.                             *)
(*                                                                         *)
(* The parts share no variable, so each has an inductive invariant of its  *)
(* own; the last section puts them together.                               *)
(***************************************************************************)
EXTENDS Services, FiniteSetTheorems, SequenceTheorems, WellFoundedInduction, TLAPS

-----------------------------------------------------------------------------
(* Migrator.                                                               *)

Stages == {"idle", "lock", "read", "delete", "insert", "apply", "unlock"}
Call == [op : {"none", "up", "down", "force"}, at : Stages, version : Int, last : Int]

\* A process that applies or rolls back.
Migrates(p) == call[p].op \in {"up", "down"}

\* Whoever is past "lock" holds the lock; force never asks for it.
LockDiscipline ==
  /\ lock \in Procs \union {None}
  /\ call \in [Procs -> Call]
  /\ \A p \in Procs :
       /\ call[p].at = "idle" <=> call[p].op = "none"
       /\ call[p].at \in {"lock", "read", "apply"} => Migrates(p)
       /\ Migrates(p) /\ call[p].at # "lock" => lock = p

\* Calls work on migrations there are.
WorkTyped ==
  /\ rows \subseteq Row /\ schema \subseteq Versions
  /\ \A p \in Procs : call[p].at \in {"delete", "insert", "apply"} =>
       /\ call[p].version \in Versions
       /\ call[p].op = "up" => call[p].last = Latest
       /\ call[p].op = "down" => 1 <= call[p].last /\ call[p].last <= call[p].version

\* The schema is at k: what rows and calls may look like then.
RowsFit(k) ==
  /\ table \in BOOLEAN
  /\ rows \subseteq Row
  /\ \A r, s \in rows : r = s
  /\ \A r \in rows : ~r.dirty => r.version = k
  /\ rows # {} => table
  /\ rows = {} => k = 0 \/ \E p \in Procs : call[p].at = "insert"

\* Who works migrations off goes up from k or down from k; the row is away between
\* DELETE and INSERT.
MigrationFits(p, k) ==
  Migrates(p) /\ call[p].at \in {"delete", "insert", "apply"} =>
    /\ table
    /\ IF call[p].op = "up" THEN /\ call[p].version = k + 1 /\ call[p].last = Latest
                                 /\ k + 1 <= Latest
       ELSE call[p].version = k /\ 1 <= call[p].last /\ call[p].last <= k
    /\ call[p].at = "insert" => rows = {}

\* Several forces may work at once: they all found the same schema.
ForceFits(p, k) ==
  call[p].op = "force" =>
    /\ lock = None /\ table /\ 1 <= k /\ call[p].version = k
    /\ call[p].at = "insert" => \A r \in rows : ~r.dirty

SchemaAt(k) ==
  /\ k \in 0 .. Latest /\ schema = 1 .. k
  /\ RowsFit(k)
  /\ \A p \in Procs : MigrationFits(p, k) /\ ForceFits(p, k)

\* Type correctness of the flags, the discipline of the lock and, while neither
\* exception has happened, what the tables say.
MigratorInv ==
  /\ rowLost \in BOOLEAN /\ overlap \in BOOLEAN
  /\ LockDiscipline /\ WorkTyped
  /\ (~rowLost /\ ~overlap) => \E k \in 0 .. Latest : SchemaAt(k)

-----------------------------------------------------------------------------
(* Evaluators.                                                             *)

ThreadStages == {"none", "check", "create", "install", "mark", "done", "failed"}
Interpreters == {"server", "venv"}

Evaluation == [at : {"new", "index", "download", "requirements", "environment",
                      "waiting", "running", "over"}, ref : Refs]
Thread == [at : ThreadStages, want : Nat, python : Interpreters]
Child == [alive : BOOLEAN, python : Interpreters, deps : Nat]
Environment == [python : BOOLEAN, deps : Nat, mark : Nat]

EnvironmentTyped ==
  /\ published \in Nat /\ requirements \in Nat /\ requirements <= published
  /\ venv \in Environment
  /\ venvLock \in Evals \union {Nobody}
  /\ eval \in [Evals -> Evaluation]
  /\ thread \in [Evals -> Thread]
  /\ child \in [Evals -> Child]
  /\ astray \in BOOLEAN

\* What one builder has made so far.
BuildFits(e) ==
  /\ thread[e].at \in {"create", "install", "mark"} =>
       thread[e].python = "venv" /\ 0 < thread[e].want /\ thread[e].want <= requirements
  /\ thread[e].at = "install" => venv = [Absent EXCEPT !.python = TRUE]
  /\ thread[e].at = "mark" => venv.python /\ venv.mark = 0 /\ venv.deps >= thread[e].want

\* A waiting evaluation holds the lock, and what its thread found stays.
WaitFits(e) ==
  At(e) = "waiting" =>
    /\ venvLock = e
    /\ thread[e].at = "done" /\ thread[e].python = "venv" => venv.mark # 0

EvaluatorsInv ==
  /\ EnvironmentTyped
  /\ ~astray =>
       /\ \A e \in Building : venvLock = e
       /\ \A e \in Evals : BuildFits(e) /\ WaitFits(e)
  /\ MarkedMeansBuilt

-----------------------------------------------------------------------------
(* Server.                                                                 *)

\* The stages of the lifespan after which each part runs, and before or after
\* which it does not.
WithManager == {"connect", "schema", "pool", "worker", "rpc", "listen", "serving", "closing",
                "rpcStop", "workerStop", "poolClose", "managerStop"}
WithWorker == {"rpc", "listen", "serving", "closing", "rpcStop", "workerStop"}
WithoutRpc == {"off", "manager", "connect", "schema", "pool", "worker", "rpc",
               "workerStop", "poolClose", "managerStop", "closed"}
WithoutWorker == {"off", "manager", "connect", "schema", "pool", "worker",
                  "poolClose", "managerStop", "closed"}

ServerInv ==
  /\ life = "off" => running \subseteq {"otlpHttp"}
  /\ life \in WithManager => "manager" \in running
  /\ life \in WithWorker /\ Storage # "none" => "worker" \in running
  /\ life \in WithoutRpc => "rpc" \notin running
  /\ life \in WithoutWorker => "worker" \notin running
  /\ Storage = "postgres" =>
       /\ life \in WithWorker \union {"pool", "worker"} => database.state = "current"
       /\ life \in WithWorker \union {"worker", "poolClose"} => "pool" \in running
  /\ process = "starting" => life = "off"
  /\ database \in Databases
  /\ ServingMeansReady

-----------------------------------------------------------------------------
(* Runs in memory.                                                         *)

MemoryRow == [status : {"absent", "queued", "running", "succeeded", "failed", "cancelled"},
              attempt : 0 .. MaxTries, cancel : BOOLEAN, spec : Specs \union {0}, born : Nat]

MemoryTyped ==
  /\ IsFiniteSet(Existing)
  /\ kept \in [RunIds -> MemoryRow]
  /\ results \in [RunIds -> {"none", "partial", "all"}]
  /\ loop \in [Loops -> [at : {"idle", "fetching", "evaluating", "succeeded", "failed", "cancelled"},
                         run : RunIds \union {0}, told : BOOLEAN]]
  /\ \A l \in Loops : loop[l].at # "idle" => loop[l].run \in RunIds
  /\ recorder \in [RecordedIds -> {"new", "created", "stored", "done"}]
  /\ answers \subseteq RunIds \X Specs

\* Results are stored before success is shown and never taken back; a row that
\* was answered for is there.
MemoryInv ==
  /\ MemoryTyped
  /\ \A l \in Loops : loop[l].at = "succeeded" => results[loop[l].run] = "all"
  /\ \A r \in RecordedIds : recorder[r] \in {"stored", "done"} => results[r] = "all"
  /\ \A a \in answers : kept[a[1]].status # "absent"
  /\ RowsKeepTheirWord

-----------------------------------------------------------------------------
(* Proofs: the server.                                                     *)

LEMMA ServerStarts == ServerInit => ServerInv
<1>1. ServerInit => database \in Databases \/ database = [reachable |-> FALSE, state |-> "current"]
  BY DEF ServerInit
<1>2. [reachable |-> FALSE, state |-> "current"] \in Databases
  BY DEF Databases
<1>3. QED
  BY <1>1, <1>2 DEF ServerInit, ServerInv, ServingMeansReady, WithManager, WithWorker

LEMMA ServerAdvances ==
  ASSUME ServerInv, [ServerNext]_nvars
  PROVE  ServerInv'
<1> USE DEF ServerInv, ServingMeansReady, WithManager, WithWorker, WithoutRpc, WithoutWorker,
            Storage, Databases, Lives, Starts, Stops, Quiet, outside
<1>1. CASE StartReceiver \/ StartOtlpHttp \/ StartManager
  BY <1>1 DEF StartReceiver, StartOtlpHttp, StartManager
<1>2. CASE Connect \/ OpenPool
  BY <1>2 DEF Connect, OpenPool, Dial
<1>3. CASE CheckSchema
  BY <1>3 DEF CheckSchema
<1>4. CASE StartWorker \/ StartRpc \/ Listen
  BY <1>4 DEF StartWorker, StartRpc, ServeRpc, Listen
<1>5. CASE StopReceivers \/ StopListening \/ ConnectionsEnd
  BY <1>5 DEF StopReceivers, StopListening, ConnectionsEnd
<1>6. CASE CloseWatchers \/ StopRpc \/ StopWorker
  BY <1>6 DEF CloseWatchers, StopRpc, StopWorker
<1>7. CASE ClosePool \/ StopManager \/ Exit
  BY <1>7 DEF ClosePool, StopManager, Exit
<1>8. CASE ReachabilityChanges \/ ViewerComes \/ ViewerLeaves
  BY <1>8 DEF ReachabilityChanges, ViewerComes, ViewerLeaves
<1>9. ASSUME NEW sig \in {"SIGINT", "SIGTERM"}, Signal(sig) PROVE ServerInv'
  BY <1>9 DEF Signal
<1>10. CASE UNCHANGED nvars
  BY <1>10 DEF nvars
<1>11. QED
  BY <1>1, <1>2, <1>3, <1>4, <1>5, <1>6, <1>7, <1>8, <1>9, <1>10 DEF ServerNext, ServerStep

-----------------------------------------------------------------------------
(* Proofs: the runs in memory.                                             *)

LEMMA LeastNumber ==
  ASSUME NEW T, T \subseteq Nat, T # {}
  PROVE  \E x \in T : \A y \in T : x <= y
<1> DEFINE R == OpToRel(<, Nat)
<1>1. \A x, y \in Nat : <<y, x>> \in R <=> y < x
  BY DEF OpToRel
<1>2. IsWellFoundedOn(R, Nat)
  BY NatLessThanWellFounded
<1> HIDE DEF R
<1>3. PICK x \in T : \A y \in T : ~ (<<y, x>> \in R)
  BY <1>2, WFMin
<1>4. \A y \in T : x <= y
  <2> TAKE y \in T
  <2>1. x \in Nat /\ y \in Nat
    OBVIOUS
  <2>2. ~(y < x)
    BY <2>1, <1>1, <1>3
  <2>3. QED
    BY <2>1, <2>2
<1>5. QED
  BY <1>4

LEMMA OldestIsACandidate ==
  ASSUME MemoryTyped, Candidates # {}
  PROVE  Oldest \in Candidates
<1> DEFINE T == {kept[r].born : r \in Candidates}
<1>1. T \subseteq Nat /\ T # {}
  <2>1. \A r \in Candidates : kept[r].born \in Nat
    BY DEF MemoryTyped, MemoryRow, Candidates
  <2>2. QED
    BY <2>1
<1>2. PICK n \in T : \A m \in T : n <= m
  BY <1>1, LeastNumber
<1>3. \E r \in Candidates : \A q \in Candidates : kept[r].born <= kept[q].born
  BY <1>2
<1>4. QED
  BY <1>3 DEF Oldest

LEMMA MemoryStarts == MemoryInit => MemoryInv
<1> SUFFICES ASSUME MemoryInit PROVE MemoryInv
  OBVIOUS
<1>1. Existing = {}
  BY DEF MemoryInit, Existing, Unkept
<1>2. MemoryTyped
  BY <1>1, FS_EmptySet, MemoryAssumption DEF MemoryInit, MemoryTyped, MemoryRow, Ended, Unkept, IdleLoop
<1>3. QED
  BY <1>2 DEF MemoryInit, MemoryInv, RowsKeepTheirWord, Unkept, IdleLoop

\* A status that is written over another one leaves the same rows.
LEMMA RowsStay ==
  ASSUME \A r \in RunIds : kept'[r].status = "absent" <=> kept[r].status = "absent"
  PROVE  Existing' = Existing
BY DEF Existing

LEMMA CreateKeepsRows ==
  ASSUME MemoryTyped, NEW r \in RunIds, NEW row_, CreateRun(r, row_),
         row_ \in MemoryRow /\ row_.status = "queued"
  PROVE  /\ IsFiniteSet(Existing')
         /\ r \in Existing'
         /\ kept' \in [RunIds -> MemoryRow]
         /\ kept'[r].status # "succeeded" \/ kept'[r] = kept[r]
         /\ \A q \in RunIds : q # r \/ r \in Existing => kept'[q] = kept[q]
<1>1. CASE r \in Existing
  BY <1>1 DEF CreateRun, MemoryTyped, MemoryRow, Existing
<1>2. CASE r \notin Existing
  <2>1. Cardinality(Existing) \in Nat
    BY FS_CardinalityType DEF MemoryTyped, MemoryRow
  <2>2. kept' = [kept EXCEPT ![r] = [row_ EXCEPT !.born = Cardinality(Existing)]]
    BY <1>2 DEF CreateRun
  <2>3. Existing' = Existing \union {r}
    BY <2>2 DEF Existing, MemoryTyped, MemoryRow
  <2>4. IsFiniteSet(Existing')
    BY <2>3, FS_AddElement DEF MemoryTyped, MemoryRow
  <2>5. QED
    BY <1>2, <2>1, <2>2, <2>3, <2>4 DEF MemoryTyped, MemoryRow
<1>3. QED
  BY <1>1, <1>2

\* What a step does to the promises: results and rows are kept, success is shown
\* where all results are.
ResultsGrow ==
  /\ \A r \in RunIds : results[r] = "all" => results'[r] = "all"
  /\ \A l \in Loops : loop'[l].at = "succeeded" =>
       \/ loop[l].at = "succeeded" /\ loop'[l].run = loop[l].run
       \/ results'[loop'[l].run] = "all"
  /\ \A r \in RecordedIds : recorder'[r] \in {"stored", "done"} =>
       recorder[r] \in {"stored", "done"} \/ results'[r] = "all"

RowsRemain ==
  /\ \A r \in RunIds :
       /\ kept[r].status # "absent" =>
            kept'[r].status # "absent" /\ kept'[r].spec = kept[r].spec
       /\ kept'[r].status = "succeeded" => kept[r].status = "succeeded" \/ results'[r] = "all"
  /\ \A a \in answers' :
       a \in answers \/ (kept'[a[1]].status # "absent" /\ kept'[a[1]].spec = a[2])

LEMMA PromisesAreKept ==
  ASSUME MemoryInv, MemoryTyped', ResultsGrow, RowsRemain
  PROVE  MemoryInv'
<1>1. \A a \in answers : a[1] \in RunIds
  BY DEF MemoryInv, MemoryTyped, MemoryRow
<1>2. \A l \in Loops : loop'[l].at = "succeeded" => results'[loop'[l].run] = "all"
  BY DEF MemoryInv, MemoryTyped, MemoryRow, ResultsGrow
<1>3. \A r \in RecordedIds : recorder'[r] \in {"stored", "done"} => results'[r] = "all"
  BY MemoryAssumption DEF MemoryInv, ResultsGrow
<1>4. \A a \in answers' : kept'[a[1]].status # "absent" /\ kept'[a[1]].spec = a[2]
  BY <1>1 DEF MemoryInv, RowsKeepTheirWord, RowsRemain
<1>5. \A r \in RunIds : kept'[r].status = "succeeded" => results'[r] = "all"
  BY DEF MemoryInv, RowsKeepTheirWord, RowsRemain, ResultsGrow
<1>6. QED
  BY <1>2, <1>3, <1>4, <1>5 DEF MemoryInv, RowsKeepTheirWord

LEMMA RowsUnchanged ==
  ASSUME UNCHANGED kept
  PROVE  Existing' = Existing
BY DEF Existing

LEMMA MemoryAdvances ==
  ASSUME MemoryInv, [MemoryNext]_yvars
  PROVE  MemoryInv'
<1> SUFFICES MemoryTyped' /\ ResultsGrow /\ RowsRemain
  BY PromisesAreKept
<1> DEFINE Kept == MemoryTyped' /\ ResultsGrow /\ RowsRemain
<1>0. MemoryTyped
  BY DEF MemoryInv
<1>1. ASSUME NEW l \in Loops, ClaimOldest(l) PROVE Kept
  <2>1. Oldest \in RunIds /\ kept[Oldest].status = "queued" /\ kept[Oldest].attempt < MaxTries
    BY <1>0, <1>1, OldestIsACandidate DEF ClaimOldest, Candidates
  <2> DEFINE r == Oldest
  <2> HIDE DEF r
  <2>2. r \in RunIds /\ kept[r].status = "queued" /\ kept[r].attempt + 1 \in 0 .. MaxTries
    BY <1>0, <2>1, MemoryAssumption DEF r, MemoryTyped, MemoryRow
  <2>3. /\ kept' = [kept EXCEPT ![r].status = "running", ![r].attempt = @ + 1]
        /\ loop' = [loop EXCEPT ![l] = [at |-> "fetching", run |-> r, told |-> FALSE]]
        /\ UNCHANGED <<results, recorder, answers>>
    BY <1>1 DEF ClaimOldest, r
  <2>4. /\ kept' \in [RunIds -> MemoryRow]
        /\ kept'[r].status = "running" /\ kept'[r].spec = kept[r].spec
        /\ \A q \in RunIds : q # r => kept'[q] = kept[q]
    BY <1>0, <2>2, <2>3 DEF MemoryTyped, MemoryRow
  <2>5. Existing' = Existing
    <3>1. \A q \in RunIds : kept'[q].status = "absent" <=> kept[q].status = "absent"
      BY <1>0, <2>2, <2>4 DEF MemoryTyped, MemoryRow
    <3>2. QED
      BY <3>1, RowsStay
  <2>6. MemoryTyped'
    BY <1>0, <2>2, <2>3, <2>4, <2>5 DEF MemoryTyped, MemoryRow, Ended
  <2>7. QED
    BY <1>0, <2>2, <2>3, <2>4, <2>6 DEF ResultsGrow, RowsRemain, MemoryTyped, MemoryRow
<1>2. ASSUME NEW l \in Loops, FetchTraces(l) PROVE Kept
  <2>1. MemoryTyped'
    BY <1>0, <1>2, RowsUnchanged DEF FetchTraces, MemoryTyped, MemoryRow, Ended
  <2>2. QED
    BY <1>0, <1>2, <2>1 DEF FetchTraces, ResultsGrow, RowsRemain, MemoryTyped, MemoryRow
<1>3. ASSUME NEW l \in Loops, EvaluationEnded(l) PROVE Kept
  <2>1. MemoryTyped'
    <3> DEFINE r == loop[l].run
    <3>1. /\ r \in RunIds /\ UNCHANGED <<kept, recorder, answers>>
          /\ results' = [results EXCEPT ![r] = "all"] \/ results' = results
          /\ \E at \in {"succeeded", "failed"} : loop' = [loop EXCEPT ![l].at = at]
      BY <1>0, <1>3 DEF EvaluationEnded, MemoryTyped, MemoryRow
    <3> HIDE DEF r
    <3>2. results' \in [RunIds -> {"none", "partial", "all"}]
      BY <1>0, <3>1 DEF MemoryTyped, MemoryRow
    <3>3. loop'[l].run = loop[l].run /\ \A m \in Loops : m # l => loop'[m] = loop[m]
      BY <1>0, <3>1 DEF MemoryTyped, MemoryRow
    <3>4. loop[l].run \in RunIds
      BY <3>1 DEF r
    <3>5. QED
      BY <1>0, <3>1, <3>2, <3>3, <3>4, RowsUnchanged DEF MemoryTyped, MemoryRow, Ended
  <2>2. QED
    <3> DEFINE r == loop[l].run
    <3>1. r \in RunIds /\ UNCHANGED <<kept, recorder, answers>>
      BY <1>0, <1>3 DEF EvaluationEnded, MemoryTyped
    <3>2. \A m \in Loops : loop'[m].run = loop[m].run /\ (m # l => loop'[m] = loop[m])
      BY <1>0, <1>3 DEF EvaluationEnded, MemoryTyped
    <3>3. \/ results' = results /\ loop'[l].at = "failed"
          \/ results' = [results EXCEPT ![r] = "all"]
      BY <1>0, <1>3 DEF EvaluationEnded, MemoryTyped
    <3>4. loop[l].run = r
      OBVIOUS
    <3> HIDE DEF r
    <3>5. QED
      <4>1. ResultsGrow
        BY <1>0, <3>1, <3>2, <3>3, <3>4 DEF ResultsGrow, MemoryTyped
      <4>2. RowsRemain
        BY <3>1 DEF RowsRemain
      <4>3. QED
        BY <2>1, <4>1, <4>2
<1>4. ASSUME NEW l \in Loops, WriteOutcome(l) PROVE Kept
  <2> DEFINE r == loop[l].run
  <2>1. /\ r \in RunIds /\ loop[l].at \in Ended
        /\ kept' = [kept EXCEPT ![r].status = loop[l].at]
        /\ loop' = [loop EXCEPT ![l] = IdleLoop]
        /\ UNCHANGED <<results, recorder, answers>>
    BY <1>0, <1>4 DEF WriteOutcome, SetStatus, MemoryTyped, MemoryRow, Ended
  <2>2. loop[l].at = "succeeded" => results[r] = "all"
    BY DEF MemoryInv
  <2> HIDE DEF r
  <2> DEFINE status == loop[l].at
  <2>s. status \in {"succeeded", "failed", "cancelled"} /\ kept' = [kept EXCEPT ![r].status = status]
    BY <2>1 DEF Ended
  <2> HIDE DEF status
  <2>3. /\ kept' \in [RunIds -> MemoryRow]
        /\ kept'[r].status = status /\ kept'[r].spec = kept[r].spec
        /\ \A q \in RunIds : q # r => kept'[q] = kept[q]
    <3>3. kept \in [RunIds -> MemoryRow] /\ kept[r] \in MemoryRow
      BY <1>0, <2>1 DEF MemoryTyped
    <3>4. kept' \in [RunIds -> MemoryRow]
      BY <2>s, <3>3 DEF MemoryRow
    <3>5. kept'[r].status = status /\ kept'[r].spec = kept[r].spec
      BY <2>1, <2>s, <3>3 DEF MemoryRow
    <3>6. \A q \in RunIds : q # r => kept'[q] = kept[q]
      BY <2>s, <3>3
    <3>7. QED
      BY <3>4, <3>5, <3>6
  <2>4. MemoryTyped'
    <3>1. \A q \in RunIds : kept'[q].status = "absent" => kept[q].status = "absent"
      BY <1>0, <2>1, <2>s, <2>3 DEF MemoryTyped, MemoryRow, Ended
    <3>2. Existing \subseteq Existing'
      BY <3>1 DEF Existing
    <3>3. Existing' \subseteq Existing \union {r}
      BY <2>3 DEF Existing
    <3>4. IsFiniteSet(Existing')
      BY <1>0, <3>2, <3>3, FS_AddElement, FS_Subset DEF MemoryTyped, MemoryRow
    <3>5. QED
      BY <1>0, <2>1, <2>3, <3>4 DEF MemoryTyped, MemoryRow, Ended, IdleLoop
  <2>5. QED
    BY <1>0, <2>1, <2>2, <2>s, <2>3, <2>4 DEF ResultsGrow, RowsRemain, MemoryTyped, MemoryRow, Ended, IdleLoop, status
<1>5. ASSUME NEW l \in Loops, BeatFlag(l) \/ StorePartial(l) PROVE Kept
  <2>1. CASE BeatFlag(l)
    <3>1. /\ UNCHANGED <<kept, results, recorder, answers>>
          /\ loop' = [loop EXCEPT ![l].told = TRUE]
      BY <2>1 DEF BeatFlag
    <3>2. QED
      BY ZenonT(60), <1>0, <3>1, RowsUnchanged DEF MemoryTyped, MemoryRow, ResultsGrow, RowsRemain
  <2>2. CASE StorePartial(l)
    <3> DEFINE r == loop[l].run
    <3>1. /\ r \in RunIds /\ UNCHANGED <<kept, loop, recorder, answers>>
          /\ results' = [results EXCEPT ![r] = IF @ = "none" THEN "partial" ELSE @]
      BY <1>0, <2>2 DEF StorePartial, MemoryTyped, MemoryRow
    <3> HIDE DEF r
    <3>2. QED
      BY <1>0, <3>1, RowsUnchanged DEF MemoryTyped, MemoryRow, ResultsGrow, RowsRemain
  <2>3. QED
    BY <1>5, <2>1, <2>2
<1>6. ASSUME NEW r \in RecordedIds, Record(r) PROVE Kept
  <2>0. r \in RunIds /\ UNCHANGED <<loop, answers>>
    BY <1>6, MemoryAssumption DEF Record
  <2>1. CASE recorder[r] = "new"
    <3> DEFINE row_ == [Unkept EXCEPT !.status = "queued", !.attempt = 1]
    <3>1. /\ CreateRun(r, row_) /\ UNCHANGED results
          /\ recorder' = [recorder EXCEPT ![r] = "created"]
      BY <1>6, <2>1 DEF Record
    <3>2. Unkept \in MemoryRow
      BY MemoryAssumption DEF Unkept, MemoryRow
    <3>3. row_ \in MemoryRow /\ row_.status = "queued"
      <4>1. 1 \in 0 .. MaxTries
        BY MemoryAssumption
      <4>2. QED
        BY <3>2, <4>1 DEF MemoryRow
    <3> HIDE DEF row_
    <3>4. /\ IsFiniteSet(Existing')
          /\ kept' \in [RunIds -> MemoryRow]
          /\ kept'[r].status # "succeeded" \/ kept'[r] = kept[r]
          /\ \A q \in RunIds : q # r \/ r \in Existing => kept'[q] = kept[q]
      BY <1>0, <2>0, <3>1, <3>3, CreateKeepsRows
    <3>5. MemoryTyped'
      BY <1>0, <2>0, <3>1, <3>4 DEF MemoryTyped, MemoryRow
    <3>6. RowsRemain
      BY <2>0, <3>4 DEF RowsRemain, Existing
    <3>7. QED
      BY <1>0, <2>0, <3>1, <3>5, <3>6 DEF ResultsGrow, MemoryTyped, MemoryRow
  <2>2. CASE recorder[r] = "created"
    <3>1. /\ UNCHANGED kept
          /\ results' = [results EXCEPT ![r] = "all"]
          /\ recorder' = [recorder EXCEPT ![r] = "stored"]
      BY <1>6, <2>2 DEF Record
    <3>2. QED
      BY <1>0, <2>0, <3>1, RowsUnchanged DEF MemoryTyped, MemoryRow, ResultsGrow, RowsRemain
  <2>3. CASE recorder[r] = "stored"
    <3>1. PICK status \in {"succeeded", "failed"} :
            /\ kept' = [kept EXCEPT ![r].status = status]
            /\ UNCHANGED results
            /\ recorder' = [recorder EXCEPT ![r] = "done"]
      BY <1>6, <2>3 DEF Record, SetStatus
    <3>2. /\ kept' \in [RunIds -> MemoryRow]
          /\ kept'[r].status = status /\ kept'[r].spec = kept[r].spec
          /\ \A q \in RunIds : q # r => kept'[q] = kept[q]
      BY <1>0, <2>0, <3>1 DEF MemoryTyped, MemoryRow
    <3>3. Existing' = Existing \union {r}
      BY <1>0, <2>0, <3>2 DEF Existing, MemoryTyped, MemoryRow
    <3>4. IsFiniteSet(Existing')
      BY <1>0, <3>3, FS_AddElement DEF MemoryTyped, MemoryRow
    <3>5. MemoryTyped'
      BY <1>0, <2>0, <3>1, <3>2, <3>4 DEF MemoryTyped, MemoryRow, Ended
    <3>6. results[r] = "all"
      BY <2>3 DEF MemoryInv
    <3>7. QED
      BY <1>0, <2>0, <3>1, <3>2, <3>5, <3>6 DEF MemoryTyped, MemoryRow, ResultsGrow, RowsRemain
  <2>4. QED
    BY <1>6, <2>1, <2>2, <2>3 DEF Record
<1>7. ASSUME NEW r \in RunIds, CancelRun(r) PROVE Kept
  <2>1. /\ kept' \in [RunIds -> MemoryRow]
        /\ kept[r].status # "absent" /\ kept'[r].status \in {"running", "cancelled"}
        /\ kept'[r].spec = kept[r].spec
        /\ \A q \in RunIds : q # r => kept'[q] = kept[q]
    <3>1. /\ kept[r].status \in {"queued", "running"}
          /\ kept' = [kept EXCEPT ![r].cancel = TRUE,
                                 ![r].status = IF @ = "queued" THEN "cancelled" ELSE @]
      BY <1>7 DEF CancelRun
    <3>2. PICK status \in {"running", "cancelled"} :
            kept' = [kept EXCEPT ![r].cancel = TRUE, ![r].status = status]
      BY <3>1
    <3>3. kept \in [RunIds -> MemoryRow] /\ kept[r] \in MemoryRow
      BY <1>0 DEF MemoryTyped
    <3>4. kept' \in [RunIds -> MemoryRow]
      BY <3>2, <3>3 DEF MemoryRow
    <3>5. kept'[r].status = status /\ kept'[r].spec = kept[r].spec
      BY <3>2, <3>3 DEF MemoryRow
    <3>6. \A q \in RunIds : q # r => kept'[q] = kept[q]
      BY <3>2, <3>3
    <3>7. QED
      BY <3>1, <3>4, <3>5, <3>6
  <2>2. UNCHANGED <<results, loop, recorder, answers>>
    BY <1>7 DEF CancelRun
  <2>3. Existing' = Existing
    <3>1. \A q \in RunIds : kept'[q].status = "absent" <=> kept[q].status = "absent"
      BY <1>0, <2>1 DEF MemoryTyped, MemoryRow
    <3>2. QED
      BY <3>1, RowsStay
  <2>4. MemoryTyped'
    BY <1>0, <2>1, <2>2, <2>3 DEF MemoryTyped, MemoryRow
  <2>5. QED
    BY <1>0, <2>1, <2>2, <2>4 DEF MemoryTyped, MemoryRow, ResultsGrow, RowsRemain
<1>8. ASSUME NEW r \in RunIds, NEW spec \in Specs, Submit(r, spec) PROVE Kept
  <2> DEFINE row_ == [Unkept EXCEPT !.status = "queued", !.spec = spec]
  <2>1. row_ \in MemoryRow /\ row_.status = "queued"
    <3>1. Unkept \in MemoryRow
      BY MemoryAssumption DEF Unkept, MemoryRow
    <3>2. QED
      BY <3>1 DEF MemoryRow
  <2>2. CreateRun(r, row_)
    BY <1>8 DEF Submit
  <2> HIDE DEF row_
  <2>3. /\ IsFiniteSet(Existing')
        /\ r \in Existing'
        /\ kept' \in [RunIds -> MemoryRow]
        /\ kept'[r].status # "succeeded" \/ kept'[r] = kept[r]
        /\ \A q \in RunIds : q # r \/ r \in Existing => kept'[q] = kept[q]
    BY <1>0, <2>1, <2>2, CreateKeepsRows
  <2>4. UNCHANGED <<results, loop, recorder>>
    BY <1>8 DEF Submit
  <2>5. \/ answers' = answers
        \/ answers' = answers \union {<<r, spec>>} /\ kept'[r].spec = spec
    <3>1. answers' = IF kept'[r].spec = spec THEN answers \union {<<r, spec>>} ELSE answers
      BY <1>8 DEF Submit
    <3>2. QED
      BY <3>1
  <2>6. MemoryTyped'
    BY <1>0, <2>3, <2>4, <2>5 DEF MemoryTyped, MemoryRow
  <2>7. RowsRemain
    BY <2>3, <2>4, <2>5 DEF RowsRemain, Existing
  <2>8. QED
    BY <2>4, <2>6, <2>7 DEF ResultsGrow
<1>9. CASE UNCHANGED yvars
  BY <1>0, <1>9 DEF yvars, Existing, MemoryTyped, MemoryRow, ResultsGrow, RowsRemain
<1>10. QED
  BY <1>1, <1>2, <1>3, <1>4, <1>5, <1>6, <1>7, <1>8, <1>9, MemoryAssumption DEF MemoryNext, LoopStep

-----------------------------------------------------------------------------
(* Proofs: the evaluators.                                                 *)

LEMMA RecordsTyped ==
  /\ Absent \in Environment /\ [Absent EXCEPT !.python = TRUE] \in Environment
  /\ NoThread \in Thread /\ NoChild \in Child
<1>1. Absent \in Environment
  BY DEF Absent, Environment
<1>2. [Absent EXCEPT !.python = TRUE] \in Environment
  BY <1>1 DEF Environment
<1>3. NoThread \in Thread /\ NoChild \in Child
  BY DEF NoThread, NoChild, Thread, Child, ThreadStages, Interpreters
<1>4. QED
  BY <1>1, <1>2, <1>3

LEMMA EvaluatorsStart == EvaluatorsInit => EvaluatorsInv
<1> SUFFICES ASSUME EvaluatorsInit PROVE EvaluatorsInv
  OBVIOUS
<1>1. EnvironmentTyped
  <2>1. \A r \in Refs : [at |-> "new", ref |-> r] \in Evaluation
    BY DEF Evaluation
  <2>2. eval \in [Evals -> Evaluation]
    BY <2>1 DEF EvaluatorsInit
  <2>3. thread \in [Evals -> Thread] /\ child \in [Evals -> Child] /\ venv \in Environment
    BY RecordsTyped DEF EvaluatorsInit
  <2>4. published = 1 /\ requirements = 0 /\ venvLock = Nobody /\ astray = FALSE
    BY DEF EvaluatorsInit
  <2>5. published \in Nat /\ requirements \in Nat /\ requirements <= published
    BY <2>4
  <2>6. QED
    BY <2>2, <2>3, <2>4, <2>5 DEF EnvironmentTyped
<1>2. Building = {}
  BY DEF EvaluatorsInit, Building, NoThread
<1>3. \A e \in Evals : At(e) = "new" /\ thread[e].at = "none" /\ ~child[e].alive
  <2>1. \A e \in Evals : At(e) = "new"
    BY DEF EvaluatorsInit, At
  <2>2. \A e \in Evals : thread[e].at = "none" /\ ~child[e].alive
    BY DEF EvaluatorsInit, NoThread, NoChild
  <2>3. QED
    BY <2>1, <2>2
<1>4. MarkedMeansBuilt
  BY <1>3 DEF EvaluatorsInit, MarkedMeansBuilt, Absent
<1>5. \A e \in Evals : BuildFits(e) /\ WaitFits(e)
  BY <1>3 DEF BuildFits, WaitFits
<1>6. QED
  BY <1>1, <1>2, <1>4, <1>5 DEF EvaluatorsInv

LEMMA GoesOn ==
  ASSUME EnvironmentTyped, NEW e \in Evals, NEW at, GoOn(e, at),
         at \in {"new", "index", "download", "requirements", "environment",
                "waiting", "running", "over"}
  PROVE  /\ eval' \in [Evals -> Evaluation]
         /\ At(e)' = at
         /\ \A f \in Evals : f # e => At(f)' = At(f)
BY DEF EnvironmentTyped, GoOn, At, Evaluation

\* What is left to show of a step: the types, and what there is to build.
LEMMA BuildGoesOn ==
  ASSUME EvaluatorsInv, EnvironmentTyped', Noted,
         ~astray /\ ~astray' => /\ \A e \in Evals : BuildFits(e)' /\ WaitFits(e)'
                                /\ MarkedMeansBuilt'
  PROVE  EvaluatorsInv'
BY DEF EvaluatorsInv, EnvironmentTyped, Noted, MarkedMeansBuilt

\* Looking an evaluator up and downloading it touch no environment.
LEMMA LookingUpBuildsNothing ==
  ASSUME EvaluatorsInv, EnvironmentTyped', Noted,
         UNCHANGED <<venv, venvLock, thread>>,
         requirements <= requirements',
         \A e \in Evals : At(e)' = "waiting" => At(e) = "waiting",
         \A e \in Evals : child'[e] = child[e] \/ ~child'[e].alive
  PROVE  EvaluatorsInv'
<1> USE DEF EvaluatorsInv, EnvironmentTyped
<1>1. ASSUME NEW e \in Evals, ~astray PROVE BuildFits(e)' /\ WaitFits(e)'
  <2>1. BuildFits(e) /\ WaitFits(e) /\ thread[e].want \in Nat
    BY <1>1 DEF Thread
  <2>2. BuildFits(e)'
    BY <2>1 DEF BuildFits
  <2>3. WaitFits(e)'
    BY <2>1 DEF WaitFits
  <2>4. QED
    BY <2>2, <2>3
<1>2. ~astray => MarkedMeansBuilt'
  BY DEF MarkedMeansBuilt
<1>3. QED
  BY <1>1, <1>2, BuildGoesOn

LEMMA ChildrenEnd ==
  ASSUME EnvironmentTyped, NEW e \in Evals, child' = [child EXCEPT ![e].alive = FALSE]
  PROVE  /\ child' \in [Evals -> Child]
         /\ \A f \in Evals : child'[f] = child[f] \/ ~child'[f].alive
BY DEF EnvironmentTyped, Child

\* Who builds without going astray builds alone, and nobody else waits.
LEMMA OnlyBuilder ==
  ASSUME EvaluatorsInv, ~astray, NEW e \in Evals, e \in Building \/ At(e) = "waiting"
  PROVE  /\ venvLock = e
         /\ \A f \in Evals : f # e => f \notin Building /\ At(f) # "waiting"
BY DEF EvaluatorsInv, WaitFits

\* So a step of its thread has to be looked at for itself only.
LEMMA BuilderSteps ==
  ASSUME EvaluatorsInv, ~astray, NEW e \in Evals, e \in Building,
         UNCHANGED <<eval, venvLock>>,
         \A f \in Evals : f # e => thread'[f] = thread[f],
         BuildFits(e)', At(e) = "waiting" => WaitFits(e)'
  PROVE  \A f \in Evals : BuildFits(f)' /\ WaitFits(f)'
<1> TAKE f \in Evals
<1>1. CASE f = e
  BY <1>1 DEF WaitFits, At
<1>2. CASE f # e
  <2>1. f \notin Building /\ At(f) # "waiting"
    BY <1>2, OnlyBuilder
  <2>2. BuildFits(f)'
    BY <1>2, <2>1 DEF BuildFits, Building
  <2>3. WaitFits(f)'
    BY <2>1 DEF WaitFits, At
  <2>4. QED
    BY <2>2, <2>3
<1>3. QED
  BY <1>1, <1>2

\* A thread that goes on to its next stage.
LEMMA ThreadGoesOn ==
  ASSUME EnvironmentTyped, NEW e \in Evals, NEW at \in ThreadStages,
         thread' = [thread EXCEPT ![e].at = at]
  PROVE  /\ thread' \in [Evals -> Thread]
         /\ thread'[e].at = at
         /\ thread'[e].want = thread[e].want /\ thread'[e].python = thread[e].python
         /\ \A f \in Evals : f # e => thread'[f] = thread[f]
BY DEF EnvironmentTyped, Thread

LEMMA ThreadSet ==
  ASSUME EnvironmentTyped, NEW e \in Evals, NEW t \in Thread, thread' = [thread EXCEPT ![e] = t]
  PROVE  /\ thread' \in [Evals -> Thread]
         /\ thread'[e] = t
         /\ \A f \in Evals : f # e => thread'[f] = thread[f]
BY DEF EnvironmentTyped

LEMMA EvaluatorsAdvance ==
  ASSUME EvaluatorsInv, [EvaluatorsNext]_evars
  PROVE  EvaluatorsInv'
<1>0. EnvironmentTyped
  BY DEF EvaluatorsInv
<1>a. Noted => astray' \in BOOLEAN
  BY DEF Noted
<1>1. ASSUME NEW e \in Evals,
             StartEval(e) \/ IndexAnswers(e) \/ FileArrives(e) \/ RequirementsArrive(e)
      PROVE  EvaluatorsInv'
  <2>1. PICK at \in {"index", "download", "requirements", "environment", "over"} : GoOn(e, at)
    BY <1>1 DEF StartEval, IndexAnswers, FileArrives, RequirementsArrive, Lookup
  <2>2. /\ UNCHANGED <<published, venv, venvLock, thread, child>> /\ Noted
        /\ requirements' \in {requirements, published}
    BY <1>1 DEF StartEval, IndexAnswers, FileArrives, RequirementsArrive, cache
  <2>3. EnvironmentTyped'
    BY <1>0, <1>a, <2>1, <2>2, GoesOn DEF EnvironmentTyped
  <2>4. \A f \in Evals : At(f)' = "waiting" => At(f) = "waiting"
    BY <1>0, <2>1, GoesOn
  <2>5. requirements <= requirements'
    BY <1>0, <2>2 DEF EnvironmentTyped
  <2>6. QED
    BY <2>2, <2>3, <2>4, <2>5, LookingUpBuildsNothing
<1>3. ASSUME NEW e \in Evals, EnsureVenv(e) PROVE EvaluatorsInv'
  <2> DEFINE t == [NoThread EXCEPT !.at = "check"]
  <2>1. t \in Thread /\ t.at = "check"
    BY RecordsTyped DEF Thread, ThreadStages
  <2>2. /\ venvLock = Nobody /\ venvLock' = e
        /\ thread' = [thread EXCEPT ![e] = t]
        /\ GoOn(e, "waiting")
        /\ UNCHANGED <<published, requirements, venv, child>> /\ Noted
    BY <1>3 DEF EnsureVenv, cache
  <2> HIDE DEF t
  <2>3. EnvironmentTyped'
    BY <1>0, <1>a, <2>1, <2>2, GoesOn, ThreadSet DEF EnvironmentTyped
  <2>4. /\ thread'[e] = t /\ \A f \in Evals : f # e => thread'[f] = thread[f] /\ At(f)' = At(f)
    BY <1>0, <2>1, <2>2, GoesOn, ThreadSet
  <2>5. ASSUME ~astray, NEW f \in Evals PROVE BuildFits(f)' /\ WaitFits(f)'
    <3>1. BuildFits(f) /\ At(f) # "waiting"
      BY <2>2, <2>5, EvaluatorsAssumption DEF EvaluatorsInv, WaitFits
    <3>2. BuildFits(f)'
      BY <2>1, <2>2, <2>4, <3>1 DEF BuildFits
    <3>3. WaitFits(f)'
      BY <2>1, <2>2, <2>4, <3>1 DEF WaitFits
    <3>4. QED
      BY <3>2, <3>3
  <2>6. ~astray => MarkedMeansBuilt'
    BY <2>2 DEF EvaluatorsInv, MarkedMeansBuilt
  <2>7. QED
    BY <2>2, <2>3, <2>5, <2>6, BuildGoesOn
<1>4. ASSUME NEW e \in Evals, CheckVenv(e) PROVE EvaluatorsInv'
  <2>1. /\ thread[e].at = "check"
        /\ UNCHANGED <<published, requirements, venv, venvLock, eval, child>> /\ Noted
    BY <1>4 DEF CheckVenv, cache
  <2>2. PICK t \in Thread :
          /\ thread' = [thread EXCEPT ![e] = t]
          /\ \/ t.at = "done" /\ t.python = "server"
             \/ t.at = "done" /\ requirements # 0 /\ venv.mark = requirements
             \/ /\ t.at = "create" /\ requirements # 0
                /\ t.want = requirements /\ t.python = "venv"
             \/ t.at = "failed"
    <3>1. CASE requirements = 0
      <4>1. thread' = [thread EXCEPT ![e] = [NoThread EXCEPT !.at = "done"]]
        BY <1>4, <3>1 DEF CheckVenv
      <4>2. [NoThread EXCEPT !.at = "done"] \in Thread
        BY RecordsTyped DEF Thread, ThreadStages
      <4>3. [NoThread EXCEPT !.at = "done"].at = "done" /\ [NoThread EXCEPT !.at = "done"].python = "server"
        BY DEF NoThread
      <4>4. QED
        BY <4>1, <4>2, <4>3
    <3>2. CASE requirements # 0 /\ thread' = [thread EXCEPT ![e].at = "failed"]
      <4>1. [thread[e] EXCEPT !.at = "failed"] \in Thread
        BY <1>0 DEF EnvironmentTyped, Thread, ThreadStages
      <4>2. [thread[e] EXCEPT !.at = "failed"].at = "failed"
        BY <1>0 DEF EnvironmentTyped, Thread, ThreadStages
      <4>3. QED
        BY <3>2, <4>1, <4>2
    <3>3. CASE requirements # 0 /\ IsVenvValid
               /\ thread' = [thread EXCEPT ![e] = [NoThread EXCEPT !.at = "done", !.python = "venv"]]
      <4>1. [NoThread EXCEPT !.at = "done", !.python = "venv"] \in Thread
        BY RecordsTyped DEF Thread, ThreadStages, Interpreters
      <4>2. [NoThread EXCEPT !.at = "done", !.python = "venv"].at = "done"
        BY DEF NoThread
      <4>3. QED
        BY <3>3, <4>1, <4>2 DEF IsVenvValid
    <3>4. CASE requirements # 0 /\ thread' = [thread EXCEPT ![e] =
                 [at |-> "create", want |-> requirements, python |-> "venv"]]
      <4>1. [at |-> "create", want |-> requirements, python |-> "venv"] \in Thread
        BY <1>0 DEF EnvironmentTyped, Thread, ThreadStages, Interpreters
      <4>2. QED
        BY <3>4, <4>1
    <3>5. QED
      BY <1>4, <3>1, <3>2, <3>3, <3>4 DEF CheckVenv
  <2>3. /\ thread' \in [Evals -> Thread] /\ thread'[e] = t
        /\ \A f \in Evals : f # e => thread'[f] = thread[f]
    BY <1>0, <2>2, ThreadSet
  <2>4. EnvironmentTyped'
    BY <1>0, <1>a, <2>1, <2>3 DEF EnvironmentTyped
  <2>5. ASSUME ~astray, NEW f \in Evals PROVE BuildFits(f)' /\ WaitFits(f)'
    <3>1. BuildFits(f) /\ WaitFits(f)
      BY <2>5 DEF EvaluatorsInv
    <3>2. BuildFits(f)'
      BY <1>0, <2>1, <2>2, <2>3, <3>1 DEF BuildFits, EnvironmentTyped
    <3>3. WaitFits(f)'
      BY <2>1, <2>2, <2>3, <3>1 DEF WaitFits, At
    <3>4. QED
      BY <3>2, <3>3
  <2>6. ~astray => MarkedMeansBuilt'
    BY <2>1 DEF EvaluatorsInv, MarkedMeansBuilt
  <2>7. QED
    BY <2>1, <2>4, <2>5, <2>6, BuildGoesOn
<1>5. ASSUME NEW e \in Evals, CreateVenv(e) PROVE EvaluatorsInv'
  <2>1. /\ thread[e].at = "create"
        /\ UNCHANGED <<published, requirements, venvLock, eval, child>> /\ Noted
    BY <1>5 DEF CreateVenv, cache
  <2>2. PICK at \in {"install", "failed"} :
          /\ thread' = [thread EXCEPT ![e].at = at]
          /\ at = "install" => venv' = [Absent EXCEPT !.python = TRUE]
          /\ venv' \in Environment /\ venv'.mark = 0
    <3>1. Absent.mark = 0 /\ [Absent EXCEPT !.python = TRUE].mark = 0
      BY DEF Absent
    <3>2. CASE thread' = [thread EXCEPT ![e].at = "install"] /\ venv' = [Absent EXCEPT !.python = TRUE]
      BY <3>1, <3>2, RecordsTyped
    <3>3. CASE thread' = [thread EXCEPT ![e].at = "failed"] /\ venv' = Absent
      BY <3>1, <3>3, RecordsTyped
    <3>4. QED
      BY <1>5, <3>2, <3>3 DEF CreateVenv
  <2>3. /\ thread' \in [Evals -> Thread]
        /\ thread'[e].at = at
        /\ thread'[e].want = thread[e].want /\ thread'[e].python = thread[e].python
        /\ \A f \in Evals : f # e => thread'[f] = thread[f]
    BY <1>0, <2>2, ThreadGoesOn DEF ThreadStages
  <2>4. EnvironmentTyped'
    BY <1>0, <1>a, <2>1, <2>2, <2>3 DEF EnvironmentTyped
  <2>5. ASSUME ~astray PROVE /\ \A f \in Evals : BuildFits(f)' /\ WaitFits(f)'
                            /\ MarkedMeansBuilt'
    <3>1. e \in Building /\ BuildFits(e) /\ WaitFits(e)
      BY <2>1, <2>5 DEF Building, EvaluatorsInv
    <3>2. BuildFits(e)'
      BY <2>1, <2>2, <2>3, <3>1 DEF BuildFits
    <3>3. WaitFits(e)'
      BY <2>1, <2>2, <2>3, <3>1 DEF WaitFits, At
    <3>4. MarkedMeansBuilt'
      BY <2>1, <2>2, <2>5 DEF EvaluatorsInv, MarkedMeansBuilt
    <3>5. QED
      BY <2>1, <2>3, <2>5, <3>1, <3>2, <3>3, <3>4, BuilderSteps
  <2>6. QED
    BY <2>1, <2>4, <2>5, BuildGoesOn
<1>6. ASSUME NEW e \in Evals, InstallDeps(e) PROVE EvaluatorsInv'
  <2>1. /\ thread[e].at = "install"
        /\ UNCHANGED <<published, requirements, venvLock, eval, child>> /\ Noted
    BY <1>6 DEF InstallDeps, cache
  <2>2. PICK at \in {"mark", "failed"} :
          /\ thread' = [thread EXCEPT ![e].at = at]
          /\ at = "mark" => venv.python /\ venv' = [venv EXCEPT !.deps = requirements]
          /\ at = "failed" => venv' = venv
    BY <1>6 DEF InstallDeps
  <2>3. /\ thread' \in [Evals -> Thread]
        /\ thread'[e].at = at
        /\ thread'[e].want = thread[e].want /\ thread'[e].python = thread[e].python
        /\ \A f \in Evals : f # e => thread'[f] = thread[f]
    BY <1>0, <2>2, ThreadGoesOn DEF ThreadStages
  <2>4. /\ venv' \in Environment /\ venv'.mark = venv.mark /\ venv'.python = venv.python
        /\ at = "mark" => venv'.deps = requirements
    BY <1>0, <2>2 DEF EnvironmentTyped, Environment
  <2>5. EnvironmentTyped'
    BY <1>0, <1>a, <2>1, <2>3, <2>4 DEF EnvironmentTyped
  <2>6. ASSUME ~astray PROVE /\ \A f \in Evals : BuildFits(f)' /\ WaitFits(f)'
                            /\ MarkedMeansBuilt'
    <3>1. e \in Building /\ BuildFits(e) /\ WaitFits(e)
      BY <2>1, <2>6 DEF Building, EvaluatorsInv
    <3>2. venv.mark = 0
      BY <2>1, <3>1 DEF BuildFits, Absent
    <3>3. BuildFits(e)'
      BY <1>0, <2>1, <2>2, <2>3, <2>4, <3>1, <3>2 DEF BuildFits, EnvironmentTyped, Environment, Thread
    <3>4. WaitFits(e)'
      BY <2>1, <2>2, <2>3, <3>1 DEF WaitFits, At
    <3>5. MarkedMeansBuilt'
      BY <2>1, <2>4, <2>6, <3>2 DEF EvaluatorsInv, MarkedMeansBuilt
    <3>6. QED
      BY <2>1, <2>3, <2>6, <3>1, <3>3, <3>4, <3>5, BuilderSteps
  <2>7. QED
    BY <2>1, <2>5, <2>6, BuildGoesOn
<1>7. ASSUME NEW e \in Evals, MarkVenv(e) PROVE EvaluatorsInv'
  <2>1. /\ thread[e].at = "mark"
        /\ venv' = [venv EXCEPT !.mark = thread[e].want]
        /\ thread' = [thread EXCEPT ![e].at = "done"]
        /\ UNCHANGED <<published, requirements, venvLock, eval, child>> /\ Noted
    BY <1>7 DEF MarkVenv, cache
  <2> DEFINE want == thread[e].want
  <2>2. want \in Nat /\ thread[e].want = want /\ venv' = [venv EXCEPT !.mark = want]
    BY <1>0, <2>1 DEF EnvironmentTyped, Thread
  <2> HIDE DEF want
  <2>3. /\ thread' \in [Evals -> Thread]
        /\ thread'[e].at = "done"
        /\ \A f \in Evals : f # e => thread'[f] = thread[f]
    BY <1>0, <2>1, ThreadGoesOn DEF ThreadStages
  <2>4. /\ venv' \in Environment /\ venv'.mark = want
        /\ venv'.python = venv.python /\ venv'.deps = venv.deps
    BY <1>0, <2>2 DEF EnvironmentTyped, Environment
  <2>5. EnvironmentTyped'
    BY <1>0, <1>a, <2>1, <2>3, <2>4 DEF EnvironmentTyped
  <2>6. ASSUME ~astray PROVE /\ \A f \in Evals : BuildFits(f)' /\ WaitFits(f)'
                            /\ MarkedMeansBuilt'
    <3>1. e \in Building /\ BuildFits(e) /\ WaitFits(e)
      BY <2>1, <2>6 DEF Building, EvaluatorsInv
    <3>2. venv.python /\ venv.deps >= want /\ 0 < want
      BY <2>1, <2>2, <3>1 DEF BuildFits
    <3>3. BuildFits(e)'
      BY <2>3 DEF BuildFits
    <3>4. WaitFits(e)'
      BY <2>1, <2>2, <2>3, <2>4, <3>1, <3>2 DEF WaitFits, At
    <3>5. MarkedMeansBuilt'
      BY <2>1, <2>4, <2>6, <3>2 DEF EvaluatorsInv, MarkedMeansBuilt
    <3>6. QED
      BY <2>1, <2>3, <2>6, <3>1, <3>3, <3>4, <3>5, BuilderSteps
  <2>7. QED
    BY <2>1, <2>5, <2>6, BuildGoesOn
<1>8. ASSUME NEW e \in Evals, UseVenv(e) PROVE EvaluatorsInv'
  <2>1. /\ At(e) = "waiting" /\ venvLock' = Nobody
        /\ thread' = [thread EXCEPT ![e] = NoThread]
        /\ UNCHANGED <<published, requirements, venv>> /\ Noted
    BY <1>8 DEF UseVenv, cache
  <2>2. PICK at \in {"running", "over"} : GoOn(e, at)
    BY <1>8 DEF UseVenv
  <2>3. /\ thread' \in [Evals -> Thread] /\ thread'[e].at = "none"
        /\ \A f \in Evals : f # e => thread'[f] = thread[f]
    BY <1>0, <2>1, RecordsTyped, ThreadSet DEF NoThread
  <2>4. /\ child' \in [Evals -> Child]
        /\ \A f \in Evals :
             \/ child'[f] = child[f]
             \/ f = e /\ thread[e].at = "done" /\ child'[e].python = thread[e].python
                /\ child'[e].deps = venv.deps
    <3>1. CASE UNCHANGED child
      BY <1>0, <3>1 DEF EnvironmentTyped
    <3>2. CASE /\ thread[e].at = "done"
               /\ child' = [child EXCEPT ![e] =
                    [alive |-> TRUE, python |-> thread[e].python, deps |-> venv.deps]]
      <4>1. [alive |-> TRUE, python |-> thread[e].python, deps |-> venv.deps] \in Child
        BY <1>0 DEF EnvironmentTyped, Child, Thread, Environment
      <4>2. QED
        BY <1>0, <3>2, <4>1 DEF EnvironmentTyped
    <3>3. QED
      BY <1>8, <3>1, <3>2 DEF UseVenv
  <2>5. EnvironmentTyped'
    BY <1>0, <1>a, <2>1, <2>2, <2>3, <2>4, GoesOn DEF EnvironmentTyped
  <2>6. ASSUME ~astray PROVE /\ \A f \in Evals : BuildFits(f)' /\ WaitFits(f)'
                            /\ MarkedMeansBuilt'
    <3>1. \A f \in Evals : f # e => f \notin Building /\ At(f) # "waiting"
      BY <2>1, <2>6, OnlyBuilder
    <3>2. \A f \in Evals : BuildFits(f)'
      BY <2>3, <3>1 DEF BuildFits, Building
    <3>3. \A f \in Evals : WaitFits(f)'
      BY <1>0, <2>2, <3>1, GoesOn DEF WaitFits
    <3>4. WaitFits(e) /\ MarkedMeansBuilt
      BY <2>6 DEF EvaluatorsInv
    <3>5. thread[e].at = "done" /\ thread[e].python = "venv" => venv.deps # 0
      BY <1>0, <2>1, <2>6, <3>4 DEF WaitFits, MarkedMeansBuilt, EnvironmentTyped, Environment
    <3>6. MarkedMeansBuilt'
      BY <2>1, <2>4, <2>6, <3>4, <3>5 DEF MarkedMeansBuilt
    <3>7. QED
      BY <3>2, <3>3, <3>6
  <2>7. QED
    BY <2>1, <2>5, <2>6, BuildGoesOn
<1>9. ASSUME NEW e \in Evals, ChildEnds(e) \/ OrphanEnds(e) PROVE EvaluatorsInv'
  <2>1. /\ UNCHANGED <<published, requirements, venv, venvLock, thread>> /\ Noted
        /\ child' = [child EXCEPT ![e].alive = FALSE]
        /\ GoOn(e, "over") \/ UNCHANGED eval
    BY <1>9 DEF ChildEnds, OrphanEnds, cache
  <2>2. /\ eval' \in [Evals -> Evaluation]
        /\ \A f \in Evals : At(f)' = "waiting" => At(f) = "waiting"
    BY <1>0, <2>1, GoesOn DEF EnvironmentTyped, At
  <2>3. EnvironmentTyped'
    BY <1>0, <1>a, <2>1, <2>2, ChildrenEnd DEF EnvironmentTyped
  <2>4. requirements <= requirements'
    BY <1>0, <2>1 DEF EnvironmentTyped
  <2>5. QED
    BY <1>0, <2>1, <2>2, <2>3, <2>4, ChildrenEnd, LookingUpBuildsNothing
<1>10. ASSUME NEW e \in Evals, CancelEval(e) PROVE EvaluatorsInv'
  <2>1. /\ GoOn(e, "over")
        /\ venvLock' = IF venvLock = e THEN Nobody ELSE venvLock
        /\ thread' \in {thread, [thread EXCEPT ![e] = NoThread]}
        /\ UNCHANGED <<published, requirements, venv, child>> /\ Noted
    BY <1>10 DEF CancelEval, cache
  <2>2. /\ thread' \in [Evals -> Thread]
        /\ \A f \in Evals : thread'[f] = thread[f] \/ (f = e /\ thread'[f].at = "none")
    <3>1. CASE UNCHANGED thread
      BY <1>0, <3>1 DEF EnvironmentTyped
    <3>2. CASE thread' = [thread EXCEPT ![e] = NoThread]
      BY <1>0, <3>2, RecordsTyped, ThreadSet DEF NoThread
    <3>3. QED
      BY <2>1, <3>1, <3>2
  <2>3. EnvironmentTyped'
    BY <1>0, <1>a, <2>1, <2>2, GoesOn DEF EnvironmentTyped
  <2>4. ASSUME ~astray, NEW f \in Evals PROVE BuildFits(f)' /\ WaitFits(f)'
    <3>1. BuildFits(f) /\ WaitFits(f)
      BY <2>4 DEF EvaluatorsInv
    <3>2. BuildFits(f)'
      BY <2>1, <2>2, <3>1 DEF BuildFits
    <3>3. WaitFits(f)'
      BY <1>0, <2>1, <2>2, <3>1, GoesOn DEF WaitFits
    <3>4. QED
      BY <3>2, <3>3
  <2>5. ~astray => MarkedMeansBuilt'
    BY <2>1 DEF EvaluatorsInv, MarkedMeansBuilt
  <2>6. QED
    BY <2>1, <2>3, <2>4, <2>5, BuildGoesOn
<1>11. CASE IndexExpires \/ Publish
  <2>1. /\ UNCHANGED <<requirements, venv, venvLock, thread, child, eval>> /\ Noted
        /\ published' \in {published, published + 1}
    BY <1>11 DEF IndexExpires, Publish
  <2>2. EnvironmentTyped' /\ requirements <= requirements'
    BY <1>0, <1>a, <2>1 DEF EnvironmentTyped
  <2>3. QED
    BY <2>1, <2>2, LookingUpBuildsNothing DEF At
<1>12. CASE ServerDies
  <2>1. /\ venvLock' = Nobody
        /\ eval' = [e \in Evals |-> IF At(e) = "new" THEN eval[e] ELSE [eval[e] EXCEPT !.at = "over"]]
        /\ thread' = [e \in Evals |-> NoThread]
        /\ UNCHANGED <<published, requirements, venv, child>> /\ Noted
    BY <1>12 DEF ServerDies
  <2>2. eval' \in [Evals -> Evaluation] /\ \A e \in Evals : At(e)' # "waiting"
    BY <1>0, <2>1 DEF EnvironmentTyped, Evaluation, At
  <2>3. thread' \in [Evals -> Thread] /\ \A e \in Evals : thread'[e].at = "none"
    BY <2>1, RecordsTyped DEF NoThread
  <2>4. EnvironmentTyped'
    BY <1>0, <1>a, <2>1, <2>2, <2>3 DEF EnvironmentTyped
  <2>5. \A e \in Evals : BuildFits(e)' /\ WaitFits(e)'
    BY <2>2, <2>3 DEF BuildFits, WaitFits
  <2>6. ~astray => MarkedMeansBuilt'
    BY <2>1 DEF EvaluatorsInv, MarkedMeansBuilt
  <2>7. QED
    BY <2>1, <2>4, <2>5, <2>6, BuildGoesOn
<1>13. CASE UNCHANGED evars
  BY <1>13 DEF evars, EvaluatorsInv, EnvironmentTyped, BuildFits, WaitFits, MarkedMeansBuilt,
               Building, At
<1>14. QED
  BY <1>1, <1>3, <1>4, <1>5, <1>6, <1>7, <1>8, <1>9, <1>10, <1>11, <1>12, <1>13
     DEF EvaluatorsNext, EvaluatorsStep, EvalStep, ThreadStep

-----------------------------------------------------------------------------
(* Proofs: the migrator.                                                   *)

LEMMA IdleCall == Idle \in Call /\ Idle.at = "idle" /\ Idle.op = "none"
BY DEF Idle, Call, Stages

LEMMA MigratorStarts == MigratorInit => MigratorInv
<1> SUFFICES ASSUME MigratorInit PROVE MigratorInv
  OBVIOUS
<1>1. LockDiscipline
  BY IdleCall DEF MigratorInit, LockDiscipline, Migrates
<1>2. \A p \in Procs : MigrationFits(p, 0) /\ ForceFits(p, 0)
  BY IdleCall DEF MigratorInit, MigrationFits, ForceFits, Migrates
<1>3. RowsFit(0)
  BY DEF MigratorInit, RowsFit
<1>4. SchemaAt(0)
  BY <1>2, <1>3, MigratorAssumption DEF SchemaAt, MigratorInit
<1>5. \E k \in 0 .. Latest : SchemaAt(k)
  BY <1>4, MigratorAssumption
<1>6. WorkTyped
  BY IdleCall DEF MigratorInit, WorkTyped
<1>7. QED
  BY <1>1, <1>5, <1>6 DEF MigratorInit, MigratorInv

\* What a step of one process does to its call.
CallBecomes(p, c) ==
  /\ c \in Call
  /\ call' = [call EXCEPT ![p] = c]

LEMMA CallsStay ==
  ASSUME LockDiscipline, NEW p \in Procs, NEW c, CallBecomes(p, c)
  PROVE  /\ call' \in [Procs -> Call] /\ call'[p] = c
         /\ \A q \in Procs : q # p => call'[q] = call[q]
BY DEF LockDiscipline, CallBecomes

LEMMA GoingTo ==
  ASSUME LockDiscipline, NEW p \in Procs, NEW at \in Stages, GoTo(p, at)
  PROVE  \E c \in Call : /\ CallBecomes(p, c)
                         /\ c.op = call[p].op /\ c.at = at
                         /\ c.version = call[p].version /\ c.last = call[p].last
<1> DEFINE c == [call[p] EXCEPT !.at = at]
<1>1. /\ c \in Call /\ c.op = call[p].op /\ c.at = at
      /\ c.version = call[p].version /\ c.last = call[p].last
  BY DEF LockDiscipline, Call
<1>2. call' = [call EXCEPT ![p] = c]
  BY DEF GoTo
<1>3. QED
  BY <1>1, <1>2 DEF CallBecomes

\* The discipline of the lock is kept by whoever keeps it for itself.
LEMMA LockKept ==
  ASSUME LockDiscipline, NEW p \in Procs, NEW c, CallBecomes(p, c),
         c.at = "idle" <=> c.op = "none",
         c.at \in {"lock", "read", "apply"} => c.op \in {"up", "down"},
         c.op \in {"up", "down"} /\ c.at # "lock" => lock' = p,
         \/ lock' = lock
         \/ lock = None /\ lock' = p
         \/ lock = p /\ lock' = None
  PROVE  LockDiscipline'
<1>1. /\ call' \in [Procs -> Call] /\ call'[p] = c
      /\ \A q \in Procs : q # p => call'[q] = call[q]
  BY CallsStay
<1>2. lock' \in Procs \union {None}
  BY DEF LockDiscipline
<1>3. ASSUME NEW q \in Procs
      PROVE  /\ call'[q].at = "idle" <=> call'[q].op = "none"
             /\ call'[q].at \in {"lock", "read", "apply"} => Migrates(q)'
             /\ Migrates(q)' /\ call'[q].at # "lock" => lock' = q
  <2>1. CASE q = p
    BY <1>1, <2>1 DEF Migrates
  <2>2. CASE q # p
    BY <1>1, <2>2, MigratorAssumption DEF LockDiscipline, Migrates
  <2>3. QED
    BY <2>1, <2>2
<1>4. QED
  BY <1>1, <1>2, <1>3 DEF LockDiscipline

\* What is left to show of a step: the discipline of the lock and, without the two
\* exceptions, where the schema is.
LEMMA MigratorAssembled ==
  ASSUME MigratorInv, LockDiscipline', WorkTyped', Ghosts,
         \A k \in 0 .. Latest :
           ~overlap /\ ~Overlapping' /\ SchemaAt(k) => \E j \in 0 .. Latest : SchemaAt(j)'
  PROVE  MigratorInv'
<1>1. rowLost' \in BOOLEAN /\ overlap' \in BOOLEAN /\ rowLost' = rowLost
  BY DEF Ghosts, MigratorInv
<1>2. ~overlap' => ~overlap /\ ~Overlapping'
  BY DEF Ghosts, MigratorInv
<1>3. ~rowLost' /\ ~overlap' => \E j \in 0 .. Latest : SchemaAt(j)'
  BY <1>1, <1>2 DEF MigratorInv
<1>4. QED
  BY <1>1, <1>3 DEF MigratorInv

LEMMA WorkIsOver ==
  ASSUME LockDiscipline, WorkTyped, NEW p \in Procs, NEW c, CallBecomes(p, c),
         c.at \notin {"delete", "insert", "apply"}, rows' \subseteq Row, schema' \subseteq Versions
  PROVE  WorkTyped'
<1>1. call'[p] = c /\ \A q \in Procs : q # p => call'[q] = call[q]
  BY CallsStay
<1>2. ASSUME NEW q \in Procs, call'[q].at \in {"delete", "insert", "apply"}
      PROVE  /\ call'[q].version \in Versions
             /\ call'[q].op = "up" => call'[q].last = Latest
             /\ call'[q].op = "down" => 1 <= call'[q].last /\ call'[q].last <= call'[q].version
  <2>1. q # p /\ call'[q] = call[q]
    BY <1>1, <1>2
  <2>2. call[q].at \in {"delete", "insert", "apply"}
    BY <1>2, <2>1
  <2>3. QED
    BY <2>1, <2>2 DEF WorkTyped
<1>3. QED
  BY <1>2 DEF WorkTyped

LEMMA WorkStays ==
  ASSUME LockDiscipline, WorkTyped, NEW p \in Procs, NEW c, CallBecomes(p, c),
         c.at \notin {"delete", "insert", "apply"}, UNCHANGED <<rows, schema>>
  PROVE  WorkTyped'
<1>1. rows' \subseteq Row /\ schema' \subseteq Versions
  BY DEF WorkTyped
<1>2. QED
  BY <1>1, WorkIsOver

LEMMA WorkGoesOn ==
  ASSUME LockDiscipline, WorkTyped, NEW p \in Procs, NEW c, CallBecomes(p, c),
         rows' \subseteq Row, schema' \subseteq Versions, c.version \in Versions,
         c.op = "up" => c.last = Latest,
         c.op = "down" => 1 <= c.last /\ c.last <= c.version
  PROVE  WorkTyped'
BY CallsStay DEF WorkTyped

\* While somebody holds the lock, nobody else changes anything.
LEMMA HolderIsAlone ==
  ASSUME LockDiscipline, NEW k \in 0 .. Latest, SchemaAt(k), NEW p \in Procs, lock = p
  PROVE  /\ \A q \in Procs : call[q].op # "force"
         /\ \A q \in Procs : q # p =>
              ~(Migrates(q) /\ call[q].at \in {"delete", "insert", "apply"})
         /\ \A q \in Procs : call[q].at = "insert" => q = p
<1>1. \A q \in Procs : call[q].op # "force"
  BY MigratorAssumption DEF SchemaAt, ForceFits
<1>2. \A q \in Procs : q # p => ~(Migrates(q) /\ call[q].at \in {"delete", "insert", "apply"})
  BY DEF LockDiscipline
<1>3. ASSUME NEW q \in Procs, call[q].at = "insert" PROVE q = p
  <2>1. call[q].op # "none" /\ call[q] \in Call
    BY <1>3 DEF LockDiscipline
  <2>2. Migrates(q)
    BY <1>1, <2>1 DEF Migrates, Call
  <2>3. QED
    BY <1>2, <1>3, <2>2
<1>4. QED
  BY <1>1, <1>2, <1>3

\* So the others fit wherever its step leads.
LEMMA HolderSteps ==
  ASSUME LockDiscipline, NEW k \in 0 .. Latest, SchemaAt(k), NEW p \in Procs, lock = p,
         NEW c, CallBecomes(p, c), c.op # "force",
         NEW j \in 0 .. Latest, schema' = 1 .. j, RowsFit(j)', MigrationFits(p, j)'
  PROVE  \E i \in 0 .. Latest : SchemaAt(i)'
<1>1. /\ call' \in [Procs -> Call] /\ call'[p] = c
      /\ \A q \in Procs : q # p => call'[q] = call[q]
  BY CallsStay
<1>2. ASSUME NEW q \in Procs PROVE MigrationFits(q, j)' /\ ForceFits(q, j)'
  <2>1. ForceFits(q, j)'
    BY <1>1, HolderIsAlone DEF ForceFits
  <2>2. MigrationFits(q, j)'
    BY <1>1, HolderIsAlone DEF MigrationFits, Migrates
  <2>3. QED
    BY <2>1, <2>2
<1>3. SchemaAt(j)'
  BY <1>2 DEF SchemaAt
<1>4. QED
  BY <1>3

\* A step that leaves the tables as they are, and leads one process to where it
\* changes nothing.
LEMMA TablesStay ==
  ASSUME LockDiscipline, NEW k \in 0 .. Latest, SchemaAt(k), NEW p \in Procs,
         NEW c, CallBecomes(p, c), c.at \notin {"delete", "insert", "apply"},
         c.op = "force" => call[p].op = "force" /\ c.version = call[p].version,
         UNCHANGED <<rows, schema>>, table' = table \/ table' = TRUE,
         lock' = lock \/ lock' = None \/ \A q \in Procs : call'[q].op # "force",
         rows = {} => k = 0 \/ \E q \in Procs : call'[q].at = "insert"
  PROVE  \E j \in 0 .. Latest : SchemaAt(j)'
<1>1. /\ call' \in [Procs -> Call] /\ call'[p] = c
      /\ \A q \in Procs : q # p => call'[q] = call[q]
  BY CallsStay
<1>2. RowsFit(k)'
  BY DEF SchemaAt, RowsFit
<1>3. ASSUME NEW q \in Procs PROVE MigrationFits(q, k)' /\ ForceFits(q, k)'
  <2>1. MigrationFits(q, k) /\ ForceFits(q, k) /\ ForceFits(p, k)
    BY DEF SchemaAt
  <2>2. table \in BOOLEAN
    BY DEF SchemaAt, RowsFit
  <2>3. MigrationFits(q, k)'
    BY <1>1, <2>1, <2>2 DEF MigrationFits, Migrates
  <2>4. ForceFits(q, k)'
    BY <1>1, <2>1, <2>2 DEF ForceFits
  <2>5. QED
    BY <2>3, <2>4
<1>4. SchemaAt(k)'
  BY <1>2, <1>3 DEF SchemaAt
<1>5. QED
  BY <1>4

\* Calls that end, and calls that wait for the lock.
LEMMA CallsBeginAndEnd ==
  ASSUME MigratorInv, NEW p \in Procs,
         AcquireLock(p) \/ LockTimeout(p) \/ ApplyFails(p) \/ Unlock(p)
  PROVE  MigratorInv'
<1>0. LockDiscipline
  BY DEF MigratorInv
<1>1. PICK c \in Call :
        /\ CallBecomes(p, c)
        /\ c.at \in {"idle", "read", "unlock"}
        /\ c.op = "none" \/ (c.op = call[p].op /\ c.version = call[p].version)
        /\ c.at = "idle" <=> c.op = "none"
        /\ c.at = "read" => call[p].at = "lock" /\ lock = None /\ lock' = p
        /\ c.at = "unlock" => call[p].at = "apply" /\ lock' = lock
        /\ c.at = "idle" => \/ call[p].at = "lock" /\ lock' = lock
                            \/ /\ call[p].at = "unlock"
                               /\ lock' = IF lock = p THEN None ELSE lock
  <2>1. CASE AcquireLock(p)
    BY <1>0, <2>1, GoingTo DEF AcquireLock, Stages, LockDiscipline, Migrates
  <2>2. CASE LockTimeout(p)
    BY <2>2, IdleCall DEF LockTimeout, CallBecomes, db
  <2>3. CASE ApplyFails(p)
    BY <1>0, <2>3, GoingTo DEF ApplyFails, Stages, db, LockDiscipline, Migrates
  <2>4. CASE Unlock(p)
    BY <2>4, IdleCall DEF Unlock, CallBecomes
  <2>5. QED
    BY <2>1, <2>2, <2>3, <2>4
<1>2. UNCHANGED <<table, rows, schema>> /\ Ghosts
  BY DEF AcquireLock, LockTimeout, ApplyFails, Unlock, db
<1>3. LockDiscipline'
  <2>1. c.at \in {"lock", "read", "apply"} => c.op \in {"up", "down"}
    BY <1>0, <1>1 DEF LockDiscipline, Migrates
  <2>2. c.op \in {"up", "down"} /\ c.at # "lock" => lock' = p
    BY <1>0, <1>1 DEF LockDiscipline, Migrates
  <2>3. \/ lock' = lock
        \/ lock = None /\ lock' = p
        \/ lock = p /\ lock' = None
    BY <1>1
  <2>4. QED
    BY <1>0, <1>1, <2>1, <2>2, <2>3, LockKept
<1>4. ASSUME NEW k \in 0 .. Latest, ~Overlapping', SchemaAt(k)
      PROVE  \E j \in 0 .. Latest : SchemaAt(j)'
  <2>1. /\ call' \in [Procs -> Call] /\ call'[p] = c
        /\ \A q \in Procs : q # p => call'[q] = call[q]
    BY <1>0, <1>1, CallsStay
  <2>2. lock' = lock \/ lock' = None \/ \A q \in Procs : call'[q].op # "force"
    BY <1>4 DEF Overlapping
  <2>3. call[p].at # "insert"
    BY <1>1
  <2>4. rows = {} => k = 0 \/ \E q \in Procs : call'[q].at = "insert"
    BY <1>4, <2>1, <2>3 DEF SchemaAt, RowsFit
  <2>5. c.op = "force" => call[p].op = "force" /\ c.version = call[p].version
    BY <1>1
  <2>6. QED
    BY <1>0, <1>1, <1>2, <1>4, <2>2, <2>4, <2>5, TablesStay
<1>5. WorkTyped'
  BY <1>0, <1>1, <1>2, WorkStays DEF MigratorInv
<1>6. QED
  BY <1>2, <1>3, <1>4, <1>5, MigratorAssembled

LEMMA DyingKeeps ==
  ASSUME MigratorInv, NEW p \in Procs, Die(p)
  PROVE  MigratorInv'
<1>0. LockDiscipline
  BY DEF MigratorInv
<1>1. /\ CallBecomes(p, Idle) /\ lock' = IF lock = p THEN None ELSE lock
      /\ UNCHANGED <<table, rows, schema, overlap>>
      /\ rowLost' = (rowLost \/ call[p].at = "insert")
  BY IdleCall DEF Die, CallBecomes
<1>2. LockDiscipline'
  BY <1>0, <1>1, IdleCall, LockKept
<1>3. ASSUME NEW k \in 0 .. Latest, call[p].at # "insert", SchemaAt(k)
      PROVE  \E j \in 0 .. Latest : SchemaAt(j)'
  <2>1. /\ call' \in [Procs -> Call] /\ call'[p] = Idle
        /\ \A q \in Procs : q # p => call'[q] = call[q]
    BY <1>0, <1>1, CallsStay
  <2>2. lock' = lock \/ lock' = None
    BY <1>1
  <2>3. rows = {} => k = 0 \/ \E q \in Procs : call'[q].at = "insert"
    BY <1>3, <2>1 DEF SchemaAt, RowsFit
  <2>4. QED
    BY <1>0, <1>1, <1>3, <2>2, <2>3, IdleCall, TablesStay
<1>4. rowLost' \in BOOLEAN /\ overlap' \in BOOLEAN /\ (~rowLost' => ~rowLost /\ call[p].at # "insert")
  BY <1>1 DEF MigratorInv
<1>5. ~rowLost' /\ ~overlap' => \E j \in 0 .. Latest : SchemaAt(j)'
  BY <1>1, <1>3, <1>4 DEF MigratorInv
<1>6. WorkTyped'
  BY <1>0, <1>1, IdleCall, WorkStays DEF MigratorInv
<1>7. QED
  BY <1>2, <1>4, <1>5, <1>6 DEF MigratorInv

LEMMA NewestExists ==
  ASSUME schema \subseteq Versions, schema # {}
  PROVE  Newest \in schema
<1> DEFINE T == {n \in Nat : \E v \in schema : v = Latest - n}
<1>1. \A v \in schema : v \in Nat /\ v <= Latest /\ Latest - v \in T
  BY MigratorAssumption DEF Versions
<1>2. PICK n \in T : \A m \in T : n <= m
  <2>1. T # {}
    BY <1>1
  <2>2. T \subseteq Nat
    OBVIOUS
  <2> HIDE DEF T
  <2>3. QED
    BY <2>1, <2>2, LeastNumber
<1>3. PICK v \in schema : v = Latest - n
  BY <1>2
<1>4. \A w \in schema : w <= v
  <2> TAKE w \in schema
  <2>1. w \in Nat /\ v \in Nat /\ n \in Nat /\ Latest \in Nat
    BY <1>1, <1>3, MigratorAssumption
  <2>2. n <= Latest - w
    BY <1>1, <1>2
  <2>3. QED
    BY <1>3, <2>1, <2>2
<1>5. QED
  BY <1>4 DEF Newest

LEMMA NewestIsHeight ==
  ASSUME NEW k \in 0 .. Latest, schema = 1 .. k, schema # {}
  PROVE  1 <= k /\ Newest = k
<1>1. k \in schema /\ \A w \in schema : w <= k
  BY MigratorAssumption
<1>2. \A v \in schema : (\A w \in schema : w <= v) => v = k
  BY <1>1, MigratorAssumption
<1>3. Newest \in schema /\ \A w \in schema : w <= Newest
  BY <1>1 DEF Newest
<1>4. QED
  BY <1>1, <1>2, <1>3, MigratorAssumption

LEMMA BeginningKeeps ==
  ASSUME MigratorInv, NEW p \in Procs, NEW op \in Ops, Begin(p, op)
  PROVE  MigratorInv'
<1>0. LockDiscipline /\ call[p] = Idle
  BY DEF MigratorInv, Begin
<1>w. WorkTyped
  BY DEF MigratorInv
<1> DEFINE c == CASE op = "status" -> Idle
                  [] op = "force"  -> [op |-> op, at |-> "delete", version |-> Newest, last |-> Newest]
                  [] OTHER         -> [Idle EXCEPT !.op = op, !.at = "lock"]
<1>1. /\ op = "force" => schema # {}
      /\ table' = TRUE /\ UNCHANGED <<rows, schema, lock>> /\ Ghosts
      /\ call' = [call EXCEPT ![p] = c]
  BY DEF Begin
<1>2. CASE op = "status"
  <2>1. c = Idle
    BY <1>2
  <2>2. CallBecomes(p, Idle)
    BY <1>1, <2>1, IdleCall DEF CallBecomes
  <2>3. LockDiscipline'
    BY <1>0, <1>1, <2>2, IdleCall, LockKept
  <2>4. ASSUME NEW k \in 0 .. Latest, SchemaAt(k) PROVE \E j \in 0 .. Latest : SchemaAt(j)'
    <3>1. rows = {} => k = 0 \/ \E q \in Procs : call'[q].at = "insert"
      BY <1>0, <2>2, <2>4, CallsStay, IdleCall DEF SchemaAt, RowsFit
    <3>2. QED
      BY <1>0, <1>1, <2>2, <2>4, <3>1, IdleCall, TablesStay
  <2>5. WorkTyped'
    BY <1>0, <1>w, <1>1, <2>2, IdleCall, WorkStays
  <2>6. QED
    BY <1>1, <2>3, <2>4, <2>5, MigratorAssembled
<1>3. CASE op \in {"up", "down"}
  <2> DEFINE d == [Idle EXCEPT !.op = op, !.at = "lock"]
  <2>1. c = d
    BY <1>3
  <2>2. d \in Call /\ d.op = op /\ d.at = "lock"
    BY <1>3, IdleCall DEF Call, Stages
  <2>3. CallBecomes(p, d)
    BY <1>1, <2>1, <2>2 DEF CallBecomes
  <2> HIDE DEF d
  <2>4. LockDiscipline'
    BY <1>0, <1>1, <1>3, <2>2, <2>3, LockKept
  <2>5. ASSUME NEW k \in 0 .. Latest, SchemaAt(k) PROVE \E j \in 0 .. Latest : SchemaAt(j)'
    <3>1. rows = {} => k = 0 \/ \E q \in Procs : call'[q].at = "insert"
      BY <1>0, <2>3, <2>5, CallsStay, IdleCall DEF SchemaAt, RowsFit
    <3>2. QED
      BY <1>0, <1>1, <1>3, <2>2, <2>3, <2>5, <3>1, TablesStay
  <2>6. WorkTyped'
    BY <1>0, <1>w, <1>1, <2>2, <2>3, WorkStays
  <2>7. QED
    BY <1>1, <2>4, <2>5, <2>6, MigratorAssembled
<1>4. CASE op = "force"
  <2> DEFINE d == [op |-> "force", at |-> "delete", version |-> Newest, last |-> Newest]
  <2>1. c = d
    BY <1>4
  <2>2. call' = [call EXCEPT ![p] = d]
    BY <1>1, <2>1
  <2>a. Newest \in Versions
    BY <1>w, <1>1, <1>4, NewestExists DEF WorkTyped
  <2>b. CallBecomes(p, d)
    BY <2>2, <2>a, MigratorAssumption DEF CallBecomes, Call, Stages, Versions
  <2>3. LockDiscipline' /\ WorkTyped'
    <3>1. d.at = "delete" /\ d.op = "force" /\ d.version = Newest
      OBVIOUS
    <3> HIDE DEF d
    <3>2. LockDiscipline'
      BY <1>0, <1>1, <2>b, <3>1, LockKept
    <3>3. WorkTyped'
      BY <1>0, <1>w, <1>1, <2>a, <2>b, <3>1, WorkGoesOn DEF WorkTyped
    <3>4. QED
      BY <3>2, <3>3
  <2>4. ASSUME NEW k \in 0 .. Latest, ~Overlapping', SchemaAt(k)
        PROVE  \E j \in 0 .. Latest : SchemaAt(j)'
    <3>1. 1 <= k /\ Newest = k
      BY <1>1, <1>4, <2>4, NewestIsHeight DEF SchemaAt
    <3>3. /\ call'[p] = d
          /\ \A q \in Procs : q # p => call'[q] = call[q]
      BY <1>0, <2>b, CallsStay
    <3>4. lock = None
      <4>1. call'[p].op = "force"
        BY <3>3
      <4>2. QED
        BY <1>1, <2>4, <4>1 DEF Overlapping
    <3>5. RowsFit(k)'
      BY <1>0, <1>1, <2>4, <3>3, IdleCall DEF SchemaAt, RowsFit
    <3>6. ASSUME NEW q \in Procs PROVE MigrationFits(q, k)' /\ ForceFits(q, k)'
      <4>1. MigrationFits(q, k) /\ ForceFits(q, k)
        BY <2>4 DEF SchemaAt
      <4>2. CASE q = p
        BY <1>1, <3>1, <3>3, <3>4, <4>2 DEF MigrationFits, ForceFits, Migrates
      <4>3. CASE q # p
        BY <1>1, <3>3, <4>1, <4>3 DEF MigrationFits, ForceFits, Migrates
      <4>4. QED
        BY <4>2, <4>3
    <3>7. SchemaAt(k)'
      BY <1>1, <2>4, <3>5, <3>6 DEF SchemaAt
    <3>8. QED
      BY <3>7
  <2>5. QED
    BY <1>1, <2>3, <2>4, MigratorAssembled
<1>5. QED
  BY <1>2, <1>3, <1>4, MigratorAssumption

LEMMA ReadingKeeps ==
  ASSUME MigratorInv, NEW p \in Procs, ReadStatus(p)
  PROVE  MigratorInv'
<1>0. LockDiscipline /\ WorkTyped
  BY DEF MigratorInv
<1>1. call[p].at = "read" /\ Migrates(p) /\ lock = p /\ call[p] \in Call
  BY <1>0 DEF ReadStatus, LockDiscipline
<1>2. UNCHANGED <<table, rows, schema, lock>> /\ Ghosts
  BY DEF ReadStatus, db
<1>3. CASE GoTo(p, "unlock")
  <2>1. PICK c \in Call : CallBecomes(p, c) /\ c.op = call[p].op /\ c.at = "unlock"
    BY <1>0, <1>3, GoingTo DEF Stages
  <2>2. LockDiscipline' /\ WorkTyped'
    <3>1. LockDiscipline'
      BY <1>0, <1>1, <1>2, <2>1, LockKept DEF Migrates
    <3>2. WorkTyped'
      BY <1>0, <1>2, <2>1, WorkStays
    <3>3. QED
      BY <3>1, <3>2
  <2>3. ASSUME NEW k \in 0 .. Latest, SchemaAt(k) PROVE \E j \in 0 .. Latest : SchemaAt(j)'
    <3>1. rows = {} => k = 0
      BY <1>0, <1>1, <2>3, HolderIsAlone DEF SchemaAt, RowsFit
    <3>2. c.op # "force"
      BY <1>1, <2>1 DEF Migrates
    <3>3. QED
      BY <1>0, <1>2, <2>1, <2>3, <3>1, <3>2, TablesStay
  <2>4. QED
    BY <1>2, <2>2, <2>3, MigratorAssembled
<1>4. ASSUME NEW status \in Statuses, NEW steps \in Versions,
             table, ~status.dirty,
             call[p].op = "up" => status.version + 1 <= Latest,
             call[p].op = "down" => status.version # 0,
             NEW c, c = [op |-> call[p].op, at |-> "delete",
                         version |-> IF call[p].op = "up" THEN status.version + 1
                                     ELSE status.version,
                         last |-> IF call[p].op = "up" THEN Latest
                                  ELSE IF steps < status.version THEN status.version - steps + 1
                                  ELSE 1],
             call' = [call EXCEPT ![p] = c]
      PROVE  MigratorInv'
  <2>1. status.version \in 0 .. Latest /\ Latest \in Nat /\ steps \in Nat /\ 1 <= steps
    BY <1>0, MigratorAssumption DEF Statuses, WorkTyped, Row, Versions
  <2>2. /\ c.op = call[p].op /\ c.at = "delete"
        /\ c.op = "up" => c.version = status.version + 1 /\ c.last = Latest
        /\ c.op = "down" => /\ c.version = status.version
                            /\ 1 <= c.last /\ c.last <= status.version
    BY <1>4, <2>1
  <2>3. c \in Call /\ c.version \in Versions /\ c.op \in {"up", "down"}
    BY <1>1, <1>4, <2>1, <2>2 DEF Call, Stages, Versions, Migrates
  <2>4. CallBecomes(p, c)
    BY <1>4, <2>3 DEF CallBecomes
  <2>5. LockDiscipline'
    BY <1>0, <1>1, <1>2, <2>2, <2>3, <2>4, LockKept
  <2>6. WorkTyped'
    BY <1>0, <1>2, <2>2, <2>3, <2>4, WorkGoesOn DEF WorkTyped
  <2>7. ASSUME NEW k \in 0 .. Latest, SchemaAt(k) PROVE \E j \in 0 .. Latest : SchemaAt(j)'
    <3>1. status.version = k
      BY <1>0, <1>1, <1>4, <2>7, HolderIsAlone DEF SchemaAt, RowsFit, Statuses
    <3>2. /\ call'[p] = c
          /\ \A q \in Procs : q # p => call'[q] = call[q]
      BY <1>0, <2>4, CallsStay
    <3>3. RowsFit(k)'
      BY <1>0, <1>1, <1>2, <2>7, <3>2, HolderIsAlone DEF SchemaAt, RowsFit
    <3>4. MigrationFits(p, k)'
      BY <1>2, <1>4, <2>1, <2>2, <2>3, <3>1, <3>2 DEF MigrationFits
    <3>5. QED
      BY <1>0, <1>1, <1>2, <2>3, <2>4, <2>7, <3>3, <3>4, HolderSteps DEF SchemaAt
  <2>8. QED
    BY <1>2, <2>5, <2>6, <2>7, MigratorAssembled
<1>5. QED
  <2>1. PICK status \in Statuses, steps \in Versions :
          LET todo == IF call[p].op = "up" THEN Pending(status) ELSE Targets(status, steps)
              none == ~table \/ status.dirty
                      \/ IF call[p].op = "up" THEN todo.version > Latest ELSE status.version = 0
          IN  IF none THEN GoTo(p, "unlock")
              ELSE call' = [call EXCEPT ![p] = [op |-> @.op, at |-> "delete",
                                                version |-> todo.version, last |-> todo.last]]
    BY DEF ReadStatus
  <2>2. status.version \in 0 .. Latest /\ Latest \in Nat
    BY <1>0, MigratorAssumption DEF Statuses, WorkTyped, Row, Versions
  <2>3. CASE call[p].op = "up"
    <3>1. \/ GoTo(p, "unlock")
          \/ /\ table /\ ~status.dirty /\ status.version + 1 <= Latest
             /\ call' = [call EXCEPT ![p] = [op |-> call[p].op, at |-> "delete",
                                             version |-> status.version + 1, last |-> Latest]]
      BY <2>1, <2>2, <2>3 DEF Pending
    <3>2. QED
      BY <1>3, <1>4, <2>3, <3>1
  <2>4. CASE call[p].op = "down"
    <3> DEFINE last == IF steps < status.version THEN status.version - steps + 1 ELSE 1
    <3>1. \/ GoTo(p, "unlock")
          \/ /\ table /\ ~status.dirty /\ status.version # 0
             /\ call' = [call EXCEPT ![p] = [op |-> call[p].op, at |-> "delete",
                                             version |-> status.version, last |-> last]]
      BY <2>1, <2>4 DEF Targets
    <3>2. QED
      BY <1>3, <1>4, <2>4, <3>1
  <2>5. QED
    BY <1>1, <2>3, <2>4 DEF Migrates

\* A force changes the row while nobody migrates; other forces want the same row.
LEMMA ForceSteps ==
  ASSUME LockDiscipline, NEW k \in 0 .. Latest, SchemaAt(k), NEW p \in Procs,
         call[p].op = "force", NEW c, CallBecomes(p, c),
         c.op = "force", c.version = call[p].version,
         UNCHANGED <<table, schema, lock>>, RowsFit(k)', \A r \in rows' : r \in rows \/ ~r.dirty,
         c.at = "insert" => rows' = {}
  PROVE  \E i \in 0 .. Latest : SchemaAt(i)'
<1>1. /\ call' \in [Procs -> Call] /\ call'[p] = c
      /\ \A q \in Procs : q # p => call'[q] = call[q]
  BY CallsStay
<1>2. lock = None
  BY DEF SchemaAt, ForceFits
<1>3. ASSUME NEW q \in Procs PROVE MigrationFits(q, k)' /\ ForceFits(q, k)'
  <2>1. ForceFits(q, k) /\ ForceFits(p, k)
    BY DEF SchemaAt
  <2>2. Migrates(q) => call[q].at \in {"idle", "lock"}
    BY <1>2, MigratorAssumption DEF LockDiscipline
  <2>3. MigrationFits(q, k)'
    BY <1>1, <2>2 DEF MigrationFits, Migrates
  <2>4. CASE q = p
    BY <1>1, <1>2, <2>1, <2>3, <2>4 DEF ForceFits
  <2>5. CASE q # p
    BY <1>1, <1>2, <2>1, <2>3, <2>5 DEF ForceFits
  <2>6. QED
    BY <2>4, <2>5
<1>4. SchemaAt(k)'
  BY <1>3 DEF SchemaAt
<1>5. QED
  BY <1>4

LEMMA DeletingKeeps ==
  ASSUME MigratorInv, NEW p \in Procs, DeleteRow(p)
  PROVE  MigratorInv'
<1>0. LockDiscipline /\ WorkTyped
  BY DEF MigratorInv
<1>1. /\ call[p].at = "delete" /\ call[p] \in Call
      /\ (call[p].op \in {"up", "down"} /\ lock = p) \/ call[p].op = "force"
      /\ call[p].version \in Versions
      /\ call[p].op = "up" => call[p].last = Latest
      /\ call[p].op = "down" => 1 <= call[p].last /\ call[p].last <= call[p].version
  BY <1>0 DEF DeleteRow, LockDiscipline, WorkTyped, Call, Migrates
<1>2. UNCHANGED <<table, schema, lock>> /\ Ghosts
  BY DEF DeleteRow
<1>3. PICK c \in Call :
        /\ CallBecomes(p, c) /\ c.op = call[p].op
        /\ c.version = call[p].version /\ c.last = call[p].last
        /\ \/ c.at = "insert" /\ rows' = {} /\ table
           \/ c.at = "unlock" /\ rows' = rows
  <2>1. \/ GoTo(p, "insert") /\ rows' = {} /\ table
        \/ GoTo(p, "unlock") /\ rows' = rows
    BY DEF DeleteRow
  <2>2. QED
    BY <1>0, <2>1, GoingTo DEF Stages
<1>4. LockDiscipline' /\ WorkTyped'
  <2>1. LockDiscipline'
    BY <1>0, <1>1, <1>2, <1>3, LockKept
  <2>2. WorkTyped'
    BY <1>0, <1>1, <1>2, <1>3, WorkGoesOn DEF WorkTyped
  <2>3. QED
    BY <2>1, <2>2
<1>5. ASSUME NEW k \in 0 .. Latest, SchemaAt(k) PROVE \E j \in 0 .. Latest : SchemaAt(j)'
  <2>1. /\ call' \in [Procs -> Call] /\ call'[p] = c
        /\ \A q \in Procs : q # p => call'[q] = call[q]
    BY <1>0, <1>3, CallsStay
  <2>2. RowsFit(k) /\ MigrationFits(p, k)
    BY <1>5 DEF SchemaAt
  <2>3. RowsFit(k)'
    <3>1. CASE c.at = "insert" /\ rows' = {} /\ table
      BY <1>2, <2>1, <2>2, <3>1 DEF RowsFit
    <3>2. CASE c.at = "unlock" /\ rows' = rows
      BY <1>1, <1>2, <2>1, <2>2, <3>2 DEF RowsFit
    <3>3. QED
      BY <1>3, <3>1, <3>2
  <2>4. CASE call[p].op = "force"
    BY <1>0, <1>2, <1>3, <1>5, <2>3, <2>4, ForceSteps
  <2>5. CASE call[p].op \in {"up", "down"} /\ lock = p
    <3>1. MigrationFits(p, k)'
      BY <1>1, <1>2, <1>3, <2>1, <2>2, <2>5 DEF MigrationFits, Migrates
    <3>2. schema' = 1 .. k
      BY <1>2, <1>5 DEF SchemaAt
    <3>3. QED
      BY <1>0, <1>3, <1>5, <2>3, <2>5, <3>1, <3>2, HolderSteps
  <2>6. QED
    BY <1>1, <2>4, <2>5
<1>6. QED
  BY <1>2, <1>4, <1>5, MigratorAssembled

LEMMA InsertingKeeps ==
  ASSUME MigratorInv, NEW p \in Procs, InsertRow(p)
  PROVE  MigratorInv'
<1>0. LockDiscipline /\ WorkTyped
  BY DEF MigratorInv
<1>1. /\ call[p].at = "insert" /\ call[p] \in Call
      /\ (call[p].op \in {"up", "down"} /\ lock = p) \/ call[p].op = "force"
      /\ call[p].version \in Versions
      /\ call[p].op = "up" => call[p].last = Latest
      /\ call[p].op = "down" => 1 <= call[p].last /\ call[p].last <= call[p].version
  BY <1>0 DEF InsertRow, LockDiscipline, WorkTyped, Call, Migrates
<1>2. UNCHANGED <<table, schema, lock>> /\ Ghosts
  BY DEF InsertRow
<1> DEFINE newRow == [version |-> call[p].version, dirty |-> call[p].op # "force"]
<1>3. newRow \in Row /\ newRow.version = call[p].version /\ (newRow.dirty <=> call[p].op # "force")
  BY <1>1 DEF Row
<1>4. PICK c \in Call :
        /\ CallBecomes(p, c) /\ c.op = call[p].op
        /\ c.version = call[p].version /\ c.last = call[p].last
        /\ \/ /\ c.at = IF c.op = "force" THEN "unlock" ELSE "apply"
              /\ table /\ (\A r \in rows : r.version # call[p].version)
              /\ rows' = rows \union {newRow}
           \/ /\ c.at = "unlock" /\ rows' = rows
              /\ ~table \/ \E r \in rows : r.version = call[p].version
  <2>1. \/ /\ GoTo(p, IF call[p].op = "force" THEN "unlock" ELSE "apply")
           /\ table /\ (\A r \in rows : r.version # call[p].version)
           /\ rows' = rows \union {newRow}
        \/ /\ GoTo(p, "unlock") /\ rows' = rows
           /\ ~table \/ \E r \in rows : r.version = call[p].version
    BY DEF InsertRow, Version
  <2>2. (IF call[p].op = "force" THEN "unlock" ELSE "apply") \in Stages /\ "unlock" \in Stages
    BY DEF Stages
  <2> HIDE DEF newRow
  <2>3. QED
    BY <1>0, <2>1, <2>2, GoingTo
<1> HIDE DEF newRow
<1>5. LockDiscipline' /\ WorkTyped'
  <2>1. LockDiscipline'
    BY <1>0, <1>1, <1>2, <1>4, LockKept
  <2>2. WorkTyped'
    BY <1>0, <1>1, <1>2, <1>3, <1>4, WorkGoesOn DEF WorkTyped
  <2>3. QED
    BY <2>1, <2>2
<1>6. ASSUME NEW k \in 0 .. Latest, SchemaAt(k) PROVE \E j \in 0 .. Latest : SchemaAt(j)'
  <2>1. /\ call' \in [Procs -> Call] /\ call'[p] = c
        /\ \A q \in Procs : q # p => call'[q] = call[q]
    BY <1>0, <1>4, CallsStay
  <2>2. RowsFit(k) /\ MigrationFits(p, k) /\ ForceFits(p, k) /\ schema' = 1 .. k
    BY <1>2, <1>6 DEF SchemaAt
  <2>3. CASE call[p].op = "force"
    <3>1. table /\ call[p].version = k /\ \A r \in rows : ~r.dirty
      BY <1>1, <2>2, <2>3 DEF ForceFits
    <3>2. \A r \in rows : r.version = k
      BY <2>2, <3>1 DEF RowsFit
    <3>3. rows' = {newRow} \/ (rows' = rows /\ rows # {})
      BY <1>4, <3>1, <3>2
    <3>4. RowsFit(k)'
      BY <1>2, <1>3, <2>2, <2>3, <3>1, <3>2, <3>3 DEF RowsFit
    <3>5. \A r \in rows' : r \in rows \/ ~r.dirty
      BY <1>3, <2>3, <3>3
    <3>6. c.at # "insert"
      BY <1>4
    <3>7. QED
      BY <1>0, <1>2, <1>4, <1>6, <2>3, <3>4, <3>5, <3>6, ForceSteps
  <2>4. CASE call[p].op \in {"up", "down"} /\ lock = p
    <3>1. rows = {} /\ table
      BY <1>1, <2>2, <2>4 DEF MigrationFits, Migrates
    <3>2. rows' = {newRow}
      BY <1>4, <3>1
    <3>3. RowsFit(k)'
      BY <1>2, <1>3, <2>4, <3>1, <3>2 DEF RowsFit
    <3>4. MigrationFits(p, k)'
      BY <1>1, <1>2, <1>4, <2>1, <2>2, <2>4, <3>1 DEF MigrationFits, Migrates
    <3>5. QED
      BY <1>0, <1>4, <1>6, <2>2, <2>4, <3>3, <3>4, HolderSteps
  <2>5. QED
    BY <1>1, <2>3, <2>4
<1>7. QED
  BY <1>2, <1>5, <1>6, MigratorAssembled

\* After a migration the call goes on to the next one or is through.
LEMMA NextMigrationIs ==
  ASSUME LockDiscipline, WorkTyped, NEW p \in Procs, call[p].at = "apply", NextMigration(p)
  PROVE  \E c \in Call :
           /\ CallBecomes(p, c) /\ c.op = call[p].op /\ c.last = call[p].last
           /\ \/ c.at = "unlock" /\ c.version = call[p].version
              \/ /\ c.at = "delete" /\ call[p].version # call[p].last
                 /\ c.version = IF c.op = "up" THEN call[p].version + 1 ELSE call[p].version - 1
<1>1. CASE GoTo(p, "unlock")
  BY <1>1, GoingTo DEF Stages
<1>2. CASE /\ call[p].version # call[p].last
           /\ call' = [call EXCEPT ![p].at = "delete",
                            ![p].version = IF call[p].op = "up" THEN @ + 1 ELSE @ - 1]
  <2> DEFINE v == IF call[p].op = "up" THEN call[p].version + 1 ELSE call[p].version - 1
  <2> DEFINE c == [call[p] EXCEPT !.at = "delete", !.version = v]
  <2>1. v \in Int
    BY DEF LockDiscipline, Call
  <2>2. call' = [call EXCEPT ![p] = c]
    BY <1>2
  <2>3. /\ c \in Call /\ c.op = call[p].op /\ c.at = "delete"
        /\ c.version = v /\ c.last = call[p].last
    <3> HIDE DEF v
    <3>1. QED
      BY <2>1 DEF LockDiscipline, Call, Stages
  <2>4. CallBecomes(p, c)
    BY <2>2, <2>3 DEF CallBecomes
  <2>5. c.version = IF c.op = "up" THEN call[p].version + 1 ELSE call[p].version - 1
    BY <2>3
  <2>6. c.last = call[p].last /\ c.op = call[p].op /\ c.at = "delete" /\ c \in Call
    BY <2>3
  <2> HIDE DEF c
  <2>7. QED
    BY <1>2, <2>4, <2>5, <2>6
<1>3. QED
  BY <1>1, <1>2 DEF NextMigration, Version

LEMMA ApplyingUpKeeps ==
  ASSUME MigratorInv, NEW p \in Procs, ApplyUp(p)
  PROVE  MigratorInv'
<1>0. LockDiscipline /\ WorkTyped
  BY DEF MigratorInv
<1>1. /\ call[p].at = "apply" /\ call[p].op = "up" /\ call[p] \in Call /\ lock = p
      /\ call[p].version \in Versions /\ call[p].last = Latest
  BY <1>0 DEF ApplyUp, LockDiscipline, WorkTyped, Call, Migrates
<1> DEFINE v == call[p].version
<1>2. /\ schema' = schema \union {v} /\ rows' = {[version |-> v, dirty |-> FALSE]}
      /\ table /\ UNCHANGED <<table, lock>> /\ Ghosts
  BY DEF ApplyUp, Version
<1>3. PICK c \in Call :
        /\ CallBecomes(p, c) /\ c.op = "up" /\ c.last = Latest
        /\ c.at = "unlock" \/ (c.at = "delete" /\ v # Latest /\ c.version = v + 1)
  BY <1>0, <1>1, NextMigrationIs DEF ApplyUp
<1>4. [version |-> v, dirty |-> FALSE] \in Row
  BY <1>1 DEF Row
<1>5. LockDiscipline' /\ WorkTyped'
  <2>1. LockDiscipline'
    BY <1>0, <1>1, <1>2, <1>3, LockKept
  <2>2. rows' \subseteq Row /\ schema' \subseteq Versions
    BY <1>0, <1>1, <1>2, <1>4 DEF WorkTyped
  <2>3. CASE c.at = "unlock"
    <3>1. c.at \notin {"delete", "insert", "apply"}
      BY <2>3
    <3>2. QED
      BY <1>0, <1>3, <2>1, <2>2, <3>1, WorkIsOver
  <2>4. CASE c.at = "delete" /\ v # Latest /\ c.version = v + 1
    <3>1. c.version \in Versions
      BY <1>1, <2>4, MigratorAssumption DEF Versions
    <3>2. QED
      BY <1>0, <1>3, <2>1, <2>2, <3>1, WorkGoesOn
  <2>5. QED
    BY <1>3, <2>1, <2>3, <2>4
<1>6. ASSUME NEW k \in 0 .. Latest, SchemaAt(k) PROVE \E j \in 0 .. Latest : SchemaAt(j)'
  <2>1. /\ call' \in [Procs -> Call] /\ call'[p] = c
        /\ \A q \in Procs : q # p => call'[q] = call[q]
    BY <1>0, <1>3, CallsStay
  <2>2. v = k + 1 /\ k + 1 \in 0 .. Latest /\ schema = 1 .. k /\ Latest \in Nat
    BY <1>1, <1>6, MigratorAssumption DEF SchemaAt, MigrationFits, Migrates
  <2>3. schema' = 1 .. (k + 1)
    BY <1>2, <2>2
  <2>4. RowsFit(k + 1)'
    BY <1>2, <1>4, <2>2 DEF RowsFit
  <2>5. MigrationFits(p, k + 1)'
    BY <1>2, <1>3, <2>1, <2>2 DEF MigrationFits, Migrates
  <2>6. QED
    BY <1>0, <1>1, <1>3, <1>6, <2>2, <2>3, <2>4, <2>5, HolderSteps
<1>7. QED
  BY <1>2, <1>5, <1>6, MigratorAssembled

LEMMA ApplyingDownKeeps ==
  ASSUME MigratorInv, NEW p \in Procs, ApplyDown(p)
  PROVE  MigratorInv'
<1>0. LockDiscipline /\ WorkTyped
  BY DEF MigratorInv
<1>1. /\ call[p].at = "apply" /\ call[p].op = "down" /\ call[p] \in Call /\ lock = p
      /\ call[p].version \in Versions
      /\ 1 <= call[p].last /\ call[p].last <= call[p].version
  BY <1>0 DEF ApplyDown, LockDiscipline, WorkTyped, Call, Migrates
<1> DEFINE v == call[p].version
<1> DEFINE last == call[p].last
<1>2. /\ \/ v = 1 /\ schema' = {} /\ rows' = {} /\ table' = FALSE
         \/ /\ v # 1 /\ schema' = schema \ {v} /\ table' = table
            /\ rows' = {[version |-> v - 1, dirty |-> FALSE]}
      /\ table /\ UNCHANGED lock /\ Ghosts
  BY DEF ApplyDown, Version
<1>3. PICK c \in Call :
        /\ CallBecomes(p, c) /\ c.op = "down" /\ c.last = last
        /\ c.at = "unlock" \/ (c.at = "delete" /\ v # last /\ c.version = v - 1)
  BY <1>0, <1>1, NextMigrationIs DEF ApplyDown
<1>4. /\ v \in Nat /\ last \in Int /\ Latest \in Nat
      /\ v # 1 => [version |-> v - 1, dirty |-> FALSE] \in Row
  BY <1>1, MigratorAssumption DEF Row, Versions, Call
<1>5. LockDiscipline' /\ WorkTyped'
  <2>1. LockDiscipline'
    BY <1>0, <1>1, <1>2, <1>3, LockKept
  <2>2. rows' \subseteq Row /\ schema' \subseteq Versions
    BY <1>0, <1>2, <1>4 DEF WorkTyped
  <2>3. CASE c.at = "unlock"
    <3>1. c.at \notin {"delete", "insert", "apply"}
      BY <2>3
    <3>2. QED
      BY <1>0, <1>3, <2>1, <2>2, <3>1, WorkIsOver
  <2>4. CASE c.at = "delete" /\ v # last /\ c.version = v - 1
    <3>1. c.version \in Versions /\ c.last <= c.version
      BY <1>1, <1>3, <1>4, <2>4, MigratorAssumption DEF Versions
    <3>2. QED
      BY <1>0, <1>1, <1>3, <2>1, <2>2, <3>1, WorkGoesOn
  <2>5. QED
    BY <1>3, <2>1, <2>3, <2>4
<1>6. ASSUME NEW k \in 0 .. Latest, SchemaAt(k) PROVE \E j \in 0 .. Latest : SchemaAt(j)'
  <2>1. /\ call' \in [Procs -> Call] /\ call'[p] = c
        /\ \A q \in Procs : q # p => call'[q] = call[q]
    BY <1>0, <1>3, CallsStay
  <2>2. v = k /\ 1 <= k /\ k - 1 \in 0 .. Latest /\ schema = 1 .. k
    BY <1>1, <1>4, <1>6 DEF SchemaAt, MigrationFits, Migrates
  <2>3. schema' = 1 .. (k - 1)
    <3>1. CASE v = 1
      BY <1>2, <2>2, <3>1
    <3>2. CASE v # 1
      <4>1. schema' = (1 .. k) \ {k} /\ k \in Nat
        BY <1>2, <1>4, <2>2, <3>2
      <4>2. QED
        BY <2>2, <4>1
    <3>3. QED
      BY <3>1, <3>2
  <2>4. RowsFit(k - 1)'
    <3>1. CASE v = 1
      <4>1. rows' = {} /\ table' = FALSE /\ k - 1 = 0
        BY <1>2, <2>2, <3>1
      <4>2. QED
        BY <4>1 DEF RowsFit
    <3>2. CASE v # 1
      <4> DEFINE newRow == [version |-> v - 1, dirty |-> FALSE]
      <4>1. newRow \in Row /\ newRow.version = k - 1 /\ ~newRow.dirty
        BY <1>4, <2>2, <3>2
      <4>2. rows' = {newRow} /\ table' /\ table' \in BOOLEAN
        BY <1>2, <1>6, <3>2 DEF SchemaAt, RowsFit
      <4> HIDE DEF newRow
      <4>3. QED
        BY <4>1, <4>2 DEF RowsFit
    <3>3. QED
      BY <3>1, <3>2
  <2>5. MigrationFits(p, k - 1)'
    <3>1. c.at = "delete" => v # 1 /\ last <= k - 1
      BY <1>1, <1>3, <1>4, <2>2
    <3>2. c.at = "delete" => table'
      BY <1>2, <3>1
    <3>3. QED
      BY <1>1, <1>3, <2>1, <2>2, <3>1, <3>2 DEF MigrationFits, Migrates
  <2>6. QED
    BY <1>0, <1>1, <1>3, <1>6, <2>2, <2>3, <2>4, <2>5, HolderSteps
<1>7. QED
  BY <1>2, <1>5, <1>6, MigratorAssembled

LEMMA MigratorAdvances ==
  ASSUME MigratorInv, [MigratorNext]_mvars
  PROVE  MigratorInv'
<1>1. CASE UNCHANGED mvars
  BY <1>1 DEF mvars, MigratorInv, LockDiscipline, WorkTyped, Migrates, SchemaAt, RowsFit,
              MigrationFits, ForceFits
<1>2. ASSUME NEW p \in Procs, Step(p) \/ Die(p) \/ \E op \in Ops : Begin(p, op)
      PROVE  MigratorInv'
  BY <1>2, CallsBeginAndEnd, DyingKeeps, BeginningKeeps, ReadingKeeps, DeletingKeeps,
     InsertingKeeps, ApplyingUpKeeps, ApplyingDownKeeps DEF Step
<1>3. QED
  BY <1>1, <1>2 DEF MigratorNext

-----------------------------------------------------------------------------
(* Proofs: the sessions of the store.                                      *)

IdParts == STRING \union Nat
Ids == Seq(IdParts)
LiveSessions == [id : Ids, traces : SUBSET LiveTraces, content : Nat, complete : BOOLEAN, serial : Nat]

SessionsTyped(sessions, over) == sessions \in Seq(LiveSessions) /\ over \in Seq(Ids)

\* No two sessions share an id, a trace or a serial number, and none is from the future.
SessionsDiffer(sessions, b) ==
  /\ \A n, m \in 1 .. Len(sessions) : n # m =>
       /\ sessions[n].id # sessions[m].id
       /\ sessions[n].traces \intersect sessions[m].traces = {}
       /\ sessions[n].serial # sessions[m].serial
  /\ \A n \in 1 .. Len(sessions) : sessions[n].serial <= b

\* The complete sessions are those in the queue for eviction, each once.
CompleteOnes(sessions, over) ==
  /\ \A i, j \in 1 .. Len(over) : over[i] = over[j] => i = j
  /\ \A n \in 1 .. Len(sessions) : sessions[n].complete =>
       \E j \in 1 .. Len(over) : over[j] = sessions[n].id
  /\ \A j \in 1 .. Len(over) : \E n \in 1 .. Len(sessions) :
       sessions[n].complete /\ sessions[n].id = over[j]

StoreFits(sessions, over, b) ==
  /\ SessionsTyped(sessions, over) /\ SessionsDiffer(sessions, b)
  /\ CompleteOnes(sessions, over) /\ Len(sessions) <= MaxLive

\* What is left of the sessions when one of them is gone.
LeftOf(rest, sessions) ==
  /\ \A i \in 1 .. Len(rest) : \E n \in 1 .. Len(sessions) : rest[i] = sessions[n]
  /\ \A n \in 1 .. Len(sessions) : ~sessions[n].complete =>
       \E i \in 1 .. Len(rest) : rest[i] = sessions[n]

LEMMA Removed ==
  ASSUME NEW S, NEW s \in Seq(S), NEW n \in 1 .. Len(s)
  PROVE  /\ RemoveAt(s, n) \in Seq(S)
         /\ Len(RemoveAt(s, n)) = Len(s) - 1
         /\ \A i \in 1 .. Len(s) - 1 : RemoveAt(s, n)[i] = IF i < n THEN s[i] ELSE s[i + 1]
<1> DEFINE a == SubSeq(s, 1, n - 1)
           z == SubSeq(s, n + 1, Len(s))
<1>1. a \in Seq(S) /\ Len(a) = n - 1 /\ \A i \in 1 .. n - 1 : a[i] = s[i]
  OBVIOUS
<1>2. z \in Seq(S) /\ Len(z) = Len(s) - n /\ \A i \in 1 .. Len(s) - n : z[i] = s[n + i]
  OBVIOUS
<1>3. RemoveAt(s, n) = a \o z
  BY DEF RemoveAt
<1> HIDE DEF a, z
<1>4. Len(a \o z) = Len(s) - 1 /\ a \o z \in Seq(S)
  <2>1. a \o z \in Seq(S) /\ Len(a \o z) = Len(a) + Len(z)
    BY <1>1, <1>2, ConcatProperties
  <2> QED
    BY <2>1, <1>1, <1>2
<1>5. ASSUME NEW i \in 1 .. Len(s) - 1
      PROVE  (a \o z)[i] = IF i < n THEN s[i] ELSE s[i + 1]
  <2>1. CASE i < n
    BY <1>1, <1>2, <2>1
  <2>2. CASE ~(i < n)
    <3>1. (a \o z)[i] = z[i - Len(a)]
      BY <1>1, <1>2, <2>2
    <3>2. i - Len(a) \in 1 .. Len(s) - n /\ n + (i - Len(a)) = i + 1
      BY <1>1, <2>2
    <3> QED
      BY <1>2, <2>2, <3>1, <3>2
  <2> QED
    BY <2>1, <2>2
<1> QED
  BY <1>3, <1>4, <1>5

LEMMA OldestGoes ==
  ASSUME NEW sessions, NEW over, NEW b \in Nat, StoreFits(sessions, over, b), over # <<>>
  PROVE  /\ StoreFits(Without(sessions, Head(over)), Tail(over), b)
         /\ Len(Without(sessions, Head(over))) = Len(sessions) - 1
         /\ LeftOf(Without(sessions, Head(over)), sessions)
<1> DEFINE id == Head(over)
           p == Spot(sessions, id)
           rest == Without(sessions, id)
           later == Tail(over)
           src(i) == IF i < p THEN i ELSE i + 1
<1>1. /\ sessions \in Seq(LiveSessions) /\ Len(sessions) \in Nat
      /\ over \in Seq(Ids) /\ Len(over) \in Nat \ {0}
      /\ DOMAIN sessions = 1 .. Len(sessions) /\ id = over[1]
  BY DEF StoreFits, SessionsTyped
<1>2. \E n \in 1 .. Len(sessions) : sessions[n].complete /\ sessions[n].id = id
  BY <1>1 DEF StoreFits, CompleteOnes
<1>3. p \in 1 .. Len(sessions) /\ sessions[p].id = id
  BY <1>1, <1>2 DEF Spot
<1>4. sessions[p].complete
  BY <1>2, <1>3 DEF StoreFits, SessionsDiffer
<1>5. rest = RemoveAt(sessions, p)
  BY <1>1, <1>3 DEF Without, IdsOf
<1> HIDE DEF p, rest
<1>6. /\ rest \in Seq(LiveSessions) /\ Len(rest) = Len(sessions) - 1
      /\ \A i \in 1 .. Len(rest) : rest[i] = sessions[src(i)]
  BY <1>1, <1>3, <1>5, Removed
<1>7. \A i \in 1 .. Len(rest) : src(i) \in 1 .. Len(sessions) /\ src(i) # p
  BY <1>1, <1>3, <1>6
<1>8. \A i, j \in 1 .. Len(rest) : i # j => src(i) # src(j)
  BY <1>1, <1>3, <1>6
<1>9. \A n \in 1 .. Len(sessions) : n # p => \E i \in 1 .. Len(rest) : src(i) = n
  <2> TAKE n \in 1 .. Len(sessions)
  <2> HAVE n # p
  <2>1. CASE n < p
    <3>1. n \in 1 .. Len(rest) /\ src(n) = n
      BY <2>1, <1>1, <1>3, <1>6
    <3> QED
      BY <3>1
  <2>2. CASE ~(n < p)
    <3>1. n - 1 \in 1 .. Len(rest) /\ src(n - 1) = n
      BY <2>2, <1>1, <1>3, <1>6
    <3> QED
      BY <3>1
  <2> QED
    BY <2>1, <2>2
<1>10. /\ later \in Seq(Ids) /\ Len(later) = Len(over) - 1
       /\ \A j \in 1 .. Len(later) : later[j] = over[j + 1]
  BY <1>1
<1> HIDE DEF src, id, later
<1>11. SessionsDiffer(rest, b)
  <2>1. \A n, m \in 1 .. Len(sessions) : n # m =>
          /\ sessions[n].id # sessions[m].id
          /\ sessions[n].traces \intersect sessions[m].traces = {}
          /\ sessions[n].serial # sessions[m].serial
    BY DEF StoreFits, SessionsDiffer
  <2>2. \A n \in 1 .. Len(sessions) : sessions[n].serial <= b
    BY DEF StoreFits, SessionsDiffer
  <2>3. \A n, m \in 1 .. Len(rest) : n # m =>
          /\ rest[n].id # rest[m].id
          /\ rest[n].traces \intersect rest[m].traces = {}
          /\ rest[n].serial # rest[m].serial
    <3> TAKE n, m \in 1 .. Len(rest)
    <3> HAVE n # m
    <3>1. /\ src(n) \in 1 .. Len(sessions) /\ src(m) \in 1 .. Len(sessions) /\ src(n) # src(m)
          /\ rest[n] = sessions[src(n)] /\ rest[m] = sessions[src(m)]
      BY <1>6, <1>7, <1>8
    <3> QED
      BY <2>1, <3>1
  <2>4. \A n \in 1 .. Len(rest) : rest[n].serial <= b
    BY <2>2, <1>6, <1>7
  <2> QED
    BY <2>3, <2>4 DEF SessionsDiffer
<1>12. CompleteOnes(rest, later)
  <2>1. /\ \A i, j \in 1 .. Len(over) : over[i] = over[j] => i = j
        /\ \A n \in 1 .. Len(sessions) : sessions[n].complete =>
             \E j \in 1 .. Len(over) : over[j] = sessions[n].id
        /\ \A j \in 1 .. Len(over) : \E n \in 1 .. Len(sessions) :
             sessions[n].complete /\ sessions[n].id = over[j]
        /\ \A n \in 1 .. Len(sessions) : n # p => sessions[n].id # sessions[p].id
    BY <1>3 DEF StoreFits, CompleteOnes, SessionsDiffer
  <2>2. \A i, j \in 1 .. Len(later) : later[i] = later[j] => i = j
    <3> TAKE i, j \in 1 .. Len(later)
    <3> HAVE later[i] = later[j]
    <3>1. i + 1 \in 1 .. Len(over) /\ j + 1 \in 1 .. Len(over) /\ over[i + 1] = over[j + 1]
      BY <1>1, <1>10
    <3>2. i + 1 = j + 1
      BY <2>1, <3>1
    <3> QED
      BY <3>2
  <2>3. ASSUME NEW n \in 1 .. Len(rest), rest[n].complete
        PROVE  \E j \in 1 .. Len(later) : later[j] = rest[n].id
    <3>1. src(n) \in 1 .. Len(sessions) /\ rest[n] = sessions[src(n)] /\ src(n) # p
      BY <1>6, <1>7
    <3>2. PICK j \in 1 .. Len(over) : over[j] = sessions[src(n)].id
      BY <2>1, <2>3, <3>1
    <3>3. j # 1
      BY <1>1, <1>3, <2>1, <3>1, <3>2
    <3>4. j - 1 \in 1 .. Len(later) /\ later[j - 1] = over[j]
      <4>1. j - 1 \in 1 .. Len(later) /\ (j - 1) + 1 = j
        BY <1>1, <1>10, <3>3
      <4> QED
        BY <4>1, <1>10
    <3> QED
      BY <3>1, <3>2, <3>4
  <2>4. ASSUME NEW j \in 1 .. Len(later)
        PROVE  \E n \in 1 .. Len(rest) : rest[n].complete /\ rest[n].id = later[j]
    <3>1. j + 1 \in 1 .. Len(over) /\ later[j] = over[j + 1] /\ 1 \in 1 .. Len(over) /\ j + 1 # 1
      BY <1>1, <1>10
    <3>2. PICK m \in 1 .. Len(sessions) : sessions[m].complete /\ sessions[m].id = over[j + 1]
      BY <2>1, <3>1
    <3>3. over[j + 1] # over[1]
      BY <2>1, <3>1
    <3>4. m # p
      BY <1>1, <1>3, <3>2, <3>3
    <3>5. PICK i \in 1 .. Len(rest) : src(i) = m
      BY <1>9, <3>4
    <3> QED
      BY <1>6, <3>1, <3>2, <3>5
  <2> QED
    BY <2>2, <2>3, <2>4 DEF CompleteOnes
<1>13. LeftOf(rest, sessions)
  <2>1. \A i \in 1 .. Len(rest) : \E n \in 1 .. Len(sessions) : rest[i] = sessions[n]
    BY <1>6, <1>7
  <2>2. ASSUME NEW n \in 1 .. Len(sessions), ~sessions[n].complete
        PROVE  \E i \in 1 .. Len(rest) : rest[i] = sessions[n]
    <3>1. n # p
      BY <2>2, <1>4
    <3>2. PICK i \in 1 .. Len(rest) : src(i) = n
      BY <3>1, <1>9
    <3> QED
      BY <3>2, <1>6
  <2> QED
    BY <2>1, <2>2 DEF LeftOf
<1>14. SessionsTyped(rest, later) /\ Len(rest) <= MaxLive /\ Len(rest) = Len(sessions) - 1
  <2>1. Len(sessions) <= MaxLive /\ MaxLive \in Nat
    BY SessionRoutesAssumption DEF StoreFits
  <2> QED
    BY <2>1, <1>1, <1>6, <1>10 DEF SessionsTyped
<1> QED
  BY <1>11, <1>12, <1>13, <1>14 DEF StoreFits, rest, id, later

\* After room was made there is room.
LEMMA RoomIsMade ==
  ASSUME NEW sessions, NEW over, NEW b \in Nat, StoreFits(sessions, over, b), HasRoom(sessions, over)
  PROVE  /\ StoreFits(Evicted(sessions, over), Remaining(sessions, over), b)
         /\ Len(Evicted(sessions, over)) < MaxLive
         /\ LeftOf(Evicted(sessions, over), sessions)
<1>1. Len(sessions) \in Nat /\ MaxLive \in Nat /\ Len(sessions) <= MaxLive
  BY SessionRoutesAssumption DEF StoreFits, SessionsTyped
<1>2. CASE Len(sessions) < MaxLive
  <2>1. LeftOf(sessions, sessions)
    BY DEF LeftOf
  <2> QED
    BY <1>2, <2>1 DEF Evicted, Remaining
<1>3. CASE ~(Len(sessions) < MaxLive)
  BY <1>1, <1>3, OldestGoes DEF Evicted, Remaining, HasRoom
<1> QED
  BY <1>2, <1>3

\* Taken ids are finitely many, and a fresh one is none of them.
LEMMA FreshId ==
  ASSUME NEW base \in Ids, NEW taken, IsFiniteSet(taken)
  PROVE  UniqueId(base, taken) \in Ids /\ UniqueId(base, taken) \notin taken
<1> DEFINE c == Cardinality(taken)
           name(n) == Append(base, n)
           Free == {n \in 2 .. c + 1 : name(n) \notin taken}
<1>1. CASE base \notin taken
  BY <1>1 DEF UniqueId
<1>2. CASE base \in taken
  <2>1. c \in Nat
    BY FS_CardinalityType
  <2>2. \A n \in Nat : name(n) \in Ids /\ name(n) # base
    BY DEF Ids, IdParts
  <2>3. \A n, m \in Nat : name(n) = name(m) => n = m
    <3>1. base \in Seq(IdParts) /\ Nat \subseteq IdParts
      BY DEF Ids, IdParts
    <3> TAKE n, m \in Nat
    <3> HAVE name(n) = name(m)
    <3>2. name(n)[Len(base) + 1] = n /\ name(m)[Len(base) + 1] = m
      BY <3>1
    <3> QED
      BY <3>2
  <2> HIDE DEF c, name
  <2>4. Free # {}
    <3> SUFFICES ASSUME \A n \in 2 .. c + 1 : name(n) \in taken
                 PROVE  FALSE
      OBVIOUS
    <3> DEFINE f == [n \in 1 .. c + 1 |-> IF n = 1 THEN base ELSE name(n)]
    <3>1. f \in [1 .. c + 1 -> taken]
      BY <1>2, <2>1
    <3>2. IsFiniteSet(1 .. c + 1) /\ Cardinality(1 .. c + 1) = c + 1
      BY <2>1, FS_Interval
    <3>3. Cardinality(taken) < Cardinality(1 .. c + 1)
      BY <2>1, <3>2 DEF c
    <3>4. \A x, y \in 1 .. c + 1 : x # y => f[x] # f[y]
      <4> TAKE x, y \in 1 .. c + 1
      <4> HAVE x # y
      <4>1. x \in Nat /\ y \in Nat
        BY <2>1
      <4>2. CASE x = 1
        BY <4>1, <4>2, <2>2
      <4>3. CASE y = 1
        BY <4>1, <4>3, <2>2
      <4>4. CASE x # 1 /\ y # 1
        BY <4>1, <4>4, <2>3
      <4> QED
        BY <4>2, <4>3, <4>4
    <3> HIDE DEF f
    <3>5. \E x, y \in 1 .. c + 1 : x # y /\ f[x] = f[y]
      BY <3>1, <3>2, <3>3, FS_PigeonHole
    <3> QED
      BY <3>4, <3>5
  <2>5. Free \subseteq Nat
    BY <2>1
  <2>6. PICK n \in Free : \A m \in Free : n <= m
    BY <2>4, <2>5, LeastNumber
  <2>7. n \in 2 .. c + 1 /\ name(n) \notin taken
    OBVIOUS
  <2>8. \A m \in 2 .. n - 1 : name(m) \in taken
    BY <2>1, <2>6, <2>7
  <2> DEFINE First(k) == name(k) \notin taken /\ \A m \in 2 .. k - 1 : name(m) \in taken
             first == CHOOSE k \in 2 .. c + 1 : First(k)
  <2>9. UniqueId(base, taken) = name(first)
    BY <1>2 DEF UniqueId, c, name
  <2>10. first \in 2 .. c + 1 /\ First(first)
    <3>1. First(n)
      BY <2>7, <2>8
    <3> HIDE DEF First
    <3> QED
      BY <2>7, <3>1
  <2>11. first \in Nat
    BY <2>1, <2>10
  <2> HIDE DEF first
  <2> QED
    BY <2>2, <2>9, <2>10, <2>11
<1> QED
  BY <1>1, <1>2

LEMMA IdsAreFinite ==
  ASSUME NEW sessions \in Seq(LiveSessions)
  PROVE  IsFiniteSet(IdsOf(sessions))
<1>1. Len(sessions) \in Nat /\ DOMAIN sessions = 1 .. Len(sessions)
  OBVIOUS
<1>2. IsFiniteSet(1 .. Len(sessions))
  BY <1>1, FS_Interval
<1> DEFINE f == [n \in 1 .. Len(sessions) |-> sessions[n].id]
<1>3. f \in Surjection(1 .. Len(sessions), IdsOf(sessions))
  BY <1>1 DEF Surjection, IdsOf
<1> QED
  BY <1>2, <1>3, FS_Surjection

\* A session that is created has an id of its own, traces nobody has, and the next
\* number; a complete one is the last in the queue.
LEMMA OneMore ==
  ASSUME NEW sessions, NEW over, NEW b \in Nat, StoreFits(sessions, over, b), Len(sessions) < MaxLive,
         NEW s \in LiveSessions, s.id \notin IdsOf(sessions),
         s.traces \intersect OwnedBy(sessions) = {}, s.serial = b + 1
  PROVE  /\ ~s.complete => StoreFits(Append(sessions, s), over, b + 1)
         /\ s.complete => StoreFits(Append(sessions, s), Append(over, s.id), b + 1)
<1> DEFINE l == Len(sessions)
           more == Append(sessions, s)
           later == Append(over, s.id)
<1>1. /\ sessions \in Seq(LiveSessions) /\ over \in Seq(Ids) /\ l \in Nat /\ Len(over) \in Nat
      /\ DOMAIN sessions = 1 .. l /\ s.id \in Ids /\ MaxLive \in Nat
      /\ SessionsDiffer(sessions, b) /\ CompleteOnes(sessions, over)
  BY SessionRoutesAssumption DEF StoreFits, SessionsTyped, LiveSessions
<1>2. /\ more \in Seq(LiveSessions) /\ Len(more) = l + 1 /\ more[l + 1] = s
      /\ \A n \in 1 .. l : more[n] = sessions[n]
  BY <1>1
<1>3. /\ later \in Seq(Ids) /\ Len(later) = Len(over) + 1 /\ later[Len(over) + 1] = s.id
      /\ \A j \in 1 .. Len(over) : later[j] = over[j]
  BY <1>1
<1> HIDE DEF more, later
<1>4. \A n \in 1 .. l : /\ sessions[n].id # s.id /\ sessions[n].traces \intersect s.traces = {}
                        /\ sessions[n].serial <= b /\ sessions[n].serial \in Nat
  <2> TAKE n \in 1 .. l
  <2>1. sessions[n].id \in IdsOf(sessions) /\ sessions[n].traces \subseteq OwnedBy(sessions)
    BY <1>1 DEF IdsOf, OwnedBy
  <2>2. sessions[n] \in LiveSessions
    BY <1>1
  <2> QED
    BY <2>1, <2>2, <1>1 DEF SessionsDiffer, LiveSessions
<1>5. SessionsDiffer(more, b + 1)
  <2>1. \A n, m \in 1 .. l : n # m =>
          /\ sessions[n].id # sessions[m].id
          /\ sessions[n].traces \intersect sessions[m].traces = {}
          /\ sessions[n].serial # sessions[m].serial
    BY <1>1 DEF SessionsDiffer
  <2>2. ASSUME NEW n \in 1 .. Len(more), NEW m \in 1 .. Len(more), n # m
        PROVE  /\ more[n].id # more[m].id
               /\ more[n].traces \intersect more[m].traces = {}
               /\ more[n].serial # more[m].serial
    <3>1. CASE n = l + 1
      <4>1. m \in 1 .. l /\ more[m] = sessions[m] /\ more[n] = s
        BY <1>1, <1>2, <2>2, <3>1
      <4>2. sessions[m].serial # s.serial
        BY <1>4, <4>1
      <4> QED
        BY <1>4, <4>1, <4>2
    <3>2. CASE m = l + 1
      <4>1. n \in 1 .. l /\ more[n] = sessions[n] /\ more[m] = s
        BY <1>1, <1>2, <2>2, <3>2
      <4>2. sessions[n].serial # s.serial
        BY <1>4, <4>1
      <4> QED
        BY <1>4, <4>1, <4>2
    <3>3. CASE n # l + 1 /\ m # l + 1
      <4>1. /\ n \in 1 .. l /\ more[n] = sessions[n]
            /\ m \in 1 .. l /\ more[m] = sessions[m]
        BY <1>1, <1>2, <3>3
      <4> QED
        BY <2>1, <2>2, <4>1
    <3> QED
      BY <3>1, <3>2, <3>3
  <2>3. \A n \in 1 .. Len(more) : more[n].serial <= b + 1
    <3> TAKE n \in 1 .. Len(more)
    <3>1. CASE n = l + 1
      BY <1>2, <3>1
    <3>2. CASE n # l + 1
      <4>1. n \in 1 .. l /\ more[n] = sessions[n]
        BY <1>1, <1>2, <3>2
      <4> QED
        BY <1>4, <4>1
    <3> QED
      BY <3>1, <3>2
  <2> QED
    BY <2>2, <2>3 DEF SessionsDiffer
<1>6. /\ \A i, j \in 1 .. Len(over) : over[i] = over[j] => i = j
      /\ \A n \in 1 .. l : sessions[n].complete => \E j \in 1 .. Len(over) : over[j] = sessions[n].id
      /\ \A j \in 1 .. Len(over) : \E n \in 1 .. l : sessions[n].complete /\ sessions[n].id = over[j]
  BY <1>1 DEF CompleteOnes
<1>7. Len(more) <= MaxLive
  BY <1>1, <1>2
<1>8. ASSUME ~s.complete PROVE CompleteOnes(more, over)
  <2>1. \A n \in 1 .. Len(more) : more[n].complete => n \in 1 .. l /\ more[n] = sessions[n]
    BY <1>1, <1>2, <1>8
  <2>2. \A n \in 1 .. l : n \in 1 .. Len(more)
    BY <1>1, <1>2
  <2>3. \A n \in 1 .. Len(more) : more[n].complete =>
          \E j \in 1 .. Len(over) : over[j] = more[n].id
    BY <1>6, <2>1
  <2>4. \A j \in 1 .. Len(over) : \E n \in 1 .. Len(more) : more[n].complete /\ more[n].id = over[j]
    <3> TAKE j \in 1 .. Len(over)
    <3>1. PICK n \in 1 .. l : sessions[n].complete /\ sessions[n].id = over[j]
      BY <1>6
    <3> QED
      BY <1>2, <2>2, <3>1
  <2> QED
    BY <1>6, <2>3, <2>4 DEF CompleteOnes
<1>9. ASSUME s.complete PROVE CompleteOnes(more, later)
  <2>1. \A n \in 1 .. Len(more) : (n \in 1 .. l /\ more[n] = sessions[n]) \/ n = l + 1
    BY <1>1, <1>2
  <2>2. \A j \in 1 .. Len(later) : (j \in 1 .. Len(over) /\ later[j] = over[j]) \/ j = Len(over) + 1
    BY <1>1, <1>3
  <2>3. l + 1 \in 1 .. Len(more) /\ Len(over) + 1 \in 1 .. Len(later)
    BY <1>1, <1>2, <1>3
  <2>4. /\ \A n \in 1 .. l : n \in 1 .. Len(more)
        /\ \A j \in 1 .. Len(over) : j \in 1 .. Len(later)
    BY <1>1, <1>2, <1>3
  <2>5. \A j \in 1 .. Len(over) : over[j] # s.id
    BY <1>4, <1>6
  <2>6. \A i, j \in 1 .. Len(later) : later[i] = later[j] => i = j
    BY <1>3, <1>6, <2>2, <2>5
  <2>7. ASSUME NEW n \in 1 .. Len(more), more[n].complete
        PROVE  \E j \in 1 .. Len(later) : later[j] = more[n].id
    <3>1. CASE n = l + 1
      BY <1>2, <1>3, <2>3, <3>1
    <3>2. CASE n \in 1 .. l /\ more[n] = sessions[n]
      <4>1. PICK j \in 1 .. Len(over) : over[j] = sessions[n].id
        BY <1>6, <2>7, <3>2
      <4> QED
        BY <1>3, <2>4, <3>2, <4>1
    <3> QED
      BY <2>1, <3>1, <3>2
  <2>8. ASSUME NEW j \in 1 .. Len(later)
        PROVE  \E n \in 1 .. Len(more) : more[n].complete /\ more[n].id = later[j]
    <3>1. CASE j = Len(over) + 1
      BY <1>2, <1>3, <1>9, <2>3, <3>1
    <3>2. CASE j \in 1 .. Len(over) /\ later[j] = over[j]
      <4>1. PICK n \in 1 .. l : sessions[n].complete /\ sessions[n].id = over[j]
        BY <1>6, <3>2
      <4> QED
        BY <1>2, <2>4, <3>2, <4>1
    <3> QED
      BY <2>2, <3>1, <3>2
  <2> QED
    BY <2>6, <2>7, <2>8 DEF CompleteOnes
<1> QED
  BY <1>1, <1>2, <1>3, <1>5, <1>7, <1>8, <1>9 DEF StoreFits, SessionsTyped, more, later

\* Every session is at work or waits in the queue for its eviction.
LEMMA SessionsAreCounted ==
  ASSUME NEW sessions, NEW over, NEW b \in Nat, StoreFits(sessions, over, b)
  PROVE  /\ Cardinality(AtWork(sessions)) \in Nat
         /\ Len(sessions) = Cardinality(AtWork(sessions)) + Len(over)
<1> DEFINE l == Len(sessions)
           k == Len(over)
           Waiting == {over[j] : j \in 1 .. k}
           f == [n \in 1 .. l |-> sessions[n].id]
           g == [j \in 1 .. k |-> over[j]]
<1>1. /\ l \in Nat /\ k \in Nat /\ DOMAIN sessions = 1 .. l
      /\ SessionsDiffer(sessions, b) /\ CompleteOnes(sessions, over)
  BY DEF StoreFits, SessionsTyped
<1>2. \A i, j \in 1 .. k : over[i] = over[j] => i = j
  BY <1>1 DEF CompleteOnes
<1>3. \A n, m \in 1 .. l : sessions[n].id = sessions[m].id => n = m
  BY <1>1 DEF SessionsDiffer
<1>4. /\ \A n \in 1 .. l : sessions[n].complete => \E j \in 1 .. k : over[j] = sessions[n].id
      /\ \A j \in 1 .. k : \E n \in 1 .. l : sessions[n].complete /\ sessions[n].id = over[j]
  BY <1>1 DEF CompleteOnes
<1> HIDE DEF l, k
<1>5. IsFiniteSet(IdsOf(sessions)) /\ Cardinality(IdsOf(sessions)) = l
  <2>1. f \in Surjection(1 .. l, IdsOf(sessions)) /\ f \in Injection(1 .. l, IdsOf(sessions))
    BY <1>1, <1>3 DEF Surjection, Injection, IsInjective, IdsOf
  <2>2. IsFiniteSet(1 .. l) /\ Cardinality(1 .. l) = l
    BY ONLY <1>1, FS_Interval
  <2> HIDE DEF f
  <2> QED
    BY <2>1, <2>2, FS_Surjection
<1>6. IsFiniteSet(Waiting) /\ Cardinality(Waiting) = k
  <2>1. g \in Surjection(1 .. k, Waiting) /\ g \in Injection(1 .. k, Waiting)
    BY <1>2 DEF Surjection, Injection, IsInjective
  <2>2. IsFiniteSet(1 .. k) /\ Cardinality(1 .. k) = k
    BY ONLY <1>1, FS_Interval
  <2> HIDE DEF g, Waiting
  <2> QED
    BY <2>1, <2>2, FS_Surjection
<1>7. AtWork(sessions) \union Waiting = IdsOf(sessions) /\ AtWork(sessions) \intersect Waiting = {}
  <2>1. AtWork(sessions) \union Waiting \subseteq IdsOf(sessions)
    <3>1. \A j \in 1 .. k : \E n \in 1 .. l : sessions[n].id = over[j]
      BY <1>4
    <3>2. Waiting \subseteq IdsOf(sessions)
      BY <1>1, <3>1 DEF IdsOf
    <3>3. AtWork(sessions) \subseteq IdsOf(sessions)
      BY DEF AtWork, IdsOf
    <3> QED
      BY <3>2, <3>3
  <2>2. ASSUME NEW n \in 1 .. l PROVE sessions[n].id \in AtWork(sessions) \union Waiting
    <3>1. CASE sessions[n].complete
      <4>1. PICK j \in 1 .. k : over[j] = sessions[n].id
        BY <1>4, <3>1
      <4> QED
        BY <4>1
    <3>2. CASE ~sessions[n].complete
      BY <1>1, <3>2 DEF AtWork
    <3> QED
      BY <3>1, <3>2
  <2>3. ASSUME NEW id \in AtWork(sessions), id \in Waiting PROVE FALSE
    <3>1. PICK n \in 1 .. l : ~sessions[n].complete /\ sessions[n].id = id
      BY <1>1 DEF AtWork
    <3>2. PICK m \in 1 .. l : sessions[m].complete /\ sessions[m].id = id
      BY <1>4, <2>3
    <3> QED
      BY <1>3, <3>1, <3>2
  <2>4. IdsOf(sessions) \subseteq AtWork(sessions) \union Waiting
    BY <1>1, <2>2 DEF IdsOf
  <2> QED
    BY <2>1, <2>3, <2>4
<1>8. IsFiniteSet(AtWork(sessions))
  BY <1>5, <1>7, FS_Subset
<1> HIDE DEF Waiting
<1>9. Cardinality(AtWork(sessions) \union Waiting) = Cardinality(AtWork(sessions)) + Cardinality(Waiting)
  <2>1. /\ Cardinality(AtWork(sessions) \intersect Waiting) = 0
        /\ Cardinality(AtWork(sessions)) \in Nat /\ Cardinality(Waiting) \in Nat
    BY <1>6, <1>7, <1>8, FS_EmptySet, FS_CardinalityType
  <2>2. Cardinality(AtWork(sessions) \union Waiting) =
          Cardinality(AtWork(sessions)) + Cardinality(Waiting) - Cardinality(AtWork(sessions) \intersect Waiting)
    BY <1>6, <1>8, FS_Union
  <2> QED
    BY <2>1, <2>2
<1>10. Cardinality(AtWork(sessions)) \in Nat
  BY <1>8, FS_CardinalityType
<1>11. l = Cardinality(AtWork(sessions)) + k
  BY <1>5, <1>6, <1>7, <1>9
<1> QED
  BY <1>10, <1>11 DEF l, k

-----------------------------------------------------------------------------
(* Proofs: the three clients.                                              *)

Reads == [serial : Nat, content : Nat]
RequestStages == {"idle", "evaluating", "created", "stored", "answered"}
Scores == {"waiting", "reading", "scored", "failed"}
Requests(D) == [at : RequestStages, golden : Reads, picked : [D -> LiveSessions],
                found : [D -> Reads], score : [D -> Scores]]
Histories(D) == [status : {"none", "queued", "succeeded", "failed"}, stored : SUBSET D, errors : SUBSET D]

\* What was read of a picked session lies between what it was and what it is.
ReadFits(n, s) ==
  s.serial = request.picked[n].serial =>
    /\ s.id = request.picked[n].id /\ s.content >= request.picked[n].content
    /\ request.score[n] # "waiting" /\ s.traces # {} =>
         /\ request.found[n].serial = s.serial
         /\ request.picked[n].content <= request.found[n].content
         /\ request.found[n].content <= s.content

PickedFit ==
  \A n \in DOMAIN request.picked :
    /\ request.picked[n].serial <= born
    /\ \A m \in 1 .. Len(live) : ReadFits(n, live[m])

NoneAtWork == \A n \in DOMAIN request.picked : request.score[n] \in {"scored", "failed"}

\* The stored run says what the request found, as far as the request has come.
HistoryFits ==
  /\ request.at \in {"idle", "evaluating"} => history = NoHistory
  /\ request.at \in {"created", "stored"} => history.status = "queued" /\ NoneAtWork
  /\ request.at = "stored" => history.stored = HasState("scored")
  /\ history.status \in {"succeeded", "failed"} =>
       /\ history.stored \union history.errors = DOMAIN request.picked
       /\ history.status = "succeeded" => history.stored = DOMAIN request.picked

RequestFits ==
  /\ \E D \in SUBSET Nat : request \in Requests(D) /\ history \in Histories(D)
  /\ PickedFit /\ HistoryFits

BundleFits ==
  /\ bundle \in Seq(LiveSessions)
  /\ \A n, m \in 1 .. Len(bundle) : n # m => bundle[n].traces \intersect bundle[m].traces = {}

\* Only the client that has sessions evaluated makes a request for it.
Bystanders == caller # "evaluates" => request = NoRequest /\ history = NoHistory

FilesFit == files = promised /\ \A id \in DOMAIN promised : promised[id] \in Reads

RoutesInv ==
  /\ StoreFits(live, ended, born) /\ born \in 0 .. MaxBorn + MaxLive
  /\ RequestFits /\ Bystanders /\ FilesFit /\ BundleFits /\ BundlesLoadBack

\* A session goes on under its id, with its traces and what it says.
StaysItself(old, new) ==
  new.serial = old.serial /\ new.id = old.id /\ new.traces = old.traces /\ new.content >= old.content

LEMMA RoutesStart == SessionRoutesInit => RoutesInv
<1> SUFFICES ASSUME SessionRoutesInit PROVE RoutesInv
  OBVIOUS
<1>1. StoreFits(live, ended, born) /\ born \in 0 .. MaxBorn + MaxLive
  BY SessionRoutesAssumption
     DEF SessionRoutesInit, StoreFits, SessionsTyped, SessionsDiffer, CompleteOnes
<1>2. RequestFits
  <2>1. request \in Requests({}) /\ history \in Histories({})
    BY DEF SessionRoutesInit, NoRequest, NoHistory, Nothing, Requests, Histories, Reads, RequestStages
  <2>2. DOMAIN request.picked = {}
    BY DEF SessionRoutesInit, NoRequest
  <2>3. PickedFit /\ HistoryFits
    BY <2>2 DEF PickedFit, HistoryFits, SessionRoutesInit, NoRequest, NoHistory
  <2> QED
    BY <2>1, <2>3 DEF RequestFits
<1>3. BundleFits /\ FilesFit /\ Bystanders
  BY DEF SessionRoutesInit, BundleFits, FilesFit, Bystanders
<1>4. BundlesLoadBack
  BY DEF SessionRoutesInit, BundlesLoadBack, NoLoad
<1> QED
  BY <1>1, <1>2, <1>3, <1>4 DEF RoutesInv

\* Without a load of a bundle, what a load promises is only that sessions differ.
LEMMA NothingLoaded ==
  ASSUME StoreFits(live', ended', born'), load' = NoLoad
  PROVE  BundlesLoadBack'
<1>1. DOMAIN live' = 1 .. Len(live')
  BY DEF StoreFits, SessionsTyped
<1>2. load'.status = 0
  BY DEF NoLoad
<1> QED
  BY <1>1, <1>2 DEF BundlesLoadBack, StoreFits, SessionsDiffer

\* What was picked stays accounted for while sessions come and go.
LEMMA RequestStays ==
  ASSUME RequestFits, UNCHANGED <<request, history>>, born \in Nat, born' \in Nat, born' >= born,
         live \in Seq(LiveSessions), live' \in Seq(LiveSessions),
         \A m \in 1 .. Len(live') : live'[m].serial > born \/
           \E n \in 1 .. Len(live) : StaysItself(live[n], live'[m])
  PROVE  RequestFits'
<1>1. PICK D \in SUBSET Nat : request \in Requests(D) /\ history \in Histories(D)
  BY DEF RequestFits
<1>2. HistoryFits'
  BY DEF RequestFits, HistoryFits, NoneAtWork, HasState
<1>3. ASSUME NEW k \in DOMAIN request.picked
      PROVE  request.picked[k].serial <= born' /\ \A m \in 1 .. Len(live') : ReadFits(k, live[m])'
  <2>1. /\ request.picked[k].serial <= born /\ \A n \in 1 .. Len(live) : ReadFits(k, live[n])
        /\ request.picked[k] \in LiveSessions /\ request.found[k] \in Reads
    BY <1>1, <1>3 DEF RequestFits, PickedFit, Requests
  <2>2. request.picked[k].serial \in Nat /\ request.picked[k].content \in Nat /\ request.found[k].content \in Nat
    BY <2>1 DEF LiveSessions, Reads
  <2>3. ASSUME NEW m \in 1 .. Len(live') PROVE ReadFits(k, live[m])'
    <3>1. live'[m] \in LiveSessions
      OBVIOUS
    <3>2. CASE live'[m].serial > born
      <4>1. live'[m].serial # request.picked[k].serial
        BY <2>1, <2>2, <3>1, <3>2 DEF LiveSessions
      <4> QED
        BY <4>1 DEF ReadFits
    <3>3. ASSUME NEW n \in 1 .. Len(live), StaysItself(live[n], live'[m]) PROVE ReadFits(k, live[m])'
      <4>1. live[n] \in LiveSessions /\ ReadFits(k, live[n])
        BY <2>1
      <4>2. live[n].content \in Nat /\ live'[m].content \in Nat
        BY <3>1, <4>1 DEF LiveSessions
      <4> QED
        BY <2>2, <3>3, <4>1, <4>2 DEF ReadFits, StaysItself
    <3> QED
      BY <3>2, <3>3
  <2> QED
    BY <2>1, <2>2, <2>3
<1> QED
  BY <1>1, <1>2, <1>3 DEF RequestFits, PickedFit

LEMMA BeginKeeps ==
  ASSUME RoutesInv, UNCHANGED caller, NEW base \in Bases, NEW t \in LiveTraces, BeginSession(base, t)
  PROVE  RoutesInv'
<1> DEFINE rest == Evicted(live, ended)
           id == UniqueId(base, IdsOf(rest))
           new == Session(id, {t}, 0, FALSE, born + 1)
<1>1. /\ StoreFits(rest, Remaining(live, ended), born) /\ Len(rest) < MaxLive /\ LeftOf(rest, live)
      /\ born \in Nat /\ rest \in Seq(LiveSessions) /\ live \in Seq(LiveSessions)
  <2>1. StoreFits(live, ended, born) /\ HasRoom(live, ended) /\ born \in Nat
    BY SessionRoutesAssumption DEF RoutesInv, BeginSession
  <2> QED
    BY <2>1, RoomIsMade DEF StoreFits, SessionsTyped
<1>2. base \in Ids
  BY SessionRoutesAssumption DEF Ids, IdParts
<1>3. id \in Ids /\ id \notin IdsOf(rest)
  BY <1>1, <1>2, IdsAreFinite, FreshId
<1>4. /\ live' = Append(rest, new) /\ ended' = Remaining(live, ended) /\ born' = born + 1
      /\ load' = NoLoad /\ born < MaxBorn /\ t \notin OwnedBy(live)
      /\ UNCHANGED <<request, history, files, promised, bundle>>
  BY DEF BeginSession
<1> HIDE DEF rest, id
<1>5. /\ new \in LiveSessions /\ new.id = id /\ new.traces = {t} /\ new.serial = born + 1
      /\ ~new.complete
  BY <1>1, <1>3 DEF Session, LiveSessions
<1>6. t \notin OwnedBy(rest)
  <2>1. DOMAIN rest = 1 .. Len(rest) /\ DOMAIN live = 1 .. Len(live)
    BY <1>1
  <2> QED
    BY <1>1, <1>4, <2>1 DEF OwnedBy, LeftOf
<1> HIDE DEF new
<1>7. StoreFits(live', ended', born')
  BY <1>1, <1>3, <1>4, <1>5, <1>6, OneMore
<1>8. born' \in 0 .. MaxBorn + MaxLive
  BY <1>1, <1>4, SessionRoutesAssumption
<1>9. RequestFits'
  <2>1. live' \in Seq(LiveSessions)
    BY <1>7 DEF StoreFits, SessionsTyped
  <2>2. ASSUME NEW m \in 1 .. Len(live')
        PROVE  live'[m].serial > born \/ \E n \in 1 .. Len(live) : StaysItself(live[n], live'[m])
    <3>1. CASE m = Len(rest) + 1
      <4>1. live'[m] = new
        BY <1>1, <1>4, <1>5, <3>1
      <4> QED
        BY <1>1, <1>5, <4>1
    <3>2. CASE m # Len(rest) + 1
      <4>1. m \in 1 .. Len(rest) /\ live'[m] = rest[m]
        BY <1>1, <1>4, <1>5, <3>2
      <4>2. PICK n \in 1 .. Len(live) : rest[m] = live[n]
        BY <1>1, <4>1 DEF LeftOf
      <4>3. live[n] \in LiveSessions
        BY <1>1
      <4> QED
        BY <4>1, <4>2, <4>3 DEF StaysItself, LiveSessions
    <3> QED
      BY <3>1, <3>2
  <2>3. born' \in Nat /\ born' >= born /\ RequestFits
    BY <1>1, <1>4 DEF RoutesInv
  <2> QED
    BY <1>1, <1>4, <2>1, <2>2, <2>3, RequestStays
<1>10. BundlesLoadBack'
  BY <1>4, <1>7, NothingLoaded
<1> QED
  BY <1>4, <1>7, <1>8, <1>9, <1>10 DEF RoutesInv, BundleFits, Bystanders, FilesFit

QueueWithout(less, over, id) ==
  /\ less \in Seq(Ids)
  /\ \A i, j \in 1 .. Len(less) : less[i] = less[j] => i = j
  /\ \A x : (\E i \in 1 .. Len(less) : less[i] = x) <=>
              (x # id /\ \E j \in 1 .. Len(over) : over[j] = x)

\* The queue loses the id of a session that is at work again.
LEMMA ReopenedIds ==
  ASSUME NEW over \in Seq(Ids), NEW id, \A i, j \in 1 .. Len(over) : over[i] = over[j] => i = j
  PROVE  QueueWithout(Reopened(over, id), over, id)
<1> DEFINE less == Reopened(over, id)
           p == CHOOSE n \in DOMAIN over : over[n] = id
           src(i) == IF i < p THEN i ELSE i + 1
<1>1. Len(over) \in Nat /\ DOMAIN over = 1 .. Len(over)
  OBVIOUS
<1>2. CASE id \notin Range(over)
  <2>1. less = over
    BY <1>2 DEF Reopened
  <2>2. \A j \in 1 .. Len(over) : over[j] # id
    BY <1>1, <1>2 DEF Range
  <2> QED
    BY <2>1, <2>2 DEF QueueWithout
<1>3. CASE id \in Range(over)
  <2>1. p \in 1 .. Len(over) /\ over[p] = id
    BY <1>1, <1>3 DEF Range
  <2>2. less = RemoveAt(over, p)
    BY <1>3 DEF Reopened
  <2> HIDE DEF p, less
  <2>3. /\ less \in Seq(Ids) /\ Len(less) = Len(over) - 1
        /\ \A i \in 1 .. Len(less) : less[i] = over[src(i)]
    BY <1>1, <2>1, <2>2, Removed
  <2>4. \A i \in 1 .. Len(less) : src(i) \in 1 .. Len(over) /\ src(i) # p
    BY <1>1, <2>1, <2>3
  <2>5. \A i, j \in 1 .. Len(less) : src(i) = src(j) => i = j
    BY <1>1, <2>1, <2>3
  <2>6. ASSUME NEW n \in 1 .. Len(over), n # p
        PROVE  \E i \in 1 .. Len(less) : src(i) = n
    <3>1. CASE n < p
      <4>1. n \in 1 .. Len(less) /\ src(n) = n
        BY <1>1, <2>1, <2>3, <3>1
      <4> QED
        BY <4>1
    <3>2. CASE ~(n < p)
      <4>1. n - 1 \in 1 .. Len(less) /\ src(n - 1) = n
        BY <1>1, <2>1, <2>3, <2>6, <3>2
      <4> QED
        BY <4>1
    <3> QED
      BY <3>1, <3>2
  <2> HIDE DEF src
  <2>7. \A i, j \in 1 .. Len(less) : less[i] = less[j] => i = j
    BY <2>3, <2>4, <2>5
  <2>8. ASSUME NEW x
        PROVE  (\E i \in 1 .. Len(less) : less[i] = x) <=>
                 (x # id /\ \E j \in 1 .. Len(over) : over[j] = x)
    <3>1. ASSUME NEW i \in 1 .. Len(less), less[i] = x
          PROVE  x # id /\ \E j \in 1 .. Len(over) : over[j] = x
      BY <2>1, <2>3, <2>4, <3>1
    <3>2. ASSUME NEW j \in 1 .. Len(over), over[j] = x, x # id
          PROVE  \E i \in 1 .. Len(less) : less[i] = x
      <4>1. PICK i \in 1 .. Len(less) : src(i) = j
        BY <2>1, <2>6, <3>2
      <4> QED
        BY <2>3, <3>2, <4>1
    <3> QED
      BY <3>1, <3>2
  <2>9. QueueWithout(less, over, id)
    BY <2>3, <2>7, <2>8 DEF QueueWithout
  <2> QED
    BY <2>9 DEF less
<1> HIDE DEF less
<1> QED
  BY <1>2, <1>3 DEF less

\* What differs between two sessions and does not change with what they say.
SameNames(new, old) ==
  /\ Len(new) = Len(old)
  /\ \A n \in 1 .. Len(old) :
       new[n].id = old[n].id /\ new[n].traces = old[n].traces /\ new[n].serial = old[n].serial

LEMMA NamesStayApart ==
  ASSUME NEW new, NEW old, NEW b, SameNames(new, old), SessionsDiffer(old, b)
  PROVE  SessionsDiffer(new, b)
BY DEF SameNames, SessionsDiffer

LEMMA OneOnItsWay ==
  ASSUME NEW s \in LiveSessions
  PROVE  LET grown == [s EXCEPT !.content = @ + 1, !.complete = FALSE]
             done == [s EXCEPT !.complete = TRUE]
         IN  /\ grown \in LiveSessions /\ ~grown.complete /\ grown.id = s.id /\ StaysItself(s, grown)
             /\ done \in LiveSessions /\ done.complete /\ done.id = s.id /\ StaysItself(s, done)
             /\ s.id \in Ids
<1>1. s.content \in Nat /\ s.content + 1 \in Nat /\ s.content + 1 >= s.content /\ s.content >= s.content
  BY DEF LiveSessions
<1>2. [s EXCEPT !.content = @ + 1, !.complete = FALSE] \in LiveSessions
  BY <1>1 DEF LiveSessions
<1>3. [s EXCEPT !.complete = TRUE] \in LiveSessions
  BY DEF LiveSessions
<1> QED
  BY <1>1, <1>2, <1>3 DEF LiveSessions, StaysItself

LEMMA GrowKeeps ==
  ASSUME RoutesInv, UNCHANGED caller, NEW n \in DOMAIN live, SessionGrows(n)
  PROVE  RoutesInv'
<1> DEFINE s == [live[n] EXCEPT !.content = @ + 1, !.complete = FALSE]
<1>1. /\ StoreFits(live, ended, born) /\ born \in Nat /\ n \in 1 .. Len(live)
      /\ live \in Seq(LiveSessions) /\ ended \in Seq(Ids) /\ live[n] \in LiveSessions
      /\ SessionsDiffer(live, born) /\ CompleteOnes(live, ended) /\ Len(live) <= MaxLive
  BY SessionRoutesAssumption DEF RoutesInv, StoreFits, SessionsTyped
<1>2. /\ live' = [live EXCEPT ![n] = s] /\ ended' = Reopened(ended, live[n].id)
      /\ load' = NoLoad /\ UNCHANGED <<born, request, history, files, promised, bundle>>
  BY DEF SessionGrows
<1>3. /\ s \in LiveSessions /\ ~s.complete /\ StaysItself(live[n], s) /\ s.id = live[n].id
  BY <1>1, OneOnItsWay
<1> HIDE DEF s
<1>4. /\ live' \in Seq(LiveSessions) /\ Len(live') = Len(live)
      /\ \A m \in 1 .. Len(live) : live'[m] = IF m = n THEN s ELSE live[m]
  BY <1>1, <1>2, <1>3
<1>5. \A m \in 1 .. Len(live) : StaysItself(live[m], live'[m])
  <2> TAKE m \in 1 .. Len(live)
  <2>1. live[m] \in LiveSessions
    BY <1>1
  <2>2. StaysItself(live[m], live[m])
    BY <2>1 DEF StaysItself, LiveSessions
  <2> QED
    BY <2>2, <1>3, <1>4
<1>6. SameNames(live', live)
  BY <1>4, <1>5 DEF SameNames, StaysItself
<1>7. SessionsDiffer(live', born)
  BY <1>1, <1>6, NamesStayApart
<1>8. \A i, j \in 1 .. Len(ended) : ended[i] = ended[j] => i = j
  BY <1>1 DEF CompleteOnes
<1> DEFINE gone == live[n].id
<1> HIDE DEF gone
<1>9. /\ ended' \in Seq(Ids)
      /\ \A i, j \in 1 .. Len(ended') : ended'[i] = ended'[j] => i = j
      /\ \A x : (\E i \in 1 .. Len(ended') : ended'[i] = x) <=>
                  (x # gone /\ \E j \in 1 .. Len(ended) : ended[j] = x)
  <2>1. QueueWithout(ended', ended, live[n].id)
    BY <1>1, <1>2, <1>8, ReopenedIds
  <2> QED
    BY <2>1 DEF QueueWithout, gone
<1>10. CompleteOnes(live', ended')
  <2>1. /\ \A m \in 1 .. Len(live) : live[m].complete => \E j \in 1 .. Len(ended) : ended[j] = live[m].id
        /\ \A j \in 1 .. Len(ended) : \E m \in 1 .. Len(live) : live[m].complete /\ live[m].id = ended[j]
        /\ \A m \in 1 .. Len(live) : m # n => live[m].id # live[n].id
    BY <1>1 DEF CompleteOnes, SessionsDiffer
  <2>2. ASSUME NEW m \in 1 .. Len(live'), live'[m].complete
        PROVE  \E j \in 1 .. Len(ended') : ended'[j] = live'[m].id
    <3>1. m # n /\ m \in 1 .. Len(live) /\ live'[m] = live[m]
      BY <1>3, <1>4, <2>2
    <3>2. live[m].id # gone /\ \E j \in 1 .. Len(ended) : ended[j] = live[m].id
      BY <2>1, <2>2, <3>1 DEF gone
    <3> QED
      BY <1>9, <3>1, <3>2
  <2>3. ASSUME NEW j \in 1 .. Len(ended')
        PROVE  \E m \in 1 .. Len(live') : live'[m].complete /\ live'[m].id = ended'[j]
    <3>1. ended'[j] # gone /\ \E i \in 1 .. Len(ended) : ended[i] = ended'[j]
      BY <1>9
    <3>2. PICK m \in 1 .. Len(live) : live[m].complete /\ live[m].id = ended'[j]
      BY <2>1, <3>1
    <3>3. m # n
      BY <3>1, <3>2 DEF gone
    <3> QED
      BY <1>4, <3>2, <3>3
  <2> QED
    BY <1>9, <2>2, <2>3 DEF CompleteOnes
<1>11. StoreFits(live', ended', born')
  BY <1>1, <1>2, <1>4, <1>7, <1>9, <1>10 DEF StoreFits, SessionsTyped
<1>12. RequestFits'
  <2>1. RequestFits /\ born' \in Nat /\ born' >= born
    BY <1>1, <1>2 DEF RoutesInv
  <2>2. \A m \in 1 .. Len(live') : \E k \in 1 .. Len(live) : StaysItself(live[k], live'[m])
    BY <1>4, <1>5
  <2> QED
    BY <1>1, <1>2, <1>4, <2>1, <2>2, RequestStays
<1>13. BundlesLoadBack'
  BY <1>2, <1>11, NothingLoaded
<1> QED
  BY <1>2, <1>11, <1>12, <1>13 DEF RoutesInv, BundleFits, Bystanders, FilesFit

LEMMA CompletionKeeps ==
  ASSUME RoutesInv, UNCHANGED caller, NEW n \in DOMAIN live, SessionCompletes(n)
  PROVE  RoutesInv'
<1> DEFINE s == [live[n] EXCEPT !.complete = TRUE]
<1>1. /\ StoreFits(live, ended, born) /\ born \in Nat /\ n \in 1 .. Len(live)
      /\ live \in Seq(LiveSessions) /\ ended \in Seq(Ids) /\ live[n] \in LiveSessions
      /\ SessionsDiffer(live, born) /\ CompleteOnes(live, ended) /\ Len(live) <= MaxLive
  BY SessionRoutesAssumption DEF RoutesInv, StoreFits, SessionsTyped
<1>2. /\ live' = [live EXCEPT ![n] = s] /\ ended' = Append(ended, live[n].id) /\ ~live[n].complete
      /\ load' = NoLoad /\ UNCHANGED <<born, request, history, files, promised, bundle>>
  BY DEF SessionCompletes
<1>3. /\ s \in LiveSessions /\ s.complete /\ StaysItself(live[n], s) /\ s.id = live[n].id /\ s.id \in Ids
  BY <1>1, OneOnItsWay
<1> HIDE DEF s
<1>4. /\ live' \in Seq(LiveSessions) /\ Len(live') = Len(live)
      /\ \A m \in 1 .. Len(live) : live'[m] = IF m = n THEN s ELSE live[m]
  BY <1>1, <1>2, <1>3
<1>5. \A m \in 1 .. Len(live) : StaysItself(live[m], live'[m])
  <2> TAKE m \in 1 .. Len(live)
  <2>1. live[m] \in LiveSessions
    BY <1>1
  <2>2. StaysItself(live[m], live[m])
    BY <2>1 DEF StaysItself, LiveSessions
  <2> QED
    BY <2>2, <1>3, <1>4
<1>6. SameNames(live', live)
  BY <1>4, <1>5 DEF SameNames, StaysItself
<1>7. SessionsDiffer(live', born)
  BY <1>1, <1>6, NamesStayApart
<1>8. /\ ended' \in Seq(Ids) /\ Len(ended) \in Nat /\ Len(ended') = Len(ended) + 1
      /\ ended'[Len(ended) + 1] = s.id
      /\ \A j \in 1 .. Len(ended) : ended'[j] = ended[j]
  BY <1>1, <1>2, <1>3
<1>9. CompleteOnes(live', ended')
  <2>1. /\ \A i, j \in 1 .. Len(ended) : ended[i] = ended[j] => i = j
        /\ \A m \in 1 .. Len(live) : live[m].complete => \E j \in 1 .. Len(ended) : ended[j] = live[m].id
        /\ \A j \in 1 .. Len(ended) : \E m \in 1 .. Len(live) : live[m].complete /\ live[m].id = ended[j]
        /\ \A m \in 1 .. Len(live) : m # n => live[m].id # live[n].id
    BY <1>1 DEF CompleteOnes, SessionsDiffer
  <2>2. /\ \A j \in 1 .. Len(ended') : j \in 1 .. Len(ended) \/ j = Len(ended) + 1
        /\ \A j \in 1 .. Len(ended) : j \in 1 .. Len(ended')
        /\ Len(ended) + 1 \in 1 .. Len(ended')
    BY <1>8
  <2>3. \A j \in 1 .. Len(ended) : ended[j] # s.id
    BY <1>2, <1>3, <2>1
  <2>4. \A i, j \in 1 .. Len(ended') : ended'[i] = ended'[j] => i = j
    BY <1>8, <2>1, <2>2, <2>3
  <2>5. ASSUME NEW m \in 1 .. Len(live'), live'[m].complete
        PROVE  \E j \in 1 .. Len(ended') : ended'[j] = live'[m].id
    <3>1. CASE m = n
      BY <1>1, <1>4, <1>8, <2>2, <3>1
    <3>2. CASE m # n
      <4>1. m \in 1 .. Len(live) /\ live'[m] = live[m]
        BY <1>4, <3>2
      <4>2. PICK j \in 1 .. Len(ended) : ended[j] = live[m].id
        BY <2>1, <2>5, <4>1
      <4> QED
        BY <1>8, <2>2, <4>1, <4>2
    <3> QED
      BY <3>1, <3>2
  <2>6. ASSUME NEW j \in 1 .. Len(ended')
        PROVE  \E m \in 1 .. Len(live') : live'[m].complete /\ live'[m].id = ended'[j]
    <3>1. CASE j = Len(ended) + 1
      BY <1>1, <1>3, <1>4, <1>8, <3>1
    <3>2. CASE j \in 1 .. Len(ended)
      <4>1. PICK m \in 1 .. Len(live) : live[m].complete /\ live[m].id = ended[j]
        BY <2>1, <3>2
      <4>2. m # n
        BY <1>2, <4>1
      <4> QED
        BY <1>4, <1>8, <3>2, <4>1, <4>2
    <3> QED
      BY <2>2, <3>1, <3>2
  <2> QED
    BY <2>4, <2>5, <2>6 DEF CompleteOnes
<1>10. StoreFits(live', ended', born')
  BY <1>1, <1>2, <1>4, <1>7, <1>8, <1>9 DEF StoreFits, SessionsTyped
<1>11. RequestFits'
  <2>1. RequestFits /\ born' \in Nat /\ born' >= born
    BY <1>1, <1>2 DEF RoutesInv
  <2>2. \A m \in 1 .. Len(live') : \E k \in 1 .. Len(live) : StaysItself(live[k], live'[m])
    BY <1>4, <1>5
  <2> QED
    BY <1>1, <1>2, <1>4, <2>1, <2>2, RequestStays
<1>12. BundlesLoadBack'
  BY <1>2, <1>10, NothingLoaded
<1> QED
  BY <1>2, <1>10, <1>11, <1>12 DEF RoutesInv, BundleFits, Bystanders, FilesFit

LEMMA ExpiryKeeps ==
  ASSUME RoutesInv, UNCHANGED caller, SessionExpires
  PROVE  RoutesInv'
<1>1. /\ StoreFits(live, ended, born) /\ born \in Nat /\ ended # <<>> /\ live \in Seq(LiveSessions)
      /\ live' = Without(live, Head(ended)) /\ ended' = Tail(ended)
      /\ load' = NoLoad /\ UNCHANGED <<born, request, history, files, promised, bundle>>
  BY SessionRoutesAssumption DEF RoutesInv, SessionExpires, StoreFits, SessionsTyped
<1>2. StoreFits(live', ended', born') /\ LeftOf(live', live)
  BY <1>1, OldestGoes
<1>3. RequestFits'
  <2>1. RequestFits /\ born' \in Nat /\ born' >= born
    BY <1>1 DEF RoutesInv
  <2>2. live' \in Seq(LiveSessions)
    BY <1>2 DEF StoreFits, SessionsTyped
  <2>3. \A k \in 1 .. Len(live) : StaysItself(live[k], live[k])
    <3> TAKE k \in 1 .. Len(live)
    <3>1. live[k] \in LiveSessions
      BY <1>1
    <3> QED
      BY <3>1 DEF StaysItself, LiveSessions
  <2>4. \A m \in 1 .. Len(live') : \E k \in 1 .. Len(live) : StaysItself(live[k], live'[m])
    BY <1>2, <2>3 DEF LeftOf
  <2> QED
    BY <1>1, <2>1, <2>2, <2>4, RequestStays
<1>4. BundlesLoadBack'
  BY <1>1, <1>2, NothingLoaded
<1> QED
  BY <1>1, <1>2, <1>3, <1>4 DEF RoutesInv, BundleFits, Bystanders, FilesFit

\* A snapshot shows the session that has the id, if it has spans.
LEMMA WhatIsRead ==
  ASSUME StoreFits(live, ended, born), NEW id
  PROVE  /\ ReadBy(id) \in Reads
         /\ \A m \in 1 .. Len(live) : live[m].id = id /\ live[m].traces # {} =>
              ReadBy(id) = [serial |-> live[m].serial, content |-> live[m].content]
<1>1. live \in Seq(LiveSessions) /\ DOMAIN live = 1 .. Len(live) /\ SessionsDiffer(live, born)
  BY DEF StoreFits, SessionsTyped
<1>2. CASE id \in IdsOf(live)
  <2>1. Named(id) \in 1 .. Len(live) /\ live[Named(id)].id = id
    BY <1>1, <1>2 DEF Named, Spot, IdsOf
  <2> DEFINE p == Named(id)
  <2> HIDE DEF p
  <2>2. p \in 1 .. Len(live) /\ live[p].id = id /\ live[p] \in LiveSessions
    BY <1>1, <2>1 DEF p
  <2>3. live[p].serial \in Nat /\ live[p].content \in Nat
    BY <2>2 DEF LiveSessions
  <2>4. ReadBy(id) = IF live[p].traces # {} THEN [serial |-> live[p].serial, content |-> live[p].content]
                     ELSE Nothing
    BY <1>2 DEF ReadBy, p
  <2>5. \A m \in 1 .. Len(live) : live[m].id = id => m = p
    BY <1>1, <2>2 DEF SessionsDiffer
  <2> QED
    BY <2>3, <2>4, <2>5 DEF Reads, Nothing
<1>3. CASE id \notin IdsOf(live)
  <2>1. \A m \in 1 .. Len(live) : live[m].id # id
    BY <1>1, <1>3 DEF IdsOf
  <2> QED
    BY <1>3, <2>1 DEF ReadBy, Nothing, Reads
<1> QED
  BY <1>2, <1>3

\* The sessions and the bundle stay as they are, and so does what a load said.
LEMMA StoreStays ==
  ASSUME RoutesInv, UNCHANGED <<live, ended, born, bundle>>, load' = NoLoad
  PROVE  /\ StoreFits(live', ended', born') /\ born' \in 0 .. MaxBorn + MaxLive
         /\ BundleFits' /\ BundlesLoadBack'
<1>1. StoreFits(live', ended', born') /\ born' \in 0 .. MaxBorn + MaxLive /\ BundleFits'
  BY DEF RoutesInv, BundleFits
<1> QED
  BY <1>1, NothingLoaded

LEMMA RequestKeeps ==
  ASSUME RoutesInv, UNCHANGED caller, caller = "evaluates", NEW golden, EvaluateSessions(golden)
  PROVE  RoutesInv'
<1> DEFINE D == {m \in DOMAIN live : live[m].complete}
<1>1. /\ StoreFits(live, ended, born) /\ live \in Seq(LiveSessions) /\ DOMAIN live = 1 .. Len(live)
      /\ SessionsDiffer(live, born)
  BY DEF RoutesInv, StoreFits, SessionsTyped
<1>2. /\ request' = [at |-> "evaluating", golden |-> ReadBy(golden), picked |-> [n \in D |-> live[n]],
                     found |-> [n \in D |-> Nothing], score |-> [n \in D |-> "waiting"]]
      /\ history' = NoHistory /\ load' = NoLoad
      /\ UNCHANGED <<live, ended, born, files, promised, bundle>>
  BY DEF EvaluateSessions, store
<1>3. D \in SUBSET Nat /\ \A n \in D : n \in 1 .. Len(live)
  BY <1>1
<1>4. ReadBy(golden) \in Reads /\ Nothing \in Reads
  BY <1>1, WhatIsRead DEF Nothing, Reads
<1>5. \A n \in D : live[n] \in LiveSessions
  BY <1>1, <1>3
<1> HIDE DEF D
<1>6. request' \in Requests(D) /\ history' \in Histories(D)
  BY <1>2, <1>4, <1>5 DEF Requests, Histories, RequestStages, Scores, NoHistory
<1>7. PickedFit'
  <2>1. DOMAIN request'.picked = D /\ \A n \in D : request'.picked[n] = live[n] /\ request'.score[n] = "waiting"
    BY <1>2
  <2>2. ASSUME NEW n \in D, NEW m \in 1 .. Len(live), live[m].serial = live[n].serial
        PROVE  m = n
    BY <1>1, <1>3, <2>2 DEF SessionsDiffer
  <2>3. ASSUME NEW n \in D, NEW m \in 1 .. Len(live) PROVE ReadFits(n, live[m])'
    <3>1. live[n].content \in Nat
      BY <1>5 DEF LiveSessions
    <3>2. ASSUME live[m].serial = live[n].serial
          PROVE  live[m].id = live[n].id /\ live[m].content >= live[n].content
      BY <2>2, <3>1, <3>2
    <3> QED
      BY <1>2, <2>1, <3>2 DEF ReadFits
  <2>4. \A n \in D : live[n].serial <= born
    BY <1>1, <1>3 DEF SessionsDiffer
  <2> QED
    BY <1>2, <2>1, <2>3, <2>4 DEF PickedFit
<1>8. HistoryFits'
  BY <1>2 DEF HistoryFits, NoHistory
<1>9. RequestFits'
  BY <1>3, <1>6, <1>7, <1>8 DEF RequestFits
<1> QED
  BY <1>2, <1>9, StoreStays DEF RoutesInv, Bystanders, FilesFit

LEMMA ReadKeeps ==
  ASSUME RoutesInv, UNCHANGED caller, caller = "evaluates",
         NEW n \in DOMAIN request.picked, ReadSession(n)
  PROVE  RoutesInv'
<1> DEFINE snap == ReadBy(request.picked[n].id)
<1>1. /\ StoreFits(live, ended, born) /\ RequestFits /\ live \in Seq(LiveSessions)
      /\ SessionsDiffer(live, born)
  BY DEF RoutesInv, StoreFits, SessionsTyped
<1>2. PICK D \in SUBSET Nat : request \in Requests(D) /\ history \in Histories(D)
  BY <1>1 DEF RequestFits
<1>3. /\ request' = [request EXCEPT !.found[n] = snap, !.score[n] = "reading"]
      /\ request.at = "evaluating" /\ load' = NoLoad /\ snap \in Reads
      /\ UNCHANGED <<live, ended, born, history, files, promised, bundle>>
  BY <1>1, WhatIsRead DEF ReadSession, store
<1>4. \A m \in 1 .. Len(live) : live[m].id = request.picked[n].id /\ live[m].traces # {} =>
        snap = [serial |-> live[m].serial, content |-> live[m].content]
  BY <1>1, WhatIsRead
<1> HIDE DEF snap
<1>5. n \in D /\ DOMAIN request.picked = D /\ request.found \in [D -> Reads] /\ request.score \in [D -> Scores]
  BY <1>2 DEF Requests
<1>6. /\ request'.at = "evaluating" /\ request'.golden = request.golden /\ request'.picked = request.picked
      /\ request'.found = [request.found EXCEPT ![n] = snap]
      /\ request'.score = [request.score EXCEPT ![n] = "reading"]
  BY <1>2, <1>3 DEF Requests
<1>7. request' \in Requests(D)
  <2>1. /\ [request.found EXCEPT ![n] = snap] \in [D -> Reads]
        /\ [request.score EXCEPT ![n] = "reading"] \in [D -> Scores]
    BY <1>3, <1>5 DEF Scores
  <2> QED
    BY <1>2, <1>3, <2>1 DEF Requests
<1>8. PickedFit'
  <2> SUFFICES ASSUME NEW k \in D, NEW m \in 1 .. Len(live) PROVE ReadFits(k, live[m])'
    BY <1>1, <1>3, <1>5, <1>6 DEF RequestFits, PickedFit
  <2>1. ReadFits(k, live[m]) /\ live[m] \in LiveSessions
    BY <1>1, <1>5 DEF RequestFits, PickedFit
  <2>2. CASE k = n
    <3>1. request'.found[n] = snap
      BY <1>5, <1>6
    <3>2. live[m].content \in Nat /\ live[m].serial \in Nat
      BY <2>1 DEF LiveSessions
    <3>3. ASSUME live[m].serial = request.picked[n].serial, live[m].traces # {}
          PROVE  snap = [serial |-> live[m].serial, content |-> live[m].content]
      BY <1>4, <2>1, <2>2, <3>3 DEF ReadFits
    <3> QED
      BY <1>3, <1>6, <2>1, <2>2, <3>1, <3>2, <3>3 DEF ReadFits
  <2>3. CASE k # n
    <3>1. request'.found[k] = request.found[k] /\ request'.score[k] = request.score[k]
      BY <1>5, <1>6, <2>3
    <3> QED
      BY <1>3, <1>6, <2>1, <3>1 DEF ReadFits
  <2> QED
    BY <2>2, <2>3
<1>9. HistoryFits'
  BY <1>1, <1>3, <1>6 DEF RequestFits, HistoryFits, NoHistory
<1>10. RequestFits'
  BY <1>2, <1>3, <1>7, <1>8, <1>9 DEF RequestFits
<1> QED
  BY <1>3, <1>10, StoreStays DEF RoutesInv, Bystanders, FilesFit

LEMMA ScoreKeeps ==
  ASSUME RoutesInv, UNCHANGED caller, caller = "evaluates",
         NEW n \in DOMAIN request.picked, SessionEvaluated(n)
  PROVE  RoutesInv'
<1>1. RequestFits
  BY DEF RoutesInv
<1>2. PICK D \in SUBSET Nat : request \in Requests(D) /\ history \in Histories(D)
  BY <1>1 DEF RequestFits
<1>3. PICK score \in {"scored", "failed"} : request' = [request EXCEPT !.score[n] = score]
  BY DEF SessionEvaluated
<1>4. /\ request.at = "evaluating" /\ load' = NoLoad /\ request.score[n] = "reading"
      /\ UNCHANGED <<live, ended, born, history, files, promised, bundle>>
  BY DEF SessionEvaluated, store
<1>5. n \in D /\ DOMAIN request.picked = D /\ request.score \in [D -> Scores]
  BY <1>2 DEF Requests
<1>6. /\ request'.at = "evaluating" /\ request'.golden = request.golden /\ request'.picked = request.picked
      /\ request'.found = request.found
      /\ request'.score = [request.score EXCEPT ![n] = score]
  BY <1>2, <1>3, <1>4 DEF Requests
<1>7. request' \in Requests(D)
  <2>1. [request.score EXCEPT ![n] = score] \in [D -> Scores]
    BY <1>3, <1>5 DEF Scores
  <2> QED
    BY <1>2, <1>3, <2>1 DEF Requests
<1>8. PickedFit'
  <2>1. ASSUME NEW k \in D PROVE request'.score[k] # "waiting" => request.score[k] # "waiting"
    BY <1>4, <1>5, <1>6
  <2> SUFFICES ASSUME NEW k \in D, NEW m \in 1 .. Len(live) PROVE ReadFits(k, live[m])'
    BY <1>1, <1>4, <1>5, <1>6 DEF RequestFits, PickedFit
  <2>2. ReadFits(k, live[m])
    BY <1>1, <1>5 DEF RequestFits, PickedFit
  <2> QED
    BY <1>4, <1>6, <2>1, <2>2 DEF ReadFits
<1>9. HistoryFits'
  BY <1>1, <1>4, <1>6 DEF RequestFits, HistoryFits, NoHistory
<1>10. RequestFits'
  BY <1>2, <1>4, <1>7, <1>8, <1>9 DEF RequestFits
<1> QED
  BY <1>4, <1>10, StoreStays DEF RoutesInv, Bystanders, FilesFit

LEMMA StoringKeeps ==
  ASSUME RoutesInv, UNCHANGED caller, caller = "evaluates", StoreEvaluation
  PROVE  RoutesInv'
<1>1. RequestFits
  BY DEF RoutesInv
<1>2. PICK D \in SUBSET Nat : request \in Requests(D) /\ history \in Histories(D)
  BY <1>1 DEF RequestFits
<1>3. /\ load' = NoLoad /\ UNCHANGED <<live, ended, born, files, promised, bundle>>
      /\ DOMAIN request.picked = D /\ DOMAIN request.score = D /\ request.score \in [D -> Scores]
  BY <1>2 DEF StoreEvaluation, store, Requests
<1>4. \A at : LET moved == [request EXCEPT !.at = at]
              IN  /\ moved.at = at /\ moved.golden = request.golden /\ moved.picked = request.picked
                  /\ moved.found = request.found /\ moved.score = request.score
                  /\ at \in RequestStages => moved \in Requests(D)
  BY <1>2 DEF Requests
<1>5. HasState("scored") \subseteq D /\ HasState("failed") \subseteq D
  BY <1>3 DEF HasState
<1>6. NoneAtWork => HasState("scored") \union HasState("failed") = D
  BY <1>3 DEF NoneAtWork, HasState
<1> DEFINE same == /\ request'.picked = request.picked /\ request'.found = request.found
                   /\ request'.score = request.score
<1>7. ASSUME same PROVE PickedFit' /\ (NoneAtWork' <=> NoneAtWork) /\ HasState("scored")' = HasState("scored")
  BY <1>1, <1>3, <1>7 DEF RequestFits, PickedFit, ReadFits, NoneAtWork, HasState
<1>8. ASSUME request.at = "evaluating", HasState("waiting") \union HasState("reading") = {},
             Answered, UNCHANGED history
      PROVE  RequestFits'
  <2>1. request'.at = "answered" /\ same /\ request' \in Requests(D) /\ history = NoHistory
    BY <1>1, <1>4, <1>8 DEF Answered, RequestStages, RequestFits, HistoryFits
  <2>2. HistoryFits'
    BY <1>8, <2>1 DEF HistoryFits, NoHistory
  <2> QED
    BY <1>2, <1>7, <1>8, <2>1, <2>2 DEF RequestFits
<1>9. ASSUME request.at = "evaluating", HasState("waiting") \union HasState("reading") = {},
             history' = [NoHistory EXCEPT !.status = "queued"], request' = [request EXCEPT !.at = "created"]
      PROVE  RequestFits'
  <2>1. request'.at = "created" /\ same /\ request' \in Requests(D)
    BY <1>4, <1>9 DEF RequestStages
  <2>2. history' = [status |-> "queued", stored |-> {}, errors |-> {}]
    BY <1>9 DEF NoHistory
  <2>3. NoneAtWork
    BY <1>3, <1>9 DEF NoneAtWork, HasState, Scores
  <2>4. HistoryFits' /\ history' \in Histories(D)
    BY <1>7, <2>1, <2>2, <2>3 DEF HistoryFits, Histories
  <2> QED
    BY <1>7, <2>1, <2>4 DEF RequestFits
<1>10. ASSUME request.at \in {"created", "stored"}, Answered, UNCHANGED history
       PROVE  RequestFits'
  <2>1. request'.at = "answered" /\ same /\ request' \in Requests(D) /\ history.status = "queued"
    BY <1>1, <1>4, <1>10 DEF Answered, RequestStages, RequestFits, HistoryFits
  <2>2. HistoryFits'
    BY <1>10, <2>1 DEF HistoryFits
  <2> QED
    BY <1>2, <1>7, <1>10, <2>1, <2>2 DEF RequestFits
<1>11. ASSUME request.at = "created", history' = [history EXCEPT !.stored = HasState("scored")],
              request' = [request EXCEPT !.at = "stored"]
       PROVE  RequestFits'
  <2>1. request'.at = "stored" /\ same /\ request' \in Requests(D) /\ history.status = "queued" /\ NoneAtWork
    BY <1>1, <1>4, <1>11 DEF RequestStages, RequestFits, HistoryFits
  <2>2. history' \in Histories(D) /\ history'.status = "queued" /\ history'.stored = HasState("scored")
    BY <1>2, <1>5, <1>11, <2>1 DEF Histories
  <2>3. HistoryFits'
    BY <1>7, <2>1, <2>2 DEF HistoryFits
  <2> QED
    BY <1>7, <2>1, <2>2, <2>3 DEF RequestFits
<1>12. ASSUME request.at = "stored", Answered,
              history' = [history EXCEPT
                !.status = IF HasState("failed") = {} THEN "succeeded" ELSE "failed",
                !.errors = HasState("failed")]
       PROVE  RequestFits'
  <2>1. /\ request'.at = "answered" /\ same /\ request' \in Requests(D) /\ NoneAtWork
        /\ history.stored = HasState("scored")
    BY <1>1, <1>4, <1>12 DEF Answered, RequestStages, RequestFits, HistoryFits
  <2>2. /\ history' \in Histories(D) /\ history'.stored = HasState("scored")
        /\ history'.errors = HasState("failed")
        /\ history'.status = IF HasState("failed") = {} THEN "succeeded" ELSE "failed"
    BY <1>2, <1>5, <1>12, <2>1 DEF Histories
  <2>3. DOMAIN request'.picked = D
    BY <1>3, <2>1
  <2>4. HistoryFits'
    BY <1>6, <2>1, <2>2, <2>3 DEF HistoryFits
  <2> QED
    BY <1>7, <2>1, <2>2, <2>4 DEF RequestFits
<1>13. RequestFits'
  BY <1>8, <1>9, <1>10, <1>11, <1>12 DEF StoreEvaluation
<1> QED
  BY <1>3, <1>13, StoreStays DEF RoutesInv, Bystanders, FilesFit

LEMMA PreparingKeeps ==
  ASSUME RoutesInv, UNCHANGED caller, NEW golden, NEW ids, PrepareEvaluation(golden, ids)
  PROVE  RoutesInv'
<1> DEFINE written == {id \in ids \intersect IdsOf(live) : live[Named(id)].complete}
           merged(old) == [id \in written \union DOMAIN old |->
                             IF id \in written THEN ReadBy(id) ELSE old[id]]
<1>1. /\ UNCHANGED <<live, ended, born, request, history, bundle>> /\ load' = NoLoad
      /\ files' = merged(files) /\ promised' = merged(promised)
      /\ files = promised /\ \A id \in DOMAIN promised : promised[id] \in Reads
  BY DEF PrepareEvaluation, store, RoutesInv, FilesFit
<1> HIDE DEF written
<1>2. FilesFit'
  <2>1. \A id : ReadBy(id) \in Reads
    BY WhatIsRead DEF RoutesInv
  <2> QED
    BY <1>1, <2>1 DEF FilesFit
<1>3. RequestFits'
  BY <1>1 DEF RoutesInv, RequestFits, PickedFit, ReadFits, HistoryFits, NoneAtWork, HasState
<1> QED
  BY <1>1, <1>2, <1>3, StoreStays DEF RoutesInv, Bystanders

LEMMA BundlingKeeps ==
  ASSUME RoutesInv, UNCHANGED caller, CreateBundle
  PROVE  RoutesInv'
<1>1. /\ UNCHANGED <<live, ended, born, request, history, files, promised>> /\ load' = NoLoad
      /\ bundle' = live
  BY DEF CreateBundle, store
<1>2. RequestFits'
  BY <1>1 DEF RoutesInv, RequestFits, PickedFit, ReadFits, HistoryFits, NoneAtWork, HasState
<1>3. StoreFits(live', ended', born')
  BY <1>1 DEF RoutesInv
<1>4. BundleFits'
  BY <1>1 DEF RoutesInv, StoreFits, SessionsTyped, SessionsDiffer, BundleFits
<1>5. BundlesLoadBack'
  BY <1>1, <1>3, NothingLoaded
<1> QED
  BY <1>1, <1>2, <1>3, <1>4, <1>5 DEF RoutesInv, Bystanders, FilesFit

LEMMA RestartKeeps ==
  ASSUME RoutesInv, UNCHANGED caller, caller = "reports", ServerRestarts
  PROVE  RoutesInv'
<1>1. /\ live' = <<>> /\ ended' = <<>> /\ request' = NoRequest /\ files' = <<>> /\ promised' = <<>>
      /\ UNCHANGED <<born, history, bundle>> /\ load' = NoLoad
  BY DEF ServerRestarts
<1>2. request = NoRequest /\ history = NoHistory /\ RequestFits
  BY DEF RoutesInv, Bystanders, FilesFit
<1>3. StoreFits(live', ended', born')
  BY <1>1, SessionRoutesAssumption DEF StoreFits, SessionsTyped, SessionsDiffer, CompleteOnes
<1>4. RequestFits'
  <2>1. \E D \in SUBSET Nat : request' \in Requests(D) /\ history' \in Histories(D)
    BY <1>1, <1>2 DEF RequestFits
  <2>2. DOMAIN request'.picked = {}
    BY <1>1 DEF NoRequest
  <2>3. PickedFit' /\ HistoryFits'
    BY <1>1, <1>2, <2>2 DEF PickedFit, HistoryFits, NoRequest, NoHistory
  <2> QED
    BY <2>1, <2>3 DEF RequestFits
<1>5. BundlesLoadBack'
  BY <1>1, <1>3, NothingLoaded
<1> QED
  BY <1>1, <1>2, <1>3, <1>4, <1>5 DEF RoutesInv, Bystanders, BundleFits, FilesFit

-----------------------------------------------------------------------------
(* Proofs: a bundle is loaded.                                             *)

LoadStates == [live : Seq(LiveSessions), ended : Seq(Ids), born : Nat, ids : Seq(Ids), ok : BOOLEAN]

\* after[k] is the state after k directories.
LoadsFrom(after, start, directories) ==
  after = [k \in 0 .. Len(directories) |->
             IF k = 0 THEN start ELSE Loading(after[k - 1], directories[k])]

LEMMA LoadsExist ==
  ASSUME NEW start, NEW directories, Len(directories) \in Nat
  PROVE  \E after : /\ LoadsFrom(after, start, directories)
                    /\ Loaded(start, directories) = after[Len(directories)]
<1> DEFINE N == Len(directories)
           Upto(g, n) == g = [k \in 0 .. n |->
                                IF k = 0 THEN start ELSE Loading(g[k - 1], directories[k])]
           Missing == {n \in 0 .. N : ~ \E g : Upto(g, n)}
           all == CHOOSE g : Upto(g, N)
<1>1. Missing = {}
  <2> SUFFICES ASSUME Missing # {} PROVE FALSE
    OBVIOUS
  <2>1. Missing \subseteq Nat
    OBVIOUS
  <2> HIDE DEF Missing
  <2>2. PICK n \in Missing : \A m \in Missing : n <= m
    BY <2>1, LeastNumber
  <2> USE DEF Missing
  <2>3. n # 0
    <3>1. Upto([k \in 0 .. 0 |-> start], 0)
      OBVIOUS
    <3> HIDE DEF Upto
    <3> QED
      BY <2>2, <3>1
  <2>4. n - 1 \in 0 .. N /\ n - 1 \notin Missing /\ n \in Nat
    BY <2>2, <2>3
  <2> HIDE DEF Upto
  <2>5. PICK g : Upto(g, n - 1)
    BY <2>4
  <2> DEFINE h == [k \in 0 .. n |-> IF k = n THEN Loading(g[n - 1], directories[n]) ELSE g[k]]
  <2>6. Upto(h, n)
    <3>1. g = [k \in 0 .. n - 1 |-> IF k = 0 THEN start ELSE Loading(g[k - 1], directories[k])]
      BY <2>5 DEF Upto
    <3>2. ASSUME NEW k \in 0 .. n
          PROVE  h[k] = IF k = 0 THEN start ELSE Loading(h[k - 1], directories[k])
      <4>1. CASE k = n
        <5>1. k # 0 /\ h[k] = Loading(g[n - 1], directories[n]) /\ n - 1 \in 0 .. n /\ n - 1 # n
          BY <2>3, <2>4, <4>1
        <5>2. h[n - 1] = g[n - 1]
          BY <5>1
        <5> QED
          BY <4>1, <5>1, <5>2
      <4>2. CASE k # n
        <5>1. k \in 0 .. n - 1 /\ h[k] = g[k]
          BY <2>4, <4>2
        <5>2. g[k] = IF k = 0 THEN start ELSE Loading(g[k - 1], directories[k])
          BY <3>1, <5>1
        <5>3. CASE k = 0
          BY <5>1, <5>2, <5>3
        <5>4. CASE k # 0
          <6>1. k - 1 \in 0 .. n /\ k - 1 # n
            BY <2>4, <5>1, <5>4
          <6>2. h[k - 1] = g[k - 1]
            BY <6>1
          <6> QED
            BY <5>1, <5>2, <5>4, <6>2
        <5> QED
          BY <5>3, <5>4
      <4> QED
        BY <4>1, <4>2
    <3>3. h = [k \in 0 .. n |-> h[k]]
      OBVIOUS
    <3> HIDE DEF h
    <3>4. h = [k \in 0 .. n |-> IF k = 0 THEN start ELSE Loading(h[k - 1], directories[k])]
      BY <3>2, <3>3
    <3> QED
      BY <3>4 DEF Upto
  <2> QED
    BY <2>2, <2>6
<1>2. N \in 0 .. N
  OBVIOUS
<1>3. \E g : Upto(g, N)
  BY <1>1, <1>2
<1>4. Loaded(start, directories) = all[N]
  BY DEF Loaded
<1> HIDE DEF Upto
<1>5. Upto(all, N)
  BY <1>3
<1> QED
  BY <1>4, <1>5 DEF Upto, LoadsFrom

TracesUpTo(directories, k) == UNION {directories[i].traces : i \in 1 .. k}
DirectoriesDiffer(directories) ==
  \A i, j \in 1 .. Len(directories) : i # j => directories[i].traces \intersect directories[j].traces = {}

\* Who was at work when the load began still is.
WorkRemains(start, state) ==
  /\ AtWork(state.live) = AtWork(start.live)
  /\ \A n \in 1 .. Len(start.live) : ~start.live[n].complete =>
       \E m \in 1 .. Len(state.live) : state.live[m] = start.live[n]

\* As long as there is room next to those at work, what was loaded is the end of the queue.
LoadedAreLast(start, k, state) ==
  Cardinality(AtWork(start.live)) + k <= MaxLive =>
    /\ Len(state.ended) >= k
    /\ \A i \in 1 .. k : state.ended[Len(state.ended) - k + i] = state.ids[i]

\* As long as there is room next to all that was there, nothing was displaced.
NothingDisplaced(start, directories, k, state) ==
  Len(start.live) + k <= MaxLive =>
    /\ Len(state.live) = Len(start.live) + k
    /\ OwnedBy(state.live) \subseteq OwnedBy(start.live) \union TracesUpTo(directories, k)
    /\ OwnedBy(start.live) \intersect OwnedBy(directories) = {} =>
         \A i \in 1 .. k :
           /\ state.live[Len(start.live) + i].id = state.ids[i]
           /\ state.live[Len(start.live) + i].complete
           /\ state.live[Len(start.live) + i].traces = directories[i].traces
           /\ state.live[Len(start.live) + i].content = directories[i].content

LoadGoesOn(start, directories, k, state) ==
  /\ StoreFits(state.live, state.ended, state.born)
  /\ state.born = start.born + k /\ Len(state.ids) = k /\ (k > 0 => state.ended # <<>>)
  /\ WorkRemains(start, state) /\ LoadedAreLast(start, k, state)
  /\ NothingDisplaced(start, directories, k, state)

LoadStopped(start, state) ==
  state.live = start.live /\ state.ended = start.ended /\ state.born = start.born

LoadInv(start, directories, k, state) ==
  /\ state \in LoadStates
  /\ k = 0 => state = start
  /\ state.ok => LoadGoesOn(start, directories, k, state)
  /\ ~state.ok => LoadStopped(start, state)

LEMMA LoadBegins ==
  ASSUME NEW start \in LoadStates, start.ok, start.ids = <<>>, NEW directories,
         StoreFits(start.live, start.ended, start.born)
  PROVE  LoadInv(start, directories, 0, start)
<1>1. /\ start.live \in Seq(LiveSessions) /\ Len(start.live) \in Nat
      /\ start.ended \in Seq(Ids) /\ Len(start.ended) \in Nat /\ start.born \in Nat
  BY DEF LoadStates
<1>2. WorkRemains(start, start)
  BY DEF WorkRemains
<1>3. LoadedAreLast(start, 0, start)
  BY <1>1 DEF LoadedAreLast
<1>4. NothingDisplaced(start, directories, 0, start)
  BY <1>1 DEF NothingDisplaced
<1>5. start.born = start.born + 0 /\ Len(start.ids) = 0
  BY <1>1
<1> QED
  BY <1>2, <1>3, <1>4, <1>5 DEF LoadInv, LoadGoesOn

\* A directory that is loaded.
LEMMA OneIsLoaded ==
  ASSUME NEW start \in LoadStates, NEW directories \in Seq(LiveSessions), DirectoriesDiffer(directories),
         NEW k \in 0 .. Len(directories) - 1, NEW state \in LoadStates, state.ok,
         LoadGoesOn(start, directories, k, state), HasRoom(state.live, state.ended),
         StoreFits(start.live, start.ended, start.born)
  PROVE  LET next == Loading(state, directories[k + 1])
         IN  next \in LoadStates /\ LoadGoesOn(start, directories, k + 1, next)
<1> DEFINE s == directories[k + 1]
           rest == Evicted(state.live, state.ended)
           left == Remaining(state.live, state.ended)
           id == UniqueId(s.id, IdsOf(rest))
           new == Session(id, s.traces \ OwnedBy(rest), s.content, TRUE, state.born + 1)
           next == [live |-> Append(rest, new), ended |-> Append(left, id),
                    born |-> state.born + 1, ids |-> Append(state.ids, id), ok |-> TRUE]
<1>1. /\ Loading(state, s) = next /\ s \in LiveSessions /\ k \in Nat /\ k + 1 \in 1 .. Len(directories)
      /\ Len(directories) \in Nat
  BY DEF Loading
<1>2. /\ StoreFits(state.live, state.ended, state.born)
      /\ state.born \in Nat /\ state.born = start.born + k /\ Len(state.ids) = k
      /\ state.live \in Seq(LiveSessions) /\ state.ended \in Seq(Ids) /\ state.ids \in Seq(Ids)
      /\ start.live \in Seq(LiveSessions) /\ start.born \in Nat
  BY DEF LoadGoesOn, LoadStates
<1>3. /\ StoreFits(rest, left, state.born) /\ Len(rest) < MaxLive /\ LeftOf(rest, state.live)
      /\ rest \in Seq(LiveSessions) /\ left \in Seq(Ids)
  BY <1>2, RoomIsMade DEF StoreFits, SessionsTyped
<1>4. id \in Ids /\ id \notin IdsOf(rest)
  <2>1. s.id \in Ids /\ IsFiniteSet(IdsOf(rest))
    BY <1>1, <1>3, IdsAreFinite DEF LiveSessions
  <2> QED
    BY <2>1, FreshId
<1>5. /\ rest = IF Len(state.live) < MaxLive THEN state.live ELSE Without(state.live, Head(state.ended))
      /\ left = IF Len(state.live) < MaxLive THEN state.ended ELSE Tail(state.ended)
  BY DEF Evicted, Remaining
<1>6. Len(state.live) \in Nat /\ Len(rest) \in Nat /\ MaxLive \in Nat /\ Len(state.live) <= MaxLive
  BY <1>2, <1>3, SessionRoutesAssumption DEF StoreFits
<1> HIDE DEF rest, left, id, s
<1>7. /\ new \in LiveSessions /\ new.id = id /\ new.complete /\ new.serial = state.born + 1
      /\ new.traces = s.traces \ OwnedBy(rest) /\ new.content = s.content
  <2>1. s.traces \ OwnedBy(rest) \in SUBSET LiveTraces /\ s.content \in Nat /\ state.born + 1 \in Nat
    <3>1. s.traces \subseteq LiveTraces /\ s.content \in Nat
      BY <1>1 DEF LiveSessions
    <3> QED
      BY <1>2, <3>1
  <2>2. new = [id |-> id, traces |-> s.traces \ OwnedBy(rest), content |-> s.content,
               complete |-> TRUE, serial |-> state.born + 1]
    BY DEF Session
  <2> HIDE DEF new
  <2> QED
    BY <1>4, <2>1, <2>2 DEF LiveSessions
<1> HIDE DEF new
<1>8. /\ next.live = Append(rest, new) /\ next.ended = Append(left, id) /\ next.born = state.born + 1
      /\ next.ids = Append(state.ids, id) /\ next.ok
  OBVIOUS
<1>9. next \in LoadStates
  <2>1. /\ Append(rest, new) \in Seq(LiveSessions) /\ Append(left, id) \in Seq(Ids)
        /\ Append(state.ids, id) \in Seq(Ids) /\ state.born + 1 \in Nat
    BY <1>2, <1>3, <1>4, <1>7
  <2> QED
    BY <2>1 DEF LoadStates
<1> HIDE DEF next
<1>10. StoreFits(next.live, next.ended, next.born)
  <2>1. new.traces \intersect OwnedBy(rest) = {}
    BY <1>7
  <2>2. StoreFits(Append(rest, new), Append(left, new.id), state.born + 1)
    BY <1>2, <1>3, <1>4, <1>7, <2>1, OneMore
  <2> QED
    BY <1>7, <1>8, <2>2
<1>11. /\ next.born = start.born + (k + 1) /\ Len(next.ids) = k + 1 /\ next.ended # <<>>
       /\ next.ids[k + 1] = id /\ \A i \in 1 .. k : next.ids[i] = state.ids[i]
  <2>1. next.born = start.born + (k + 1)
    BY <1>1, <1>2, <1>8
  <2>2. next.ended # <<>>
    <3>1. Len(Append(left, id)) = Len(left) + 1 /\ Len(left) \in Nat
      BY <1>3, <1>4
    <3>2. Len(next.ended) # 0
      BY <1>8, <3>1
    <3> QED
      BY <3>2
  <2>3. /\ Len(next.ids) = k + 1 /\ next.ids[k + 1] = id
        /\ \A i \in 1 .. k : next.ids[i] = state.ids[i]
    BY <1>1, <1>2, <1>4, <1>8
  <2> QED
    BY <2>1, <2>2, <2>3
<1>12. /\ Len(next.live) = Len(rest) + 1 /\ next.live[Len(rest) + 1] = new
       /\ \A m \in 1 .. Len(rest) : next.live[m] = rest[m]
  BY <1>3, <1>7, <1>8
<1>13. WorkRemains(start, next)
  <2>1. WorkRemains(start, state)
    BY DEF LoadGoesOn
  <2>2. ASSUME NEW n \in 1 .. Len(state.live), ~state.live[n].complete
        PROVE  \E m \in 1 .. Len(next.live) : next.live[m] = state.live[n]
    <3>1. PICK m \in 1 .. Len(rest) : rest[m] = state.live[n]
      BY <1>3, <2>2 DEF LeftOf
    <3>2. m \in 1 .. Len(next.live)
      BY <1>6, <1>12
    <3> QED
      BY <1>12, <3>1, <3>2
  <2>3. ASSUME NEW m \in 1 .. Len(next.live), ~next.live[m].complete
        PROVE  \E n \in 1 .. Len(state.live) : next.live[m] = state.live[n]
    <3>1. m \in 1 .. Len(rest) /\ next.live[m] = rest[m]
      BY <1>6, <1>7, <1>12, <2>3
    <3> QED
      BY <1>3, <3>1 DEF LeftOf
  <2>4. DOMAIN next.live = 1 .. Len(next.live) /\ DOMAIN state.live = 1 .. Len(state.live)
    BY <1>2, <1>9 DEF LoadStates
  <2>5. AtWork(next.live) = AtWork(state.live)
    <3>1. AtWork(next.live) \subseteq AtWork(state.live)
      BY <2>3, <2>4 DEF AtWork
    <3>2. AtWork(state.live) \subseteq AtWork(next.live)
      BY <2>2, <2>4 DEF AtWork
    <3> QED
      BY <3>1, <3>2
  <2>6. ASSUME NEW n \in 1 .. Len(start.live), ~start.live[n].complete
        PROVE  \E m \in 1 .. Len(next.live) : next.live[m] = start.live[n]
    <3>1. PICK j \in 1 .. Len(state.live) : state.live[j] = start.live[n]
      BY <2>1, <2>6 DEF WorkRemains
    <3> QED
      BY <2>2, <2>6, <3>1
  <2> QED
    BY <2>1, <2>5, <2>6 DEF WorkRemains
<1>14. LoadedAreLast(start, k + 1, next)
  <2> DEFINE c == Cardinality(AtWork(start.live))
             e == Len(state.ended)
  <2> SUFFICES ASSUME c + (k + 1) <= MaxLive
               PROVE  /\ Len(next.ended) >= k + 1
                      /\ \A i \in 1 .. k + 1 : next.ended[Len(next.ended) - (k + 1) + i] = next.ids[i]
    BY DEF LoadedAreLast
  <2>1. c \in Nat /\ e \in Nat /\ Len(state.live) = c + e
    BY <1>2, SessionsAreCounted DEF LoadGoesOn, WorkRemains
  <2> HIDE DEF c
  <2>2. e >= k /\ \A i \in 1 .. k : state.ended[e - k + i] = state.ids[i]
    BY <1>1, <1>6, <2>1 DEF LoadGoesOn, LoadedAreLast, c
  <2> HIDE DEF e
  <2>3. /\ Len(left) \in Nat /\ Len(left) >= k
        /\ \A i \in 1 .. k : left[Len(left) - k + i] = state.ids[i]
    <3>1. CASE Len(state.live) < MaxLive
      BY <1>5, <2>1, <2>2, <3>1 DEF e
    <3>2. CASE ~(Len(state.live) < MaxLive)
      <4>1. e > k /\ left = Tail(state.ended)
        BY <1>1, <1>5, <1>6, <2>1, <3>2
      <4>2. state.ended # <<>>
        BY <1>1, <1>2, <2>1, <4>1 DEF e
      <4>3. Len(left) = e - 1 /\ \A j \in 1 .. Len(left) : left[j] = state.ended[j + 1]
        BY <1>2, <4>1, <4>2 DEF e
      <4>4. ASSUME NEW i \in 1 .. k PROVE left[Len(left) - k + i] = state.ids[i]
        <5> DEFINE f == Len(left)
        <5>3. k \in Nat /\ e \in Nat /\ e > k /\ f = e - 1 /\ i \in Nat /\ i >= 1 /\ i <= k
          BY <1>1, <2>1, <4>1, <4>3
        <5> HIDE DEF f
        <5>4. f - k + i \in 1 .. f /\ f - k + i + 1 = e - k + i
          BY ONLY <5>3
        <5>1. Len(left) - k + i \in 1 .. Len(left) /\ Len(left) - k + i + 1 = e - k + i
          BY <5>4 DEF f
        <5>2. left[Len(left) - k + i] = state.ended[Len(left) - k + i + 1]
          BY <4>3, <5>1
        <5> QED
          BY <2>2, <5>1, <5>2
      <4> QED
        BY <1>1, <2>1, <4>1, <4>3, <4>4
    <3> QED
      BY <3>1, <3>2
  <2>4. /\ Len(next.ended) = Len(left) + 1 /\ next.ended[Len(left) + 1] = id
        /\ \A j \in 1 .. Len(left) : next.ended[j] = left[j]
    BY <1>3, <1>4, <1>8
  <2>5. ASSUME NEW i \in 1 .. k + 1 PROVE next.ended[Len(next.ended) - (k + 1) + i] = next.ids[i]
    <3>1. Len(next.ended) - (k + 1) + i = Len(left) - k + i
      BY <1>1, <2>3, <2>4
    <3>2. CASE i = k + 1
      <4>1. Len(left) - k + i = Len(left) + 1
        BY <1>1, <2>3, <3>2
      <4> QED
        BY <1>11, <2>4, <3>1, <3>2, <4>1
    <3>3. CASE i # k + 1
      <4>1. i \in 1 .. k /\ Len(left) - k + i \in 1 .. Len(left)
        BY <1>1, <2>3, <3>3
      <4> QED
        BY <1>11, <2>3, <2>4, <3>1, <4>1
    <3> QED
      BY <3>2, <3>3
  <2>6. Len(next.ended) >= k + 1
    BY <1>1, <2>3, <2>4
  <2> QED
    BY <2>5, <2>6
<1>15. NothingDisplaced(start, directories, k + 1, next)
  <2> DEFINE l == Len(start.live)
  <2> SUFFICES ASSUME l + (k + 1) <= MaxLive
               PROVE  /\ Len(next.live) = l + (k + 1)
                      /\ OwnedBy(next.live) \subseteq OwnedBy(start.live) \union TracesUpTo(directories, k + 1)
                      /\ OwnedBy(start.live) \intersect OwnedBy(directories) = {} =>
                           \A i \in 1 .. k + 1 :
                             /\ next.live[l + i].id = next.ids[i]
                             /\ next.live[l + i].complete
                             /\ next.live[l + i].traces = directories[i].traces
                             /\ next.live[l + i].content = directories[i].content
    BY DEF NothingDisplaced
  <2>1. l \in Nat /\ l + k <= MaxLive
    <3>1. l \in Nat
      BY <1>2
    <3> HIDE DEF l
    <3> QED
      BY <1>1, <1>6, <3>1
  <2>2. /\ Len(state.live) = l + k
        /\ OwnedBy(state.live) \subseteq OwnedBy(start.live) \union TracesUpTo(directories, k)
        /\ OwnedBy(start.live) \intersect OwnedBy(directories) = {} =>
             \A i \in 1 .. k :
               /\ state.live[l + i].id = state.ids[i]
               /\ state.live[l + i].complete
               /\ state.live[l + i].traces = directories[i].traces
               /\ state.live[l + i].content = directories[i].content
    BY <2>1 DEF LoadGoesOn, NothingDisplaced
  <2> HIDE DEF l
  <2>3. rest = state.live
    BY <1>1, <1>5, <1>6, <2>1, <2>2
  <2>4. Len(next.live) = l + (k + 1)
    BY <1>1, <1>12, <2>1, <2>2, <2>3
  <2>5. OwnedBy(next.live) \subseteq OwnedBy(rest) \union s.traces
    <3>1. /\ DOMAIN next.live = 1 .. Len(next.live) /\ DOMAIN rest = 1 .. Len(rest)
          /\ \A m \in 1 .. Len(next.live) : m \in 1 .. Len(rest) \/ m = Len(rest) + 1
      <4>1. next.live \in Seq(LiveSessions)
        BY <1>9 DEF LoadStates
      <4>2. \A m \in 1 .. Len(next.live) : m \in 1 .. Len(rest) \/ m = Len(rest) + 1
        BY ONLY <1>6, <1>12
      <4> QED
        BY <1>3, <4>1, <4>2
    <3>2. ASSUME NEW t \in OwnedBy(next.live) PROVE t \in OwnedBy(rest) \/ t \in s.traces
      <4>1. PICK m \in 1 .. Len(next.live) : t \in next.live[m].traces
        BY <3>1 DEF OwnedBy
      <4>2. CASE m \in 1 .. Len(rest)
        <5>1. t \in rest[m].traces
          BY <1>12, <4>1, <4>2
        <5> QED
          BY <3>1, <4>2, <5>1 DEF OwnedBy
      <4>3. CASE m = Len(rest) + 1
        BY <1>7, <1>12, <4>1, <4>3
      <4> QED
        BY <3>1, <4>2, <4>3
    <3> QED
      BY <3>2
  <2>6. s.traces \subseteq TracesUpTo(directories, k + 1)
    <3>1. k + 1 \in 1 .. k + 1
      BY <1>1
    <3> QED
      BY <3>1 DEF TracesUpTo, s
  <2>7. TracesUpTo(directories, k) \subseteq TracesUpTo(directories, k + 1)
    <3>1. \A i \in 1 .. k : i \in 1 .. k + 1
      BY <1>1
    <3> QED
      BY <3>1 DEF TracesUpTo
  <2>8. OwnedBy(next.live) \subseteq OwnedBy(start.live) \union TracesUpTo(directories, k + 1)
    BY <2>2, <2>3, <2>5, <2>6, <2>7
  <2>9. ASSUME OwnedBy(start.live) \intersect OwnedBy(directories) = {}, NEW i \in 1 .. k + 1
        PROVE  /\ next.live[l + i].id = next.ids[i]
               /\ next.live[l + i].complete
               /\ next.live[l + i].traces = directories[i].traces
               /\ next.live[l + i].content = directories[i].content
    <3>1. CASE i = k + 1
      <4>1. next.live[l + i] = new /\ next.ids[i] = id /\ directories[i] = s
        <5>1. l + i = Len(rest) + 1
          BY <1>1, <2>1, <2>2, <2>3, <3>1
        <5> QED
          BY <1>11, <1>12, <3>1, <5>1 DEF s
      <4>2. s.traces \intersect OwnedBy(rest) = {}
        <5>1. s.traces \subseteq OwnedBy(directories)
          BY <1>1 DEF OwnedBy, s
        <5>2. s.traces \intersect TracesUpTo(directories, k) = {}
          <6>1. \A j \in 1 .. k : j \in 1 .. Len(directories) /\ j # k + 1
            BY <1>1
          <6>2. \A j \in 1 .. k : directories[j].traces \intersect s.traces = {}
            BY <1>1, <6>1 DEF DirectoriesDiffer, s
          <6> QED
            BY <6>2 DEF TracesUpTo
        <5> QED
          BY <2>2, <2>3, <2>9, <5>1, <5>2
      <4> QED
        BY <1>7, <4>1, <4>2
    <3>2. CASE i # k + 1
      <4>1. i \in 1 .. k /\ l + i \in 1 .. Len(rest)
        BY <1>1, <2>1, <2>2, <2>3, <3>2
      <4>2. next.live[l + i] = state.live[l + i] /\ next.ids[i] = state.ids[i]
        BY <1>11, <1>12, <2>3, <4>1
      <4> QED
        BY <2>2, <2>9, <4>1, <4>2
    <3> QED
      BY <3>1, <3>2
  <2> QED
    BY <2>4, <2>8, <2>9
<1>16. LoadGoesOn(start, directories, k + 1, next)
  BY <1>10, <1>11, <1>13, <1>14, <1>15 DEF LoadGoesOn
<1> QED
  BY <1>1, <1>9, <1>16 DEF s

LEMMA LoadSteps ==
  ASSUME NEW start \in LoadStates, NEW directories \in Seq(LiveSessions), DirectoriesDiffer(directories),
         NEW k \in 0 .. Len(directories) - 1, NEW state, LoadInv(start, directories, k, state),
         StoreFits(start.live, start.ended, start.born)
  PROVE  LoadInv(start, directories, k + 1, Loading(state, directories[k + 1]))
<1> DEFINE next == Loading(state, directories[k + 1])
<1>1. /\ state \in LoadStates /\ k \in Nat
      /\ state.ok => LoadGoesOn(start, directories, k, state)
      /\ ~state.ok => LoadStopped(start, state)
      /\ k = 0 => state = start
  BY DEF LoadInv
<1>2. CASE state.ok /\ HasRoom(state.live, state.ended)
  <2>1. next.ok
    BY <1>2 DEF Loading
  <2>2. next \in LoadStates /\ LoadGoesOn(start, directories, k + 1, next)
    BY <1>1, <1>2, OneIsLoaded
  <2> HIDE DEF next
  <2>3. LoadInv(start, directories, k + 1, next)
    BY <1>1, <2>1, <2>2 DEF LoadInv
  <2> QED
    BY <2>3 DEF next
<1>3. CASE ~state.ok \/ ~HasRoom(state.live, state.ended)
  <2>1. next = [state EXCEPT !.ok = FALSE]
    BY <1>3 DEF Loading
  <2>2. next \in LoadStates /\ ~next.ok
    BY <1>1, <2>1 DEF LoadStates
  <2>3. next.live = state.live /\ next.ended = state.ended /\ next.born = state.born
    BY <1>1, <2>1 DEF LoadStates
  <2>4. LoadStopped(start, state)
    <3>1. CASE ~state.ok
      BY <1>1, <3>1
    <3>2. CASE state.ok
      <4>1. k = 0
        BY <1>1, <1>3, <3>2 DEF LoadGoesOn, HasRoom
      <4> QED
        BY <1>1, <4>1 DEF LoadStopped
    <3> QED
      BY <3>1, <3>2
  <2> HIDE DEF next
  <2>5. LoadStopped(start, next)
    BY <2>3, <2>4 DEF LoadStopped
  <2>6. LoadInv(start, directories, k + 1, next)
    BY <1>1, <2>2, <2>5 DEF LoadInv
  <2> QED
    BY <2>6 DEF next
<1> QED
  BY <1>2, <1>3

LEMMA LoadEnds ==
  ASSUME NEW start \in LoadStates, NEW directories \in Seq(LiveSessions), DirectoriesDiffer(directories),
         StoreFits(start.live, start.ended, start.born), start.ok, start.ids = <<>>
  PROVE  LoadInv(start, directories, Len(directories), Loaded(start, directories))
<1>1. Len(directories) \in Nat
  OBVIOUS
<1>2. PICK after : /\ LoadsFrom(after, start, directories)
                   /\ Loaded(start, directories) = after[Len(directories)]
  BY <1>1, LoadsExist
<1> DEFINE N == Len(directories)
           Bad == {n \in 0 .. N : ~LoadInv(start, directories, n, after[n])}
<1>3. /\ after[0] = start
      /\ \A n \in 0 .. N : n # 0 => after[n] = Loading(after[n - 1], directories[n])
  BY <1>1, <1>2 DEF LoadsFrom
<1>4. Bad = {}
  <2> SUFFICES ASSUME Bad # {} PROVE FALSE
    OBVIOUS
  <2>1. Bad \subseteq Nat
    OBVIOUS
  <2> HIDE DEF Bad
  <2>2. PICK n \in Bad : \A m \in Bad : n <= m
    BY <2>1, LeastNumber
  <2>3. n \in 0 .. N /\ ~LoadInv(start, directories, n, after[n])
    BY DEF Bad
  <2>4. n # 0
    BY <1>3, <2>3, LoadBegins
  <2>5. n - 1 \in 0 .. Len(directories) - 1 /\ (n - 1) + 1 = n
    BY <1>1, <2>3, <2>4
  <2>6. LoadInv(start, directories, n - 1, after[n - 1])
    <3>1. n - 1 \in 0 .. N /\ ~(n <= n - 1)
      BY <1>1, <2>3, <2>4
    <3> QED
      BY <2>2, <3>1 DEF Bad
  <2>7. LoadInv(start, directories, n, Loading(after[n - 1], directories[n]))
    BY <2>5, <2>6, LoadSteps
  <2> QED
    BY <1>3, <2>3, <2>4, <2>7
<1>5. N \in 0 .. N
  BY <1>1
<1> QED
  BY <1>2, <1>4, <1>5

LEMMA LoadKeeps ==
  ASSUME RoutesInv, UNCHANGED caller, caller = "reports", LoadBundle
  PROVE  RoutesInv'
<1> DEFINE start == [live |-> live, ended |-> ended, born |-> born, ids |-> <<>>, ok |-> TRUE]
           done == Loaded(start, bundle)
<1>1. /\ StoreFits(live, ended, born) /\ born \in Nat /\ bundle \in Seq(LiveSessions)
      /\ DirectoriesDiffer(bundle) /\ live \in Seq(LiveSessions) /\ ended \in Seq(Ids)
      /\ DOMAIN live = 1 .. Len(live) /\ Len(bundle) \in Nat /\ DOMAIN bundle = 1 .. Len(bundle)
      /\ MaxBorn \in Nat /\ MaxLive \in Nat
  BY SessionRoutesAssumption DEF RoutesInv, StoreFits, SessionsTyped, BundleFits, DirectoriesDiffer
<1>2. UNCHANGED <<request, history, files, promised, bundle>>
  BY DEF LoadBundle
<1>3. \A s, o, b : StoreFits(s, o, b) =>
        \A n, m \in DOMAIN s : n # m => s[n].id # s[m].id /\ s[n].traces \intersect s[m].traces = {}
  BY DEF StoreFits, SessionsTyped, SessionsDiffer
<1>4. CASE Len(bundle) > MaxBundle
  <2>1. load' = [status |-> 413, ids |-> <<>>, before |-> live] /\ UNCHANGED <<live, ended, born>>
    BY <1>4 DEF LoadBundle, store
  <2>2. BundlesLoadBack'
    <3>1. load'.status = 413 /\ load'.before = live
      BY <2>1
    <3>2. \A n \in DOMAIN live : live[n] \in Range(live)
      BY DEF Range
    <3>3. \A n, m \in DOMAIN live : n # m =>
            live[n].id # live[m].id /\ live[n].traces \intersect live[m].traces = {}
      BY <1>1, <1>3
    <3> QED
      BY <2>1, <3>1, <3>2, <3>3 DEF BundlesLoadBack
  <2>3. RequestFits'
    BY <1>2, <2>1 DEF RoutesInv, RequestFits, PickedFit, ReadFits, HistoryFits, NoneAtWork, HasState
  <2> QED
    BY <1>2, <2>1, <2>2, <2>3 DEF RoutesInv, Bystanders, BundleFits, FilesFit
<1>5. CASE ~(Len(bundle) > MaxBundle)
  <2>1. /\ live' = done.live /\ ended' = done.ended /\ born' = done.born
        /\ load' = [status |-> IF done.ok THEN 200 ELSE 503,
                    ids |-> IF done.ok THEN done.ids ELSE <<>>, before |-> live]
        /\ born + Len(bundle) <= MaxBorn + MaxLive
    BY <1>5 DEF LoadBundle
  <2>2. /\ start \in LoadStates /\ start.ok /\ start.ids = <<>>
        /\ start.live = live /\ start.ended = ended /\ start.born = born
    BY <1>1 DEF LoadStates
  <2> HIDE DEF start
  <2>3. LoadInv(start, bundle, Len(bundle), done)
    BY <1>1, <2>2, LoadEnds
  <2> HIDE DEF done
  <2>4. /\ done \in LoadStates
        /\ done.ok => LoadGoesOn(start, bundle, Len(bundle), done)
        /\ ~done.ok => LoadStopped(start, done)
    BY <2>3 DEF LoadInv
  <2>5. StoreFits(live', ended', born') /\ born' \in 0 .. MaxBorn + MaxLive
    <3>1. CASE done.ok
      BY <1>1, <2>1, <2>2, <2>4, <3>1 DEF LoadGoesOn
    <3>2. CASE ~done.ok
      BY <1>1, <2>1, <2>2, <2>4, <3>2 DEF LoadStopped, RoutesInv
    <3> QED
      BY <3>1, <3>2
  <2>6. RequestFits'
    <3>1. request = NoRequest /\ history = NoHistory /\ RequestFits
      BY DEF RoutesInv, Bystanders, FilesFit
    <3>2. DOMAIN request'.picked = {}
      BY <1>2, <3>1 DEF NoRequest
    <3>3. PickedFit' /\ HistoryFits'
      BY <1>2, <3>1, <3>2 DEF PickedFit, HistoryFits, NoRequest, NoHistory
    <3>4. \E D \in SUBSET Nat : request' \in Requests(D) /\ history' \in Histories(D)
      BY <1>2, <3>1 DEF RequestFits
    <3> QED
      BY <3>3, <3>4 DEF RequestFits
  <2>7. BundlesLoadBack'
    <3>1. /\ live' \in Seq(LiveSessions) /\ DOMAIN live' = 1 .. Len(live')
          /\ load'.before = live /\ load'.status = IF done.ok THEN 200 ELSE 503
          /\ load'.ids = IF done.ok THEN done.ids ELSE <<>>
      BY <2>1, <2>5 DEF StoreFits, SessionsTyped
    <3>2. \A n, m \in DOMAIN live' : n # m =>
            live'[n].id # live'[m].id /\ live'[n].traces \intersect live'[m].traces = {}
      BY <1>3, <2>5
    <3>3. CASE ~done.ok
      <4>1. live' = live
        BY <2>1, <2>2, <2>4, <3>3 DEF LoadStopped
      <4>2. \A n \in DOMAIN live : live[n] \in Range(live')
        BY <4>1 DEF Range
      <4> QED
        BY <3>1, <3>2, <3>3, <4>1, <4>2 DEF BundlesLoadBack
    <3>4. CASE done.ok
      <4>1. /\ WorkRemains(start, done) /\ LoadedAreLast(start, Len(bundle), done)
            /\ NothingDisplaced(start, bundle, Len(bundle), done) /\ Len(done.ids) = Len(bundle)
            /\ StoreFits(live', ended', born')
        BY <2>4, <2>5, <3>4 DEF LoadGoesOn
      <4>2. \A n \in DOMAIN live : ~live[n].complete => live[n] \in Range(live')
        <5>1. ASSUME NEW n \in 1 .. Len(live), ~live[n].complete
              PROVE  \E m \in DOMAIN live' : live'[m] = live[n]
          BY <2>1, <2>2, <3>1, <4>1, <5>1 DEF WorkRemains
        <5> QED
          BY <1>1, <5>1 DEF Range
      <4>3. ASSUME Cardinality(AtWork(live)) + Len(bundle) <= MaxLive
            PROVE  Range(done.ids) \subseteq IdsOf(live')
        <5>1. /\ Len(ended') \in Nat /\ Len(ended') >= Len(bundle)
              /\ \A i \in 1 .. Len(bundle) : ended'[Len(ended') - Len(bundle) + i] = done.ids[i]
          BY <2>1, <2>2, <4>1, <4>3 DEF LoadedAreLast, StoreFits, SessionsTyped
        <5>2. ASSUME NEW i \in 1 .. Len(bundle) PROVE done.ids[i] \in IdsOf(live')
          <6>1. Len(ended') - Len(bundle) + i \in 1 .. Len(ended')
            BY <1>1, <5>1
          <6>2. PICK n \in 1 .. Len(live') : live'[n].id = ended'[Len(ended') - Len(bundle) + i]
            BY <4>1, <6>1 DEF StoreFits, CompleteOnes
          <6> QED
            BY <3>1, <5>1, <6>2 DEF IdsOf
        <5>3. DOMAIN done.ids = 1 .. Len(bundle)
          BY <2>4, <4>1 DEF LoadStates
        <5> QED
          BY <5>2, <5>3 DEF Range
      <4>4. ASSUME Len(live) + Len(bundle) <= MaxLive, OwnedBy(live) \intersect OwnedBy(bundle) = {},
                   NEW n \in 1 .. Len(bundle)
            PROVE  \E s \in Range(live') :
                     /\ s.id = done.ids[n] /\ s.complete
                     /\ s.traces = bundle[n].traces /\ s.content = bundle[n].content
        <5>1. /\ Len(live') = Len(live) + Len(bundle)
              /\ live'[Len(live) + n].id = done.ids[n]
              /\ live'[Len(live) + n].complete
              /\ live'[Len(live) + n].traces = bundle[n].traces
              /\ live'[Len(live) + n].content = bundle[n].content
          BY <2>1, <2>2, <4>1, <4>4 DEF NothingDisplaced
        <5>2. Len(live) + n \in DOMAIN live'
          <6>1. Len(live) \in Nat
            BY <1>1
          <6> QED
            BY <1>1, <3>1, <5>1, <6>1
        <5>3. live'[Len(live) + n] \in Range(live')
          BY <5>2 DEF Range
        <5> QED
          BY <5>1, <5>3
      <4>5. load'.status = 200 /\ load'.ids = done.ids /\ bundle' = bundle /\ load'.before = live
        BY <1>2, <3>1, <3>4
      <4>6. Len(live) + Len(bundle) <= MaxLive /\ OwnedBy(live) \intersect OwnedBy(bundle) = {} =>
              \A n \in DOMAIN bundle : \E s \in Range(live') :
                /\ s.id = done.ids[n] /\ s.complete
                /\ s.traces = bundle[n].traces /\ s.content = bundle[n].content
        BY <1>1, <4>4
      <4> HIDE DEF done
      <4> QED
        BY <3>2, <4>2, <4>3, <4>5, <4>6 DEF BundlesLoadBack
    <3> QED
      BY <3>3, <3>4
  <2> QED
    BY <1>2, <2>5, <2>6, <2>7 DEF RoutesInv, Bystanders, BundleFits, FilesFit
<1> QED
  BY <1>4, <1>5

LEMMA RoutesStay ==
  ASSUME RoutesInv, UNCHANGED hvars
  PROVE  RoutesInv'
BY DEF hvars, RoutesInv, StoreFits, SessionsTyped, SessionsDiffer, CompleteOnes, RequestFits, PickedFit,
       ReadFits, HistoryFits, NoneAtWork, HasState, Bystanders, FilesFit, BundleFits, BundlesLoadBack

LEMMA RoutesAdvance == RoutesInv /\ [SessionRoutesNext]_hvars => RoutesInv'
<1> SUFFICES ASSUME RoutesInv, [SessionRoutesNext]_hvars PROVE RoutesInv'
  OBVIOUS
<1>1. CASE UNCHANGED hvars
  BY <1>1, RoutesStay
<1>2. ASSUME SessionRoutesNext PROVE RoutesInv'
  <2>1. UNCHANGED caller
    BY <1>2 DEF SessionRoutesNext
  <2>2. CASE \E base \in Bases, t \in LiveTraces : BeginSession(base, t)
    BY <2>1, <2>2, BeginKeeps
  <2>3. CASE \E n \in DOMAIN live : SessionGrows(n) \/ SessionCompletes(n)
    BY <2>1, <2>3, GrowKeeps, CompletionKeeps
  <2>4. CASE SessionExpires
    BY <2>1, <2>4, ExpiryKeeps
  <2>5. CASE caller = "evaluates" /\ (EvaluationStep \/ \E golden \in IdsOf(live) : EvaluateSessions(golden))
    BY <2>1, <2>5, RequestKeeps, ReadKeeps, ScoreKeeps, StoringKeeps DEF EvaluationStep
  <2>6. CASE \E golden \in IdsOf(live), ids \in SUBSET IdsOf(live) : PrepareEvaluation(golden, ids)
    BY <2>1, <2>6, PreparingKeeps
  <2>7. CASE caller = "reports" /\ (CreateBundle \/ LoadBundle \/ ServerRestarts)
    BY <2>1, <2>7, BundlingKeeps, LoadKeeps, RestartKeeps
  <2> QED
    BY <1>2, <2>2, <2>3, <2>4, <2>5, <2>6, <2>7 DEF SessionRoutesNext
<1> QED
  BY <1>1, <1>2

LEMMA RoutesKeepTheirWord ==
  RoutesInv => PickedAreAccountedFor /\ DownloadsKeepTheirPromise /\ BundlesLoadBack
<1> SUFFICES ASSUME RoutesInv PROVE PickedAreAccountedFor /\ DownloadsKeepTheirPromise /\ BundlesLoadBack
  OBVIOUS
<1>1. PickedAreAccountedFor
  <2>1. PICK D \in SUBSET Nat : request \in Requests(D)
    BY DEF RoutesInv, RequestFits
  <2>2. /\ live \in Seq(LiveSessions) /\ DOMAIN live = 1 .. Len(live) /\ DOMAIN request.picked = D
        /\ PickedFit /\ HistoryFits
    BY <2>1 DEF RoutesInv, StoreFits, SessionsTyped, RequestFits, Requests
  <2>3. ASSUME NEW n \in D, NEW m \in 1 .. Len(live),
               live[m] = request.picked[n], live[m].traces # {}, request.score[n] \notin {"waiting"}
        PROVE  request.found[n] = [serial |-> live[m].serial, content |-> live[m].content]
    <3>1. ReadFits(n, live[m]) /\ live[m] \in LiveSessions /\ request.found[n] \in Reads
      <4>1. ReadFits(n, live[m])
        BY <2>2 DEF PickedFit
      <4>2. live[m] \in LiveSessions
        BY <2>2
      <4>3. request.found \in [D -> Reads]
        BY <2>1 DEF Requests
      <4> QED
        BY <4>1, <4>2, <4>3
    <3>2. /\ request.found[n].serial = live[m].serial
          /\ live[m].content <= request.found[n].content /\ request.found[n].content <= live[m].content
      BY <2>3, <3>1 DEF ReadFits
    <3>3. live[m].content \in Nat /\ request.found[n].content \in Nat
      BY <3>1 DEF LiveSessions, Reads
    <3>4. request.found[n].content = live[m].content
      BY <3>2, <3>3
    <3> QED
      BY <3>1, <3>2, <3>4 DEF Reads
  <2> QED
    BY <2>2, <2>3 DEF PickedAreAccountedFor, HistoryFits
<1>2. DownloadsKeepTheirPromise
  BY DEF RoutesInv, FilesFit, Reads, DownloadsKeepTheirPromise
<1> QED
  BY <1>1, <1>2 DEF RoutesInv

-----------------------------------------------------------------------------
(* The parts together.                                                     *)

MarkersInv == MigratorInv /\ EvaluatorsInv /\ ServerInv /\ MemoryInv

\* A step of the server is a step of a part, and the other parts stand still.
LEMMA StepsOfParts ==
  ASSUME [ServicesNext]_vars
  PROVE  /\ [MigratorNext]_mvars /\ [EvaluatorsNext]_evars
         /\ [ServerNext]_nvars /\ [MemoryNext]_yvars
<1>1. CASE UNCHANGED vars
  BY <1>1 DEF vars
<1>2. CASE ServicesNext
  BY <1>2 DEF ServicesNext
<1>3. QED
  BY <1>1, <1>2

LEMMA SchemaIsTold == MigratorInv => CleanRowTellsSchema
<1> SUFFICES ASSUME MigratorInv, ~rowLost, ~overlap
             PROVE  Cardinality(rows) <= 1 /\ \A r \in rows : ~r.dirty => schema = 1 .. r.version
  BY DEF CleanRowTellsSchema
<1>1. PICK k \in 0 .. Latest : SchemaAt(k)
  BY DEF MigratorInv
<1>2. rows = {} \/ \E r \in rows : rows = {r}
  BY <1>1 DEF SchemaAt, RowsFit
<1>3. Cardinality(rows) <= 1
  BY <1>2, FS_EmptySet, FS_Singleton
<1>4. \A r \in rows : ~r.dirty => schema = 1 .. r.version
  BY <1>1 DEF SchemaAt, RowsFit
<1>5. QED
  BY <1>3, <1>4

\* A clean migration row, the hash file of an environment, SERVING of a gRPC API and
\* the row of a run say what is so, through crashes, failed migrations, cancelled
\* builds and stops of the server (Services).
THEOREM MarkersAreTrue == ServicesSpec => []MarkersTellTheTruth
<1>1. ServicesInit => MarkersInv
  BY MigratorStarts, EvaluatorsStart, ServerStarts, MemoryStarts DEF ServicesInit, MarkersInv
<1>2. MarkersInv /\ [ServicesNext]_vars => MarkersInv'
  BY StepsOfParts, MigratorAdvances, EvaluatorsAdvance, ServerAdvances, MemoryAdvances DEF MarkersInv
<1>3. MarkersInv => MarkersTellTheTruth
  BY SchemaIsTold DEF MarkersInv, MarkersTellTheTruth, EvaluatorsInv, ServerInv, MemoryInv
<1>4. QED
  BY <1>1, <1>2, <1>3, PTL DEF ServicesSpec
=============================================================================
