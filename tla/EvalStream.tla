----------------------------- MODULE EvalStream -----------------------------
(***************************************************************************)
(* One evaluation as a stream of events (api/evaluation.py), with the      *)
(* runner's tasks underneath (runner.py) and the client at the other end   *)
(* (the SSE frames of api/routes.py, EvaluateTraces of                     *)
(* api/rpc/services.py).                                                   *)
(*                                                                         *)
(* A unit is one evaluator applied to one group of traces.  The units of a *)
(* group are gathered without return_exceptions: the first that raises     *)
(* ends the gather and the group, and its siblings run on as tasks nobody  *)
(* awaits.                                                                 *)
(***************************************************************************)
EXTENDS Integers, FiniteSets, Sequences

CONSTANTS
  Groups,        \* groups of traces to evaluate
  Metrics,       \* evaluators of the request
  MaxTraces,     \* max_concurrent_traces
  MaxEvals,      \* max_concurrent_evals
  MaxRaises      \* bound: evaluators that raise

ASSUME EvalStreamAssumption ==
  /\ MaxTraces \in Nat \ {0} /\ MaxEvals \in Nat \ {0} /\ MaxRaises \in Nat
  /\ IsFiniteSet(Groups) /\ IsFiniteSet(Metrics)

VARIABLES
  consumer,    \* where stream_evaluation is
  outcome,     \* what the client got last: "none", "done", "error", "gone"
  producer,    \* the task that runs the evaluation
  group,       \* each group's task
  unit,        \* each evaluator's task
  scored,      \* the metric results a group has so far
  queue,       \* events between the two tasks
  partials,    \* the results of each group the client saw last
  final,       \* the groups and results of Done, once the client has it
  recorded,    \* what record_eval_run wrote: "no", "open", "closed"
  raises

svars == <<consumer, outcome, producer, group, unit, scored, queue,
           partials, final, recorded, raises>>
tasks == <<producer, group, unit, scored, raises>>
client == <<outcome, partials, final>>

Units == Groups \X Metrics
Active == {"waiting", "running"}
NoFinal == [g \in {} |-> {}]

EvalStreamInit ==
  /\ consumer = "performance" /\ outcome = "none" /\ producer = "none"
  /\ group = [g \in Groups |-> "waiting"]
  /\ unit = [u \in Units |-> "none"]
  /\ scored = [g \in Groups |-> {}]
  /\ queue = <<>>
  /\ partials = [g \in Groups |-> {}]
  /\ final = NoFinal
  /\ recorded = "no"
  /\ raises = 0

Put(event) == queue' = Append(queue, event)
Count(f, state) == Cardinality({x \in DOMAIN f : f[x] = state})

-----------------------------------------------------------------------------
(* The consumer: stream_evaluation.                                        *)

\* Performance events of every group, then the credential references, whose
\* failure ends the stream before anything is evaluated.
SendPerformance ==
  /\ consumer = "performance"
  /\ consumer' = "resolving"
  /\ UNCHANGED <<client, tasks, queue, recorded>>

ResolveRefs ==
  /\ consumer = "resolving"
  /\ \/ consumer' = "reading" /\ producer' = "running" /\ UNCHANGED outcome
     \/ consumer' = "over" /\ outcome' = "error" /\ UNCHANGED producer
  /\ UNCHANGED <<group, unit, scored, raises, queue, partials, final, recorded>>

ReadEvent ==
  /\ consumer = "reading" /\ queue # <<>>
  /\ LET event == Head(queue)
     IN  CASE event.kind = "group" ->
                /\ partials' = [partials EXCEPT ![event.group] = event.results]
                /\ UNCHANGED <<consumer, outcome, final>>
           [] event.kind = "done" ->
                /\ consumer' = "persisting" /\ final' = event.results
                /\ UNCHANGED <<outcome, partials>>
           [] event.kind = "error" ->
                /\ consumer' = "over" /\ outcome' = "error"
                /\ UNCHANGED <<partials, final>>
  /\ queue' = Tail(queue)
  /\ UNCHANGED <<tasks, recorded>>

\* record_eval_run creates a row, then results and status; a failure is
\* logged and the client gets its result all the same.
CreateRow ==
  /\ consumer = "persisting" /\ recorded = "no"
  /\ recorded' = "open"
  /\ UNCHANGED <<consumer, client, tasks, queue>>

SendDone ==
  /\ consumer = "persisting"
  /\ recorded' = IF recorded = "open" THEN "closed" ELSE recorded
  /\ consumer' = "over" /\ outcome' = "done"
  /\ UNCHANGED <<tasks, queue, partials, final>>

\* The client goes away; the generator is closed at once or when the event
\* loop finalizes it.
Leave ==
  /\ consumer \notin {"over", "closing"}
  /\ consumer' = "closing" /\ outcome' = "gone"
  /\ UNCHANGED <<tasks, queue, partials, final, recorded>>

\* Mutant: only the producer is cancelled, not what it gathers.
CloseAlone ==
  /\ consumer = "closing"
  /\ consumer' = "over"
  /\ producer' = IF producer = "running" THEN "cancelled" ELSE producer
  /\ UNCHANGED <<client, group, unit, scored, raises, queue, recorded>>

\* The finally block cancels the task and what the task awaits: the groups in
\* the outer gather and the units in the gather of a group that is running.
Close ==
  /\ consumer = "closing"
  /\ consumer' = "over"
  /\ producer' = IF producer = "running" THEN "cancelled" ELSE producer
  /\ LET stopped == {g \in Groups : producer = "running" /\ group[g] \in Active}
     IN  /\ group' = [g \in Groups |-> IF g \in stopped THEN "cancelled" ELSE group[g]]
         /\ unit' = [u \in Units |->
              IF u[1] \in stopped /\ unit[u] \in Active THEN "cancelled" ELSE unit[u]]
  /\ UNCHANGED <<client, scored, raises, queue, recorded>>

-----------------------------------------------------------------------------
(* The producer: run_evaluation_from_traces and _evaluate_group.           *)

\* A golden eval set that cannot be read ends the evaluation at its start.
PrepareFails ==
  /\ producer = "running" /\ \A g \in Groups : group[g] = "waiting"
  /\ producer' = "ended"
  /\ Put([kind |-> "error"])
  /\ UNCHANGED <<consumer, client, group, unit, scored, raises, recorded>>

\* A group whose turns cannot be extracted is over with one error entry.
StartGroup(g) ==
  /\ producer = "running" /\ group[g] = "waiting"
  /\ Count(group, "running") < MaxTraces
  /\ \/ /\ group' = [group EXCEPT ![g] = "running"]
        /\ unit' = [u \in Units |-> IF u[1] = g THEN "waiting" ELSE unit[u]]
        /\ UNCHANGED scored
     \/ /\ group' = [group EXCEPT ![g] = "over"]
        /\ scored' = [scored EXCEPT ![g] = {"(all)"}]
        /\ UNCHANGED unit
  /\ UNCHANGED <<consumer, client, producer, raises, queue, recorded>>

StartUnit(u) ==
  /\ unit[u] = "waiting" /\ Count(unit, "running") < MaxEvals
  /\ unit' = [unit EXCEPT ![u] = "running"]
  /\ UNCHANGED <<consumer, client, producer, group, scored, raises, queue, recorded>>

\* A result, an error result included: appended to the group's list, of which
\* the event carries a copy.
UnitScores(u) ==
  /\ unit[u] = "running"
  /\ unit' = [unit EXCEPT ![u] = "done"]
  /\ scored' = [scored EXCEPT ![u[1]] = @ \union {u[2]}]
  /\ Put([kind |-> "group", group |-> u[1], results |-> scored'[u[1]]])
  /\ group' = [group EXCEPT ![u[1]] =
       IF @ = "running" /\ \A m \in Metrics : unit'[<<u[1], m>>] = "done" THEN "over" ELSE @]
  /\ UNCHANGED <<consumer, client, producer, raises, recorded>>

\* The call itself raises (a remote evaluator that cannot be resolved).
UnitRaises(u) ==
  /\ unit[u] = "running" /\ raises < MaxRaises
  /\ raises' = raises + 1
  /\ unit' = [unit EXCEPT ![u] = "raised"]
  /\ group' = [group EXCEPT ![u[1]] = IF @ = "running" THEN "failed" ELSE @]
  /\ UNCHANGED <<consumer, client, producer, scored, queue, recorded>>

\* Failed groups are errors of the result, the others its trace results.
FinishRun ==
  /\ producer = "running" /\ \A g \in Groups : group[g] \in {"over", "failed"}
  /\ producer' = "ended"
  /\ Put([kind |-> "done",
          results |-> [g \in {g \in Groups : group[g] = "over"} |-> scored[g]]])
  /\ UNCHANGED <<consumer, client, group, unit, scored, raises, recorded>>

ConsumerStep == \/ SendPerformance \/ ResolveRefs \/ ReadEvent \/ SendDone \/ Close
UnitStep == \E u \in Units : StartUnit(u) \/ UnitScores(u)
ProducerStep == FinishRun \/ \E g \in Groups : StartGroup(g)

EvalStreamNext ==
  \/ ConsumerStep \/ CreateRow \/ Leave \/ ProducerStep \/ PrepareFails
  \/ UnitStep \/ \E u \in Units : UnitRaises(u)

\* Every await of the event loop is resumed, and a metric call ends: judge and
\* evaluator calls have timeouts.
EvalStreamFairness == WF_svars(ConsumerStep) /\ WF_svars(ProducerStep) /\ WF_svars(UnitStep)

EvalStreamSpec == EvalStreamInit /\ [][EvalStreamNext]_svars /\ EvalStreamFairness

(***************************************************************************)
(* Properties.                                                             *)
(***************************************************************************)

EvalStreamTypeOK ==
  /\ consumer \in {"performance", "resolving", "reading", "persisting", "closing", "over"}
  /\ producer \in {"none", "running", "ended", "cancelled"}
  /\ \A g \in Groups : group[g] \in {"waiting", "running", "over", "failed", "cancelled"}

\* What the final result says of a group includes every partial result the
\* client was shown for it, although the runner goes on appending to the very
\* list the events are taken from (evaluation.py:50-53, 112-113), and an
\* evaluation whose groups all stand confirms every evaluator.
PartialsAreConfirmed ==
  outcome = "done" =>
    \A g \in DOMAIN final :
      /\ partials[g] \subseteq final[g]
      /\ final[g] \in {Metrics, {"(all)"}}

\* When the stream is over nothing of the evaluation is at work, except units
\* of a group that another of its evaluators brought down: those nobody
\* cancels (evaluation.py:148-152, runner.py:299).
OnlyStraysOutliveTheStream ==
  consumer = "over" => \A u \in Units : unit[u] \in Active => group[u[1]] = "failed"

\* evaluation.py:5-6: "The consumer always receives a terminal Done or the
\* evaluation's exception": in the end no reader is left waiting.
NobodyIsLeftReading == consumer # "reading"
=============================================================================
