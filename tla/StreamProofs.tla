---------------------------- MODULE StreamProofs ----------------------------
(***************************************************************************)
(* Proofs about streamed evaluations, result sinks, the SDK, watches and   *)
(* paged lists, for any number of groups, evaluators, sinks, events,       *)
(* posts, sessions, contexts, spans, results, rows and pages: a stream     *)
(* takes nothing back and leaves nothing at work but strays, a receiver    *)
(* has each event once and in the order of its run, a session that is over *)
(* has sent the spans it kept, a watch ends with all there was, and a list *)
(* shows each row once.  With the invariants of MarkersProofs, the readers *)
(* of all parts miss nothing and every part keeps its types.               *)
(***************************************************************************)
EXTENDS MarkersProofs

(***************************************************************************)
(* EvalStream.                                                             *)
(***************************************************************************)

Labels == Metrics \union {"(all)"}
GroupStates == {"waiting", "running", "over", "failed", "cancelled"}
UnitStates == {"none", "waiting", "running", "done", "raised", "cancelled"}

Answers == UNION {[D -> SUBSET Labels] : D \in SUBSET Groups}
GroupResults == [kind : {"group"}, group : Groups, results : SUBSET Labels]
DoneResults == [kind : {"done"}, results : Answers]
Failures == [kind : {"error"}]
StreamEvents == GroupResults \union DoneResults \union Failures

StreamTyped ==
  /\ consumer \in {"performance", "resolving", "reading", "persisting", "closing", "over"}
  /\ outcome \in {"none", "done", "error", "gone"}
  /\ producer \in {"none", "running", "ended", "cancelled"}
  /\ group \in [Groups -> GroupStates]
  /\ unit \in [Units -> UnitStates]
  /\ scored \in [Groups -> SUBSET Labels]
  /\ queue \in Seq(StreamEvents)
  /\ partials \in [Groups -> SUBSET Labels]
  /\ final \in Answers

\* The units of a group are at work only while it is running or after it has
\* failed; a running group has scored what its units have done, and one that is
\* over has scored everything, or has the one entry of a group without turns.
GroupFits(g) ==
  /\ group[g] = "running" =>
       /\ producer = "running"
       /\ scored[g] = {m \in Metrics : unit[<<g, m>>] = "done"}
  /\ group[g] = "waiting" => scored[g] = {}
  /\ group[g] \in {"waiting", "over", "cancelled"} =>
       \A m \in Metrics : unit[<<g, m>>] \notin Active
  /\ group[g] = "over" => scored[g] \in {Metrics, {"(all)"}}
GroupsFit == \A g \in Groups : GroupFits(g)

\* The consumer starts the producer, and passes on a result only when the
\* producer has ended.
ConsumerFits ==
  /\ consumer \in {"performance", "resolving"} =>
       producer = "none" /\ \A g \in Groups : group[g] = "waiting"
  /\ consumer = "persisting" => producer = "ended"
  /\ consumer = "over" => producer # "running"

\* An answer holds groups that are over, with all they have scored.
Stands(answer) ==
  \A g \in DOMAIN answer : g \in Groups /\ group[g] = "over" /\ answer[g] = scored[g]

\* An event tells what was scored when it was put, and no more; the last one
\* is put when the producer ends.
TellsTheTruth(e) ==
  /\ e.kind = "group" => e.group \in Groups /\ e.results \subseteq scored[e.group]
  /\ e.kind = "done" => Stands(e.results)
  /\ e.kind # "group" => producer = "ended"
QueueTellsTheTruth == \A e \in ToSet(queue) : TellsTheTruth(e)

ClientSawTheTruth ==
  /\ \A g \in Groups : partials[g] \subseteq scored[g]
  /\ Stands(final)

StreamInv == StreamTyped /\ GroupsFit /\ ConsumerFits /\ QueueTellsTheTruth /\ ClientSawTheTruth

\* What no step takes back: results, groups that are over, the producer's end.
Standing ==
  /\ \A g \in Groups :
       /\ scored[g] \subseteq scored'[g]
       /\ group[g] = "over" => group'[g] = "over" /\ scored'[g] = scored[g]
  /\ producer = "ended" => producer' = "ended"

-----------------------------------------------------------------------------
(* Init and the steps, one lemma for each group of actions.                *)

LEMMA StreamStarts == EvalStreamInit => StreamInv
<1> SUFFICES ASSUME EvalStreamInit PROVE StreamInv
  OBVIOUS
<1> USE DEF EvalStreamInit
<1>1. final \in [{} -> SUBSET Labels]
  BY DEF NoFinal
<1>2. StreamTyped
  BY <1>1 DEF StreamTyped, Answers, GroupStates, UnitStates
<1>3. GroupsFit /\ ConsumerFits
  BY DEF GroupsFit, GroupFits, ConsumerFits, Active, Units
<1>4. QueueTellsTheTruth
  BY DEF QueueTellsTheTruth, ToSet
<1>5. ClientSawTheTruth
  BY DEF ClientSawTheTruth, Stands, NoFinal
<1> QED
  BY <1>2, <1>3, <1>4, <1>5 DEF StreamInv

\* What was true of an answer, an event or the client stays true while nothing
\* is taken back.
LEMMA AnswersStand ==
  ASSUME Standing, NEW answer, Stands(answer)
  PROVE  Stands(answer)'
BY DEF Stands, Standing

LEMMA EventsStayTrue ==
  ASSUME Standing, NEW e, TellsTheTruth(e)
  PROVE  TellsTheTruth(e)'
<1>1. e.kind = "group" => e.group \in Groups /\ e.results \subseteq scored'[e.group]
  BY DEF TellsTheTruth, Standing
<1>2. e.kind = "done" => Stands(e.results)'
  BY AnswersStand DEF TellsTheTruth
<1>3. e.kind # "group" => producer' = "ended"
  BY DEF TellsTheTruth, Standing
<1> QED
  BY <1>1, <1>2, <1>3 DEF TellsTheTruth

LEMMA UnreadQueueStaysTrue ==
  ASSUME Standing, StreamInv, UNCHANGED queue
  PROVE  QueueTellsTheTruth'
BY EventsStayTrue DEF StreamInv, QueueTellsTheTruth

LEMMA PutKeepsTheTruth ==
  ASSUME Standing, StreamInv, NEW e \in StreamEvents, Put(e), TellsTheTruth(e)'
  PROVE  queue' \in Seq(StreamEvents) /\ QueueTellsTheTruth'
<1> USE DEF Put
<1>1. queue \in Seq(StreamEvents)
  BY DEF StreamInv, StreamTyped
<1>2. queue' \in Seq(StreamEvents)
  BY <1>1
<1>3. ToSet(queue') = ToSet(queue) \union {e}
  BY <1>1 DEF ToSet
<1>4. ASSUME NEW told \in ToSet(queue') PROVE TellsTheTruth(told)'
  <2>1. CASE told = e
    BY <2>1 DEF TellsTheTruth, Stands
  <2>2. CASE told \in ToSet(queue)
    BY <2>2, EventsStayTrue DEF StreamInv, QueueTellsTheTruth
  <2> QED
    BY <1>3, <2>1, <2>2
<1> QED
  BY <1>2, <1>4 DEF QueueTellsTheTruth

LEMMA ClientStaysTrue ==
  ASSUME Standing, StreamInv, UNCHANGED <<partials, final>>
  PROVE  ClientSawTheTruth'
<1>1. \A g \in Groups : partials'[g] \subseteq scored'[g]
  BY DEF StreamInv, ClientSawTheTruth, Standing
<1>2. Stands(final)'
  BY DEF StreamInv, ClientSawTheTruth, Stands, Standing
<1> QED
  BY <1>1, <1>2 DEF ClientSawTheTruth

\* The client's steps: nothing of the evaluation changes, but for what it
\* starts and what it cancels.
LEMMA ClientSteps ==
  ASSUME StreamInv, \/ SendPerformance \/ ResolveRefs \/ CreateRow \/ SendDone \/ Leave
  PROVE  StreamInv'
<1> USE DEF tasks, client
<1>1. StreamTyped'
  BY DEF StreamInv, StreamTyped, SendPerformance, ResolveRefs, CreateRow, SendDone, Leave
<1>2. UNCHANGED <<group, unit, scored, queue, partials>>
  BY DEF SendPerformance, ResolveRefs, CreateRow, SendDone, Leave
<1>3. UNCHANGED final
  BY DEF SendPerformance, ResolveRefs, CreateRow, SendDone, Leave
<1>4. \/ producer' = "running" /\ consumer' = "reading" /\ producer = "none"
      \/ UNCHANGED producer
  BY DEF StreamInv, ConsumerFits, SendPerformance, ResolveRefs, CreateRow, SendDone, Leave
<1>5. GroupsFit'
  BY <1>2, <1>4 DEF StreamInv, GroupsFit, GroupFits
<1>6. ConsumerFits'
  BY <1>2 DEF StreamInv, ConsumerFits, SendPerformance, ResolveRefs, CreateRow, SendDone, Leave
<1>7. Standing
  BY <1>2, <1>4 DEF Standing
<1>8. QueueTellsTheTruth' /\ ClientSawTheTruth'
  BY <1>2, <1>3, <1>7, UnreadQueueStaysTrue, ClientStaysTrue
<1> QED
  BY <1>1, <1>5, <1>6, <1>8 DEF StreamInv

LEMMA ReadSteps ==
  ASSUME StreamInv, ReadEvent
  PROVE  StreamInv'
<1>1. /\ queue \in Seq(StreamEvents) /\ queue # <<>> /\ queue' = Tail(queue)
      /\ consumer = "reading"
  BY DEF StreamInv, StreamTyped, ReadEvent
<1> DEFINE event == Head(queue)
<1>2. /\ event \in StreamEvents /\ event \in ToSet(queue) /\ queue' \in Seq(StreamEvents)
      /\ ToSet(queue') \subseteq ToSet(queue)
  BY <1>1 DEF ToSet
<1>3. TellsTheTruth(event)
  BY <1>2 DEF StreamInv, QueueTellsTheTruth
<1>4. UNCHANGED <<producer, group, unit, scored>>
  BY DEF ReadEvent, tasks
<1>5. Standing
  BY <1>4 DEF Standing
<1>6. QueueTellsTheTruth'
  <2> SUFFICES ASSUME NEW e \in ToSet(queue') PROVE TellsTheTruth(e)'
    BY DEF QueueTellsTheTruth
  <2> QED
    BY <1>2, <1>5, EventsStayTrue DEF StreamInv, QueueTellsTheTruth
<1>7. GroupsFit'
  BY <1>4 DEF StreamInv, GroupsFit, GroupFits
<1>8. CASE event.kind = "group"
  <2>1. /\ partials' = [partials EXCEPT ![event.group] = event.results]
        /\ UNCHANGED <<consumer, outcome, final>>
    BY <1>8 DEF ReadEvent
  <2>2. event \in GroupResults
    BY <1>2, <1>8 DEF StreamEvents, DoneResults, Failures
  <2>3. event.group \in Groups /\ event.results \in SUBSET Labels
    BY <2>2 DEF GroupResults
  <2>4. event.results \subseteq scored[event.group]
    BY <1>3, <1>8 DEF TellsTheTruth
  <2>5. StreamTyped'
    BY <1>2, <1>4, <2>1, <2>3 DEF StreamInv, StreamTyped
  <2>6. ClientSawTheTruth'
    <3>1. Stands(final)'
      BY <1>4, <2>1 DEF StreamInv, ClientSawTheTruth, Stands
    <3>2. \A g \in Groups : partials'[g] \subseteq scored'[g]
      BY <1>4, <2>1, <2>3, <2>4 DEF StreamInv, StreamTyped, ClientSawTheTruth
    <3> QED
      BY <3>1, <3>2 DEF ClientSawTheTruth
  <2>7. ConsumerFits'
    BY <1>4, <2>1 DEF StreamInv, ConsumerFits
  <2> QED
    BY <1>6, <1>7, <2>5, <2>6, <2>7 DEF StreamInv
<1>9. CASE event.kind = "done"
  <2>1. consumer' = "persisting" /\ final' = event.results /\ UNCHANGED <<outcome, partials>>
    BY <1>9 DEF ReadEvent
  <2>2. event \in DoneResults
    BY <1>2, <1>9 DEF StreamEvents, GroupResults, Failures
  <2>3. event.results \in Answers
    BY <2>2 DEF DoneResults
  <2>4. StreamTyped'
    BY <1>2, <1>4, <2>1, <2>3 DEF StreamInv, StreamTyped
  <2>5. Stands(event.results) /\ producer = "ended"
    BY <1>3, <1>9 DEF TellsTheTruth
  <2>6. ClientSawTheTruth'
    BY <1>4, <2>1, <2>5 DEF StreamInv, ClientSawTheTruth, Stands
  <2>7. ConsumerFits'
    BY <1>4, <2>1, <2>5 DEF StreamInv, ConsumerFits
  <2> QED
    BY <1>6, <1>7, <2>4, <2>6, <2>7 DEF StreamInv
<1>10. CASE event.kind = "error"
  <2>1. consumer' = "over" /\ outcome' = "error" /\ UNCHANGED <<partials, final>>
    BY <1>10 DEF ReadEvent
  <2>2. StreamTyped'
    BY <1>2, <1>4, <2>1 DEF StreamInv, StreamTyped
  <2>3. producer = "ended"
    BY <1>3, <1>10 DEF TellsTheTruth
  <2>4. ConsumerFits'
    BY <1>4, <2>1, <2>3 DEF StreamInv, ConsumerFits
  <2>5. ClientSawTheTruth'
    BY <1>5, <2>1, ClientStaysTrue
  <2> QED
    BY <1>6, <1>7, <2>2, <2>4, <2>5 DEF StreamInv
<1>11. event.kind \in {"group", "done", "error"}
  BY <1>2 DEF StreamEvents, GroupResults, DoneResults, Failures
<1> QED
  BY <1>8, <1>9, <1>10, <1>11

\* The producer and its groups.
LEMMA PrepareSteps ==
  ASSUME StreamInv, PrepareFails
  PROVE  StreamInv'
<1>1. UNCHANGED <<group, unit, scored>> /\ UNCHANGED <<consumer, outcome, partials, final>>
  BY DEF PrepareFails, client
<1>2. producer = "running" /\ producer' = "ended"
  BY DEF PrepareFails
<1>3. Standing
  BY <1>1, <1>2 DEF Standing
<1> DEFINE e == [kind |-> "error"]
<1>4. e \in StreamEvents /\ Put(e)
  BY DEF StreamEvents, Failures, PrepareFails
<1>5. TellsTheTruth(e)'
  BY <1>2 DEF TellsTheTruth
<1>6. queue' \in Seq(StreamEvents) /\ QueueTellsTheTruth'
  BY <1>3, <1>4, <1>5, PutKeepsTheTruth
<1>7. StreamTyped'
  BY <1>1, <1>2, <1>6 DEF StreamInv, StreamTyped
<1>8. GroupsFit'
  BY <1>1, <1>2 DEF StreamInv, GroupsFit, GroupFits, PrepareFails
<1>9. ConsumerFits'
  BY <1>1, <1>2 DEF StreamInv, ConsumerFits
<1>10. ClientSawTheTruth'
  BY <1>1, <1>3, ClientStaysTrue
<1> QED
  BY <1>6, <1>7, <1>8, <1>9, <1>10 DEF StreamInv

LEMMA FinishSteps ==
  ASSUME StreamInv, FinishRun
  PROVE  StreamInv'
<1>1. UNCHANGED <<group, unit, scored>> /\ UNCHANGED <<consumer, outcome, partials, final>>
  BY DEF FinishRun, client
<1>2. producer = "running" /\ producer' = "ended"
  BY DEF FinishRun
<1>3. Standing
  BY <1>1, <1>2 DEF Standing
<1> DEFINE D == {g \in Groups : group[g] = "over"}
           answer == [g \in D |-> scored[g]]
<1> DEFINE e == [kind |-> "done", results |-> answer]
<1>4. answer \in [D -> SUBSET Labels] /\ D \in SUBSET Groups
  BY DEF StreamInv, StreamTyped
<1>5. answer \in Answers
  BY <1>4 DEF Answers
<1>6. \A g \in DOMAIN answer : g \in Groups /\ group'[g] = "over" /\ answer[g] = scored'[g]
  BY <1>1
<1>7. Put(e)
  BY DEF FinishRun
<1> HIDE DEF answer
<1>8. e \in StreamEvents
  BY <1>5 DEF StreamEvents, DoneResults
<1>9. e.kind = "done" /\ e.results = answer
  OBVIOUS
<1> HIDE DEF e
<1>10. PICK told \in StreamEvents : told = e
  BY <1>8
<1>11. TellsTheTruth(told)'
  <2>1. told.kind = "done" /\ told.results = answer
    BY <1>9, <1>10
  <2>2. Stands(told.results)'
    BY <1>6, <2>1 DEF Stands
  <2> QED
    BY <1>2, <2>1, <2>2 DEF TellsTheTruth
<1>12. queue' \in Seq(StreamEvents) /\ QueueTellsTheTruth'
  BY <1>3, <1>7, <1>10, <1>11, PutKeepsTheTruth
<1>13. StreamTyped'
  BY <1>1, <1>2, <1>12 DEF StreamInv, StreamTyped
<1>14. GroupsFit'
  BY <1>1, <1>2 DEF StreamInv, GroupsFit, GroupFits, FinishRun
<1>15. ConsumerFits'
  BY <1>1, <1>2 DEF StreamInv, ConsumerFits
<1>16. ClientSawTheTruth'
  BY <1>1, <1>3, ClientStaysTrue
<1> QED
  BY <1>12, <1>13, <1>14, <1>15, <1>16 DEF StreamInv

LEMMA StartGroupSteps ==
  ASSUME StreamInv, NEW g \in Groups, StartGroup(g)
  PROVE  StreamInv'
<1>1. UNCHANGED <<consumer, outcome, partials, final, producer, queue>>
  BY DEF StartGroup, client
<1>2. producer = "running" /\ group[g] = "waiting" /\ scored[g] = {}
  BY DEF StartGroup, StreamInv, GroupsFit, GroupFits
<1>3. group \in [Groups -> GroupStates] /\ unit \in [Units -> UnitStates]
      /\ scored \in [Groups -> SUBSET Labels]
  BY DEF StreamInv, StreamTyped
<1>4. Standing
  BY <1>1, <1>2, <1>3 DEF StartGroup, Standing, Labels
<1>5. StreamTyped'
  <2>1. group' \in [Groups -> GroupStates]
    BY <1>3 DEF StartGroup, GroupStates
  <2>2. unit' \in [Units -> UnitStates]
    BY <1>3 DEF StartGroup, UnitStates
  <2>3. scored' \in [Groups -> SUBSET Labels]
    BY <1>3 DEF StartGroup, Labels
  <2> QED
    BY <1>1, <2>1, <2>2, <2>3 DEF StreamInv, StreamTyped
<1>6. ASSUME NEW h \in Groups PROVE GroupFits(h)'
  <2>1. GroupFits(h)
    BY DEF StreamInv, GroupsFit
  <2>2. \A m \in Metrics : <<h, m>> \in Units /\ <<h, m>>[1] = h
    BY DEF Units
  <2>3. CASE h # g
    <3>1. group'[h] = group[h] /\ scored'[h] = scored[h]
      BY <1>3, <2>3 DEF StartGroup
    <3>2. \A m \in Metrics : unit'[<<h, m>>] = unit[<<h, m>>]
      BY <1>3, <2>2, <2>3 DEF StartGroup
    <3> QED
      BY <1>1, <2>1, <3>1, <3>2 DEF GroupFits
  <2>4. CASE h = g /\ group'[g] = "running"
    <3>1. \A m \in Metrics : unit'[<<h, m>>] = "waiting"
      BY <1>3, <2>2, <2>4 DEF StartGroup
    <3>2. scored'[h] = {}
      BY <1>2, <1>3, <2>4 DEF StartGroup
    <3> QED
      BY <1>1, <1>2, <2>4, <3>1, <3>2 DEF GroupFits
  <2>5. CASE h = g /\ group'[g] # "running"
    <3>1. group'[h] = "over" /\ scored'[h] = {"(all)"} /\ unit' = unit
      BY <1>3, <2>5 DEF StartGroup
    <3>2. \A m \in Metrics : unit'[<<h, m>>] \notin Active
      BY <1>2, <2>1, <2>5, <3>1 DEF GroupFits
    <3> QED
      BY <3>1, <3>2 DEF GroupFits
  <2> QED
    BY <2>3, <2>4, <2>5
<1>7. ConsumerFits'
  BY <1>1, <1>2 DEF StreamInv, ConsumerFits
<1>8. QueueTellsTheTruth' /\ ClientSawTheTruth'
  BY <1>1, <1>4, UnreadQueueStaysTrue, ClientStaysTrue
<1> QED
  BY <1>5, <1>6, <1>7, <1>8 DEF StreamInv, GroupsFit

\* A unit that is at work belongs to a group that is running or failed.
LEMMA UnitsAtWork ==
  ASSUME StreamInv, NEW u \in Units, unit[u] \in Active
  PROVE  /\ u[1] \in Groups /\ u[2] \in Metrics /\ u = <<u[1], u[2]>>
         /\ group[u[1]] \in {"running", "failed"}
<1>1. u[1] \in Groups /\ u[2] \in Metrics /\ u = <<u[1], u[2]>>
  BY DEF Units
<1>2. group[u[1]] \in GroupStates
  BY <1>1 DEF StreamInv, StreamTyped
<1>3. GroupFits(u[1])
  BY <1>1 DEF StreamInv, GroupsFit
<1> QED
  BY <1>1, <1>2, <1>3 DEF GroupFits, GroupStates

LEMMA StartUnitSteps ==
  ASSUME StreamInv, NEW u \in Units, StartUnit(u)
  PROVE  StreamInv'
<1>1. UNCHANGED <<consumer, outcome, partials, final, producer, group, scored, queue>>
  BY DEF StartUnit, client
<1>2. unit[u] = "waiting" /\ unit' = [unit EXCEPT ![u] = "running"]
  BY DEF StartUnit
<1>3. unit \in [Units -> UnitStates]
  BY DEF StreamInv, StreamTyped
<1>4. unit' \in [Units -> UnitStates]
  BY <1>2, <1>3 DEF UnitStates
<1>5. Standing
  BY <1>1 DEF Standing
<1>6. StreamTyped'
  BY <1>1, <1>4 DEF StreamInv, StreamTyped
<1>7. \A v \in Units : /\ unit'[v] \in Active => unit[v] \in Active
                       /\ unit'[v] = "done" <=> unit[v] = "done"
  BY <1>2, <1>3 DEF Active
<1>8. \A h \in Groups, m \in Metrics : <<h, m>> \in Units
  BY DEF Units
<1>9. ASSUME NEW h \in Groups PROVE GroupFits(h)'
  <2>1. GroupFits(h)
    BY DEF StreamInv, GroupsFit
  <2>2. {m \in Metrics : unit'[<<h, m>>] = "done"} = {m \in Metrics : unit[<<h, m>>] = "done"}
    BY <1>7, <1>8
  <2> QED
    BY <1>1, <1>7, <1>8, <2>1, <2>2 DEF GroupFits
<1>10. ConsumerFits'
  BY <1>1 DEF StreamInv, ConsumerFits
<1>11. QueueTellsTheTruth' /\ ClientSawTheTruth'
  BY <1>1, <1>5, UnreadQueueStaysTrue, ClientStaysTrue
<1> QED
  BY <1>6, <1>9, <1>10, <1>11 DEF StreamInv, GroupsFit

LEMMA UnitRaisesSteps ==
  ASSUME StreamInv, NEW u \in Units, UnitRaises(u)
  PROVE  StreamInv'
<1>1. UNCHANGED <<consumer, outcome, partials, final, producer, scored, queue>>
  BY DEF UnitRaises, client
<1>2. /\ unit[u] = "running" /\ unit' = [unit EXCEPT ![u] = "raised"]
      /\ group' = [group EXCEPT ![u[1]] = IF @ = "running" THEN "failed" ELSE @]
  BY DEF UnitRaises
<1>3. /\ u[1] \in Groups /\ u[2] \in Metrics /\ u = <<u[1], u[2]>>
      /\ group[u[1]] \in {"running", "failed"}
  BY <1>2, UnitsAtWork DEF Active
<1>4. unit \in [Units -> UnitStates] /\ group \in [Groups -> GroupStates]
  BY DEF StreamInv, StreamTyped
<1>5. group' = [group EXCEPT ![u[1]] = "failed"]
  BY <1>2, <1>3, <1>4
<1>6. Standing
  BY <1>1, <1>3, <1>4, <1>5 DEF Standing
<1>7. StreamTyped'
  BY <1>1, <1>2, <1>3, <1>4, <1>5 DEF StreamInv, StreamTyped, UnitStates, GroupStates
<1>8. \A h \in Groups, m \in Metrics : <<h, m>> \in Units /\ <<h, m>>[1] = h
  BY DEF Units
<1>9. ASSUME NEW h \in Groups PROVE GroupFits(h)'
  <2>1. GroupFits(h)
    BY DEF StreamInv, GroupsFit
  <2>2. CASE h = u[1]
    BY <1>3, <1>4, <1>5, <2>2 DEF GroupFits
  <2>3. CASE h # u[1]
    <3>1. \A m \in Metrics : unit'[<<h, m>>] = unit[<<h, m>>]
      BY <1>2, <1>3, <1>4, <1>8, <2>3
    <3>2. group'[h] = group[h]
      BY <1>4, <1>5, <2>3
    <3> QED
      BY <1>1, <2>1, <3>1, <3>2 DEF GroupFits
  <2> QED
    BY <2>2, <2>3
<1>10. ConsumerFits'
  BY <1>1, <1>2, <1>3, <1>4, <1>5 DEF StreamInv, ConsumerFits
<1>11. QueueTellsTheTruth' /\ ClientSawTheTruth'
  BY <1>1, <1>6, UnreadQueueStaysTrue, ClientStaysTrue
<1> QED
  BY <1>7, <1>9, <1>10, <1>11 DEF StreamInv, GroupsFit

LEMMA UnitScoresSteps ==
  ASSUME StreamInv, NEW u \in Units, UnitScores(u)
  PROVE  StreamInv'
<1>1. UNCHANGED <<consumer, outcome, partials, final, producer>>
  BY DEF UnitScores, client
<1>2. /\ unit[u] = "running" /\ unit' = [unit EXCEPT ![u] = "done"]
      /\ scored' = [scored EXCEPT ![u[1]] = @ \union {u[2]}]
  BY DEF UnitScores
<1>3. /\ u[1] \in Groups /\ u[2] \in Metrics /\ u = <<u[1], u[2]>>
      /\ group[u[1]] \in {"running", "failed"}
  BY <1>2, UnitsAtWork DEF Active
<1>4. /\ unit \in [Units -> UnitStates] /\ group \in [Groups -> GroupStates]
      /\ scored \in [Groups -> SUBSET Labels] /\ queue \in Seq(StreamEvents)
  BY DEF StreamInv, StreamTyped
<1> DEFINE g == u[1]
           complete == \A m \in Metrics : unit'[<<g, m>>] = "done"
<1>5. /\ \A h \in Groups \ {g} : group'[h] = group[h] /\ scored'[h] = scored[h]
      /\ scored'[g] = scored[g] \union {u[2]}
      /\ group[g] = "failed" => group'[g] = "failed"
      /\ group[g] = "running" => group'[g] = IF complete THEN "over" ELSE "running"
      /\ group' \in [Groups -> GroupStates] /\ scored' \in [Groups -> SUBSET Labels]
      /\ unit' \in [Units -> UnitStates]
  <2>1. group' = [group EXCEPT ![g] = IF group[g] = "running" /\ complete THEN "over" ELSE group[g]]
    BY <1>3, <1>4 DEF UnitScores
  <2> HIDE DEF complete
  <2>2. scored[g] \union {u[2]} \in SUBSET Labels
    BY <1>3, <1>4 DEF Labels
  <2> QED
    BY <1>2, <1>3, <1>4, <2>1, <2>2 DEF GroupStates, UnitStates
<1>6. Standing
  BY <1>1, <1>3, <1>5 DEF Standing
<1>7. \A h \in Groups, m \in Metrics : <<h, m>> \in Units
  BY DEF Units
<1>8. ASSUME NEW h \in Groups PROVE GroupFits(h)'
  <2>1. GroupFits(h)
    BY DEF StreamInv, GroupsFit
  <2>2. CASE h # g
    <3>1. \A m \in Metrics : unit'[<<h, m>>] = unit[<<h, m>>]
      BY <1>2, <1>3, <1>4, <1>7, <2>2
    <3> QED
      BY <1>1, <1>5, <2>1, <2>2, <3>1 DEF GroupFits
  <2>3. CASE h = g /\ group[g] = "failed"
    BY <1>3, <1>5, <2>3 DEF GroupFits
  <2>4. CASE h = g /\ group[g] = "running"
    <3>1. /\ scored[g] = {m \in Metrics : unit[<<g, m>>] = "done"}
          /\ producer = "running"
      BY <2>1, <2>4 DEF GroupFits
    <3>2. \A m \in Metrics : unit'[<<g, m>>] = IF m = u[2] THEN "done" ELSE unit[<<g, m>>]
      BY <1>2, <1>3, <1>4, <1>7
    <3>3. scored'[g] = {m \in Metrics : unit'[<<g, m>>] = "done"}
      BY <1>3, <1>5, <3>1, <3>2
    <3>4. CASE complete
      <4>1. scored'[g] = Metrics /\ group'[g] = "over"
        BY <1>5, <2>4, <3>3, <3>4
      <4>2. \A m \in Metrics : unit'[<<g, m>>] \notin Active
        BY <3>4 DEF Active
      <4> QED
        BY <2>4, <4>1, <4>2 DEF GroupFits
    <3>5. CASE ~complete
      <4>1. group'[g] = "running"
        BY <1>5, <2>4, <3>5
      <4> QED
        BY <1>1, <2>4, <3>1, <3>3, <4>1 DEF GroupFits
    <3> QED
      BY <3>4, <3>5
  <2> QED
    BY <1>3, <2>2, <2>3, <2>4
<1> DEFINE e == [kind |-> "group", group |-> g, results |-> scored'[g]]
<1>9. Put(e)
  BY DEF UnitScores
<1>10. PICK told \in StreamEvents : told = e
  BY <1>3, <1>5 DEF StreamEvents, GroupResults
<1>11. told.kind = "group" /\ told.group = g /\ told.results = scored'[g]
  BY <1>10
<1>12. TellsTheTruth(told)'
  BY <1>3, <1>11 DEF TellsTheTruth
<1> HIDE DEF e
<1>13. queue' \in Seq(StreamEvents) /\ QueueTellsTheTruth'
  BY <1>6, <1>9, <1>10, <1>12, PutKeepsTheTruth
<1>14. StreamTyped'
  BY <1>1, <1>5, <1>13 DEF StreamInv, StreamTyped
<1>15. ConsumerFits'
  BY <1>1, <1>3 DEF StreamInv, ConsumerFits
<1>16. ClientSawTheTruth'
  BY <1>1, <1>6, ClientStaysTrue
<1> QED
  BY <1>8, <1>13, <1>14, <1>15, <1>16 DEF StreamInv, GroupsFit

LEMMA CloseSteps ==
  ASSUME StreamInv, Close
  PROVE  StreamInv'
<1>1. UNCHANGED <<outcome, partials, final, scored, queue>>
  BY DEF Close, client
<1>2. /\ consumer' = "over"
      /\ producer' = IF producer = "running" THEN "cancelled" ELSE producer
  BY DEF Close
<1> DEFINE stopped == {g \in Groups : producer = "running" /\ group[g] \in Active}
<1>3. /\ group' = [g \in Groups |-> IF g \in stopped THEN "cancelled" ELSE group[g]]
      /\ unit' = [u \in Units |->
           IF u[1] \in stopped /\ unit[u] \in Active THEN "cancelled" ELSE unit[u]]
  BY DEF Close
<1>4. unit \in [Units -> UnitStates] /\ group \in [Groups -> GroupStates]
  BY DEF StreamInv, StreamTyped
<1>5. Standing
  BY <1>1, <1>2, <1>3, <1>4 DEF Standing, Active
<1>6. StreamTyped'
  <2>1. group' \in [Groups -> GroupStates] /\ unit' \in [Units -> UnitStates]
    BY <1>3, <1>4 DEF GroupStates, UnitStates
  <2> QED
    BY <1>1, <1>2, <2>1 DEF StreamInv, StreamTyped
<1>7. ASSUME NEW h \in Groups PROVE GroupFits(h)'
  <2>1. GroupFits(h)
    BY DEF StreamInv, GroupsFit
  <2>2. \A m \in Metrics : <<h, m>> \in Units /\ <<h, m>>[1] = h
    BY DEF Units
  <2>3. CASE h \in stopped
    <3>1. \A m \in Metrics : unit'[<<h, m>>] \notin Active
      BY <1>3, <2>2, <2>3 DEF Active
    <3> QED
      BY <1>3, <2>3, <3>1 DEF GroupFits
  <2>4. CASE h \notin stopped
    <3>1. group'[h] = group[h] /\ \A m \in Metrics : unit'[<<h, m>>] = unit[<<h, m>>]
      BY <1>3, <2>2, <2>4
    <3>2. group[h] # "running"
      BY <2>1, <2>4 DEF GroupFits, Active
    <3> QED
      BY <1>1, <2>1, <3>1, <3>2 DEF GroupFits
  <2> QED
    BY <2>3, <2>4
<1>8. ConsumerFits'
  BY <1>2 DEF StreamInv, ConsumerFits
<1>9. QueueTellsTheTruth' /\ ClientSawTheTruth'
  BY <1>1, <1>5, UnreadQueueStaysTrue, ClientStaysTrue
<1> QED
  BY <1>6, <1>7, <1>8, <1>9 DEF StreamInv, GroupsFit

LEMMA StreamAdvances == StreamInv /\ [EvalStreamNext]_svars => StreamInv'
<1> SUFFICES ASSUME StreamInv, [EvalStreamNext]_svars PROVE StreamInv'
  OBVIOUS
<1>1. CASE UNCHANGED svars
  <2>1. UNCHANGED <<consumer, outcome, producer, group, unit, scored, queue, partials, final>>
    BY <1>1 DEF svars
  <2>2. Standing
    BY <2>1 DEF Standing
  <2>3. StreamTyped' /\ GroupsFit' /\ ConsumerFits'
    BY <2>1 DEF StreamInv, StreamTyped, GroupsFit, GroupFits, ConsumerFits
  <2> QED
    BY <2>1, <2>2, <2>3, UnreadQueueStaysTrue, ClientStaysTrue DEF StreamInv
<1>2. CASE ConsumerStep
  BY <1>2, ClientSteps, ReadSteps, CloseSteps DEF ConsumerStep
<1>3. CASE CreateRow \/ Leave
  BY <1>3, ClientSteps
<1>4. CASE ProducerStep
  BY <1>4, FinishSteps, StartGroupSteps DEF ProducerStep
<1>5. CASE PrepareFails
  BY <1>5, PrepareSteps
<1>6. CASE UnitStep
  BY <1>6, StartUnitSteps, UnitScoresSteps DEF UnitStep
<1>7. CASE \E u \in Units : UnitRaises(u)
  BY <1>7, UnitRaisesSteps
<1> QED
  BY <1>1, <1>2, <1>3, <1>4, <1>5, <1>6, <1>7 DEF EvalStreamNext

LEMMA StreamInvHoldsThere == StreamInv => StreamsAreTrue
<1> SUFFICES ASSUME StreamInv PROVE StreamsAreTrue
  OBVIOUS
<1>1. PartialsAreConfirmed
  BY DEF PartialsAreConfirmed, StreamInv, ClientSawTheTruth, Stands, GroupsFit, GroupFits
<1>2. OnlyStraysOutliveTheStream
  BY UnitsAtWork DEF OnlyStraysOutliveTheStream, StreamInv, ConsumerFits, GroupsFit, GroupFits
<1> QED
  BY <1>1, <1>2 DEF StreamsAreTrue

\* A streamed evaluation takes back no result it has shown, confirms every
\* evaluator of a group that stands, and once it is over nothing of it is at
\* work but the strays of a failed group: with any groups, evaluators and
\* limits, wherever the client leaves (evaluation.py:50-53, 112-152).
THEOREM StreamsTellTheTruth == ServicesSpec => []StreamsAreTrue
<1>1. ServicesInit => StreamInv
  BY StreamStarts DEF ServicesInit
<1>2. StreamInv /\ [ServicesNext]_vars => StreamInv'
  <2>1. [ServicesNext]_vars => [EvalStreamNext]_svars
    BY DEF ServicesNext, vars
  <2> QED
    BY <2>1, StreamAdvances
<1> QED
  BY <1>1, <1>2, StreamInvHoldsThere, PTL DEF ServicesSpec

(***************************************************************************)
(* Sinks.                                                                  *)
(***************************************************************************)

ShareStates == {"none", "write", "post", "pause", "taken", "refused", "gave up", "cut"}
OpenStates == {"write", "post", "pause"}
SinkShare == [at : ShareStates, posts : 0 .. MaxPosts - 1]

SinksTyped ==
  /\ phase \in {"running", "final", "cut", "error", "over"}
  /\ strays \subseteq PartialEvents
  /\ delivery \in [SinkSet -> [Events -> SinkShare]]
  /\ inbox \in [SinkSet -> Seq(Events)]
  /\ late \in [SinkSet -> SUBSET Events]
  /\ lates \in [SinkSet -> Nat]

\* An event goes to all sinks or to none.
SentTogether ==
  \A s, t \in SinkSet, e \in Events : Share(s, e) = "none" => Share(t, e) = "none"

\* The last events come after the run, and the run leaves no partial behind
\* that is still being sent, but those of strays.
LastComesLast ==
  /\ phase = "running" =>
       \A s \in SinkSet : Share(s, FinalEvent) = "none" /\ Share(s, ErrorEvent) = "none"
  /\ phase # "running" => \A e \in PartialEvents \ strays : ~Open(e)

InOrder(s) ==
  \A i, j \in DOMAIN inbox[s] :
    i < j /\ inbox[s][j] \in PartialEvents \ strays => inbox[s][i] \in PartialEvents

\* A receiver with no late post has what its sink has taken and nothing else.
ReceiverFits(s) ==
  /\ \A e \in Events : Share(s, e) = "taken" => e \in ToSet(inbox[s])
  /\ lates[s] = 0 =>
       /\ late[s] = {}
       /\ \A e \in ToSet(inbox[s]) : e \in Events /\ Share(s, e) = "taken"
       /\ IsInjective(inbox[s])
       /\ InOrder(s)
ReceiversFit == \A s \in SinkSet : ReceiverFits(s)

SinksInv == SinksTyped /\ SentTogether /\ LastComesLast /\ ReceiversFit

LEMMA EventNumbers ==
  /\ PartialEvents \subseteq Events /\ FinalEvent \in Events /\ ErrorEvent \in Events
  /\ FinalEvent \notin PartialEvents /\ ErrorEvent \notin PartialEvents
  /\ FinalEvent # ErrorEvent
BY SinksAssumption DEF Events, PartialEvents, FinalEvent, ErrorEvent

LEMMA SinksStart == SinksInit => SinksInv
<1> SUFFICES ASSUME SinksInit PROVE SinksInv
  OBVIOUS
<1> USE DEF SinksInit
<1>1. \A s \in SinkSet, e \in Events : Share(s, e) = "none"
  BY DEF Share
<1>2. 0 \in 0 .. MaxPosts - 1
  BY SinksAssumption
<1>3. SinksTyped
  BY <1>2 DEF SinksTyped, SinkShare, ShareStates
<1>4. SentTogether /\ LastComesLast
  BY <1>1, EventNumbers DEF SentTogether, LastComesLast
<1>5. ReceiversFit
  BY <1>1 DEF ReceiversFit, ReceiverFits, InOrder, IsInjective, ToSet
<1> QED
  BY <1>3, <1>4, <1>5 DEF SinksInv

\* A receiver that is sent one event more.
LEMMA OneMoreInTheInbox ==
  ASSUME NEW q \in Seq(Events), NEW e \in Events
  PROVE  /\ Append(q, e) \in Seq(Events)
         /\ ToSet(Append(q, e)) = ToSet(q) \union {e}
         /\ IsInjective(q) /\ e \notin ToSet(q) => IsInjective(Append(q, e))
         /\ DOMAIN Append(q, e) = 1 .. Len(q) + 1 /\ DOMAIN q = 1 .. Len(q)
         /\ Append(q, e)[Len(q) + 1] = e
         /\ \A i \in 1 .. Len(q) : Append(q, e)[i] = q[i]
<1>1. /\ Append(q, e) \in Seq(Events) /\ Len(q) \in Nat
      /\ DOMAIN Append(q, e) = 1 .. Len(q) + 1 /\ DOMAIN q = 1 .. Len(q)
      /\ Append(q, e)[Len(q) + 1] = e
      /\ \A i \in 1 .. Len(q) : Append(q, e)[i] = q[i]
  OBVIOUS
<1>2. ToSet(Append(q, e)) = ToSet(q) \union {e}
  BY <1>1 DEF ToSet
<1>3. ASSUME IsInjective(q), e \notin ToSet(q) PROVE IsInjective(Append(q, e))
  <2>1. \A i \in 1 .. Len(q) : q[i] # e
    BY <1>1, <1>3 DEF ToSet
  <2>2. \A i, j \in 1 .. Len(q) : q[i] = q[j] => i = j
    BY <1>1, <1>3 DEF IsInjective
  <2>3. \A i \in 1 .. Len(q) + 1 : i \in 1 .. Len(q) \/ i = Len(q) + 1
    BY <1>1
  <2> QED
    BY <1>1, <2>1, <2>2, <2>3 DEF IsInjective
<1> QED
  BY <1>1, <1>2, <1>3

\* One share becomes r.
LEMMA OneShareChanges ==
  ASSUME SinksTyped, NEW s \in SinkSet, NEW e \in Events, NEW r \in SinkShare,
         delivery' = [delivery EXCEPT ![s][e] = r]
  PROVE  /\ delivery' \in [SinkSet -> [Events -> SinkShare]]
         /\ Share(s, e)' = r.at
         /\ \A t \in SinkSet, f \in Events : <<t, f>> # <<s, e>> => Share(t, f)' = Share(t, f)
<1>1. delivery \in [SinkSet -> [Events -> SinkShare]]
  BY DEF SinksTyped
<1>2. delivery' \in [SinkSet -> [Events -> SinkShare]] /\ delivery'[s][e] = r
  BY <1>1
<1>3. \A t \in SinkSet, f \in Events : <<t, f>> # <<s, e>> => delivery'[t][f] = delivery[t][f]
  BY <1>1
<1> QED
  BY <1>2, <1>3 DEF Share

\* While a share goes on nothing begins and nothing is opened again.
LEMMA SharesGoOn ==
  ASSUME SinksInv, UNCHANGED <<phase, strays>>,
         \A s \in SinkSet, e \in Events :
           /\ Share(s, e)' = "none" <=> Share(s, e) = "none"
           /\ Share(s, e)' \in OpenStates => Share(s, e) \in OpenStates
  PROVE  SentTogether' /\ LastComesLast'
<1>1. SentTogether'
  BY DEF SinksInv, SentTogether
<1>2. \A e \in Events : Open(e)' => Open(e)
  BY DEF Open, OpenStates
<1>3. LastComesLast'
  BY <1>2, EventNumbers DEF SinksInv, LastComesLast
<1> QED
  BY <1>1, <1>3

\* A share that goes on without the event being taken.
LEMMA NotTaken ==
  ASSUME SinksInv, NEW s \in SinkSet, NEW e \in Events, NEW r \in SinkShare,
         Share(s, e) \in OpenStates, r.at \notin {"none", "taken"},
         delivery' = [delivery EXCEPT ![s][e] = r],
         UNCHANGED <<phase, strays, inbox>>,
         UNCHANGED <<late, lates>> \/ GoesLate(s, e)
  PROVE  SinksInv'
<1>1. SinksTyped
  BY DEF SinksInv
<1>2. /\ delivery' \in [SinkSet -> [Events -> SinkShare]]
      /\ Share(s, e)' = r.at
      /\ \A t \in SinkSet, f \in Events : <<t, f>> # <<s, e>> => Share(t, f)' = Share(t, f)
  BY <1>1, OneShareChanges
<1>3. \A t \in SinkSet, f \in Events :
        /\ Share(t, f)' = "none" <=> Share(t, f) = "none"
        /\ Share(t, f)' = "taken" <=> Share(t, f) = "taken"
        /\ Share(t, f)' \in OpenStates => Share(t, f) \in OpenStates
  BY <1>2 DEF OpenStates
<1>4. SentTogether' /\ LastComesLast'
  BY <1>3, SharesGoOn
<1>5. SinksTyped'
  <2>1. late' \in [SinkSet -> SUBSET Events] /\ lates' \in [SinkSet -> Nat]
    <3>1. CASE UNCHANGED <<late, lates>>
      BY <1>1, <3>1 DEF SinksTyped
    <3>2. CASE GoesLate(s, e)
      BY <1>1, <3>2 DEF SinksTyped, GoesLate
    <3> QED
      BY <3>1, <3>2
  <2> QED
    BY <1>1, <1>2, <2>1 DEF SinksTyped
<1>6. ASSUME NEW t \in SinkSet PROVE ReceiverFits(t)'
  <2>1. ReceiverFits(t)
    BY DEF SinksInv, ReceiversFit
  <2>2. lates'[t] = 0 => lates[t] = 0 /\ late'[t] = late[t]
    BY <1>1 DEF SinksTyped, GoesLate
  <2>3. InOrder(t) => InOrder(t)'
    BY DEF InOrder
  <2> QED
    BY <1>3, <2>1, <2>2, <2>3 DEF ReceiverFits
<1> QED
  BY <1>4, <1>5, <1>6 DEF SinksInv, ReceiversFit

\* A share whose event is taken.
LEMMA Taken ==
  ASSUME SinksInv, NEW s \in SinkSet, NEW e \in Events,
         Share(s, e) \in OpenStates, EndShare(s, e, "taken"),
         inbox' = [inbox EXCEPT ![s] = Append(@, e)],
         UNCHANGED <<phase, strays, late, lates>>
  PROVE  SinksInv'
<1>1. SinksTyped
  BY DEF SinksInv
<1>2. PICK r \in SinkShare : r.at = "taken" /\ delivery' = [delivery EXCEPT ![s][e] = r]
  <2>1. [at |-> "taken", posts |-> 0] \in SinkShare
    BY SinksAssumption DEF SinkShare, ShareStates
  <2> QED
    BY <2>1 DEF EndShare
<1>3. /\ delivery' \in [SinkSet -> [Events -> SinkShare]]
      /\ Share(s, e)' = "taken"
      /\ \A t \in SinkSet, f \in Events : <<t, f>> # <<s, e>> => Share(t, f)' = Share(t, f)
  BY <1>1, <1>2, OneShareChanges
<1>4. \A t \in SinkSet, f \in Events :
        /\ Share(t, f)' = "none" <=> Share(t, f) = "none"
        /\ Share(t, f) = "taken" => Share(t, f)' = "taken"
        /\ Share(t, f)' \in OpenStates => Share(t, f) \in OpenStates
  BY <1>3 DEF OpenStates
<1>5. SentTogether' /\ LastComesLast'
  BY <1>4, SharesGoOn
<1> DEFINE q == inbox[s]
<1>6. /\ q \in Seq(Events) /\ inbox'[s] = Append(q, e)
      /\ \A t \in SinkSet \ {s} : inbox'[t] = inbox[t]
  BY <1>1 DEF SinksTyped
<1>7. SinksTyped'
  BY <1>1, <1>3, <1>6 DEF SinksTyped
<1>8. ASSUME NEW t \in SinkSet, t # s PROVE ReceiverFits(t)'
  <2>1. ReceiverFits(t)
    BY DEF SinksInv, ReceiversFit
  <2>2. inbox'[t] = inbox[t] /\ \A f \in Events : Share(t, f)' = Share(t, f)
    BY <1>3, <1>6, <1>8
  <2>3. InOrder(t) => InOrder(t)'
    BY <2>2 DEF InOrder
  <2> QED
    BY <2>1, <2>2, <2>3 DEF ReceiverFits
<1>9. ReceiverFits(s)'
  <2>1. ReceiverFits(s)
    BY DEF SinksInv, ReceiversFit
  <2> HIDE DEF q
  <2>2. /\ ToSet(inbox'[s]) = ToSet(q) \union {e}
        /\ IsInjective(q) /\ e \notin ToSet(q) => IsInjective(inbox'[s])
        /\ DOMAIN inbox'[s] = 1 .. Len(q) + 1 /\ DOMAIN q = 1 .. Len(q)
        /\ inbox'[s][Len(q) + 1] = e
        /\ \A i \in 1 .. Len(q) : inbox'[s][i] = q[i]
    <3>1. inbox'[s] = Append(q, e)
      BY <1>6
    <3>2. /\ ToSet(Append(q, e)) = ToSet(q) \union {e}
          /\ IsInjective(q) /\ e \notin ToSet(q) => IsInjective(Append(q, e))
          /\ DOMAIN Append(q, e) = 1 .. Len(q) + 1 /\ DOMAIN q = 1 .. Len(q)
          /\ Append(q, e)[Len(q) + 1] = e
          /\ \A i \in 1 .. Len(q) : Append(q, e)[i] = q[i]
      BY <1>6, OneMoreInTheInbox
    <3> QED
      BY <3>1, <3>2, Zenon
  <2>3. \A f \in Events : Share(s, f)' = "taken" => f \in ToSet(inbox'[s])
    BY <1>3, <2>1, <2>2 DEF ReceiverFits, q
  <2>4. ASSUME lates[s] = 0
        PROVE  /\ late[s] = {} /\ IsInjective(inbox'[s]) /\ InOrder(s)'
               /\ \A f \in ToSet(inbox'[s]) : f \in Events /\ Share(s, f)' = "taken"
    <3>1. /\ late[s] = {} /\ IsInjective(q) /\ InOrder(s)
          /\ \A f \in ToSet(q) : f \in Events /\ Share(s, f) = "taken"
      BY <2>1, <2>4 DEF ReceiverFits, q
    <3>2. e \notin ToSet(q)
      BY <3>1 DEF OpenStates
    <3>3. \A f \in ToSet(inbox'[s]) : f \in Events /\ Share(s, f)' = "taken"
      BY <1>3, <1>4, <2>2, <3>1
    <3>4. ASSUME e \in PartialEvents \ strays, NEW f \in ToSet(q)
          PROVE  f \in PartialEvents
      <4>1. Open(e)
        BY DEF Open, OpenStates
      <4>2. phase = "running"
        BY <3>4, <4>1 DEF SinksInv, LastComesLast
      <4>3. f # FinalEvent /\ f # ErrorEvent /\ f \in Events
        BY <3>1, <4>2, EventNumbers DEF SinksInv, LastComesLast
      <4> QED
        BY <4>3, SinksAssumption DEF Events, PartialEvents, FinalEvent, ErrorEvent
    <3>5. \A i \in 1 .. Len(q) : q[i] \in ToSet(q)
      BY <2>2 DEF ToSet
    <3>6. ASSUME NEW i \in 1 .. Len(q) + 1, NEW j \in 1 .. Len(q) + 1, i < j,
                 inbox'[s][j] \in PartialEvents \ strays
          PROVE  inbox'[s][i] \in PartialEvents
      <4>1. i \in 1 .. Len(q) /\ Len(q) \in Nat
        BY <1>6, <3>6
      <4>2. CASE j \in 1 .. Len(q)
        BY <2>2, <3>1, <3>6, <4>1, <4>2 DEF InOrder, q
      <4>3. CASE j = Len(q) + 1
        BY <2>2, <3>4, <3>5, <3>6, <4>1, <4>3
      <4>4. j \in 1 .. Len(q) \/ j = Len(q) + 1
        BY <4>1
      <4> QED
        BY <4>2, <4>3, <4>4
    <3>7. InOrder(s)'
      BY <2>2, <3>6 DEF InOrder
    <3> QED
      BY <2>2, <3>1, <3>2, <3>3, <3>7
  <2> QED
    BY <2>3, <2>4 DEF ReceiverFits
<1> QED
  BY <1>5, <1>7, <1>8, <1>9 DEF SinksInv, ReceiversFit

LEMMA SinkSteps ==
  ASSUME SinksInv, NEW s \in SinkSet, NEW e \in Events, ShareStep(s, e)
  PROVE  SinksInv'
<1>1. SinksTyped
  BY DEF SinksInv
<1>2. delivery[s][e] \in SinkShare
  BY <1>1 DEF SinksTyped
<1>3. /\ [at |-> "refused", posts |-> 0] \in SinkShare
      /\ [at |-> "gave up", posts |-> 0] \in SinkShare
  BY SinksAssumption DEF SinkShare, ShareStates
<1>4. ASSUME EndShare(s, e, "gave up"), Share(s, e) \in OpenStates,
             UNCHANGED <<phase, strays, inbox>>, UNCHANGED <<late, lates>> \/ GoesLate(s, e)
      PROVE  SinksInv'
  <2>1. PICK r \in SinkShare : r.at = "gave up" /\ delivery' = [delivery EXCEPT ![s][e] = r]
    BY <1>3, <1>4 DEF EndShare
  <2> QED
    BY <1>4, <2>1, NotTaken
<1>5. ASSUME TryAgain(s, e), Share(s, e) = "post",
             UNCHANGED <<phase, strays, inbox>>, UNCHANGED <<late, lates>> \/ GoesLate(s, e)
      PROVE  SinksInv'
  <2>1. CASE delivery[s][e].posts + 1 < MaxPosts
    <3> DEFINE now == [at |-> "pause", posts |-> delivery[s][e].posts + 1]
    <3>1. now \in SinkShare /\ now.at = "pause"
      <4>1. delivery[s][e].posts + 1 \in 0 .. MaxPosts - 1
        BY <1>2, <2>1, SinksAssumption DEF SinkShare
      <4> QED
        BY <4>1 DEF SinkShare, ShareStates
    <3>2. delivery' = [delivery EXCEPT ![s][e] = now]
      BY <1>1, <1>5, <2>1 DEF TryAgain, SinksTyped
    <3> HIDE DEF now
    <3>3. PICK r \in SinkShare : r.at = "pause" /\ delivery' = [delivery EXCEPT ![s][e] = r]
      BY <3>1, <3>2
    <3> QED
      BY <1>5, <3>3, NotTaken DEF OpenStates
  <2>2. CASE ~(delivery[s][e].posts + 1 < MaxPosts)
    BY <1>4, <1>5, <2>2 DEF TryAgain, OpenStates
  <2> QED
    BY <2>1, <2>2
<1>6. CASE Write(s, e)
  <2>1. CASE inbox' = inbox /\ EndShare(s, e, "gave up")
    BY <1>4, <1>6, <2>1 DEF Write, OpenStates
  <2>2. CASE inbox' = [inbox EXCEPT ![s] = Append(@, e)] /\ EndShare(s, e, "taken")
    BY <1>6, <2>2, Taken DEF Write, OpenStates
  <2> QED
    BY <1>6, <2>1, <2>2 DEF Write
<1>7. CASE PostTaken(s, e)
  BY <1>7, Taken DEF PostTaken, OpenStates
<1>8. CASE PostRefused(s, e)
  <2>1. PICK r \in SinkShare : r.at = "refused" /\ delivery' = [delivery EXCEPT ![s][e] = r]
    BY <1>3, <1>8 DEF EndShare, PostRefused
  <2> QED
    BY <1>8, <2>1, NotTaken DEF PostRefused, OpenStates
<1>9. CASE PostFails(s, e)
  BY <1>5, <1>9 DEF PostFails
<1>10. CASE PostTimesOut(s, e)
  BY <1>5, <1>10 DEF PostTimesOut
<1>11. CASE PauseEnds(s, e)
  <2> DEFINE now == [delivery[s][e] EXCEPT !.at = "post"]
  <2>1. now \in SinkShare /\ now.at = "post"
    BY <1>2 DEF SinkShare, ShareStates
  <2>2. delivery' = [delivery EXCEPT ![s][e] = now]
    BY <1>1, <1>11 DEF PauseEnds, SinksTyped
  <2> HIDE DEF now
  <2>3. PICK r \in SinkShare : r.at = "post" /\ delivery' = [delivery EXCEPT ![s][e] = r]
    BY <2>1, <2>2
  <2> QED
    BY <1>11, <2>3, NotTaken DEF PauseEnds, OpenStates
<1> QED
  BY <1>6, <1>7, <1>8, <1>9, <1>10, <1>11 DEF ShareStep

LEMMA LatePostSteps ==
  ASSUME SinksInv, NEW s \in Webhooks, NEW e \in Events, LatePostArrives(s, e)
  PROVE  SinksInv'
<1>1. SinksTyped /\ s \in SinkSet
  BY DEF SinksInv, SinkSet
<1>2. /\ e \in late[s] /\ late' = [late EXCEPT ![s] = @ \ {e}]
      /\ inbox' = [inbox EXCEPT ![s] = Append(@, e)]
      /\ UNCHANGED <<phase, strays, delivery, lates>>
  BY DEF LatePostArrives
<1>3. SinksTyped'
  BY <1>1, <1>2 DEF SinksTyped
<1>4. SentTogether' /\ LastComesLast'
  BY <1>2, SharesGoOn DEF Share
<1>5. ASSUME NEW t \in SinkSet PROVE ReceiverFits(t)'
  <2>1. ReceiverFits(t)
    BY DEF SinksInv, ReceiversFit
  <2>2. CASE t = s
    <3>1. lates'[s] # 0
      BY <1>1, <1>2, <2>1, <2>2 DEF ReceiverFits
    <3>2. inbox[s] \in Seq(Events) /\ inbox'[s] = Append(inbox[s], e)
      BY <1>1, <1>2 DEF SinksTyped
    <3>3. ToSet(inbox'[s]) = ToSet(inbox[s]) \union {e}
      BY <3>2 DEF ToSet
    <3>4. \A f \in Events : Share(s, f)' = "taken" => f \in ToSet(inbox'[s])
      BY <1>2, <2>1, <2>2, <3>3 DEF ReceiverFits, Share
    <3> QED
      BY <2>2, <3>1, <3>4 DEF ReceiverFits
  <2>3. CASE t # s
    <3>1. inbox'[t] = inbox[t] /\ late'[t] = late[t]
      BY <1>1, <1>2, <2>3 DEF SinksTyped
    <3>2. InOrder(t) => InOrder(t)'
      BY <1>2, <3>1 DEF InOrder
    <3> QED
      BY <1>2, <2>1, <3>1, <3>2 DEF ReceiverFits, Share
  <2> QED
    BY <2>2, <2>3
<1> QED
  BY <1>3, <1>4, <1>5 DEF SinksInv, ReceiversFit

\* An event that no sink has yet is given to all of them.
LEMMA Emission ==
  ASSUME SinksInv, NEW e \in Events, Emit(e)
  PROVE  /\ delivery' \in [SinkSet -> [Events -> SinkShare]]
         /\ \A s \in SinkSet : Share(s, e) = "none" /\ Share(s, e)' \in OpenStates
         /\ \A s \in SinkSet, f \in Events \ {e} : Share(s, f)' = Share(s, f)
         /\ SentTogether'
         /\ strays \subseteq strays' => ReceiversFit'
<1>1. /\ delivery \in [SinkSet -> [Events -> SinkShare]]
      /\ UNCHANGED <<inbox, late, lates>>
  BY DEF SinksInv, SinksTyped, Emit
<1>2. \A s \in SinkSet : Share(s, e) = "none"
  BY DEF Emit, Begun, SinksInv, SentTogether
<1>3. ASSUME NEW s \in SinkSet
      PROVE  /\ delivery'[s] \in [Events -> SinkShare]
             /\ Share(s, e)' \in OpenStates
             /\ \A f \in Events \ {e} : delivery'[s][f] = delivery[s][f]
  <2>1. PICK at \in {"post", "write"} : delivery'[s] = [delivery[s] EXCEPT ![e].at = at]
    BY DEF Emit
  <2>2. delivery[s] \in [Events -> SinkShare] /\ delivery[s][e] \in SinkShare
    BY <1>1
  <2> DEFINE now == [delivery[s][e] EXCEPT !.at = at]
  <2>3. now \in SinkShare /\ now.at = at
    BY <2>2 DEF SinkShare, ShareStates
  <2>4. delivery'[s] = [delivery[s] EXCEPT ![e] = now]
    BY <2>1, <2>2
  <2> HIDE DEF now
  <2>5. delivery'[s] \in [Events -> SinkShare] /\ delivery'[s][e].at = at
        /\ \A f \in Events \ {e} : delivery'[s][f] = delivery[s][f]
    BY <2>2, <2>3, <2>4
  <2> QED
    BY <2>5 DEF Share, OpenStates
<1>4. delivery' \in [SinkSet -> [Events -> SinkShare]]
  <2>1. \E F : delivery' = [s \in SinkSet |-> F[s]]
    <3> DEFINE F == [s \in SinkSet |-> [delivery[s] EXCEPT ![e].at =
                       IF s \in Webhooks THEN "post" ELSE "write"]]
    <3>1. delivery' = F
      BY DEF Emit
    <3>2. F = [s \in SinkSet |-> F[s]]
      OBVIOUS
    <3> HIDE DEF F
    <3> QED
      BY <3>1, <3>2
  <2> QED
    BY <1>3, <2>1
<1>5. \A s \in SinkSet, f \in Events \ {e} : Share(s, f)' = Share(s, f)
  BY <1>3 DEF Share
<1>6. SentTogether'
  BY <1>3, <1>5 DEF SinksInv, SentTogether, OpenStates
<1>7. ASSUME strays \subseteq strays', NEW s \in SinkSet PROVE ReceiverFits(s)'
  <2>1. ReceiverFits(s)
    BY DEF SinksInv, ReceiversFit
  <2>2. InOrder(s) => InOrder(s)'
    BY <1>1, <1>7 DEF InOrder
  <2>3. \A f \in Events : Share(s, f)' = "taken" <=> Share(s, f) = "taken"
    BY <1>2, <1>3, <1>5 DEF OpenStates
  <2> QED
    BY <1>1, <2>1, <2>2, <2>3 DEF ReceiverFits
<1> QED
  BY <1>2, <1>3, <1>4, <1>5, <1>6, <1>7 DEF ReceiversFit

\* The steps of the run, which begin events or cut them short.
LEMMA RunSteps ==
  ASSUME SinksInv,
         \/ \E e \in PartialEvents : EmitPartial(e) \/ GroupFails(e)
         \/ EmitFinal \/ EmitError \/ EndRun
  PROVE  SinksInv'
<1>1. SinksTyped
  BY DEF SinksInv
<1>2. ASSUME Awaited = {}, NEW f \in PartialEvents \ strays PROVE ~Open(f)
  BY <1>2, EventNumbers DEF Awaited
<1>3. ASSUME NEW e \in Events, Emit(e), strays' = strays,
             phase' \in {"running", "final", "cut", "error", "over"},
             LastComesLast'
      PROVE  SinksInv'
  <2>1. /\ delivery' \in [SinkSet -> [Events -> SinkShare]]
        /\ SentTogether' /\ ReceiversFit'
    BY <1>3, Emission
  <2>2. SinksTyped'
    BY <1>1, <1>3, <2>1 DEF SinksTyped, Emit
  <2> QED
    BY <1>3, <2>1, <2>2 DEF SinksInv
<1>4. ASSUME NEW e \in Events, Emit(e), NEW f \in Events \ {e}, ~Open(f)
      PROVE  ~Open(f)'
  <2>1. \A s \in SinkSet : Share(s, f)' = Share(s, f)
    BY <1>4, Emission
  <2> QED
    BY <1>4, <2>1 DEF Open
<1>5. ASSUME NEW e \in PartialEvents, EmitPartial(e) PROVE SinksInv'
  <2>1. e \in Events /\ Emit(e) /\ UNCHANGED <<phase, strays>>
    BY <1>5, EventNumbers DEF EmitPartial
  <2>2. \A s \in SinkSet : /\ Share(s, FinalEvent)' = Share(s, FinalEvent)
                           /\ Share(s, ErrorEvent)' = Share(s, ErrorEvent)
    BY <2>1, Emission, EventNumbers
  <2>3. ASSUME phase' # "running", NEW f \in PartialEvents \ strays PROVE ~Open(f)'
    <3>1. e \in strays /\ f # e
      BY <1>5, <2>1, <2>3 DEF EmitPartial
    <3>2. ~Open(f)
      BY <2>1, <2>3 DEF SinksInv, LastComesLast
    <3> QED
      BY <1>4, <2>1, <3>1, <3>2, EventNumbers
  <2>4. LastComesLast'
    BY <2>1, <2>2, <2>3 DEF SinksInv, LastComesLast
  <2> QED
    BY <1>1, <1>3, <2>1, <2>4 DEF SinksTyped
<1>6. ASSUME NEW e \in PartialEvents, GroupFails(e) PROVE SinksInv'
  <2>1. /\ phase = "running" /\ strays' = strays \union {e}
        /\ UNCHANGED <<phase, delivery, inbox, late, lates>>
    BY <1>6 DEF GroupFails
  <2>2. SinksTyped' /\ SentTogether' /\ LastComesLast'
    BY <2>1 DEF SinksInv, SinksTyped, SentTogether, LastComesLast, Share
  <2>3. ReceiversFit'
    BY <2>1 DEF SinksInv, ReceiversFit, ReceiverFits, InOrder, Share
  <2> QED
    BY <2>2, <2>3 DEF SinksInv
<1>7. CASE EmitFinal
  <2>1. /\ phase' = "final" /\ FinalEvent \in Events /\ Emit(FinalEvent) /\ strays' = strays
        /\ Awaited = {}
    BY <1>7, EventNumbers DEF EmitFinal
  <2>2. LastComesLast'
    BY <1>2, <1>4, <2>1, EventNumbers DEF LastComesLast
  <2> QED
    BY <1>3, <2>1, <2>2
<1>8. CASE EmitError
  <2>1. /\ phase' = "error" /\ ErrorEvent \in Events /\ Emit(ErrorEvent) /\ strays' = strays
        /\ phase = "cut" \/ Awaited = {}
    BY <1>8, EventNumbers DEF EmitError
  <2>2. \A f \in PartialEvents \ strays : ~Open(f)
    BY <1>2, <2>1 DEF SinksInv, LastComesLast
  <2>3. LastComesLast'
    BY <1>4, <2>1, <2>2, EventNumbers DEF LastComesLast
  <2> QED
    BY <1>3, <2>1, <2>3
<1>9. CASE EndRun
  <2>1. /\ phase' = "over" /\ Awaited = {}
        /\ UNCHANGED <<strays, delivery, inbox, late, lates>>
    BY <1>9 DEF EndRun
  <2>2. LastComesLast'
    BY <1>2, <2>1 DEF LastComesLast, Open, Share
  <2>3. SinksTyped' /\ SentTogether' /\ ReceiversFit'
    BY <2>1 DEF SinksInv, SinksTyped, SentTogether, ReceiversFit, ReceiverFits, InOrder, Share
  <2> QED
    BY <2>2, <2>3 DEF SinksInv
<1> QED
  BY <1>5, <1>6, <1>7, <1>8, <1>9

LEMMA CutSteps ==
  ASSUME SinksInv, CutShort
  PROVE  SinksInv'
<1>1. SinksTyped
  BY DEF SinksInv
<1>2. UNCHANGED <<strays, inbox>> /\ phase' \in {"cut", "over"}
  BY DEF CutShort
<1> DEFINE cut(s, e) == e \in Awaited /\ Share(s, e) \in OpenStates
<1>3. delivery' = [s \in SinkSet |-> [e \in Events |->
        IF cut(s, e) THEN [at |-> "cut", posts |-> 0] ELSE delivery[s][e]]]
  BY DEF CutShort, OpenStates
<1>4. [at |-> "cut", posts |-> 0] \in SinkShare
  BY SinksAssumption DEF SinkShare, ShareStates
<1>5. delivery' \in [SinkSet -> [Events -> SinkShare]]
  <2>1. \A s \in SinkSet, e \in Events :
          (IF cut(s, e) THEN [at |-> "cut", posts |-> 0] ELSE delivery[s][e]) \in SinkShare
    BY <1>1, <1>4 DEF SinksTyped
  <2> HIDE DEF cut
  <2> QED
    BY <1>3, <2>1
<1>6. \A s \in SinkSet, e \in Events :
        Share(s, e)' = IF cut(s, e) THEN "cut" ELSE Share(s, e)
  <2> HIDE DEF cut
  <2> QED
    BY <1>3 DEF Share
<1>7. \A s \in SinkSet, e \in Events :
        /\ Share(s, e)' = "none" <=> Share(s, e) = "none"
        /\ Share(s, e)' = "taken" <=> Share(s, e) = "taken"
        /\ Share(s, e)' \in OpenStates => Share(s, e) \in OpenStates /\ e \notin Awaited
  BY <1>6 DEF OpenStates
<1>8. SinksTyped'
  <2>1. late' \in [SinkSet -> SUBSET Events] /\ lates' \in [SinkSet -> Nat]
    <3>1. CASE UNCHANGED <<late, lates>>
      BY <1>1, <3>1 DEF SinksTyped
    <3>2. ASSUME NEW s \in Webhooks, NEW e \in Awaited, GoesLate(s, e)
          PROVE  late' \in [SinkSet -> SUBSET Events] /\ lates' \in [SinkSet -> Nat]
      <4>1. e \in Events /\ s \in SinkSet
        BY <3>2 DEF Awaited, SinkSet
      <4> QED
        BY <1>1, <3>2, <4>1 DEF SinksTyped, GoesLate
    <3> QED
      BY <3>1, <3>2 DEF CutShort
  <2> QED
    BY <1>1, <1>2, <1>5, <2>1 DEF SinksTyped
<1>9. SentTogether'
  BY <1>7 DEF SinksInv, SentTogether
<1>10. \A e \in PartialEvents \ strays : ~Open(e)'
  <2> SUFFICES ASSUME NEW e \in PartialEvents \ strays, NEW s \in SinkSet,
                      Share(s, e)' \in OpenStates
               PROVE  FALSE
    BY DEF Open, OpenStates
  <2>1. e \in Events /\ Share(s, e) \in OpenStates /\ e \notin Awaited
    BY <1>7, EventNumbers
  <2> QED
    BY <2>1 DEF Awaited, Open, OpenStates
<1>11. LastComesLast'
  BY <1>2, <1>10 DEF LastComesLast
<1>12. ASSUME NEW t \in SinkSet PROVE ReceiverFits(t)'
  <2>1. ReceiverFits(t)
    BY DEF SinksInv, ReceiversFit
  <2>2. lates'[t] = 0 => lates[t] = 0 /\ late'[t] = late[t]
    BY <1>1 DEF SinksTyped, GoesLate, CutShort
  <2>3. InOrder(t) => InOrder(t)'
    BY <1>2 DEF InOrder
  <2> QED
    BY <1>2, <1>7, <2>1, <2>2, <2>3 DEF ReceiverFits
<1> QED
  BY <1>8, <1>9, <1>11, <1>12 DEF SinksInv, ReceiversFit

LEMMA SinksAdvance == SinksInv /\ [SinksNext]_kvars => SinksInv'
<1> SUFFICES ASSUME SinksInv, [SinksNext]_kvars PROVE SinksInv'
  OBVIOUS
<1>1. CASE UNCHANGED kvars
  BY <1>1 DEF kvars, SinksInv, SinksTyped, SentTogether, LastComesLast, ReceiversFit,
              ReceiverFits, InOrder, Share, Open
<1>2. CASE \/ \E e \in PartialEvents : EmitPartial(e) \/ GroupFails(e)
           \/ EmitFinal \/ EmitError \/ EndRun
  BY <1>2, RunSteps
<1>3. CASE CutShort
  BY <1>3, CutSteps
<1>4. CASE SinkStep
  BY <1>4, SinkSteps DEF SinkStep
<1>5. CASE \E s \in Webhooks, e \in Events : LatePostArrives(s, e)
  BY <1>5, LatePostSteps
<1> QED
  BY <1>1, <1>2, <1>3, <1>4, <1>5 DEF SinksNext

\* A receiver has every event its sink has taken, and one whose answers all came
\* in time has each event once and no partial after the end but those of strays:
\* with any sinks, events and retries, wherever the run is cut short
\* (sinks.py:134-162, 181-210, runner.py:178-181, 302).
THEOREM ReceiversAreServed == ServicesSpec => []ReceiversSeeTheRun
<1>1. ServicesInit => SinksInv
  BY SinksStart DEF ServicesInit
<1>2. SinksInv /\ [ServicesNext]_vars => SinksInv'
  <2>1. [ServicesNext]_vars => [SinksNext]_kvars
    BY DEF ServicesNext, vars
  <2> QED
    BY <2>1, SinksAdvance
<1>3. SinksInv => ReceiversSeeTheRun
  BY DEF SinksInv, ReceiversFit, ReceiverFits, InOrder, ReceiversSeeTheRun
<1> QED
  BY <1>1, <1>2, <1>3, PTL DEF ServicesSpec

(***************************************************************************)
(* SdkExport.                                                              *)
(***************************************************************************)

SdkStates == {"new", "open", "flush", "over"}
SpanRecords == [span : SpanIds, session : Sessions]

SdkSessions == [at : SdkStates, endpoint : Endpoints, index : Nat,
                context : Contexts \union {0}, before : Owners]
SdkSpans == [at : {"new", "open", "ended"}, trace : TraceIds \union {Least(TraceIds)},
             owner : Owners, kept : BOOLEAN, left : BOOLEAN]

SdkTyped ==
  /\ sdk \in [Sessions -> SdkSessions]
  /\ current \in [Contexts -> Owners]
  /\ processors \in Seq(Endpoints) /\ export \in 0 .. Len(processors)
  /\ span \in [SpanIds -> SdkSpans]
  /\ batch \in Seq(SUBSET SpanRecords) /\ Len(batch) = Len(processors)
  /\ posted \in [Endpoints -> SUBSET SpanRecords]

\* Session s was entered: it has a processor, which posts to its endpoint.
Entered(s) == sdk[s].index \in 1 .. Len(processors) /\ processors[sdk[s].index] = sdk[s].endpoint
EnteredSessions == {s \in Sessions : Entered(s)}
Entries == [trace : TraceIds, session : EnteredSessions]

\* Only sessions that were entered are in a context, in the registry or on a span.
RegistryFits ==
  /\ \A s \in Sessions : /\ sdk[s].at \in {"open", "flush"} => Entered(s)
                         /\ sdk[s].at = "new" => sdk[s].index = 0
  /\ \A s \in Sessions : sdk[s].before \in EnteredSessions \union {NoSession}
  /\ \A c \in Contexts : current[c] \in EnteredSessions \union {NoSession}
  /\ \A k \in SpanIds : span[k].owner \in EnteredSessions \union {NoSession}
  /\ known \in Seq(Entries)

\* A span that is kept has its session in the registry while it is open; then its
\* processor has it until the session's endpoint does, which is so when the session
\* is over that was left after the span had ended.
RecordOf(k) == [span |-> k, session |-> span[k].owner]
SpanFits(k) ==
  LET s == span[k].owner
  IN  /\ span[k].left => span[k].at = "ended"
      /\ s # NoSession /\ span[k].kept =>
           /\ span[k].at = "open" => OfTrace(span[k].trace) = s
           /\ span[k].at = "ended" =>
                RecordOf(k) \in batch[sdk[s].index] \union posted[sdk[s].endpoint]
           /\ span[k].left => /\ sdk[s].at \in {"flush", "over"}
                              /\ sdk[s].at = "over" => RecordOf(k) \in posted[sdk[s].endpoint]
SpansFit == \A k \in SpanIds : SpanFits(k)

SdkInv == SdkTyped /\ RegistryFits /\ SpansFit

LEMMA SdkStarts == SdkExportInit => SdkInv
<1> SUFFICES ASSUME SdkExportInit PROVE SdkInv
  OBVIOUS
<1>1. /\ \A s \in Sessions : sdk[s].at = "new" /\ sdk[s].before = NoSession /\ sdk[s].endpoint \in Endpoints
                             /\ sdk[s].index = 0 /\ sdk[s].context = 0
      /\ \A c \in Contexts : current[c] = NoSession
      /\ \A k \in SpanIds : span[k].at = "new" /\ span[k].owner = NoSession /\ span[k].left = FALSE
  BY DEF SdkExportInit
<1>2. SdkTyped
  BY <1>1 DEF SdkExportInit, SdkTyped, SdkSessions, SdkSpans, Owners, SdkStates
<1>3. known \in Seq(Entries)
  BY DEF SdkExportInit
<1>4. RegistryFits
  BY <1>1, <1>3 DEF RegistryFits
<1>5. SpansFit
  BY <1>1 DEF SpansFit, SpanFits
<1> QED
  BY <1>2, <1>4, <1>5 DEF SdkInv

\* Processors stay, and so do the endpoints and indices of sessions that were entered.
EntriesLast ==
  /\ Len(processors) <= Len(processors')
  /\ \A i \in 1 .. Len(processors) : processors'[i] = processors[i]
  /\ \A s \in Sessions : Entered(s) => sdk'[s].index = sdk[s].index /\ sdk'[s].endpoint = sdk[s].endpoint

\* A session that was entered stays so.
LEMMA EnteredForGood ==
  ASSUME SdkTyped, SdkTyped', EntriesLast
  PROVE  /\ EnteredSessions \subseteq EnteredSessions' /\ Seq(Entries) \subseteq Seq(Entries')
         /\ \A s \in Sessions : Entered(s) => Entered(s)'
<1>1. \A s \in Sessions : Entered(s) => Entered(s)'
  <2> SUFFICES ASSUME NEW s \in Sessions, Entered(s) PROVE Entered(s)'
    OBVIOUS
  <2>1. Len(processors) \in Nat /\ Len(processors') \in Nat
    BY DEF SdkTyped
  <2> QED
    BY <2>1 DEF Entered, EntriesLast
<1>2. EnteredSessions \subseteq EnteredSessions'
  BY <1>1 DEF EnteredSessions
<1>3. Entries \subseteq Entries'
  BY <1>2 DEF Entries
<1>4. Seq(Entries) \subseteq Seq(Entries')
  BY <1>3
<1> QED
  BY <1>1, <1>2, <1>4

\* With the sessions' states, contexts and spans, what else an action must show.
LEMMA RegistryStays ==
  ASSUME SdkTyped, RegistryFits, SdkTyped', EntriesLast,
         \A s \in Sessions : sdk'[s].at \notin {"open", "flush"} \/ Entered(s) \/ Entered(s)',
         \A s \in Sessions : sdk'[s].at = "new" => sdk'[s] = sdk[s],
         \A s \in Sessions : sdk'[s].before = sdk[s].before \/ \E c \in Contexts : sdk'[s].before = current[c],
         \A c \in Contexts : \/ current'[c] = NoSession \/ \E d \in Contexts : current'[c] = current[d]
                             \/ \E s \in Sessions : current'[c] = sdk[s].before
                             \/ \E s \in Sessions : current'[c] = s /\ Entered(s)',
         \A k \in SpanIds : span'[k].owner = span[k].owner,
         known' = known
  PROVE  RegistryFits'
<1>1. /\ EnteredSessions \subseteq EnteredSessions' /\ Seq(Entries) \subseteq Seq(Entries')
      /\ \A s \in Sessions : Entered(s) => Entered(s)'
  BY EnteredForGood
<1>2. \A s \in Sessions : /\ sdk'[s].at \in {"open", "flush"} => Entered(s)'
                          /\ sdk'[s].at = "new" => sdk'[s].index = 0
  BY <1>1 DEF RegistryFits
<1>3. \A s \in Sessions : sdk'[s].before \in EnteredSessions' \union {NoSession}
  BY <1>1 DEF RegistryFits
<1>4. \A s \in Sessions : Entered(s)' => s \in EnteredSessions'
  BY DEF EnteredSessions
<1>5. \A c \in Contexts : current'[c] \in EnteredSessions' \union {NoSession}
  BY <1>1, <1>4 DEF RegistryFits
<1>6. \A k \in SpanIds : span'[k].owner \in EnteredSessions' \union {NoSession}
  BY <1>1 DEF RegistryFits
<1>7. known' \in Seq(Entries')
  BY <1>1 DEF RegistryFits
<1> QED
  BY <1>2, <1>3, <1>5, <1>6, <1>7 DEF RegistryFits

\* A span goes on as it was, wherever its record has got to.
SpanGoesOn(k) ==
  LET s == span[k].owner
  IN  /\ span'[k] = span[k] \/ span'[k] = [span[k] EXCEPT !.left = TRUE]
      /\ span'[k].left = span[k].left \/ (span[k].at = "ended" /\ sdk'[s].at = "flush")
      /\ s # NoSession =>
           /\ sdk'[s].index = sdk[s].index /\ sdk'[s].endpoint = sdk[s].endpoint
           /\ sdk[s].at \in {"flush", "over"} => sdk'[s].at \in {"flush", "over"}
           /\ \A rec \in batch[sdk[s].index] :
                rec \in batch'[sdk[s].index] \union posted'[sdk[s].endpoint]
           /\ posted[sdk[s].endpoint] \subseteq posted'[sdk[s].endpoint]
           /\ sdk'[s].at = "over" =>
                sdk[s].at = "over" \/ sdk[s].at # "flush" \/ batch'[sdk[s].index] = {}

LEMMA SpansGoOn ==
  ASSUME SdkTyped, NEW k \in SpanIds, SpanFits(k), SpanGoesOn(k), known' = known
  PROVE  SpanFits(k)'
<1> DEFINE s == span[k].owner
<1>1. /\ span'[k].owner = s /\ span'[k].at = span[k].at /\ span'[k].kept = span[k].kept
      /\ span'[k].trace = span[k].trace
  BY DEF SdkTyped, SdkSpans, SpanGoesOn
<1>2. RecordOf(k)' = RecordOf(k) /\ OfTrace(span[k].trace)' = OfTrace(span[k].trace)
  BY <1>1 DEF RecordOf, OfTrace
<1> QED
  BY <1>1, <1>2 DEF SpanFits, SpanGoesOn

\* A session's state changes, and nothing else of it.
LEMMA SessionMoves ==
  ASSUME SdkTyped, NEW s \in Sessions, NEW at \in SdkStates, sdk' = [sdk EXCEPT ![s].at = at]
  PROVE  /\ sdk' \in [Sessions -> SdkSessions] /\ sdk'[s].at = at
         /\ \A r \in Sessions : r # s => sdk'[r] = sdk[r]
         /\ \A r \in Sessions : /\ sdk'[r].index = sdk[r].index /\ sdk'[r].endpoint = sdk[r].endpoint
                                /\ sdk'[r].before = sdk[r].before
<1>1. sdk \in [Sessions -> SdkSessions]
  BY DEF SdkTyped
<1>2. ASSUME NEW r \in SdkSessions
      PROVE  /\ [r EXCEPT !.at = at] \in SdkSessions /\ [r EXCEPT !.at = at].at = at
             /\ [r EXCEPT !.at = at].index = r.index /\ [r EXCEPT !.at = at].endpoint = r.endpoint
             /\ [r EXCEPT !.at = at].before = r.before
  BY DEF SdkSessions
<1>3. sdk' = [sdk EXCEPT ![s] = [sdk[s] EXCEPT !.at = at]]
  OBVIOUS
<1> QED
  BY <1>1, <1>2, <1>3

LEMMA OpenKeeps ==
  ASSUME SdkInv, NEW s \in Sessions, NEW c \in Contexts, OpenSession(s, c)
  PROVE  SdkInv'
<1>1. /\ SdkTyped /\ RegistryFits /\ SpansFit /\ sdk[s].at = "new"
      /\ known' = known /\ span' = span /\ posted' = posted
      /\ current' = [current EXCEPT ![c] = s]
      /\ sdk' = [sdk EXCEPT ![s] = [@ EXCEPT !.at = "open", !.context = c,
                                             !.before = current[c], !.index = export']]
  BY DEF SdkInv, OpenSession, IsNext
<1> DEFINE n == Len(processors)
           e == sdk[s].endpoint
<1>2. n \in Nat /\ e \in Endpoints /\ export \in 0 .. n
  BY <1>1 DEF SdkTyped, SdkSessions
<1>3. /\ processors' \in Seq(Endpoints) /\ n <= Len(processors')
      /\ \A i \in 1 .. n : processors'[i] = processors[i]
      /\ export' \in 1 .. Len(processors') /\ processors'[export'] = e
      /\ batch' \in Seq(SUBSET SpanRecords) /\ Len(batch') = Len(processors')
      /\ \A i \in 1 .. n : batch'[i] = batch[i]
  <2>1. CASE Installed(s)
    BY <1>1, <1>2, <2>1 DEF OpenSession, Installed, SdkTyped
  <2>2. CASE ~Installed(s)
    <3>1. /\ processors' = Append(processors, e) /\ export' = Len(processors') /\ batch' = Append(batch, {})
      BY <1>1, <2>2 DEF OpenSession
    <3>2. processors \in Seq(Endpoints) /\ batch \in Seq(SUBSET SpanRecords) /\ Len(batch) = n
      BY <1>1 DEF SdkTyped
    <3> QED
      BY <1>2, <3>1, <3>2
  <2> QED
    BY <2>1, <2>2
<1>4. SdkTyped'
  <2>1. sdk' \in [Sessions -> SdkSessions]
    <3>1. export' \in Nat /\ current[c] \in Owners /\ "open" \in SdkStates
      BY <1>1, <1>3 DEF SdkTyped, SdkStates
    <3>2. ASSUME NEW r \in SdkSessions
          PROVE  [r EXCEPT !.at = "open", !.context = c, !.before = current[c], !.index = export']
                   \in SdkSessions
      BY <3>1 DEF SdkSessions
    <3>3. sdk \in [Sessions -> SdkSessions]
      BY <1>1 DEF SdkTyped
    <3> HIDE DEF e
    <3> QED
      BY <1>1, <3>2, <3>3
  <2> QED
    BY <1>1, <1>3, <2>1 DEF SdkTyped, Owners
<1>5. /\ sdk'[s].endpoint = e /\ sdk'[s].index = export' /\ sdk'[s].before = current[c] /\ sdk'[s].at = "open"
      /\ \A r \in Sessions : r # s => sdk'[r] = sdk[r]
  BY <1>1 DEF SdkTyped
<1>6. Entered(s)'
  BY <1>3, <1>5 DEF Entered
<1>7. EntriesLast
  <2>1. ~Entered(s)
    BY <1>1, <1>2 DEF RegistryFits, Entered
  <2> QED
    BY <1>3, <1>5, <2>1 DEF EntriesLast
<1>8. RegistryFits'
  <2>1. \A r \in Sessions : sdk'[r].at \notin {"open", "flush"} \/ Entered(r) \/ Entered(r)'
    BY <1>1, <1>5, <1>6 DEF RegistryFits
  <2>2. \A r \in Sessions : sdk'[r].at = "new" => sdk'[r] = sdk[r]
    BY <1>5
  <2>3. \A r \in Sessions : sdk'[r].before = sdk[r].before \/ \E d \in Contexts : sdk'[r].before = current[d]
    BY <1>5
  <2>4. \A d \in Contexts : current'[d] = s \/ current'[d] = current[d]
    BY <1>1 DEF SdkTyped
  <2>5. \A d \in Contexts : \/ current'[d] = NoSession \/ \E b \in Contexts : current'[d] = current[b]
                            \/ \E r \in Sessions : current'[d] = sdk[r].before
                            \/ \E r \in Sessions : current'[d] = r /\ Entered(r)'
    BY <1>6, <2>4
  <2> QED
    BY <1>1, <1>4, <1>7, <2>1, <2>2, <2>3, <2>5, RegistryStays
<1>9. ASSUME NEW k \in SpanIds PROVE SpanFits(k)'
  <2> DEFINE o == span[k].owner
  <2>1. o # NoSession => o \in Sessions /\ Entered(o)
    BY <1>1 DEF RegistryFits, EnteredSessions
  <2>2. o # NoSession => o # s
    BY <1>1, <1>2, <2>1 DEF RegistryFits, Entered
  <2>3. o # NoSession => sdk'[o] = sdk[o] /\ batch'[sdk[o].index] = batch[sdk[o].index]
    BY <1>3, <1>5, <2>1, <2>2 DEF Entered
  <2>4. SpanGoesOn(k)
    BY <1>1, <2>3 DEF SpanGoesOn
  <2> QED
    BY <1>1, <2>4, SpansGoOn DEF SpansFit
<1> QED
  BY <1>4, <1>8, <1>9 DEF SdkInv, SpansFit

LEMMA PreflightKeeps ==
  ASSUME SdkInv, NEW s \in Sessions, PreflightFails(s)
  PROVE  SdkInv'
<1>1. /\ SdkTyped /\ RegistryFits /\ SpansFit /\ sdk[s].at = "new"
      /\ UNCHANGED <<current, known, processors, export, span, batch, posted>>
      /\ sdk' = [sdk EXCEPT ![s].at = "over"]
  BY DEF SdkInv, PreflightFails, IsNext
<1>2. /\ sdk' \in [Sessions -> SdkSessions]
      /\ sdk'[s].at = "over" /\ \A r \in Sessions : r # s => sdk'[r] = sdk[r]
      /\ \A r \in Sessions : /\ sdk'[r].index = sdk[r].index /\ sdk'[r].endpoint = sdk[r].endpoint
                             /\ sdk'[r].before = sdk[r].before
  <2>1. "over" \in SdkStates
    BY DEF SdkStates
  <2> QED
    BY <1>1, <2>1, SessionMoves
<1>3. SdkTyped'
  BY <1>1, <1>2 DEF SdkTyped
<1>4. EntriesLast
  <2>1. Len(processors) \in Nat
    BY <1>1 DEF SdkTyped
  <2> QED
    BY <1>1, <1>2, <2>1 DEF EntriesLast
<1>5. RegistryFits'
  <2>1. \A r \in Sessions : sdk'[r].at \notin {"open", "flush"} \/ Entered(r) \/ Entered(r)'
    BY <1>1, <1>2 DEF RegistryFits
  <2>2. \A r \in Sessions : sdk'[r].at = "new" => sdk'[r] = sdk[r]
    BY <1>2
  <2> QED
    BY <1>1, <1>3, <1>2, <1>4, <2>1, <2>2, RegistryStays
<1>6. ASSUME NEW k \in SpanIds PROVE SpanFits(k)'
  <2> DEFINE o == span[k].owner
  <2>1. o # NoSession => o \in Sessions /\ Entered(o)
    BY <1>1 DEF RegistryFits, EnteredSessions
  <2>2. o # NoSession => o # s
    <3>1. sdk[s].index = 0 /\ Len(processors) \in Nat
      BY <1>1 DEF RegistryFits, SdkTyped
    <3> QED
      BY <2>1, <3>1 DEF Entered
  <2>3. SpanGoesOn(k)
    BY <1>1, <1>2, <2>1, <2>2 DEF SpanGoesOn
  <2> QED
    BY <1>1, <2>3, SpansGoOn DEF SpansFit
<1> QED
  BY <1>3, <1>5, <1>6 DEF SdkInv, SpansFit

LEMMA LeaveKeeps ==
  ASSUME SdkInv, NEW s \in Sessions, NEW c \in Contexts, LeaveSession(s, c)
  PROVE  SdkInv'
<1>1. /\ SdkTyped /\ RegistryFits /\ SpansFit /\ sdk[s].at = "open"
      /\ UNCHANGED <<known, processors, export, batch, posted>>
      /\ current' = [current EXCEPT ![c] = IF c = sdk[s].context THEN sdk[s].before ELSE NoSession]
      /\ sdk' = [sdk EXCEPT ![s].at = "flush"]
      /\ span' = [k \in SpanIds |->
                    [span[k] EXCEPT !.left = @ \/ (span[k].at = "ended" /\ span[k].owner = s)]]
  BY DEF SdkInv, LeaveSession
<1>2. /\ sdk' \in [Sessions -> SdkSessions]
      /\ sdk'[s].at = "flush" /\ \A r \in Sessions : r # s => sdk'[r] = sdk[r]
      /\ \A r \in Sessions : /\ sdk'[r].index = sdk[r].index /\ sdk'[r].endpoint = sdk[r].endpoint
                             /\ sdk'[r].before = sdk[r].before
  <2>1. "flush" \in SdkStates
    BY DEF SdkStates
  <2> QED
    BY <1>1, <2>1, SessionMoves
<1>3. \A d \in Contexts : \/ current'[d] = NoSession \/ current'[d] = current[d]
                          \/ current'[d] = sdk[s].before
  BY <1>1 DEF SdkTyped
<1>4. \A k \in SpanIds : \/ span'[k] = span[k]
                         \/ /\ span'[k] = [span[k] EXCEPT !.left = TRUE]
                            /\ span[k].at = "ended" /\ span[k].owner = s
  <2> SUFFICES ASSUME NEW k \in SpanIds
               PROVE  \/ span'[k] = span[k]
                      \/ /\ span'[k] = [span[k] EXCEPT !.left = TRUE]
                         /\ span[k].at = "ended" /\ span[k].owner = s
    OBVIOUS
  <2> DEFINE b == span[k].at = "ended" /\ span[k].owner = s
  <2>1. span'[k] = [span[k] EXCEPT !.left = span[k].left \/ b]
    BY <1>1
  <2>2. span[k] \in SdkSpans
    BY <1>1 DEF SdkTyped
  <2>3. CASE b
    BY <2>1, <2>3
  <2>4. CASE ~b
    <3>1. span'[k] = [span[k] EXCEPT !.left = span[k].left]
      BY <2>1, <2>2, <2>4 DEF SdkSpans
    <3> QED
      BY <2>2, <3>1 DEF SdkSpans
  <2> QED
    BY <2>3, <2>4
<1>5. SdkTyped'
  <2>2. current' \in [Contexts -> Owners]
    BY <1>1 DEF SdkTyped, SdkSessions, Owners
  <2>3. span' \in [SpanIds -> SdkSpans]
    <3>1. span \in [SpanIds -> SdkSpans] /\ DOMAIN span' = SpanIds
      BY <1>1 DEF SdkTyped
    <3>2. ASSUME NEW r \in SdkSpans PROVE [r EXCEPT !.left = TRUE] \in SdkSpans
      BY DEF SdkSpans
    <3> QED
      BY <1>1, <1>4, <3>1, <3>2
  <2> QED
    BY <1>1, <1>2, <2>2, <2>3 DEF SdkTyped, Owners
<1>6. EntriesLast
  <2>1. Len(processors) \in Nat
    BY <1>1 DEF SdkTyped
  <2> QED
    BY <1>1, <1>2, <2>1 DEF EntriesLast
<1>7. RegistryFits'
  <2>1. \A r \in Sessions : sdk'[r].at \notin {"open", "flush"} \/ Entered(r) \/ Entered(r)'
    BY <1>1, <1>2 DEF RegistryFits
  <2>2. \A r \in Sessions : sdk'[r].at = "new" => sdk'[r] = sdk[r]
    BY <1>2
  <2>3. \A k \in SpanIds : span'[k].owner = span[k].owner
    BY <1>1, <1>4 DEF SdkTyped, SdkSpans, SdkSessions
  <2>4. \A d \in Contexts : \/ current'[d] = NoSession \/ \E b \in Contexts : current'[d] = current[b]
                            \/ \E r \in Sessions : current'[d] = sdk[r].before
                            \/ \E r \in Sessions : current'[d] = r /\ Entered(r)'
    BY <1>3
  <2> QED
    BY <1>1, <1>2, <1>5, <1>6, <2>1, <2>2, <2>3, <2>4, RegistryStays
<1>8. ASSUME NEW k \in SpanIds PROVE SpanFits(k)'
  <2> DEFINE o == span[k].owner
  <2>1. o # NoSession => o \in Sessions
    BY <1>1 DEF RegistryFits, EnteredSessions
  <2>2. span'[k].left = span[k].left \/ (span[k].at = "ended" /\ sdk'[o].at = "flush")
    BY <1>2, <1>4
  <2>3. SpanGoesOn(k)
    BY <1>1, <1>2, <1>4, <2>1, <2>2 DEF SpanGoesOn
  <2> QED
    BY <1>1, <2>3, SpansGoOn DEF SpansFit
<1> QED
  BY <1>5, <1>7, <1>8 DEF SdkInv, SpansFit

\* A processor posts what it holds: no session loses a record.
Posts(i) ==
  /\ i \in 1 .. Len(processors)
  /\ posted' = [posted EXCEPT ![processors[i]] = @ \union batch[i]]
  /\ batch' = [batch EXCEPT ![i] = {}]
  /\ UNCHANGED <<current, known, processors, export, span>>

LEMMA PostingLosesNothing ==
  ASSUME SdkTyped, NEW i, Posts(i)
  PROVE  /\ posted' \in [Endpoints -> SUBSET SpanRecords] /\ batch' \in Seq(SUBSET SpanRecords)
         /\ Len(batch') = Len(batch) /\ batch'[i] = {}
         /\ \A s \in Sessions : Entered(s) =>
              /\ \A rec \in batch[sdk[s].index] :
                   rec \in batch'[sdk[s].index] \union posted'[sdk[s].endpoint]
              /\ posted[sdk[s].endpoint] \subseteq posted'[sdk[s].endpoint]
<1>1. /\ i \in 1 .. Len(batch) /\ processors[i] \in Endpoints /\ batch[i] \in SUBSET SpanRecords
      /\ Len(batch) = Len(processors)
  BY DEF SdkTyped, Posts
<1>2. /\ posted' \in [Endpoints -> SUBSET SpanRecords] /\ batch' \in Seq(SUBSET SpanRecords)
      /\ Len(batch') = Len(batch) /\ batch'[i] = {}
      /\ \A j \in 1 .. Len(batch) : j # i => batch'[j] = batch[j]
  BY <1>1 DEF SdkTyped, Posts
<1>3. /\ \A x \in Endpoints : posted[x] \subseteq posted'[x]
      /\ batch[i] \subseteq posted'[processors[i]]
  BY <1>1 DEF SdkTyped, Posts
<1>4. ASSUME NEW s \in Sessions, Entered(s)
      PROVE  \A rec \in batch[sdk[s].index] :
               rec \in batch'[sdk[s].index] \union posted'[sdk[s].endpoint]
  <2>1. sdk[s].index \in 1 .. Len(batch) /\ processors[sdk[s].index] = sdk[s].endpoint
    BY <1>1, <1>4 DEF Entered
  <2> QED
    BY <1>2, <1>3, <2>1
<1>5. \A s \in Sessions : sdk[s].endpoint \in Endpoints
  BY DEF SdkTyped, SdkSessions
<1> QED
  BY <1>2, <1>3, <1>4, <1>5

LEMMA FlushKeeps ==
  ASSUME SdkInv, NEW s \in Sessions, FlushSession(s)
  PROVE  SdkInv'
<1> DEFINE i == sdk[s].index
<1>1. /\ SdkTyped /\ RegistryFits /\ SpansFit /\ sdk[s].at = "flush" /\ Entered(s)
      /\ UNCHANGED <<current, known, processors, export, span>>
      /\ sdk' = [sdk EXCEPT ![s].at = "over"]
  BY DEF SdkInv, FlushSession, RegistryFits
<1>2. Posts(i)
  BY <1>1 DEF FlushSession, Post, Posts, Entered
<1>3. /\ posted' \in [Endpoints -> SUBSET SpanRecords] /\ batch' \in Seq(SUBSET SpanRecords)
      /\ Len(batch') = Len(batch) /\ batch'[i] = {}
      /\ \A r \in Sessions : Entered(r) =>
           /\ \A rec \in batch[sdk[r].index] :
                rec \in batch'[sdk[r].index] \union posted'[sdk[r].endpoint]
           /\ posted[sdk[r].endpoint] \subseteq posted'[sdk[r].endpoint]
  BY <1>1, <1>2, PostingLosesNothing
<1>4. /\ sdk' \in [Sessions -> SdkSessions]
      /\ sdk'[s].at = "over" /\ \A r \in Sessions : r # s => sdk'[r] = sdk[r]
      /\ \A r \in Sessions : /\ sdk'[r].index = sdk[r].index /\ sdk'[r].endpoint = sdk[r].endpoint
                             /\ sdk'[r].before = sdk[r].before
  <2>1. "over" \in SdkStates
    BY DEF SdkStates
  <2> QED
    BY <1>1, <2>1, SessionMoves
<1>5. SdkTyped'
  BY <1>1, <1>3, <1>4 DEF SdkTyped
<1>6. EntriesLast
  <2>1. Len(processors) \in Nat
    BY <1>1 DEF SdkTyped
  <2> QED
    BY <1>1, <1>4, <2>1 DEF EntriesLast
<1>7. RegistryFits'
  <2>1. \A r \in Sessions : sdk'[r].at \notin {"open", "flush"} \/ Entered(r) \/ Entered(r)'
    BY <1>1, <1>4 DEF RegistryFits
  <2>2. \A r \in Sessions : sdk'[r].at = "new" => sdk'[r] = sdk[r]
    BY <1>4
  <2> QED
    BY <1>1, <1>5, <1>4, <1>6, <2>1, <2>2, RegistryStays
<1>8. ASSUME NEW k \in SpanIds PROVE SpanFits(k)'
  <2> DEFINE o == span[k].owner
  <2>1. o # NoSession => o \in Sessions /\ Entered(o)
    BY <1>1 DEF RegistryFits, EnteredSessions
  <2>2. SpanGoesOn(k)
    BY <1>1, <1>3, <1>4, <2>1 DEF SpanGoesOn
  <2> QED
    BY <1>1, <2>2, SpansGoOn DEF SpansFit
<1> QED
  BY <1>5, <1>7, <1>8 DEF SdkInv, SpansFit

LEMMA PostKeeps ==
  ASSUME SdkInv, NEW i \in DOMAIN batch, PostBatch(i)
  PROVE  SdkInv'
<1>1. /\ SdkTyped /\ RegistryFits /\ SpansFit
      /\ UNCHANGED <<sdk, current, known, processors, export, span>>
  BY DEF SdkInv, PostBatch
<1>2. Posts(i)
  BY <1>1 DEF PostBatch, Post, Posts, SdkTyped
<1>3. /\ posted' \in [Endpoints -> SUBSET SpanRecords] /\ batch' \in Seq(SUBSET SpanRecords)
      /\ Len(batch') = Len(batch)
      /\ \A r \in Sessions : Entered(r) =>
           /\ \A rec \in batch[sdk[r].index] :
                rec \in batch'[sdk[r].index] \union posted'[sdk[r].endpoint]
           /\ posted[sdk[r].endpoint] \subseteq posted'[sdk[r].endpoint]
  BY <1>1, <1>2, PostingLosesNothing
<1>4. SdkTyped' /\ RegistryFits'
  BY <1>1, <1>3 DEF SdkTyped, RegistryFits, Entered, EnteredSessions, Entries
<1>5. ASSUME NEW k \in SpanIds PROVE SpanFits(k)'
  <2>1. span[k].owner # NoSession => span[k].owner \in Sessions /\ Entered(span[k].owner)
    BY <1>1 DEF RegistryFits, EnteredSessions
  <2>2. SpanGoesOn(k)
    BY <1>1, <1>3, <2>1 DEF SpanGoesOn
  <2> QED
    BY <1>1, <2>2, SpansGoOn DEF SpansFit
<1> QED
  BY <1>4, <1>5 DEF SdkInv, SpansFit

LEMMA SpawnKeeps ==
  ASSUME SdkInv, NEW c \in Contexts, NEW d \in Contexts, SpawnTask(c, d)
  PROVE  SdkInv'
<1>1. /\ SdkTyped /\ RegistryFits /\ SpansFit
      /\ UNCHANGED <<sdk, known, processors, export, span, batch, posted>>
      /\ current' = [current EXCEPT ![d] = current[c]]
  BY DEF SdkInv, SpawnTask
<1>2. SdkTyped' /\ RegistryFits'
  BY <1>1 DEF SdkTyped, RegistryFits, Entered, EnteredSessions, Entries
<1>3. ASSUME NEW k \in SpanIds PROVE SpanFits(k)'
  <2>1. SpanGoesOn(k)
    BY <1>1 DEF SpanGoesOn
  <2> QED
    BY <1>1, <2>1, SpansGoOn DEF SpansFit
<1> QED
  BY <1>2, <1>3 DEF SdkInv, SpansFit

\* Resolving a span gives a session that was entered, or none.
LEMMA ResolvesToEntered ==
  ASSUME SdkInv, NEW c \in Contexts, NEW t \in TraceIds
  PROVE  Resolve(c, t) \in EnteredSessions \union {NoSession}
<1>1. SdkTyped /\ RegistryFits
  BY DEF SdkInv
<1>2. current[c] \in EnteredSessions \union {NoSession}
  BY <1>1 DEF RegistryFits
<1>3. OfTrace(t) \in EnteredSessions \union {NoSession}
  <2>1. CASE Maps(known, t)
    <3>1. PlaceOf(known, t) \in DOMAIN known
      BY <2>1 DEF Maps, PlaceOf
    <3>2. known[PlaceOf(known, t)] \in Entries
      BY <1>1, <3>1 DEF RegistryFits
    <3> QED
      BY <2>1, <3>2 DEF OfTrace, SessionIn, Entries
  <2>2. CASE ~Maps(known, t)
    BY <2>2 DEF OfTrace, SessionIn
  <2> QED
    BY <2>1, <2>2
<1>4. Cardinality(Opened) = 1 => (CHOOSE s \in Opened : TRUE) \in EnteredSessions
  <2>1. Cardinality(Opened) = 1 => Opened # {}
    BY FS_EmptySet
  <2>2. Opened \subseteq EnteredSessions
    BY <1>1 DEF Opened, RegistryFits, EnteredSessions
  <2> QED
    BY <2>1, <2>2
<1> QED
  BY <1>2, <1>3, <1>4 DEF Resolve

\* What the registry remembers are sessions that were entered.
LEMMA RemembersEntered ==
  ASSUME known \in Seq(Entries), NEW t \in TraceIds, NEW s \in EnteredSessions \union {NoSession}
  PROVE  Remember(t, s) \in Seq(Entries)
<1> DEFINE rest == IF Maps(known, t) THEN RemoveAt(known, PlaceOf(known, t)) ELSE known
           entry == [trace |-> t, session |-> s]
<1>1. CASE s = NoSession
  BY <1>1 DEF Remember
<1>2. CASE s # NoSession
  <2>1. rest \in Seq(Entries)
    <3>1. CASE Maps(known, t)
      <4> DEFINE n == PlaceOf(known, t)
      <4>1. n \in 1 .. Len(known)
        BY <3>1 DEF Maps, PlaceOf
      <4>2. RemoveAt(known, n) = SubSeq(known, 1, n - 1) \o SubSeq(known, n + 1, Len(known))
        BY DEF RemoveAt
      <4> HIDE DEF n
      <4>3. /\ SubSeq(known, 1, n - 1) \in Seq(Entries)
            /\ SubSeq(known, n + 1, Len(known)) \in Seq(Entries)
        BY <4>1
      <4>4. RemoveAt(known, n) \in Seq(Entries)
        BY <4>2, <4>3
      <4> QED
        BY <3>1, <4>4 DEF n
    <3>2. CASE ~Maps(known, t)
      BY <3>2
    <3> QED
      BY <3>1, <3>2
  <2>2. entry \in Entries
    BY <1>2 DEF Entries
  <2>3. MovedToEnd(t, s) = Append(rest, entry)
    BY DEF MovedToEnd
  <2> HIDE DEF rest, entry
  <2>4. MovedToEnd(t, s) \in Seq(Entries) /\ MovedToEnd(t, s) # <<>>
    BY <2>1, <2>2, <2>3
  <2>5. Remember(t, s) = MovedToEnd(t, s) \/ Remember(t, s) = Tail(MovedToEnd(t, s))
    BY <1>2 DEF Remember
  <2> QED
    BY <2>4, <2>5
<1> QED
  BY <1>1, <1>2

\* Span j is next what spans has of it, and kept only if the registry agrees.
FollowedFrom(spans, j) ==
  /\ span'[j].at = spans[j].at /\ span'[j].owner = spans[j].owner
  /\ span'[j].trace = spans[j].trace /\ span'[j].left = spans[j].left
  /\ span'[j].kept => spans[j].kept
  /\ span'[j].kept /\ spans[j].at = "open" => SessionIn(known', spans[j].trace) = spans[j].owner

LEMMA TrackedFollow ==
  ASSUME NEW spans \in [SpanIds -> SdkSpans], span' = Tracked(spans, known')
  PROVE  /\ span' \in [SpanIds -> SdkSpans]
         /\ \A j \in SpanIds : FollowedFrom(spans, j)
<1> DEFINE fits(j) == spans[j].at = "open" => SessionIn(known', spans[j].trace) = spans[j].owner
<1>1. span' = [j \in SpanIds |-> [spans[j] EXCEPT !.kept = spans[j].kept /\ fits(j)]]
  BY DEF Tracked
<1>2. \A j \in SpanIds : fits(j) \in BOOLEAN
  OBVIOUS
<1> HIDE DEF fits
<1>3. ASSUME NEW r \in SdkSpans, NEW b \in BOOLEAN
      PROVE  /\ [r EXCEPT !.kept = r.kept /\ b] \in SdkSpans
             /\ [r EXCEPT !.kept = r.kept /\ b].at = r.at
             /\ [r EXCEPT !.kept = r.kept /\ b].owner = r.owner
             /\ [r EXCEPT !.kept = r.kept /\ b].trace = r.trace
             /\ [r EXCEPT !.kept = r.kept /\ b].left = r.left
             /\ [r EXCEPT !.kept = r.kept /\ b].kept => r.kept /\ b
  BY DEF SdkSpans
<1>4. ASSUME NEW j \in SpanIds PROVE span'[j] \in SdkSpans /\ FollowedFrom(spans, j)
  <2>1. spans[j] \in SdkSpans /\ span'[j] = [spans[j] EXCEPT !.kept = spans[j].kept /\ fits(j)]
    BY <1>1
  <2>2. /\ span'[j] \in SdkSpans
        /\ span'[j].at = spans[j].at /\ span'[j].owner = spans[j].owner
        /\ span'[j].trace = spans[j].trace /\ span'[j].left = spans[j].left
        /\ span'[j].kept => spans[j].kept /\ fits(j)
    BY <1>2, <1>3, <2>1
  <2> QED
    BY <2>2 DEF FollowedFrom, fits
<1> QED
  BY <1>1, <1>4

LEMMA StartKeeps ==
  ASSUME SdkInv, NEW k \in SpanIds, NEW c \in Contexts, NEW t \in TraceIds, StartSpan(k, c, t)
  PROVE  SdkInv'
<1> DEFINE owner == IF processors = <<>> THEN NoSession ELSE Resolve(c, t)
           spans == [span EXCEPT ![k] = [@ EXCEPT !.at = "open", !.trace = t, !.owner = owner]]
<1>1. /\ SdkTyped /\ RegistryFits /\ SpansFit /\ span[k].at = "new"
      /\ UNCHANGED <<sdk, current, processors, export, batch, posted>>
      /\ known' = Remember(t, owner) /\ span' = Tracked(spans, known')
  BY DEF SdkInv, StartSpan
<1>2. owner \in EnteredSessions \union {NoSession}
  BY ResolvesToEntered
<1> HIDE DEF owner
<1>3. known' \in Seq(Entries)
  BY <1>1, <1>2, RemembersEntered DEF RegistryFits
<1>4. owner \in Owners
  BY <1>2 DEF EnteredSessions, Owners
<1>5. /\ spans \in [SpanIds -> SdkSpans]
      /\ spans[k].at = "open" /\ spans[k].owner = owner /\ spans[k].left = span[k].left
      /\ \A j \in SpanIds : j # k => spans[j] = span[j]
  <2>1. span \in [SpanIds -> SdkSpans]
    BY <1>1 DEF SdkTyped
  <2>2. ASSUME NEW r \in SdkSpans
        PROVE  /\ [r EXCEPT !.at = "open", !.trace = t, !.owner = owner] \in SdkSpans
               /\ [r EXCEPT !.at = "open", !.trace = t, !.owner = owner].at = "open"
               /\ [r EXCEPT !.at = "open", !.trace = t, !.owner = owner].owner = owner
               /\ [r EXCEPT !.at = "open", !.trace = t, !.owner = owner].left = r.left
    BY <1>4 DEF SdkSpans
  <2> QED
    BY <2>1, <2>2
<1> HIDE DEF spans
<1>6. /\ span' \in [SpanIds -> SdkSpans]
      /\ \A j \in SpanIds : FollowedFrom(spans, j)
  BY <1>1, <1>5, TrackedFollow
<1>7. SdkTyped'
  BY <1>1, <1>6 DEF SdkTyped
<1>8. RegistryFits'
  <2>1. EnteredSessions' = EnteredSessions /\ Entries' = Entries
    BY <1>1 DEF EnteredSessions, Entries, Entered
  <2>2. ASSUME NEW j \in SpanIds PROVE span'[j].owner \in EnteredSessions \union {NoSession}
    <3>1. span'[j].owner = spans[j].owner
      BY <1>6 DEF FollowedFrom
    <3>2. j # k => spans[j].owner = span[j].owner
      BY <1>5
    <3>3. span[j].owner \in EnteredSessions \union {NoSession}
      BY <1>1 DEF RegistryFits
    <3> QED
      BY <1>2, <1>5, <3>1, <3>2, <3>3
  <2>3. \A s \in Sessions : Entered(s)' <=> Entered(s)
    BY <1>1 DEF Entered
  <2> QED
    BY <1>1, <1>3, <2>1, <2>2, <2>3 DEF RegistryFits
<1>9. ASSUME NEW j \in SpanIds PROVE SpanFits(j)'
  <2>1. SpanFits(j)
    BY <1>1 DEF SpansFit
  <2>2. sdk' = sdk /\ batch' = batch /\ posted' = posted
    BY <1>1
  <2>3. FollowedFrom(spans, j)
    BY <1>6
  <2>4. CASE j = k
    <3>1. ~span[k].left
      BY <1>1, <2>1, <2>4 DEF SpanFits
    <3>2. spans[j].at = "open" /\ ~spans[j].left
      BY <1>5, <2>4, <3>1
    <3> QED
      BY ONLY <2>3, <3>2 DEF SpanFits, OfTrace, FollowedFrom
  <2>5. CASE j # k
    <3>1. spans[j] = span[j]
      BY <1>5, <2>5
    <3>2. RecordOf(j)' = RecordOf(j)
      BY <2>3, <3>1 DEF RecordOf, FollowedFrom
    <3> QED
      BY ONLY <2>1, <2>2, <2>3, <3>1, <3>2 DEF SpanFits, OfTrace, FollowedFrom
  <2> QED
    BY <2>4, <2>5
<1> QED
  BY <1>7, <1>8, <1>9 DEF SdkInv, SpansFit

LEMMA EndKeeps ==
  ASSUME SdkInv, NEW k \in SpanIds, EndSpan(k)
  PROVE  SdkInv'
<1> DEFINE o == OfTrace(span[k].trace)
           more == IF o = NoSession THEN {} ELSE {[span |-> k, session |-> o]}
<1>1. /\ SdkTyped /\ RegistryFits /\ SpansFit /\ span[k].at = "open"
      /\ UNCHANGED <<sdk, current, known, processors, export, posted>>
      /\ batch' = [i \in DOMAIN batch |-> batch[i] \union more]
      /\ span' = [span EXCEPT ![k].at = "ended"]
  BY DEF SdkInv, EndSpan
<1>2. more \in SUBSET SpanRecords
  <2>1. o = NoSession \/ o \in Sessions
    <3>1. CASE Maps(known, span[k].trace)
      <4>1. PlaceOf(known, span[k].trace) \in DOMAIN known
        BY <3>1 DEF Maps, PlaceOf
      <4>2. known[PlaceOf(known, span[k].trace)] \in Entries
        BY <1>1, <4>1 DEF RegistryFits
      <4> QED
        BY <3>1, <4>2 DEF OfTrace, SessionIn, Entries, EnteredSessions
    <3> QED
      BY <3>1 DEF OfTrace, SessionIn
  <2> QED
    BY <2>1 DEF SpanRecords
<1>3. o # NoSession => [span |-> k, session |-> o] \in more
  OBVIOUS
<1> HIDE DEF more
<1>4. /\ batch' \in Seq(SUBSET SpanRecords) /\ Len(batch') = Len(batch)
      /\ \A i \in 1 .. Len(batch) : batch'[i] = batch[i] \union more
  BY <1>1, <1>2 DEF SdkTyped
<1>5. /\ span' \in [SpanIds -> SdkSpans]
      /\ \A j \in SpanIds : /\ span'[j].owner = span[j].owner /\ span'[j].kept = span[j].kept
                             /\ span'[j].left = span[j].left /\ span'[j].trace = span[j].trace
                             /\ j # k => span'[j].at = span[j].at
  <2>1. span \in [SpanIds -> SdkSpans] /\ span' = [span EXCEPT ![k] = [span[k] EXCEPT !.at = "ended"]]
    BY <1>1 DEF SdkTyped
  <2>2. ASSUME NEW r \in SdkSpans
        PROVE  /\ [r EXCEPT !.at = "ended"] \in SdkSpans
               /\ [r EXCEPT !.at = "ended"].owner = r.owner /\ [r EXCEPT !.at = "ended"].kept = r.kept
               /\ [r EXCEPT !.at = "ended"].left = r.left /\ [r EXCEPT !.at = "ended"].trace = r.trace
    BY DEF SdkSpans
  <2> QED
    BY <2>1, <2>2
<1>6. span'[k].at = "ended"
  BY <1>1 DEF SdkTyped, SdkSpans
<1>7. SdkTyped'
  BY <1>1, <1>4, <1>5 DEF SdkTyped
<1>8. RegistryFits'
  <2>1. EnteredSessions' = EnteredSessions /\ Entries' = Entries
    BY <1>1 DEF EnteredSessions, Entries, Entered
  <2>2. \A s \in Sessions : Entered(s)' <=> Entered(s)
    BY <1>1 DEF Entered
  <2> QED
    BY <1>1, <1>5, <2>1, <2>2 DEF RegistryFits
<1>9. ASSUME NEW j \in SpanIds PROVE SpanFits(j)'
  <2> DEFINE s == span[j].owner
  <2>1. SpanFits(j) /\ RecordOf(j)' = RecordOf(j)
    BY <1>1, <1>5 DEF SpansFit, RecordOf
  <2>2. s # NoSession => sdk[s].index \in 1 .. Len(batch)
    BY <1>1 DEF SdkTyped, RegistryFits, EnteredSessions, Entered
  <2>3. s # NoSession => batch'[sdk[s].index] = batch[sdk[s].index] \union more
    BY <1>4, <2>2
  <2>4. CASE j # k
    BY <1>1, <1>5, <2>1, <2>3, <2>4 DEF SpanFits, OfTrace
  <2>5. CASE j = k
    <3>1. ~span[k].left
      BY <1>1, <2>1, <2>5 DEF SpanFits
    <3>2. s # NoSession /\ span[k].kept => o = s
      BY <1>1, <2>1, <2>5 DEF SpanFits
    <3>3. s # NoSession /\ span[k].kept => RecordOf(j) \in more
      BY <1>3, <2>5, <3>2 DEF RecordOf
    <3> QED
      BY <1>1, <1>5, <1>6, <2>1, <2>3, <2>5, <3>1, <3>3 DEF SpanFits
  <2> QED
    BY <2>4, <2>5
<1> QED
  BY <1>7, <1>8, <1>9 DEF SdkInv, SpansFit

LEMMA SdkStays ==
  ASSUME SdkInv, UNCHANGED xvars
  PROVE  SdkInv'
BY DEF xvars, SdkInv, SdkTyped, RegistryFits, SpansFit, SpanFits, RecordOf, OfTrace, Entered,
       EnteredSessions, Entries

LEMMA SdkAdvances == SdkInv /\ [SdkExportNext]_xvars => SdkInv'
<1> SUFFICES ASSUME SdkInv, [SdkExportNext]_xvars PROVE SdkInv'
  OBVIOUS
<1>1. CASE \E s \in Sessions, c \in Contexts : OpenSession(s, c) \/ LeaveSession(s, c)
  BY <1>1, OpenKeeps, LeaveKeeps
<1>2. CASE \E s \in Sessions : PreflightFails(s) \/ FlushSession(s)
  BY <1>2, PreflightKeeps, FlushKeeps
<1>3. CASE \E c, d \in Contexts : SpawnTask(c, d)
  BY <1>3, SpawnKeeps
<1>4. CASE \E k \in SpanIds, c \in Contexts, t \in TraceIds : StartSpan(k, c, t)
  BY <1>4, StartKeeps
<1>5. CASE \E k \in SpanIds : EndSpan(k)
  BY <1>5, EndKeeps
<1>6. CASE \E i \in DOMAIN batch : PostBatch(i)
  BY <1>6, PostKeeps
<1>7. CASE UNCHANGED xvars
  BY <1>7, SdkStays
<1> QED
  BY <1>1, <1>2, <1>3, <1>4, <1>5, <1>6, <1>7 DEF SdkExportNext

\* Whatever the application does with its sessions, threads and tasks, spans that ended
\* in time are with the endpoint of their session, under its name, once the session is
\* over (sdk.py session(), sdk_export.py:187-268).
THEOREM SessionsArriveWhole == ServicesSpec => []SessionsAreComplete
<1>1. ServicesInit => SdkInv
  BY SdkStarts DEF ServicesInit
<1>2. [ServicesNext]_vars => [SdkExportNext]_xvars
  BY DEF ServicesNext, vars
<1>3. SdkInv => SessionsAreComplete
  BY DEF SdkInv, SpansFit, SpanFits, RecordOf, SessionsAreComplete
<1> QED
  BY <1>1, <1>2, <1>3, SdkAdvances, PTL DEF ServicesSpec

(***************************************************************************)
(* RunWatch.                                                               *)
(***************************************************************************)

RowStatuses == {"none", "queued", "running"} \union TerminalStatuses
WatchedRows == [status : RowStatuses, attempt : Nat]
Writes == [ResultIds -> Nat]

RunWatchTyped ==
  /\ row \in WatchedRows /\ rowSeen \in WatchedRows /\ sent \in WatchedRows
  /\ stored \in Writes /\ closing \in Writes /\ fresh \in Writes /\ seen \in Writes
  /\ watch \in {"row", "results", "send", "over", "expired", "left"}

IsFinal(r) == r.status \in TerminalStatuses
Covers(had) == \A r \in ResultIds : had[r] >= closing[r]

\* A handler that read a terminal row reads results that cover what was stored when
\* the row became terminal.
RunWatchInv ==
  /\ RunWatchTyped
  /\ Covers(stored)
  /\ IsFinal(rowSeen) => IsFinal(row)
  /\ watch = "send" /\ IsFinal(rowSeen) => Covers(fresh)
  /\ watch = "over" => IsFinal(row) /\ IsFinal(sent) /\ Covers(seen)

LEMMA RunWatchStarts == RunWatchInit => RunWatchInv
BY DEF RunWatchInit, RunWatchInv, RunWatchTyped, WatchedRows, RowStatuses, TerminalStatuses, Writes,
       NoResults, NoRow, IsFinal, Covers

LEMMA RunWatchAdvances == RunWatchInv /\ [RunWatchNext]_rvars => RunWatchInv'
<1> SUFFICES ASSUME RunWatchInv, [RunWatchNext]_rvars PROVE RunWatchInv'
  OBVIOUS
<1> USE DEF RunWatchInv, RunWatchTyped, IsFinal, Covers
<1>1. CASE ClaimRun
  BY <1>1 DEF ClaimRun, reader, WatchedRows, RowStatuses, TerminalStatuses
<1>2. CASE UpsertResults
  <2>1. /\ UNCHANGED <<row, closing, reader>>
        /\ stored' \in Writes /\ \A r \in ResultIds : stored'[r] >= stored[r]
    BY <1>2 DEF UpsertResults, Writes
  <2> QED
    BY <2>1 DEF reader, Writes
<1>3. CASE FinishRow
  <2>1. PICK status \in TerminalStatuses : row' = [row EXCEPT !.status = status]
    BY <1>3 DEF FinishRow
  <2>2. row' \in WatchedRows /\ IsFinal(row')
    BY <2>1 DEF WatchedRows, RowStatuses
  <2>3. /\ closing' = IF IsFinal(row) THEN closing ELSE stored
        /\ UNCHANGED <<stored, reader>>
    BY <1>3 DEF FinishRow
  <2> QED
    BY <2>2, <2>3 DEF reader, Writes
<1>4. CASE ReadRow
  BY <1>4 DEF ReadRow
<1>5. CASE ReadResults
  BY <1>5 DEF ReadResults
<1>6. CASE SendChanges
  BY <1>6 DEF SendChanges
<1>7. CASE WatcherLeaves
  BY <1>7 DEF WatcherLeaves
<1>8. CASE UNCHANGED rvars
  BY <1>8 DEF rvars
<1> QED
  BY <1>1, <1>2, <1>3, <1>4, <1>5, <1>6, <1>7, <1>8 DEF RunWatchNext, WatchStep

LEMMA WatchShowsAll == RunWatchInv => WatchEndsWithEverything
BY DEF RunWatchInv, IsFinal, Covers, WatchEndsWithEverything

\* Whoever writes between the reads of a watch, one that ends with the run has sent all
\* that was stored when the run ended (services.py:284-301).
THEOREM WatchesEndWhole == ServicesSpec => []WatchEndsWithEverything
<1>1. ServicesInit => RunWatchInv
  BY RunWatchStarts DEF ServicesInit
<1>2. [ServicesNext]_vars => [RunWatchNext]_rvars
  BY DEF ServicesNext, vars
<1> QED
  BY <1>1, <1>2, RunWatchAdvances, WatchShowsAll, PTL DEF ServicesSpec

(***************************************************************************)
(* Paging.                                                                 *)
(***************************************************************************)

PagingTyped ==
  /\ listed \in {"sessions", "runs", "results"}
  /\ stamp \in [ListIds -> 0 .. MaxStamp] /\ IsFiniteSet(Rows(stamp))
  /\ pages \in {"first", "next", "over"}
  /\ token \in [stamp : Nat, id : Nat, offset : Nat]
  /\ read \in Seq(ListIds) /\ lasting \subseteq Rows(stamp)
  /\ backdated \in BOOLEAN
  /\ pages = "first" => read = <<>> /\ lasting = {} /\ token.offset = 0

IsRead(i) == \E n \in 1 .. Len(read) : read[n] = i
ReadOnce(i) == \E n \in 1 .. Len(read) : \A m \in 1 .. Len(read) : read[m] = i <=> m = n
HasTwin(i) == listed = "runs" /\ \E j \in Rows(stamp) : j # i /\ stamp[j] = stamp[i]

\* What is after the cursor has not been read, and the rest has been, once.
CursorFits ==
  listed # "results" /\ pages # "first" =>
    \A i \in lasting : \/ HasTwin(i)
                       \/ pages = "next" /\ After(i) /\ ~IsRead(i)
                       \/ ~(pages = "next" /\ After(i)) /\ ReadOnce(i)

\* What has been read by offset is the oldest of the list, as long as no row comes
\* before another.
OffsetFits ==
  listed = "results" /\ ~backdated =>
    /\ \A i, j \in Rows(stamp) : i # j => stamp[i] # stamp[j]
    /\ \A n \in 1 .. Len(read) : read[n] \in Rows(stamp)
    /\ \A m, n \in 1 .. Len(read) : read[m] = read[n] => m = n
    /\ \A n \in 1 .. Len(read), i \in Rows(stamp) : ~IsRead(i) => stamp[read[n]] < stamp[i]
    /\ pages # "over" => token.offset = Len(read)
    /\ pages = "over" => \A i \in lasting : IsRead(i)

PagingInv == PagingTyped /\ CursorFits /\ OffsetFits

LEMMA PagingStarts == PagingInit => PagingInv
<1> SUFFICES ASSUME PagingInit PROVE PagingInv
  OBVIOUS
<1>1. PagingTyped
  <2>1. stamp \in [ListIds -> 0 .. MaxStamp] /\ IsFiniteSet(Rows(stamp))
    BY DEF PagingInit
  <2>2. token \in [stamp : Nat, id : Nat, offset : Nat] /\ token.offset = 0
    BY DEF PagingInit
  <2>3. /\ listed \in {"sessions", "runs", "results"} /\ pages = "first"
        /\ read = <<>> /\ lasting = {} /\ backdated = FALSE
    BY DEF PagingInit
  <2>4. read \in Seq(ListIds)
    BY <2>3
  <2>5. lasting \subseteq Rows(stamp) /\ backdated \in BOOLEAN
    BY <2>3
  <2> QED
    BY <2>1, <2>2, <2>3, <2>4, <2>5 DEF PagingTyped
<1>2. read = <<>> /\ pages = "first" /\ token.offset = 0 /\ lasting = {}
  BY DEF PagingInit
<1>3. listed = "results" => \A i, j \in Rows(stamp) : i # j => stamp[i] # stamp[j]
  BY DEF PagingInit
<1>4. CursorFits /\ OffsetFits
  BY <1>2, <1>3 DEF CursorFits, OffsetFits
<1> QED
  BY <1>1, <1>4 DEF PagingInv

\* An answer of the query has each matching row in one place, and none before one
\* it comes after.
Sorted(order) ==
  /\ order \in Seq(ListIds) /\ Len(order) = Cardinality(Matching)
  /\ \A m \in 1 .. Len(order) : order[m] \in Matching
  /\ \A m, n \in 1 .. Len(order) : order[m] = order[n] => m = n
  /\ \A i \in Matching : \E m \in 1 .. Len(order) : order[m] = i
  /\ \A m, n \in 1 .. Len(order) : m < n => ~Before(order[n], order[m])

LEMMA AnswersAreSorted ==
  ASSUME PagingTyped, NEW order \in Orders
  PROVE  Sorted(order)
<1> DEFINE k == Cardinality(Matching)
<1>1. IsFiniteSet(Matching) /\ k \in Nat
  <2>1. Matching \in SUBSET Rows(stamp)
    BY DEF Matching
  <2>2. IsFiniteSet(Matching)
    BY <2>1, FS_Subset DEF PagingTyped
  <2> QED
    BY <2>2, FS_CardinalityType
<1>2. /\ order \in [1 .. k -> Matching]
      /\ \A m, n \in 1 .. k : m # n => order[m] # order[n]
      /\ \A m, n \in DOMAIN order : Before(order[m], order[n]) => m < n
  BY DEF Orders, SetToSeqs
<1>3. \A i \in Matching : \E m \in 1 .. k : order[m] = i
  <2>1. order \in Injection(1 .. k, Matching)
    BY <1>2 DEF Injection, IsInjective
  <2>2. Cardinality(1 .. k) = k
    BY <1>1, FS_Interval
  <2>3. order \in Surjection(1 .. k, Matching)
    BY <1>1, <2>1, <2>2, FS_Injection
  <2> QED
    BY <2>3 DEF Surjection
<1> HIDE DEF k
<1>4. order \in Seq(Matching) /\ Len(order) = k
  BY <1>1, <1>2
<1>5. Matching \subseteq ListIds
  BY DEF Matching, Rows
<1>6. order \in Seq(ListIds)
  BY <1>4, <1>5
<1>7. \A m, n \in 1 .. k : m < n => ~Before(order[n], order[m])
  BY <1>1, <1>2
<1> QED
  BY <1>2, <1>3, <1>4, <1>6, <1>7 DEF Sorted, k

\* The page is what the client has got in addition.
Adds(order, from, to) ==
  /\ from \in Nat /\ to \in from .. Len(order)
  /\ read' \in Seq(ListIds) /\ Len(read') = Len(read) + (to - from)
  /\ \A n \in 1 .. Len(read) : read'[n] = read[n]
  /\ \A n \in 1 .. to - from : read'[Len(read) + n] = order[from + n]

LEMMA JoinedRows ==
  ASSUME NEW s \in Seq(ListIds), NEW t \in Seq(ListIds)
  PROVE  /\ s \o t \in Seq(ListIds) /\ Len(s \o t) = Len(s) + Len(t)
         /\ \A n \in 1 .. Len(s) : (s \o t)[n] = s[n]
         /\ \A n \in 1 .. Len(t) : (s \o t)[Len(s) + n] = t[n]
OBVIOUS

LEMMA PageAdds ==
  ASSUME read \in Seq(ListIds), NEW order \in Seq(ListIds), NEW from \in Nat, NEW to \in from .. Len(order),
         read' = read \o SubSeq(order, from + 1, to)
  PROVE  Adds(order, from, to)
<1> DEFINE page == SubSeq(order, from + 1, to)
<1>1. to \in Nat /\ to <= Len(order) /\ from <= to /\ Len(order) \in Nat
  OBVIOUS
<1>2. /\ page \in Seq(ListIds) /\ Len(page) = to - from
      /\ \A n \in 1 .. to - from : page[n] = order[from + n]
  BY <1>1
<1>3. read' = read \o page
  OBVIOUS
<1> HIDE DEF page
<1>4. /\ read' \in Seq(ListIds) /\ Len(read') = Len(read) + (to - from)
      /\ \A n \in 1 .. Len(read) : read'[n] = read[n]
      /\ \A n \in 1 .. to - from : read'[Len(read) + n] = page[n]
  <2>1. /\ read \o page \in Seq(ListIds) /\ Len(read \o page) = Len(read) + Len(page)
        /\ \A n \in 1 .. Len(read) : (read \o page)[n] = read[n]
        /\ \A n \in 1 .. Len(page) : (read \o page)[Len(read) + n] = page[n]
    BY <1>2, JoinedRows
  <2> QED
    BY <1>2, <1>3, <2>1
<1> QED
  BY <1>1, <1>2, <1>4 DEF Adds

\* After a page, a row has been read if it was before or is on the page.
LEMMA ReadAfter ==
  ASSUME read \in Seq(ListIds), NEW order, NEW from, NEW to, Adds(order, from, to), Sorted(order), NEW i
  PROVE  /\ IsRead(i)' <=> IsRead(i) \/ \E m \in from + 1 .. to : order[m] = i
         /\ ReadOnce(i) /\ (\A m \in from + 1 .. to : order[m] # i) => ReadOnce(i)'
         /\ ~IsRead(i) /\ (\E m \in from + 1 .. to : order[m] = i) => ReadOnce(i)'
<1> DEFINE l == Len(read)
           k == to - from
<1>1. /\ l \in Nat /\ k \in Nat /\ from \in Nat /\ to \in Nat /\ Len(read') = l + k /\ to <= Len(order)
      /\ \A n \in 1 .. l : read'[n] = read[n]
      /\ \A n \in 1 .. k : read'[l + n] = order[from + n]
      /\ Len(order) \in Nat
  BY DEF Adds, Sorted
<1>2. \A m \in from + 1 .. to : m - from \in 1 .. k /\ from + (m - from) = m
  BY <1>1
<1>3. \A n \in 1 .. l + k : n \in 1 .. l \/ (n - l \in 1 .. k /\ l + (n - l) = n)
  BY <1>1
<1>4. \A n \in 1 .. k : from + n \in from + 1 .. to /\ l + n \in 1 .. l + k /\ l + n \notin 1 .. l
  BY <1>1
<1>5. 1 .. l \subseteq 1 .. l + k
  BY <1>1
<1>6. \A m, n \in from + 1 .. to : order[m] = order[n] => m = n
  BY <1>1 DEF Sorted
<1> HIDE DEF l, k
<1>7. \A n \in 1 .. l + k : n \in 1 .. l \/ \E m \in from + 1 .. to : m = from + (n - l) /\ read'[n] = order[m]
  <2> SUFFICES ASSUME NEW n \in 1 .. l + k, n \notin 1 .. l
               PROVE  \E m \in from + 1 .. to : m = from + (n - l) /\ read'[n] = order[m]
    OBVIOUS
  <2> DEFINE p == n - l
  <2>1. p \in 1 .. k /\ l + p = n
    BY <1>3
  <2> HIDE DEF p
  <2>2. from + p \in from + 1 .. to /\ read'[l + p] = order[from + p]
    BY <1>1, <1>4, <2>1
  <2> QED
    BY <2>1, <2>2 DEF p
<1>8. \A m \in from + 1 .. to : l + (m - from) \in 1 .. l + k /\ read'[l + (m - from)] = order[m]
  <2> SUFFICES ASSUME NEW m \in from + 1 .. to
               PROVE  l + (m - from) \in 1 .. l + k /\ read'[l + (m - from)] = order[m]
    OBVIOUS
  <2> DEFINE p == m - from
  <2>1. p \in 1 .. k /\ from + p = m
    BY <1>2
  <2> HIDE DEF p
  <2>2. l + p \in 1 .. l + k /\ read'[l + p] = order[from + p]
    BY <1>1, <1>4, <2>1
  <2> QED
    BY <2>1, <2>2 DEF p
<1>9. IsRead(i)' <=> IsRead(i) \/ \E m \in from + 1 .. to : order[m] = i
  <2>1. IsRead(i)' <=> \E n \in 1 .. l + k : read'[n] = i
    BY <1>1 DEF IsRead
  <2>2. IsRead(i) <=> \E n \in 1 .. l : read[n] = i
    BY DEF IsRead, l
  <2>3. ASSUME NEW n \in 1 .. l, read[n] = i PROVE \E m \in 1 .. l + k : read'[m] = i
    BY <1>1, <1>5, <2>3
  <2>4. ASSUME NEW n \in 1 .. l + k, read'[n] = i
        PROVE  (\E m \in 1 .. l : read[m] = i) \/ \E m \in from + 1 .. to : order[m] = i
    BY <1>1, <1>7, <2>4
  <2>5. ASSUME NEW m \in from + 1 .. to, order[m] = i PROVE \E n \in 1 .. l + k : read'[n] = i
    BY <1>8, <2>5
  <2> QED
    BY <2>1, <2>2, <2>3, <2>4, <2>5
<1>10. ASSUME ReadOnce(i), \A m \in from + 1 .. to : order[m] # i PROVE ReadOnce(i)'
  <2>1. PICK n \in 1 .. l : \A m \in 1 .. l : read[m] = i <=> m = n
    BY <1>10 DEF ReadOnce, l
  <2>2. \A m \in 1 .. l + k : read'[m] = i <=> m = n
    BY <1>1, <1>7, <1>10, <2>1
  <2>3. n \in 1 .. l + k
    BY <1>5
  <2>4. Len(read') = l + k
    BY <1>1
  <2> QED
    BY ONLY <2>2, <2>3, <2>4 DEF ReadOnce
<1>11. ASSUME ~IsRead(i), \E m \in from + 1 .. to : order[m] = i PROVE ReadOnce(i)'
  <2>1. PICK m \in from + 1 .. to : order[m] = i
    BY <1>11
  <2>2. \A n \in 1 .. l : read[n] # i
    BY <1>11 DEF IsRead, l
  <2>3. l + (m - from) \in 1 .. l + k /\ read'[l + (m - from)] = i
    BY <1>8, <2>1
  <2>4. ASSUME NEW n \in 1 .. l + k, read'[n] = i PROVE n = l + (m - from)
    <3>1. n \notin 1 .. l
      BY <1>1, <2>2, <2>4
    <3>2. PICK j \in from + 1 .. to : j = from + (n - l) /\ read'[n] = order[j]
      BY <1>7, <3>1
    <3>3. j = m
      BY <1>6, <2>1, <2>4, <3>2
    <3> QED
      BY <1>1, <3>2, <3>3
  <2> QED
    BY <1>1, <2>3, <2>4 DEF ReadOnce
<1> QED
  BY <1>9, <1>10, <1>11

\* A page has been turned: rows from + 1 to to of the query's answer.
Turned(order, from, to) ==
  /\ from = IF listed = "results" THEN token.offset ELSE 0
  /\ from \in Nat /\ to \in Nat /\ to <= Len(order) /\ (from < to \/ to = Len(order))
  /\ read' = read \o SubSeq(order, from + 1, to)
  /\ to < Len(order) => /\ pages' = "next"
                        /\ token' = [stamp |-> stamp[order[to]], id |-> order[to], offset |-> to]
  /\ to = Len(order) => pages' = "over" /\ token' = token
  /\ pages # "over" /\ lasting' = IF pages = "first" THEN Rows(stamp) ELSE lasting
  /\ UNCHANGED <<listed, stamp, backdated>>

LEMMA PageIsTurned ==
  ASSUME PagingTyped, ReadPage
  PROVE  \E order \in Orders : \E from, to : Sorted(order) /\ Turned(order, from, to)
<1> DEFINE from == IF listed = "results" THEN token.offset ELSE 0
           to(order) == IF from + PageSize < Len(order) THEN from + PageSize ELSE Len(order)
           page(order) == SubSeq(order, from + 1, to(order))
<1>1. PICK order \in Orders :
        /\ read' = read \o page(order)
        /\ IF to(order) < Len(order)
             THEN /\ pages' = "next"
                  /\ token' = [stamp |-> stamp[Last(page(order))], id |-> Last(page(order)),
                               offset |-> to(order)]
             ELSE pages' = "over" /\ UNCHANGED token
  BY DEF ReadPage
<1>2. Sorted(order)
  BY AnswersAreSorted
<1>3. /\ from \in Nat /\ to(order) \in Nat /\ to(order) <= Len(order)
      /\ from < to(order) \/ to(order) = Len(order)
      /\ to(order) < Len(order) => from < to(order)
  <2>1. from \in Nat
    BY DEF PagingTyped
  <2>2. Len(order) \in Nat
    BY <1>2 DEF Sorted
  <2> HIDE DEF from
  <2> QED
    BY <2>1, <2>2, PagingAssumption
<1>4. to(order) < Len(order) => Last(page(order)) = order[to(order)]
  <2>1. order \in Seq(ListIds)
    BY <1>2 DEF Sorted
  <2> DEFINE t == to(order)
  <2> HIDE DEF from, t
  <2>2. ASSUME from < t, from \in Nat, t \in Nat, t <= Len(order)
        PROVE  SubSeq(order, from + 1, t)[Len(SubSeq(order, from + 1, t))] = order[t]
    <3>1. Len(SubSeq(order, from + 1, t)) = t - from
      BY <2>1, <2>2
    <3>2. \A n \in 1 .. t - from : SubSeq(order, from + 1, t)[n] = order[from + n]
      BY <2>1, <2>2
    <3>3. t - from \in 1 .. t - from /\ from + (t - from) = t
      BY <2>2
    <3> QED
      BY <3>1, <3>2, <3>3
  <2>3. to(order) = t
    BY DEF t
  <2> QED
    BY <1>3, <2>2, <2>3 DEF Last
<1>5. /\ pages # "over" /\ lasting' = IF pages = "first" THEN Rows(stamp) ELSE lasting
      /\ UNCHANGED <<listed, stamp, backdated>>
  BY DEF ReadPage
<1>6. Turned(order, from, to(order))
  <2>1. to(order) < Len(order) => /\ pages' = "next"
                                  /\ token' = [stamp |-> stamp[order[to(order)]], id |-> order[to(order)],
                                               offset |-> to(order)]
    BY <1>1, <1>4
  <2>2. to(order) = Len(order) => pages' = "over" /\ token' = token
    BY <1>1, <1>3
  <2> QED
    BY <1>1, <1>3, <1>5, <2>1, <2>2 DEF Turned
<1> QED
  BY <1>2, <1>6

LEMMA TurningIsTyped ==
  ASSUME PagingTyped, NEW order, NEW from, NEW to, Sorted(order), Turned(order, from, to)
  PROVE  PagingTyped'
<1>1. /\ order \in Seq(ListIds) /\ Len(order) \in Nat
      /\ from \in Nat /\ to \in Nat /\ to <= Len(order)
  BY DEF Sorted, Turned
<1>2. read' \in Seq(ListIds)
  <2>1. SubSeq(order, from + 1, to) \in Seq(ListIds)
    BY <1>1
  <2> QED
    BY <2>1 DEF Turned, PagingTyped
<1>3. pages' \in {"next", "over"} /\ token' \in [stamp : Nat, id : Nat, offset : Nat]
  <2>1. CASE to < Len(order)
    <3>1. order[to] \in ListIds
      <4>1. from < to
        BY <1>1, <2>1 DEF Turned
      <4>2. to \in 1 .. Len(order)
        BY <1>1, <4>1
      <4> QED
        BY <1>1, <4>2
    <3>2. order[to] \in Nat /\ stamp[order[to]] \in Nat
      <4>1. stamp \in [ListIds -> 0 .. MaxStamp] /\ ListIds \subseteq Nat /\ MaxStamp \in Nat
        BY PagingAssumption DEF PagingTyped
      <4>2. \A i \in ListIds : stamp[i] \in 0 .. MaxStamp
        BY ONLY <4>1
      <4>3. \A i \in ListIds : i \in Nat /\ stamp[i] \in Nat
        BY ONLY <4>1, <4>2
      <4> QED
        BY ONLY <3>1, <4>3
    <3>3. /\ pages' = "next"
          /\ token' = [stamp |-> stamp[order[to]], id |-> order[to], offset |-> to]
      BY <2>1 DEF Turned
    <3> QED
      BY <1>1, <3>2, <3>3
  <2>2. CASE to = Len(order)
    BY <2>2 DEF Turned, PagingTyped
  <2> QED
    BY <1>1, <2>1, <2>2
<1>4. lasting' \subseteq Rows(stamp') /\ IsFiniteSet(Rows(stamp'))
  BY DEF Turned, PagingTyped
<1> QED
  BY <1>2, <1>3, <1>4 DEF Turned, PagingTyped

LEMMA CursorTurns ==
  ASSUME PagingInv, NEW order, NEW from, NEW to, Sorted(order), Turned(order, from, to)
  PROVE  CursorFits'
<1> SUFFICES ASSUME listed # "results", NEW i \in lasting',
                    ~HasTwin(i)
             PROVE  \/ pages' = "next" /\ After(i)' /\ ~IsRead(i)'
                    \/ ~(pages' = "next" /\ After(i)') /\ ReadOnce(i)'
  BY DEF CursorFits, Turned, HasTwin, Rows
<1>1. /\ PagingTyped /\ CursorFits /\ from = 0 /\ to \in Nat /\ to <= Len(order) /\ Len(order) \in Nat
      /\ i \in Rows(stamp) /\ i \in ListIds /\ pages # "over"
      /\ stamp' = stamp /\ listed' = listed
      /\ listed \in {"sessions", "runs"}
  <2>1. lasting' \subseteq Rows(stamp)
    BY DEF PagingInv, PagingTyped, Turned
  <2> QED
    BY <2>1 DEF PagingInv, PagingTyped, Turned, Sorted, Rows
<1>2. Adds(order, from, to)
  <2>1. order \in Seq(ListIds) /\ read \in Seq(ListIds) /\ to \in from .. Len(order) /\ from \in Nat
    BY <1>1 DEF Sorted, PagingTyped
  <2> QED
    BY <2>1, PageAdds DEF Turned
<1>3. /\ IsRead(i)' <=> IsRead(i) \/ \E m \in from + 1 .. to : order[m] = i
      /\ ReadOnce(i) /\ (\A m \in from + 1 .. to : order[m] # i) => ReadOnce(i)'
      /\ ~IsRead(i) /\ (\E m \in from + 1 .. to : order[m] = i) => ReadOnce(i)'
  <2>1. read \in Seq(ListIds)
    BY <1>1 DEF PagingTyped
  <2> QED
    BY <2>1, <1>2, ReadAfter
<1>4. pages' = "next" => /\ to < Len(order) /\ to \in 1 .. Len(order)
                         /\ token'.stamp = stamp[order[to]] /\ token'.id = order[to]
  BY <1>1 DEF Turned
<1>5. \A j \in Rows(stamp) : stamp[j] \in Nat /\ j \in Nat
  BY <1>1, PagingAssumption DEF PagingTyped, Rows
<1>6. pages' \in {"next", "over"} /\ (pages' = "over" => to = Len(order))
  BY <1>1 DEF Turned
<1>7. \A m \in 1 .. Len(order) : order[m] \in Matching /\ order[m] \in Rows(stamp)
  BY DEF Sorted, Matching
\* i is one of the rows the query looks for.
<1>8. CASE i \in Matching
  <2>1. PICK m \in 1 .. Len(order) : order[m] = i
    BY <1>8 DEF Sorted
  <2>2. ~IsRead(i)
    <3>1. CASE pages = "first"
      BY <3>1, <1>1 DEF IsRead, PagingTyped
    <3>2. CASE pages = "next"
      <4>1. i \in lasting /\ After(i)
        BY <1>8, <3>2 DEF Matching, Turned
      <4> QED
        BY <1>1, <3>2, <4>1 DEF CursorFits
    <3> QED
      BY <1>1, <3>1, <3>2 DEF PagingTyped
  <2>3. CASE m <= to
    <3>1. m \in from + 1 .. to
      BY <1>1, <2>3
    <3>2. ReadOnce(i)'
      BY <1>3, <2>1, <2>2, <3>1
    <3>3. pages' = "next" => ~After(i)'
      <4> SUFFICES ASSUME pages' = "next" PROVE ~After(i)'
        OBVIOUS
      <4> DEFINE last == order[to]
      <4>1. last \in Rows(stamp) /\ last \in Nat /\ stamp[last] \in Nat /\ stamp[i] \in Nat /\ i \in Nat
        BY <1>1, <1>4, <1>5, <1>7
      <4>2. i = last \/ ~Before(last, i)
        BY <1>1, <1>4, <2>1, <2>3 DEF Sorted
      <4>3. listed = "runs" /\ i # last => stamp[i] # stamp[last]
        BY <4>1 DEF HasTwin
      <4> HIDE DEF last
      <4>4. token'.stamp = stamp[last] /\ token'.id = last
        BY <1>4 DEF last
      <4>5. CASE listed = "sessions"
        BY <1>1, <4>1, <4>2, <4>4, <4>5 DEF Before, After
      <4>6. CASE listed = "runs"
        BY <1>1, <4>1, <4>2, <4>3, <4>4, <4>6 DEF Before, After
      <4> QED
        BY <1>1, <4>5, <4>6
    <3> QED
      BY <3>2, <3>3
  <2>4. CASE ~(m <= to)
    <3>1. \A n \in from + 1 .. to : order[n] # i
      BY <1>1, <2>1, <2>4 DEF Sorted
    <3>2. ~IsRead(i)'
      BY <1>3, <2>2, <3>1
    <3>3. pages' = "next"
      BY <1>1, <1>6, <2>4
    <3>4. After(i)'
      <4> DEFINE last == order[to]
      <4>1. last \in Rows(stamp) /\ last \in Nat /\ stamp[last] \in Nat /\ stamp[i] \in Nat /\ i \in Nat
        BY <1>1, <1>4, <1>5, <1>7, <3>3
      <4>2. i # last /\ ~Before(i, last)
        BY <1>1, <1>4, <2>1, <2>4, <3>3 DEF Sorted
      <4>3. listed = "runs" => stamp[i] # stamp[last]
        BY <4>1, <4>2 DEF HasTwin
      <4> HIDE DEF last
      <4>4. token'.stamp = stamp[last] /\ token'.id = last
        BY <1>4, <3>3 DEF last
      <4>5. CASE listed = "sessions"
        BY <1>1, <4>1, <4>2, <4>4, <4>5 DEF Before, After
      <4>6. CASE listed = "runs"
        BY <1>1, <4>1, <4>2, <4>3, <4>4, <4>6 DEF Before, After
      <4> QED
        BY <1>1, <4>5, <4>6
    <3> QED
      BY <3>2, <3>3, <3>4
  <2> QED
    BY <2>3, <2>4
\* i was read before.
<1>9. CASE i \notin Matching
  <2>1. pages = "next" /\ ~After(i) /\ i \in lasting
    BY <1>1, <1>9 DEF Matching, PagingTyped, Turned
  <2>2. ReadOnce(i)
    BY <1>1, <2>1 DEF CursorFits
  <2>3. \A m \in from + 1 .. to : order[m] # i
    BY <1>1, <1>7, <1>9
  <2>4. pages' = "next" => ~After(i)'
    <3> SUFFICES ASSUME pages' = "next" PROVE ~After(i)'
      OBVIOUS
    <3> DEFINE last == order[to]
    <3>1. last \in Rows(stamp) /\ last \in Nat /\ stamp[last] \in Nat /\ stamp[i] \in Nat /\ i \in Nat
      BY <1>1, <1>4, <1>5, <1>7
    <3>2. After(last)
      BY <1>4, <1>7, <2>1 DEF Matching
    <3>3. token.stamp \in Nat /\ token.id \in Nat
      BY <1>1 DEF PagingTyped
    <3> HIDE DEF last
    <3>4. token'.stamp = stamp[last] /\ token'.id = last
      BY <1>4 DEF last
    <3>5. CASE listed = "sessions"
      BY <1>1, <2>1, <3>1, <3>2, <3>3, <3>4, <3>5 DEF After
    <3>6. CASE listed = "runs"
      BY <1>1, <2>1, <3>1, <3>2, <3>3, <3>4, <3>6 DEF After
    <3> QED
      BY <1>1, <3>5, <3>6
  <2> QED
    BY <1>3, <2>2, <2>3, <2>4
<1> QED
  BY <1>8, <1>9

LEMMA PrefixSize ==
  ASSUME NEW s \in Seq(ListIds), NEW k \in Nat, k <= Len(s),
         \A m, n \in 1 .. k : s[m] = s[n] => m = n
  PROVE  /\ IsFiniteSet({s[n] : n \in 1 .. k})
         /\ Cardinality({s[n] : n \in 1 .. k}) = k
<1> DEFINE f == [n \in 1 .. k |-> s[n]]
           T == {s[n] : n \in 1 .. k}
<1>1. f \in Injection(1 .. k, T) /\ f \in Surjection(1 .. k, T)
  BY DEF Injection, IsInjective, Surjection
<1>2. IsFiniteSet(1 .. k) /\ Cardinality(1 .. k) = k
  BY FS_Interval
<1> HIDE DEF f, T
<1>3. IsFiniteSet(T) /\ Cardinality(T) = Cardinality(1 .. k)
  BY <1>1, <1>2, FS_Surjection
<1> QED
  BY <1>2, <1>3 DEF T

\* The rows read so far are those the query's answer has first.
LEMMA ReadIsPrefix ==
  ASSUME PagingInv, NEW order, Sorted(order), pages # "over", listed = "results", ~backdated
  PROVE  /\ Matching = Rows(stamp) /\ Len(read) <= Len(order)
         /\ \A i \in Rows(stamp) : IsRead(i) <=> \E m \in 1 .. Len(read) : order[m] = i
<1> DEFINE l == Len(read)
           P == {read[n] : n \in 1 .. l}
           Q == {order[n] : n \in 1 .. l}
<1>1. /\ PagingTyped /\ read \in Seq(ListIds) /\ l \in Nat /\ order \in Seq(ListIds)
      /\ Len(order) \in Nat /\ IsFiniteSet(Rows(stamp))
      /\ \A i \in Rows(stamp) : stamp[i] \in Nat
  BY DEF PagingInv, PagingTyped, Sorted, Rows
<1>2. /\ \A i, j \in Rows(stamp) : i # j => stamp[i] # stamp[j]
      /\ \A n \in 1 .. l : read[n] \in Rows(stamp)
      /\ \A m, n \in 1 .. l : read[m] = read[n] => m = n
      /\ \A n \in 1 .. l, i \in Rows(stamp) : ~IsRead(i) => stamp[read[n]] < stamp[i]
  BY DEF PagingInv, OffsetFits
<1>3. Matching = Rows(stamp)
  BY DEF Matching, After
<1>4. IsFiniteSet(P) /\ Cardinality(P) = l
  <2> HIDE DEF l
  <2>1. l <= Len(read)
    BY <1>1 DEF l
  <2> QED
    BY <1>1, <1>2, <2>1, PrefixSize
<1>5. P \in SUBSET Rows(stamp)
  BY <1>2
<1>6. l <= Len(order)
  <2> HIDE DEF P, l
  <2>1. Cardinality(P) <= Cardinality(Rows(stamp))
    BY <1>1, <1>5, FS_Subset
  <2> QED
    BY <1>3, <1>4, <2>1 DEF Sorted
<1>7. IsFiniteSet(Q) /\ Cardinality(Q) = l
  <2>1. \A m, n \in 1 .. l : order[m] = order[n] => m = n
    BY <1>1, <1>6 DEF Sorted
  <2> HIDE DEF l
  <2> QED
    BY <1>1, <1>6, <2>1, PrefixSize
<1>8. \A x \in P, y \in Rows(stamp) \ P : stamp[x] < stamp[y]
  BY <1>2 DEF IsRead
<1>9. ASSUME NEW x \in Q, NEW y \in Rows(stamp) \ Q PROVE stamp[x] < stamp[y]
  <2>1. PICK m \in 1 .. l : x = order[m]
    OBVIOUS
  <2>2. PICK n \in 1 .. Len(order) : y = order[n]
    BY <1>3 DEF Sorted
  <2>3. m < n /\ m \in 1 .. Len(order)
    BY <1>1, <1>6, <2>2
  <2>4. ~Before(y, x) /\ x \in Rows(stamp) /\ x # y
    BY <1>3, <2>1, <2>2, <2>3 DEF Sorted
  <2>5. stamp[x] # stamp[y] /\ stamp[x] \in Nat /\ stamp[y] \in Nat
    BY <1>1, <1>2, <2>4
  <2> QED
    BY <2>4, <2>5 DEF Before
<1>10. Q \subseteq Rows(stamp)
  BY <1>1, <1>3, <1>6 DEF Sorted
<1> HIDE DEF P, Q, l
<1>11. P \subseteq Q \/ Q \subseteq P
  <2> SUFFICES ASSUME NEW x \in P \ Q, NEW y \in Q \ P PROVE FALSE
    OBVIOUS
  <2>1. stamp[x] < stamp[y] /\ stamp[y] < stamp[x] /\ stamp[x] \in Nat /\ stamp[y] \in Nat
    BY <1>1, <1>5, <1>8, <1>9, <1>10
  <2> QED
    BY <2>1
<1>12. P = Q
  BY <1>4, <1>7, <1>11, FS_Subset
<1>13. \A i : IsRead(i) <=> i \in P
  BY DEF IsRead, P, l
<1> QED
  BY <1>3, <1>6, <1>12, <1>13 DEF Q, l

LEMMA OffsetTurns ==
  ASSUME PagingInv, NEW order, NEW from, NEW to, Sorted(order), Turned(order, from, to)
  PROVE  OffsetFits'
<1> SUFFICES ASSUME listed = "results", ~backdated PROVE OffsetFits'
  BY DEF OffsetFits, Turned
<1>1. /\ PagingTyped /\ read \in Seq(ListIds) /\ pages # "over" /\ from = Len(read) /\ from \in Nat
      /\ to \in Nat /\ to <= Len(order) /\ Len(order) \in Nat
      /\ stamp' = stamp /\ listed' = listed /\ Rows(stamp') = Rows(stamp)
      /\ \A i \in Rows(stamp) : stamp[i] \in Nat
  BY DEF PagingInv, PagingTyped, Sorted, Rows, OffsetFits, Turned
<1>2. /\ Matching = Rows(stamp) /\ from <= Len(order)
      /\ \A i \in Rows(stamp) : IsRead(i) <=> \E m \in 1 .. from : order[m] = i
  <2>1. /\ Matching = Rows(stamp) /\ Len(read) <= Len(order)
        /\ \A i \in Rows(stamp) : IsRead(i) <=> \E m \in 1 .. Len(read) : order[m] = i
    BY <1>1, ReadIsPrefix
  <2> QED
    BY <1>1, <2>1
<1>3. /\ \A i, j \in Rows(stamp) : i # j => stamp[i] # stamp[j]
      /\ \A n \in 1 .. from : read[n] \in Rows(stamp)
      /\ \A m, n \in 1 .. from : read[m] = read[n] => m = n
  BY <1>1 DEF PagingInv, OffsetFits
<1>4. from <= to
  BY <1>1, <1>2 DEF Turned
<1>5. Adds(order, from, to)
  <2>1. order \in Seq(ListIds) /\ to \in from .. Len(order)
    BY <1>1, <1>4 DEF Sorted
  <2> QED
    BY <1>1, <2>1, PageAdds DEF Turned
<1>6. ASSUME NEW i
      PROVE  /\ IsRead(i)' <=> IsRead(i) \/ \E m \in from + 1 .. to : order[m] = i
             /\ ReadOnce(i) /\ (\A m \in from + 1 .. to : order[m] # i) => ReadOnce(i)'
             /\ ~IsRead(i) /\ (\E m \in from + 1 .. to : order[m] = i) => ReadOnce(i)'
  BY <1>1, <1>5, ReadAfter
<1>7. \A m \in 1 .. to : m \in 1 .. from \/ m \in from + 1 .. to
  BY <1>1, <1>4
<1>8. from + 1 .. to \subseteq 1 .. Len(order) /\ 1 .. from \subseteq 1 .. Len(order)
      /\ 1 .. to \subseteq 1 .. Len(order) /\ 1 .. from \subseteq 1 .. to /\ from + 1 .. to \subseteq 1 .. to
  BY <1>1, <1>2, <1>4
<1>9. \A m \in 1 .. Len(order) : order[m] \in Rows(stamp)
  BY <1>2 DEF Sorted
<1>10. \A i \in Rows(stamp) : IsRead(i)' <=> \E m \in 1 .. to : order[m] = i
  BY <1>2, <1>6, <1>7, <1>8
<1>11. \A i : IsRead(i)' => i \in Rows(stamp)
  <2>1. \A i : IsRead(i) => i \in Rows(stamp)
    BY <1>1, <1>3 DEF IsRead
  <2> QED
    BY <1>6, <1>8, <1>9, <2>1
<1>12. ASSUME NEW i \in Rows(stamp), IsRead(i)' PROVE ReadOnce(i)'
  <2>1. CASE IsRead(i)
    <3>1. ReadOnce(i)
      BY <1>1, <1>3, <2>1 DEF IsRead, ReadOnce
    <3>2. PICK n \in 1 .. from : order[n] = i
      BY <1>2, <2>1
    <3>3. \A m \in from + 1 .. to : order[m] # i
      <4> SUFFICES ASSUME NEW m \in from + 1 .. to, order[m] = i PROVE FALSE
        OBVIOUS
      <4>1. m = n
        BY <1>8, <3>2 DEF Sorted
      <4> QED
        BY <1>1, <4>1
    <3> QED
      BY <1>6, <3>1, <3>3
  <2>2. CASE ~IsRead(i)
    BY <1>6, <1>12, <2>2
  <2> QED
    BY <2>1, <2>2
<1>13. \A n \in 1 .. Len(read') :
         read'[n] \in Rows(stamp) /\ \E m \in 1 .. to : order[m] = read'[n]
  <2>1. \A i : (\E n \in 1 .. Len(read') : read'[n] = i) =>
           i \in Rows(stamp) /\ \E m \in 1 .. to : order[m] = i
    BY <1>10, <1>11 DEF IsRead
  <2> QED
    BY <2>1
<1>14. \A m, n \in 1 .. Len(read') : read'[m] = read'[n] => m = n
  <2>1. \A i \in Rows(stamp) : (\E n \in 1 .. Len(read') : read'[n] = i) =>
           \E n \in 1 .. Len(read') : \A m \in 1 .. Len(read') : read'[m] = i <=> m = n
    BY <1>12 DEF IsRead, ReadOnce
  <2> QED
    BY <1>13, <2>1
<1>15. ASSUME NEW n \in 1 .. Len(read'), NEW i \in Rows(stamp), ~IsRead(i)'
       PROVE  stamp[read'[n]] < stamp[i]
  <2>1. PICK m \in 1 .. to : order[m] = read'[n]
    BY <1>13
  <2>2. PICK p \in 1 .. Len(order) : order[p] = i
    BY <1>2 DEF Sorted
  <2>3. p \notin 1 .. to
    BY <1>10, <1>15, <2>2
  <2>4. m < p
    BY <1>1, <2>3
  <2>5. ~Before(i, order[m])
    BY <1>8, <2>2, <2>4 DEF Sorted
  <2>6. order[m] \in Rows(stamp) /\ order[m] # i
    BY <1>8, <1>9, <1>10, <1>15
  <2>7. stamp[order[m]] # stamp[i] /\ stamp[order[m]] \in Nat /\ stamp[i] \in Nat
    BY <1>1, <1>3, <2>6
  <2> QED
    BY <2>1, <2>5, <2>7 DEF Before
<1>16. pages' # "over" => token'.offset = Len(read')
  <2>1. Len(read') = to
    BY <1>1, <1>5 DEF Adds
  <2> QED
    BY <1>1, <2>1 DEF Turned
<1>17. pages' = "over" => \A i \in lasting' : IsRead(i)'
  <2>1. pages' = "over" => to = Len(order)
    BY <1>1 DEF Turned
  <2>2. lasting' \subseteq Rows(stamp)
    BY <1>1 DEF Turned, PagingTyped
  <2>3. \A i \in Rows(stamp) : \E m \in 1 .. Len(order) : order[m] = i
    BY <1>2 DEF Sorted
  <2> QED
    BY <1>10, <2>1, <2>2, <2>3
<1> QED
  BY <1>1, <1>3, <1>13, <1>14, <1>15, <1>16, <1>17 DEF OffsetFits

LEMMA PageKeeps ==
  ASSUME PagingInv, ReadPage
  PROVE  PagingInv'
<1>1. PagingTyped
  BY DEF PagingInv
<1>2. PICK order \in Orders : \E from, to : Sorted(order) /\ Turned(order, from, to)
  BY <1>1, PageIsTurned
<1>3. PICK from, to : Sorted(order) /\ Turned(order, from, to)
  BY <1>2
<1>4. PagingTyped'
  BY <1>1, <1>3, TurningIsTyped
<1>5. CursorFits'
  BY <1>3, CursorTurns
<1>6. OffsetFits'
  BY <1>3, OffsetTurns
<1> QED
  BY <1>4, <1>5, <1>6 DEF PagingInv

LEMMA ComingKeeps ==
  ASSUME PagingInv, NEW i \in ListIds, NEW t \in 1 .. MaxStamp, RowComes(i, t)
  PROVE  PagingInv'
<1>1. /\ PagingTyped /\ CursorFits /\ OffsetFits
      /\ stamp[i] = 0 /\ i \notin lasting /\ stamp' = [stamp EXCEPT ![i] = t]
      /\ UNCHANGED <<listed, pages, token, read, lasting>>
      /\ backdated' = (backdated \/ \E j \in Rows(stamp) : t <= stamp[j])
      /\ t \in Nat \ {0} /\ stamp \in [ListIds -> 0 .. MaxStamp]
  BY PagingAssumption DEF PagingInv, RowComes, PagingTyped
<1>2. /\ stamp' \in [ListIds -> 0 .. MaxStamp] /\ stamp'[i] = t
      /\ \A j \in ListIds : j # i => stamp'[j] = stamp[j]
  BY <1>1, PagingAssumption
<1>3. Rows(stamp') = Rows(stamp) \union {i} /\ i \notin Rows(stamp)
  BY <1>1, <1>2 DEF Rows
<1>4. PagingTyped'
  <2>1. IsFiniteSet(Rows(stamp'))
    <3>1. IsFiniteSet(Rows(stamp))
      BY <1>1 DEF PagingTyped
    <3> QED
      BY <1>3, <3>1, FS_AddElement
  <2>2. lasting' \subseteq Rows(stamp') /\ backdated' \in BOOLEAN
    BY <1>1, <1>3 DEF PagingTyped
  <2> QED
    BY <1>1, <1>2, <2>1, <2>2 DEF PagingTyped
<1>5. CursorFits'
  <2> SUFFICES ASSUME listed # "results", pages # "first", NEW j \in lasting
               PROVE  \/ HasTwin(j)'
                      \/ pages = "next" /\ After(j)' /\ ~IsRead(j)'
                      \/ ~(pages = "next" /\ After(j)') /\ ReadOnce(j)'
    BY <1>1 DEF CursorFits
  <2>1. j \in Rows(stamp) /\ j \in ListIds /\ j # i
    BY <1>1 DEF PagingTyped, Rows
  <2>2. stamp'[j] = stamp[j]
    BY <1>2, <2>1
  <2>3. HasTwin(j) => HasTwin(j)'
    <3> SUFFICES ASSUME listed = "runs", NEW k \in Rows(stamp), k # j, stamp[k] = stamp[j]
                 PROVE  HasTwin(j)'
      BY DEF HasTwin
    <3>1. k \in Rows(stamp') /\ stamp'[k] = stamp[k]
      BY <1>2, <1>3 DEF Rows
    <3>2. listed' = "runs" /\ k # j /\ stamp'[k] = stamp'[j]
      BY <1>1, <2>2, <3>1
    <3> QED
      BY <3>1, <3>2 DEF HasTwin
  <2>4. (After(j)' <=> After(j)) /\ (IsRead(j)' <=> IsRead(j)) /\ (ReadOnce(j)' <=> ReadOnce(j))
    BY <1>1, <2>2 DEF After, IsRead, ReadOnce
  <2>5. \/ HasTwin(j)
        \/ pages = "next" /\ After(j) /\ ~IsRead(j)
        \/ ~(pages = "next" /\ After(j)) /\ ReadOnce(j)
    BY <1>1 DEF CursorFits
  <2> QED
    BY ONLY <2>3, <2>4, <2>5
<1>6. OffsetFits'
  <2> SUFFICES ASSUME listed = "results", ~backdated' PROVE OffsetFits'
    BY <1>1 DEF OffsetFits
  <2>1. ~backdated /\ \A j \in Rows(stamp) : stamp[j] \in Nat /\ stamp[j] < t
    <3>1. \A j \in Rows(stamp) : stamp[j] \in Nat
      BY <1>1, PagingAssumption DEF Rows
    <3>2. ~backdated /\ \A j \in Rows(stamp) : ~(t <= stamp[j])
      BY <1>1
    <3>3. t \in Nat
      BY <1>1
    <3> QED
      BY <3>1, <3>2, <3>3
  <2>2. /\ \A j, k \in Rows(stamp) : j # k => stamp[j] # stamp[k]
        /\ \A n \in 1 .. Len(read) : read[n] \in Rows(stamp)
        /\ \A m, n \in 1 .. Len(read) : read[m] = read[n] => m = n
        /\ \A n \in 1 .. Len(read), j \in Rows(stamp) : ~IsRead(j) => stamp[read[n]] < stamp[j]
        /\ pages # "over" => token.offset = Len(read)
        /\ pages = "over" => \A j \in lasting : IsRead(j)
    BY <1>1, <2>1 DEF OffsetFits
  <2>3. \A j \in Rows(stamp) : stamp'[j] = stamp[j] /\ j # i
    BY <1>2, <1>3 DEF Rows
  <2>4. \A j : IsRead(j)' <=> IsRead(j)
    BY <1>1 DEF IsRead
  <2>5. \A j, k \in Rows(stamp') : j # k => stamp'[j] # stamp'[k]
    <3> SUFFICES ASSUME NEW j \in Rows(stamp'), NEW k \in Rows(stamp'), j # k
                 PROVE  stamp'[j] # stamp'[k]
      OBVIOUS
    <3>1. CASE j = i
      BY <1>2, <1>3, <2>1, <2>3, <3>1
    <3>2. CASE k = i
      BY <1>2, <1>3, <2>1, <2>3, <3>2
    <3>3. CASE j # i /\ k # i
      BY <1>3, <2>2, <2>3, <3>3
    <3> QED
      BY <3>1, <3>2, <3>3
  <2>6. \A n \in 1 .. Len(read), j \in Rows(stamp') : ~IsRead(j) => stamp'[read[n]] < stamp'[j]
    <3> SUFFICES ASSUME NEW n \in 1 .. Len(read), NEW j \in Rows(stamp'), ~IsRead(j)
                 PROVE  stamp'[read[n]] < stamp'[j]
      OBVIOUS
    <3>1. read[n] \in Rows(stamp) /\ stamp'[read[n]] = stamp[read[n]]
      BY <2>2, <2>3
    <3>2. CASE j = i
      BY <1>2, <2>1, <3>1, <3>2
    <3>3. CASE j # i
      BY <1>3, <2>2, <2>3, <3>1, <3>3
    <3> QED
      BY <3>2, <3>3
  <2>7. \A n \in 1 .. Len(read), j \in Rows(stamp') : ~IsRead(j)' => stamp'[read[n]] < stamp'[j]
    BY <2>4, <2>6
  <2>8. /\ \A n \in 1 .. Len(read) : read[n] \in Rows(stamp')
        /\ pages = "over" => \A j \in lasting : IsRead(j)'
    BY <1>3, <2>2, <2>4
  <2>9. UNCHANGED <<pages, token, read, lasting>>
    BY <1>1
  <2> QED
    BY <2>2, <2>5, <2>7, <2>8, <2>9 DEF OffsetFits
<1> QED
  BY <1>4, <1>5, <1>6 DEF PagingInv

LEMMA GoingKeeps ==
  ASSUME PagingInv, NEW i \in ListIds, RowGoes(i)
  PROVE  PagingInv'
<1>1. /\ PagingTyped /\ CursorFits /\ listed = "sessions"
      /\ stamp' = [stamp EXCEPT ![i] = 0] /\ lasting' = lasting \ {i}
      /\ UNCHANGED <<listed, pages, token, read, backdated>>
      /\ stamp \in [ListIds -> 0 .. MaxStamp]
  BY DEF PagingInv, RowGoes, PagingTyped
<1>2. /\ stamp' \in [ListIds -> 0 .. MaxStamp] /\ stamp'[i] = 0
      /\ \A j \in ListIds : j # i => stamp'[j] = stamp[j]
  BY <1>1, PagingAssumption
<1>3. Rows(stamp') = Rows(stamp) \ {i}
  BY <1>1, <1>2 DEF Rows
<1>4. PagingTyped'
  <2>1. IsFiniteSet(Rows(stamp'))
    <3>1. IsFiniteSet(Rows(stamp))
      BY <1>1 DEF PagingTyped
    <3> QED
      BY <1>3, <3>1, FS_RemoveElement
  <2>2. lasting' \subseteq Rows(stamp') /\ (lasting = {} => lasting' = {})
    BY <1>1, <1>3 DEF PagingTyped
  <2> QED
    BY <1>1, <1>2, <2>1, <2>2 DEF PagingTyped
<1>5. CursorFits'
  <2> SUFFICES ASSUME pages # "first", NEW j \in lasting \ {i}
               PROVE  \/ pages = "next" /\ After(j)' /\ ~IsRead(j)'
                      \/ ~(pages = "next" /\ After(j)') /\ ReadOnce(j)'
    BY <1>1 DEF CursorFits
  <2>1. stamp'[j] = stamp[j]
    BY <1>1, <1>2 DEF PagingTyped, Rows
  <2>2. ~HasTwin(j)
    BY <1>1 DEF HasTwin
  <2>3. (After(j)' <=> After(j)) /\ (IsRead(j)' <=> IsRead(j)) /\ (ReadOnce(j)' <=> ReadOnce(j))
    BY <1>1, <2>1 DEF After, IsRead, ReadOnce
  <2> QED
    BY <1>1, <2>2, <2>3 DEF CursorFits
<1>6. OffsetFits'
  BY <1>1 DEF OffsetFits
<1> QED
  BY <1>4, <1>5, <1>6 DEF PagingInv

LEMMA PagingAdvances == PagingInv /\ [PagingNext]_gvars => PagingInv'
<1> SUFFICES ASSUME PagingInv, [PagingNext]_gvars PROVE PagingInv'
  OBVIOUS
<1>1. CASE ReadPage
  BY <1>1, PageKeeps
<1>2. CASE \E i \in ListIds : RowGoes(i) \/ \E t \in 1 .. MaxStamp : RowComes(i, t)
  BY <1>2, GoingKeeps, ComingKeeps
<1>3. CASE UNCHANGED gvars
  <2>1. UNCHANGED <<listed, stamp, pages, token, read, lasting, backdated>>
    BY <1>3 DEF gvars
  <2>2. PagingTyped'
    BY <2>1 DEF PagingInv, PagingTyped, Rows
  <2>3. \A i : /\ HasTwin(i)' <=> HasTwin(i)
               /\ After(i)' <=> After(i)
               /\ IsRead(i)' <=> IsRead(i)
               /\ ReadOnce(i)' <=> ReadOnce(i)
    BY <2>1 DEF HasTwin, After, IsRead, ReadOnce, Rows
  <2>4. CursorFits'
    BY <2>1, <2>3 DEF PagingInv, CursorFits
  <2>5. OffsetFits'
    BY <2>1, <2>3 DEF PagingInv, OffsetFits, Rows
  <2> QED
    BY <2>2, <2>4, <2>5 DEF PagingInv
<1> QED
  BY <1>1, <1>2, <1>3 DEF PagingNext

LEMMA PagingShowsAll == PagingInv => EachRowOnce
<1> SUFFICES ASSUME PagingInv, pages = "over", NEW i \in lasting,
                    ~(listed = "runs" /\ \E j \in Rows(stamp) : j # i /\ stamp[j] = stamp[i]),
                    ~(listed = "results" /\ backdated)
             PROVE  Cardinality({n \in DOMAIN read : read[n] = i}) = 1
  BY DEF EachRowOnce
<1>1. read \in Seq(ListIds) /\ listed \in {"sessions", "runs", "results"} /\ backdated \in BOOLEAN
  BY DEF PagingInv, PagingTyped
<1>2. ReadOnce(i)
  <2>1. CASE listed = "results"
    <3>1. IsRead(i) /\ \A m, n \in 1 .. Len(read) : read[m] = read[n] => m = n
      BY <2>1 DEF PagingInv, OffsetFits
    <3> QED
      BY <3>1 DEF IsRead, ReadOnce
  <2>2. CASE listed # "results"
    BY <2>2 DEF PagingInv, CursorFits, HasTwin
  <2> QED
    BY <2>1, <2>2
<1>3. PICK n \in 1 .. Len(read) : \A m \in 1 .. Len(read) : read[m] = i <=> m = n
  BY <1>2 DEF ReadOnce
<1>4. {m \in DOMAIN read : read[m] = i} = {n}
  BY <1>1, <1>3
<1> QED
  BY <1>4, FS_Singleton

\* Who reads a list to its end has got every row that stayed, once, whatever came and
\* went between the pages, but for runs of one instant and results stamped out of
\* order (services.py:117-131, 243-275).
THEOREM ListsAreReadWhole == ServicesSpec => []EachRowOnce
<1>1. ServicesInit => PagingInv
  BY PagingStarts DEF ServicesInit
<1>2. [ServicesNext]_vars => [PagingNext]_gvars
  BY DEF ServicesNext, vars
<1> QED
  BY <1>1, <1>2, PagingAdvances, PagingShowsAll, PTL DEF ServicesSpec

-----------------------------------------------------------------------------
(* The readers together.                                                   *)

ReadersInv == RunWatchInv /\ PagingInv /\ RoutesInv

LEMMA StepsOfReaders ==
  [ServicesNext]_vars => [RunWatchNext]_rvars /\ [PagingNext]_gvars /\ [SessionRoutesNext]_hvars
BY DEF ServicesNext, vars

\* Who follows a run to its end or a list to its last page has what there was to
\* see, once; a session picked for evaluation is scored for what it is, or
\* answered for, a URL serves what it was given out for, and a debug bundle loads
\* back without harm to sessions at work (services.py:117-131, 243-275,
\* streaming_routes.py:149-315, debug_routes.py:228-270).
THEOREM ReadersAreServed == ServicesSpec => []ReadersMissNothing
<1>1. ServicesInit => ReadersInv
  BY RunWatchStarts, PagingStarts, RoutesStart DEF ServicesInit, ReadersInv
<1>2. ReadersInv /\ [ServicesNext]_vars => ReadersInv'
  BY StepsOfReaders, RunWatchAdvances, PagingAdvances, RoutesAdvance DEF ReadersInv
<1>3. ReadersInv => ReadersMissNothing
  BY WatchShowsAll, PagingShowsAll, RoutesKeepTheirWord DEF ReadersInv, ReadersMissNothing
<1> QED
  BY <1>1, <1>2, <1>3, PTL DEF ServicesSpec

(***************************************************************************)
(* Types.                                                                  *)
(***************************************************************************)

\* Nothing is built from, or marked with, requirements that were never published.
PublishedFits ==
  /\ published \in 1 .. MaxPublished /\ script \subseteq Refs
  /\ venv.deps <= published /\ venv.mark <= published
  /\ \A e \in Evals : thread[e].want <= published

LEMMA PublishedStarts == EvaluatorsInit => PublishedFits
BY EvaluatorsAssumption DEF EvaluatorsInit, PublishedFits, Absent, NoThread

\* A version that was published stays so.
LEMMA NewerIsPublished ==
  ASSUME EnvironmentTyped, PublishedFits, published' \in published .. MaxPublished,
         script' \subseteq Refs,
         venv'.deps \in {0, venv.deps, requirements},
         venv'.mark = venv.mark \/ venv'.mark = 0 \/ \E e \in Evals : venv'.mark = thread[e].want,
         \A e \in Evals : thread'[e].want \in {0, thread[e].want, requirements}
  PROVE  PublishedFits'
<1>1. /\ published \in Nat \ {0} /\ published' \in Nat /\ published <= published' /\ published' <= MaxPublished
      /\ requirements \in Nat /\ requirements <= published
  BY EvaluatorsAssumption DEF EnvironmentTyped, PublishedFits
<1>2. /\ venv.deps \in Nat /\ venv.mark \in Nat /\ venv.deps <= published /\ venv.mark <= published
      /\ \A e \in Evals : thread[e].want \in Nat /\ thread[e].want <= published
  BY DEF EnvironmentTyped, PublishedFits, Environment, Thread
<1>3. published' \in 1 .. MaxPublished
  BY <1>1, EvaluatorsAssumption
<1>4. venv'.deps <= published'
  BY <1>1, <1>2
<1>5. venv'.mark <= published'
  BY <1>1, <1>2
<1>6. ASSUME NEW e \in Evals PROVE thread'[e].want <= published'
  BY <1>1, <1>2
<1> QED
  BY <1>3, <1>4, <1>5, <1>6 DEF PublishedFits

LEMMA PublishedAdvances ==
  ASSUME EvaluatorsInv, PublishedFits, [EvaluatorsNext]_evars
  PROVE  PublishedFits'
<1>1. /\ EnvironmentTyped /\ published \in Nat /\ published \in published .. MaxPublished
      /\ script \subseteq Refs
  BY EvaluatorsAssumption DEF EvaluatorsInv, EnvironmentTyped, PublishedFits
<1>2. /\ venv \in Environment /\ eval \in [Evals -> Evaluation] /\ thread \in [Evals -> Thread]
  BY <1>1 DEF EnvironmentTyped
<1> USE DEF cache, bounds
<1>3. ASSUME NEW e \in Evals,
             StartEval(e) \/ IndexAnswers(e) \/ RequirementsArrive(e) \/ ChildEnds(e) \/ OrphanEnds(e)
      PROVE  PublishedFits'
  <2>1. UNCHANGED <<published, script, venv, thread>>
    BY <1>3 DEF StartEval, IndexAnswers, RequirementsArrive, ChildEnds, OrphanEnds
  <2> QED
    BY <2>1 DEF PublishedFits
<1>4. ASSUME NEW e \in Evals, FileArrives(e) PROVE PublishedFits'
  <2>1. UNCHANGED <<published, venv, thread>> /\ script' \subseteq script \union {eval[e].ref}
    BY <1>4 DEF FileArrives
  <2>2. eval[e].ref \in Refs
    BY <1>2 DEF Evaluation
  <2> QED
    BY <2>1, <2>2 DEF PublishedFits
<1>5. ASSUME NEW e \in Evals, EnsureVenv(e) \/ CheckVenv(e) \/ UseVenv(e) \/ CancelEval(e) PROVE PublishedFits'
  <2>1. UNCHANGED <<published, script, venv>>
    BY <1>5 DEF EnsureVenv, CheckVenv, UseVenv, CancelEval
  <2>2. ASSUME NEW d \in Evals PROVE thread'[d].want \in {0, thread[d].want, requirements}
    <3>1. CASE EnsureVenv(e) \/ UseVenv(e)
      BY <1>2, <3>1 DEF EnsureVenv, UseVenv, NoThread
    <3>2. CASE CheckVenv(e)
      <4> DEFINE t == IF requirements = 0 THEN [NoThread EXCEPT !.at = "done"]
                      ELSE IF IsVenvValid THEN [NoThread EXCEPT !.at = "done", !.python = "venv"]
                      ELSE [at |-> "create", want |-> requirements, python |-> "venv"]
      <4>1. t.want \in {0, requirements}
        BY DEF NoThread
      <4>2. thread' = [thread EXCEPT ![e].at = "failed"] \/ thread' = [thread EXCEPT ![e] = t]
        BY <3>2 DEF CheckVenv
      <4> HIDE DEF t
      <4> QED
        BY <1>2, <4>1, <4>2 DEF Thread
    <3>3. CASE CancelEval(e)
      <4>1. thread' = thread \/ thread' = [thread EXCEPT ![e] = NoThread]
        BY <3>3 DEF CancelEval
      <4> QED
        BY <1>2, <4>1 DEF NoThread
    <3> QED
      BY <1>5, <3>1, <3>2, <3>3
  <2> QED
    BY <1>1, <2>1, <2>2, NewerIsPublished
<1>6. ASSUME NEW e \in Evals, CreateVenv(e) \/ InstallDeps(e) \/ MarkVenv(e) PROVE PublishedFits'
  <2>1. UNCHANGED <<published, script>>
    BY <1>6 DEF CreateVenv, InstallDeps, MarkVenv
  <2>2. ASSUME NEW d \in Evals PROVE thread'[d].want = thread[d].want
    BY <1>2, <1>6 DEF CreateVenv, InstallDeps, MarkVenv, Thread
  <2>3. /\ venv'.deps \in {0, venv.deps, requirements}
        /\ venv'.mark = venv.mark \/ venv'.mark = 0 \/ venv'.mark = thread[e].want
    BY <1>2, <1>6 DEF CreateVenv, InstallDeps, MarkVenv, Absent, Environment
  <2> QED
    BY <1>1, <2>1, <2>2, <2>3, NewerIsPublished
<1>7. CASE IndexExpires \/ Publish
  <2>1. published' \in published .. MaxPublished /\ UNCHANGED <<script, venv, thread>>
    BY <1>1, <1>7, EvaluatorsAssumption DEF IndexExpires, Publish
  <2> QED
    BY <1>1, <2>1, NewerIsPublished
<1>8. CASE ServerDies
  <2>1. UNCHANGED <<published, script, venv>> /\ \A e \in Evals : thread'[e].want = 0
    BY <1>8 DEF ServerDies, NoThread
  <2> QED
    BY <1>1, <2>1, NewerIsPublished
<1>9. CASE UNCHANGED evars
  BY <1>9 DEF evars, PublishedFits
<1> QED
  BY <1>3, <1>4, <1>5, <1>6, <1>7, <1>8, <1>9
     DEF EvaluatorsNext, EvaluatorsStep, EvalStep, ThreadStep

LEMMA EvaluatorsAreTyped == EvaluatorsInv /\ PublishedFits => EvaluatorsTypeOK
<1> SUFFICES ASSUME EvaluatorsInv, PublishedFits PROVE EvaluatorsTypeOK
  OBVIOUS
<1>1. /\ published \in Nat /\ requirements \in 0 .. published /\ venvLock \in Evals \union {Nobody}
      /\ venv \in Environment /\ venv.deps <= published /\ venv.mark <= published
  BY DEF EvaluatorsInv, EnvironmentTyped, PublishedFits
<1>2. venv \in [python : BOOLEAN, deps : 0 .. published, mark : 0 .. published]
  BY <1>1 DEF Environment
<1> QED
  BY <1>1, <1>2 DEF EvaluatorsTypeOK, PublishedFits

\* The wait for the database ends by its deadline.
DialFits ==
  /\ env \in Environments
  /\ running \subseteq {"otlpGrpc", "otlpHttp", "manager", "pool", "worker", "rpc", "http"}
  /\ viewers \subseteq {"sse", "rpc"}
  /\ dial.now \in 0 .. Deadline /\ dial.delay \in 1 .. MaxDelay
  /\ process \in {"starting", "serving", "exited"}

LEMMA DeadlineIsPositive == ASSUME env \in Environments PROVE Deadline \in Nat \ {0}
<1>1. env.timeout \in Nat
  BY ServerAssumption DEF Environments
<1> QED
  BY <1>1, ServerAssumption DEF Deadline

LEMMA DialStarts == ServerInit => DialFits
<1> SUFFICES ASSUME ServerInit PROVE DialFits
  OBVIOUS
<1>1. env \in Environments /\ Deadline \in Nat \ {0}
  BY DeadlineIsPositive DEF ServerInit
<1> QED
  BY <1>1, ServerAssumption DEF ServerInit, DialFits, FreshDial

LEMMA DialGoesOn ==
  ASSUME DialFits, NEW next, Dial(next)
  PROVE  dial'.now \in 0 .. Deadline /\ dial'.delay \in 1 .. MaxDelay
<1>1. /\ Deadline \in Nat \ {0} /\ dial.now \in 0 .. Deadline /\ dial.delay \in 1 .. MaxDelay
      /\ MaxDelay \in Nat \ {0}
  BY DeadlineIsPositive, ServerAssumption DEF DialFits
<1>2. CASE dial' = FreshDial
  BY <1>1, <1>2 DEF FreshDial
<1>3. CASE UNCHANGED dial
  BY <1>1, <1>3
<1>4. CASE /\ dial.now < Deadline
           /\ dial' = [now |-> dial.now + LeastOf(dial.delay, Deadline - dial.now),
                       delay |-> LeastOf(2 * dial.delay, MaxDelay)]
  <2>1. dial'.now = dial.now + LeastOf(dial.delay, Deadline - dial.now) /\ dial'.delay = LeastOf(2 * dial.delay, MaxDelay)
    BY <1>4
  <2>2. PICK d \in Nat, n \in Nat, m \in 1 .. MaxDelay : d = Deadline /\ n = dial.now /\ m = dial.delay
    BY <1>1
  <2>3. dial'.now = n + LeastOf(m, d - n) /\ dial'.delay = LeastOf(2 * m, MaxDelay) /\ n < d
    BY <1>4, <2>1, <2>2
  <2>4. n + LeastOf(m, d - n) \in 0 .. d
    BY <1>1, <2>3 DEF LeastOf
  <2>5. LeastOf(2 * m, MaxDelay) \in 1 .. MaxDelay
    BY <1>1 DEF LeastOf
  <2> QED
    BY <2>2, <2>3, <2>4, <2>5
<1> QED
  BY <1>1, <1>2, <1>3, <1>4 DEF Dial

LEMMA DialAdvances ==
  ASSUME DialFits, [ServerNext]_nvars
  PROVE  DialFits'
<1> USE DEF Lives, Starts, Stops, Quiet, outside
<1>1. UNCHANGED env
  BY DEF ServerNext, ServerStep, StartReceiver, StartOtlpHttp, StartManager, Connect, OpenPool, CheckSchema,
         StartWorker, StartRpc, Listen, StopReceivers, StopListening, ConnectionsEnd, CloseWatchers,
         StopRpc, StopWorker, ClosePool, StopManager, Exit, ReachabilityChanges, ViewerComes, ViewerLeaves,
         Signal, nvars
<1>2. Deadline' = Deadline
  BY <1>1 DEF Deadline
<1>3. CASE Connect \/ OpenPool
  <2>1. dial'.now \in 0 .. Deadline /\ dial'.delay \in 1 .. MaxDelay
    BY <1>3, DialGoesOn DEF Connect, OpenPool
  <2>2. UNCHANGED <<viewers, process>> /\ (UNCHANGED running \/ running' = running \union {"pool"})
    BY <1>3 DEF Connect, OpenPool
  <2> QED
    BY <1>1, <1>2, <2>1, <2>2 DEF DialFits
<1>4. CASE ~(Connect \/ OpenPool)
  <2>1. UNCHANGED dial
    BY <1>4 DEF ServerNext, ServerStep, StartReceiver, StartOtlpHttp, StartManager, CheckSchema,
         StartWorker, StartRpc, Listen, StopReceivers, StopListening, ConnectionsEnd, CloseWatchers,
         StopRpc, StopWorker, ClosePool, StopManager, Exit, ReachabilityChanges, ViewerComes, ViewerLeaves,
         Signal, nvars
  <2>2. running' \subseteq {"otlpGrpc", "otlpHttp", "manager", "pool", "worker", "rpc", "http"}
    BY <1>4 DEF DialFits, ServerNext, ServerStep, StartReceiver, StartOtlpHttp, StartManager, CheckSchema,
         StartWorker, StartRpc, ServeRpc, Listen, StopReceivers, StopListening, ConnectionsEnd, CloseWatchers,
         StopRpc, StopWorker, ClosePool, StopManager, Exit, ReachabilityChanges, ViewerComes, ViewerLeaves,
         Signal, nvars
  <2>3. viewers' \subseteq {"sse", "rpc"}
    BY <1>4 DEF DialFits, ServerNext, ServerStep, StartReceiver, StartOtlpHttp, StartManager, CheckSchema,
         StartWorker, StartRpc, Listen, StopReceivers, StopListening, ConnectionsEnd, CloseWatchers,
         StopRpc, StopWorker, ClosePool, StopManager, Exit, ReachabilityChanges, ViewerComes, ViewerLeaves,
         Signal, nvars
  <2>4. process' \in {"starting", "serving", "exited"}
    BY <1>4 DEF DialFits, ServerNext, ServerStep, StartReceiver, StartOtlpHttp, StartManager, CheckSchema,
         StartWorker, StartRpc, Listen, StopReceivers, StopListening, ConnectionsEnd, CloseWatchers,
         StopRpc, StopWorker, ClosePool, StopManager, Exit, ReachabilityChanges, ViewerComes, ViewerLeaves,
         Signal, nvars
  <2> QED
    BY <1>1, <1>2, <2>1, <2>2, <2>3, <2>4 DEF DialFits
<1> QED
  BY <1>3, <1>4

\* A watch has sent and read no more than what was stored.
ReadsFit ==
  \A r \in ResultIds : fresh[r] \in 0 .. stored[r] /\ seen[r] \in 0 .. fresh[r]

LEMMA ReadsStart == RunWatchInit => ReadsFit
BY DEF RunWatchInit, NoResults, ReadsFit

LEMMA ReadsAdvance ==
  ASSUME RunWatchInv, ReadsFit, [RunWatchNext]_rvars
  PROVE  ReadsFit'
<1>1. \A r \in ResultIds : stored[r] \in Nat /\ fresh[r] \in Nat /\ seen[r] \in Nat
  BY DEF RunWatchInv, RunWatchTyped, Writes
<1>2. CASE UpsertResults
  <2>1. UNCHANGED reader /\ \A r \in ResultIds : stored'[r] \in Nat /\ stored'[r] >= stored[r]
    BY <1>1, <1>2 DEF UpsertResults
  <2> QED
    BY <1>1, <2>1 DEF ReadsFit, reader
<1>3. CASE ClaimRun \/ FinishRow \/ ReadRow \/ WatcherLeaves \/ UNCHANGED rvars
  <2>1. UNCHANGED <<stored, fresh, seen>>
    BY <1>3 DEF ClaimRun, FinishRow, ReadRow, WatcherLeaves, reader, rvars
  <2> QED
    BY <2>1 DEF ReadsFit
<1>4. CASE ReadResults
  <2>1. fresh' = stored /\ UNCHANGED <<stored, seen>>
    BY <1>4 DEF ReadResults
  <2>2. ASSUME NEW r \in ResultIds PROVE stored[r] \in 0 .. stored[r] /\ seen[r] \in 0 .. stored[r]
    BY <1>1 DEF ReadsFit
  <2> QED
    BY <2>1, <2>2 DEF ReadsFit
<1>5. CASE SendChanges
  <2>1. seen' = fresh /\ UNCHANGED <<stored, fresh>>
    BY <1>5 DEF SendChanges
  <2> QED
    BY <1>1, <2>1 DEF ReadsFit
<1> QED
  BY <1>2, <1>3, <1>4, <1>5 DEF RunWatchNext, WatchStep

\* The registry's map of traces never outgrows its size.
MapFits == Len(known) <= TraceMapSize

LEMMA MapStarts == SdkExportInit => MapFits
BY SdkExportAssumption DEF SdkExportInit, MapFits

LEMMA MapStaysSmall ==
  ASSUME known \in Seq(Entries), MapFits, NEW t \in TraceIds, NEW s \in EnteredSessions \union {NoSession}
  PROVE  Len(Remember(t, s)) <= TraceMapSize
<1> DEFINE rest == IF Maps(known, t) THEN RemoveAt(known, PlaceOf(known, t)) ELSE known
           entry == [trace |-> t, session |-> s]
<1>1. CASE s = NoSession
  BY <1>1 DEF Remember, MapFits
<1>2. CASE s # NoSession
  <2>1. rest \in Seq(Entries) /\ Len(rest) <= Len(known)
    <3>1. CASE Maps(known, t)
      <4>1. PlaceOf(known, t) \in 1 .. Len(known)
        BY <3>1 DEF Maps, PlaceOf
      <4>2. /\ RemoveAt(known, PlaceOf(known, t)) \in Seq(Entries)
            /\ Len(RemoveAt(known, PlaceOf(known, t))) = Len(known) - 1
        BY <4>1, Removed
      <4> QED
        BY <3>1, <4>2
    <3>2. CASE ~Maps(known, t)
      BY <3>2
    <3> QED
      BY <3>1, <3>2
  <2>2. entry \in Entries
    BY <1>2 DEF Entries
  <2>3. MovedToEnd(t, s) = Append(rest, entry)
    BY DEF MovedToEnd
  <2> HIDE DEF rest, entry
  <2>4. /\ MovedToEnd(t, s) \in Seq(Entries) /\ MovedToEnd(t, s) # <<>>
        /\ Len(MovedToEnd(t, s)) <= TraceMapSize + 1
    BY <2>1, <2>2, <2>3, SdkExportAssumption DEF MapFits
  <2>5. Len(Tail(MovedToEnd(t, s))) <= TraceMapSize
    BY <2>4, SdkExportAssumption
  <2>6. \/ Len(MovedToEnd(t, s)) <= TraceMapSize /\ Remember(t, s) = MovedToEnd(t, s)
        \/ Remember(t, s) = Tail(MovedToEnd(t, s))
    BY <1>2, <2>4, SdkExportAssumption DEF Remember
  <2> QED
    BY <2>5, <2>6
<1> QED
  BY <1>1, <1>2

LEMMA MapAdvances ==
  ASSUME SdkInv, MapFits, [SdkExportNext]_xvars
  PROVE  MapFits'
<1>1. ASSUME NEW k \in SpanIds, NEW c \in Contexts, NEW t \in TraceIds, StartSpan(k, c, t) PROVE MapFits'
  <2> DEFINE owner == IF processors = <<>> THEN NoSession ELSE Resolve(c, t)
  <2>1. known' = Remember(t, owner)
    BY <1>1 DEF StartSpan
  <2>2. owner \in EnteredSessions \union {NoSession}
    BY ResolvesToEntered
  <2> HIDE DEF owner
  <2> QED
    BY <2>1, <2>2, MapStaysSmall DEF SdkInv, RegistryFits, MapFits
<1>2. CASE UNCHANGED known
  BY <1>2 DEF MapFits
<1> QED
  BY <1>1, <1>2 DEF SdkExportNext, OpenSession, LeaveSession, PreflightFails, FlushSession, SpawnTask,
                    EndSpan, PostBatch, xvars

LEMMA SdkIsTyped == SdkInv /\ MapFits => SdkExportTypeOK
<1> SUFFICES ASSUME SdkInv, MapFits PROVE SdkExportTypeOK
  OBVIOUS
<1>1. \A s \in Sessions : sdk[s].at \in SdkStates
  BY DEF SdkInv, SdkTyped, SdkSessions
<1>2. \A c \in Contexts : current[c] \in Owners
  BY DEF SdkInv, SdkTyped
<1> QED
  BY <1>1, <1>2 DEF SdkInv, SdkTyped, SdkStates, MapFits, SdkExportTypeOK

LEMMA SessionsAreTyped == RoutesInv => SessionRoutesTypeOK
<1> SUFFICES ASSUME RoutesInv PROVE SessionRoutesTypeOK
  OBVIOUS
<1>1. /\ live \in Seq(LiveSessions) /\ ended \in Seq(Ids) /\ CompleteOnes(live, ended) /\ Len(live) <= MaxLive
  BY DEF RoutesInv, StoreFits, SessionsTyped
<1>2. Range(ended) = {ended[j] : j \in 1 .. Len(ended)}
  BY <1>1 DEF Range
<1>3. Range(ended) = {live[n].id : n \in {m \in DOMAIN live : live[m].complete}}
  BY <1>1, <1>2 DEF CompleteOnes
<1>4. request.at \in RequestStages
  BY DEF RoutesInv, RequestFits, Requests
<1> QED
  BY <1>1, <1>3, <1>4 DEF RoutesInv, RequestStages, SessionRoutesTypeOK

LEMMA SinksAreTyped == SinksInv => SinksTypeOK
<1> SUFFICES ASSUME SinksInv PROVE SinksTypeOK
  OBVIOUS
<1>1. ASSUME NEW s \in SinkSet, NEW e \in Events
      PROVE  delivery[s][e].at \in ShareStates /\ delivery[s][e].posts \in 0 .. MaxPosts - 1
  <2>1. delivery[s][e] \in SinkShare
    BY DEF SinksInv, SinksTyped
  <2> QED
    BY <2>1 DEF SinkShare
<1> QED
  BY <1>1 DEF SinksInv, SinksTyped, SinksTypeOK, Share, ShareStates

LEMMA MemoryIsTyped == MemoryInv => MemoryTypeOK
<1> SUFFICES ASSUME MemoryInv PROVE MemoryTypeOK
  OBVIOUS
<1>1. \A r \in RunIds : kept[r].attempt \in 0 .. MaxTries /\ results[r] \in {"none", "partial", "all"}
  BY DEF MemoryInv, MemoryTyped, MemoryRow
<1>2. \A l \in Loops : loop[l].at \in Ended \union {"idle", "fetching", "evaluating"}
  BY DEF MemoryInv, MemoryTyped, Ended
<1> QED
  BY <1>1, <1>2 DEF MemoryTypeOK

\* The migrations table exists or does not.
LEMMA TableAdvances == table \in BOOLEAN /\ [MigratorNext]_mvars => table' \in BOOLEAN
BY DEF MigratorNext, Step, Die, Begin, AcquireLock, LockTimeout, ReadStatus, DeleteRow, InsertRow, ApplyUp,
       ApplyDown, ApplyFails, Unlock, db, mvars

TypesInv ==
  /\ part \in Parts /\ MarkersInv /\ table \in BOOLEAN /\ PublishedFits /\ DialFits
  /\ StreamInv /\ SinksInv /\ SdkInv /\ MapFits
  /\ ReadersInv /\ ReadsFit

\* Every part's variables have their types: whatever the server and the SDK go
\* through, a row has a status there is, an environment is built from requirements
\* that were published, a wait for the database keeps to its deadline, a watch has
\* sent no more than was stored, the map of traces and the store of sessions keep to
\* their sizes and the queue for eviction holds the complete sessions (Services).
THEOREM TypesHold == ServicesSpec => []ServicesTypeOK
<1>1. ServicesInit => TypesInv
  <2> SUFFICES ASSUME ServicesInit PROVE TypesInv
    OBVIOUS
  <2>1. MarkersInv /\ table \in BOOLEAN
    BY MigratorStarts, EvaluatorsStart, ServerStarts, MemoryStarts DEF ServicesInit, MarkersInv, MigratorInit
  <2>2. PublishedFits /\ DialFits /\ MapFits /\ ReadsFit
    BY PublishedStarts, DialStarts, MapStarts, ReadsStart DEF ServicesInit
  <2>3. StreamInv /\ SinksInv /\ SdkInv /\ ReadersInv
    BY StreamStarts, SinksStart, SdkStarts, RunWatchStarts, PagingStarts, RoutesStart
       DEF ServicesInit, ReadersInv
  <2> QED
    BY <2>1, <2>2, <2>3 DEF ServicesInit, TypesInv
<1>2. TypesInv /\ [ServicesNext]_vars => TypesInv'
  <2> SUFFICES ASSUME TypesInv, [ServicesNext]_vars PROVE TypesInv'
    OBVIOUS
  <2>1. /\ [EvalStreamNext]_svars /\ [SinksNext]_kvars /\ [SdkExportNext]_xvars /\ UNCHANGED part
    BY DEF ServicesNext, vars
  <2>2. MarkersInv'
    BY StepsOfParts, MigratorAdvances, EvaluatorsAdvance, ServerAdvances, MemoryAdvances
       DEF TypesInv, MarkersInv
  <2>3. table' \in BOOLEAN /\ PublishedFits' /\ DialFits'
    BY StepsOfParts, TableAdvances, PublishedAdvances, DialAdvances DEF TypesInv, MarkersInv
  <2>4. StreamInv' /\ SinksInv' /\ SdkInv' /\ MapFits'
    BY <2>1, StreamAdvances, SinksAdvance, SdkAdvances, MapAdvances DEF TypesInv
  <2>5. ReadersInv' /\ ReadsFit'
    BY StepsOfReaders, RunWatchAdvances, PagingAdvances, RoutesAdvance, ReadsAdvance DEF TypesInv, ReadersInv
  <2> QED
    BY <2>1, <2>2, <2>3, <2>4, <2>5 DEF TypesInv
<1>3. TypesInv => ServicesTypeOK
  <2> SUFFICES ASSUME TypesInv PROVE ServicesTypeOK
    OBVIOUS
  <2>1. MigratorTypeOK
    <3>1. \A p \in Procs : call[p].at \in Stages
      BY DEF TypesInv, MarkersInv, MigratorInv, LockDiscipline, Call
    <3> QED
      BY <3>1 DEF TypesInv, MarkersInv, MigratorInv, LockDiscipline, WorkTyped, Stages, MigratorTypeOK
  <2>2. EvaluatorsTypeOK /\ ServerTypeOK /\ MemoryTypeOK
    BY EvaluatorsAreTyped, MemoryIsTyped DEF TypesInv, MarkersInv, DialFits, ServerTypeOK
  <2>3. EvalStreamTypeOK
    BY DEF TypesInv, StreamInv, StreamTyped, GroupStates, EvalStreamTypeOK
  <2>4. SinksTypeOK /\ SdkExportTypeOK /\ SessionRoutesTypeOK
    BY SinksAreTyped, SdkIsTyped, SessionsAreTyped DEF TypesInv, ReadersInv
  <2>5. RunWatchTypeOK /\ PagingTypeOK
    BY DEF TypesInv, ReadersInv, RunWatchInv, RunWatchTyped, ReadsFit, RunWatchTypeOK,
           PagingInv, PagingTyped, PagingTypeOK
  <2> QED
    BY <2>1, <2>2, <2>3, <2>4, <2>5 DEF ServicesTypeOK, TypesInv
<1> QED
  BY <1>1, <1>2, <1>3, PTL DEF ServicesSpec
=============================================================================
