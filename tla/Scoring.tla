------------------------------- MODULE Scoring -------------------------------
(***************************************************************************)
(* What an evaluation says of its traces: traces grouped into              *)
(* conversations (genai/grouping.py), a golden case chosen for each        *)
(* (genai/matching.py), every evaluator applied (runner.py,                *)
(* builtin_metrics.py, custom_evaluators.py), its results stored as they   *)
(* come and again at the end, counted (run/result_builder.py) and told as  *)
(* events (evaluation_events.py).  Which score an evaluator gives is a     *)
(* choice.  Turns are the texts users began them with, 0 for none.         *)
(*                                                                         *)
(* A job is [traces, cases, given, evaluators, groupBy, key]: traces       *)
(* [id, start, spans, turns, readable], spans [id, start, name, conv,      *)
(* rconv, case], cases [id, turns, rubrics, ...], evaluators [name, kind,  *)
(* expects, rubric, criteria, cred].                                       *)
(***************************************************************************)
EXTENDS Integers, Sequences, FiniteSets, SequencesExt

CONSTANT Jobs

VARIABLES
  job,
  groups,     \* [key, members], once the traces are grouped
  state,      \* of each group: "waiting", "scoring", "standing" or "raised"
  match,      \* the golden case of each group, 0 for none, and how it was found
  todo,       \* evaluators to run, of each group
  results,    \* the metric results of each group
  rows,       \* persisted: the status of a group and an evaluator
  events,     \* emitted: group, evaluator, turn
  summary     \* counts, and the groups that failed; once the run is over

jvars == <<job, groups, state, match, todo, results, rows, events, summary>>

-----------------------------------------------------------------------------
(* Grouping.                                                               *)

\* identity_key over the spans in start order, the trace itself when there is none.
FirstNamed(spans, field) ==
  LET named == {n \in DOMAIN spans : spans[n][field] # 0}
  IN  IF named = {} THEN 0 ELSE spans[CHOOSE n \in named : \A m \in named : n <= m][field]
ByStart(spans) ==
  SortSeq(spans, LAMBDA s, t : s.start < t.start \/ (s.start = t.start /\ s.id < t.id))
IdentityKey(spans) ==
  LET found == SelectSeq(<<<<"name", FirstNamed(spans, "name")>>,
                           <<"conversation", FirstNamed(spans, "conv")>>,
                           <<"conversation", FirstNamed(spans, "rconv")>>>>, LAMBDA key : key[2] # 0)
  IN  IF found = <<>> THEN <<"trace", 0>> ELSE Head(found)
\* Mutant: in the order the spans came.
KeyAsArrived(trace) ==
  LET key == IdentityKey(trace.spans) IN IF key[1] = "trace" THEN <<"trace", trace.id>> ELSE key
ConversationKey(trace) ==
  LET key == IdentityKey(ByStart(trace.spans)) IN IF key[1] = "trace" THEN <<"trace", trace.id>> ELSE key

\* group_traces.  Keys are texts, of whatever kind: 1 names the same group as 1.
ByTraceStart(traces) == SortSeq(traces, LAMBDA t, u : t.start < u.start)
KeyOf(trace, together) == IF together THEN ConversationKey(trace)[2] ELSE trace.id
GroupTraces(traces, together) ==
  LET keys == FoldLeft(LAMBDA seen, t : IF Contains(seen, KeyOf(t, together)) THEN seen
                                        ELSE Append(seen, KeyOf(t, together)), <<>>, traces)
  IN  [n \in DOMAIN keys |->
         [key |-> keys[n],
          members |-> ByTraceStart(SelectSeq(traces, LAMBDA t : KeyOf(t, together) = keys[n]))]]
EvaluationGroups(j) ==
  GroupTraces(j.traces,
    IF j.groupBy # "auto" THEN j.groupBy = "conversation"
    ELSE \/ \E t \in Range(j.traces) : ConversationKey(t)[1] = "name"
         \/ \E c \in Range(j.cases) : Len(c.turns) > 1)
GroupsOfJob(j) ==
  IF j.key # 0 THEN <<[key |-> j.key, members |-> ByTraceStart(j.traces)]>> ELSE EvaluationGroups(j)

TurnsOfGroup(g) == FlattenSeq([n \in DOMAIN g.members |-> g.members[n].turns])

-----------------------------------------------------------------------------
(* The golden case.                                                        *)

NoCase == [case |-> 0, method |-> "none"]
Expected(j) == SelectSeq(j.cases, LAMBDA c : c.turns # <<>>)
ExplicitCase(g) ==
  LET named == FlattenSeq([n \in DOMAIN g.members |-> SelectSeq(g.members[n].spans, LAMBDA s : s.case # 0)])
  IN  IF named = <<>> THEN 0 ELSE Head(named).case

Candidates(cases, text) == {n \in DOMAIN cases : cases[n].turns[1].text = text}
SameLength(cases, among, turns) == {n \in among : Len(cases[n].turns) = Len(turns)}
Chosen(n, method) == [case |-> n, method |-> method]
ByText(cases, among, turns) ==
  IF Cardinality(among) = 1 THEN Chosen(CHOOSE n \in among : TRUE, "user_text")
  ELSE IF Cardinality(SameLength(cases, among, turns)) = 1
    THEN Chosen(CHOOSE n \in SameLength(cases, among, turns) : TRUE, "user_text")
  ELSE NoCase
\* select_case; single: there is one case and one group.
SelectCase(cases, turns, explicit, single) ==
  IF explicit # 0
    THEN IF \E n \in DOMAIN cases : cases[n].id = explicit
           THEN Chosen(CHOOSE n \in DOMAIN cases :
                  cases[n].id = explicit /\ \A m \in 1 .. n - 1 : cases[m].id # explicit, "explicit")
           ELSE NoCase
  ELSE IF Head(turns) = 0 \/ Candidates(cases, Head(turns)) = {}
    THEN IF single THEN Chosen(1, "single_case") ELSE NoCase
  ELSE ByText(cases, Candidates(cases, Head(turns)), turns)
MatchOfGroup(j, g, count) ==
  IF ~j.given THEN NoCase
  ELSE SelectCase(Expected(j), TurnsOfGroup(g), ExplicitCase(g), Len(Expected(j)) = 1 /\ count = 1)

-----------------------------------------------------------------------------
(* One evaluator on one group: the metric results it may give.  A result   *)
(* is [name, error, status, scored, per], per the scores of single turns.  *)

Result(name, status, scored, per) ==
  [name |-> name, error |-> FALSE, status |-> status, scored |-> scored, per |-> per]
Errored(name) == [name |-> name, error |-> TRUE, status |-> "", scored |-> FALSE, per |-> 0]

\* align: turns present on one side only are not scored.
Aligned(turns, golden) ==
  IF golden = <<>> \/ Len(turns) < Len(golden) THEN Len(turns) ELSE Len(golden)

\* attach_case_rubrics: those of the evaluator, of the case and of the turn, of
\* the evaluator's type.
Typed(rubrics, type) == SelectSeq(rubrics, LAMBDA r : r.type = type)
Effective(e, case, n) ==
  e.criteria \o [m \in DOMAIN Typed(case.rubrics, e.rubric) |-> Typed(case.rubrics, e.rubric)[m].id]
    \o [m \in DOMAIN Typed(case.turns[n].rubrics, e.rubric) |-> Typed(case.turns[n].rubrics, e.rubric)[m].id]
RubricsOf(e, case, n) == IF n \in DOMAIN case.turns THEN Effective(e, case, n) ELSE e.criteria
RubricsFit(e, case, turns) ==
  \A n \in 1 .. turns : RubricsOf(e, case, n) # <<>> /\ IsInjective(RubricsOf(e, case, n))

\* evaluate_builtin_metric.
Builtin(e, case, turns) ==
  IF e.expects /\ case.turns = <<>> THEN {Result(e.name, "NOT_EVALUATED", FALSE, 0)}
  ELSE IF e.rubric # "" /\ ~RubricsFit(e, case, turns) THEN {Errored(e.name)}
  ELSE IF e.cred = "missing" THEN {Errored(e.name)}
  ELSE {Errored(e.name), Result(e.name, "NOT_EVALUATED", FALSE, turns)}
         \union {Result(e.name, status, TRUE, turns) : status \in {"PASSED", "FAILED"}}

\* evaluate_custom_evaluator, for an evaluator in code: its scores are its own,
\* also how many turns they are for.
Custom(e, turns) ==
  {Errored(e.name)} \union {Result(e.name, status, TRUE, per) :
     status \in {"PASSED", "FAILED", "NOT_EVALUATED"}, per \in {0, turns, turns + 1}}

AnyCase == [id |-> 0, turns |-> <<>>, rubrics |-> <<>>]
CaseOf(g) == IF match[g].case = 0 THEN AnyCase ELSE Expected(job)[match[g].case]
Evaluations(e, g) ==
  IF e.kind = "builtin"
    THEN Builtin(e, CaseOf(g), Aligned(TurnsOfGroup(groups[g]), CaseOf(g).turns))
    ELSE Custom(e, Len(TurnsOfGroup(groups[g])))

\* _to_invocation_events for flat golden data [calls, responses]: a response
\* with the id of a call is that call's, any other the next of its name, and
\* what no call takes comes last.
FirstIn(S) == CHOOSE n \in S : \A m \in S : n <= m
TakenBy(call, flat, free) ==
  LET own   == {n \in free : call.id # 0 /\ flat.responses[n].id = call.id}
      named == {n \in free : /\ flat.responses[n].name = call.name
                             /\ \A c \in Range(flat.calls) : c.id = 0 \/ c.id # flat.responses[n].id}
  IN  IF own # {} THEN {FirstIn(own)} ELSE IF named # {} THEN {FirstIn(named)} ELSE {}
TakeNext(acc, call, n, taken) ==
  [events |-> acc.events \o <<<<"call", n>>>> \o [i \in 1 .. Cardinality(taken) |-> <<"response", FirstIn(taken)>>],
   free |-> acc.free \ taken]
Evidence(flat) ==
  LET taken == FoldLeft(LAMBDA acc, n : TakeNext(acc, flat.calls[n], n, TakenBy(flat.calls[n], flat, acc.free)),
                 [events |-> <<>>, free |-> DOMAIN flat.responses], [n \in DOMAIN flat.calls |-> n])
  IN  taken.events \o [i \in 1 .. Cardinality(taken.free) |-> <<"response", SetToSortSeq(taken.free, <)[i]>>]

-----------------------------------------------------------------------------
(* Rows and counts.                                                        *)

\* result_from_metric_result, and _status_key for the counts.
RowStatus(r) ==
  IF r.error THEN "errored"
  ELSE CASE r.status = "PASSED" -> "passed" [] r.status = "FAILED" -> "failed" [] OTHER -> "skipped"
StatusKey(r) ==
  IF r.error THEN "errored"
  ELSE IF r.status = "PASSED" THEN "passed" ELSE IF r.status = "FAILED" THEN "failed" ELSE "skipped"

\* build_results of one group: a row is of a group's key and an evaluator's name.
RowsOfGroup(g, given) ==
  [row \in {<<groups[g].key, r.name>> : r \in Range(given)} |->
     RowStatus(Last(SelectSeq(given, LAMBDA r : r.name = row[2])))]
Upserted(old, new) == [row \in DOMAIN old \union DOMAIN new |-> IF row \in DOMAIN new THEN new[row] ELSE old[row]]

Statuses == {"passed", "failed", "errored", "skipped"}
CountsOf(given) ==
  [s \in Statuses |-> Len(SelectSeq(given, LAMBDA r : StatusKey(r) = s))]
\* summarize_run_result.
Summary(given) ==
  [over |-> TRUE, counts |-> CountsOf(given),
   metrics |-> [name \in {r.name : r \in Range(given)} |-> CountsOf(SelectSeq(given, LAMBDA r : r.name = name))],
   failed |-> Cardinality({g \in DOMAIN groups : state[g] = "raised"})]

\* EvaluationEmitter._emit: an event for every turn that was scored, else one.
EventsOf(g, r, turns) ==
  IF ~r.error /\ r.per \in 1 .. turns THEN {<<g, r.name, n>> : n \in 1 .. r.per} ELSE {<<g, r.name, turns>>}

-----------------------------------------------------------------------------
(* The run.                                                                *)

NoSummary == [over |-> FALSE, counts |-> <<>>, metrics |-> <<>>, failed |-> 0]
ScoringInit(jobs) ==
  /\ job \in jobs
  /\ groups = <<>> /\ state = <<>> /\ match = <<>> /\ todo = <<>> /\ results = <<>>
  /\ rows = <<>> /\ events = {} /\ summary = NoSummary

ForGroups(value) == [g \in DOMAIN groups' |-> value]
Begin ==
  /\ groups = <<>> /\ ~summary.over
  /\ groups' = GroupsOfJob(job)
  /\ state' = ForGroups("waiting") /\ match' = ForGroups(NoCase)
  /\ todo' = ForGroups({}) /\ results' = ForGroups(<<>>)
  /\ UNCHANGED <<job, rows, events, summary>>

\* A group that cannot be read, or has no turns, has one result.
Extract(g) ==
  /\ state[g] = "waiting"
  /\ IF (\A t \in Range(groups[g].members) : t.readable) /\ TurnsOfGroup(groups[g]) # <<>>
       THEN /\ state' = [state EXCEPT ![g] = "scoring"]
            /\ match' = [match EXCEPT ![g] = MatchOfGroup(job, groups[g], Len(groups))]
            /\ todo' = [todo EXCEPT ![g] = Range(job.evaluators)]
            /\ UNCHANGED results
       ELSE /\ state' = [state EXCEPT ![g] = "standing"]
            /\ results' = [results EXCEPT ![g] = <<Errored("(all)")>>]
            /\ UNCHANGED <<match, todo>>
  /\ UNCHANGED <<job, groups, rows, events, summary>>

\* An evaluator is done: what the group has so far is stored (_trace_progress).
Score(g, e, result) ==
  /\ results' = [results EXCEPT ![g] = Append(@, result)]
  /\ todo' = [todo EXCEPT ![g] = @ \ {e}]
  /\ rows' = Upserted(rows, RowsOfGroup(g, results'[g]))
  /\ UNCHANGED <<job, groups, state, match, events, summary>>
RunEvaluator(g) ==
  /\ state[g] \in {"scoring", "raised"} /\ ~summary.over
  /\ \E e \in todo[g] : e.kind # "unresolved" /\ \E result \in Evaluations(e, g) : Score(g, e, result)

\* A remote evaluator that cannot be had ends the group; the others of the group
\* run on.
Raise(g) ==
  /\ state[g] = "scoring"
  /\ \E e \in todo[g] : e.kind = "unresolved" /\ todo' = [todo EXCEPT ![g] = @ \ {e}]
  /\ state' = [state EXCEPT ![g] = "raised"]
  /\ UNCHANGED <<job, groups, match, results, rows, events, summary>>

Complete(g) ==
  /\ state[g] = "scoring" /\ todo[g] = {}
  /\ state' = [state EXCEPT ![g] = "standing"]
  /\ events' = events \union UNION {EventsOf(g, r, Len(TurnsOfGroup(groups[g]))) : r \in Range(results[g])}
  /\ UNCHANGED <<job, groups, match, todo, results, rows, summary>>

Standing == {g \in DOMAIN groups : state[g] = "standing"}
Finish ==
  /\ ~summary.over /\ groups # <<>> /\ \A g \in DOMAIN groups : state[g] \in {"standing", "raised"}
  /\ LET standing == SelectSeq([g \in DOMAIN groups |-> g], LAMBDA g : g \in Standing)
     IN  /\ rows' = FoldLeft(LAMBDA stored, g : Upserted(stored, RowsOfGroup(g, results[g])), rows, standing)
         /\ summary' = Summary(FlattenSeq([n \in DOMAIN standing |-> results[standing[n]]]))
  /\ UNCHANGED <<job, groups, state, match, todo, results, events>>

ScoringNext ==
  \/ Begin
  \/ \E g \in DOMAIN groups : Extract(g) \/ RunEvaluator(g) \/ Raise(g) \/ Complete(g)
  \/ Finish

(***************************************************************************)
(* Properties.                                                             *)
(***************************************************************************)

Grouped ==
  \A t \in Range(job.traces) :
    /\ Cardinality({g \in DOMAIN groups : t \in Range(groups[g].members)}) = 1
    /\ ConversationKey([t EXCEPT !.spans = Reverse(@)]) = ConversationKey(t)

\* Rows that stand, and what a group has one of.
StandingRows == {row \in DOMAIN rows : \E g \in Standing : groups[g].key = row[1]}
Names(g) == {r.name : r \in Range(results[g])}
Counted(stored, counts) ==
  \A s \in Statuses : counts[s] = Cardinality({row \in stored : rows[row] = s})
RowsAreTold ==
  /\ \A g \in Standing :
       /\ Names(g) \in {{"(all)"}, {e.name : e \in Range(job.evaluators)}}
       /\ {row[2] : row \in {r \in DOMAIN rows : r[1] = groups[g].key}} = Names(g)
  /\ Counted(StandingRows, summary.counts)
  /\ \A name \in DOMAIN summary.metrics :
       Counted({row \in StandingRows : row[2] = name}, summary.metrics[name])
  /\ Cardinality(Standing) + summary.failed = Len(groups)

\* What a group passed against a golden case, it passed against its own: one it
\* names, one that begins as it does, or the only one where it is the only group.
NeverGuessed(g) ==
  LET case == CaseOf(g) turns == TurnsOfGroup(groups[g])
  IN  \A r \in Range(results[g]), e \in Range(job.evaluators) :
        e.name = r.name /\ e.kind = "builtin" /\ e.expects /\ RowStatus(r) = "passed" =>
          \/ \E t \in Range(groups[g].members) : \E s \in Range(t.spans) : s.case = case.id
          \/ case.turns[1].text = turns[1]
          \/ Len(groups) = 1 /\ Len(Expected(job)) = 1

\* An event for every result, at turns that both sides have when they were scored
\* one by one, and at the last otherwise.
EventsAt(g, name) == {event[3] : event \in {x \in events : x[1] = g /\ x[2] = name}}
Announced(g) ==
  LET turns == Len(TurnsOfGroup(groups[g]))
  IN  turns > 0 /\ Names(g) # {"(all)"} =>
        \A r \in Range(results[g]) :
          LET at == EventsAt(g, r.name)
          IN  /\ at # {} /\ at \subseteq 1 .. turns
              /\ r.error => at = {turns}
              /\ at # {turns} => at = 1 .. r.per

\* Flat golden data loses and repeats nothing, and no call takes the response to
\* another.
EvidenceIsKept(flat) ==
  LET told == Evidence(flat)
      at(kind) == {told[n][2] : n \in {m \in DOMAIN told : told[m][1] = kind}}
  IN  /\ Len(told) = Len(flat.calls) + Len(flat.responses)
      /\ at("call") = DOMAIN flat.calls /\ at("response") = DOMAIN flat.responses
      /\ \A n \in DOMAIN told \ {1} : told[n][1] = "response" /\ told[n - 1][1] = "call" =>
           LET id == flat.responses[told[n][2]].id
               others == {c.id : c \in Range(flat.calls)} \ {0, flat.calls[told[n - 1][2]].id}
           IN  id \notin others \/ \A c \in Range(SubSeq(told, n, Len(told))) : c[1] = "response"

\* An evaluation accounts for all it was given, in whatever order its parts end:
\* every trace in one group, whatever order its spans came in; of every group
\* that did not fail one row for each evaluator, the last word on it, and counts
\* that are those of these rows; golden cases only where they belong; events at
\* the turns that were scored; and golden tool calls with their own responses
\* (grouping.py:36-70, matching.py:66-106, runner.py:143-318,
\* result_builder.py:32-165, evaluation_events.py:193-258,
\* builtin_metrics.py:118-200).
ResultsAreWhole ==
  /\ groups # <<>> => Grouped
  /\ summary.over => RowsAreTold
  /\ \A g \in Standing : NeverGuessed(g) /\ Announced(g)
  /\ \A case \in Range(job.cases) : \A n \in DOMAIN case.turns : EvidenceIsKept(case.turns[n].flat)
=============================================================================
