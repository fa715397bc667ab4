-------------------------------- MODULE Bridge --------------------------------
(***************************************************************************)
(* What is made of the turns of conversations once they are extracted:     *)
(* invocations for the metrics (adk_bridge.py), golden cases kept as a     *)
(* file and read again, data for evaluators in code                        *)
(* (custom_evaluators.py), and the performance of a run                    *)
(* (trace_metrics.py, runner.py).                                          *)
(*                                                                         *)
(* A recording is a sequence of groups [turns, readable, roots], roots the *)
(* durations of root spans; a turn is [id, agent, user, final, middle,     *)
(* start, end, calls, tools].  Texts, names and ids are numbers, 0 for     *)
(* none, and so are times; agents are names, "" for none; counts are -1    *)
(* for none.  A value is <<kind, v>>: "none", "dict" (0 the empty one),    *)
(* "plain", or a plain value wrapped under the key "value" or "result".    *)
(***************************************************************************)
EXTENDS Scoring

CONSTANT Recordings

VARIABLES
  recording,
  invocations,   \* of each group, once converted
  evalset,       \* the golden cases written for the groups
  goldens,       \* and read again
  perfs,         \* the performance of each group, <<>> for none
  overall        \* that of the run, <<>> for none

bvars == <<recording, invocations, evalset, goldens, perfs, overall>>

-----------------------------------------------------------------------------
(* Turns to invocations.                                                   *)

AsDict(value, key) ==
  IF value[1] = "none" THEN <<"dict", 0>> ELSE IF value[1] = "plain" THEN <<key, value[2]>> ELSE value
Owner(part, turn) == Head(SelectSeq(<<part.agent, turn.agent, "agent">>, LAMBDA a : a # ""))
EventBy(author, kind, tool, value) ==
  [author |-> author, kind |-> kind, id |-> tool.id, name |-> tool.name, value |-> value]
ToolEvents(tool, turn) ==
  <<EventBy(Owner(tool, turn), "call", tool, AsDict(tool.args, "value"))>>
    \o IF tool.result[1] = "none" THEN <<>>
       ELSE <<EventBy(Owner(tool, turn), "response", tool, AsDict(tool.result, "result"))>>
TextEvent(text, turn) == EventBy(Owner(turn, turn), "text", [id |-> 0, name |-> 0], <<"plain", text>>)

\* _app_details: the functions of every agent; the first definition of a name.
Declared(turn) ==
  FlattenSeq([n \in DOMAIN turn.calls |->
    [m \in DOMAIN turn.calls[n].tools |-> [owner |-> Owner(turn.calls[n], turn), def |-> turn.calls[n].tools[m]]]])
Functions(turn) == SelectSeq(Declared(turn), LAMBDA d : d.def.type = "function" /\ d.def.name # 0)
OfOwner(declared, owner) == SelectSeq(declared, LAMBDA d : d.owner = owner)
AppDetails(turn) ==
  [owner \in {d.owner : d \in Range(Functions(turn))} |->
     [name \in {d.def.name : d \in Range(OfOwner(Functions(turn), owner))} |->
        Head(SelectSeq(OfOwner(Functions(turn), owner), LAMBDA d : d.def.name = name)).def.says]]

\* _enrich_app_details: owners of events that have none, by the names they called.
Called(evs, owner) == {e.name : e \in {x \in Range(evs) : x.author = owner /\ x.kind = "call"}} \ {0}
Enrich(app, evs) ==
  LET missing == {o \in {e.author : e \in Range(evs)} \ DOMAIN app : Called(evs, o) # {} \/ DOMAIN app # {}}
  IN  [o \in DOMAIN app \union missing |-> IF o \in missing THEN [name \in Called(evs, o) |-> 0] ELSE app[o]]

-----------------------------------------------------------------------------
(* Durations.                                                              *)

None == -1
Untimed == <<<<0, 0>>>>
Larger(a, b) == IF a > b THEN a ELSE b
Smaller(a, b) == IF a < b THEN a ELSE b
Extended(merged, i) ==
  IF merged # <<>> /\ i[1] <= Last(merged)[2]
    THEN Append(Front(merged), <<Last(merged)[1], Larger(Last(merged)[2], i[2])>>)
    ELSE Append(merged, i)
UnionOf(intervals) ==
  FoldLeft(Extended, <<>>, SortSeq(intervals, LAMBDA i, j : i[1] < j[1] \/ (i[1] = j[1] /\ i[2] < j[2])))
Length(intervals) == FoldLeft(LAMBDA sum, i : sum + (i[2] - i[1]), 0, intervals)
Within(i, intervals) ==
  FoldLeft(LAMBDA sum, j : sum + Larger(0, Smaller(i[2], j[2]) - Larger(i[1], j[1])), 0, intervals)
Overlap(a, b) == FoldLeft(LAMBDA sum, i : sum + Within(i, b), 0, a)

Clip(span, turn) == <<Larger(span[1], turn.start), Smaller(span[2], turn.end)>>
Clipped(spans, turn) ==
  IF \E s \in Range(spans) : s[1] = 0 \/ s[2] = 0 \/ s[2] < s[1] THEN Untimed
  ELSE UnionOf(SelectSeq([n \in DOMAIN spans |-> Clip(spans[n], turn)], LAMBDA i : i[2] > i[1]))
ModelSpans(turn) == [n \in DOMAIN turn.calls |-> <<turn.calls[n].leafStart, turn.calls[n].leafEnd>>]
ToolSpans(turn) == [n \in DOMAIN turn.tools |-> <<turn.tools[n].start, turn.tools[n].end>>]
Timed(whole, model, tool) ==
  [whole |-> whole,
   model |-> IF model = Untimed THEN None ELSE Length(model),
   tool  |-> IF Untimed \in {model, tool} THEN None ELSE Length(tool) - Overlap(tool, model)]
Durations(turn) ==
  IF turn.start = 0 \/ turn.end <= turn.start THEN [whole |-> None, model |-> None, tool |-> None]
  ELSE Timed(turn.end - turn.start, Clipped(ModelSpans(turn), turn), Clipped(ToolSpans(turn), turn))

\* _usage_metadata and model_call_events.
NoCounts == [input |-> None, output |-> None, reasoning |-> None, cached |-> None]
UsageMetadata(usage) ==
  [prompt |-> usage.input, thoughts |-> usage.reasoning, cached |-> usage.cached,
   candidates |-> IF usage.reasoning \in 0 .. usage.output THEN usage.output - usage.reasoning ELSE usage.output]
ModelCallEvents(turn) ==
  [n \in DOMAIN turn.calls |->
     [author |-> Owner(turn.calls[n], turn), model |-> turn.calls[n].model,
      usage |-> LET told == SelectSeq(turn.calls[n].usage, LAMBDA u : u # NoCounts)
                IN  [m \in DOMAIN told |-> UsageMetadata(told[m])]]]

ToAdkInvocation(turn) ==
  [id |-> turn.id, user |-> turn.user, final |-> turn.final,
   events |-> FlattenSeq([n \in DOMAIN turn.tools |-> ToolEvents(turn.tools[n], turn)])
                \o [n \in DOMAIN turn.middle |-> TextEvent(turn.middle[n], turn)],
   models |-> ModelCallEvents(turn), app |-> AppDetails(turn), times |-> Durations(turn)]

-----------------------------------------------------------------------------
(* Golden cases, and what evaluators in code are given.                    *)

OfKind(evs, kind) == SelectSeq(evs, LAMBDA e : e.kind = kind)
WithoutOwners(evs) == [n \in DOMAIN evs |-> [id |-> evs[n].id, name |-> evs[n].name, value |-> evs[n].value]]
\* invocation_to_dict: flat, without owners, declarations and durations.
InvocationToDict(inv) ==
  [id |-> inv.id, user |-> inv.user, final |-> inv.final,
   calls |-> WithoutOwners(OfKind(inv.events, "call")), responses |-> WithoutOwners(OfKind(inv.events, "response"))]
\* expected_from_case.
ExpectedTurn(inv) ==
  [text |-> inv.user, final |-> inv.final, rubrics |-> <<>>,
   flat |-> [calls |-> inv.calls, responses |-> inv.responses]]

\* turn_to_data; what it says of a failure is left out.
TurnToData(turn) ==
  LET answered == SelectSeq(turn.tools, LAMBDA t : t.result[1] # "none" \/ t.failed)
  IN  [user |-> turn.user, final |-> turn.final,
       calls |-> [n \in DOMAIN turn.tools |->
         [id |-> turn.tools[n].id, name |-> turn.tools[n].name, value |-> AsDict(turn.tools[n].args, "value")]],
       responses |-> [n \in DOMAIN answered |->
         [id |-> answered[n].id, name |-> answered[n].name, value |-> answered[n].result]]]
\* expected_turn_to_data.
ExpectedTurnToData(turn) ==
  [user |-> turn.text, final |-> turn.final,
   calls |-> [n \in DOMAIN turn.flat.calls |-> [turn.flat.calls[n] EXCEPT !.value = AsDict(@, "value")]],
   responses |-> turn.flat.responses]

-----------------------------------------------------------------------------
(* Performance.                                                            *)

Ascending(values) == SortSeq(values, LAMBDA a, b : a < b)
At(values, percent) == values[(Len(values) * percent) \div 100 + 1]
\* _calc_summary_stats; median2 is twice the median.
StatsOf(values) ==
  [min |-> values[1], max |-> Last(values), count |-> Len(values), p95 |-> At(values, 95), p99 |-> At(values, 99),
   median2 |-> values[(Len(values) + 1) \div 2] + values[Len(values) \div 2 + 1]]
SummaryStats(values) ==
  IF values = <<>> THEN [min |-> 0, max |-> 0, count |-> 0, p95 |-> 0, p99 |-> 0, median2 |-> 0]
  ELSE StatsOf(Ascending(values))

SumOver(seq, Count(_)) == FoldLeft(LAMBDA sum, x : sum + Larger(0, Count(x)), 0, seq)
EveryCall(turns) == FlattenSeq([n \in DOMAIN turns |-> turns[n].calls])
EveryTool(turns) == FlattenSeq([n \in DOMAIN turns |-> turns[n].tools])
Lasting(seq) == [n \in DOMAIN seq |-> seq[n].end - seq[n].start]
TurnLatencies(group) == IF group.turns = <<>> THEN group.roots ELSE Lasting(group.turns)
ToolLatencies(tools) ==
  LET found == SelectSeq(tools, LAMBDA t : t.lasted # None) IN [n \in DOMAIN found |-> found[n].lasted]
PerCall(usages) == [n \in DOMAIN usages |-> Larger(0, usages[n].input) + Larger(0, usages[n].output)]
Performance(group, calls, tools, usages) ==
  [turns |-> SummaryStats(TurnLatencies(group)),
   calls |-> SummaryStats(Lasting(calls)), tools |-> SummaryStats(ToolLatencies(tools)),
   prompt |-> SumOver(usages, LAMBDA u : u.input), output |-> SumOver(usages, LAMBDA u : u.output),
   total |-> SumOver(PerCall(usages), LAMBDA x : x), perCall |-> SummaryStats(PerCall(usages)),
   cached |-> SumOver(usages, LAMBDA u : u.cached), models |-> {c.model : c \in Range(calls)} \ {0},
   counts |-> <<Len(calls), Len(tools), Len(group.turns)>>]
PerformanceOf(group) ==
  IF ~group.readable THEN <<>>
  ELSE <<Performance(group, EveryCall(group.turns), EveryTool(group.turns),
           FlattenSeq([n \in DOMAIN EveryCall(group.turns) |-> EveryCall(group.turns)[n].usage]))>>

\* _aggregate_performance over the groups that have one; averages are
\* <<sum, number>>, and percentiles those of the medians.
Percentiles(values) ==
  IF values = <<>> THEN <<>>
  ELSE LET stats == StatsOf(Ascending(values)) IN <<[p50 |-> stats.median2, p95 |-> stats.p95, p99 |-> stats.p99]>>
Aggregate(measured, count) ==
  LET timed == SelectSeq(measured, LAMBDA p : p.turns.count > 0)
  IN  <<[prompt |-> SumOver(measured, LAMBDA p : p.prompt), output |-> SumOver(measured, LAMBDA p : p.output),
         total |-> SumOver(measured, LAMBDA p : p.total), cached |-> SumOver(measured, LAMBDA p : p.cached),
         latency |-> Percentiles([n \in DOMAIN timed |-> timed[n].turns.median2]),
         calls |-> SumOver(measured, LAMBDA p : p.counts[1]), tools |-> SumOver(measured, LAMBDA p : p.counts[2]),
         models |-> UNION {p.models : p \in Range(measured)},
         perTrace |-> <<Len(measured), count>>]>>

-----------------------------------------------------------------------------
BridgeInit(recordings) ==
  /\ recording \in recordings
  /\ invocations = <<>> /\ evalset = <<>> /\ goldens = <<>> /\ perfs = <<>> /\ overall = <<>>

\* _evaluate_group measures a group, a metric converts its turns.
Measure ==
  /\ Len(perfs) < Len(recording)
  /\ perfs' = Append(perfs, PerformanceOf(recording[Len(perfs) + 1]))
  /\ UNCHANGED <<recording, invocations, evalset, goldens, overall>>
Convert ==
  /\ Len(invocations) < Len(recording)
  /\ LET turns == recording[Len(invocations) + 1].turns
     IN  invocations' = Append(invocations, <<>> \o [n \in DOMAIN turns |-> ToAdkInvocation(turns[n])])
  /\ UNCHANGED <<recording, evalset, goldens, perfs, overall>>
\* eval_set_from_turns, and later load_eval_set and expected_conversations.
ExportCases ==
  /\ Len(invocations) = Len(recording) /\ evalset = <<>>
  /\ evalset' = [g \in DOMAIN invocations |->
                [n \in DOMAIN invocations[g] |-> InvocationToDict(invocations[g][n])]]
  /\ UNCHANGED <<recording, invocations, goldens, perfs, overall>>
LoadCases ==
  /\ evalset # <<>> /\ goldens = <<>>
  /\ goldens' = [g \in DOMAIN evalset |->
       [id |-> g, rubrics |-> <<>>, turns |-> [n \in DOMAIN evalset[g] |-> ExpectedTurn(evalset[g][n])]]]
  /\ UNCHANGED <<recording, invocations, evalset, perfs, overall>>
AggregateRun ==
  /\ Len(perfs) = Len(recording) /\ FlattenSeq(perfs) # <<>> /\ overall = <<>>
  /\ overall' = Aggregate(FlattenSeq(perfs), Len(recording))
  /\ UNCHANGED <<recording, invocations, evalset, goldens, perfs>>

BridgeNext == Measure \/ Convert \/ ExportCases \/ LoadCases \/ AggregateRun

(***************************************************************************)
(* Properties.                                                             *)
(***************************************************************************)

\* A golden case made of a conversation is chosen for it, and says of its turns
\* what they say: also to an evaluator in code, except that it drops failures
\* without a result and wraps results that are not dictionaries.
Matches(case, turns) ==
  LET texts == [n \in DOMAIN turns |-> turns[n].user]
  IN  turns # <<>> /\ Head(texts) # 0 => SelectCase(<<case>>, texts, 0, FALSE) = Chosen(1, "user_text")
Wrapped(responses) == [n \in DOMAIN responses |-> [responses[n] EXCEPT !.value = AsDict(@, "result")]]
SaysTheSame(golden, turn) ==
  LET told == ExpectedTurnToData(golden)
      own  == TurnToData([turn EXCEPT !.tools = SelectSeq(@, LAMBDA t : ~(t.failed /\ t.result[1] = "none"))])
  IN  /\ told.calls = TurnToData(turn).calls /\ told.responses = Wrapped(own.responses)
      /\ told.user = own.user /\ told.final = own.final

\* Calls have in it the responses they had, where each has an id of its own.
OwnIds(tools) == IsInjective([n \in DOMAIN tools |-> tools[n].id]) /\ \A t \in Range(tools) : t.id # 0
KeepsEvidence(golden, inv) ==
  LET told   == Evidence(golden.flat)
      source == SelectSeq(inv.events, LAMBDA e : e.kind # "text")
  IN  Len(told) = Len(source) /\ \A n \in DOMAIN told :
        LET of == IF told[n][1] = "call" THEN golden.flat.calls ELSE golden.flat.responses
        IN  /\ told[n][1] = source[n].kind
            /\ of[told[n][2]].id = source[n].id /\ of[told[n][2]].value = source[n].value

\* Who acted is described, and what was captured stays as it was.
OwnersAreDescribed(inv) ==
  LET app == Enrich(inv.app, inv.events)
  IN  /\ \A e \in Range(inv.events) : e.kind = "call" => e.author \in DOMAIN app
      /\ \A o \in DOMAIN inv.app : app[o] = inv.app[o]

\* Durations are those of the instants they stand for, each counted once.
Instants(spans, turn) == {x \in turn.start .. turn.end - 1 : \E s \in Range(spans) : s[1] <= x /\ x < s[2]}
Known(spans) == \A s \in Range(spans) : 0 < s[1] /\ s[1] <= s[2]
DurationsAreExact(times, turn) ==
  times.whole # None =>
    /\ times.model = IF Known(ModelSpans(turn)) THEN Cardinality(Instants(ModelSpans(turn), turn)) ELSE None
    /\ times.tool = IF Known(ModelSpans(turn) \o ToolSpans(turn))
                      THEN Cardinality(Instants(ToolSpans(turn), turn) \ Instants(ModelSpans(turn), turn)) ELSE None

\* A percentile has that share of the values at or below it, and no more below.
Share(values, Test(_)) == 100 * Cardinality({n \in DOMAIN values : Test(values[n])})
Percentile(x, percent, values) ==
  /\ Share(values, LAMBDA v : v <= x) >= percent * Len(values)
  /\ Share(values, LAMBDA v : v < x) <= percent * Len(values)
StatsAreExact(stats, values) ==
  /\ stats.count = Len(values)
  /\ values # <<>> => /\ Percentile(stats.p95, 95, values) /\ Percentile(stats.p99, 99, values)
                      /\ {2 * stats.min, 2 * stats.p95} \subseteq {2 * v : v \in Range(values)}
                      /\ 2 * stats.min <= stats.median2 /\ stats.median2 <= 2 * stats.p95
                      /\ stats.p95 <= stats.p99 /\ stats.p99 <= stats.max

\* Tokens of a model call are counted once, wherever they are shown: the output
\* of a call with what it thought is shown in two parts.
Shown(invs) ==
  FlattenSeq([n \in DOMAIN invs |-> FlattenSeq([m \in DOMAIN invs[n].models |-> invs[n].models[m].usage])])
TokensAreCountedOnce(perf, shown, calls) ==
  /\ perf.total = perf.prompt + perf.output
  /\ perf.prompt = SumOver(shown, LAMBDA u : u.prompt)
  /\ (\A c \in Range(calls) : \A u \in Range(c.usage) : u.reasoning <= u.output) =>
       perf.output = SumOver(shown, LAMBDA u : u.candidates) + SumOver(shown, LAMBDA u : u.thoughts)

\* What is derived from a conversation agrees with it, in every form it is given
\* to a metric, a golden file, an evaluator in code or a reader of its performance
\* (adk_bridge.py:45-313, custom_evaluators.py:277-317, trace_metrics.py:20-127,
\* runner.py:318-349, mcp_server.py:452-456).
DerivedFormsAgree ==
  /\ \A g \in DOMAIN goldens :
       /\ Matches(goldens[g], recording[g].turns)
       /\ \A n \in DOMAIN recording[g].turns :
            /\ SaysTheSame(goldens[g].turns[n], recording[g].turns[n])
            /\ OwnIds(recording[g].turns[n].tools) => KeepsEvidence(goldens[g].turns[n], invocations[g][n])
  /\ \A g \in DOMAIN invocations : \A n \in DOMAIN invocations[g] :
       /\ OwnersAreDescribed(invocations[g][n])
       /\ DurationsAreExact(invocations[g][n].times, recording[g].turns[n])
  /\ \A g \in DOMAIN perfs : \A perf \in Range(perfs[g]) :
       /\ StatsAreExact(perf.turns, TurnLatencies(recording[g]))
       /\ g \in DOMAIN invocations => TokensAreCountedOnce(perf, Shown(invocations[g]), EveryCall(recording[g].turns))
=============================================================================
