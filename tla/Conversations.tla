---------------------------- MODULE Conversations ----------------------------
(***************************************************************************)
(* What a reader of a session sees while its spans and log records arrive: *)
(* after each the traces are built and the turns are extracted anew        *)
(* (streaming/manager.py with otel/model.py and genai/).                   *)
(*                                                                         *)
(* A scenario is the spans that will arrive, the log records joined to     *)
(* them, and whether the spans come one by one in any order or at once.    *)
(* Two spans of one id are an exporter's retry.                            *)
(***************************************************************************)
EXTENDS Turns

CONSTANT Scenarios   \* records [spans, logs, shuffled]

VARIABLES scenario, arrived, logged, traces, turns

cvars == <<scenario, arrived, logged, traces, turns>>

\* The traces of a session as the turns are read from them.
Read(spans, logs) ==
  LET built == BuildTraces(spans) IN [n \in DOMAIN built |-> Viewed(built[n], logs)]

ConversationsInit(scenarios) ==
  /\ scenario \in scenarios
  /\ arrived = <<>> /\ logged = <<>> /\ traces = <<>> /\ turns = <<>>

Recompute(spans, logs) ==
  \E now \in {Read(spans, logs)} :
    traces' = now /\ turns' = ExtractConversation(now)

\* One request's spans.
Arrive(batch) ==
  /\ arrived' = arrived \o batch
  /\ UNCHANGED <<scenario, logged>>
  /\ Recompute(arrived \o batch, logged)

Log(l) ==
  /\ l \notin Range(logged)
  /\ logged' = Append(logged, l)
  /\ UNCHANGED <<scenario, arrived>>
  /\ Recompute(arrived, Append(logged, l))

ConversationsNext ==
  \/ LET waiting == scenario.spans \ Range(arrived)
     IN  /\ waiting # {}
         /\ \E batch \in IF scenario.shuffled THEN {<<s>> : s \in waiting} ELSE {InOrder(waiting)} : Arrive(batch)
  \/ \E l \in scenario.logs : Log(l)

(***************************************************************************)
(* Properties.                                                             *)
(***************************************************************************)

Views(trees) == UNION {Range(trees[n].spans) : n \in DOMAIN trees}
Kept == Views(traces)
AllCalls == UNION {Range(turns[n].calls) : n \in DOMAIN turns}

\* Whatever parents the spans name, present or not, themselves or in circles,
\* each trace is a forest: the walk visits every span once and a parent before
\* its children (model.py:191-202, 273-319).
TreeIsAForest ==
  \A n \in DOMAIN traces :
    LET walk == WalkAll(traces[n])
    IN  /\ Len(walk) = Len(traces[n].spans) /\ Range(walk) = Range(traces[n].spans)
        /\ \A i, j \in DOMAIN walk :
             traces[n].parents[walk[j].id] = walk[i].id => i < j

\* The order the spans came in is forgotten, in the tree as in the turns (the
\* promise of _link_tree, model.py:276-278): only which copy of a retried span
\* is kept depends on it.
TheSameInOrder ==
  LET kept   == SelectSeq(arrived, LAMBDA s : \A n \in DOMAIN arrived :
                  arrived[n].id = s.id => \E m \in 1 .. n : arrived[m] = s)
      sorted == Read(InOrder(Range(kept)), logged)
  IN  scenario.shuffled =>
      /\ \A n \in DOMAIN traces, m \in DOMAIN sorted :
           Head(traces[n].spans).trace = Head(sorted[m].spans).trace
             => traces[n].parents = sorted[m].parents
      /\ turns = ExtractConversation(sorted)

\* Traces that arrive in bits and in any order become the same well-formed trees
\* and turns.
ArrivalIsForgotten == TreeIsAForest /\ TheSameInOrder

\* Every model call that has none below it is the leaf of a logical call, no
\* span is part of two, each call is in one turn and a turn's usage is that of
\* its calls, also after turns were joined; and every tool span of a turn is in
\* exactly one of its tool calls.  Nothing is counted twice and nothing is lost
\* (extract.py:241-394, 716-755).
EveryCallOnce ==
  /\ \A s \in Kept : s.kind = "inference" =>
       Cardinality({<<n, c>> \in (DOMAIN turns) \X AllCalls :
                      c \in Range(turns[n].calls) /\ s.id \in c.chain}) <= 1
  /\ \A s \in Kept : s.kind = "inference" /\ (\A t \in Kept : t.parent # s.id) =>
       \E c \in AllCalls : c.leaf = s.id
  /\ \A n \in DOMAIN turns : turns[n].usage = UsageOf(turns[n].calls)
  /\ \A s \in Kept : s.kind = "tool" =>
       LET uses == {<<n, i>> \in (DOMAIN turns) \X (1 .. 2 * Cardinality(Kept)) :
                      /\ i <= Len(turns[n].tools)
                      /\ s.id \in {turns[n].tools[i].ref} \union turns[n].tools[i].inner}
       IN  /\ Cardinality(uses) <= 1
           /\ (\E n \in DOMAIN traces, a \in Kept :
                 a \in Range(Anchors(Analyze(traces[n]))) /\ s \in MembersOf(Analyze(traces[n]), a)) => uses # {}

\* A result answers its call: no answer becomes the result of two tool calls,
\* and one that names another call's id comes with a note that says so
\* (extract.py:429-544).
ResultsAnswerTheirCalls ==
  \A n \in DOMAIN turns :
    LET tools == turns[n].tools
        answers == {r.part : r \in Range(Responses(turns[n].calls))}
    IN  \A m \in DOMAIN tools, r \in answers : r.value = tools[m].result =>
          /\ \A l \in DOMAIN tools \ {m} : tools[l].result # r.value
          /\ \/ tools[m].id = r.id \/ tools[m].id = 0 \/ r.id = 0
             \/ turns[n].gaps \intersect {"tool_result_by_order", "tool_data_by_name"} # {}

\* What a span says changes with a late log record only where it said nothing
\* or said it on the word of a weaker source: its own attributes, its events
\* and the details read before stand against details, its own message events
\* against those of the log.  Message events of the log, read as a whole, may
\* grow (overlay.py:3-20, genai/extract.py:132-140).
Said(raw, logs, late) == {key \in Keys :
  \E source \in {raw.own, raw.alias} \union Range(DetailsOf(raw, logs))
                 \union (IF late.name = Details THEN {} ELSE {LegacyOf(raw, <<>>)}) :
    Given(source, key) # Absent[key]}
LateLogsOnlyFill ==
  [][logged' # logged =>
       \A v \in Views(traces), w \in Views(traces') : v.id = w.id =>
         LET raw == arrived[CHOOSE n \in DOMAIN arrived : arrived[n].id = v.id /\
                              \A m \in 1 .. n - 1 : arrived[m].id # v.id]
         IN  \A key \in Said(raw, LogsOf(logged, raw), Last(logged')) : w[key] = v[key]]_cvars
=============================================================================
