-------------------------------- MODULE Turns --------------------------------
(***************************************************************************)
(* Turns of a conversation, read from the spans of its traces              *)
(* (genai/extract.py); the spans of a trace are the views of Overlay.      *)
(*                                                                         *)
(* Tool arguments are filled like results and left out, as are the fields  *)
(* a call takes from its spans like usage (model, provider, ids).          *)
(***************************************************************************)
EXTENDS Overlay

Agentic == {"agent", "workflow"}

-----------------------------------------------------------------------------
(* analyze: what a span has from the spans above it.                       *)

\* The nearest span of a kind in a line, 0 when one that breaks comes first.
FirstId(near, kind) == IF near # <<>> /\ Head(near).kind = kind THEN Head(near).id ELSE 0
Nearest(line, kind, breaks) ==
  FirstId(SelectSeq(line, LAMBDA a : a.kind \in breaks \union {kind}), kind)

AgentFrom(named, s) ==
  IF named # <<>> THEN Head(named).agent
  ELSE IF s.kind \in {"inference", "tool"} THEN s.agent ELSE ""

\* The anchor of a line is the agent or workflow in it that no agent, workflow
\* or tool covers, else the root.
Uncovered(line) ==
  {n \in DOMAIN line : line[n].kind \in Agentic
     /\ \A m \in n + 1 .. Len(line) : line[m].kind \notin Agentic \union {"tool"}}
AnchorIn(line, uncovered) ==
  IF uncovered = {} THEN Last(line) ELSE line[CHOOSE n \in uncovered : TRUE]

\* Of a span and those above it, nearest first.
InfoOf(line) ==
  [inferenceParent |-> Nearest(Tail(line), "inference", Agentic \union {"tool"}),
   toolParent      |-> Nearest(Tail(line), "tool", Agentic \union {"inference"}),
   agent           |-> AgentFrom(SelectSeq(line, LAMBDA a : a.kind \in Agentic /\ a.agent # ""), Head(line)),
   underTool       |-> \E a \in Range(Tail(line)) : a.kind = "tool",
   anchor          |-> AnchorIn(line, Uncovered(line)).id]
Analyze(trace) ==
  [trace |-> trace,
   info  |-> [i \in IdsOf(trace.spans) |->
                InfoOf(<<SpanOf(trace.spans, i)>> \o Ancestors(trace, SpanOf(trace.spans, i)))]]

MembersOf(analysis, anchor) ==
  {s \in Range(analysis.trace.spans) : analysis.info[s.id].anchor = anchor.id}
Members(analysis, anchor) ==
  SelectSeq(Walk(analysis.trace, <<anchor>>), LAMBDA s : analysis.info[s.id].anchor = anchor.id)

\* An agent or workflow is a turn with a model call, a tool, messages or a
\* failure; a root only with a model call.
HasTurn(anchor, kinds) ==
  \/ "inference" \in kinds
  \/ /\ anchor.kind \in Agentic
     /\ "tool" \in kinds \/ anchor.input # <<>> \/ anchor.output # <<>> \/ anchor.status = "error"
Anchors(analysis) ==
  SelectSeq(WalkAll(analysis.trace), LAMBDA s :
    analysis.info[s.id].anchor = s.id /\ HasTurn(s, {m.kind : m \in MembersOf(analysis, s)}))

-----------------------------------------------------------------------------
(* Logical model calls.                                                    *)

\* The members of a turn that are model calls, and how they nest.
InferenceOf(analysis, members) ==
  [s \in {s \in Range(members) : s.kind = "inference"} |-> analysis.info[s.id].inferenceParent]
\* A model call and those it nests in, innermost first.
Wrap(calls, line, next) == IF next = {} THEN line ELSE Append(line, CHOOSE w \in next : TRUE)
WrapOnce(calls, line) == Wrap(calls, line, {w \in DOMAIN calls : w.id = calls[Last(line)]})
Wrappers(calls, c) ==
  LET up[n \in 0 .. Cardinality(DOMAIN calls)] == IF n = 0 THEN <<c>> ELSE WrapOnce(calls, up[n - 1])
  IN  up[Cardinality(DOMAIN calls)]
Leaves(calls, s) ==
  {c \in DOMAIN calls : s \in Range(Wrappers(calls, c)) /\ \A d \in DOMAIN calls : calls[d] # c.id}

\* Mutant: a wrapped call is a call besides its wrapper.
ChainTopsNested(calls) == {s \in DOMAIN calls : Cardinality(Leaves(calls, s)) = 1}

\* _chains: a call is a span with one leaf below it whose own wrapper, if it
\* has one, has several; leaf first.
ChainTops(calls) ==
  {s \in DOMAIN calls :
     /\ Cardinality(Leaves(calls, s)) = 1
     /\ \A w \in DOMAIN calls : w.id = calls[s] => Cardinality(Leaves(calls, w)) # 1}
ChainOf(calls, top) ==
  SelectSeq(Wrappers(calls, CHOOSE c \in Leaves(calls, top) : TRUE),
            LAMBDA s : top \in Range(Wrappers(calls, s)))

\* The first value along a chain that is not the absent one.
FirstValue(given, field(_), absent) == IF given = <<>> THEN absent ELSE field(Head(given))
FirstOf(chain, field(_), absent) ==
  FirstValue(SelectSeq(chain, LAMBDA s : field(s) # absent), field, absent)

LogicalCall(info, chain) ==
  [leaf      |-> Head(chain).id,
   chain     |-> {s.id : s \in Range(chain)},
   agent     |-> IF info.agent # "" THEN info.agent ELSE FirstOf(chain, LAMBDA s : s.agent, ""),
   usage     |-> FirstOf(chain, LAMBDA s : s.usage, NoUsage),
   finish    |-> FirstOf(chain, LAMBDA s : s.finish, ""),
   input     |-> FirstOf(chain, LAMBDA s : s.input, <<>>),
   output    |-> FirstOf(chain, LAMBDA s : s.output, <<>>),
   delegated |-> info.underTool,
   start     |-> Min({s.start : s \in Range(chain)}),
   end       |-> Max({s.end : s \in Range(chain)})]
CallOf(analysis, chain) == LogicalCall(analysis.info[Head(chain).id], chain)

\* Stable, by start and end.
InSequence(calls, order) == <<>> \o [n \in DOMAIN order |-> calls[order[n]]]
SortCalls(calls) ==
  InSequence(calls, Sorted(DOMAIN calls, LAMBDA m, n :
    \/ calls[m].start < calls[n].start
    \/ calls[m].start = calls[n].start /\ calls[m].end < calls[n].end
    \/ calls[m].start = calls[n].start /\ calls[m].end = calls[n].end /\ m < n))

CallsOf(analysis, calls, tops, members) ==
  FoldLeft(LAMBDA found, s : IF s \in tops THEN Append(found, CallOf(analysis, ChainOf(calls, s))) ELSE found,
           <<>>, members)
CallsAmong(analysis, calls, members) == SortCalls(CallsOf(analysis, calls, ChainTops(calls), members))
LlmCalls(analysis, members) == CallsAmong(analysis, InferenceOf(analysis, members), members)

-----------------------------------------------------------------------------
(* Logical tool calls, from spans and from message parts.                  *)

SameToolCall(outer, inner) ==
  \/ outer.tool # "" /\ outer.tool = inner.tool
  \/ outer.callId # 0 /\ outer.callId = inner.callId

\* Each tool span's outermost span of the same call; members come depth first.
Nest(outer, s, above) ==
  [t \in DOMAIN outer \union {s} |->
     IF t # s THEN outer[t] ELSE IF above = {} THEN s ELSE outer[CHOOSE a \in above : TRUE]]
Outermost(analysis, members) ==
  FoldLeft(LAMBDA outer, s :
      Nest(outer, s, {t \in DOMAIN outer : t.id = analysis.info[s.id].toolParent /\ SameToolCall(t, s)}),
    <<>>, SelectSeq(members, LAMBDA s : s.kind = "tool"))

ToolCall(info, chain, name) ==
  [ref    |-> Head(chain).id,
   inner  |-> {s.id : s \in Range(Tail(chain))},
   part   |-> 0,
   agent  |-> info.agent,
   name   |-> IF name = "" THEN "by span name" ELSE name,
   id     |-> FirstOf(chain, LAMBDA s : s.callId, 0),
   result |-> FirstOf(chain, LAMBDA s : s.result, "")]
ToolChain(analysis, chain) ==
  ToolCall(analysis.info[Head(chain).id], chain, FirstOf(chain, LAMBDA s : s.tool, ""))
ToolChains(analysis, members, outer) ==
  FoldLeft(LAMBDA calls, top :
      Append(calls, ToolChain(analysis, SelectSeq(members, LAMBDA s : s \in DOMAIN outer /\ outer[s] = top))),
    <<>>, InOrder(Range(outer)))
ToolCallsFromSpans(analysis, members) == ToolChains(analysis, members, Outermost(analysis, members))
NameGaps(tools) == {"tool_name_missing" : n \in {n \in DOMAIN tools : tools[n].name = "by span name"}}

\* Entries [at, part]: the parts of all calls with the index of their call.
Number(n, parts) == [m \in DOMAIN parts |-> [at |-> n, part |-> parts[m]]]
Numbered(calls, partsOf(_)) ==
  FoldLeft(LAMBDA found, n : found \o Number(n, partsOf(calls[n])), <<>>, [n \in DOMAIN calls |-> n])

\* Each response where it first appears: by id, else by name and content.
SameResponse(a, b) ==
  IF a.id # 0 \/ b.id # 0 THEN a.id = b.id ELSE a.name = b.name /\ a.value = b.value
Responses(calls) ==
  FoldLeft(LAMBDA seen, r :
      IF \E n \in DOMAIN seen : SameResponse(seen[n].part, r.part) THEN seen ELSE Append(seen, r),
    <<>>, Numbered(calls, LAMBDA c : ToolResponsesOf(c.input)))
Requests(calls) == Numbered(calls, LAMBDA c : ToolCallsOf(c.output))

Either(first, second) == IF first # {} THEN Min(first) ELSE IF second # {} THEN Min(second) ELSE 0

\* Mutant: a response that was claimed may be claimed again.
OpenAlways(request, responses, claimed) ==
  {n \in DOMAIN responses : responses[n].at > request.at}

\* A response that comes in a later call and that nobody has claimed: by id,
\* else in order among those whose id no call of the turn has.
Open(request, responses, claimed) ==
  {n \in DOMAIN responses : n \notin claimed /\ responses[n].at > request.at}
MatchOf(request, responses, ids, open) ==
  Either({n \in open : request.part.id # 0 /\ responses[n].part.id = request.part.id},
         {n \in open : /\ responses[n].part.id \notin ids
                       /\ responses[n].part.name \in {"", request.part.name}})

PartCall(acc, request, agent, result) ==
  [ref |-> 0, inner |-> {}, part |-> Len(acc.tools) + 1, agent |-> agent,
   name |-> request.part.name, id |-> request.part.id, result |-> result]
Joined(acc, request, agent, responses, match) ==
  IF match = 0 THEN [acc EXCEPT !.tools = Append(@, PartCall(acc, request, agent, ""))]
  ELSE [tools   |-> Append(acc.tools, PartCall(acc, request, agent, responses[match].part.value)),
        claimed |-> acc.claimed \union {match},
        gaps    |-> acc.gaps \union IF responses[match].part.id \notin {0, request.part.id}
                                      THEN {"tool_result_by_order"} ELSE {}]
JoinParts(calls, requests, responses, ids) ==
  FoldLeft(LAMBDA acc, request :
      Joined(acc, request, calls[request.at].agent, responses,
             MatchOf(request, responses, ids, Open(request, responses, acc.claimed))),
    [tools |-> <<>>, claimed |-> {}, gaps |-> {}], requests)
PartsRequested(calls, requests) ==
  JoinParts(calls, requests, Responses(calls), {r.part.id : r \in Range(requests)} \ {0})
ToolCallsFromParts(calls) == PartsRequested(calls, Requests(calls))

\* Each tool span claims a part, by id or else the first of its name, and takes
\* the result it lacks from it.
ClaimOne(acc, tool, part, byId) ==
  [tools  |-> Append(acc.tools, IF tool.result = "" THEN [tool EXCEPT !.result = part.result] ELSE tool),
   claims |-> acc.claims \union {[part |-> part.part, ref |-> tool.ref]},
   gaps   |-> acc.gaps \union IF ~byId /\ tool.result = "" /\ part.result # ""
                                THEN {"tool_data_by_name"} ELSE {}]
Claim(acc, tool, parts, byId, byName) ==
  IF byId \union byName = {} THEN [acc EXCEPT !.tools = Append(@, tool)]
  ELSE ClaimOne(acc, tool, parts[Either(byId, byName)], byId # {})
ClaimOpen(acc, tool, parts, open) ==
  Claim(acc, tool, parts, {n \in open : tool.id # 0 /\ parts[n].id = tool.id},
                          {n \in open : parts[n].name = tool.name})
ClaimParts(spanTools, parts) ==
  FoldLeft(LAMBDA acc, tool :
      ClaimOpen(acc, tool, parts, {n \in DOMAIN parts : \A c \in acc.claims : c.part # n}),
    [tools |-> <<>>, claims |-> {}, gaps |-> {}], spanTools)

\* A part no span claimed goes right after the call requested before it.
PlaceAfter(tools, previous) ==
  {n \in DOMAIN tools : tools[n].ref = previous.ref /\ tools[n].part = previous.part}
Place(acc, part, claim, after) ==
  IF claim # {} THEN [acc EXCEPT !.previous = [ref |-> (CHOOSE c \in claim : TRUE).ref, part |-> 0]]
  ELSE [tools    |-> InsertAt(acc.tools, IF after = {} THEN 1 ELSE Min(after) + 1, part),
        previous |-> [ref |-> 0, part |-> part.part]]
InsertUnclaimed(tools, parts, claims) ==
  FoldLeft(LAMBDA acc, part :
      Place(acc, part, {c \in claims : c.part = part.part}, PlaceAfter(acc.tools, acc.previous)),
    [tools |-> tools, previous |-> [ref |-> 0, part |-> 0]], parts).tools

\* The tools of a turn: those of its spans completed from the parts, or the
\* parts alone when it has no tool span.
Completed(parts, claim) ==
  [tools |-> InsertUnclaimed(claim.tools, parts.tools, claim.claims),
   gaps  |-> parts.gaps \union claim.gaps
               \union IF Cardinality(claim.claims) < Len(parts.tools) THEN {"tool_from_parts_only"} ELSE {}]
CompleteFrom(spanTools, parts) ==
  IF spanTools = <<>> THEN [tools |-> parts.tools, gaps |-> parts.gaps]
  ELSE IF parts.tools = <<>> THEN [tools |-> spanTools, gaps |-> {}]
  ELSE Completed(parts, ClaimParts(spanTools, parts.tools))
ToolsOf(spanTools, calls) == CompleteFrom(spanTools, ToolCallsFromParts(calls))

-----------------------------------------------------------------------------
(* _turn.                                                                  *)

\* Of several with the greatest (end, start) the first.
LatestCall(calls) ==
  calls[CHOOSE n \in DOMAIN calls : \A m \in DOMAIN calls :
    \/ calls[m].end < calls[n].end
    \/ calls[m].end = calls[n].end /\ calls[m].start < calls[n].start
    \/ calls[m].end = calls[n].end /\ calls[m].start = calls[n].start /\ n <= m]

OrElse(messages, other) == IF messages # <<>> THEN messages ELSE other
FirstInput(asked) == IF asked = <<>> THEN <<>> ELSE UserTurnMessages(Head(asked).input)
UserInput(anchor, calls) ==
  IF anchor.input # <<>> THEN OrElse(UserTurnMessages(anchor.input), anchor.input)
  ELSE FirstInput(SelectSeq(calls, LAMBDA c : c.input # <<>>))

\* The calls that speak for the turn: those not under a tool, if there are any.
Speaking(calls) ==
  SelectSeq(OrElse(SelectSeq(calls, LAMBDA c : ~c.delegated), calls), LAMBDA c : HasText(c.output))
Speech(calls) ==
  FoldLeft(LAMBDA said, c : said \o SelectSeq(c.output, LAMBDA m : HasText(<<m>>)), <<>>, calls)

WithoutEcho(said, output) ==
  IF said # <<>> /\ TextOf(<<Last(said)>>) = TextOf(output) THEN Front(said) ELSE said
OwnOutputs(speaking, final) ==
  [final |-> final.output, middle |-> Speech(SelectSeq(speaking, LAMBDA c : c # final))]
Outputs(anchor, speaking) ==
  IF anchor.output # <<>> THEN [final |-> anchor.output, middle |-> WithoutEcho(Speech(speaking), anchor.output)]
  ELSE IF speaking = <<>> THEN [final |-> <<>>, middle |-> <<>>]
  ELSE OwnOutputs(speaking, LatestCall(speaking))

AddUsage(a, b) == IF a = NoUsage THEN b ELSE IF b = NoUsage THEN a ELSE a + b
UsageOf(calls) == FoldLeft(LAMBDA sum, c : AddUsage(sum, c.usage), NoUsage, calls)

Turn(anchor, members, calls, spanTools, tools, outputs) ==
  [refs   |-> <<anchor.id>>,
   kind   |-> IF anchor.kind \in Agentic THEN anchor.kind ELSE "root",
   user   |-> UserInput(anchor, calls),
   final  |-> outputs.final,
   middle |-> outputs.middle,
   calls  |-> calls,
   tools  |-> tools.tools,
   usage  |-> UsageOf(calls),
   start  |-> Min({s.start : s \in Range(members)}),
   end    |-> Max({s.end : s \in Range(members)}),
   status |-> anchor.status,
   gaps   |-> NameGaps(spanTools) \union tools.gaps]
TurnWith(anchor, members, calls, spanTools) ==
  Turn(anchor, members, calls, spanTools, ToolsOf(spanTools, calls), Outputs(anchor, Speaking(calls)))
TurnAmong(analysis, anchor, members) ==
  TurnWith(anchor, members, LlmCalls(analysis, members), ToolCallsFromSpans(analysis, members))
TurnOf(analysis, anchor) == TurnAmong(analysis, anchor, Members(analysis, anchor))

TurnsOf(analysis) ==
  FoldLeft(LAMBDA turns, anchor : Append(turns, TurnOf(analysis, anchor)), <<>>, Anchors(analysis))
ExtractTurns(trace) == TurnsOf(Analyze(trace))

-----------------------------------------------------------------------------
(* Conversations: turns of several traces, continuations joined.           *)

FirstCall(calls) == SortCalls(calls)[1]
IdsNamed(parts) == {part.id : part \in Range(parts)} \ {0}

Answers(requested, asked, answered) ==
  IF asked # {} /\ answered # {} THEN asked \intersect answered # {} ELSE requested # <<>>
ContinuesFrom(requested, input) ==
  /\ EndsWithToolResponse(input)
  /\ Answers(requested, IdsNamed(requested), IdsNamed(ToolResponsesOf(input)))
ContinuesTurn(previous, turn) ==
  /\ turn.kind = "root" /\ turn.calls # <<>> /\ previous.calls # <<>>
  /\ ContinuesFrom(ToolCallsOf(LatestCall(previous.calls).output), FirstCall(turn.calls).input)

MaybeContinues(previous, turn) ==
  /\ turn.kind = "root" /\ turn.calls # <<>> /\ previous.calls # <<>>
  /\ FirstCall(turn.calls).input = <<>> /\ LatestCall(previous.calls).finish = "tool_calls"

Merged(previous, turn, calls, tools) ==
  [previous EXCEPT
    !.refs = @ \o turn.refs,
    !.user = OrElse(@, turn.user),
    !.final = OrElse(turn.final, @),
    !.middle = @ \o (IF turn.final # <<>> THEN previous.final ELSE <<>>) \o turn.middle,
    !.calls = calls,
    !.tools = tools.tools,
    !.usage = AddUsage(@, turn.usage),
    !.start = Min({@, turn.start}),
    !.end = Max({@, turn.end}),
    !.status = IF @ # "error" /\ turn.status = "error" THEN "error" ELSE @,
    !.gaps = @ \union turn.gaps \union tools.gaps]
MergeCalls(previous, turn, calls) ==
  Merged(previous, turn, calls,
         ToolsOf(SelectSeq(previous.tools \o turn.tools, LAMBDA t : t.ref # 0), calls))
MergeTurns(previous, turn) == MergeCalls(previous, turn, SortCalls(previous.calls \o turn.calls))

Join(out, turn) ==
  IF out = <<>> THEN <<turn>>
  ELSE IF ContinuesTurn(Last(out), turn) THEN Append(Front(out), MergeTurns(Last(out), turn))
  ELSE IF MaybeContinues(Last(out), turn) THEN Append(out, [turn EXCEPT !.gaps = @ \union {"possible_continuation"}])
  ELSE Append(out, turn)
JoinContinuations(turns) == FoldLeft(Join, <<>>, turns)

\* Turns in start order, ties by the anchor's id.
InTurnOrder(turns) ==
  Sorted(turns, LAMBDA a, b : a.start < b.start \/ (a.start = b.start /\ Head(a.refs) < Head(b.refs)))

ExtractConversation(traces) ==
  JoinContinuations(InTurnOrder(UNION {Range(ExtractTurns(traces[n])) : n \in DOMAIN traces}))
=============================================================================
