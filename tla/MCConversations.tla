--------------------------- MODULE MCConversations ---------------------------
(***************************************************************************)
(* Scenarios for Conversations: shapes of traces, shapes of turns, agents  *)
(* that record nothing but provider calls, and late log records.           *)
(***************************************************************************)
EXTENDS Conversations

Part(type, id, name, value) == [type |-> type, id |-> id, name |-> name, value |-> value]
Text(role, value) == [role |-> role, parts |-> <<Part("text", 0, "", value)>>]
Asks(parts) == [role |-> "assistant", parts |-> parts]
Gives(parts) == [role |-> "tool", parts |-> parts]

Span(trace, id, parent, start, op) ==
  [trace |-> trace, id |-> id, parent |-> parent, start |-> start, end |-> start + 1, status |-> "ok",
   op |-> op, name |-> "", adk |-> FALSE, merged |-> FALSE, identity |-> FALSE,
   own |-> <<>>, alias |-> <<>>, adkGiven |-> <<>>, indexed |-> <<>>, events |-> <<>>]
Model(span, input, output) == [span EXCEPT !.own = [input |-> input, output |-> output, usage |-> 1]]
Tool(span, name, callId, result) ==
  [span EXCEPT !.own = [tool |-> name, callId |-> callId, result |-> result]]
Scenario(spans, logs, shuffled) == [spans |-> spans, logs |-> logs, shuffled |-> shuffled]

\* Shapes of one trace: any parents and starts, in any order; and a retried
\* span whose copies differ.
TreeShapes ==
  {Scenario({Span(1, i, parents[i], starts[i], "chat") : i \in 1 .. 3}, {}, TRUE) :
     parents \in {p \in [1 .. 3 -> {0, 1, 2, 3, 9}] : p[1] \in {2, 3, 9}},
     starts \in {s \in [1 .. 3 -> {1, 2}] : s[1] = 2}}
Copies ==
  {Scenario({Span(1, 1, 0, 1, "invoke_agent"), Span(1, 2, p, 2, "chat"), Span(1, 2, q, 1, "chat"),
             Span(2, 3, r, 1, "chat")}, {}, TRUE) :
     p, q \in {0, 1}, r \in {0, 2}}

\* Shapes of a turn: every forest of four spans and every kind.
Filled4(span) ==
  IF span.op = "chat" THEN Model(span, <<Text("user", "hi")>>, <<Text("assistant", "out")>>)
  ELSE IF span.op = "execute_tool" THEN Tool(span, "f", 0, "r")
  ELSE span
TurnShapes ==
  {Scenario({Filled4(Span(1, i, parents[i], i, ops[i])) : i \in 1 .. 4}, {}, FALSE) :
     parents \in {p \in [1 .. 4 -> 0 .. 3] : p[1] = 0 /\ p[2] = 1 /\ \A i \in 3 .. 4 : p[i] < i},
     ops \in [1 .. 4 -> {"invoke_agent", "chat", "execute_tool", ""}]}

\* Provider calls only, a trace each: the first asks for one or two tools, the
\* second answers and asks again, and a third answers that.
AskedFor == {<<Part("call", i, n, "")>> : i \in {0, 1}, n \in {"f", "g"}}
              \union {<<Part("call", i, "f", ""), Part("call", 2, n, "")>> : i \in {0, 1}, n \in {"f", "g"}}
Answered == {<<Part("response", i, "f", "a")>> : i \in {0, 1, 2}}
              \union {<<Part("response", i, "f", "a"), Part("response", j, n, "b")>> :
                        i, j \in {0, 1, 2}, n \in {"", "g"}}
Continued ==
  {Scenario({Model(Span(1, 1, 0, 1, "chat"), <<Text("user", "hi")>>, <<Asks(asked)>>),
             Model(Span(2, 2, 0, 3, "chat"), <<Gives(first)>>, <<Asks(<<Part("call", 2, "f", "")>>)>>),
             Model(Span(3, 3, 0, 5, "chat"), <<Gives(<<Part("response", last, "f", "c")>>)>>,
                   <<Text("assistant", "done")>>)}, {}, FALSE) :
     asked \in AskedFor, first \in Answered, last \in {0, 2}}

\* The same with a span for each tool, without a result of its own.
WithToolSpans ==
  {Scenario({Model(Span(1, 1, 0, 1, "chat"), <<Text("user", "hi")>>, <<Asks(asked)>>),
             Tool(Span(1, 2, 1, 2, "execute_tool"), "f", id, ""),
             Model(Span(2, 3, 0, 3, "chat"), <<Gives(first)>>, <<Asks(<<Part("call", 2, "f", "")>>)>>),
             Tool(Span(2, 4, 3, 4, "execute_tool"), "f", id2, ""),
             Model(Span(3, 5, 0, 5, "chat"), <<Gives(<<Part("response", 2, "f", "c")>>)>>,
                   <<Text("assistant", "done")>>)}, {}, FALSE) :
     asked \in AskedFor, first \in Answered, id \in {0, 1}, id2 \in {0, 2}}

\* What is on the spans against what comes late: details twice, a message event,
\* and a record that names no span, for two model calls or one.
Event(trace, span, name, time, given, message) ==
  [trace |-> trace, span |-> span, name |-> name, time |-> time, given |-> given, message |-> message]
Says(value) == [output |-> <<Text("assistant", value)>>]
LateLogs ==
  {Scenario({[Span(1, 1, 0, 1, IF own = [usage |-> 1] THEN "" ELSE "chat")
                EXCEPT !.own = own, !.identity = TRUE, !.indexed = weak.indexed, !.adkGiven = weak.adk, !.events = events],
             Span(1, 2, 1, 2, second)},
            {Event(1, 1, Details, 1, Says("log") @@ [finish |-> "tool_calls"], <<>>),
             Event(1, 1, Details, 2, Says("log again") @@ [usage |-> 2], <<>>),
             Event(1, 1, "gen_ai.choice", 3, [finish |-> "stop"], Text("assistant", "choice")),
             Event(1, 0, "gen_ai.user.message", 1, <<>>, Text("user", "asked"))}, FALSE) :
     own \in {<<>>, [usage |-> 1], Says("own"), Says(Placeholder)},
     weak \in {[indexed |-> <<>>, adk |-> <<>>], [indexed |-> Says("indexed"), adk |-> <<>>],
               [indexed |-> Says("indexed"), adk |-> Says("adk")]},
     events \in {<<>>, <<Event(1, 1, Details, 1, Says("event"), <<>>)>>,
                 <<Event(1, 1, "gen_ai.choice", 1, <<>>, Text("assistant", "said"))>>},
     second \in {"chat", "execute_tool"}}

AllScenarios == TreeShapes \union Copies \union TurnShapes \union Continued \union WithToolSpans \union LateLogs
=============================================================================
