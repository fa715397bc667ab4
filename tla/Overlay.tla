------------------------------- MODULE Overlay -------------------------------
(***************************************************************************)
(* genai/overlay.py with the readers of genai/messages.py: what one span   *)
(* says, from its attributes, its events and the log records joined to it. *)
(*                                                                         *)
(* A source gives values for some keys: a function whose domain is the     *)
(* keys it has.  A raw span has the fields of TraceTree and end, status,   *)
(* op (its operation attribute), name, adk (its scope is ADK's), merged    *)
(* (the name of its tool is ADK's for merged spans), identity (model and   *)
(* provider are among its attributes), the sources own, alias, adkGiven    *)
(* and indexed, and its events.  Events and log records are                *)
(* [trace, span, name, time, given, message]; span is 0 on a log record    *)
(* that names none.  System instructions and tool definitions are read     *)
(* like input and output, the other scalars like usage.                    *)
(***************************************************************************)
EXTENDS TraceTree

NoUsage == -1
Placeholder == "<elided>"        \* content that was not captured
Unspecified == "<not specified>" \* a tool name or result that is none

MessageKeys == {"input", "output"}
Keys == MessageKeys \union {"agent", "tool", "callId", "result", "usage", "finish"}
DetailsKeys == MessageKeys \union {"usage", "finish"}

Absent == [key \in Keys |-> CASE key \in MessageKeys -> <<>>
                              [] key = "usage" -> NoUsage
                              [] key = "callId" -> 0
                              [] OTHER -> ""]

-----------------------------------------------------------------------------
(* Messages: a role and parts, a part is [type, id, name, value].          *)

IsText(part) == part.type = "text" /\ part.value \notin {"", Placeholder}
HasContent(messages) ==
  \E n \in DOMAIN messages : \E part \in Range(messages[n].parts) : part.type # "text" \/ IsText(part)

\* A list without content is none.
ParseMessages(messages) == IF HasContent(messages) THEN messages ELSE <<>>

PartsOf(messages, type) ==
  SelectSeq(FlattenSeq([n \in DOMAIN messages |-> messages[n].parts]),
            LAMBDA part : part.type = type)
TextOf(messages) ==
  LET texts == SelectSeq(PartsOf(messages, "text"), IsText)
  IN  [n \in DOMAIN texts |-> texts[n].value]
HasText(messages) == TextOf(messages) # <<>>
ToolCallsOf(messages) == SelectSeq(PartsOf(messages, "call"), LAMBDA part : part.name # "")
ToolResponsesOf(messages) == PartsOf(messages, "response")

EndsWithToolResponse(messages) ==
  /\ messages # <<>>
  /\ \/ Last(messages).role = "tool"
     \/ /\ Last(messages).parts # <<>>
        /\ \A part \in Range(Last(messages).parts) : part.type = "response"

\* The trailing run of user messages with text.
UserTurnMessages(messages) ==
  LET said == {n \in DOMAIN messages : messages[n].role = "user" /\ HasText(<<messages[n]>>)}
      run  == {n \in said : \A m \in DOMAIN messages :
                 (m >= n /\ \E l \in said : m <= l) => m \in said}
      at   == Sorted(run, <)
  IN  [n \in DOMAIN at |-> messages[at[n]]]

-----------------------------------------------------------------------------
(* The sources of a span, strongest first.                                 *)

Details == "gen_ai.client.inference.operation.details"
LegacyMessages == {"gen_ai.user.message", "gen_ai.assistant.message", "gen_ai.tool.message", "gen_ai.choice"}

\* Mutant: details of log records come before those of events.
DetailsLogsFirst(raw, logs) ==
  LET found == SelectSeq(logs \o raw.events, LAMBDA e : e.name = Details)
  IN  [n \in DOMAIN found |-> [k \in DOMAIN found[n].given \intersect DetailsKeys |-> found[n].given[k]]]

\* Details come as span events first, then as log records.
DetailsOf(raw, logs) ==
  LET found == SelectSeq(raw.events \o logs, LAMBDA e : e.name = Details)
  IN  [n \in DOMAIN found |-> [k \in DOMAIN found[n].given \intersect DetailsKeys |-> found[n].given[k]]]

\* Message events: those of the span if it has any, else the log records by time.
LegacyEvents(raw, logs) ==
  LET own    == SelectSeq(raw.events, LAMBDA e : e.name \in LegacyMessages)
      joined == SelectSeq(logs, LAMBDA e : e.name \in LegacyMessages)
      order  == Sorted(DOMAIN joined, LAMBDA m, n :
                  joined[m].time < joined[n].time \/ (joined[m].time = joined[n].time /\ m < n))
  IN  IF own # <<>> THEN own ELSE [n \in DOMAIN order |-> joined[order[n]]]

\* A choice is said by the model, everything else to it; content that is a
\* placeholder has no parts, and a message without parts is left out.
LegacyOf(raw, logs) ==
  LET events == LegacyEvents(raw, logs)
      said(choices) ==
        LET some == SelectSeq(events, LAMBDA e : (e.name = "gen_ai.choice") = choices /\ HasContent(<<e.message>>))
        IN  [n \in DOMAIN some |-> some[n].message]
      reasons == SelectSeq(events, LAMBDA e : e.name = "gen_ai.choice" /\ HasContent(<<e.message>>)
                                                /\ "finish" \in DOMAIN e.given)
  IN  [input |-> said(FALSE), output |-> said(TRUE),
       finish |-> IF reasons = <<>> THEN "" ELSE Head(reasons).given["finish"]]

\* ADK says "<not specified>" for a result there is none of.
AdkOf(raw) ==
  [k \in {k \in DOMAIN raw.adkGiven : raw.adkGiven[k] # Unspecified} |-> raw.adkGiven[k]]

Sources(raw, logs) ==
  <<raw.own, raw.alias>> \o DetailsOf(raw, logs) \o <<LegacyOf(raw, logs)>>
    \o (IF raw.adk \/ DOMAIN raw.adkGiven # {} THEN <<AdkOf(raw)>> ELSE <<>>) \o <<raw.indexed>>

\* What a source says of a key.
Given(source, key) ==
  IF key \notin DOMAIN source THEN Absent[key]
  ELSE IF key \in MessageKeys THEN ParseMessages(source[key]) ELSE source[key]

\* The first source that says something says it all.
Filled(sources, key) ==
  FoldLeft(LAMBDA value, source : IF value # Absent[key] THEN value ELSE Given(source, key),
           Absent[key], sources)

-----------------------------------------------------------------------------
(* Operation and kind, from the attributes alone.                          *)

RecordsACall(raw) ==
  \/ (DOMAIN raw.own \union DOMAIN raw.alias) \intersect {"input", "output", "usage"} # {}
  \/ DOMAIN raw.indexed # {}
Operation(raw) ==
  CASE raw.op # "" -> raw.op
    [] raw.op = "" /\ raw.adk /\ raw.name = "call_llm" -> "generate_content"
    [] raw.op = "" /\ raw.adk /\ raw.name = "invocation" -> "invoke_workflow"
    [] raw.op = "" /\ ~(raw.adk /\ raw.name \in {"call_llm", "invocation"}) ->
         IF raw.identity /\ RecordsACall(raw) THEN "chat" ELSE ""

Classify(raw) ==
  CASE raw.merged -> "ignored"
    [] ~raw.merged /\ Operation(raw) \in {"chat", "generate_content", "text_completion"} -> "inference"
    [] ~raw.merged /\ Operation(raw) = "invoke_agent" -> "agent"
    [] ~raw.merged /\ Operation(raw) = "invoke_workflow" -> "workflow"
    [] ~raw.merged /\ Operation(raw) = "execute_tool" -> "tool"
    [] OTHER -> "other"

ViewOf(raw, logs) ==
  LET filled == [key \in Keys |-> Filled(Sources(raw, logs), key)]
      named  == IF filled["tool"] = Unspecified THEN "" ELSE filled["tool"]
  IN  [trace |-> raw.trace, id |-> raw.id, parent |-> raw.parent, start |-> raw.start, end |-> raw.end,
       kind |-> Classify(raw), status |-> raw.status, agent |-> filled["agent"], tool |-> named,
       callId |-> filled["callId"], result |-> filled["result"], input |-> filled["input"],
       output |-> filled["output"], usage |-> filled["usage"], finish |-> filled["finish"]]

-----------------------------------------------------------------------------
(* Log records of a trace.                                                 *)

LogsOf(logs, raw) == SelectSeq(logs, LAMBDA l : l.trace = raw.trace /\ l.span = raw.id)

\* A record that names no span is read with the only model call of its trace.
LooseLogs(logs, raws, raw) ==
  IF Classify(raw) = "inference" /\ \A r \in Range(raws) : Classify(r) = "inference" => r = raw
    THEN SelectSeq(logs, LAMBDA l : l.trace = raw.trace /\ l.span = 0) ELSE <<>>

Viewed(trace, logs) ==
  [trace EXCEPT !.spans = [n \in DOMAIN trace.spans |->
     ViewOf(trace.spans[n], LogsOf(logs, trace.spans[n]) \o LooseLogs(logs, trace.spans, trace.spans[n]))]]
=============================================================================
