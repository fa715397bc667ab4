-------------------------------- MODULE Codec --------------------------------
(***************************************************************************)
(* OTLP exports decoded into spans and log records and encoded again       *)
(* (otel/decode.py, otel/encode.py), from JSON and from protobuf.          *)
(*                                                                         *)
(* A raw item has the fields [object, trace, span, parent, links, attrs,   *)
(* event, body, number]; spans leave event and body unread, log records    *)
(* parent and links.  Names, times, kinds, states and counters are copied  *)
(* and stand as number, which tells a number apart from one that is not    *)
(* finite.  A group is what one resource and scope hold.                   *)
(***************************************************************************)
EXTENDS Integers, Sequences, FiniteSets, SequencesExt

CONSTANT MaxDepth   \* MAX_ANY_VALUE_DEPTH

ASSUME CodecAssumption == MaxDepth \in Nat

-----------------------------------------------------------------------------
(* Ids: [form, of].  "hex" and "bytes" are of the right length and not     *)
(* zero, "HEX" is the same in capitals or between blanks, "base64" has the *)
(* right number of bytes, "absent" is no field or an empty one, and "zero" *)
(* and "not a string" are what they say; "other" is any other string.      *)

NoId == [as |-> "none", of |-> 0]
NormalizeId(raw, strict) ==
  IF raw.form \in {"hex", "HEX", "bytes"} \/ (raw.form = "base64" /\ ~strict)
    THEN [as |-> "hex", of |-> raw.of]
  ELSE IF raw.form = "other" /\ ~strict THEN [as |-> "as is", of |-> raw.of]
  ELSE NoId

-----------------------------------------------------------------------------
(* Values: a leaf below some lists.                                        *)

Unset == "unset"     \* an object without a value
Bad   == "bad"       \* a double that is not a number
Null  == "null"      \* None

HasAnyValue(v) == v.depth > 0 \/ v.leaf # Unset
AnyValue(v) ==
  IF v.depth > MaxDepth THEN [depth |-> MaxDepth + 1, leaf |-> Null]
  ELSE [v EXCEPT !.leaf = IF @ \in {Unset, Bad} THEN Null ELSE @]

\* [dict, entries]: a list of entries, where one without a value is skipped and
\* of a key the last one stays, or a dict, which has what it has.
LastValue(entries) == AnyValue(Last(entries).value)
AttributesOf(entries) ==
  [key \in {e.key : e \in Range(entries)} |-> LastValue(SelectSeq(entries, LAMBDA e : e.key = key))]
AttributesFrom(attrs) ==
  AttributesOf(SelectSeq(attrs.entries, LAMBDA e : attrs.dict \/ HasAnyValue(e.value)))

-----------------------------------------------------------------------------
(* Spans and log records from JSON, with the reason of a refusal.          *)

Valid(ids, strict) == \A id \in ids : NormalizeId(id, strict) # NoId

SpanRefusal(raw, strict) ==
  IF ~raw.object THEN "not an object"
  ELSE IF Valid({raw.trace, raw.span}, strict) THEN ""
  ELSE IF "absent" \in {raw.trace.form, raw.span.form} THEN "no id field" ELSE "invalid id"

\* A parent that is no id is none, and a link without ids is left out.
LinksFrom(links, strict) ==
  LET valid == SelectSeq(links, LAMBDA l : Valid({l.trace, l.span}, strict))
  IN  [n \in DOMAIN valid |-> [trace |-> NormalizeId(valid[n].trace, strict),
                               span |-> NormalizeId(valid[n].span, strict)]]
SpanFrom(raw, resource, strict) ==
  [trace |-> NormalizeId(raw.trace, strict), span |-> NormalizeId(raw.span, strict),
   parent |-> NormalizeId(raw.parent, strict), links |-> LinksFrom(raw.links, strict),
   attrs |-> AttributesFrom(raw.attrs), resource |-> resource]

\* eventName, else the attributes that named it before.
IsName(attrs, key) ==
  key \in DOMAIN attrs /\ attrs[key].depth = 0 /\ attrs[key].leaf \notin {"", Null, "number"}
ResolveEventName(event, attrs) ==
  IF event # "" THEN event
  ELSE IF IsName(attrs, "otel.event.name") THEN attrs["otel.event.name"].leaf
  ELSE IF IsName(attrs, "event.name") THEN attrs["event.name"].leaf ELSE ""

LogRefusal(raw, strict) ==
  IF ~raw.object THEN "not an object"
  ELSE IF strict /\ ~Valid({id \in {raw.trace, raw.span} : id.form # "absent"}, strict)
    THEN "invalid id" ELSE ""

\* A span id without a trace id is none.
LogWith(raw, resource, attrs, trace, span) ==
  [trace |-> trace, span |-> IF trace = NoId THEN NoId ELSE span,
   event |-> ResolveEventName(raw.event, attrs), attrs |-> attrs,
   body |-> AnyValue(raw.body), resource |-> resource]
LogFrom(raw, resource, strict) ==
  LogWith(raw, resource, AttributesFrom(raw.attrs),
          NormalizeId(raw.trace, strict), NormalizeId(raw.span, strict))

-----------------------------------------------------------------------------
(* Documents: [root, spans, logs], the groups under spans and logs, and    *)
(* how the lists are named.                                                *)

SumOf(sizes) == FoldLeft(+, 0, sizes)
ItemsOf(groups) == FlattenSeq([n \in DOMAIN groups |-> groups[n].items])

NothingDecoded == [items |-> <<>>, reasons |-> <<>>]
Keep(acc, refusal, item) ==
  IF refusal = "" THEN [acc EXCEPT !.items = Append(@, item)]
  ELSE [acc EXCEPT !.reasons = Append(@, refusal)]

\* Groups without a resource share the empty one, every other has its own.
ResourceFrom(group, nr) ==
  IF group.resource.given THEN [nr |-> nr, attrs |-> AttributesFrom(group.resource.attrs)]
  ELSE [nr |-> 0, attrs |-> <<>>]

SpansOfGroup(acc, group, resource, strict) ==
  FoldLeft(LAMBDA a, raw : Keep(a, SpanRefusal(raw, strict), SpanFrom(raw, resource, strict)),
           acc, group.items)
DecodeSpans(groups, strict) ==
  FoldLeft(LAMBDA acc, n : SpansOfGroup(acc, groups[n], ResourceFrom(groups[n], n), strict),
           NothingDecoded, [n \in DOMAIN groups |-> n])

LogsOfGroup(acc, group, resource, strict) ==
  FoldLeft(LAMBDA a, raw : Keep(a, LogRefusal(raw, strict), LogFrom(raw, resource, strict)),
           acc, group.items)
DecodeLogs(groups, strict) ==
  FoldLeft(LAMBDA acc, n : LogsOfGroup(acc, groups[n], ResourceFrom(groups[n], n), strict),
           NothingDecoded, [n \in DOMAIN groups |-> n])

ProtoRoots == {"resource_spans", "resource_logs"}
IsOtlpDocument(doc) ==
  doc.root \in {"resourceSpans", "resourceLogs", "batches", "trace"} \union ProtoRoots

\* proto_names_to_json.
WithJsonNames(doc) == IF doc.root \in ProtoRoots THEN [doc EXCEPT !.root = "resourceSpans"] ELSE doc

DecodeJsonDocument(doc, strict) ==
  IF ~IsOtlpDocument(doc) THEN [spans |-> NothingDecoded, logs |-> NothingDecoded]
  ELSE [spans |-> DecodeSpans(doc.spans, strict), logs |-> DecodeLogs(doc.logs, strict)]

DecodeBareSpans(items, strict) ==
  DecodeSpans(<<[resource |-> [given |-> FALSE], items |-> items]>>, strict)

\* A number that is not finite raises where it is read.
RaisesOn(refusal, raw) == refusal = "" /\ raw.number = "not finite"

-----------------------------------------------------------------------------
(* Protobuf, always strict.                                                *)

\* A message is always there; an empty one is the empty resource.
ResourceFromProto(group, nr) ==
  IF group.resource.attrs.entries = <<>> THEN [nr |-> 0, attrs |-> <<>>] ELSE ResourceFrom(group, nr)

SpanFromProto(acc, message, resource) ==
  IF Valid({message.trace, message.span}, TRUE)
    THEN [acc EXCEPT !.items = Append(@, SpanFrom(message, resource, TRUE))]
    ELSE [acc EXCEPT !.reasons = Append(@, "invalid id")]
DecodeTracesProto(groups) ==
  FoldLeft(LAMBDA acc, n :
      FoldLeft(LAMBDA a, message : SpanFromProto(a, message, ResourceFromProto(groups[n], n)),
               acc, groups[n].items),
    NothingDecoded, [n \in DOMAIN groups |-> n])

LogFromProto(acc, message, resource) ==
  IF Valid({id \in {message.trace, message.span} : id.form # "absent"}, TRUE)
    THEN [acc EXCEPT !.items = Append(@, LogFrom(message, resource, TRUE))]
    ELSE [acc EXCEPT !.reasons = Append(@, "invalid id")]
DecodeLogsProto(groups) ==
  FoldLeft(LAMBDA acc, n :
      FoldLeft(LAMBDA a, message : LogFromProto(a, message, ResourceFromProto(groups[n], n)),
               acc, groups[n].items),
    NothingDecoded, [n \in DOMAIN groups |-> n])

-----------------------------------------------------------------------------
(* Encoding.                                                               *)

IdToJson(id) ==
  [form |-> CASE id.as = "hex" -> "hex" [] id.as = "as is" -> "other" [] id = NoId -> "absent",
   of |-> id.of]
ValueToJson(v) == [v EXCEPT !.leaf = IF @ = Null THEN Unset ELSE @]
AttributesToJson(attrs) ==
  LET keys == SetToSeq(DOMAIN attrs)
  IN  [dict |-> FALSE,
       entries |-> [n \in DOMAIN keys |-> [key |-> keys[n], value |-> ValueToJson(attrs[keys[n]])]]]

NoRaw == [object |-> TRUE, parent |-> IdToJson(NoId), links |-> <<>>, event |-> "",
          body |-> [depth |-> 0, leaf |-> Unset], number |-> "fine"]
SpanToJson(span) ==
  [trace |-> IdToJson(span.trace), span |-> IdToJson(span.span), attrs |-> AttributesToJson(span.attrs)]
    @@ [NoRaw EXCEPT !.parent = IdToJson(span.parent),
                     !.links = [n \in DOMAIN span.links |->
                       [trace |-> IdToJson(span.links[n].trace), span |-> IdToJson(span.links[n].span)]]]
LogToJson(log) ==
  [trace |-> IdToJson(log.trace), span |-> IdToJson(log.span), attrs |-> AttributesToJson(log.attrs)]
    @@ [NoRaw EXCEPT !.event = log.event, !.body = ValueToJson(log.body)]

\* One group for each resource, in first-seen order.
ResourcesIn(items) ==
  FoldLeft(LAMBDA seen, i : IF Contains(seen, i.resource) THEN seen ELSE Append(seen, i.resource), <<>>, items)
ResourceToJson(resource) == [given |-> TRUE, attrs |-> AttributesToJson(resource.attrs)]
HeldBy(items, resource) == SelectSeq(items, LAMBDA i : i.resource = resource)
SpansToJson(own) == [n \in DOMAIN own |-> SpanToJson(own[n])]
LogsToJson(own) == [n \in DOMAIN own |-> LogToJson(own[n])]
SpanGroups(spans, resources) ==
  [n \in DOMAIN resources |->
    [resource |-> ResourceToJson(resources[n]), items |-> SpansToJson(HeldBy(spans, resources[n]))]]
LogGroups(logs, resources) ==
  [n \in DOMAIN resources |->
    [resource |-> ResourceToJson(resources[n]), items |-> LogsToJson(HeldBy(logs, resources[n]))]]
EncodeDocument(spans, logs) ==
  [root |-> "resourceSpans", spans |-> SpanGroups(spans, ResourcesIn(spans)),
   logs |-> LogGroups(logs, ResourcesIn(logs))]
=============================================================================
