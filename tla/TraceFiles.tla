------------------------------ MODULE TraceFiles ------------------------------
(***************************************************************************)
(* Trace files (loader/): recognised, read leniently, and written again as *)
(* the document a session is downloaded as (otel/encode.py,                *)
(* LiveManager.session_document).                                          *)
(*                                                                         *)
(* A file is [whole, parts]: whole says whether its text is one JSON       *)
(* value, and of what shape ("object", "list") or "no"; parts are the      *)
(* objects in it, or its lines.  A part is [is, doc]: a "document", a      *)
(* "span", a trace of "jaeger", "other", or "no json".                     *)
(***************************************************************************)
EXTENDS Codec

CONSTANTS
  Files,
  Formats,     \* formats asked for, "" for none
  MaxSaves     \* bound: how often a file is written again

VARIABLES
  file, format,
  loaded,     \* "no", "refused" or "yes"
  found,      \* the decoded spans and logs, with the reasons of refusals
  written,    \* what the last document was written from
  saves

fvars == <<file, format, loaded, found, written, saves>>

-----------------------------------------------------------------------------
(* Jaeger: [trace, span, refs, tags, process], with refs [type, trace,     *)
(* span]; a file's part has [processes, items].                            *)

Of(id) == NormalizeId(id, FALSE)

\* The first reference CHILD_OF with an id is the parent, of whatever trace it
\* names; every other is a link, by default within the trace.
ParentAt(refs) ==
  LET children == {n \in DOMAIN refs : refs[n].type = "CHILD_OF"}
  IN  IF children = {} THEN 0 ELSE CHOOSE n \in children : \A o \in children : n <= o
JaegerLink(ref, trace) ==
  [trace |-> IF Of(ref.trace) = NoId THEN trace ELSE Of(ref.trace), span |-> Of(ref.span)]
JaegerSpanWith(raw, refs, parent, resource) ==
  [trace |-> Of(raw.trace), span |-> Of(raw.span),
   parent |-> IF parent = 0 THEN NoId ELSE Of(refs[parent].span),
   links |-> LET rest == SelectSeq([n \in DOMAIN refs |-> n], LAMBDA n : n # parent)
             IN  [n \in DOMAIN rest |-> JaegerLink(refs[rest[n]], Of(raw.trace))],
   attrs |-> AttributesOf(raw.tags), resource |-> resource]
JaegerSpan(raw, refs, resource) == JaegerSpanWith(raw, refs, ParentAt(refs), resource)

\* A process that is not there is a resource of the span's own.
ProcessOf(part, raw, n) ==
  IF raw.process \in DOMAIN part.processes
    THEN [nr |-> <<raw.process>>, attrs |-> AttributesOf(part.processes[raw.process])]
    ELSE [nr |-> <<"own", n>>, attrs |-> <<>>]
AddJaeger(acc, part, raw, n) ==
  IF ~raw.object THEN acc
  ELSE Keep(acc, IF Valid({raw.trace, raw.span}, FALSE) THEN "" ELSE "invalid id",
            JaegerSpan(raw, SelectSeq(raw.refs, LAMBDA r : Of(r.span) # NoId), ProcessOf(part, raw, n)))
DecodeJaeger(part) ==
  FoldLeft(LAMBDA acc, n : AddJaeger(acc, part, part.items[n], n), NothingDecoded,
           [n \in DOMAIN part.items |-> n])

-----------------------------------------------------------------------------
(* Loading.                                                                *)

Refused == [spans |-> NothingDecoded, logs |-> NothingDecoded, refused |-> TRUE]
Both(spans, logs) == [spans |-> spans, logs |-> logs, refused |-> FALSE]

\* _classify: one value by its shape, lines by the first of them.
Spanlike(parts) == \A n \in DOMAIN parts : parts[n].is = "span"
FormatOf(f) ==
  IF f.parts = <<>> THEN ""
  ELSE CASE f.whole = "no" -> IF f.parts[1].is \in {"document", "span"} THEN "otlp-json" ELSE ""
         [] f.whole = "list" -> IF Spanlike(f.parts) THEN "otlp-json" ELSE ""
         [] f.whole = "object" ->
              IF f.parts[1].is \in {"document", "span"} THEN "otlp-json"
              ELSE IF f.parts[1].is = "jaeger" THEN "jaeger-json" ELSE ""

SpansIn(parts) == [n \in DOMAIN parts |-> parts[n].doc]
DecodedDocument(doc) ==
  LET both == DecodeJsonDocument(doc, FALSE) IN Both(both.spans, both.logs)
\* _decode_obj.
DecodeObject(f, fmt) ==
  IF fmt = "jaeger-json"
    THEN IF f.whole = "object" /\ f.parts[1].is = "jaeger"
           THEN Both(DecodeJaeger(f.parts[1].doc), NothingDecoded) ELSE Refused
  ELSE IF f.whole = "object" /\ f.parts[1].is = "document" THEN DecodedDocument(f.parts[1].doc)
  ELSE IF f.whole = "list" \/ f.parts[1].is = "span"
    THEN Both(DecodeBareSpans(SpansIn(f.parts), FALSE), NothingDecoded)
  ELSE Refused

\* decode_otlp_text, for text that is not one value: blank lines are passed
\* over and every other line is an export document or a span.
Lines(parts) == SelectSeq(parts, LAMBDA p : p.is # "blank")
Extend(acc, more) == [items |-> acc.items \o more.items, reasons |-> acc.reasons \o more.reasons]
ExtendDocument(acc, both) ==
  [acc EXCEPT !.spans = Extend(@, both.spans), !.logs = Extend(@, both.logs)]
DecodeLines(parts) ==
  IF \E n \in DOMAIN parts : parts[n].is \notin {"document", "span"} THEN Refused
  ELSE ExtendDocument(
    FoldLeft(LAMBDA acc, p : ExtendDocument(acc, DecodedDocument(p.doc)), Both(NothingDecoded, NothingDecoded),
             SelectSeq(parts, LAMBDA p : p.is = "document")),
    Both(DecodeBareSpans(SpansIn(SelectSeq(parts, LAMBDA p : p.is = "span")), FALSE), NothingDecoded))

\* A number that is not finite ends the loader.
SpansOf(part) == CASE part.is = "document" -> ItemsOf(part.doc.spans) [] part.is \in {"span", "other"} -> <<part.doc>>
                   [] part.is = "jaeger" -> part.doc.items [] OTHER -> <<>>
LogsIn(part) == IF part.is = "document" THEN ItemsOf(part.doc.logs) ELSE <<>>
Raises(f) == \E n \in DOMAIN f.parts :
  \/ \E raw \in Range(SpansOf(f.parts[n])) : RaisesOn(SpanRefusal(raw, FALSE), raw)
  \/ \E raw \in Range(LogsIn(f.parts[n])) : RaisesOn(LogRefusal(raw, FALSE), raw)

\* load_telemetry_text.
LoadText(f, fmt) ==
  IF fmt = "" \/ Raises(f) THEN Refused
  ELSE IF f.whole # "no" /\ f.parts # <<>> THEN DecodeObject(f, fmt)
  ELSE IF fmt = "jaeger-json" THEN Refused ELSE DecodeLines(Lines(f.parts))
LoadTelemetry(f, asked) == LoadText(f, IF asked = "" THEN FormatOf(f) ELSE asked)

-----------------------------------------------------------------------------
(* Writing.                                                                *)

\* build_traces, as far as encode_traces reads it: the first copy of a span and
\* the logs of traces that have one, in any order of traces.
FirstCopies(spans) ==
  LET at == SelectSeq([n \in DOMAIN spans |-> n], LAMBDA n : \A m \in 1 .. n - 1 :
              spans[m].trace # spans[n].trace \/ spans[m].span # spans[n].span)
  IN  [n \in DOMAIN at |-> spans[at[n]]]

\* Mutant: only the logs of spans, without those that name no span of the trace.
OfSpans(logs, spans) ==
  SelectSeq(logs, LAMBDA l : \E n \in DOMAIN spans : spans[n].trace = l.trace /\ spans[n].span = l.span)
Attributed(logs, spans) ==
  SelectSeq(logs, LAMBDA l : \E n \in DOMAIN spans : spans[n].trace = l.trace)

\* session_document: every resource names the session, by its own name if it has one.
SessionName == "agentevals.session_name"
Stamp(groups) ==
  [n \in DOMAIN groups |->
     IF \E e \in Range(groups[n].resource.attrs.entries) : e.key = SessionName THEN groups[n]
     ELSE [groups[n] EXCEPT !.resource.attrs.entries =
             Append(@, [key |-> SessionName, value |-> [depth |-> 0, leaf |-> "s"]])]]
Stamped(doc) == [doc EXCEPT !.spans = Stamp(@), !.logs = Stamp(@)]
SessionDocument(spans, logs) ==
  Stamped(EncodeDocument(FirstCopies(spans), Attributed(logs, spans)))

TraceFilesInit(files, formats) ==
  /\ file \in files /\ format \in formats
  /\ loaded = "no" /\ found = Refused /\ written = Refused /\ saves = 0

LoadOnce(result) ==
  /\ found' = result
  /\ loaded' = IF result.refused THEN "refused" ELSE "yes"
Load ==
  /\ loaded = "no"
  /\ LoadOnce(LoadTelemetry(file, format))
  /\ UNCHANGED <<file, format, written, saves>>

\* The session is downloaded, and is the next file.
Save ==
  /\ loaded = "yes" /\ saves < MaxSaves
  /\ file' = [whole |-> "object",
              parts |-> <<[is |-> "document", doc |-> SessionDocument(found.spans.items, found.logs.items)]>>]
  /\ format' = "" /\ loaded' = "no" /\ written' = found /\ saves' = saves + 1
  /\ UNCHANGED found

TraceFilesNext == Load \/ Save

(***************************************************************************)
(* Properties.                                                             *)
(***************************************************************************)

Objects(raws) == Len(SelectSeq(raws, LAMBDA r : r.object))
InFile == SumOf([n \in DOMAIN file.parts |->
  Len(LogsIn(file.parts[n])) +
    IF file.parts[n].is = "jaeger" THEN Objects(SpansOf(file.parts[n])) ELSE Len(SpansOf(file.parts[n]))])
InHand == Len(found.spans.items \o found.logs.items) + Len(found.spans.reasons \o found.logs.reasons)

\* What of an item a reader can tell: attributes without a value are as good as
\* none, and the stamp is not the item's.
Plain(attrs) == [key \in {k \in DOMAIN attrs \ {SessionName} : attrs[k].leaf # Null} |-> attrs[key]]
Seen(item) == [item EXCEPT !.attrs = Plain(@), !.resource = Plain(@.attrs)]
Contents(result) ==
  LET spans == Range(FirstCopies(result.spans.items))
      logs  == {l \in Range(result.logs.items) : l.trace \in {s.trace : s \in spans}}
  IN  [spans |-> {Seen(s) : s \in spans}, logs |-> {Seen(l) : l \in logs}]

\* A file is refused as a whole or every span and record in it is read or is
\* counted with a reason, and lines that all are exports or spans are not
\* refused; a session written as a file, ids out of the ordinary and values cut
\* off included, is read as the session it was, all of it under its name
\* (auto.py:56-136, otlp.py:31-70, jaeger.py:73-160, encode.py:147-190).
FilesAreReadInFull ==
  /\ loaded = "yes" => InHand = InFile
  /\ loaded = "refused" /\ format # "jaeger-json" /\ file.whole = "no" /\ file.parts # <<>> /\ ~Raises(file) =>
       \E n \in DOMAIN file.parts : file.parts[n].is \notin {"document", "span", "blank"}
  /\ saves > 0 /\ loaded # "no" =>
       /\ loaded = "yes" /\ Contents(found) = Contents(written)
       /\ \A item \in Range(found.spans.items) \union Range(found.logs.items) :
            SessionName \in DOMAIN item.resource.attrs
=============================================================================
