------------------------------ MODULE MCExports ------------------------------
(***************************************************************************)
(* Exports and files for Receiver and TraceFiles: sizes around the limits, *)
(* ids of every form, values below and beyond the depth that is read.      *)
(***************************************************************************)
EXTENDS Receiver, TraceFiles

Id(form, of) == [form |-> form, of |-> of]
NoField == Id("absent", 0)
Leaf(depth, leaf) == [depth |-> depth, leaf |-> leaf]
Listed(entries) == [dict |-> FALSE, entries |-> entries]
Entry(key, value) == [key |-> key, value |-> value]
Nothing == Listed(<<>>)

Raw(trace, span) == [object |-> TRUE, trace |-> trace, span |-> span, parent |-> NoField, links |-> <<>>,
  attrs |-> Nothing, event |-> "", body |-> Leaf(0, Unset), number |-> "fine"]
Hex(n) == Id("hex", n)
Plainly == Raw(Hex(1), Hex(1))

\* One after another or none.
UpTo2(S) == {<<>>} \union {<<a>> : a \in S} \union {<<a, b>> : a, b \in S}
Group(given, items) ==
  [resource |-> [given |-> given, attrs |-> Listed(IF given THEN <<Entry("r", Leaf(0, "x"))>> ELSE <<>>)], items |-> items]

-----------------------------------------------------------------------------
Document(root, container, groups) == [root |-> root, container |-> container, groups |-> groups]
OneSpan == Document("resourceSpans", "list", <<Group(TRUE, <<Plainly>>)>>)
Export(media, encoding, signal, declared, chunks, gzip, text, doc) ==
  [grpc |-> FALSE, media |-> media, encoding |-> encoding, signal |-> signal, declared |-> declared,
   chunks |-> chunks, members |-> gzip, text |-> text, doc |-> doc]

\* Bodies of any size, in chunks, against the limits 3, 2, 2 and 2.
Bodies ==
  {Export(media, encoding, "spans", declared, chunks, <<[out |-> 1, end |-> "ok"]>>, "fine", OneSpan) :
     media \in {"json", "none", "protobuf", "other"}, encoding \in {"", "gzip", "other"},
     declared \in {0, 3, 4}, chunks \in {<<>>, <<2>>, <<2, 1>>, <<2, 2>>}}
Gzip(gzip) == Export("json", "gzip", "spans", 0, IF gzip = <<>> THEN <<>> ELSE <<2>>, gzip, "fine", OneSpan)
Zipped ==
  {Gzip(gzip) : gzip \in UpTo2([out : {0, 1, 2, 4}, end : {"ok", "cut", "corrupt"}])
                           \union [1 .. 3 -> [out : {0, 1}, end : {"ok", "corrupt"}]]}

\* Items of every kind in groups of one or of several resources.
RawSpans == {Plainly, Raw(Hex(2), Hex(2)), Raw(Id("base64", 1), Hex(3)), Raw(Hex(1), NoField),
             [Plainly EXCEPT !.object = FALSE], [Plainly EXCEPT !.number = "not finite"]}
RawLogs == {Plainly, Raw(NoField, NoField), Raw(NoField, Hex(1)), Raw(Id("other", 1), Hex(1))}
InGroups(items) ==
  {<<Group(TRUE, <<a, b>>), Group(given, <<c>>)>> : a, b, c \in items, given \in BOOLEAN}
    \union {<<Group(FALSE, <<a>>), Group(FALSE, <<b>>)>> : a, b \in items}
Sent(signal, items) ==
  {Export(media, "", signal, 0, <<1>>, <<>>, "fine", Document(root, "list", groups)) :
     media \in {"json", "protobuf"}, root \in {"resourceSpans"}, groups \in InGroups(items)}
Misread ==
  {Export(media, "", signal, 0, <<1>>, <<>>, text, Document(root, container, <<Group(TRUE, <<Plainly>>)>>)) :
     media \in {"json", "protobuf"}, signal \in {"spans", "logs"}, text \in {"malformed", "not an object", "fine"},
     root \in {"resourceSpans", "resource_spans", "batches"}, container \in {"list", "no list"}}
WellTyped(e) == e.media = "protobuf" => e.text # "not an object" /\ e.doc.root = "resourceSpans" /\ e.doc.container = "list"
                                         /\ \A raw \in Range(ItemsOf(e.doc.groups)) : raw.object /\ raw.number = "fine"
OverGrpc(es) == {[e EXCEPT !.grpc = TRUE, !.media = "protobuf"] : e \in es}
MCExportsSet ==
  LET sent == {e \in Sent("spans", RawSpans) \union Sent("logs", RawLogs) \union Misread : WellTyped(e)}
  IN  Bodies \union Zipped \union sent \union OverGrpc({e \in sent : e.media = "protobuf" /\ e.text = "fine"})

-----------------------------------------------------------------------------
Ids == {Hex(1), Id("HEX", 2), Id("base64", 3), Id("other", 4), Id("zero", 5), NoField}
Values == {Leaf(0, "x"), Leaf(0, Unset), Leaf(0, Bad), Leaf(1, "x"), Leaf(1, Unset), Leaf(2, "x"), Leaf(0, "number")}

Doc(root, spans, logs) == [root |-> root, spans |-> spans, logs |-> logs]
Is(is, doc) == [is |-> is, doc |-> doc]
Filed(whole, parts) == [whole |-> whole, parts |-> parts]

\* One document with ids of every form, for the span, its parent, a link and a
\* log record; and with attributes and a body of every depth.
IdFiles ==
  {Filed("object", <<Is("document", Doc("batches",
     <<Group(TRUE, <<[Raw(t, s) EXCEPT !.parent = p, !.links = <<[trace |-> t, span |-> p]>>], Plainly>>)>>,
     <<Group(TRUE, <<Raw(l, s)>>), Group(FALSE, <<Raw(l, p)>>)>>))>>) :
     t, l, s, p \in Ids}
Named == {"otel.event.name", "event.name", "agentevals.session_name"}
ValueFiles ==
  {Filed("object", <<Is("document", Doc("trace",
     <<Group(TRUE, <<[Plainly EXCEPT !.attrs =
        IF w.leaf = "number" THEN [dict |-> TRUE, entries |-> <<Entry(key, w)>>]
        ELSE Listed(<<Entry("k", v), Entry(key, w)>>)]>>),
       [Group(TRUE, <<Plainly>>) EXCEPT !.resource.attrs = Listed(<<Entry(key, v)>>)]>>,
     <<Group(TRUE, <<[Plainly EXCEPT !.attrs = Listed(<<Entry(key, v)>>), !.body = w, !.event = e]>>)>>))>>) :
     v \in Values, w \in Values, key \in Named \union {"k"}, e \in {"", "named"}}

\* Lines, lists, Jaeger's traces and what is none of them.
Small == Doc("resourceSpans", <<Group(FALSE, <<Plainly>>)>>, <<Group(FALSE, <<Plainly>>)>>)
PartsOfFiles == {Is("document", Small), Is("span", Raw(Hex(2), Hex(2))), Is("span", Raw(Hex(1), NoField)),
                 Is("other", Raw(NoField, NoField)), Is("no json", Plainly), Is("blank", Plainly)}
LineFiles ==
  {Filed("no", <<a, b, c>>) : a \in {p \in PartsOfFiles : p.is # "blank"}, b, c \in PartsOfFiles}
ListFiles ==
  {Filed("list", parts) : parts \in UpTo2({p \in PartsOfFiles : p.is \in {"span", "other"}})}
Reference(type, trace, span) == [type |-> type, trace |-> trace, span |-> span]
JaegerRaw(trace, span, refs, process) ==
  [Raw(trace, span) EXCEPT !.attrs = Nothing] @@ [refs |-> refs, tags |-> <<Entry("k", Leaf(0, "x"))>>, process |-> process]
References == {Reference(t, Id("other", 4), Hex(1)) : t \in {"CHILD_OF", "FOLLOWS_FROM"}}
                \union {Reference("CHILD_OF", NoField, s) : s \in {Hex(2), Id("zero", 5)}}
JaegerFiles ==
  {Filed("object", <<Is("jaeger", [processes |-> [p1 |-> <<Entry("service.name", Leaf(0, "x"))>>],
     items |-> <<JaegerRaw(t, s, refs, process), JaegerRaw(Hex(1), Hex(9), <<>>, "p1"),
                 [JaegerRaw(Hex(1), Hex(8), <<>>, "p1") EXCEPT !.object = FALSE]>>])>>) :
     t, s \in Ids, refs \in UpTo2(References), process \in {"p1", "p2"}}
OtherFiles ==
  {Filed("object", <<p>>) : p \in {q \in PartsOfFiles : q.is \in {"span", "other"}}}
    \union {Filed("object", <<Is("span", [Plainly EXCEPT !.number = "not finite"])>>), Filed("no", <<>>)}
MCFiles == IdFiles \union ValueFiles \union LineFiles \union ListFiles \union JaegerFiles \union OtherFiles
=============================================================================
