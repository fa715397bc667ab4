------------------------------ MODULE TraceTree ------------------------------
(***************************************************************************)
(* otel/model.py: traces built from the spans that have arrived.           *)
(*                                                                         *)
(* A span is a record with at least trace, id, parent and start; ids and   *)
(* traces are numbers above 0, parent 0 stands for none.  A trace keeps    *)
(* its spans in arrival order, the effective parents, and the spans that   *)
(* were made roots to break a cycle.                                       *)
(***************************************************************************)
EXTENDS Integers, Sequences, FiniteSets, SequencesExt

\* _order_key.
Precedes(a, b) == a.start < b.start \/ (a.start = b.start /\ a.id < b.id)

\* The elements of a set in the order of Before, a strict total order on them.
Sorted(S, Before(_, _)) ==
  LET at(n) == CHOOSE s \in S : Cardinality({t \in S : Before(t, s)}) = n - 1
  IN  <<>> \o [n \in 1 .. Cardinality(S) |-> at(n)]
InOrder(spans) == Sorted(spans, Precedes)
Earliest(spans) == CHOOSE s \in spans : \A t \in spans : s = t \/ Precedes(s, t)

\* The first copy of a span id wins.
WithoutCopies(spans) ==
  FoldLeft(LAMBDA kept, s : IF \E n \in DOMAIN kept : kept[n].id = s.id
                              THEN kept ELSE Append(kept, s), <<>>, spans)

IdsOf(spans) == {spans[n].id : n \in DOMAIN spans}
SpanOf(spans, i) == spans[CHOOSE n \in DOMAIN spans : spans[n].id = i]

\* A parent that is absent, or the span itself, is none.
RawParents(spans) ==
  [i \in IdsOf(spans) |->
     LET p == SpanOf(spans, i).parent
     IN  IF p # i /\ p \in IdsOf(spans) THEN p ELSE 0]

\* The path up from a span until it ends, meets a span that was dealt with, or
\* closes a cycle; one more than all spans is never needed.
PathUp(parents, done, start) ==
  LET up[n \in 0 .. Cardinality(DOMAIN parents)] ==
        IF n = 0 THEN <<start>>
        ELSE LET path == up[n - 1]
                 next == parents[Last(path)]
             IN  IF next = 0 \/ next \in done \/ next \in Range(path) THEN path ELSE Append(path, next)
  IN  up[Cardinality(DOMAIN parents)]

\* The members of the cycle a path runs into, if any.
CycleOf(parents, path) ==
  LET next == parents[Last(path)]
      from == {n \in DOMAIN path : path[n] = next}
  IN  {path[n] : n \in {n \in DOMAIN path : \E m \in from : m <= n}}

\* One pass over the spans in arrival order; in a cycle the member that started
\* first becomes a root.
Cut(tree, path, root) ==
  [parents |-> [tree.parents EXCEPT ![root] = 0],
   broken  |-> tree.broken \union {root},
   done    |-> tree.done \union Range(path)]

\* Mutant: the cycle is cut where the walk up came back.
FollowLast(tree, spans, path, cycle) ==
  IF cycle = {} THEN [tree EXCEPT !.done = @ \union Range(path)] ELSE Cut(tree, path, Last(path))

Follow(tree, spans, path, cycle) ==
  IF cycle = {} THEN [tree EXCEPT !.done = @ \union Range(path)]
  ELSE Cut(tree, path, Earliest({SpanOf(spans, i) : i \in cycle}).id)
FollowUp(tree, spans, path) == Follow(tree, spans, path, CycleOf(tree.parents, path))
LinkTree(spans) ==
  FoldLeft(LAMBDA tree, s :
      IF s.id \in tree.done THEN tree
      ELSE FollowUp(tree, spans, PathUp(tree.parents, tree.done, s.id)),
    [parents |-> RawParents(spans), broken |-> {}, done |-> {}], spans)

Linked(spans, tree) == [spans |-> spans, parents |-> tree.parents, broken |-> tree.broken]
LinkedSpans(spans) == Linked(spans, LinkTree(spans))
BuildTrace(spans) == LinkedSpans(WithoutCopies(spans))

\* build_traces: one trace per trace id, in first-seen order.
TracesSeen(spans) ==
  FoldLeft(LAMBDA ids, s : IF Contains(ids, s.trace) THEN ids ELSE Append(ids, s.trace), <<>>, spans)
TracesIn(spans, ids) ==
  [n \in DOMAIN ids |-> BuildTrace(SelectSeq(spans, LAMBDA s : s.trace = ids[n]))]
BuildTraces(spans) == TracesIn(spans, TracesSeen(spans))

ChildrenOf(trace, i) ==
  InOrder({s \in Range(trace.spans) : trace.parents[s.id] = i})
RootSpans(trace) == ChildrenOf(trace, 0)

\* walk: depth first, children in start order.
Walk(trace, tops) ==
  LET below[depth \in 0 .. Len(trace.spans), s \in Range(trace.spans)] ==
        IF depth = 0 THEN <<>>
        ELSE FoldLeft(LAMBDA walked, child : walked \o below[depth - 1, child],
                      <<s>>, ChildrenOf(trace, s.id))
  IN  FoldLeft(LAMBDA walked, top : walked \o below[Len(trace.spans), top], <<>>, tops)
WalkAll(trace) == Walk(trace, RootSpans(trace))

\* ancestors: nearest first.
Ancestors(trace, s) ==
  LET up[n \in 0 .. Len(trace.spans)] ==
        IF n = 0 THEN <<>>
        ELSE LET line == up[n - 1]
                 at   == IF line = <<>> THEN s ELSE Last(line)
             IN  IF trace.parents[at.id] = 0 THEN line
                 ELSE Append(line, SpanOf(trace.spans, trace.parents[at.id]))
  IN  up[Len(trace.spans)]

StartOf(trace) == Earliest(Range(trace.spans)).start
=============================================================================
