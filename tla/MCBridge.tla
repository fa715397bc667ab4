------------------------------- MODULE MCBridge -------------------------------
(***************************************************************************)
(* Recordings for Bridge: overlapping and untimed spans, tools with and    *)
(* without ids and results, agents and what they declare, usage, and       *)
(* groups that cannot be read, have no turns or have many.                 *)
(***************************************************************************)
EXTENDS Bridge

Called0 == [agent |-> "", usage |-> <<>>, model |-> 0, tools |-> <<>>,
            start |-> 1, end |-> 3, leafStart |-> 1, leafEnd |-> 3]
Tool0 == [agent |-> "", id |-> 0, name |-> 1, args |-> <<"none", 0>>, result |-> <<"dict", 1>>,
          failed |-> FALSE, start |-> 1, end |-> 2, lasted |-> 1]
Turn0 == [id |-> 1, agent |-> "", user |-> 1, final |-> 2, middle |-> <<>>, start |-> 1, end |-> 5,
          calls |-> <<>>, tools |-> <<>>]
Recorded(turns) == [turns |-> turns, readable |-> TRUE, roots |-> <<4, 2>>]
Only(turn) == <<Recorded(<<turn>>)>>

\* Model calls and tools that overlap, leave the turn, or have no times.
Intervals == {<<1, 4>>, <<2, 4>>, <<3, 6>>, <<1, 0>>, <<4, 4>>, <<4, 3>>}
CallAt(i) == [Called0 EXCEPT !.leafStart = i[1], !.leafEnd = i[2]]
ToolAt(i) == [Tool0 EXCEPT !.start = i[1], !.end = i[2]]
Overlapping ==
  {Only([Turn0 EXCEPT !.start = from, !.calls = <<CallAt(a), CallAt(b)>>, !.tools = <<ToolAt(c), ToolAt(<<2, 3>>)>>]) :
     from \in {0, 1, 2}, a, b, c \in Intervals}
    \union {Only([Turn0 EXCEPT !.tools = <<ToolAt(a), ToolAt(b), ToolAt(<<4, 5>>)>>]) : a, b \in Intervals}

\* Ids, names, results that are no dictionaries, failures without a result.
Tools ==
  {[Tool0 EXCEPT !.id = x[1], !.name = x[2], !.result = x[3], !.failed = x[4], !.args = x[5]] :
     x \in {0, 1} \X {1, 2} \X {<<"none", 0>>, <<"dict", 0>>, <<"plain", 3>>} \X BOOLEAN \X {<<"plain", 2>>}}
Answering ==
  {Only([Turn0 EXCEPT !.tools = <<a, [b EXCEPT !.args = <<"dict", 5>>], [Tool0 EXCEPT !.id = 3]>>]) : a, b \in Tools}
    \union {Only([Turn0 EXCEPT !.user = u, !.final = f, !.middle = <<7>>, !.tools = <<[a EXCEPT !.id = 2], Tool0>>]) :
              u, f \in {0, 1}, a \in Tools}

\* Agents that do and do not declare what they call.
Function(name, says) == [type |-> "function", name |-> name, says |-> says]
Declaring ==
  {Only([Turn0 EXCEPT !.agent = root, !.middle = middle, !.tools = <<[Tool0 EXCEPT !.agent = of]>>,
                      !.calls = <<[Called0 EXCEPT !.agent = by, !.tools = defs],
                                  [Called0 EXCEPT !.tools = <<Function(1, 9), Function(0, 9)>>]>>]) :
     root, of, by \in {"", "a", "b"}, middle \in {<<>>, <<7>>},
     defs \in {<<>>, <<Function(1, 0), Function(2, 1), Function(2, 2)>>, <<[Function(1, 0) EXCEPT !.type = "other"]>>}}

\* Counts of tokens, some of them unknown.
Used(input, output, reasoning) == <<[input |-> input, output |-> output, reasoning |-> reasoning, cached |-> 1]>>
Counted3 == {None, 0, 2, 3}
Using ==
  {Only([Turn0 EXCEPT !.calls = <<[Called0 EXCEPT !.usage = Used(i, o, r), !.model = m],
                                  [Called0 EXCEPT !.usage = Used(None, o, None)], Called0>>]) :
     i, o, r \in Counted3, m \in {0, 4}}
    \union {Only([Turn0 EXCEPT !.calls = <<[Called0 EXCEPT !.usage = <<NoCounts>>]>>])}

\* Several groups, and turns enough to tell percentiles from the maximum.
Lengths(n) == [i \in 1 .. n |-> [Turn0 EXCEPT !.id = i, !.end = 2 + ((i * 7) % n)]]
Several ==
  {<<Recorded(Lengths(a)), [Recorded(Lengths(b)) EXCEPT !.readable = readable]>> :
     a \in {0, 1, 2, 3, 41}, b \in {0, 2, 20}, readable \in BOOLEAN}
    \union {<<Recorded(Lengths(101))>>, <<[Recorded(<<>>) EXCEPT !.readable = FALSE]>>}

MCRecordings == Overlapping \union Answering \union Declaring \union Using \union Several
=============================================================================
