-------------------------------- MODULE MCJobs --------------------------------
(***************************************************************************)
(* Jobs for Scoring: identities of traces, golden cases that do and do not *)
(* fit, evaluators of every kind, rubrics, and flat golden data.           *)
(***************************************************************************)
EXTENDS Scoring

Identified(id, start, name, conv, rconv, case) ==
  [id |-> id, start |-> start, name |-> name, conv |-> conv, rconv |-> rconv, case |-> case]
Anonymous(id) == Identified(id, id, 0, 0, 0, 0)
Traced(id, start, spans, turns) ==
  [id |-> id, start |-> start, spans |-> spans, turns |-> turns, readable |-> TRUE]

NoTools == [calls |-> <<>>, responses |-> <<>>]
Golden(text) == [text |-> text, rubrics |-> <<>>, flat |-> NoTools]
GoldenCase(id, texts) == [id |-> id, turns |-> [n \in DOMAIN texts |-> Golden(texts[n])], rubrics |-> <<>>]

Evaluator(name, kind) ==
  [name |-> name, kind |-> kind, expects |-> FALSE, rubric |-> "", criteria |-> <<>>, cred |-> ""]
Compares == [Evaluator("m1", "builtin") EXCEPT !.expects = TRUE]
Job(traces, given, cases, evaluators, groupBy, key) ==
  [traces |-> traces, given |-> given, cases |-> cases, evaluators |-> evaluators, groupBy |-> groupBy, key |-> key]

\* Spans that name a session or a conversation, or do not, in either order.
Identities ==
  {<<Identified(1, 2, a[1], a[2], a[3], 0), Identified(2, b, 0, c, 0, 0)>> :
     a \in {<<0, 0, 0>>, <<8, 0, 0>>, <<0, 7, 0>>, <<0, 0, 7>>}, b \in {1, 3}, c \in {0, 3, 7}}
GroupJobs ==
  {Job(<<Traced(1, 2, a, <<1>>), Traced(2, 1, b, <<2>>), Traced(3, 3, <<Anonymous(5)>>, <<>>)>>,
       FALSE, <<>>, <<Compares>>, groupBy, key) :
     a, b \in Identities, groupBy \in {"auto", "trace", "conversation"}, key \in {0}}
    \union {Job(<<Traced(1, 2, <<Anonymous(1)>>, <<1>>), [Traced(2, 1, <<Anonymous(2)>>, <<2>>) EXCEPT !.readable = r]>>,
                FALSE, <<>>, <<Compares>>, "auto", key) : r \in BOOLEAN, key \in {0, 6}}

\* One trace or two against one to three cases.
Texts == {<<1>>, <<2>>, <<1, 2>>, <<0>>}
CaseJobs ==
  {Job(traces, TRUE, cases, <<Compares>>, "auto", 0) :
     traces \in {<<Traced(1, 1, <<Identified(1, 1, 0, 0, 0, c)>>, t)>> : c \in {0, 1, 2, 9}, t \in Texts}
                  \union {<<Traced(1, 1, <<Anonymous(1)>>, t), Traced(2, 2, <<Anonymous(2)>>, <<1>>)>> : t \in Texts},
     cases \in {<<GoldenCase(1, a)>> : a \in Texts \union {<<>>}}
                 \union {<<GoldenCase(1, a), GoldenCase(2, b), GoldenCase(3, <<1>>)>> : a, b \in Texts}}

\* Evaluators of every kind, on one group or two.
Kinds == {Evaluator("m2", "builtin"), Evaluator("m2", "code"), Evaluator("m2", "unresolved"),
          [Evaluator("m2", "builtin") EXCEPT !.cred = "missing"]}
EvaluatorJobs ==
  {Job(<<Traced(1, 1, <<Anonymous(1)>>, <<1, 2>>)>>, TRUE, <<GoldenCase(1, <<1>>)>>, <<Compares, e>>, "auto", 0) :
     e \in Kinds}
    \union {Job(<<Traced(1, 1, <<Anonymous(1)>>, <<1>>), Traced(2, 2, <<Anonymous(2)>>, <<2>>)>>, TRUE,
                <<GoldenCase(1, <<2>>)>>, <<Compares, e>>, "trace", 0) : e \in Kinds \ {Evaluator("m2", "code")}}

\* Rubrics of the evaluator, the case and its turns.
Rubric(id, type) == [id |-> id, type |-> type]
RubricJobs ==
  {Job(<<Traced(1, 1, <<Anonymous(1)>>, <<1, 1>>)>>, TRUE,
       <<[id |-> 1, rubrics |-> ofCase, turns |-> <<[Golden(1) EXCEPT !.rubrics = ofTurn], Golden(1)>>]>>,
       <<[Evaluator("m3", "builtin") EXCEPT !.rubric = "q", !.criteria = criteria]>>, "auto", 0) :
     ofCase, ofTurn \in {<<>>, <<Rubric(1, "q")>>, <<Rubric(2, "q")>>, <<Rubric(1, "other")>>},
     criteria \in {<<>>, <<1>>, <<3>>}}

\* Calls and responses by id and by name.
Calls == [id : {0, 1, 2}, name : {"f", "g"}]
ToolJobs ==
  {Job(<<Traced(1, 1, <<Anonymous(1)>>, <<1>>)>>, TRUE,
       <<[id |-> 1, rubrics |-> <<>>, turns |-> <<[Golden(1) EXCEPT !.flat =
            [calls |-> <<a, b>>, responses |-> <<c, d>>]]>>]>>, <<Compares>>, "auto", 0) : a, b, c, d \in Calls}

MCJobsSet == GroupJobs \union CaseJobs \union EvaluatorJobs \union RubricJobs \union ToolJobs
=============================================================================
