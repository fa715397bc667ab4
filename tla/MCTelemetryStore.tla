-------------------------- MODULE MCTelemetryStore --------------------------
(* Instances of TelemetryStore for TLC: what producers send, and the limits. *)
EXTENDS TelemetryStore

CONSTANTS t1, t2, t3

MCTraces == {t1, t2, t3}
MCKeys == {"conv1", "conv2", "app", "job", "sid", "run"}
MCName == [k \in Keys |-> k]
MCStrength == [conv1 |-> 2, conv2 |-> 2, app |-> 3, job |-> 3, sid |-> 1, run |-> 3]
\* The ids sessions get in these deployments; TypeOK shows that there is no other.
MCSessionIds == ({"app", "conv1", "conv2", "job", "sid", "run", t2, t3} \X {1}) \cup {<<"job", 2>>}
MCSplitting == {"job"}

\* owners: a delegate and the agent that calls it share t1 but not their
\* conversation ids; t2 is a later turn of the delegate's conversation.
\* bounds: t1 starts with a span that says nothing, t2 learns its key late, t3
\* belongs to the run t1 turns out to belong to; everything is small.
\* kinds: a harness exports spans keyed by session.id before the agent around it
\* exports its conversation; a third span carries only the run's name.
\* reruns: two processes run under one name, one of them twice; a bug report of the
\* first run is loaded under the same name.
\* trace, key, start, genai, size, run, instance
Items ==
  [delegate |-> <<t1, "conv1", 2, TRUE, 1>>, agent |-> <<t1, "conv2", 1, TRUE, 1>>,
   next |-> <<t2, "conv1", 3, TRUE, 1>>, message |-> <<t1, NoKey, 0, FALSE, 1>>,

   http |-> <<t1, NoKey, 1, FALSE, 1>>, call |-> <<t1, "app", 2, TRUE, 1>>,
   chat |-> <<t2, NoKey, 1, TRUE, 2>>, tool |-> <<t2, "app", 2, FALSE, 1>>,
   turn |-> <<t3, "app", 1, TRUE, 1>>,
   early |-> <<t1, NoKey, 0, FALSE, 1>>, keyed |-> <<t2, "app", 0, FALSE, 1>>,

   harness1 |-> <<t1, "sid", 2, TRUE, 1>>, agent1 |-> <<t1, "conv1", 1, TRUE, 1>>,
   harness2 |-> <<t2, "sid", 2, TRUE, 1>>, agent2 |-> <<t2, "conv1", 1, TRUE, 1>>,
   named |-> <<t2, "run", 3, TRUE, 1>>, note |-> <<t1, "sid", 0, FALSE, 1>>,

   first |-> <<t1, "job", 1, TRUE, 1, None, "p1">>, late |-> <<t1, "job", 1, TRUE, 1, None, "p1">>,
   second |-> <<t2, "job", 1, TRUE, 1, None, "p2">>, third |-> <<t3, "job", 1, TRUE, 1, "r3", None>>,
   free |-> <<t3, NoKey, 1, TRUE, 1>>, line |-> <<t2, NoKey, 0, FALSE, 1>>]

MCAttr ==
  LET Attributes(i) == [trace |-> i[1], key |-> i[2], start |-> i[3], genai |-> i[4], size |-> i[5],
                        run |-> IF Len(i) > 5 THEN i[6] ELSE None,
                        instance |-> IF Len(i) > 5 THEN i[7] ELSE None]
  IN [x \in DOMAIN Items |-> Attributes(Items[x])]
MCLogs == {"message", "early", "keyed", "note", "line"}
MCSpans == DOMAIN Items \ MCLogs
MCSpanUnits ==
  [owners |-> {<<"delegate">>, <<"agent">>, <<"delegate", "agent">>, <<"next">>},
   bounds |-> {<<"http">>, <<"call">>, <<"call", "http">>, <<"chat">>, <<"tool">>, <<"turn">>},
   kinds |-> {<<"harness1">>, <<"agent1">>, <<"harness2">>, <<"agent2">>, <<"named">>,
              <<"agent1", "harness1">>},
   reruns |-> {<<"first">>, <<"late">>, <<"second">>, <<"third">>, <<"free">>}]
MCLogUnits == [owners |-> {<<"message">>}, bounds |-> {<<"early">>, <<"keyed">>},
               kinds |-> {<<"note">>}, reruns |-> {<<"line">>}]
MCBundles ==
  [d \in {"owners", "bounds", "kinds", "reruns"} |->
     IF d = "reruns" THEN {[name |-> "job", spans |-> {"first", "second"}, logs |-> {"line"}]}
     ELSE {}]

\* Limits that are never reached, but for the pending logs.
Ample == [spans_per_trace |-> 9, logs_per_trace |-> 9, traces_per_session |-> 9,
          spans_per_session |-> 9, logs_per_session |-> 9, max_sessions |-> 3,
          max_bytes |-> 99, staged_traces |-> 9,
          pending_logs |-> 2, pending_logs_per_trace |-> 1, pending_log_bytes |-> 99]
MCLimits ==
  [owners |-> Ample,
   bounds |-> [spans_per_trace |-> 2, logs_per_trace |-> 1, traces_per_session |-> 2,
               spans_per_session |-> 3, logs_per_session |-> 1, max_sessions |-> 2,
               max_bytes |-> 4, staged_traces |-> 1,
               pending_logs |-> 1, pending_logs_per_trace |-> 1, pending_log_bytes |-> 2],
   kinds |-> [Ample EXCEPT !.max_sessions = 2, !.max_bytes = 5],
   reruns |-> [Ample EXCEPT !.max_sessions = 2, !.max_bytes = 4, !.traces_per_session = 1]]
=============================================================================
