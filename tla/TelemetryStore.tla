--------------------------- MODULE TelemetryStore ---------------------------
(***************************************************************************)
(* TelemetryStore (src/agentevals/otel/store.py): the in-memory store of   *)
(* live telemetry.  Every public method runs without a suspension point,   *)
(* so each is one action; st is the value of the whole store and the       *)
(* operators below compute the store after one of its helpers.             *)
(*                                                                         *)
(* Time is abstracted: a deadline that is armed may be found due at any    *)
(* later step, a TTL may run out at any step, and whether a rerun window   *)
(* has passed is part of the input.  The bytes of an export's envelope are *)
(* counted with its items.  Trace versions, metadata, the counters of what *)
(* was dropped, the filters for the program's own telemetry and            *)
(* session.nbytes, which nothing reads, are left out.                      *)
(***************************************************************************)
EXTENDS Integers, Sequences, FiniteSets, SequencesExt

CONSTANTS
  Traces,       \* trace ids
  Spans, Logs,  \* the spans and log records producers have
  Attr,         \* what an item carries: [trace, key, run, instance, size, start, genai]
  Deployments,  \* stores of some configuration, with those who send to them
  Finishing,    \* those of them whose sessions SessionsFinish is about
  Limits,       \* [Deployments -> the record of limits]
  SpanUnits,    \* [Deployments -> the routing units spans arrive in: sequences of
                \* spans of one trace]
  LogUnits,     \* the same for log records
  Bundles,      \* [Deployments -> what load_session is given: [name, spans, logs]]
  Keys,         \* session keys
  Name,         \* [Keys -> the session name the key asks for]
  Strength,     \* [Keys -> Nat], key_strength of the kind of the key
  Splitting,    \* the keys of rerun_kinds: a rerun starts name-2
  SessionIds,   \* ids sessions get: <<name, n>> for name, name-2, ...
  NoKey, NoSession, None

OfOneTrace(unit) == unit # <<>> /\ \A i \in DOMAIN unit : Attr[unit[i]].trace = Attr[unit[1]].trace
\* name, name-2, ... of all names that sessions ask for.
Ids == (Traces \cup {Name[k] : k \in Keys} \cup {b.name : b \in UNION {Bundles[d] : d \in Deployments}})
       \X (Nat \ {0})

ASSUME StoreAssumption ==
  /\ IsFiniteSet(Traces) /\ IsFiniteSet(Spans) /\ IsFiniteSet(Logs) /\ Spans \cap Logs = {}
  /\ NoKey \notin Keys /\ NoSession \notin Ids
  /\ \A x \in Spans \cup Logs :
       /\ Attr[x].trace \in Traces /\ Attr[x].size \in Nat \ {0}
       /\ Attr[x].key \in Keys \cup {NoKey} /\ Attr[x].start \in Nat
  /\ Strength \in [Keys -> Nat]
  /\ \A d \in Deployments :
       /\ \A unit \in SpanUnits[d] : unit \in Seq(Spans) /\ OfOneTrace(unit)
       /\ \A unit \in LogUnits[d] : unit \in Seq(Logs) /\ OfOneTrace(unit)
       /\ \A b \in Bundles[d] : b.spans \subseteq Spans /\ b.logs \subseteq Logs
       /\ Limits[d].max_bytes \in Nat /\ Limits[d].max_sessions \in Nat
       /\ Limits[d].traces_per_session \in Nat \ {0} /\ Limits[d].staged_traces \in Nat

VARIABLE st

\* F for each element of seq in turn, from s on.
Each(F(_, _), s, seq) ==
  LET after[n \in 0..Len(seq)] == IF n = 0 THEN s ELSE F(after[n - 1], seq[n])
  IN  after[Len(seq)]

ItemsIn(c) == c.spans \cup c.logs
\* The bytes of a set of items, each byte an element.
Size(items) == Cardinality(UNION {{x} \X (1..Attr[x].size) : x \in items})

Nothing == [spans |-> {}, logs |-> {}]
NoTrace == [session |-> NoSession, spans |-> {}, logs |-> {}, complete |-> FALSE]

Init == \E d \in Deployments :
  st = [at       |-> d,
        sessions |-> << >>,                        \* session id -> session
        traces   |-> [t \in Traces |-> NoTrace],   \* the traces of sessions
        staged   |-> << >>,                        \* OrderedDict of keyless traces
        held     |-> [t \in Traces |-> Nothing],   \* ... and what they hold
        pending  |-> [t \in Traces |-> << >>],     \* _PendingLogs
        heads    |-> [k \in Keys |-> NoSession],
        due      |-> {},                           \* _deadlines, once per id
        finished |-> << >>,                        \* complete sessions, oldest first
        bytes    |-> 0,
        events   |-> << >>]

Limit(s) == Limits[s.at]
Live(s) == DOMAIN s.sessions
Known(s, t) == s.traces[t].session # NoSession
Bytes(c) == Size(ItemsIn(c))
ItemsOf(s, ts) == UNION {ItemsIn(s.traces[t]) : t \in ts}
ItemsHeld(s, ts) == UNION {ItemsIn(s.held[t]) : t \in ts}
IsStaged(s, t) == t \in ToSet(s.staged)

Dirty(s, id) == [s EXCEPT !.events = Append(@, <<"dirty", id>>)]
Arm(s, ident) == [s EXCEPT !.due = @ \cup {ident}]
-----------------------------------------------------------------------------
(* Removal and eviction *)

\* Mutant: a removed session keeps its bytes.
BytesKept(s, ts) == s.bytes

BytesWithout(s, ts) == s.bytes - Size(ItemsOf(s, ts))
HeadsWithout(s, id) == [k \in Keys |-> IF s.heads[k] = id THEN NoSession ELSE s.heads[k]]

\* _remove_session
Removed(s, id, absorber) ==
  LET gone == {t \in s.sessions[id].traces : s.traces[t].session = id}
  IN [s EXCEPT !.sessions = Restrict(@, Live(s) \ {id}),
               !.traces = [t \in Traces |-> IF t \in gone THEN NoTrace ELSE @[t]],
               !.bytes = BytesWithout(s, gone),
               !.heads = HeadsWithout(s, id),
               !.finished = RemoveFirst(@, id),
               !.events = Append(@, <<"removed", id, absorber>>)]

Unstaged(s, t) ==
  [s EXCEPT !.staged = RemoveFirst(@, t), !.held[t] = Nothing, !.bytes = @ - Bytes(s.held[t])]

\* Mutant: any session may be evicted.
EvictableLive(s, exclude) == SetToSeq(Live(s) \ {exclude})

\* The complete sessions that may be evicted, oldest first.
Evictable(s, exclude) == RemoveFirst(s.finished, exclude)

Roomy(s, size) == s.bytes + size <= Limit(s).max_bytes

\* _make_room: staged traces go first, then complete sessions, until size fits;
\* it returned False when the result is not Roomy.
MadeRoom(s, size, exclude, keep) ==
  LET unstage(acc, t) == IF Roomy(acc, size) THEN acc ELSE Unstaged(acc, t)
      evict(acc, id) == IF Roomy(acc, size) THEN acc ELSE Removed(acc, id, NoSession)
  IN Each(evict, Each(unstage, s, RemoveFirst(s.staged, keep)), Evictable(s, exclude))
-----------------------------------------------------------------------------
(* Sessions *)

\* _unique_id
FreshId(s, name) ==
  <<name, Min({n \in 1..(Cardinality(Live(s)) + 1) : <<name, n>> \notin Live(s)})>>

\* _new_session: the store and the new id, or NoSession.
NewSession(s, name, key, x, exclude) ==
  LET full == Cardinality(Live(s)) >= Limit(s).max_sessions
      room == IF full THEN Removed(s, Head(Evictable(s, exclude)), NoSession) ELSE s
      id == FreshId(room, name)
      session == [key |-> key, run |-> x.run, instance |-> x.instance, traces |-> {},
                  complete |-> FALSE, spans |-> 0, logs |-> 0]
  IN IF full /\ Evictable(s, exclude) = << >> THEN [st |-> s, id |-> NoSession]
     ELSE [id |-> id,
           st |-> [room EXCEPT
             !.sessions = [i \in Live(room) \cup {id} |->
                             IF i = id THEN session ELSE room.sessions[i]],
             !.heads = [k \in Keys |-> IF k = key THEN id ELSE @[k]],
             !.events = Append(@, <<"started", id>>)]]

\* passed: the rerun window is over.
IsRerun(session, x, passed) ==
  /\ session.complete
  /\ session.key \in Splitting
  /\ IF x.instance # None /\ session.instance # None
     THEN x.instance # session.instance
     ELSE passed

\* _head: the session for a key, created when needed.
SessionFor(s, key, x, passed, exclude) ==
  LET id == s.heads[key]
      joins == /\ id # NoSession
               /\ x.run = None \/ s.sessions[id].run = x.run
               /\ ~IsRerun(s.sessions[id], x, passed)
  IN IF joins THEN [st |-> s, id |-> id] ELSE NewSession(s, Name[key], key, x, exclude)

StartWithdrawn(events, id) ==
  IF Contains(events, <<"started", id>>) THEN RemoveFirst(events, <<"started", id>>)
  ELSE Append(events, <<"removed", id, NoSession>>)

\* _discard_if_empty: a session that ended up holding nothing is dropped, and its
\* start withdrawn if nobody outside the store has seen it.
Discarded(s, id) ==
  IF s.sessions[id].traces # {} THEN s
  ELSE [s EXCEPT !.sessions = Restrict(@, Live(s) \ {id}),
                 !.heads = HeadsWithout(s, id),
                 !.finished = RemoveFirst(@, id),
                 !.events = StartWithdrawn(@, id)]

\* _detach_if_empty
Detached(s, t, id) ==
  IF ItemsIn(s.traces[t]) # {} THEN s
  ELSE Discarded([s EXCEPT !.traces[t] = NoTrace, !.sessions[id].traces = @ \ {t}], id)

More(session, t, c) == [session EXCEPT !.traces = @ \cup {t}, !.spans = @ + Cardinality(c.spans),
                                       !.logs = @ + Cardinality(c.logs)]
Less(session, t, c) == [session EXCEPT !.traces = @ \ {t}, !.spans = @ - Cardinality(c.spans),
                                       !.logs = @ - Cardinality(c.logs)]

\* _attach: trace t, so far with content c, becomes a member of session id.
Attached(s, t, c, id) ==
  [s EXCEPT !.traces[t] = [session |-> id, spans |-> c.spans, logs |-> c.logs,
                           complete |-> @.complete],
            !.sessions[id] = More(@, t, c)]

\* _reopen
Reopened(s, id) ==
  [s EXCEPT !.sessions[id].complete = FALSE, !.finished = RemoveFirst(@, id),
            !.events = Append(@, <<"reopened", id>>)]

\* _fits
Fits(s, id, traces, spans, logs) ==
  /\ Cardinality(s.sessions[id].traces) + traces <= Limit(s).traces_per_session
  /\ s.sessions[id].spans + spans <= Limit(s).spans_per_session
  /\ s.sessions[id].logs + logs <= Limit(s).logs_per_session

\* Mutant: the counters of the source are left as they were.
TakenUncounted(s, t, source) == [s EXCEPT !.sessions[source].traces = @ \ {t}]

Taken(s, t, source) == [s EXCEPT !.sessions[source] = Less(@, t, s.traces[t])]

\* What _move_trace does to its target: open traces reopen it, and a session that
\* is open is looked at by the next tick.
Woken(s, t, target) ==
  LET opened == IF s.sessions[target].complete /\ ~s.traces[t].complete
                THEN Reopened(s, target) ELSE s
      armed == IF opened.sessions[target].complete THEN opened ELSE Arm(opened, target)
  IN Dirty(armed, target)

\* Mutant: a source that keeps other traces is not told about.
LeftUntold(s, source, target) ==
  IF s.sessions[source].traces # {} THEN s ELSE Removed(s, source, target)

\* A source left with no trace is absorbed by the target.
Left(s, source, target) ==
  IF s.sessions[source].traces # {} THEN Dirty(s, source) ELSE Removed(s, source, target)

\* _move_trace
Moved(s, t, source, target) ==
  Woken(Left(Attached(Taken(s, t, source), t, s.traces[t], target), source, target), t, target)

\* _merge_into, once the target has room.
Merged(s, source, target) ==
  Each(LAMBDA acc, t : Moved(acc, t, source, target), s, SetToSeq(s.sessions[source].traces))
-----------------------------------------------------------------------------
(* Storing items *)

\* One turn of the span loop of ingest_spans.
SpanAdded(s, x, id) ==
  LET t == Attr[x].trace
      room == MadeRoom(s, Attr[x].size, id, NoSession)
  IN IF \/ x \in s.traces[t].spans
        \/ Cardinality(s.traces[t].spans) >= Limit(s).spans_per_trace
        \/ s.sessions[id].spans >= Limit(s).spans_per_session
     THEN s
     ELSE IF ~Roomy(room, Attr[x].size) THEN room
     ELSE [room EXCEPT !.traces[t].spans = @ \cup {x},
                       !.sessions[id].spans = @ + 1,
                       !.bytes = @ + Attr[x].size]

\* The span loop and what follows it; attached: the call made the trace a member.
SpansAdded(s, unit, id, attached) ==
  LET t == Attr[unit[1]].trace
      stored == Each(LAMBDA acc, x : SpanAdded(acc, x, id), s, unit)
      kept == IF attached THEN Detached(stored, t, id) ELSE stored
      opened == IF kept.sessions[id].complete THEN Reopened(kept, id) ELSE kept
  IN IF stored.traces[t].spans = s.traces[t].spans THEN kept
     ELSE Dirty(Arm([opened EXCEPT !.traces[t].complete = FALSE], t), id)

\* _add_log for a trace of session id.
LogAdded(s, l, id) ==
  LET t == Attr[l].trace
      room == MadeRoom(s, Attr[l].size, id, NoSession)
  IN IF \/ l \in s.traces[t].logs
        \/ Cardinality(s.traces[t].logs) >= Limit(s).logs_per_trace
        \/ s.sessions[id].logs >= Limit(s).logs_per_session
     THEN s
     ELSE IF ~Roomy(room, Attr[l].size) THEN room
     ELSE [room EXCEPT !.traces[t].logs = @ \cup {l},
                       !.sessions[id].logs = @ + 1,
                       !.bytes = @ + Attr[l].size]

LogsAdded(s, logs, id) == Each(LAMBDA acc, l : LogAdded(acc, l, id), s, logs)

\* _add_log for a staged trace, which is not evicted to make room for it.
StagedLogAdded(s, l) ==
  LET t == Attr[l].trace
      room == MadeRoom(s, Attr[l].size, NoSession, t)
  IN IF l \in s.held[t].logs \/ Cardinality(s.held[t].logs) >= Limit(s).logs_per_trace THEN s
     ELSE IF ~Roomy(room, Attr[l].size) THEN room
     ELSE [room EXCEPT !.held[t].logs = @ \cup {l}, !.bytes = @ + Attr[l].size]

PutBack(s, t, c) == [s EXCEPT !.staged = Append(@, t), !.held[t] = c, !.bytes = @ + Bytes(c)]

\* Mutant: the trace put back is not counted.
RestagedUncounted(s, t, c) ==
  LET all == [PutBack(s, t, c) EXCEPT !.bytes = s.bytes]
      over == IF Len(all.staged) <= Limit(s).staged_traces THEN 0
              ELSE Len(all.staged) - Limit(s).staged_traces
  IN Each(Unstaged, all, SubSeq(all.staged, 1, over))

\* _restage: the newest staged trace; the oldest ones go when there are too many.
Restaged(s, t, c) ==
  LET all == PutBack(s, t, c)
      over == IF Len(all.staged) <= Limit(s).staged_traces THEN 0
              ELSE Len(all.staged) - Limit(s).staged_traces
  IN Each(Unstaged, all, SubSeq(all.staged, 1, over))

\* One turn of the loop of _stage; h is in hand, not yet counted.
SpanStaged(acc, x) ==
  LET size == Attr[x].size
      room == MadeRoom(acc.st, size + Bytes(acc.h), NoSession, NoSession)
  IN IF x \in acc.h.spans \/ Cardinality(acc.h.spans) >= Limit(acc.st).spans_per_trace THEN acc
     ELSE IF ~Roomy(room, size + Bytes(acc.h)) THEN [acc EXCEPT !.st = room]
     ELSE [st |-> room, h |-> [acc.h EXCEPT !.spans = @ \cup {x}]]

BufferIsFull(s, l) ==
  LET size(q) == MapThenSumSet(LAMBDA i : Attr[s.pending[q][i]].size, DOMAIN s.pending[q])
      total(f(_)) == MapThenSumSet(f, Traces)
  IN \/ total(LAMBDA q : Len(s.pending[q])) >= Limit(s).pending_logs
     \/ total(size) + Attr[l].size > Limit(s).pending_log_bytes
     \/ Len(s.pending[Attr[l].trace]) >= Limit(s).pending_logs_per_trace

\* _PendingLogs.add: a full buffer refuses the newcomer.
Buffered(s, l) ==
  IF BufferIsFull(s, l) THEN s ELSE [s EXCEPT !.pending[Attr[l].trace] = Append(@, l)]

\* Logs that came before their trace are added to it.
Replayed(s, t, id) ==
  LogsAdded([s EXCEPT !.pending[t] = << >>], s.pending[t], id)
-----------------------------------------------------------------------------
(* ingest_spans: unit holds spans of one trace under one resource *)

Drained == [st EXCEPT !.events = << >>]

\* identity_key: the strongest kind present, of its earliest bearer.
KeyOf(xs) ==
  LET keyed == {x \in xs : Attr[x].key # NoKey}
      best == {x \in keyed : \A y \in keyed : Strength[Attr[y].key] <= Strength[Attr[x].key]}
  IN IF keyed = {} THEN NoKey
     ELSE Attr[CHOOSE x \in best : \A y \in best : Attr[x].start <= Attr[y].start].key

\* Mutant: a key outranks its equals.
OutranksEquals(key, other) ==
  IF other = NoKey THEN TRUE ELSE Strength[key] >= Strength[other]

\* Any key outranks none: a provisional session takes the first key it learns.
Outranks(key, other) == IF other = NoKey THEN TRUE ELSE Strength[key] > Strength[other]
Start(xs) == Min({Attr[x].start : x \in xs})

\* Mutant: only a span that follows all others moves its trace.
OwnsLate(t, key, unit) ==
  /\ st.sessions[st.traces[t].session].key \notin {key, NoKey}
  /\ Start(ToSet(unit)) > Start(st.traces[t].spans)

\* The batch starts before all spans its trace has, under another key of the
\* same kind: the earliest span owns the trace.
Owns(t, key, unit) ==
  LET session == st.sessions[st.traces[t].session]
  IN /\ key \notin {NoKey, session.key}
     /\ ~Outranks(key, session.key)
     /\ ~Outranks(session.key, key)
     /\ st.traces[t].spans # {}
     /\ Start(ToSet(unit)) < Start(st.traces[t].spans)

Promotes(t, key) == key # NoKey /\ Outranks(key, st.sessions[st.traces[t].session].key)

\* R1: the trace stays where it is.
StayInSession(unit) ==
  LET t == Attr[unit[1]].trace
      key == KeyOf(ToSet(unit))
  IN /\ Known(st, t)
     /\ ~Promotes(t, key) /\ ~Owns(t, key, unit)
     /\ st' = SpansAdded(Drained, unit, st.traces[t].session, FALSE)

\* R1: a stronger key takes the whole session along.
Promote(unit, passed) ==
  LET t == Attr[unit[1]].trace
      key == KeyOf(ToSet(unit))
      id == st.traces[t].session
      session == st.sessions[id]
      for == SessionFor(Drained, key, Attr[unit[1]], passed, id)
  IN /\ Known(st, t)
     /\ Promotes(t, key)
     /\ st' = IF for.id = NoSession THEN Drained
              ELSE IF Fits(for.st, for.id, Cardinality(session.traces), session.spans, session.logs)
                   THEN SpansAdded(Merged(for.st, id, for.id), unit, for.id, FALSE)
                   ELSE Discarded(for.st, for.id)

\* R1: the earliest span takes its trace along.
MoveToOwner(unit, passed) ==
  LET t == Attr[unit[1]].trace
      key == KeyOf(ToSet(unit))
      id == st.traces[t].session
      for == SessionFor(Drained, key, Attr[unit[1]], passed, id)
  IN /\ Known(st, t)
     /\ Owns(t, key, unit)
     /\ st' = IF for.id = NoSession THEN Drained
              ELSE IF Fits(for.st, for.id, 1, Cardinality(st.traces[t].spans),
                           Cardinality(st.traces[t].logs))
                   THEN SpansAdded(Moved(for.st, t, id, for.id), unit, for.id, FALSE)
                   ELSE Discarded(for.st, for.id)

Opens(unit) == \E x \in ToSet(unit) : Attr[x].genai

\* R2 and R3: a new or staged trace joins the head of its key or becomes a
\* session of its own.
JoinSession(unit, passed) ==
  LET t == Attr[unit[1]].trace
      key == KeyOf(ToSet(unit))
      held == st.held[t]
      taken == Unstaged(Drained, t)
      for == IF key # NoKey THEN SessionFor(taken, key, Attr[unit[1]], passed, NoSession)
             ELSE NewSession(taken, t, NoKey, Attr[unit[1]], NoSession)
      refused == IF IsStaged(st, t) THEN Restaged(for.st, t, held) ELSE for.st
      counted == [for.st EXCEPT !.bytes = @ + Bytes(held)]
  IN /\ ~Known(st, t)
     /\ key # NoKey \/ Opens(unit)
     /\ st' = IF \/ for.id = NoSession
                 \/ Cardinality(for.st.sessions[for.id].traces) >= Limit(st).traces_per_session
              THEN refused
              ELSE SpansAdded(Replayed(Attached(counted, t, held, for.id), t, for.id),
                              unit, for.id, TRUE)

\* R3: nothing says what the trace is; it is held back.
Stage(unit) ==
  LET t == Attr[unit[1]].trace
      held == [st |-> Unstaged(Drained, t), h |-> st.held[t]]
      done == Each(SpanStaged, held, unit)
  IN /\ ~Known(st, t)
     /\ KeyOf(ToSet(unit)) = NoKey /\ ~Opens(unit)
     /\ st' = Restaged(done.st, t, done.h)
-----------------------------------------------------------------------------
(* ingest_logs: unit holds log records of one trace under one resource *)

\* A session that is open and bears no spans completes when it goes idle.
Noted(s, id) ==
  IF s.sessions[id].complete \/ \E t \in s.sessions[id].traces : s.traces[t].spans # {}
  THEN Dirty(s, id) ELSE Dirty(Arm(s, id), id)

LogToSession(unit) ==
  LET t == Attr[unit[1]].trace
      id == st.traces[t].session
      stored == LogsAdded(Drained, unit, id)
  IN /\ Known(st, t)
     /\ st' = IF ToSet(unit) \cap stored.traces[t].logs = {} THEN stored ELSE Noted(stored, id)

LogToStaged(unit) ==
  /\ ~Known(st, Attr[unit[1]].trace) /\ IsStaged(st, Attr[unit[1]].trace)
  /\ st' = Each(StagedLogAdded, Drained, unit)

LogToPending(unit) ==
  /\ ~Known(st, Attr[unit[1]].trace) /\ ~IsStaged(st, Attr[unit[1]].trace)
  /\ KeyOf(ToSet(unit)) = NoKey
  /\ st' = Each(Buffered, Drained, unit)

\* A log with a key makes its trace a member of a session.
LogJoinsSession(unit, passed) ==
  LET t == Attr[unit[1]].trace
      for == SessionFor(Drained, KeyOf(ToSet(unit)), Attr[unit[1]], passed, NoSession)
      stored == LogsAdded(Arm(Attached(for.st, t, NoTrace, for.id), for.id), unit, for.id)
  IN /\ ~Known(st, t) /\ ~IsStaged(st, t)
     /\ KeyOf(ToSet(unit)) # NoKey
     /\ st' = IF for.id = NoSession THEN Drained
              ELSE IF stored.traces[t].logs = {} THEN Detached(stored, t, for.id)
              ELSE Noted(stored, for.id)
-----------------------------------------------------------------------------
(* tick, expire, load_session *)

\* Mutant: the session waits for traces that bear only logs.
FinishedAll(s, id) ==
  IF s.sessions[id].complete \/ \E t \in s.sessions[id].traces : ~s.traces[t].complete THEN s
  ELSE [s EXCEPT !.sessions[id].complete = TRUE, !.finished = Append(@, id)]

\* A session completes when all its span bearing traces are.
Finished(s, id) ==
  IF \/ s.sessions[id].complete
     \/ \E t \in s.sessions[id].traces : s.traces[t].spans # {} /\ ~s.traces[t].complete
  THEN s
  ELSE [s EXCEPT !.sessions[id].complete = TRUE, !.finished = Append(@, id)]

\* tick finds the deadline of a trace due.
TraceDue(t) ==
  LET popped == [Drained EXCEPT !.due = @ \ {t}]
  IN /\ t \in st.due
     /\ st' = IF ~Known(st, t) \/ st.traces[t].complete THEN popped
              ELSE Finished([popped EXCEPT !.traces[t].complete = TRUE], st.traces[t].session)

SessionDue(id) ==
  LET popped == [Drained EXCEPT !.due = @ \ {id}]
  IN /\ id \in st.due
     /\ st' = IF id \in Live(st) THEN Finished(popped, id) ELSE popped

ExpireSession == /\ st.finished # << >>
                 /\ st' = Removed(Drained, Head(st.finished), NoSession)

ExpireStaged == /\ st.staged # << >>
                /\ st' = Unstaged(Drained, Head(st.staged))

ExpirePending(t) == /\ st.pending[t] # << >>
                    /\ st' = [Drained EXCEPT !.pending[t] = Tail(@)]

Loadable(s, b) == {t \in {Attr[x].trace : x \in ItemsIn(b)} : ~Known(s, t)}

\* A complete session is inserted as it is, past the routing.
LoadSession(b) ==
  LET full == Cardinality(Live(st)) >= Limit(st).max_sessions
      evicted == IF full THEN Removed(Drained, Head(st.finished), NoSession) ELSE Drained
      id == FreshId(evicted, b.name)
      room == MadeRoom(evicted, Bytes(b), NoSession, NoSession)
      of(t, xs) == {x \in xs : Attr[x].trace = t}
      new == Loadable(room, b)
      content(t) == [session |-> id, spans |-> of(t, b.spans), logs |-> of(t, b.logs),
                     complete |-> TRUE]
      session == [key |-> NoKey, run |-> None, instance |-> None, traces |-> new,
                  complete |-> TRUE,
                  spans |-> Cardinality({x \in b.spans : Attr[x].trace \in new}),
                  logs |-> Cardinality({x \in b.logs : Attr[x].trace \in new})]
  IN st' = IF full /\ st.finished = << >> THEN Drained
           ELSE IF ~Roomy(room, Bytes(b)) THEN room
           ELSE [room EXCEPT
                  !.sessions = [i \in Live(room) \cup {id} |->
                                  IF i = id THEN session ELSE room.sessions[i]],
                  !.traces = [t \in Traces |-> IF t \in new THEN content(t) ELSE @[t]],
                  !.bytes = @ + Size({x \in ItemsIn(b) : Attr[x].trace \in new}),
                  !.finished = Append(@, id),
                  !.events = Append(@, <<"started", id>>)]
-----------------------------------------------------------------------------
Ingest == \/ \E unit \in SpanUnits[st.at] : StayInSession(unit) \/ Stage(unit)
          \/ \E unit \in SpanUnits[st.at], passed \in BOOLEAN :
               Promote(unit, passed) \/ MoveToOwner(unit, passed) \/ JoinSession(unit, passed)
          \/ \E unit \in LogUnits[st.at] : LogToSession(unit) \/ LogToStaged(unit) \/ LogToPending(unit)
          \/ \E unit \in LogUnits[st.at], passed \in BOOLEAN : LogJoinsSession(unit, passed)

Tick == \E t \in Traces : TraceDue(t)
TickSession == \E id \in st.due \ Traces : SessionDue(id)
Expire == ExpireSession \/ ExpireStaged \/ \E t \in Traces : ExpirePending(t)

Next == Ingest \/ Tick \/ TickSession \/ Expire \/ \E b \in Bundles[st.at] : LoadSession(b)

Spec == Init /\ [][Next]_st
\* Deadlines that are armed come due; nothing obliges producers, and a TTL is not
\* needed for a session to finish.
FairSpec == /\ Spec
            /\ \A t \in Traces : WF_st(TraceDue(t))
            /\ \A id \in SessionIds : WF_st(SessionDue(id))
-----------------------------------------------------------------------------
Session == [key: Keys \cup {NoKey}, run: {Attr[x].run : x \in Spans \cup Logs} \cup {None},
            instance: {Attr[x].instance : x \in Spans \cup Logs} \cup {None},
            traces: SUBSET Traces, complete: BOOLEAN, spans: Nat, logs: Nat]
Trace == [session: Ids \cup {NoSession}, spans: SUBSET Spans, logs: SUBSET Logs,
          complete: BOOLEAN]

TypeOK ==
  /\ Live(st) \subseteq Ids
  /\ \A id \in Live(st) : st.sessions[id] \in Session
  /\ st.traces \in [Traces -> Trace]
  /\ st.staged \in Seq(Traces) /\ st.held \in [Traces -> [spans: SUBSET Spans, logs: SUBSET Logs]]
  /\ st.pending \in [Traces -> Seq(Logs)]
  /\ st.heads \in [Keys -> Ids \cup {NoSession}]
  /\ st.due \subseteq Traces \cup Ids
  /\ st.finished \in Seq(Ids)
  /\ st.bytes \in Nat

\* nbytes is kept up to date by eleven statements spread over the store: it is at
\* all times the size of what sessions and staged traces hold, and whatever
\* arrives, in whatever order, that stays within the memory budget.
BytesAreOwned ==
  /\ st.bytes = Size(ItemsOf(st, Traces)) + Size(ItemsHeld(st, ToSet(st.staged)))
  /\ st.bytes <= Limit(st).max_bytes

\* load_session does not look at what is staged.
IsBundled(s, t) == \E b \in Bundles[s.at] : \E x \in ItemsIn(b) : Attr[x].trace = t

\* A session and its traces agree on who belongs to whom, the session's counters
\* are those of its traces, every item is where its trace is, a trace is either a
\* member or staged unless it was loaded, and the eviction queue lists the complete
\* sessions once each.
MembershipAgrees ==
  /\ \A id \in Live(st) : LET session == st.sessions[id] IN
       /\ session.traces = {t \in Traces : st.traces[t].session = id}
       /\ session.spans = Cardinality(UNION {st.traces[t].spans : t \in session.traces})
       /\ session.logs = Cardinality(UNION {st.traces[t].logs : t \in session.traces})
  /\ \A t \in Traces :
       /\ \A x \in ItemsIn(st.traces[t]) \cup ItemsIn(st.held[t]) : Attr[x].trace = t
       /\ Known(st, t) => st.traces[t].session \in Live(st)
       /\ Known(st, t) /\ IsStaged(st, t) => IsBundled(st, t)
  /\ IsInjective(st.staged) /\ IsInjective(st.finished)
  /\ ToSet(st.finished) = {id \in Live(st) : st.sessions[id].complete}

\* A key leads to a live session of that key or to none; the traces of a rerun or
\* of a refused merge cannot leave it pointing at a session that is gone.
HeadsAreLive ==
  \A k \in Keys : st.heads[k] # NoSession =>
    st.heads[k] \in Live(st) /\ st.sessions[st.heads[k]].key = k

\* A session a refused export created does not take one of the session slots; a
\* bundle all of whose traces are live leaves a session with none.
NoEmptySession ==
  /\ \A t \in Traces : Known(st, t) => ItemsIn(st.traces[t]) # {}
  /\ \A id \in Live(st) : st.sessions[id].traces = {} =>
       st.sessions[id].complete /\ st.sessions[id].key = NoKey

\* The tables of the store tell the same story, whatever path changed them.
MembersAgree == MembershipAgrees /\ HeadsAreLive /\ NoEmptySession

\* Telemetry of a session that is not finished is never given up to make room.
NothingLiveIsDropped ==
  [][\A t \in Traces :
       Known(st, t) /\ ~st.sessions[st.traces[t].session].complete =>
         /\ st.traces[t].spans \subseteq st'.traces[t].spans
         /\ st.traces[t].logs \subseteq st'.traces[t].logs]_st

\* Who only sees the events knows which sessions there are: an id is announced when
\* it appears, taken back when it goes, and ids that are used again alternate.
Told(ids, event) == CASE event[1] = "started" -> ids \cup {event[2]}
                      [] event[1] = "removed" -> ids \ {event[2]}
                      [] OTHER -> ids
EventsTellAll ==
  /\ FoldLeft(Told, Live(st), st'.events) = Live(st')
  /\ \A i \in DOMAIN st'.events :
       LET ids == FoldLeft(Told, Live(st), SubSeq(st'.events, 1, i - 1)) IN
       /\ st'.events[i][1] = "started" => st'.events[i][2] \notin ids
       /\ st'.events[i][1] = "removed" => st'.events[i][2] \in ids

\* ... and that what a session holds has changed: when it loses a trace to another
\* session, gains one from another, or a trace of it gains items.
Changes(id) ==
  \E t \in Traces :
    \/ t \in st.sessions[id].traces /\ t \notin st'.sessions[id].traces
    \/ Known(st, t) /\ t \in st'.sessions[id].traces \ st.sessions[id].traces
    \/ t \in st.sessions[id].traces /\ [st.traces[t] EXCEPT !.complete = FALSE]
                                         # [st'.traces[t] EXCEPT !.complete = FALSE]
ChangesAreTold ==
  [][/\ EventsTellAll
     /\ \A id \in Live(st) \cap Live(st') : Changes(id) =>
          \E e \in ToSet(st'.events) : e[1] \in {"started", "dirty"} /\ e[2] = id]_st

\* Whatever order and batches the spans of a trace arrive in, its session is the
\* one offline grouping would put it in: that of its earliest span, unless another
\* trace brought the session a stronger key or it was loaded and has none.
EarliestSpanOwns ==
  \A t \in Traces :
    LET key == KeyOf(st.traces[t].spans)
        owner == st.sessions[st.traces[t].session].key
    IN Known(st, t) /\ owner # NoKey /\ key \notin {NoKey, owner} => Outranks(owner, key)

\* An export that was stored is answered "retry" when another of its units was
\* refused: sending it again changes nothing, unless the trace was loaded.
RetryIsHarmless ==
  \A unit \in SpanUnits[st.at] : LET t == Attr[unit[1]].trace IN
    /\ Known(st, t) /\ ToSet(unit) \subseteq st.traces[t].spans
    /\ st.sessions[st.traces[t].session].key = NoKey => KeyOf(ToSet(unit)) = NoKey
    =>
      /\ ~Promotes(t, KeyOf(ToSet(unit)))
      /\ ~Owns(t, KeyOf(ToSet(unit)), unit)
      /\ SpansAdded(Drained, unit, st.traces[t].session, FALSE) = Drained

\* "A trace is finished 3 seconds after its root span arrives [...], and a session
\* when all its traces are."
SessionsFinish ==
  \A id \in SessionIds :
    (st.at \in Finishing /\ id \in Live(st)) ~> (id \in Live(st) => st.sessions[id].complete)
=============================================================================
