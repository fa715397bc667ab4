---------------------------- MODULE LiveManager ----------------------------
(***************************************************************************)
(* LiveManager (src/agentevals/streaming/manager.py): the event loop side  *)
(* of live telemetry.  Every action below is one run of the event loop     *)
(* between two suspension points, or one step of a worker thread.          *)
(*                                                                         *)
(* The store is seen through what TelemetryStore announces: sessions start,*)
(* change, absorb one another and go.  A trace has a life, its             *)
(* incarnation as a LiveTrace, and a version that starts over with it: the *)
(* two stand for its spans and logs.  Deadlines and debouncing are         *)
(* abstracted: what is pending may be due, what was asked for by a         *)
(* completion is due.                                                      *)
(***************************************************************************)
EXTENDS Integers, Sequences, FiniteSets, SequencesExt

CONSTANTS
  Ids,          \* session ids; an id is used again after its session went
  Traces,
  Watchers,
  None, Gone,   \* no value; the body of a "removed" event
  MaxWatchers,  \* MAX_WATCHERS
  MaxLives,     \* how often a trace id may become known
  MaxVersion,   \* how often a trace may change, by trace
  MaxGens,      \* how often a session id may be used
  Threads       \* recompute tasks there may be at a time, cancelled ones included

\* A trace's incarnation and version; what a view shows: of which incarnation of
\* its session, and of each trace.
Versions == [life : 0..MaxLives, version : Nat]
Views == [gen : 0..MaxGens, complete : BOOLEAN, content : [Traces -> Versions]]

ASSUME LiveAssumption ==
  /\ MaxWatchers \in Nat \ {0} /\ Threads \in Nat \ {0}
  /\ MaxLives \in Nat /\ MaxGens \in Nat /\ IsFiniteSet(Ids)
  /\ None \notin Ids \cup Traces \cup 1..Threads
  /\ None \notin Views /\ Gone \notin Views

VARIABLES
  store,   \* [sessions, traces]
  lm,      \* the manager: _views, _pending, _running, _memo, the recompute tasks, the watchers
  up,      \* the ticker runs
  lost     \* sessions whose last recompute failed (nothing asks for another)

vars == <<store, lm, up, lost>>

Nothing == [life |-> 0, version |-> 0]
NoTask == [stage |-> "free", id |-> None, view |-> None, snap |-> None, todo |-> {}, missed |-> None]
Unread == [i \in Ids |-> None]

Init == /\ store = [sessions |-> [i \in Ids |-> [live |-> FALSE, gen |-> 0, complete |-> FALSE]],
                    traces |-> [t \in Traces |-> [session |-> None, at |-> Nothing]]]
        /\ lm = [views |-> Unread, pending |-> {}, running |-> Unread,
                 tasks |-> [k \in 1..Threads |-> NoTask],
                 memo |-> [t \in Traces |-> Nothing],
                 watchers |-> [w \in Watchers |-> [state |-> "none", queue |-> << >>, seen |-> Unread]]]
        /\ up = TRUE
        /\ lost = {}
-----------------------------------------------------------------------------
(* The store *)

Live(s) == {i \in Ids : s.sessions[i].live}
Complete(s) == {i \in Live(s) : s.sessions[i].complete}
Known(s) == {t \in Traces : s.traces[t].session # None}
Contents(s, i) == [t \in Traces |-> IF s.traces[t].session = i THEN s.traces[t].at ELSE Nothing]

View(s, i, content) ==
  [gen |-> s.sessions[i].gen, complete |-> s.sessions[i].complete, content |-> content]
Current(s, i) == View(s, i, Contents(s, i))

Dropped(s, gone) ==
  [sessions |-> [i \in Ids |-> IF i \in gone
                               THEN [s.sessions[i] EXCEPT !.live = FALSE, !.complete = FALSE]
                               ELSE s.sessions[i]],
   traces |-> [t \in Traces |-> IF s.traces[t].session \in gone
                                THEN [s.traces[t] EXCEPT !.session = None] ELSE s.traces[t]]]

Begun(s, i) ==
  IF i \in Live(s) THEN s
  ELSE [s EXCEPT !.sessions[i] = [live |-> TRUE, gen |-> @.gen + 1, complete |-> FALSE]]

\* A LiveTrace is made at version 1; what is new in it reopens its session.
Grown(s, t, i) ==
  [s EXCEPT !.traces[t] = [session |-> i,
                           at |-> IF @.session = None THEN [life |-> @.at.life + 1, version |-> 1]
                                  ELSE [life |-> @.at.life, version |-> @.at.version + 1]],
            !.sessions[i].complete = FALSE]

Absorbed(s, source, i) ==
  Dropped([s EXCEPT !.traces = [q \in Traces |-> IF @[q].session = source
                                                 THEN [@[q] EXCEPT !.session = i] ELSE @[q]]], {source})

Completed(s, done) ==
  [s EXCEPT !.sessions = [i \in Ids |-> [s.sessions[i] EXCEPT !.complete = @ \/ i \in done]]]

\* The bounds of the model.
Room(s, t) == IF t \in Known(s) THEN s.traces[t].at.version < MaxVersion[t]
              ELSE s.traces[t].at.life < MaxLives
Usable(s, i) == i \in Live(s) \/ s.sessions[i].gen < MaxGens
-----------------------------------------------------------------------------
(* Watcher.put and _publish *)

\* Events for the ids that are the domain of bodies, in some order.
Events(bodies) ==
  LET keys == SetToSeq(DOMAIN bodies)
  IN [n \in DOMAIN keys |-> [key |-> keys[n], body |-> bodies[keys[n]]]]

\* Mutants: an event that is pending keeps its body and the newer one is lost; both are kept.
PutOnce(queue, bodies) ==
  LET pending == {queue[n].key : n \in DOMAIN queue}
  IN queue \o Events([i \in DOMAIN bodies \ pending |-> bodies[i]])

PutTwice(queue, bodies) == queue \o Events(bodies)

\* What is pending is popped when there is a newer event for its id.
Others(queue, keys) ==
  LET others[n \in 0..Len(queue)] ==
        IF n = 0 THEN << >>
        ELSE IF queue[n].key \in keys THEN others[n - 1] ELSE Append(others[n - 1], queue[n])
  IN others[Len(queue)]

Put(queue, bodies) == Others(queue, DOMAIN bodies) \o Events(bodies)

IsOpen(w) == lm.watchers[w].state = "open"

Publish(m, bodies) ==
  [m EXCEPT !.watchers = [w \in Watchers |->
     IF m.watchers[w].state # "open" THEN m.watchers[w]
     ELSE [m.watchers[w] EXCEPT !.queue = Put(@, bodies)]]]

\* view: the latest view, a summary until the first recompute.
Shown(m, s, i) ==
  IF m.views[i] # None THEN m.views[i] ELSE View(s, i, [t \in Traces |-> Nothing])
-----------------------------------------------------------------------------
(* _drain: what the events of a store call do to the manager, s being the  *)
(* store after it; started, removed and dirty are ids it announced.  Events *)
(* of one id come in this order; the order of ids does not matter.         *)

\* A task that has not begun never will; a thread goes on to its end.
Cancelled(task) == IF task.stage = "created" THEN NoTask ELSE [task EXCEPT !.id = None]

\* The memo is pruned when a session goes.
Forget(m, s, removed) ==
  [m EXCEPT !.views = [i \in Ids |-> IF i \in removed THEN None ELSE @[i]],
            !.pending = @ \ removed,
            !.running = [i \in Ids |-> IF i \in removed THEN None ELSE @[i]],
            !.tasks = [k \in DOMAIN @ |-> IF \E i \in removed : m.running[i] = k
                                          THEN Cancelled(@[k]) ELSE @[k]],
            !.memo = [t \in Traces |-> IF t \in Known(s) \/ removed = {} THEN @[t] ELSE Nothing]]

\* Mutant: a change while the session is being recomputed asks for nothing.
AsksWhenIdle(m, dirty) == {i \in dirty : m.running[i] = None}

Asks(m, dirty) == dirty

Drain(m, s, started, removed, dirty) ==
  LET forgotten == Publish(Forget(m, s, removed), [i \in removed |-> Gone])
      announced == Publish(forgotten, [i \in started |-> Shown(forgotten, s, i)])
  IN [announced EXCEPT !.pending = @ \cup Asks(announced, dirty)]

Applied(s, started, removed, dirty) ==
  /\ store' = s
  /\ lm' = Drain(lm, s, started, removed, dirty)
  /\ lost' = lost \ (removed \cup dirty)
  /\ UNCHANGED up

-----------------------------------------------------------------------------
(* Ingest.  gone: complete sessions that the store evicts to make room.    *)

\* _ingest, one routing unit: t stays in its session, or joins or starts session i.
Ingest(t, i, gone) ==
  /\ store.traces[t].session \in {None, i}
  /\ Room(store, t) /\ Usable(store, i)
  /\ gone \subseteq Complete(store) \ {i}
  /\ Applied(Grown(Begun(Dropped(store, gone), i), t, i), {i} \ Live(store), gone, {i})

\* _ingest, one routing unit: t learns a key and takes its whole session to i.
IngestPromotes(t, i) ==
  LET source == store.traces[t].session
  IN /\ source \notin {None, i}
     /\ Room(store, t) /\ Usable(store, i)
     /\ Applied(Grown(Absorbed(Begun(store, i), source, i), t, i), {i} \ Live(store), {source}, {i})

\* load_session: a complete session under a new id (inputs: bundles whose traces are not known).
LoadSession(t, i, gone) ==
  LET left == Dropped(store, gone)
      filled == Grown(Begun(left, i), t, i)
  IN /\ i \notin Live(left) /\ Usable(left, i)
     /\ gone \subseteq Complete(store)
     /\ t \notin Known(left) /\ Room(left, t)
     /\ Applied([filled EXCEPT !.sessions[i].complete = TRUE], {i}, gone, {i})
-----------------------------------------------------------------------------
(* tick and _recompute *)

Slots(m) == {k \in DOMAIN m.tasks : m.tasks[k].stage = "free"}

\* slot: a free slot for each of the sessions whose recompute starts.
Start(m, slot) ==
  [m EXCEPT !.pending = @ \ DOMAIN slot,
            !.running = [i \in Ids |-> IF i \in DOMAIN slot THEN slot[i] ELSE @[i]],
            !.tasks = [k \in DOMAIN @ |->
               IF \E i \in DOMAIN slot : slot[i] = k
               THEN [NoTask EXCEPT !.stage = "created", !.id = CHOOSE i \in DOMAIN slot : slot[i] = k]
               ELSE @[k]]]

\* Mutant: a session is recomputed although a recompute of it is running.
StartableAgain(m, i) == TRUE

Startable(m, i) == m.running[i] = None

\* tick: the store completes the sessions done and drops the complete sessions gone,
\* then the recomputes that are due start, those of done at once.
Tick(done, gone, due) ==
  LET after == Dropped(Completed(store, done), gone)
      asked == [lm EXCEPT !.pending = @ \cup done]
      drained == Drain(asked, after, {}, gone, {})
      starting == {i \in (done \cup due) \cap drained.pending : Startable(drained, i)}
      slots == Injection(starting, Slots(drained))
  IN /\ up /\ done \cup gone \cup due # {}
     /\ done \subseteq Live(store) \ Complete(store)
     /\ gone \subseteq Complete(store)
     /\ due \subseteq {i \in lm.pending \ gone : Startable(lm, i)}
     /\ slots # {}
     /\ store' = after
     /\ lm' = Start(drained, CHOOSE slot \in slots : TRUE)
     /\ lost' = lost \ (gone \cup done)
     /\ UNCHANGED up

\* _recompute, up to the thread: the facts and the snapshot of the session.
Begin(k) ==
  LET task == lm.tasks[k]
      i == task.id
      content == Contents(store, i)
  IN /\ task.stage = "created"
     /\ lm' = IF i \notin Live(store)
              THEN [lm EXCEPT !.tasks[k] = NoTask, !.running[i] = None]
              ELSE [lm EXCEPT !.tasks[k] = [task EXCEPT
                      !.stage = "thread", !.snap = content,
                      !.view = View(store, i, [t \in Traces |-> Nothing]),
                      !.todo = {t \in Traces : content[t] # Nothing}]]
     /\ UNCHANGED <<store, up, lost>>

InThread(k) == lm.tasks[k].stage = "thread"

\* Mutant: a memoized trace is taken whatever its version.
IsMemoizedEver(entry, at) == entry # Nothing

IsMemoized(entry, at) == entry.version = at.version

\* The view that is made has trace t, as it was at a version of it.
Built(task, t, at) == [task EXCEPT !.todo = @ \ {t}, !.view.content[t] = at]

\* _conversation, the next trace of the snapshot: its turns are memoized ...
MemoHit(k) ==
  LET t == CHOOSE t \in lm.tasks[k].todo : TRUE
  IN /\ InThread(k) /\ lm.tasks[k].missed = None /\ lm.tasks[k].todo # {}
     /\ IsMemoized(lm.memo[t], lm.tasks[k].snap[t])
     /\ lm' = [lm EXCEPT !.tasks[k] = Built(@, t, lm.memo[t])]
     /\ UNCHANGED <<store, up, lost>>

\* ... or not, and the trace is built without the lock ...
MemoMiss(k) ==
  LET t == CHOOSE t \in lm.tasks[k].todo : TRUE
  IN /\ InThread(k) /\ lm.tasks[k].missed = None /\ lm.tasks[k].todo # {}
     /\ ~IsMemoized(lm.memo[t], lm.tasks[k].snap[t])
     /\ lm' = [lm EXCEPT !.tasks[k].missed = t]
     /\ UNCHANGED <<store, up, lost>>

\* ... and memoized.
MemoWrite(k) ==
  LET t == lm.tasks[k].missed
      at == lm.tasks[k].snap[t]
  IN /\ InThread(k) /\ t # None
     /\ lm' = [lm EXCEPT !.memo[t] = at, !.tasks[k] = [Built(@, t, at) EXCEPT !.missed = None]]
     /\ UNCHANGED <<store, up, lost>>

Ended(m, k) ==
  [m EXCEPT !.tasks[k] = NoTask,
            !.running = [i \in Ids |-> IF @[i] = k THEN None ELSE @[i]]]

SameSession(i, view) == i \in Live(store) /\ store.sessions[i].gen = view.gen

\* The thread ends: the view is published, unless the task was cancelled or the session is another.
Finish(k) ==
  LET task == lm.tasks[k]
      i == task.id
  IN /\ InThread(k) /\ task.todo = {} /\ task.missed = None
     /\ lm' = IF i # None /\ SameSession(i, task.view)
              THEN Publish([Ended(lm, k) EXCEPT !.views[i] = task.view], [id \in {i} |-> task.view])
              ELSE Ended(lm, k)
     /\ UNCHANGED <<store, up, lost>>

\* The thread fails: the error is logged, the view stays.
RecomputeFails(k) ==
  /\ InThread(k)
  /\ lm' = Ended(lm, k)
  /\ lost' = lost \cup ({lm.tasks[k].id} \ ({None} \cup lm.pending))
  /\ UNCHANGED <<store, up>>
-----------------------------------------------------------------------------
(* Watchers and the end *)

\* subscribe: every session, then "synced".
Subscribe(w) ==
  /\ lm.watchers[w].state = "none"
  /\ Cardinality({x \in Watchers : IsOpen(x)}) < MaxWatchers
  /\ lm' = [lm EXCEPT !.watchers[w] =
              [@ EXCEPT !.state = "open",
                        !.queue = Append(Events([i \in Live(store) |-> Shown(lm, store, i)]),
                                         [key |-> None, body |-> None])]]
  /\ UNCHANGED <<store, up, lost>>

\* Watcher.next: the oldest pending event, whether or not the watcher is closed.
Read(w) ==
  LET event == Head(lm.watchers[w].queue)
  IN /\ lm.watchers[w].queue # << >>
     /\ lm' = [lm EXCEPT !.watchers[w].queue = Tail(@),
                         !.watchers[w].seen = [i \in Ids |-> IF i = event.key THEN event.body ELSE @[i]]]
     /\ UNCHANGED <<store, up, lost>>

Closed(watcher) == [watcher EXCEPT !.state = IF @ = "open" THEN "closed" ELSE @]

\* The stream ends, by the client or because a closed watcher has nothing left.
Unsubscribe(w) ==
  /\ lm.watchers[w].state # "none"
  /\ lm' = [lm EXCEPT !.watchers[w] = [state |-> "none", queue |-> << >>, seen |-> Unread]]
  /\ UNCHANGED <<store, up, lost>>

\* shutdown, up to the wait for the cancelled tasks.
Shutdown ==
  /\ up /\ up' = FALSE
  /\ lm' = [lm EXCEPT
       !.watchers = [w \in Watchers |-> Closed(@[w])],
       !.tasks = [k \in DOMAIN @ |-> IF \E i \in Ids : lm.running[i] = k THEN Cancelled(@[k]) ELSE @[k]],
       !.running = Unread]
  /\ UNCHANGED <<store, lost>>

Next ==
  \/ \E t \in Traces, i \in Ids :
       \/ IngestPromotes(t, i)
       \/ \E gone \in SUBSET Complete(store) : Ingest(t, i, gone) \/ LoadSession(t, i, gone)
  \/ \E done, gone, due \in SUBSET Ids : Tick(done, gone, due)
  \/ \E k \in 1..Threads :
       \/ Begin(k) \/ MemoHit(k) \/ MemoMiss(k) \/ MemoWrite(k)
       \/ Finish(k) \/ RecomputeFails(k)
  \/ \E w \in Watchers : Subscribe(w) \/ Read(w) \/ Unsubscribe(w)
  \/ Shutdown

Spec == Init /\ [][Next]_vars

\* The ticker comes round for what is due, tasks and threads go on, open streams are read.
TickStarts(i) == \E done, gone, due \in SUBSET Ids : i \in due /\ Tick(done, gone, due)
Steps(k) == Begin(k) \/ MemoHit(k) \/ MemoMiss(k) \/ MemoWrite(k) \/ Finish(k)
FairSpec == /\ Spec
            /\ \A i \in Ids : SF_vars(TickStarts(i))
            /\ \A k \in 1..Threads : WF_vars(Steps(k))
            /\ \A w \in Watchers : WF_vars(Read(w))
-----------------------------------------------------------------------------
(* Properties *)

\* What the manager's tables may hold: sessions and threads that exist, views of the sessions.
TypeOK ==
  /\ store \in [sessions : [Ids -> [live : BOOLEAN, gen : 0..MaxGens, complete : BOOLEAN]],
                traces : [Traces -> [session : Ids \cup {None}, at : Versions]]]
  /\ lm.pending \subseteq Ids /\ lost \subseteq Ids /\ up \in BOOLEAN
  /\ lm.running \in [Ids -> (1..Threads) \cup {None}]
  /\ lm.memo \in [Traces -> Versions]
  /\ \A k \in 1..Threads : /\ lm.tasks[k].stage \in {"free", "created", "thread"}
                           /\ lm.tasks[k].stage = "created" => lm.tasks[k].id \in Ids
  /\ \A w \in Watchers : /\ lm.watchers[w].state \in {"none", "open", "closed"}
                         /\ Len(lm.watchers[w].queue) <= Cardinality(Ids) + 1

\* What a watcher was last sent, or will be sent last, of session i.
LastTold(w, i) ==
  LET queue == lm.watchers[w].queue
      told == {n \in DOMAIN queue : queue[n].key = i}
  IN IF told = {} THEN lm.watchers[w].seen[i] ELSE queue[CHOOSE n \in told : TRUE].body

\* A cached view is of the session that has the id now, never of one that went, although threads
\* of sessions that went are still at work and ids are used again.
ViewsAreOfLiveSessions ==
  \A i \in Ids : lm.views[i] # None => i \in Live(store) /\ lm.views[i].gen = store.sessions[i].gen

\* The view of a session that needs no recompute shows all that the store has of it
\* ("Conversations are recomputed on frozen snapshots in a worker thread, with turns memoized per
\* trace version", manager.py:4-5): no change falls between a snapshot and the next request.
SettledViewsAreCurrent ==
  /\ ViewsAreOfLiveSessions
  /\ \A i \in Live(store) \ (lm.pending \cup lost) :
       (up /\ lm.running[i] = None) => lm.views[i] = Current(store, i)

\* A watcher that skips intermediate states converges (manager.py:8-10): once its queue is read it
\* knows the manager's view of every session, and of no session that went.
WatchersConverge ==
  \A w \in Watchers : IsOpen(w) => \A i \in Ids :
    IF i \notin Live(store) THEN LastTold(w, i) \in {None, Gone}
    ELSE IF lm.views[i] # None THEN LastTold(w, i) = lm.views[i]
    ELSE LastTold(w, i) \notin {None, Gone} /\ LastTold(w, i).gen = store.sessions[i].gen

NotOlder(old, new) ==
  \A t \in Traces : \/ new.content[t].life > old.content[t].life
                    \/ /\ new.content[t].life = old.content[t].life
                       /\ new.content[t].version >= old.content[t].version

\* What a reader is sent of one session never goes back in time: two recomputes of it do not overlap,
\* and none that was cancelled is published.
ReadersNeverGoBack ==
  [][\A w \in Watchers, i \in Ids :
       LET old == lm.watchers[w].seen[i]
           new == lm'.watchers[w].seen[i]
       IN (old \notin {None, Gone} /\ new \notin {None, Gone} /\ old.gen = new.gen)
          => NotOlder(old, new)]_vars

\* Once a session stops changing, every reader that stays is sent what it is (or a recompute of it
\* failed, or it went).
ReadersCatchUp ==
  \A w \in Watchers, i \in Ids :
    (up /\ IsOpen(w) /\ i \in Live(store)) ~>
      \/ ~up \/ ~IsOpen(w) \/ i \notin Live(store) \/ i \in lost
      \/ lm.watchers[w].seen[i] = Current(store, i)
=============================================================================
