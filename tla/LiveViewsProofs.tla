--------------------------- MODULE LiveViewsProofs ---------------------------
(***************************************************************************)
(* What readers of live sessions see, for any number of sessions, traces,  *)
(* watchers and recompute tasks: a settled view is current, and what is    *)
(* sent of one session never goes back in time.  Both hold as long as no   *)
(* trace id becomes known a second time, which is the hypothesis           *)
(* NoTraceReturns; run live_recreated shows that they need it.             *)
(***************************************************************************)
EXTENDS LiveProofs

\* A trace id is known once: after its session went, no span of it comes again.
NoTraceReturns == MaxLives = 1

-----------------------------------------------------------------------------
(* Tasks and views.                                                        *)

\* A session that asks for a recompute lives, and one that is being recomputed does
\* and has one task, which is its own;
\* a task that has lost its session stays without one.
TasksFit(s, m) ==
  /\ m.pending \subseteq Live(s)
  /\ \A i \in Ids : m.running[i] # None =>
       /\ i \in Live(s)
       /\ m.tasks[m.running[i]].id = i /\ m.tasks[m.running[i]].stage # "free"
  /\ \A k \in 1..Threads :
       m.tasks[k].stage # "free" /\ m.tasks[k].id # None => m.running[m.tasks[k].id] = k

\* The view in a thread is that of its snapshot, as far as it got; the snapshot
\* is of the session that has the id, and up to date unless the session asks for
\* another recompute.
ThreadFits(s, m, task) ==
  task.stage = "thread" =>
    /\ \A t \in Traces : IsStamp(task.snap[t])
    /\ \A t \in Traces \ task.todo : task.view.content[t] = task.snap[t]
    /\ task.id # None =>
         /\ task.view.gen = s.sessions[task.id].gen
         /\ \/ task.id \in m.pending
            \/ /\ task.snap = Contents(s, task.id)
               /\ task.view.complete = s.sessions[task.id].complete
ThreadsFit(s, m) == \A k \in 1..Threads : ThreadFits(s, m, m.tasks[k])

MemoFits(m) == \A t \in Traces : IsStamp(m.memo[t])

Settled(s, m, u, l) ==
  \A i \in Live(s) \ (m.pending \cup l) :
    u /\ m.running[i] = None => m.views[i] = Current(s, i)

ViewsFit(s, m, u, l) ==
  /\ StoreFits(s) /\ OfLiveSessions(s, m)
  /\ TasksFit(s, m) /\ ThreadsFit(s, m) /\ MemoFits(m) /\ Settled(s, m, u, l)

ViewsInv == LiveTyped /\ ViewsFit(store, lm, up, lost)

-----------------------------------------------------------------------------
(* What is sent, and in which order.                                       *)

\* A cached view is no newer than the snapshot of a running thread, and that is no
\* newer than the session.
InOrder(s, m) ==
  /\ \A i \in Ids : m.views[i] # None => Within(m.views[i].content, Contents(s, i))
  /\ \A k \in 1..Threads :
       LET i == m.tasks[k].id
       IN  m.tasks[k].stage = "thread" /\ i # None =>
             /\ Within(m.tasks[k].snap, Contents(s, i))
             /\ m.views[i] # None => Within(m.views[i].content, m.tasks[k].snap)

\* A view that a watcher was told of i is no newer than the manager's.
NotAhead(s, m, i, body) ==
  body \in Views =>
    /\ body.gen <= s.sessions[i].gen
    /\ i \in Live(s) /\ body.gen = s.sessions[i].gen =>
         \A t \in Traces :
           AtLeast(IF m.views[i] # None THEN m.views[i].content[t] ELSE Nothing, body.content[t])

\* What is pending for a watcher is no older than what it has seen, and what an open
\* watcher was told is no newer than what there is.
SentInOrder(s, m) ==
  \A w \in Watchers, i \in Ids :
    LET watcher == m.watchers[w]
        seen == watcher.seen[i]
    IN  /\ \A body \in Queued(watcher.queue, i) :
             body \in Views /\ seen \in Views /\ body.gen = seen.gen
               => Within(seen.content, body.content)
        /\ watcher.state = "open" =>
             \A body \in {seen} \cup Queued(watcher.queue, i) : NotAhead(s, m, i, body)

ReadersInv == ViewsInv /\ InOrder(store, lm) /\ SentInOrder(store, lm)

-----------------------------------------------------------------------------
(* Versions.                                                               *)

LEMMA VersionsAreNatural ==
  ASSUME NEW c \in Snapshots, NEW t \in Traces
  PROVE  c[t] \in Versions /\ c[t].life \in Nat /\ c[t].version \in Nat
BY LiveAssumption DEF Snapshots, Versions

LEMMA NothingIsLeast ==
  /\ Nothing \in Versions /\ IsStamp(Nothing)
  /\ \A at \in Versions : AtLeast(at, Nothing)
BY LiveAssumption DEF Nothing, IsStamp, AtLeast, Versions

LEMMA WithinItself ==
  ASSUME NEW c \in Snapshots
  PROVE  Within(c, c)
BY VersionsAreNatural DEF Within, AtLeast

LEMMA AtLeastIsTransitive ==
  ASSUME NEW x \in Versions, NEW y \in Versions, NEW z \in Versions, AtLeast(y, x), AtLeast(z, y)
  PROVE  AtLeast(z, x)
BY LiveAssumption DEF AtLeast, Versions

LEMMA WithinIsTransitive ==
  ASSUME NEW a \in Snapshots, NEW b \in Snapshots, NEW c \in Snapshots, Within(a, b), Within(b, c)
  PROVE  Within(a, c)
BY AtLeastIsTransitive DEF Within, Snapshots

\* Under NoTraceReturns a version tells which.
LEMMA VersionTells ==
  ASSUME NoTraceReturns, NEW x \in Versions, NEW y \in Versions, IsStamp(x), IsStamp(y),
         x.version = y.version
  PROVE  x = y
BY DEF NoTraceReturns, Versions, IsStamp

LEMMA ViewHere ==
  ASSUME NEW view \in Views
  PROVE  view.gen \in Nat /\ view.complete \in BOOLEAN /\ view.content \in Snapshots /\ view # None
BY LiveAssumption DEF Views, Snapshots

LEMMA ContentsHere ==
  ASSUME NEW s \in Stores, NEW i
  PROVE  Contents(s, i) \in Snapshots
BY NothingIsLeast DEF Contents, Snapshots, Stores, TraceRows

LEMMA SummaryHere ==
  ASSUME NEW s, NEW i
  PROVE  /\ Summary(s, i).gen = s.sessions[i].gen /\ Summary(s, i).complete = s.sessions[i].complete
         /\ \A t \in Traces : Summary(s, i).content[t] = Nothing
BY DEF Summary, View

-----------------------------------------------------------------------------
(* The events of a store call.                                             *)

LEMMA DrainFits ==
  ASSUME NEW s \in Stores, NEW r, NEW started \in SUBSET Ids, NEW removed \in SUBSET Ids,
         NEW changed \in SUBSET Ids, Changes(s, r, started, removed, changed),
         NEW m, Typed(m), NEW u, NEW l, ViewsFit(s, m, u, l),
         NEW dirty \in SUBSET changed, changed \subseteq dirty \cup (m.pending \ removed),
         NEW p, Drains(m, r, started, removed, dirty, p),
         NEW l2, l \ l2 \subseteq removed \cup dirty \cup m.pending
  PROVE  ViewsFit(r, p, u, l2)
<1>1. /\ r \in Stores /\ started \subseteq changed /\ changed \subseteq Live(r)
      /\ Live(r) = (Live(s) \ removed) \cup started
      /\ started \cap (Live(s) \ removed) = {}
      /\ \A i \in Ids \ started : r.sessions[i].gen = s.sessions[i].gen
      /\ \A i \in Live(r) \ changed : /\ Contents(r, i) = Contents(s, i)
                                      /\ r.sessions[i].complete = s.sessions[i].complete
      /\ StoreFits(s) => StoreFits(r)
  BY DEF Changes
<1>2. /\ Typed(p)
      /\ \A i \in Ids : p.views[i] = IF i \in removed THEN None ELSE m.views[i]
      /\ p.pending = (m.pending \ removed) \cup dirty
      /\ \A i \in Ids : p.running[i] = IF i \in removed THEN None ELSE m.running[i]
      /\ \A k \in 1..Threads : p.tasks[k] =
           IF \E i \in removed : m.running[i] = k THEN Cancelled(m.tasks[k]) ELSE m.tasks[k]
      /\ \A t \in Traces : p.memo[t] \in {m.memo[t], Nothing}
  BY DEF Drains
<1>3. /\ StoreFits(s) /\ OfLiveSessions(s, m) /\ TasksFit(s, m) /\ ThreadsFit(s, m)
      /\ MemoFits(m) /\ Settled(s, m, u, l)
  BY DEF ViewsFit
<1>4. StoreFits(r)
  BY <1>1, <1>3
<1>5. OfLiveSessions(r, p)
  BY <1>1, <1>2, <1>3 DEF OfLiveSessions
<1>6. \A i \in Ids : /\ m.running[i] # None => m.running[i] \in 1..Threads
                     /\ p.running[i] # None => m.running[i] = p.running[i] /\ i \notin removed
  BY <1>2 DEF Typed, Managers
\* A task is left alone unless its session goes.
<1>7. ASSUME NEW k \in 1..Threads, p.tasks[k].stage # "free", p.tasks[k].id # None
      PROVE  p.tasks[k] = m.tasks[k] /\ m.tasks[k].id \in Ids \ removed
  <2>1. m.tasks[k] \in TaskRows
    BY TaskHere
  <2>2. CASE \E i \in removed : m.running[i] = k
    <3>1. p.tasks[k] = Cancelled(m.tasks[k])
      BY <1>2, <2>2
    <3>2. p.tasks[k].stage = "free" \/ p.tasks[k].id = None
      BY <2>1, <3>1, NoTaskTyped DEF Cancelled, TaskRows
    <3> QED
      BY <1>7, <3>2
  <2>3. CASE ~ \E i \in removed : m.running[i] = k
    <3>1. p.tasks[k] = m.tasks[k]
      BY <1>2, <2>3
    <3>2. m.tasks[k].id \in Ids /\ m.running[m.tasks[k].id] = k
      BY <1>3, <1>7, <2>1, <3>1 DEF TasksFit, TaskRows
    <3> QED
      BY <2>3, <3>1, <3>2
  <2> QED
    BY <2>2, <2>3
<1>8. TasksFit(r, p)
  <2>1. p.pending \subseteq Live(r)
    BY <1>1, <1>2, <1>3 DEF TasksFit
  <2>2. ASSUME NEW i \in Ids, p.running[i] # None
        PROVE  /\ i \in Live(r)
               /\ p.tasks[p.running[i]].id = i /\ p.tasks[p.running[i]].stage # "free"
    <3> DEFINE k == m.running[i]
    <3>1. p.running[i] = k /\ i \notin removed /\ k \in 1..Threads /\ k # None
      BY <1>6, <2>2
    <3>2. i \in Live(s) /\ m.tasks[k].id = i /\ m.tasks[k].stage # "free"
      BY <1>3, <3>1 DEF TasksFit
    <3>3. \A j \in removed : m.running[j] = k => j = i
      BY <1>3, <3>1, <3>2 DEF TasksFit
    <3>4. p.tasks[k] = m.tasks[k]
      BY <1>2, <3>1, <3>3
    <3> QED
      BY <1>1, <3>1, <3>2, <3>4
  <2>3. ASSUME NEW k \in 1..Threads, p.tasks[k].stage # "free", p.tasks[k].id # None
        PROVE  p.running[p.tasks[k].id] = k
    BY <1>2, <1>3, <1>7, <2>3 DEF TasksFit
  <2> QED
    BY <2>1, <2>2, <2>3 DEF TasksFit
<1>9. ThreadsFit(r, p)
  <2> SUFFICES ASSUME NEW k \in 1..Threads, p.tasks[k].stage = "thread"
               PROVE  LET task == p.tasks[k]
                      IN  /\ \A t \in Traces : IsStamp(task.snap[t])
                          /\ \A t \in Traces \ task.todo : task.view.content[t] = task.snap[t]
                          /\ task.id # None =>
                               /\ task.view.gen = r.sessions[task.id].gen
                               /\ \/ task.id \in p.pending
                                  \/ /\ task.snap = Contents(r, task.id)
                                     /\ task.view.complete = r.sessions[task.id].complete
    BY DEF ThreadsFit, ThreadFits
  <2> DEFINE task == p.tasks[k]
             old == m.tasks[k]
  <2>1. old \in TaskRows
    BY TaskHere
  <2>2. \/ task = old \/ task = Cancelled(old)
    BY <1>2
  <2>3. /\ old.stage = "thread" /\ task.snap = old.snap /\ task.todo = old.todo
        /\ task.view = old.view
    BY <2>1, <2>2, NoTaskTyped DEF Cancelled, TaskRows
  <2>4. ThreadFits(s, m, old)
    BY <1>3 DEF ThreadsFit
  <2>5. ASSUME task.id # None
        PROVE  /\ task.view.gen = r.sessions[task.id].gen
               /\ \/ task.id \in p.pending
                  \/ /\ task.snap = Contents(r, task.id)
                     /\ task.view.complete = r.sessions[task.id].complete
    <3> DEFINE i == old.id
    <3>1. task = old /\ i \in Ids \ removed /\ i # None
      BY <1>7, <2>3, <2>5
    <3>2. m.running[i] = k
      BY <1>3, <2>3, <3>1 DEF TasksFit
    <3>3. i \in Live(s) /\ i \in Live(r) /\ i \notin started
      BY <1>1, <1>3, <3>1, <3>2, LiveAssumption DEF TasksFit
    <3>4. old.view.gen = r.sessions[i].gen
      BY <1>1, <2>3, <2>4, <3>1, <3>3 DEF ThreadFits
    <3>5. CASE i \in m.pending \/ i \in dirty
      BY <1>2, <3>1, <3>4, <3>5
    <3>6. CASE i \notin m.pending /\ i \notin dirty
      <4>1. i \notin changed
        BY <3>6
      <4>2. old.snap = Contents(s, i) /\ old.view.complete = s.sessions[i].complete
        BY <2>3, <2>4, <3>1, <3>6 DEF ThreadFits
      <4> QED
        BY <1>1, <3>1, <3>3, <3>4, <4>1, <4>2
    <3> QED
      BY <3>5, <3>6
  <2>6. /\ \A t \in Traces : IsStamp(old.snap[t])
        /\ \A t \in Traces \ old.todo : old.view.content[t] = old.snap[t]
    BY <2>3, <2>4 DEF ThreadFits
  <2> HIDE DEF task, old
  <2> QED
    BY <2>3, <2>5, <2>6 DEF task
<1>10. MemoFits(p)
  BY <1>2, <1>3, NothingIsLeast DEF MemoFits
<1>11. Settled(r, p, u, l2)
  <2> SUFFICES ASSUME NEW i \in Live(r) \ (p.pending \cup l2), u, p.running[i] = None
               PROVE  p.views[i] = Current(r, i)
    BY DEF Settled
  <2>1. i \notin dirty /\ i \notin started /\ i \notin changed
    BY <1>1, <1>2
  <2>2. i \in Live(s) /\ i \notin removed /\ i \in Ids /\ i \notin m.pending
    BY <1>1, <1>2, <2>1 DEF Live
  <2>3. i \notin l
    BY <2>1, <2>2
  <2>4. m.running[i] = None /\ p.views[i] = m.views[i]
    BY <1>2, <2>2
  <2>5. m.views[i] = Current(s, i)
    BY <1>3, <2>2, <2>3, <2>4 DEF Settled
  <2>6. Current(r, i) = Current(s, i)
    BY <1>1, <2>1, <2>2 DEF Current, View
  <2> QED
    BY <2>4, <2>5, <2>6
<1> QED
  BY <1>4, <1>5, <1>8, <1>9, <1>10, <1>11 DEF ViewsFit

LEMMA DrainInOrder ==
  ASSUME NEW s \in Stores, NEW r, NEW started \in SUBSET Ids, NEW removed \in SUBSET Ids,
         NEW changed, Changes(s, r, started, removed, changed),
         NEW m, Typed(m), NEW u, NEW l, ViewsFit(s, m, u, l), InOrder(s, m),
         NEW dirty, NEW p, Drains(m, r, started, removed, dirty, p)
  PROVE  InOrder(r, p)
<1>1. /\ r \in Stores
      /\ Live(r) = (Live(s) \ removed) \cup started
      /\ started \cap (Live(s) \ removed) = {}
      /\ \A i \in Live(r) \ started : Within(Contents(s, i), Contents(r, i))
  BY DEF Changes
<1>2. /\ Typed(p)
      /\ \A i \in Ids : p.views[i] = IF i \in removed THEN None ELSE m.views[i]
      /\ \A k \in 1..Threads : p.tasks[k] =
           IF \E i \in removed : m.running[i] = k THEN Cancelled(m.tasks[k]) ELSE m.tasks[k]
  BY DEF Drains
<1>3. OfLiveSessions(s, m) /\ TasksFit(s, m)
  BY DEF ViewsFit
<1>4. \A i : Contents(s, i) \in Snapshots /\ Contents(r, i) \in Snapshots
  BY <1>1, ContentsHere
<1>5. ASSUME NEW i \in Ids, p.views[i] # None
      PROVE  Within(p.views[i].content, Contents(r, i))
  <2>1. i \notin removed /\ p.views[i] = m.views[i] /\ m.views[i] # None
    BY <1>2, <1>5
  <2>2. i \in Live(s) /\ i \in Live(r) \ started
    BY <1>1, <1>3, <2>1 DEF OfLiveSessions
  <2>3. m.views[i] \in Views
    BY <2>1 DEF Typed, Managers
  <2>4. m.views[i].content \in Snapshots
    BY <2>3, ViewHere
  <2>5. Within(m.views[i].content, Contents(s, i)) /\ Within(Contents(s, i), Contents(r, i))
    BY <1>1, <2>1, <2>2 DEF InOrder
  <2> QED
    BY <1>4, <2>1, <2>4, <2>5, WithinIsTransitive
<1>6. ASSUME NEW k \in 1..Threads, p.tasks[k].stage = "thread", p.tasks[k].id # None
      PROVE  LET i == p.tasks[k].id
             IN  /\ Within(p.tasks[k].snap, Contents(r, i))
                 /\ p.views[i] # None => Within(p.views[i].content, p.tasks[k].snap)
  <2> DEFINE task == m.tasks[k]
             i == task.id
  <2>1. task \in TaskRows /\ TaskTyped(task)
    BY TaskHere
  <2>2. ~ \E j \in removed : m.running[j] = k
    <3> SUFFICES ASSUME \E j \in removed : m.running[j] = k PROVE FALSE
      OBVIOUS
    <3>1. p.tasks[k] = Cancelled(task)
      BY <1>2
    <3>2. p.tasks[k].stage = "free" \/ p.tasks[k].id = None
      BY <2>1, <3>1, NoTaskTyped DEF Cancelled, TaskRows
    <3> QED
      BY <1>6, <3>2
  <2>3. p.tasks[k] = task
    BY <1>2, <2>2
  <2>4. task.stage = "thread" /\ i # None /\ i \in Ids /\ task.snap \in Snapshots
    BY <1>6, <2>1, <2>3 DEF TaskRows, TaskTyped
  <2>5. m.running[i] = k /\ k # None
    BY <1>3, <2>4, LiveAssumption DEF TasksFit
  <2>6. i \in Live(s) /\ i \notin removed
    BY <1>3, <2>2, <2>4, <2>5 DEF TasksFit
  <2>7. i \in Live(r) \ started
    BY <1>1, <2>6
  <2>8. Within(task.snap, Contents(s, i)) /\ Within(Contents(s, i), Contents(r, i))
    BY <1>1, <2>4, <2>7 DEF InOrder
  <2>9. Within(task.snap, Contents(r, i))
    BY <1>4, <2>4, <2>8, WithinIsTransitive
  <2>10. m.views[i] # None => Within(m.views[i].content, task.snap)
    BY <2>4 DEF InOrder
  <2> QED
    BY <1>2, <2>3, <2>4, <2>6, <2>9, <2>10
<1> QED
  BY <1>5, <1>6 DEF InOrder

LEMMA DrainSentInOrder ==
  ASSUME NEW s \in Stores, NEW r, NEW started \in SUBSET Ids, NEW removed \in SUBSET Ids,
         NEW changed, Changes(s, r, started, removed, changed),
         NEW m, Typed(m), OfLiveSessions(s, m), SentInOrder(s, m),
         NEW dirty, NEW p, Drains(m, r, started, removed, dirty, p)
  PROVE  SentInOrder(r, p)
<1>1. /\ r \in Stores
      /\ Live(r) = (Live(s) \ removed) \cup started
      /\ started \cap (Live(s) \ removed) = {}
      /\ \A i \in started : r.sessions[i].gen = s.sessions[i].gen + 1
      /\ \A i \in Ids \ started : r.sessions[i].gen = s.sessions[i].gen
  BY DEF Changes
<1>2. /\ Typed(p) /\ DrainTells(m, p, r, started, removed)
      /\ \A i \in Ids : p.views[i] = IF i \in removed THEN None ELSE m.views[i]
  BY DEF Drains
<1> SUFFICES ASSUME NEW w \in Watchers, NEW i \in Ids
             PROVE  LET watcher == p.watchers[w]
                        seen == watcher.seen[i]
                    IN  /\ \A body \in Queued(watcher.queue, i) :
                             body \in Views /\ seen \in Views /\ body.gen = seen.gen
                               => Within(seen.content, body.content)
                        /\ watcher.state = "open" =>
                             \A body \in {seen} \cup Queued(watcher.queue, i) : NotAhead(r, p, i, body)
  BY DEF SentInOrder
<1> DEFINE old == m.watchers[w]
           new == p.watchers[w]
           seen == old.seen[i]
           first == IF i \notin removed /\ m.views[i] # None THEN m.views[i] ELSE Summary(r, i)
<1>3. /\ new.state = old.state /\ new.seen = old.seen
      /\ old.state # "open" => new = old
      /\ old.state = "open" =>
           Queued(new.queue, i) = IF i \in started THEN {first}
                                  ELSE IF i \in removed THEN {Gone} ELSE Queued(old.queue, i)
  BY <1>2 DEF DrainTells
<1>4. /\ \A body \in Queued(old.queue, i) :
           body \in Views /\ seen \in Views /\ body.gen = seen.gen
             => Within(seen.content, body.content)
      /\ old.state = "open" =>
           \A body \in {seen} \cup Queued(old.queue, i) : NotAhead(s, m, i, body)
  BY DEF SentInOrder
<1>5. Gone \notin Views /\ s.sessions[i].gen \in Nat
  BY LiveAssumption DEF Stores, SessionRows
<1>6. ASSUME NEW body \in Views PROVE body.gen \in Nat
  BY ViewHere
<1> HIDE DEF old, new
<1>7. CASE old.state # "open"
  BY <1>3, <1>4, <1>7 DEF old, new
<1>8. CASE old.state = "open" /\ i \in started
  <2>1. p.views[i] = None
    <3>1. i \in removed \/ i \notin Live(s)
      BY <1>1, <1>8
    <3>2. i \in removed \/ m.views[i] = None
      BY <3>1 DEF OfLiveSessions
    <3> QED
      BY <1>2, <3>2
  <2>2. first = Summary(r, i)
    BY <1>2, <2>1
  <2>3. Summary(r, i) \in Views /\ Summary(r, i).gen = s.sessions[i].gen + 1
    BY <1>1, <1>8, SummaryIsAView
  <2>4. NotAhead(r, p, i, Summary(r, i))
    <3>1. \A t \in Traces : AtLeast(Nothing, Summary(r, i).content[t])
      BY SummaryHere, NothingIsLeast
    <3> QED
      BY <1>1, <1>5, <1>8, <2>1, <2>3, <3>1 DEF NotAhead
  <2>5. seen \in Views => seen.gen <= s.sessions[i].gen
    BY <1>4, <1>8 DEF NotAhead
  <2>6. NotAhead(r, p, i, seen)
    BY <1>1, <1>5, <1>6, <1>8, <2>5 DEF NotAhead
  <2> HIDE DEF first, seen
  <2>7. Queued(new.queue, i) = {Summary(r, i)} /\ new.seen[i] = seen
    BY <1>3, <1>8, <2>2 DEF seen
  <2>8. seen \in Views => Summary(r, i).gen # seen.gen
    BY <1>5, <1>6, <2>3, <2>5
  <2> QED
    BY <1>8, <2>4, <2>6, <2>7, <2>8 DEF new
<1>9. CASE old.state = "open" /\ i \notin started
  <2>1. r.sessions[i].gen = s.sessions[i].gen
    BY <1>1, <1>9
  <2>2. ASSUME NEW body, NotAhead(s, m, i, body) PROVE NotAhead(r, p, i, body)
    <3>1. i \in Live(r) => i \in Live(s) /\ p.views[i] = m.views[i]
      BY <1>1, <1>2, <1>9
    <3> QED
      BY <2>1, <2>2, <3>1 DEF NotAhead
  <2>3. Queued(new.queue, i) = (IF i \in removed THEN {Gone} ELSE Queued(old.queue, i))
    BY <1>3, <1>9
  <2>4. NotAhead(r, p, i, Gone)
    BY <1>5 DEF NotAhead
  <2> HIDE DEF seen
  <2>5. new.seen[i] = seen
    BY <1>3 DEF seen
  <2> QED
    BY <1>3, <1>4, <1>5, <1>9, <2>2, <2>3, <2>4, <2>5 DEF new
<1> QED
  BY <1>7, <1>8, <1>9

-----------------------------------------------------------------------------
(* Requests and the start of recomputes.                                   *)

LEMMA AskedFits ==
  ASSUME NEW s, NEW m, Typed(m), NEW u, NEW l, ViewsFit(s, m, u, l),
         NEW done \in SUBSET Live(s)
  PROVE  ViewsFit(s, Asked(m, done), u, l)
<1> DEFINE p == Asked(m, done)
<1>1. done \in SUBSET Ids
  BY DEF Live
<1>2. /\ p.pending = m.pending \cup done
      /\ p.views = m.views /\ p.running = m.running /\ p.tasks = m.tasks /\ p.memo = m.memo
  BY <1>1, AskedTyped
<1> HIDE DEF p
<1>3. OfLiveSessions(s, p) /\ MemoFits(p)
  BY <1>2 DEF ViewsFit, OfLiveSessions, MemoFits
<1>4. TasksFit(s, p)
  BY <1>2 DEF ViewsFit, TasksFit
<1>5. ThreadsFit(s, p)
  BY <1>2 DEF ViewsFit, ThreadsFit, ThreadFits
<1>6. Settled(s, p, u, l)
  BY <1>2 DEF ViewsFit, Settled
<1> QED
  BY <1>3, <1>4, <1>5, <1>6 DEF ViewsFit, p

LEMMA StartFits ==
  ASSUME NEW s, NEW m, Typed(m), NEW u, NEW l, ViewsFit(s, m, u, l), InOrder(s, m),
         NEW S \in SUBSET Ids, S \subseteq {i \in m.pending : m.running[i] = None},
         NEW slot \in Injection(S, Slots(m))
  PROVE  ViewsFit(s, Start(m, slot), u, l) /\ InOrder(s, Start(m, slot))
<1> DEFINE p == Start(m, slot)
<1>1. /\ Typed(p) /\ p.views = m.views /\ p.memo = m.memo /\ p.watchers = m.watchers
      /\ p.pending = m.pending \ S
      /\ \A i \in Ids : p.running[i] = IF i \in S THEN slot[i] ELSE m.running[i]
      /\ \A i \in S : /\ slot[i] \in 1..Threads /\ m.tasks[slot[i]].stage = "free"
                      /\ p.tasks[slot[i]].stage = "created" /\ p.tasks[slot[i]].id = i
      /\ \A k \in 1..Threads : (\A i \in S : slot[i] # k) => p.tasks[k] = m.tasks[k]
  BY StartEffects
<1> HIDE DEF p
<1>2. /\ StoreFits(s) /\ OfLiveSessions(s, m) /\ TasksFit(s, m) /\ ThreadsFit(s, m)
      /\ MemoFits(m) /\ Settled(s, m, u, l)
  BY DEF ViewsFit
<1>3. None \notin 1..Threads
  BY LiveAssumption
<1>4. ASSUME NEW k \in 1..Threads, m.tasks[k].stage # "free" \/ p.tasks[k].stage = "thread"
      PROVE  p.tasks[k] = m.tasks[k]
  BY <1>1, <1>4
<1>5. TasksFit(s, p)
  <2>1. p.pending \subseteq Live(s)
    BY <1>1, <1>2 DEF TasksFit
  <2>2. ASSUME NEW i \in Ids, p.running[i] # None
        PROVE  /\ i \in Live(s)
               /\ p.tasks[p.running[i]].id = i /\ p.tasks[p.running[i]].stage # "free"
    <3>1. CASE i \in S
      BY <1>1, <1>2, <3>1 DEF TasksFit
    <3>2. CASE i \notin S
      <4>1. p.running[i] = m.running[i] /\ m.running[i] \in 1..Threads
        BY <1>1, <2>2, <3>2 DEF Typed, Managers
      <4>2. /\ i \in Live(s)
            /\ m.tasks[m.running[i]].id = i /\ m.tasks[m.running[i]].stage # "free"
        BY <1>2, <2>2, <4>1 DEF TasksFit
      <4> QED
        BY <1>4, <4>1, <4>2
    <3> QED
      BY <3>1, <3>2
  <2>3. ASSUME NEW k \in 1..Threads, p.tasks[k].stage # "free", p.tasks[k].id # None
        PROVE  p.running[p.tasks[k].id] = k
    <3>1. CASE \E i \in S : slot[i] = k
      BY <1>1, <3>1
    <3>2. CASE ~ \E i \in S : slot[i] = k
      <4>1. p.tasks[k] = m.tasks[k]
        BY <1>1, <3>2
      <4>2. m.running[m.tasks[k].id] = k
        BY <1>2, <2>3, <4>1 DEF TasksFit
      <4>3. m.tasks[k].id \in Ids
        BY <2>3, <4>1, TaskHere DEF TaskRows
      <4>4. m.tasks[k].id \notin S
        BY <1>3, <4>2
      <4> QED
        BY <1>1, <4>1, <4>2, <4>3, <4>4
    <3> QED
      BY <3>1, <3>2
  <2> QED
    BY <2>1, <2>2, <2>3 DEF TasksFit
<1>6. ThreadsFit(s, p)
  <2> SUFFICES ASSUME NEW k \in 1..Threads, p.tasks[k].stage = "thread"
               PROVE  ThreadFits(s, p, p.tasks[k])
    BY DEF ThreadsFit, ThreadFits
  <2> DEFINE task == m.tasks[k]
  <2>1. p.tasks[k] = task
    BY <1>4
  <2>2. ThreadFits(s, m, task)
    BY <1>2 DEF ThreadsFit
  <2>3. task.id # None => task.id \notin S
    BY <1>2, <1>3, <2>1 DEF TasksFit
  <2> HIDE DEF task
  <2> QED
    BY <1>1, <2>1, <2>2, <2>3 DEF ThreadFits
<1>7. Settled(s, p, u, l)
  <2> SUFFICES ASSUME NEW i \in Live(s) \ (p.pending \cup l), u, p.running[i] = None
               PROVE  p.views[i] = Current(s, i)
    BY DEF Settled
  <2>1. i \in Ids
    BY DEF Live
  <2>2. i \notin S
    BY <1>1, <1>3, <2>1
  <2>3. i \notin m.pending /\ m.running[i] = None
    BY <1>1, <2>1, <2>2
  <2> QED
    BY <1>1, <1>2, <2>3 DEF Settled
<1>8. OfLiveSessions(s, p) /\ MemoFits(p)
  BY <1>1, <1>2 DEF OfLiveSessions, MemoFits
<1>9. InOrder(s, p)
  <2>1. \A k \in 1..Threads : p.tasks[k].stage = "thread" => p.tasks[k] = m.tasks[k]
    BY <1>4
  <2> QED
    BY <1>1, <2>1 DEF InOrder
<1> QED
  BY <1>2, <1>5, <1>6, <1>7, <1>8, <1>9 DEF ViewsFit, p

-----------------------------------------------------------------------------
(* Every step keeps ReadersInv.                                            *)

\* Watchers and views that are the same are told the same.
LEMMA SameOrder ==
  ASSUME NEW s, NEW m, NEW p, SentInOrder(s, m), p.views = m.views,
         \A w \in Watchers :
           /\ p.watchers[w].seen = m.watchers[w].seen
           /\ p.watchers[w].queue = m.watchers[w].queue
           /\ p.watchers[w].state = "open" => m.watchers[w].state = "open"
  PROVE  SentInOrder(s, p)
BY DEF SentInOrder, NotAhead

LEMMA ReadersParts ==
  ASSUME ReadersInv
  PROVE  /\ LiveTyped /\ store \in Stores /\ Typed(lm) /\ lm \in Managers
         /\ ViewsFit(store, lm, up, lost) /\ InOrder(store, lm) /\ SentInOrder(store, lm)
         /\ StoreFits(store) /\ OfLiveSessions(store, lm) /\ TasksFit(store, lm)
         /\ ThreadsFit(store, lm) /\ MemoFits(lm) /\ Settled(store, lm, up, lost)
BY DEF ReadersInv, ViewsInv, LiveTyped, Typed, ViewsFit

LEMMA ReadersStart ==
  ASSUME Init
  PROVE  ReadersInv
<1> DEFINE row == [state |-> "none", queue |-> << >>, seen |-> Unread]
           blank == [session |-> None, at |-> Nothing]
           fresh == [live |-> FALSE, gen |-> 0, complete |-> FALSE]
<1>1. LiveTyped /\ OfLiveSessions(store, lm)
  BY WatchersStart DEF WatchersInv
<1>2. \A t \in Traces : store.traces[t] = blank
  BY DEF Init
<1>3. Live(store) = {}
  BY DEF Init, Live
<1>4. /\ \A i \in Ids : lm.views[i] = None /\ lm.running[i] = None
      /\ \A k \in 1..Threads : lm.tasks[k] = NoTask
      /\ \A t \in Traces : lm.memo[t] = Nothing
      /\ \A w \in Watchers : lm.watchers[w] = row
      /\ lm.pending = {}
  BY DEF Init, Unread
<1>5. blank.session = None /\ blank.at = Nothing /\ row.state = "none" /\ row.queue = << >>
  OBVIOUS
<1> HIDE DEF blank, row
<1>6. StoreFits(store)
  BY <1>2, <1>5, NothingIsLeast DEF StoreFits
<1>7. TasksFit(store, lm)
  BY <1>4, NoTaskTyped DEF TasksFit
<1>8. ThreadsFit(store, lm)
  BY <1>4, NoTaskTyped DEF ThreadsFit, ThreadFits
<1>9. MemoFits(lm)
  BY <1>4, NothingIsLeast DEF MemoFits
<1>10. Settled(store, lm, up, lost)
  BY <1>3 DEF Settled
<1>11. InOrder(store, lm)
  BY <1>4, NoTaskTyped DEF InOrder
<1>12. SentInOrder(store, lm)
  <2>1. \A i : Queued(<< >>, i) = {}
    BY DEF Queued
  <2> QED
    BY <1>4, <1>5, <2>1 DEF SentInOrder
<1> QED
  BY <1>1, <1>6, <1>7, <1>8, <1>9, <1>10, <1>11, <1>12 DEF ReadersInv, ViewsInv, ViewsFit

LEMMA StoreCallReaders ==
  ASSUME ReadersInv, StoreCall, LiveTyped'
  PROVE  ReadersInv'
<1>1. PICK started \in SUBSET Ids, removed \in SUBSET Ids, dirty \in SUBSET Ids :
        /\ Changes(store, store', started, removed, dirty)
        /\ lm' = Drain(lm, store', started, removed, dirty)
        /\ lost' = lost \ (removed \cup dirty) /\ up' = up
  BY DEF StoreCall
<1>2. store' \in Stores
  BY <1>1 DEF Changes
<1>3. Drains(lm, store', started, removed, dirty, lm')
  BY <1>1, <1>2, ReadersParts, DrainEffects
<1>4. lost \ lost' \subseteq removed \cup dirty \cup lm.pending
  BY <1>1
<1>5. dirty \in SUBSET dirty /\ dirty \subseteq dirty \cup (lm.pending \ removed)
  OBVIOUS
<1>6. ViewsFit(store', lm', up, lost')
  BY <1>1, <1>3, <1>4, <1>5, ReadersParts, DrainFits
<1>7. InOrder(store', lm')
  BY <1>1, <1>3, ReadersParts, DrainInOrder
<1>8. SentInOrder(store', lm')
  BY <1>1, <1>3, ReadersParts, DrainSentInOrder
<1> QED
  BY <1>1, <1>6, <1>7, <1>8 DEF ReadersInv, ViewsInv

LEMMA TickCallReaders ==
  ASSUME ReadersInv, TickCall, LiveTyped'
  PROVE  ReadersInv'
<1> DEFINE Drained(done, gone) == Drain(Asked(lm, done), store', {}, gone, {})
<1>1. PICK done \in SUBSET Ids, gone \in SUBSET Ids, starting \in SUBSET Ids :
        /\ Changes(store, store', {}, gone, done) /\ done \cap gone = {}
        /\ starting \subseteq {i \in Drained(done, gone).pending :
                                 Drained(done, gone).running[i] = None}
        /\ \E slot \in Injection(starting, Slots(Drained(done, gone))) :
             lm' = Start(Drained(done, gone), slot)
        /\ lost' = lost \ (gone \cup done) /\ up' = up
  BY DEF TickCall
<1> DEFINE asked == Asked(lm, done)
           p == Drained(done, gone)
<1>2. store' \in Stores /\ done \in SUBSET Live(store)
  <2>1. done \subseteq Live(store') /\ Live(store') = (Live(store) \ gone) \cup {} /\ store' \in Stores
    BY <1>1 DEF Changes
  <2> QED
    BY <2>1
<1>3. /\ Typed(asked) /\ asked.pending = lm.pending \cup done /\ asked.views = lm.views
      /\ asked.tasks = lm.tasks /\ asked.watchers = lm.watchers
  BY <1>1, ReadersParts, AskedTyped
<1>4. ViewsFit(store, asked, up, lost)
  BY <1>2, ReadersParts, AskedFits
<1>5. p = Drain(asked, store', {}, gone, {})
  OBVIOUS
<1>6. PICK slot \in Injection(starting, Slots(p)) : lm' = Start(p, slot)
  BY <1>1
<1>7. starting \subseteq {i \in p.pending : p.running[i] = None}
  BY <1>1
<1> HIDE DEF asked, p, Drained
<1>8. InOrder(store, asked)
  BY <1>3, ReadersParts DEF InOrder
<1>9. OfLiveSessions(store, asked) /\ SentInOrder(store, asked)
  BY <1>3, <1>4, ReadersParts, SameOrder DEF ViewsFit
<1>10. {} \in SUBSET Ids /\ {} \in SUBSET done
  OBVIOUS
<1>11. Drains(asked, store', {}, gone, {}, p)
  BY <1>2, <1>3, <1>5, <1>10, DrainEffects
<1>12. /\ done \subseteq {} \cup (asked.pending \ gone)
       /\ lost \ lost' \subseteq gone \cup {} \cup asked.pending
  BY <1>1, <1>3
<1>13. Typed(p)
  BY <1>11 DEF Drains
<1>14. ViewsFit(store', p, up, lost')
  BY <1>1, <1>3, <1>4, <1>10, <1>11, <1>12, ReadersParts, DrainFits
<1>15. InOrder(store', p)
  BY <1>1, <1>3, <1>4, <1>8, <1>10, <1>11, ReadersParts, DrainInOrder
<1>16. SentInOrder(store', p)
  BY <1>1, <1>3, <1>9, <1>10, <1>11, ReadersParts, DrainSentInOrder
<1>17. ViewsFit(store', lm', up, lost') /\ InOrder(store', lm')
  BY <1>6, <1>7, <1>13, <1>14, <1>15, StartFits
<1>18. lm'.views = p.views /\ lm'.watchers = p.watchers
  BY <1>6, <1>13, StartEffects
<1>19. SentInOrder(store', lm')
  BY <1>16, <1>18, SameOrder
<1> QED
  BY <1>1, <1>17, <1>19 DEF ReadersInv, ViewsInv

LEMMA BeginReaders ==
  ASSUME ReadersInv, NEW k \in 1..Threads, Begin(k)
  PROVE  ReadersInv'
<1> DEFINE i == lm.tasks[k].id
           new == lm'.tasks[k]
           content == Contents(store, i)
<1>1. /\ OthersStay(k) /\ i \in Ids /\ lm.tasks[k].stage = "created" /\ lost' = lost
      /\ lm'.views = lm.views /\ lm'.memo = lm.memo /\ lm'.watchers = lm.watchers
      /\ \/ /\ i \notin Live(store) /\ new = NoTask
            /\ lm'.running = [lm.running EXCEPT ![i] = None]
         \/ /\ i \in Live(store) /\ lm'.running = lm.running
            /\ new.stage = "thread" /\ new.id = i /\ new.snap = content
            /\ new.view = Summary(store, i)
            /\ new.todo = {t \in Traces : content[t] # Nothing}
  BY ReadersParts, BeginEffects
<1>2. /\ LiveTyped' /\ store' = store /\ up' = up /\ lm'.pending = lm.pending
      /\ \A j \in (1..Threads) \ {k} : lm'.tasks[j] = lm.tasks[j]
  BY <1>1 DEF OthersStay
<1>3. i # None /\ k # None /\ lm.running[i] = k /\ i \in Live(store)
  BY <1>1, ReadersParts, LiveAssumption DEF TasksFit
<1>4. /\ lm'.running = lm.running
      /\ new.stage = "thread" /\ new.id = i /\ new.snap = content
      /\ new.view = Summary(store, i)
      /\ new.todo = {t \in Traces : content[t] # Nothing}
  BY <1>1, <1>3
<1> HIDE DEF new, i
<1>5. TasksFit(store, lm')
  <2>1. /\ \A j \in 1..Threads : lm'.tasks[j].id = lm.tasks[j].id
        /\ \A j \in 1..Threads : lm'.tasks[j].stage # "free" <=> lm.tasks[j].stage # "free"
    BY <1>1, <1>2, <1>4 DEF new, i
  <2>2. \A j \in Ids : lm.running[j] # None => lm.running[j] \in 1..Threads
    BY ReadersParts DEF Managers
  <2> QED
    BY <1>2, <1>4, <2>1, <2>2, ReadersParts DEF TasksFit
<1>6. ThreadsFit(store, lm')
  <2>1. ThreadFits(store, lm', new)
    <3>1. \A t \in Traces : IsStamp(content[t])
      BY ReadersParts, NothingIsLeast DEF Contents, StoreFits
    <3>2. \A t \in Traces \ new.todo : new.view.content[t] = content[t]
      BY <1>4, SummaryHere
    <3> QED
      BY <1>4, <3>1, <3>2, SummaryHere DEF ThreadFits
  <2>2. \A j \in (1..Threads) \ {k} : ThreadFits(store, lm', lm'.tasks[j])
    BY <1>2, ReadersParts DEF ThreadsFit, ThreadFits
  <2> QED
    BY <2>1, <2>2 DEF ThreadsFit, new
<1>7. /\ OfLiveSessions(store, lm') /\ MemoFits(lm') /\ Settled(store, lm', up, lost)
  BY <1>1, <1>2, <1>4, ReadersParts DEF OfLiveSessions, MemoFits, Settled
<1>8. InOrder(store, lm')
  <2>1. Within(content, content)
    BY ReadersParts, ContentsHere, WithinItself
  <2>2. lm.views[i] # None => Within(lm.views[i].content, content)
    BY <1>1, ReadersParts DEF InOrder, i
  <2> QED
    BY <1>1, <1>2, <1>4, <2>1, <2>2, ReadersParts DEF InOrder, new
<1>9. SentInOrder(store, lm')
  BY <1>1, ReadersParts, SameOrder
<1> QED
  BY <1>1, <1>2, <1>5, <1>6, <1>7, <1>8, <1>9, ReadersParts DEF ReadersInv, ViewsInv, ViewsFit

\* The steps of a thread add what its snapshot has, from the memo or by building it.
LEMMA ThreadReaders ==
  ASSUME NoTraceReturns, ReadersInv, NEW k \in 1..Threads,
         MemoHit(k) \/ MemoMiss(k) \/ MemoWrite(k)
  PROVE  ReadersInv'
<1> DEFINE old == lm.tasks[k]
           new == lm'.tasks[k]
<1>1. /\ ThreadGoesOn(k)
      /\ \/ lm'.memo = lm.memo /\ new.todo = old.todo /\ new.view = old.view
         \/ \E t \in Traces :
              /\ lm'.memo = lm.memo /\ IsMemoized(lm.memo[t], old.snap[t])
              /\ Shows(old, new, t, lm.memo[t])
         \/ \E t \in Traces :
              /\ lm'.memo = [lm.memo EXCEPT ![t] = old.snap[t]]
              /\ Shows(old, new, t, old.snap[t])
  <2>1. CASE MemoHit(k)
    BY <2>1, ReadersParts, MemoHitEffects
  <2>2. CASE MemoMiss(k)
    BY <2>2, ReadersParts, MemoMissEffects
  <2>3. CASE MemoWrite(k)
    BY <2>3, ReadersParts, MemoWriteEffects
  <2> QED
    BY <2>1, <2>2, <2>3
<1>2. /\ LiveTyped' /\ store' = store /\ up' = up /\ lost' = lost /\ lm'.pending = lm.pending
      /\ \A j \in (1..Threads) \ {k} : lm'.tasks[j] = lm.tasks[j]
      /\ lm'.views = lm.views /\ lm'.running = lm.running /\ lm'.watchers = lm.watchers
      /\ old.stage = "thread" /\ new.stage = "thread"
      /\ new.id = old.id /\ new.snap = old.snap
      /\ new.view.gen = old.view.gen /\ new.view.complete = old.view.complete
  BY <1>1 DEF ThreadGoesOn, OthersStay
<1>3. ThreadFits(store, lm, old) /\ old.snap \in Snapshots /\ lm.memo \in Snapshots
  BY <1>2, ReadersParts, TaskHere DEF ThreadsFit, TaskTyped, Managers
<1>4. /\ \A t \in Traces : IsStamp(old.snap[t])
      /\ \A t \in Traces \ old.todo : old.view.content[t] = old.snap[t]
      /\ \A t \in Traces : IsStamp(lm.memo[t])
  BY <1>2, <1>3, ReadersParts DEF ThreadFits, MemoFits
<1>5. /\ MemoFits(lm')
      /\ \A t \in Traces \ new.todo : new.view.content[t] = old.snap[t]
  <2>1. CASE lm'.memo = lm.memo /\ new.todo = old.todo /\ new.view = old.view
    BY <1>4, <2>1 DEF MemoFits
  <2>2. CASE \E t \in Traces : /\ lm'.memo = lm.memo /\ IsMemoized(lm.memo[t], old.snap[t])
                               /\ Shows(old, new, t, lm.memo[t])
    <3>1. PICK t \in Traces : /\ lm'.memo = lm.memo /\ IsMemoized(lm.memo[t], old.snap[t])
                              /\ Shows(old, new, t, lm.memo[t])
      BY <2>2
    <3>2. lm.memo[t] = old.snap[t]
      BY <1>3, <1>4, <3>1, VersionsAreNatural, VersionTells DEF IsMemoized
    <3> QED
      BY <1>4, <3>1, <3>2 DEF MemoFits, Shows
  <2>3. CASE \E t \in Traces : /\ lm'.memo = [lm.memo EXCEPT ![t] = old.snap[t]]
                               /\ Shows(old, new, t, old.snap[t])
    <3>1. PICK t \in Traces : /\ lm'.memo = [lm.memo EXCEPT ![t] = old.snap[t]]
                              /\ Shows(old, new, t, old.snap[t])
      BY <2>3
    <3>2. \A q \in Traces : lm'.memo[q] \in {lm.memo[q], old.snap[q]}
      BY <1>3, <3>1 DEF Snapshots
    <3> QED
      BY <1>4, <3>1, <3>2 DEF MemoFits, Shows
  <2> QED
    BY <1>1, <2>1, <2>2, <2>3
<1> HIDE DEF old, new
<1>6. TasksFit(store, lm')
  <2>1. /\ \A j \in 1..Threads : lm'.tasks[j].id = lm.tasks[j].id
        /\ \A j \in 1..Threads : lm'.tasks[j].stage = lm.tasks[j].stage
    BY <1>2 DEF new, old
  <2>2. \A j \in Ids : lm.running[j] # None => lm.running[j] \in 1..Threads
    BY ReadersParts DEF Managers
  <2> QED
    BY <1>2, <2>1, <2>2, ReadersParts DEF TasksFit
<1>7. ThreadsFit(store, lm')
  <2>1. ThreadFits(store, lm', new)
    BY <1>2, <1>3, <1>4, <1>5 DEF ThreadFits
  <2>2. \A j \in (1..Threads) \ {k} : ThreadFits(store, lm', lm'.tasks[j])
    BY <1>2, ReadersParts DEF ThreadsFit, ThreadFits
  <2> QED
    BY <2>1, <2>2 DEF ThreadsFit, new
<1>8. OfLiveSessions(store, lm') /\ Settled(store, lm', up, lost)
  BY <1>2, ReadersParts DEF OfLiveSessions, Settled
<1>9. InOrder(store, lm')
  <2>1. \A j \in 1..Threads : /\ lm'.tasks[j].id = lm.tasks[j].id
                              /\ lm'.tasks[j].stage = lm.tasks[j].stage
                              /\ lm'.tasks[j].snap = lm.tasks[j].snap
    BY <1>2 DEF new, old
  <2> QED
    BY <1>2, <2>1, ReadersParts DEF InOrder
<1>10. SentInOrder(store, lm')
  BY <1>2, ReadersParts, SameOrder
<1> QED
  BY <1>2, <1>5, <1>6, <1>7, <1>8, <1>9, <1>10, ReadersParts DEF ReadersInv, ViewsInv, ViewsFit

\* The task is gone; its session, if it has one, is recomputed no more.
LEMMA EndedFits ==
  ASSUME ReadersInv, NEW k \in 1..Threads, Ends(k), lm.tasks[k].stage = "thread"
  PROVE  TasksFit(store, lm') /\ ThreadsFit(store, lm') /\ MemoFits(lm')
<1>1. /\ lm'.pending = lm.pending /\ lm'.memo = lm.memo /\ lm'.tasks[k] = NoTask
      /\ \A j \in (1..Threads) \ {k} : lm'.tasks[j] = lm.tasks[j]
      /\ \A i \in Ids : lm'.running[i] = IF lm.running[i] = k THEN None ELSE lm.running[i]
  BY DEF Ends, OthersStay
<1>2. TasksFit(store, lm')
  <2>1. ASSUME NEW i \in Ids, lm'.running[i] # None
        PROVE  /\ i \in Live(store)
               /\ lm'.tasks[lm'.running[i]].id = i /\ lm'.tasks[lm'.running[i]].stage # "free"
    <3>1. lm'.running[i] = lm.running[i] /\ lm.running[i] # k /\ lm.running[i] \in 1..Threads
      BY <1>1, <2>1, ReadersParts DEF Managers
    <3> QED
      BY <1>1, <2>1, <3>1, ReadersParts DEF TasksFit
  <2>2. ASSUME NEW j \in 1..Threads, lm'.tasks[j].stage # "free", lm'.tasks[j].id # None
        PROVE  lm'.running[lm'.tasks[j].id] = j
    <3>1. j # k /\ lm'.tasks[j] = lm.tasks[j]
      BY <1>1, <2>2, NoTaskTyped
    <3>2. lm.running[lm.tasks[j].id] = j /\ lm.tasks[j].id \in Ids
      BY <2>2, <3>1, ReadersParts, TaskHere DEF TasksFit, TaskRows
    <3> QED
      BY <1>1, <3>1, <3>2
  <2> QED
    BY <1>1, <2>1, <2>2, ReadersParts DEF TasksFit
<1>3. ThreadsFit(store, lm')
  <2>1. ThreadFits(store, lm', lm'.tasks[k])
    BY <1>1, NoTaskTyped DEF ThreadFits
  <2>2. \A j \in (1..Threads) \ {k} : ThreadFits(store, lm', lm'.tasks[j])
    BY <1>1, ReadersParts DEF ThreadsFit, ThreadFits
  <2> QED
    BY <2>1, <2>2 DEF ThreadsFit
<1>4. MemoFits(lm')
  BY <1>1, ReadersParts DEF MemoFits
<1> QED
  BY <1>2, <1>3, <1>4

LEMMA FailureReaders ==
  ASSUME ReadersInv, NEW k \in 1..Threads, RecomputeFails(k)
  PROVE  ReadersInv'
<1>1. /\ Ends(k) /\ lm'.views = lm.views /\ lm'.watchers = lm.watchers
      /\ lm.tasks[k].stage = "thread"
      /\ lost' = lost \cup ({lm.tasks[k].id} \ ({None} \cup lm.pending))
  BY ReadersParts, FailureEffects
<1>2. /\ LiveTyped' /\ store' = store /\ up' = up /\ lm'.pending = lm.pending
      /\ \A j \in (1..Threads) \ {k} : lm'.tasks[j] = lm.tasks[j]
      /\ lm'.tasks[k] = NoTask
      /\ \A i \in Ids : lm'.running[i] = IF lm.running[i] = k THEN None ELSE lm.running[i]
  BY <1>1 DEF Ends, OthersStay
<1>3. TasksFit(store, lm') /\ ThreadsFit(store, lm') /\ MemoFits(lm')
  BY <1>1, EndedFits
<1>4. OfLiveSessions(store, lm')
  BY <1>1, ReadersParts DEF OfLiveSessions
<1>5. Settled(store, lm', up, lost')
  <2> SUFFICES ASSUME NEW i \in Live(store) \ (lm'.pending \cup lost'), up, lm'.running[i] = None
               PROVE  lm'.views[i] = Current(store, i)
    BY DEF Settled
  <2>1. i \in Ids /\ i # None
    BY LiveAssumption DEF Live
  <2>2. lm.running[i] # k
    <3> SUFFICES ASSUME lm.running[i] = k PROVE FALSE
      OBVIOUS
    <3>1. lm.tasks[k].id = i
      BY <2>1, ReadersParts, LiveAssumption DEF TasksFit
    <3> QED
      BY <1>1, <1>2, <2>1, <3>1
  <2> QED
    BY <1>1, <1>2, <2>1, <2>2, ReadersParts DEF Settled
<1>6. InOrder(store, lm')
  BY <1>1, <1>2, NoTaskTyped, ReadersParts DEF InOrder
<1>7. SentInOrder(store, lm')
  BY <1>1, ReadersParts, SameOrder
<1> QED
  BY <1>2, <1>3, <1>4, <1>5, <1>6, <1>7, ReadersParts DEF ReadersInv, ViewsInv, ViewsFit

\* What a thread has finished is the view of its snapshot.
LEMMA FinishReaders ==
  ASSUME ReadersInv, NEW k \in 1..Threads, Finish(k)
  PROVE  ReadersInv'
<1> DEFINE old == lm.tasks[k]
           i == old.id
           view == old.view
<1>1. /\ Ends(k) /\ lost' = lost
      /\ old.stage = "thread" /\ view \in Views /\ old.todo = {}
      /\ \/ /\ i = None \/ ~SameSession(i, view)
            /\ lm'.views = lm.views /\ lm'.watchers = lm.watchers
         \/ /\ i \in Ids /\ SameSession(i, view)
            /\ lm'.views = [lm.views EXCEPT ![i] = view]
            /\ \A w \in Watchers :
                 LET was == lm.watchers[w]
                     is == lm'.watchers[w]
                 IN  /\ is.state = was.state /\ is.seen = was.seen
                     /\ was.state # "open" => is = was
                     /\ was.state = "open" =>
                          \A j \in Ids : Queued(is.queue, j) =
                            IF j = i THEN {view} ELSE Queued(was.queue, j)
  BY ReadersParts, FinishEffects
<1>2. /\ LiveTyped' /\ store' = store /\ up' = up /\ lm'.pending = lm.pending
      /\ \A j \in (1..Threads) \ {k} : lm'.tasks[j] = lm.tasks[j]
      /\ lm'.tasks[k] = NoTask
      /\ \A j \in Ids : lm'.running[j] = IF lm.running[j] = k THEN None ELSE lm.running[j]
  BY <1>1 DEF Ends, OthersStay
<1>3. TasksFit(store, lm') /\ ThreadsFit(store, lm') /\ MemoFits(lm')
  BY <1>1, EndedFits
<1>4. ThreadFits(store, lm, old) /\ old.snap \in Snapshots /\ i \in Ids \cup {None}
  BY <1>1, ReadersParts, TaskHere DEF ThreadsFit, TaskTyped, TaskRows
<1>5. view.content \in Snapshots /\ view.content = old.snap
  <2>1. view.content \in Snapshots
    BY <1>1, ViewHere
  <2>2. \A t \in Traces : view.content[t] = old.snap[t]
    BY <1>1, <1>4 DEF ThreadFits
  <2> QED
    BY <1>4, <2>1, <2>2 DEF Snapshots
<1>6. CASE i = None
  <2>1. lm'.views = lm.views /\ lm'.watchers = lm.watchers
    BY <1>1, <1>6, LiveAssumption
  <2>2. \A j \in Ids : lm.running[j] # k
    BY <1>6, ReadersParts, LiveAssumption DEF TasksFit
  <2>3. OfLiveSessions(store, lm')
    BY <2>1, ReadersParts DEF OfLiveSessions
  <2>4. Settled(store, lm', up, lost)
    BY <1>2, <2>1, <2>2, ReadersParts DEF Settled, Live
  <2>5. InOrder(store, lm')
    BY <1>2, <2>1, NoTaskTyped, ReadersParts DEF InOrder
  <2>6. SentInOrder(store, lm')
    BY <2>1, ReadersParts, SameOrder
  <2> QED
    BY <1>1, <1>2, <1>3, <2>3, <2>4, <2>5, <2>6, ReadersParts DEF ReadersInv, ViewsInv, ViewsFit
<1>7. CASE i # None
  <2>1. i \in Ids /\ lm.running[i] = k /\ i \in Live(store)
    BY <1>1, <1>4, <1>7, ReadersParts, LiveAssumption DEF TasksFit
  <2>2. view.gen = store.sessions[i].gen
    BY <1>1, <1>4, <1>7 DEF ThreadFits
  <2>3. SameSession(i, view)
    BY <2>1, <2>2 DEF SameSession
  <2>4. /\ lm'.views = [lm.views EXCEPT ![i] = view]
        /\ \A w \in Watchers :
             LET was == lm.watchers[w]
                 is == lm'.watchers[w]
             IN  /\ is.state = was.state /\ is.seen = was.seen
                 /\ was.state # "open" => is = was
                 /\ was.state = "open" =>
                      \A j \in Ids : Queued(is.queue, j) =
                        IF j = i THEN {view} ELSE Queued(was.queue, j)
    BY <1>1, <1>7, <2>3
  <2>5. /\ lm'.views[i] = view /\ view # None
        /\ \A j \in Ids \ {i} : lm'.views[j] = lm.views[j]
    BY <1>1, <2>1, <2>4, ReadersParts, LiveAssumption DEF Managers
  <2>6. OfLiveSessions(store, lm')
    BY <2>1, <2>2, <2>5, ReadersParts DEF OfLiveSessions
  <2>7. \A j \in Ids \ {i} : lm.running[j] # k
    BY <2>1, ReadersParts, LiveAssumption DEF TasksFit
  <2>8. Settled(store, lm', up, lost)
    <3> SUFFICES ASSUME NEW j \in Live(store) \ (lm'.pending \cup lost), up, lm'.running[j] = None
                 PROVE  lm'.views[j] = Current(store, j)
      BY DEF Settled
    <3>1. j \in Ids
      BY DEF Live
    <3>2. CASE j = i
      <4>1. old.snap = Contents(store, i) /\ view.complete = store.sessions[i].complete
        BY <1>1, <1>2, <1>4, <1>7, <3>2 DEF ThreadFits
      <4>2. Current(store, i) \in Views
        BY <2>1, ReadersParts, SummaryIsAView
      <4>3. /\ Current(store, i).gen = view.gen /\ Current(store, i).complete = view.complete
            /\ Current(store, i).content = view.content
        BY <1>5, <2>2, <4>1 DEF Current, View
      <4>4. view = Current(store, i)
        BY <1>1, <4>2, <4>3 DEF Views
      <4> QED
        BY <2>5, <3>2, <4>4
    <3>3. CASE j # i
      <4>1. lm.running[j] = None /\ lm'.views[j] = lm.views[j]
        BY <1>2, <2>5, <2>7, <3>1, <3>3
      <4> QED
        BY <1>2, <4>1, ReadersParts DEF Settled
    <3> QED
      BY <3>2, <3>3
  <2>9. Within(view.content, Contents(store, i))
    BY <1>1, <1>5, <1>7, ReadersParts DEF InOrder
  <2>10. InOrder(store, lm')
    <3>1. \A j \in (1..Threads) \ {k} : lm.tasks[j].stage = "thread" /\ lm.tasks[j].id # None
                                        => lm.tasks[j].id # i /\ lm.tasks[j].id \in Ids
      BY <2>1, ReadersParts, TaskHere DEF TasksFit, TaskRows
    <3>2. \A j \in Ids : lm'.views[j] # None => Within(lm'.views[j].content, Contents(store, j))
      BY <2>5, <2>9, ReadersParts DEF InOrder
    <3>3. ASSUME NEW j \in 1..Threads, lm'.tasks[j].stage = "thread", lm'.tasks[j].id # None
          PROVE  /\ Within(lm'.tasks[j].snap, Contents(store, lm'.tasks[j].id))
                 /\ lm'.views[lm'.tasks[j].id] # None =>
                      Within(lm'.views[lm'.tasks[j].id].content, lm'.tasks[j].snap)
      <4>1. j # k /\ lm'.tasks[j] = lm.tasks[j]
        BY <1>2, <3>3, NoTaskTyped
      <4>2. lm'.views[lm.tasks[j].id] = lm.views[lm.tasks[j].id]
        BY <2>5, <3>1, <3>3, <4>1
      <4> QED
        BY <3>3, <4>1, <4>2, ReadersParts DEF InOrder
    <3> QED
      BY <3>2, <3>3 DEF InOrder
  \* What was told of i is no newer than the view that was, and that is no newer than the snapshot.
  <2>11. ASSUME NEW body \in Views, NotAhead(store, lm, i, body), body.gen = view.gen
         PROVE  Within(body.content, view.content)
    <3>1. body.content \in Snapshots
      BY ViewHere
    <3>2. \A t \in Traces :
            AtLeast(IF lm.views[i] # None THEN lm.views[i].content[t] ELSE Nothing, body.content[t])
      BY <2>1, <2>2, <2>11 DEF NotAhead
    <3>3. CASE lm.views[i] # None
      <4>1. lm.views[i] \in Views
        BY <2>1, <3>3, ReadersParts DEF Managers
      <4>2. lm.views[i].content \in Snapshots
        BY <4>1, ViewHere
      <4>3. Within(body.content, lm.views[i].content)
        BY <3>2, <3>3 DEF Within
      <4>4. Within(lm.views[i].content, view.content)
        BY <1>1, <1>5, <1>7, <3>3, ReadersParts DEF InOrder
      <4> QED
        BY <1>5, <3>1, <4>2, <4>3, <4>4, WithinIsTransitive
    <3>4. CASE lm.views[i] = None
      <4> SUFFICES ASSUME NEW t \in Traces PROVE AtLeast(view.content[t], body.content[t])
        BY DEF Within
      <4>1. AtLeast(Nothing, body.content[t])
        BY <3>2, <3>4
      <4>2. view.content[t] \in Versions /\ body.content[t] \in Versions
        BY <1>5, <3>1, VersionsAreNatural
      <4> QED
        BY <4>1, <4>2, NothingIsLeast, AtLeastIsTransitive
    <3> QED
      BY <3>3, <3>4
  <2>12. ASSUME NEW body, NotAhead(store, lm, i, body)
         PROVE  NotAhead(store, lm', i, body)
    <3>1. body \in Views /\ body.gen = store.sessions[i].gen =>
            \A t \in Traces : AtLeast(view.content[t], body.content[t])
      BY <2>2, <2>11, <2>12 DEF Within
    <3> QED
      BY <2>5, <2>12, <3>1 DEF NotAhead
  <2>13. NotAhead(store, lm', i, view)
    <3>1. Within(view.content, view.content)
      BY <1>5, WithinItself
    <3>2. view.gen <= store.sessions[i].gen
      BY <1>1, <2>2, ViewHere
    <3> QED
      BY <2>5, <3>1, <3>2 DEF NotAhead, Within
  <2>14. SentInOrder(store, lm')
    <3> SUFFICES ASSUME NEW w \in Watchers, NEW j \in Ids
                 PROVE  LET watcher == lm'.watchers[w]
                            seen == watcher.seen[j]
                        IN  /\ \A body \in Queued(watcher.queue, j) :
                                 body \in Views /\ seen \in Views /\ body.gen = seen.gen
                                   => Within(seen.content, body.content)
                            /\ watcher.state = "open" =>
                                 \A body \in {seen} \cup Queued(watcher.queue, j) :
                                   NotAhead(store, lm', j, body)
      BY DEF SentInOrder
    <3> DEFINE was == lm.watchers[w]
               is == lm'.watchers[w]
               seen == was.seen[j]
    <3>1. /\ is.state = was.state /\ is.seen = was.seen
          /\ was.state # "open" => is = was
          /\ was.state = "open" => Queued(is.queue, j) = IF j = i THEN {view}
                                                         ELSE Queued(was.queue, j)
      BY <2>4
    <3>2. /\ \A body \in Queued(was.queue, j) :
               body \in Views /\ seen \in Views /\ body.gen = seen.gen
                 => Within(seen.content, body.content)
          /\ was.state = "open" =>
               \A body \in {seen} \cup Queued(was.queue, j) : NotAhead(store, lm, j, body)
      BY ReadersParts DEF SentInOrder
    <3> HIDE DEF was, is
    <3>3. CASE was.state # "open"
      BY <3>1, <3>2, <3>3 DEF is
    <3>4. CASE was.state = "open" /\ j = i
      <4> HIDE DEF seen
      <4>1. Queued(is.queue, j) = {view} /\ is.seen[j] = seen
        BY <3>1, <3>4 DEF seen
      <4>2. NotAhead(store, lm, i, seen)
        BY <3>2, <3>4
      <4>3. seen \in Views /\ view.gen = seen.gen => Within(seen.content, view.content)
        BY <2>11, <4>2
      <4> HIDE DEF view, i
      <4> QED
        BY <2>12, <2>13, <3>4, <4>1, <4>2, <4>3 DEF is
    <3>5. CASE was.state = "open" /\ j # i
      <4>1. Queued(is.queue, j) = Queued(was.queue, j) /\ is.seen[j] = seen
        BY <3>1, <3>5
      <4>2. lm'.views[j] = lm.views[j]
        BY <2>5, <3>5
      <4>3. \A body : NotAhead(store, lm, j, body) => NotAhead(store, lm', j, body)
        BY <4>2 DEF NotAhead
      <4> HIDE DEF seen
      <4> QED
        BY <3>2, <3>5, <4>1, <4>3 DEF is
    <3> QED
      BY <3>3, <3>4, <3>5
  <2> QED
    BY <1>1, <1>2, <1>3, <2>6, <2>8, <2>10, <2>14, ReadersParts DEF ReadersInv, ViewsInv, ViewsFit
<1> QED
  BY <1>6, <1>7

LEMMA WatcherReaders ==
  ASSUME ReadersInv, NEW w \in Watchers, Subscribe(w) \/ Read(w) \/ Unsubscribe(w)
  PROVE  ReadersInv'
<1> DEFINE old == lm.watchers[w]
           new == lm'.watchers[w]
           Ordered(i) == /\ \A body \in Queued(new.queue, i) :
                              body \in Views /\ new.seen[i] \in Views /\ body.gen = new.seen[i].gen
                                => Within(new.seen[i].content, body.content)
                         /\ new.state = "open" =>
                              \A body \in {new.seen[i]} \cup Queued(new.queue, i) :
                                NotAhead(store, lm, i, body)
<1>1. None \notin Views
  BY LiveAssumption
<1>2. \A i \in Ids : NotAhead(store, lm, i, None)
  BY <1>1 DEF NotAhead
<1>3. ManagerStays(w) /\ \A i \in Ids : Ordered(i)
  <2>1. CASE Subscribe(w)
    <3>1. ManagerStays(w)
      BY <2>1, ReadersParts, SubscribeEffects
    <3>2. ASSUME NEW i \in Ids PROVE Ordered(i)
      <4>1. /\ new.seen[i] = None
            /\ Queued(new.queue, i) =
                 IF i \notin Live(store) THEN {}
                 ELSE {IF lm.views[i] # None THEN lm.views[i] ELSE Summary(store, i)}
        BY <2>1, ReadersParts, SubscribeEffects
      <4>2. lm.views[i] # None => NotAhead(store, lm, i, lm.views[i])
        <5> SUFFICES ASSUME lm.views[i] # None PROVE NotAhead(store, lm, i, lm.views[i])
          OBVIOUS
        <5>1. lm.views[i] \in Views /\ lm.views[i].gen = store.sessions[i].gen
          BY ReadersParts DEF OfLiveSessions, Managers
        <5>2. lm.views[i].gen \in Nat /\ Within(lm.views[i].content, lm.views[i].content)
          BY <5>1, ViewHere, WithinItself
        <5> QED
          BY <5>1, <5>2 DEF NotAhead, Within
      <4>3. lm.views[i] = None => NotAhead(store, lm, i, Summary(store, i))
        <5>1. Summary(store, i) \in Views
          BY ReadersParts, SummaryIsAView
        <5>2. Summary(store, i).gen \in Nat
          BY <5>1, ViewHere
        <5> QED
          BY <5>2, SummaryHere, NothingIsLeast DEF NotAhead
      <4> HIDE DEF new
      <4> QED
        BY <1>1, <1>2, <4>1, <4>2, <4>3
    <3> QED
      BY <3>1, <3>2
  <2>2. CASE Read(w)
    <3>1. /\ ManagerStays(w) /\ new.state = old.state
          /\ \A i \in Ids :
               \/ /\ Queued(old.queue, i) = {new.seen[i]} /\ Queued(new.queue, i) = {}
               \/ /\ Queued(old.queue, i) = Queued(new.queue, i) /\ new.seen[i] = old.seen[i]
      BY <2>2, ReadersParts, ReadEffects
    <3>2. ASSUME NEW i \in Ids PROVE Ordered(i)
      <4>1. /\ \A body \in Queued(old.queue, i) :
                 body \in Views /\ old.seen[i] \in Views /\ body.gen = old.seen[i].gen
                   => Within(old.seen[i].content, body.content)
            /\ old.state = "open" =>
                 \A body \in {old.seen[i]} \cup Queued(old.queue, i) : NotAhead(store, lm, i, body)
        BY ReadersParts DEF SentInOrder
      <4> HIDE DEF old, new
      <4>2. CASE Queued(old.queue, i) = {new.seen[i]} /\ Queued(new.queue, i) = {}
        BY <3>1, <4>1, <4>2
      <4>3. CASE Queued(old.queue, i) = Queued(new.queue, i) /\ new.seen[i] = old.seen[i]
        BY <3>1, <4>1, <4>3
      <4> QED
        BY <3>1, <4>2, <4>3
    <3> QED
      BY <3>1, <3>2
  <2>3. CASE Unsubscribe(w)
    BY <2>3, ReadersParts, UnsubscribeEffects
  <2> QED
    BY <2>1, <2>2, <2>3
<1>4. /\ LiveTyped' /\ store' = store /\ up' = up /\ lost' = lost
      /\ lm'.views = lm.views /\ lm'.pending = lm.pending /\ lm'.running = lm.running
      /\ lm'.tasks = lm.tasks /\ lm'.memo = lm.memo
      /\ \A x \in Watchers \ {w} : lm'.watchers[x] = lm.watchers[x]
  BY <1>3 DEF ManagerStays
<1>5. ViewsFit(store, lm', up, lost)
  BY SMTT(30), <1>4, ReadersParts
     DEF ViewsFit, OfLiveSessions, TasksFit, ThreadsFit, ThreadFits, MemoFits, Settled
<1>6. InOrder(store, lm')
  BY <1>4, ReadersParts DEF InOrder
<1>7. \A i, body : NotAhead(store, lm, i, body) => NotAhead(store, lm', i, body)
  BY <1>4 DEF NotAhead
<1>8. SentInOrder(store, lm')
  <2> SUFFICES ASSUME NEW x \in Watchers, NEW i \in Ids
               PROVE  LET watcher == lm'.watchers[x]
                          seen == watcher.seen[i]
                      IN  /\ \A body \in Queued(watcher.queue, i) :
                               body \in Views /\ seen \in Views /\ body.gen = seen.gen
                                 => Within(seen.content, body.content)
                          /\ watcher.state = "open" =>
                               \A body \in {seen} \cup Queued(watcher.queue, i) :
                                 NotAhead(store, lm', i, body)
    BY DEF SentInOrder
  <2>1. CASE x = w
    BY <1>3, <1>7, <2>1
  <2>2. CASE x # w
    <3>1. lm'.watchers[x] = lm.watchers[x]
      BY <1>4, <2>2
    <3> QED
      BY <1>7, <3>1, ReadersParts DEF SentInOrder
  <2> QED
    BY <2>1, <2>2
<1> QED
  BY <1>4, <1>5, <1>6, <1>8 DEF ReadersInv, ViewsInv

\* Every task that was running is cancelled: none has a session any more.
LEMMA ShutdownReaders ==
  ASSUME ReadersInv, Shutdown
  PROVE  ReadersInv'
<1>1. /\ LiveTyped' /\ store' = store /\ lost' = lost /\ up' = FALSE
      /\ lm'.views = lm.views /\ lm'.memo = lm.memo /\ lm'.pending = lm.pending
      /\ \A i \in Ids : lm'.running[i] = None
      /\ \A k \in 1..Threads : lm'.tasks[k] =
           IF \E i \in Ids : lm.running[i] = k THEN Cancelled(lm.tasks[k]) ELSE lm.tasks[k]
      /\ \A w \in Watchers :
           /\ lm'.watchers[w].queue = lm.watchers[w].queue
           /\ lm'.watchers[w].seen = lm.watchers[w].seen
           /\ lm'.watchers[w].state # "open"
  BY ReadersParts, ShutdownEffects
<1>2. ASSUME NEW k \in 1..Threads, lm'.tasks[k].stage # "free"
      PROVE  /\ lm'.tasks[k].id = None /\ lm'.tasks[k].stage = lm.tasks[k].stage
             /\ lm'.tasks[k].snap = lm.tasks[k].snap /\ lm'.tasks[k].view = lm.tasks[k].view
             /\ lm'.tasks[k].todo = lm.tasks[k].todo
  <2> DEFINE task == lm.tasks[k]
  <2>1. task \in TaskRows
    BY ReadersParts, TaskHere
  <2>2. CASE \E i \in Ids : lm.running[i] = k
    <3>1. lm'.tasks[k] = Cancelled(task)
      BY <1>1, <2>2
    <3> HIDE DEF task
    <3>2. task.stage # "created"
      BY <1>2, <3>1, NoTaskTyped DEF Cancelled
    <3>3. lm'.tasks[k] = [task EXCEPT !.id = None]
      BY <3>1, <3>2 DEF Cancelled
    <3> QED
      BY <2>1, <3>3 DEF TaskRows, task
  <2>3. CASE ~ \E i \in Ids : lm.running[i] = k
    <3>1. lm'.tasks[k] = task
      BY <1>1, <2>3
    <3>2. task.id = None
      <4> SUFFICES ASSUME task.id # None PROVE FALSE
        OBVIOUS
      <4>1. task.id \in Ids
        BY <2>1 DEF TaskRows
      <4> QED
        BY <1>2, <2>3, <3>1, <4>1, ReadersParts DEF TasksFit
    <3> QED
      BY <3>1, <3>2
  <2> QED
    BY <2>2, <2>3
<1>3. StoreFits(store) /\ OfLiveSessions(store, lm') /\ MemoFits(lm')
  BY <1>1, ReadersParts DEF OfLiveSessions, MemoFits
<1>4. TasksFit(store, lm')
  BY <1>1, <1>2, ReadersParts DEF TasksFit
<1>5. ThreadsFit(store, lm')
  <2> SUFFICES ASSUME NEW k \in 1..Threads, lm'.tasks[k].stage = "thread"
               PROVE  ThreadFits(store, lm', lm'.tasks[k])
    BY DEF ThreadsFit, ThreadFits
  <2>1. ThreadFits(store, lm, lm.tasks[k])
    BY ReadersParts DEF ThreadsFit
  <2> QED
    BY <1>2, <2>1 DEF ThreadFits
<1>6. Settled(store, lm', up', lost)
  BY <1>1 DEF Settled
<1>7. InOrder(store, lm')
  BY <1>1, <1>2, ReadersParts DEF InOrder
<1>8. SentInOrder(store, lm')
  BY <1>1, ReadersParts, SameOrder
<1> QED
  BY <1>1, <1>3, <1>4, <1>5, <1>6, <1>7, <1>8 DEF ReadersInv, ViewsInv, ViewsFit

-----------------------------------------------------------------------------
(* The theorems.                                                           *)

LEMMA ReadersInvHolds ==
  ASSUME NoTraceReturns
  PROVE  Spec => []ReadersInv
<1>1. Init => ReadersInv
  BY ReadersStart
<1>2. ASSUME ReadersInv, WatchersInv, WatchersInv', [Next]_vars
      PROVE  ReadersInv'
  <2>1. CASE UNCHANGED vars
    <3>1. store' = store /\ lm' = lm /\ up' = up /\ lost' = lost
      BY <2>1 DEF vars
    <3> QED
      BY <1>2, <3>1 DEF ReadersInv, ViewsInv, LiveTyped
  <2>2. ASSUME NEW t \in Traces, NEW i \in Ids,
               \/ IngestPromotes(t, i)
               \/ \E gone \in SUBSET Complete(store) : Ingest(t, i, gone) \/ LoadSession(t, i, gone)
        PROVE  ReadersInv'
    <3>1. StoreCall /\ LiveTyped'
      BY <1>2, <2>2, IngestCalls, PromotionCalls, LoadCalls DEF WatchersInv
    <3> QED
      BY <1>2, <3>1, StoreCallReaders
  <2>3. ASSUME NEW done \in SUBSET Ids, NEW gone \in SUBSET Ids, NEW due \in SUBSET Ids,
               Tick(done, gone, due)
        PROVE  ReadersInv'
    <3>1. TickCall /\ LiveTyped'
      BY <1>2, <2>3, TickCalls DEF WatchersInv
    <3> QED
      BY <1>2, <3>1, TickCallReaders
  <2>4. ASSUME NEW k \in 1..Threads,
               \/ Begin(k) \/ MemoHit(k) \/ MemoMiss(k) \/ MemoWrite(k)
               \/ Finish(k) \/ RecomputeFails(k)
        PROVE  ReadersInv'
    BY <1>2, <2>4, BeginReaders, ThreadReaders, FinishReaders, FailureReaders
  <2>5. ASSUME NEW w \in Watchers, Subscribe(w) \/ Read(w) \/ Unsubscribe(w)
        PROVE  ReadersInv'
    BY <1>2, <2>5, WatcherReaders
  <2>6. CASE Shutdown
    BY <1>2, <2>6, ShutdownReaders
  <2> QED
    BY <1>2, <2>1, <2>2, <2>3, <2>4, <2>5, <2>6 DEF Next
<1> QED
  BY <1>1, <1>2, WatchersInvHolds, PTL DEF Spec

(* The view of a session that asks for no recompute, has none and lost none shows all that the
   store has of it, and a cached view is of the session that has the id: nothing that comes
   between a snapshot, its thread and its publication is missed (LiveManager._recompute and
   _drain, manager.py), as long as no trace id returns. *)
THEOREM SettledViewsShowAll ==
  ASSUME NoTraceReturns
  PROVE  Spec => []SettledViewsAreCurrent
<1>1. ReadersInv => SettledViewsAreCurrent
  BY ReadersParts DEF SettledViewsAreCurrent, ViewsAreOfLiveSessions, OfLiveSessions, Settled
<1> QED
  BY <1>1, ReadersInvHolds, PTL

\* What a watcher has seen changes to what was pending for it, or is forgotten.
LEMMA WhatIsSeen ==
  ASSUME WatchersInv, Next, NEW w \in Watchers, NEW i \in Ids
  PROVE  lm'.watchers[w].seen[i] \in {lm.watchers[w].seen[i], None} \cup Queued(lm.watchers[w].queue, i)
<1> DEFINE Kept == \A x \in Watchers : lm'.watchers[x].seen = lm.watchers[x].seen
<1>1. LiveTyped /\ store \in Stores /\ Typed(lm)
  BY DEF WatchersInv, LiveTyped
<1>2. ASSUME NEW t \in Traces, NEW j \in Ids,
             \/ IngestPromotes(t, j)
             \/ \E gone \in SUBSET Complete(store) : Ingest(t, j, gone) \/ LoadSession(t, j, gone)
      PROVE  Kept
  <2>1. StoreCall
    BY <1>1, <1>2, IngestCalls, PromotionCalls, LoadCalls
  <2>2. PICK started \in SUBSET Ids, removed \in SUBSET Ids, dirty \in SUBSET Ids :
          /\ Changes(store, store', started, removed, dirty)
          /\ lm' = Drain(lm, store', started, removed, dirty)
    BY <2>1 DEF StoreCall
  <2>3. Drains(lm, store', started, removed, dirty, lm')
    <3>1. store' \in Stores
      BY <2>2 DEF Changes
    <3> QED
      BY <1>1, <2>2, <3>1, DrainEffects
  <2> QED
    BY <2>3 DEF Drains, DrainTells
<1>3. ASSUME NEW done \in SUBSET Ids, NEW gone \in SUBSET Ids, NEW due \in SUBSET Ids,
             Tick(done, gone, due)
      PROVE  Kept
  <2>1. TickCall
    BY <1>1, <1>3, TickCalls
  <2>2. PICK d \in SUBSET Ids, g \in SUBSET Ids, starting \in SUBSET Ids :
          /\ Changes(store, store', {}, g, d)
          /\ \E slot \in Injection(starting, Slots(Drain(Asked(lm, d), store', {}, g, {}))) :
               lm' = Start(Drain(Asked(lm, d), store', {}, g, {}), slot)
    BY <2>1 DEF TickCall
  <2> DEFINE p == Drain(Asked(lm, d), store', {}, g, {})
  <2>3. Typed(Asked(lm, d)) /\ Asked(lm, d).watchers = lm.watchers /\ store' \in Stores
    BY <1>1, <2>2, AskedTyped DEF Changes
  <2>4. Drains(Asked(lm, d), store', {}, g, {}, p)
    <3>1. {} \in SUBSET Ids
      OBVIOUS
    <3> QED
      BY <2>3, <3>1, DrainEffects
  <2>5. PICK slot \in Injection(starting, Slots(p)) : lm' = Start(p, slot)
    BY <2>2
  <2> HIDE DEF p
  <2>6. lm'.watchers = p.watchers
    BY <2>4, <2>5, StartEffects DEF Drains
  <2> QED
    BY <2>3, <2>4, <2>6 DEF Drains, DrainTells
<1>4. ASSUME NEW k \in 1..Threads,
             \/ Begin(k) \/ MemoHit(k) \/ MemoMiss(k) \/ MemoWrite(k)
             \/ Finish(k) \/ RecomputeFails(k)
      PROVE  Kept
  <2>1. CASE Finish(k)
    BY <1>1, <2>1, FinishEffects
  <2>2. CASE ~Finish(k)
    <3>1. lm'.watchers = lm.watchers
      BY <1>1, <1>4, <2>2, BeginEffects, MemoHitEffects, MemoMissEffects, MemoWriteEffects,
         FailureEffects DEF ThreadGoesOn
    <3> QED
      BY <3>1
  <2> QED
    BY <2>1, <2>2
<1>5. ASSUME NEW x \in Watchers, Subscribe(x) \/ Read(x) \/ Unsubscribe(x)
      PROVE  lm'.watchers[w].seen[i] \in
               {lm.watchers[w].seen[i], None} \cup Queued(lm.watchers[w].queue, i)
  <2>1. CASE w # x
    <3>1. lm'.watchers[w] = lm.watchers[w]
      BY <1>1, <1>5, <2>1, SubscribeEffects, ReadEffects, UnsubscribeEffects DEF ManagerStays
    <3> QED
      BY <3>1
  <2>2. CASE w = x
    <3>1. CASE Subscribe(w)
      BY <1>1, <3>1, SubscribeEffects
    <3>2. CASE Read(w)
      BY <1>1, <3>2, ReadEffects
    <3>3. CASE Unsubscribe(w)
      BY <1>1, <3>3, UnsubscribeEffects
    <3> QED
      BY <1>5, <2>2, <3>1, <3>2, <3>3
  <2> QED
    BY <2>1, <2>2
<1>6. CASE Shutdown
  BY <1>1, <1>6, ShutdownEffects
<1> QED
  BY <1>2, <1>3, <1>4, <1>5, <1>6 DEF Next

(* What a reader is sent of one session never goes back in time: views are published in the
   order of their snapshots, because two recomputes of a session do not overlap and one that
   was cancelled is not published, and an event that waits is replaced by a newer one alone
   (LiveManager._recompute, _forget and Watcher.put, manager.py), as long as no trace id
   returns. *)
THEOREM ReadersGoForward ==
  ASSUME NoTraceReturns
  PROVE  Spec => ReadersNeverGoBack
<1> DEFINE Old(w, i) == lm.watchers[w].seen[i]
           New(w, i) == lm'.watchers[w].seen[i]
<1>1. ASSUME ReadersInv, WatchersInv, [Next]_vars, NEW w \in Watchers, NEW i \in Ids,
             Old(w, i) \notin {None, Gone}, New(w, i) \notin {None, Gone}, Old(w, i).gen = New(w, i).gen
      PROVE  NotOlder(Old(w, i), New(w, i))
  <2> DEFINE old == Old(w, i)
             new == New(w, i)
  <2>1. new \in {old} \cup Queued(lm.watchers[w].queue, i)
    <3>1. CASE Next
      BY <1>1, <3>1, WhatIsSeen
    <3>2. CASE UNCHANGED vars
      BY <3>2 DEF vars
    <3> QED
      BY <1>1, <3>1, <3>2
  <2>2. old \in Views /\ new \in Bodies
    <3>1. lm.watchers[w].seen \in [Ids -> Bodies] /\ lm.watchers[w].queue \in Seq(QueueEvents)
      BY <1>1, ReadersParts, WatcherHere
    <3>2. \A n \in DOMAIN lm.watchers[w].queue : lm.watchers[w].queue[n] \in QueueEvents
      BY <3>1
    <3>3. \A body \in Queued(lm.watchers[w].queue, i) : body \in Bodies
      BY <3>2 DEF Queued, QueueEvents
    <3> QED
      BY <1>1, <2>1, <3>1, <3>3 DEF Bodies
  <2>3. new \in Views
    BY <1>1, <2>2 DEF Bodies
  <2>4. Within(old.content, new.content)
    <3>1. CASE new = old
      BY <2>2, <3>1, ViewHere, WithinItself
    <3>2. CASE new \in Queued(lm.watchers[w].queue, i)
      BY <1>1, <2>2, <2>3, <3>2, ReadersParts DEF SentInOrder
    <3> QED
      BY <2>1, <3>1, <3>2
  <2> QED
    BY <2>4 DEF Within, AtLeast, NotOlder
<1>2. ReadersInv /\ WatchersInv /\ [Next]_vars =>
        [\A w \in Watchers, i \in Ids :
           LET old == lm.watchers[w].seen[i]
               new == lm'.watchers[w].seen[i]
           IN (old \notin {None, Gone} /\ new \notin {None, Gone} /\ old.gen = new.gen)
              => NotOlder(old, new)]_vars
  BY <1>1
<1> QED
  BY <1>2, ReadersInvHolds, WatchersInvHolds, PTL DEF Spec, ReadersNeverGoBack
=============================================================================
