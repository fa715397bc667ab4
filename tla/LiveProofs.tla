----------------------------- MODULE LiveProofs -----------------------------
(***************************************************************************)
(* Proofs about the manager of live sessions, for any number of sessions,  *)
(* traces, watchers and recompute tasks, and any bounds: its tables hold   *)
(* what they may, and watchers converge.                                   *)
(*                                                                         *)
(* The invariants are operators of a store s and a manager m, since a      *)
(* handler changes the one and then the other, in steps of its own.        *)
(***************************************************************************)
EXTENDS LiveManager, FunctionTheorems, FiniteSetTheorems, WellFoundedInduction, TLAPS

-----------------------------------------------------------------------------
(* Types.                                                                  *)

SessionRows == [live : BOOLEAN, gen : 0..MaxGens, complete : BOOLEAN]
TraceRows == [session : Ids \cup {None}, at : Versions]
Stores == [sessions : [Ids -> SessionRows], traces : [Traces -> TraceRows]]

Bodies == Views \cup {None, Gone}
QueueEvents == [key : Ids \cup {None}, body : Bodies]
WatcherRows == [state : {"none", "open", "closed"}, queue : Seq(QueueEvents),
                seen : [Ids -> Bodies]]

Snapshots == [Traces -> Versions]
TaskRows == [stage : {"free", "created", "thread"}, id : Ids \cup {None},
             view : Views \cup {None}, snap : Snapshots \cup {None},
             todo : SUBSET Traces, missed : Traces \cup {None}]

Managers == [views : [Ids -> Views \cup {None}], pending : SUBSET Ids,
             running : [Ids -> (1..Threads) \cup {None}],
             tasks : [1..Threads -> TaskRows],
             memo : Snapshots,
             watchers : [Watchers -> WatcherRows]]

\* A task that waits has a session, and one in a thread has a snapshot and the
\* view it is making of it.
TaskTyped(task) ==
  /\ task.stage = "created" => task.id \in Ids
  /\ task.stage = "thread" => task.view \in Views /\ task.snap \in Snapshots

UniqueKeys(queue) == \A j, n \in DOMAIN queue : queue[j].key = queue[n].key => j = n

\* A watcher has one pending event for each key.
WatcherTyped(watcher) ==
  /\ UniqueKeys(watcher.queue)
  /\ watcher.state = "none" => watcher.queue = << >> /\ watcher.seen = Unread

Typed(m) ==
  /\ m \in Managers
  /\ \A k \in 1..Threads : TaskTyped(m.tasks[k])
  /\ \A w \in Watchers : WatcherTyped(m.watchers[w])

LiveTyped == store \in Stores /\ Typed(lm) /\ up \in BOOLEAN /\ lost \subseteq Ids

-----------------------------------------------------------------------------
(* Sessions, traces and views.                                             *)

\* A trace has a version when it has a life, and is in a session that lives.
IsStamp(at) == at.life = 0 <=> at.version = 0
StoreFits(s) ==
  \A t \in Traces :
    /\ IsStamp(s.traces[t].at)
    /\ s.traces[t].session # None => s.traces[t].session \in Live(s) /\ s.traces[t].at.life # 0

OfLiveSessions(s, m) ==
  \A i \in Ids : m.views[i] # None => i \in Live(s) /\ m.views[i].gen = s.sessions[i].gen

-----------------------------------------------------------------------------
(* Watchers.                                                               *)

\* The bodies that are pending for a key.
Queued(queue, key) == {queue[n].body : n \in {j \in DOMAIN queue : queue[j].key = key}}

\* What a watcher is told last of i: what is pending, or what it has seen.
Told(watcher, i) ==
  IF Queued(watcher.queue, i) = {} THEN {watcher.seen[i]} ELSE Queued(watcher.queue, i)

\* A watcher that is told this of i knows what there is to know.
Knows(s, m, i, body) ==
  IF i \notin Live(s) THEN body \in {None, Gone}
  ELSE IF m.views[i] # None THEN body = m.views[i]
  ELSE body \in Views /\ body.gen = s.sessions[i].gen

Converged(s, m) ==
  \A w \in Watchers : m.watchers[w].state = "open" =>
    \A i \in Ids : \A body \in Told(m.watchers[w], i) : Knows(s, m, i, body)

WatchersInv == LiveTyped /\ OfLiveSessions(store, lm) /\ Converged(store, lm)

-----------------------------------------------------------------------------
(* Natural numbers, sequences of the elements of a set, and the queue of a  *)
(* watcher.                                                                *)

\* A set of naturals that holds 0 and with each number the next holds them all.
LEMMA EveryNatural ==
  ASSUME NEW T, 0 \in T, \A n \in Nat : n \in T => n + 1 \in T
  PROVE  \A n \in Nat : n \in T
<1> SUFFICES ASSUME NEW m \in Nat, m \notin T PROVE FALSE
  OBVIOUS
<1> DEFINE R == OpToRel(<, Nat)
           Missing == Nat \ T
<1>1. \A x, y \in Nat : <<y, x>> \in R <=> y < x
  BY DEF OpToRel
<1>2. IsWellFoundedOn(R, Nat)
  BY NatLessThanWellFounded
<1> HIDE DEF R
<1>3. PICK x \in Missing : \A y \in Missing : ~ (<<y, x>> \in R)
  BY <1>2, WFMin
<1>4. x # 0 /\ x \in Nat
  BY <1>3
<1>5. x - 1 \in Nat /\ x - 1 < x /\ (x - 1) + 1 = x
  BY <1>4
<1>6. x - 1 \in T
  BY <1>1, <1>3, <1>4, <1>5
<1> QED
  BY <1>3, <1>5, <1>6

\* SetToSeq lists every element of a finite set once.
LEMMA ListedOnce ==
  ASSUME NEW S, IsFiniteSet(S)
  PROVE  /\ Cardinality(S) \in Nat
         /\ SetToSeq(S) \in [1..Cardinality(S) -> S]
         /\ \A j, n \in 1..Cardinality(S) : SetToSeq(S)[j] = SetToSeq(S)[n] => j = n
         /\ \A x \in S : \E n \in 1..Cardinality(S) : SetToSeq(S)[n] = x
<1> DEFINE N == Cardinality(S)
<1>1. N \in Nat /\ ExistsBijection(1..N, S)
  BY FS_CardinalityType
<1>2. PICK g : g \in Bijection(1..N, S)
  BY <1>1 DEF ExistsBijection
<1>3. g \in [1..N -> S] /\ \A a, b \in 1..N : g[a] = g[b] => a = b
  BY <1>2, Fun_BijectionProperties
<1>4. \E f \in [1..N -> S] : IsInjective(f)
  <2>1. IsInjective(g)
    BY <1>3 DEF IsInjective
  <2> QED
    BY <1>3, <2>1
<1>5. SetToSeq(S) \in [1..N -> S] /\ IsInjective(SetToSeq(S))
  <2> DEFINE f == CHOOSE h \in [1..N -> S] : IsInjective(h)
  <2>1. f \in [1..N -> S] /\ IsInjective(f)
    BY <1>4
  <2> QED
    BY <2>1 DEF SetToSeq
<1> DEFINE f == SetToSeq(S)
<1> HIDE DEF f, N
<1>6. f \in [1..N -> S] /\ \A a, b \in 1..N : f[a] = f[b] => a = b
  BY <1>5 DEF IsInjective, f
<1>7. f \in Injection(1..N, S)
  BY <1>6, Fun_IsInj
<1>8. IsFiniteSet(1..N) /\ Cardinality(1..N) = N
  BY <1>1, FS_Interval
<1>9. f \in Surjection(1..N, S)
  BY <1>7, <1>8, FS_Injection DEF N
<1>10. \A x \in S : \E n \in 1..N : f[n] = x
  BY <1>9 DEF Surjection
<1> QED
  BY <1>1, <1>6, <1>10 DEF f, N

\* The recursive function of Others exists.
OthersFrom(queue, keys, n, f) ==
  f = [j \in 0..n |->
         IF j = 0 THEN << >>
         ELSE IF queue[j].key \in keys THEN f[j - 1] ELSE Append(f[j - 1], queue[j])]

LEMMA OthersAreDefined ==
  ASSUME NEW queue, NEW keys
  PROVE  \A n \in Nat : \E f : OthersFrom(queue, keys, n, f)
<1> DEFINE T == {n \in Nat : \E f : OthersFrom(queue, keys, n, f)}
<1>1. 0 \in T
  <2> DEFINE f == [j \in 0..0 |-> << >>]
  <2>1. OthersFrom(queue, keys, 0, f)
    BY DEF OthersFrom
  <2> QED
    BY <2>1
<1>2. ASSUME NEW n \in Nat, n \in T PROVE n + 1 \in T
  <2>1. PICK f : OthersFrom(queue, keys, n, f)
    BY <1>2
  <2> DEFINE g == [j \in 0..(n + 1) |->
                    IF j \in 0..n THEN f[j]
                    ELSE IF queue[n + 1].key \in keys THEN f[n] ELSE Append(f[n], queue[n + 1])]
  <2>2. \A j \in 0..n : g[j] = f[j]
    OBVIOUS
  <2>3. g[n + 1] = IF queue[n + 1].key \in keys THEN g[n] ELSE Append(g[n], queue[n + 1])
    OBVIOUS
  <2>4. \A j \in 0..n : f[j] = IF j = 0 THEN << >>
                              ELSE IF queue[j].key \in keys THEN f[j - 1]
                              ELSE Append(f[j - 1], queue[j])
    BY <2>1 DEF OthersFrom
  <2>5. g = [j \in 0..(n + 1) |-> g[j]]
    OBVIOUS
  <2> HIDE DEF g
  <2>6. \A j \in 0..(n + 1) : g[j] = IF j = 0 THEN << >>
                                    ELSE IF queue[j].key \in keys THEN g[j - 1]
                                    ELSE Append(g[j - 1], queue[j])
    <3> TAKE j \in 0..(n + 1)
    <3>1. CASE j = n + 1
      BY <2>3, <3>1
    <3>2. CASE j \in 0..n /\ j # 0
      <4>1. j - 1 \in 0..n
        BY <3>2
      <4> QED
        BY <2>2, <2>4, <3>2, <4>1
    <3>3. CASE j = 0
      BY <2>2, <2>4, <3>3
    <3> QED
      BY <3>1, <3>2, <3>3
  <2>7. OthersFrom(queue, keys, n + 1, g)
    BY <2>5, <2>6 DEF OthersFrom
  <2> QED
    BY <2>7
<1> HIDE DEF T
<1>3. \A n \in Nat : n \in T
  BY <1>1, <1>2, EveryNatural
<1> QED
  BY <1>3 DEF T

LEMMA OthersUnrolled ==
  ASSUME NEW queue \in Seq(QueueEvents), NEW keys
  PROVE  \E f : /\ Others(queue, keys) = f[Len(queue)]
                /\ f[0] = << >>
                /\ \A j \in 1..Len(queue) :
                     f[j] = IF queue[j].key \in keys THEN f[j - 1] ELSE Append(f[j - 1], queue[j])
<1> DEFINE L == Len(queue)
           f == CHOOSE g : OthersFrom(queue, keys, L, g)
<1>1. L \in Nat
  OBVIOUS
<1>2. OthersFrom(queue, keys, L, f)
  BY <1>1, OthersAreDefined
<1>3. Others(queue, keys) = f[L]
  BY DEF Others, OthersFrom
<1> HIDE DEF f, L
<1>4. \A j \in 0..L : f[j] = IF j = 0 THEN << >>
                            ELSE IF queue[j].key \in keys THEN f[j - 1]
                            ELSE Append(f[j - 1], queue[j])
  BY <1>2 DEF OthersFrom
<1>5. f[0] = << >>
  BY <1>1, <1>4
<1>6. \A j \in 1..L : f[j] = IF queue[j].key \in keys THEN f[j - 1]
                            ELSE Append(f[j - 1], queue[j])
  BY <1>1, <1>4
<1> QED
  BY <1>3, <1>5, <1>6 DEF L

\* One event more, of a key that is not pending.
LEMMA QueueGrows ==
  ASSUME NEW q \in Seq(QueueEvents), NEW e \in QueueEvents, UniqueKeys(q),
         \A d \in ToSet(q) : d.key # e.key
  PROVE  /\ Append(q, e) \in Seq(QueueEvents) /\ UniqueKeys(Append(q, e))
         /\ ToSet(Append(q, e)) = ToSet(q) \cup {e}
<1> DEFINE r == Append(q, e)
<1>1. /\ r \in Seq(QueueEvents) /\ Len(q) \in Nat
      /\ DOMAIN r = 1..(Len(q) + 1) /\ DOMAIN q = 1..Len(q)
      /\ r[Len(q) + 1] = e /\ \A j \in 1..Len(q) : r[j] = q[j]
  OBVIOUS
<1> HIDE DEF r
<1>2. ToSet(r) = ToSet(q) \cup {e}
  BY <1>1 DEF ToSet
<1>3. \A j \in 1..Len(q) : q[j].key # e.key
  BY <1>1 DEF ToSet
<1>4. \A j \in 1..(Len(q) + 1) : j \in 1..Len(q) \/ j = Len(q) + 1
  BY <1>1
<1>5. UniqueKeys(r)
  BY <1>1, <1>3, <1>4 DEF UniqueKeys
<1> QED
  BY <1>1, <1>2, <1>5 DEF r

\* Others keeps the events of other keys, and nothing else.
LEMMA OthersAreKept ==
  ASSUME NEW queue \in Seq(QueueEvents), NEW keys, UniqueKeys(queue)
  PROVE  /\ Others(queue, keys) \in Seq(QueueEvents)
         /\ UniqueKeys(Others(queue, keys))
         /\ ToSet(Others(queue, keys)) = {e \in ToSet(queue) : e.key \notin keys}
<1> DEFINE L == Len(queue)
           Upto(n) == {e \in {queue[j] : j \in 1..n} : e.key \notin keys}
<1>1. L \in Nat /\ DOMAIN queue = 1..L /\ \A j \in 1..L : queue[j] \in QueueEvents
  OBVIOUS
<1>2. PICK f : /\ Others(queue, keys) = f[L]
               /\ f[0] = << >>
               /\ \A j \in 1..L :
                    f[j] = IF queue[j].key \in keys THEN f[j - 1] ELSE Append(f[j - 1], queue[j])
  BY OthersUnrolled
<1> HIDE DEF L
<1> DEFINE T == {n \in Nat : n <= L => /\ f[n] \in Seq(QueueEvents) /\ UniqueKeys(f[n])
                                       /\ ToSet(f[n]) = Upto(n)}
<1>3. 0 \in T
  <2>1. Upto(0) = {} /\ ToSet(f[0]) = {}
    BY <1>2 DEF ToSet
  <2>2. f[0] \in Seq(QueueEvents) /\ UniqueKeys(f[0])
    BY <1>2 DEF UniqueKeys
  <2> QED
    BY <2>1, <2>2
<1>4. ASSUME NEW n \in Nat, n \in T, n + 1 <= L PROVE n + 1 \in T
  <2>1. /\ f[n] \in Seq(QueueEvents) /\ UniqueKeys(f[n])
        /\ ToSet(f[n]) = Upto(n)
    BY <1>1, <1>4
  <2>2. n + 1 \in 1..L /\ (n + 1) - 1 = n /\ 1..(n + 1) = (1..n) \cup {n + 1}
    BY <1>1, <1>4
  <2>3. f[n + 1] = IF queue[n + 1].key \in keys THEN f[n] ELSE Append(f[n], queue[n + 1])
    BY <1>2, <2>2
  <2>4. CASE queue[n + 1].key \in keys
    <3>1. Upto(n + 1) = Upto(n)
      BY <2>2, <2>4
    <3> QED
      BY <2>1, <2>3, <2>4, <3>1
  <2>5. CASE queue[n + 1].key \notin keys
    <3>1. Upto(n + 1) = Upto(n) \cup {queue[n + 1]}
      BY <2>2, <2>5
    <3>2. \A d \in ToSet(f[n]) : d.key # queue[n + 1].key
      <4> SUFFICES ASSUME NEW j \in 1..n PROVE queue[j].key # queue[n + 1].key
        BY <2>1
      <4>1. j \in 1..L /\ n + 1 \in 1..L /\ j # n + 1
        BY <1>1, <1>4
      <4> QED
        BY <1>1, <4>1 DEF UniqueKeys
    <3>3. queue[n + 1] \in QueueEvents
      BY <1>1, <2>2
    <3>4. /\ f[n + 1] \in Seq(QueueEvents) /\ UniqueKeys(f[n + 1])
          /\ ToSet(f[n + 1]) = ToSet(f[n]) \cup {queue[n + 1]}
      BY <2>1, <2>3, <2>5, <3>2, <3>3, QueueGrows
    <3> QED
      BY <2>1, <3>1, <3>4
  <2> QED
    BY <2>4, <2>5
<1>5. \A n \in Nat : n \in T => n + 1 \in T
  <2> SUFFICES ASSUME NEW n \in Nat, n \in T, ~(n + 1 <= L) PROVE n + 1 \in T
    BY <1>4
  <2> QED
    OBVIOUS
<1> HIDE DEF T
<1>6. L \in T
  BY <1>1, <1>3, <1>5, EveryNatural
<1>7. f[L] \in Seq(QueueEvents) /\ UniqueKeys(f[L]) /\ ToSet(f[L]) = Upto(L)
  BY <1>1, <1>6 DEF T
<1>8. Upto(L) = {e \in ToSet(queue) : e.key \notin keys}
  BY <1>1 DEF ToSet
<1> QED
  BY <1>2, <1>7, <1>8

LEMMA EventsAreAll ==
  ASSUME NEW S \in SUBSET Ids, NEW bodies \in [S -> Bodies]
  PROVE  /\ Events(bodies) \in Seq(QueueEvents) /\ UniqueKeys(Events(bodies))
         /\ ToSet(Events(bodies)) = {[key |-> i, body |-> bodies[i]] : i \in S}
<1> DEFINE N == Cardinality(S)
           keys == SetToSeq(S)
           q == Events(bodies)
<1>1. IsFiniteSet(S)
  BY FS_Subset, LiveAssumption
<1>2. /\ N \in Nat /\ keys \in [1..N -> S]
      /\ \A j, n \in 1..N : keys[j] = keys[n] => j = n
      /\ \A x \in S : \E n \in 1..N : keys[n] = x
  BY <1>1, ListedOnce
<1>3. q = [n \in 1..N |-> [key |-> keys[n], body |-> bodies[keys[n]]]]
  BY <1>2 DEF Events
<1> HIDE DEF N, keys, q
<1>4. \A n \in 1..N : [key |-> keys[n], body |-> bodies[keys[n]]] \in QueueEvents
  BY <1>2 DEF QueueEvents
<1>5. q \in Seq(QueueEvents) /\ DOMAIN q = 1..N
  BY <1>2, <1>3, <1>4
<1>6. \A n \in 1..N : q[n].key = keys[n]
  BY <1>3
<1>7. UniqueKeys(q)
  BY <1>2, <1>5, <1>6 DEF UniqueKeys
<1>8. ToSet(q) = {[key |-> i, body |-> bodies[i]] : i \in S}
  <2>1. ToSet(q) = {q[n] : n \in 1..N}
    BY <1>5 DEF ToSet
  <2>2. \A n \in 1..N : q[n] = [key |-> keys[n], body |-> bodies[keys[n]]] /\ keys[n] \in S
    BY <1>2, <1>3
  <2>3. ASSUME NEW e \in ToSet(q) PROVE \E i \in S : e = [key |-> i, body |-> bodies[i]]
    BY <2>1, <2>2
  <2>4. ASSUME NEW i \in S PROVE [key |-> i, body |-> bodies[i]] \in ToSet(q)
    <3>1. PICK n \in 1..N : keys[n] = i
      BY <1>2
    <3>2. q[n] \in ToSet(q)
      BY <2>1
    <3> QED
      BY <2>2, <3>1, <3>2
  <2> QED
    BY <2>3, <2>4
<1> QED
  BY <1>5, <1>7, <1>8 DEF q

LEMMA QueuesJoin ==
  ASSUME NEW q \in Seq(QueueEvents), NEW r \in Seq(QueueEvents), UniqueKeys(q), UniqueKeys(r),
         \A d \in ToSet(q), e \in ToSet(r) : d.key # e.key
  PROVE  /\ q \o r \in Seq(QueueEvents) /\ UniqueKeys(q \o r)
         /\ ToSet(q \o r) = ToSet(q) \cup ToSet(r)
<1> DEFINE p == q \o r
<1>1. /\ p \in Seq(QueueEvents) /\ Len(q) \in Nat /\ Len(r) \in Nat
      /\ DOMAIN p = 1..(Len(q) + Len(r)) /\ DOMAIN q = 1..Len(q) /\ DOMAIN r = 1..Len(r)
      /\ \A j \in 1..Len(q) : p[j] = q[j]
      /\ \A j \in (Len(q) + 1)..(Len(q) + Len(r)) : p[j] = r[j - Len(q)] /\ j - Len(q) \in 1..Len(r)
      /\ \A j \in 1..Len(r) : p[j + Len(q)] = r[j] /\ j + Len(q) \in 1..(Len(q) + Len(r))
  OBVIOUS
<1> HIDE DEF p
<1>2. \A j \in 1..(Len(q) + Len(r)) : j \in 1..Len(q) \/ j \in (Len(q) + 1)..(Len(q) + Len(r))
  BY <1>1
<1>3. \A j \in 1..Len(q) : q[j] \in ToSet(q) /\ j \in DOMAIN p
  BY SMTT(30), <1>1 DEF ToSet
<1>4. \A j \in 1..Len(r) : r[j] \in ToSet(r)
  BY <1>1 DEF ToSet
<1>5. ToSet(p) = ToSet(q) \cup ToSet(r)
  <2>1. ASSUME NEW e \in ToSet(p) PROVE e \in ToSet(q) \cup ToSet(r)
    <3>1. PICK j \in 1..(Len(q) + Len(r)) : e = p[j]
      BY <1>1 DEF ToSet
    <3> QED
      BY <1>1, <1>2, <1>3, <1>4, <3>1
  <2>2. ASSUME NEW e \in ToSet(q) PROVE e \in ToSet(p)
    BY <1>1, <1>3 DEF ToSet
  <2>3. ASSUME NEW e \in ToSet(r) PROVE e \in ToSet(p)
    BY SMTT(30), <1>1 DEF ToSet
  <2> QED
    BY <2>1, <2>2, <2>3
<1>6. UniqueKeys(p)
  <2> SUFFICES ASSUME NEW j \in 1..(Len(q) + Len(r)), NEW n \in 1..(Len(q) + Len(r)),
                      p[j].key = p[n].key
               PROVE  j = n
    BY <1>1 DEF UniqueKeys
  <2>1. CASE j \in 1..Len(q) /\ n \in 1..Len(q)
    BY ZenonT(60), <1>1, <2>1 DEF UniqueKeys
  <2>2. CASE j \notin 1..Len(q) /\ n \notin 1..Len(q)
    <3>1. /\ p[j] = r[j - Len(q)] /\ j - Len(q) \in 1..Len(r)
          /\ p[n] = r[n - Len(q)] /\ n - Len(q) \in 1..Len(r)
      BY <1>1, <1>2, <2>2
    <3>2. j - Len(q) = n - Len(q)
      BY ZenonT(60), <1>1, <3>1 DEF UniqueKeys
    <3> QED
      BY <1>1, <3>2
  <2>3. CASE j \in 1..Len(q) /\ n \notin 1..Len(q)
    BY <1>1, <1>2, <1>3, <1>4, <2>3
  <2>4. CASE j \notin 1..Len(q) /\ n \in 1..Len(q)
    BY <1>1, <1>2, <1>3, <1>4, <2>4
  <2> QED
    BY <2>1, <2>2, <2>3, <2>4
<1> QED
  BY <1>1, <1>5, <1>6 DEF p

LEMMA QueuedInSet ==
  ASSUME NEW q, NEW i
  PROVE  Queued(q, i) = {e.body : e \in {d \in ToSet(q) : d.key = i}}
BY DEF Queued, ToSet

\* What Put does to a queue: the new events, and the others as they were.
LEMMA PutReplaces ==
  ASSUME NEW queue \in Seq(QueueEvents), UniqueKeys(queue),
         NEW S \in SUBSET Ids, NEW bodies \in [S -> Bodies]
  PROVE  /\ Put(queue, bodies) \in Seq(QueueEvents) /\ UniqueKeys(Put(queue, bodies))
         /\ \A i \in S : Queued(Put(queue, bodies), i) = {bodies[i]}
         /\ \A i : i \notin S => Queued(Put(queue, bodies), i) = Queued(queue, i)
<1> DEFINE q == Others(queue, S)
           r == Events(bodies)
<1>1. DOMAIN bodies = S
  OBVIOUS
<1>2. /\ q \in Seq(QueueEvents) /\ UniqueKeys(q)
      /\ ToSet(q) = {e \in ToSet(queue) : e.key \notin S}
  BY OthersAreKept
<1>3. /\ r \in Seq(QueueEvents) /\ UniqueKeys(r)
      /\ ToSet(r) = {[key |-> i, body |-> bodies[i]] : i \in S}
  BY EventsAreAll
<1>4. Put(queue, bodies) = q \o r
  BY <1>1 DEF Put
<1> HIDE DEF q, r
<1>5. \A d \in ToSet(q), e \in ToSet(r) : d.key # e.key
  BY <1>2, <1>3
<1>6. /\ q \o r \in Seq(QueueEvents) /\ UniqueKeys(q \o r)
      /\ ToSet(q \o r) = ToSet(q) \cup ToSet(r)
  BY <1>2, <1>3, <1>5, QueuesJoin
<1>7. \A i \in S : Queued(q \o r, i) = {bodies[i]}
  <2> TAKE i \in S
  <2>1. {d \in ToSet(q \o r) : d.key = i} = {[key |-> i, body |-> bodies[i]]}
    BY <1>2, <1>3, <1>6
  <2>2. Queued(q \o r, i) = {e.body : e \in {[key |-> i, body |-> bodies[i]]}}
    BY <2>1, QueuedInSet
  <2>3. [key |-> i, body |-> bodies[i]].body = bodies[i]
    OBVIOUS
  <2> QED
    BY <2>2, <2>3
<1>8. \A i : i \notin S => Queued(q \o r, i) = Queued(queue, i)
  <2> SUFFICES ASSUME NEW i, i \notin S PROVE Queued(q \o r, i) = Queued(queue, i)
    OBVIOUS
  <2>1. {d \in ToSet(q \o r) : d.key = i} = {d \in ToSet(queue) : d.key = i}
    BY <1>2, <1>3, <1>6
  <2> QED
    BY <2>1, QueuedInSet
<1> QED
  BY <1>4, <1>6, <1>7, <1>8

-----------------------------------------------------------------------------
(* The manager's operators.                                                *)

\* What a manager with other watchers has in common with m.
Manages(p, m) ==
  /\ p.views = m.views /\ p.pending = m.pending /\ p.running = m.running
  /\ p.tasks = m.tasks /\ p.memo = m.memo

\* p is m after its open watchers were sent bodies, for the ids in S.
Tells(m, S, bodies, p) ==
  /\ Typed(p) /\ Manages(p, m)
  /\ \A w \in Watchers :
       LET old == m.watchers[w]
           new == p.watchers[w]
       IN  /\ new.state = old.state /\ new.seen = old.seen
           /\ old.state # "open" => new = old
           /\ old.state = "open" =>
                /\ \A i \in S : Queued(new.queue, i) = {bodies[i]}
                /\ \A i : i \notin S => Queued(new.queue, i) = Queued(old.queue, i)

LEMMA PublishTells ==
  ASSUME NEW m, Typed(m), NEW S \in SUBSET Ids, NEW bodies \in [S -> Bodies]
  PROVE  Tells(m, S, bodies, Publish(m, bodies))
<1> DEFINE p == Publish(m, bodies)
           W(w) == IF m.watchers[w].state # "open" THEN m.watchers[w]
                   ELSE [m.watchers[w] EXCEPT !.queue = Put(m.watchers[w].queue, bodies)]
<1>1. m \in Managers
  BY DEF Typed
<1>2. p = [m EXCEPT !.watchers = [w \in Watchers |-> W(w)]]
  BY DEF Publish
<1>3. ASSUME NEW w \in Watchers
      PROVE  /\ W(w) \in WatcherRows /\ WatcherTyped(W(w))
             /\ W(w).state = m.watchers[w].state /\ W(w).seen = m.watchers[w].seen
             /\ m.watchers[w].state # "open" => W(w) = m.watchers[w]
             /\ m.watchers[w].state = "open" =>
                  /\ \A i \in S : Queued(W(w).queue, i) = {bodies[i]}
                  /\ \A i : i \notin S => Queued(W(w).queue, i) = Queued(m.watchers[w].queue, i)
  <2> DEFINE old == m.watchers[w]
  <2>1. old \in WatcherRows /\ WatcherTyped(old)
    BY <1>1 DEF Typed, Managers
  <2> HIDE DEF old
  <2>2. old.queue \in Seq(QueueEvents) /\ UniqueKeys(old.queue)
    BY <2>1 DEF WatcherRows, WatcherTyped
  <2> DEFINE q == Put(old.queue, bodies)
  <2>3. /\ q \in Seq(QueueEvents) /\ UniqueKeys(q)
        /\ \A i \in S : Queued(q, i) = {bodies[i]}
        /\ \A i : i \notin S => Queued(q, i) = Queued(old.queue, i)
    BY <2>2, PutReplaces
  <2> HIDE DEF q
  <2>4. CASE old.state = "open"
    <3>1. W(w) = [old EXCEPT !.queue = q]
      BY <2>4 DEF old, q
    <3> HIDE DEF W
    <3>2. W(w) \in WatcherRows /\ W(w).queue = q /\ W(w).state = "open" /\ W(w).seen = old.seen
      BY <2>1, <2>3, <2>4, <3>1 DEF WatcherRows
    <3>3. WatcherTyped(W(w))
      BY <2>3, <3>2 DEF WatcherTyped
    <3> QED
      BY <2>3, <2>4, <3>2, <3>3 DEF old
  <2>5. CASE old.state # "open"
    BY <2>1, <2>5 DEF old
  <2> QED
    BY <2>4, <2>5
<1> HIDE DEF W
<1>4. [w \in Watchers |-> W(w)] \in [Watchers -> WatcherRows]
  BY <1>3
<1>5. /\ p \in Managers /\ Manages(p, m)
      /\ \A w \in Watchers : p.watchers[w] = W(w)
  BY <1>1, <1>2, <1>4 DEF Managers, Manages
<1> HIDE DEF p
<1>6. Typed(p)
  BY <1>3, <1>5 DEF Typed, Manages
<1> QED
  BY <1>3, <1>5, <1>6 DEF p, Tells

\* What the store's part of an event loop's run does to the tables.
LEMMA ForgetClears ==
  ASSUME NEW m, Typed(m), NEW s \in Stores, NEW removed \in SUBSET Ids
  PROVE  LET p == Forget(m, s, removed)
         IN  /\ Typed(p) /\ p.watchers = m.watchers
             /\ \A i \in Ids : p.views[i] = IF i \in removed THEN None ELSE m.views[i]
             /\ p.pending = m.pending \ removed
             /\ \A i \in Ids : p.running[i] = IF i \in removed THEN None ELSE m.running[i]
             /\ \A k \in 1..Threads : p.tasks[k] =
                  IF \E i \in removed : m.running[i] = k THEN Cancelled(m.tasks[k]) ELSE m.tasks[k]
             /\ \A t \in Traces : p.memo[t] \in {m.memo[t], Nothing}
<1> DEFINE p == Forget(m, s, removed)
<1>1. m \in Managers
  BY DEF Typed
<1>2. ASSUME NEW k \in 1..Threads
      PROVE  Cancelled(m.tasks[k]) \in TaskRows /\ TaskTyped(Cancelled(m.tasks[k]))
  <2> DEFINE task == m.tasks[k]
  <2>1. task \in TaskRows /\ TaskTyped(task)
    BY <1>1 DEF Typed, Managers
  <2> HIDE DEF task
  <2>2. NoTask \in TaskRows /\ NoTask.stage = "free"
    BY DEF NoTask, TaskRows
  <2>3. Cancelled(task) \in TaskRows
    BY <2>1, <2>2 DEF Cancelled, TaskRows
  <2>4. TaskTyped(Cancelled(task))
    BY <2>1, <2>2 DEF Cancelled, TaskTyped, TaskRows
  <2> QED
    BY <2>3, <2>4 DEF task
<1>3. Nothing \in Versions
  BY LiveAssumption DEF Nothing, Versions
<1> DEFINE V == [i \in Ids |-> IF i \in removed THEN None ELSE m.views[i]]
           R == [i \in Ids |-> IF i \in removed THEN None ELSE m.running[i]]
           K == [k \in 1..Threads |-> IF \E i \in removed : m.running[i] = k
                                      THEN Cancelled(m.tasks[k]) ELSE m.tasks[k]]
           M == [t \in Traces |-> IF t \in Known(s) \/ removed = {} THEN m.memo[t] ELSE Nothing]
<1>4. /\ V \in [Ids -> Views \cup {None}] /\ R \in [Ids -> (1..Threads) \cup {None}]
      /\ K \in [1..Threads -> TaskRows] /\ M \in Snapshots
  BY <1>1, <1>2, <1>3 DEF Managers, Snapshots
<1>5. p = [m EXCEPT !.views = V, !.pending = m.pending \ removed, !.running = R, !.tasks = K,
                    !.memo = M]
  BY <1>1 DEF Forget, Managers
<1>6. /\ \A i \in Ids : V[i] = IF i \in removed THEN None ELSE m.views[i]
      /\ \A i \in Ids : R[i] = IF i \in removed THEN None ELSE m.running[i]
      /\ \A k \in 1..Threads : K[k] = IF \E i \in removed : m.running[i] = k
                                      THEN Cancelled(m.tasks[k]) ELSE m.tasks[k]
      /\ \A t \in Traces : M[t] \in {m.memo[t], Nothing}
  OBVIOUS
<1> HIDE DEF V, R, K, M, p
<1>7. /\ p.views = V /\ p.pending = m.pending \ removed /\ p.running = R /\ p.tasks = K
      /\ p.memo = M /\ p.watchers = m.watchers /\ p \in Managers
  BY <1>1, <1>4, <1>5 DEF Managers
<1>8. \A k \in 1..Threads : TaskTyped(K[k])
  BY <1>2, <1>6 DEF Typed
<1>9. Typed(p)
  BY <1>7, <1>8 DEF Typed
<1> QED
  BY <1>6, <1>7, <1>9 DEF p

-----------------------------------------------------------------------------
(* What the handlers do to the store.                                      *)

LEMMA DroppedStore ==
  ASSUME NEW s \in Stores, NEW gone \in SUBSET Ids
  PROVE  LET r == Dropped(s, gone)
         IN  /\ r \in Stores
             /\ \A i \in Ids : /\ r.sessions[i].live <=> s.sessions[i].live /\ i \notin gone
                               /\ r.sessions[i].gen = s.sessions[i].gen
                               /\ i \notin gone => r.sessions[i] = s.sessions[i]
             /\ \A t \in Traces :
                  /\ r.traces[t].at = s.traces[t].at
                  /\ r.traces[t].session =
                       IF s.traces[t].session \in gone THEN None ELSE s.traces[t].session
<1> DEFINE r == Dropped(s, gone)
           R(i) == IF i \in gone THEN [s.sessions[i] EXCEPT !.live = FALSE, !.complete = FALSE]
                   ELSE s.sessions[i]
           T(t) == IF s.traces[t].session \in gone THEN [s.traces[t] EXCEPT !.session = None]
                   ELSE s.traces[t]
<1>1. ASSUME NEW i \in Ids
      PROVE  /\ R(i) \in SessionRows
             /\ R(i).live <=> s.sessions[i].live /\ i \notin gone
             /\ R(i).gen = s.sessions[i].gen
             /\ i \notin gone => R(i) = s.sessions[i]
  <2>1. s.sessions[i] \in SessionRows
    BY DEF Stores
  <2> QED
    BY <2>1 DEF SessionRows
<1>2. ASSUME NEW t \in Traces
      PROVE  /\ T(t) \in TraceRows /\ T(t).at = s.traces[t].at
             /\ T(t).session = IF s.traces[t].session \in gone THEN None ELSE s.traces[t].session
  <2>1. s.traces[t] \in TraceRows
    BY DEF Stores
  <2> QED
    BY <2>1 DEF TraceRows
<1>3. r = [sessions |-> [i \in Ids |-> R(i)], traces |-> [t \in Traces |-> T(t)]]
  BY DEF Dropped
<1> HIDE DEF R, T, r
<1>4. r \in Stores
  BY <1>1, <1>2, <1>3 DEF Stores
<1>5. \A i \in Ids : r.sessions[i] = R(i)
  BY <1>3
<1>6. \A t \in Traces : r.traces[t] = T(t)
  BY <1>3
<1> QED
  BY <1>1, <1>2, <1>4, <1>5, <1>6 DEF r

LEMMA BegunStore ==
  ASSUME NEW s \in Stores, NEW i \in Ids, Usable(s, i)
  PROVE  LET r == Begun(s, i)
         IN  /\ r \in Stores /\ r.traces = s.traces
             /\ r.sessions[i].live
             /\ s.sessions[i].live => r.sessions[i] = s.sessions[i]
             /\ ~s.sessions[i].live => r.sessions[i].gen = s.sessions[i].gen + 1
             /\ \A j \in Ids \ {i} : r.sessions[j] = s.sessions[j]
<1>1. s.sessions[i] \in SessionRows
  BY DEF Stores
<1>2. CASE s.sessions[i].live
  BY <1>2 DEF Begun, Live
<1>3. CASE ~s.sessions[i].live
  <2> DEFINE row == [live |-> TRUE, gen |-> s.sessions[i].gen + 1, complete |-> FALSE]
  <2>1. row \in SessionRows
    BY <1>1, <1>3, LiveAssumption DEF SessionRows, Usable, Live
  <2>2. Begun(s, i) = [s EXCEPT !.sessions = [s.sessions EXCEPT ![i] = row]]
    BY <1>3 DEF Begun, Live, Stores
  <2>3. row.live /\ row.gen = s.sessions[i].gen + 1
    OBVIOUS
  <2> HIDE DEF row
  <2>4. [s.sessions EXCEPT ![i] = row] \in [Ids -> SessionRows]
    BY <2>1 DEF Stores
  <2> QED
    BY <1>3, <2>2, <2>3, <2>4 DEF Stores
<1> QED
  BY <1>2, <1>3

\* r is s after trace t of session i has grown.
GrowsTo(s, t, i, r) ==
  /\ r \in Stores
  /\ \A j \in Ids \ {i} : r.sessions[j] = s.sessions[j]
  /\ r.sessions[i].live = s.sessions[i].live
  /\ r.sessions[i].gen = s.sessions[i].gen
  /\ r.traces[t].session = i
  /\ s.traces[t].session = None => /\ r.traces[t].at.life = s.traces[t].at.life + 1
                                   /\ r.traces[t].at.version = 1
  /\ s.traces[t].session # None => /\ r.traces[t].at.life = s.traces[t].at.life
                                   /\ r.traces[t].at.version = s.traces[t].at.version + 1
  /\ \A q \in Traces \ {t} : r.traces[q] = s.traces[q]

LEMMA GrownStore ==
  ASSUME NEW s \in Stores, NEW i \in Ids, NEW t \in Traces, Room(s, t)
  PROVE  GrowsTo(s, t, i, Grown(s, t, i))
<1>1. s.sessions[i] \in SessionRows /\ s.traces[t] \in TraceRows
  BY DEF Stores
<1> DEFINE at == s.traces[t].at
           new == IF s.traces[t].session = None THEN [life |-> at.life + 1, version |-> 1]
                  ELSE [life |-> at.life, version |-> at.version + 1]
           row == [session |-> i, at |-> new]
           open == [s.sessions[i] EXCEPT !.complete = FALSE]
<1>2. new \in Versions
  BY <1>1, LiveAssumption DEF TraceRows, Versions, Room, Known
<1>3. /\ s.traces[t].session = None => new.life = at.life + 1 /\ new.version = 1
      /\ s.traces[t].session # None => new.life = at.life /\ new.version = at.version + 1
  OBVIOUS
<1>4. open \in SessionRows /\ open.live = s.sessions[i].live /\ open.gen = s.sessions[i].gen
  BY <1>1 DEF SessionRows
<1>5. Grown(s, t, i) = [s EXCEPT !.traces = [s.traces EXCEPT ![t] = row],
                                 !.sessions = [s.sessions EXCEPT ![i] = open]]
  BY DEF Grown, Stores
<1> HIDE DEF new, open, at
<1>6. row \in TraceRows /\ row.session = i /\ row.at = new
  BY <1>2 DEF TraceRows
<1> HIDE DEF row
<1>7. /\ [s.traces EXCEPT ![t] = row] \in [Traces -> TraceRows]
      /\ [s.sessions EXCEPT ![i] = open] \in [Ids -> SessionRows]
  BY <1>4, <1>6 DEF Stores
<1> QED
  BY <1>3, <1>4, <1>5, <1>6, <1>7 DEF GrowsTo, Stores, at

LEMMA AbsorbedStore ==
  ASSUME NEW s \in Stores, NEW i \in Ids, NEW source \in Ids, source # i
  PROVE  LET r == Absorbed(s, source, i)
         IN  /\ r \in Stores
             /\ \A j \in Ids \ {source} : r.sessions[j] = s.sessions[j]
             /\ ~r.sessions[source].live /\ r.sessions[source].gen = s.sessions[source].gen
             /\ \A q \in Traces :
                  /\ r.traces[q].at = s.traces[q].at
                  /\ r.traces[q].session =
                       IF s.traces[q].session = source THEN i ELSE s.traces[q].session
<1> DEFINE T(q) == IF s.traces[q].session = source THEN [s.traces[q] EXCEPT !.session = i]
                   ELSE s.traces[q]
           moved == [s EXCEPT !.traces = [q \in Traces |-> T(q)]]
<1>1. ASSUME NEW q \in Traces
      PROVE  /\ T(q) \in TraceRows /\ T(q).at = s.traces[q].at
             /\ T(q).session = IF s.traces[q].session = source THEN i ELSE s.traces[q].session
  <2>1. s.traces[q] \in TraceRows
    BY DEF Stores
  <2> QED
    BY <2>1 DEF TraceRows
<1>2. Absorbed(s, source, i) = Dropped(moved, {source})
  BY DEF Absorbed
<1> HIDE DEF T
<1>3. /\ moved \in Stores /\ moved.sessions = s.sessions
      /\ \A q \in Traces : moved.traces[q] = T(q)
  BY <1>1 DEF Stores
<1> HIDE DEF moved
<1> DEFINE r == Dropped(moved, {source})
<1>4. /\ r \in Stores
      /\ \A j \in Ids : /\ r.sessions[j].live <=> moved.sessions[j].live /\ j \notin {source}
                        /\ r.sessions[j].gen = moved.sessions[j].gen
                        /\ j \notin {source} => r.sessions[j] = moved.sessions[j]
      /\ \A q \in Traces :
           /\ r.traces[q].at = moved.traces[q].at
           /\ r.traces[q].session =
                IF moved.traces[q].session \in {source} THEN None ELSE moved.traces[q].session
  BY <1>3, DroppedStore
<1> HIDE DEF r
<1>5. \A j \in Ids \ {source} : r.sessions[j] = s.sessions[j]
  BY <1>3, <1>4
<1>6. ~r.sessions[source].live /\ r.sessions[source].gen = s.sessions[source].gen
  BY <1>3, <1>4
<1>7. \A q \in Traces : /\ r.traces[q].at = s.traces[q].at
                        /\ r.traces[q].session =
                             IF s.traces[q].session = source THEN i ELSE s.traces[q].session
  BY <1>1, <1>3, <1>4
<1> QED
  BY ZenonT(60), <1>2, <1>4, <1>5, <1>6, <1>7 DEF r

\* What a trace shows never goes back.
AtLeast(new, old) == new.life > old.life \/ (new.life = old.life /\ new.version >= old.version)
Within(old, new) == \A t \in Traces : AtLeast(new[t], old[t])

\* What a handler may do to the store: it starts sessions, removes some, and changes
\* others, whose contents grow.  An id that is removed may be started again.
Changes(s, r, started, removed, changed) ==
  /\ r \in Stores /\ started \subseteq changed /\ changed \subseteq Live(r)
  /\ Live(r) = (Live(s) \ removed) \cup started
  /\ started \cap (Live(s) \ removed) = {}
  /\ \A i \in started : r.sessions[i].gen = s.sessions[i].gen + 1
  /\ \A i \in Ids \ started : r.sessions[i].gen = s.sessions[i].gen
  /\ \A i \in Live(r) \ changed : /\ Contents(r, i) = Contents(s, i)
                                  /\ r.sessions[i].complete = s.sessions[i].complete
  /\ \A i \in Live(r) \ started : Within(Contents(s, i), Contents(r, i))
  /\ StoreFits(s) => StoreFits(r)

\* One session changes, or starts: i, which lives from then on; others may go.
OneSession(s, r, i, started, removed) ==
  /\ r \in Stores /\ r.sessions[i].live
  /\ \A j \in Ids \ {i} : /\ r.sessions[j].live <=> s.sessions[j].live /\ j \notin removed
                          /\ r.sessions[j].gen = s.sessions[j].gen
                          /\ j \notin removed => r.sessions[j] = s.sessions[j]
  /\ i \in started => /\ r.sessions[i].gen = s.sessions[i].gen + 1
                      /\ i \in Live(s) => i \in removed
  /\ i \notin started => r.sessions[i].gen = s.sessions[i].gen /\ i \in Live(s) \ removed
  /\ \A q \in Traces :
       LET a == s.traces[q]
           b == r.traces[q]
       IN  \/ /\ b.session = i /\ a.session \in removed \cup {None, i}
              /\ AtLeast(b.at, a.at)
              /\ IsStamp(a.at) /\ (a.session # None => a.at.life # 0)
                   => IsStamp(b.at) /\ b.at.life # 0
           \/ /\ b.session # i /\ b.at = a.at
              /\ i \notin started => a.session # i
              /\ b.session = IF a.session \in removed THEN None ELSE a.session

LEMMA OneSessionChanges ==
  ASSUME NEW s \in Stores, NEW r, NEW i \in Ids,
         NEW started \in SUBSET {i}, NEW removed \in SUBSET Ids,
         OneSession(s, r, i, started, removed)
  PROVE  Changes(s, r, started, removed, {i})
<1> USE DEF OneSession
<1>1. ASSUME NEW q \in Traces
      PROVE  /\ s.traces[q] \in TraceRows /\ r.traces[q] \in TraceRows
             /\ s.traces[q].at \in Versions /\ r.traces[q].at \in Versions
             /\ s.traces[q].at.life \in Nat /\ s.traces[q].at.version \in Nat
             /\ r.traces[q].at.life \in Nat /\ r.traces[q].at.version \in Nat
  BY DEF Stores, TraceRows, Versions
<1>2. None \notin Ids /\ Nothing.life = 0 /\ Nothing.version = 0
  BY LiveAssumption DEF Nothing
<1>3. /\ Live(r) = (Live(s) \ removed) \cup started
      /\ started \cap (Live(s) \ removed) = {}
  BY DEF Live
<1>4. /\ \A j \in started : r.sessions[j].gen = s.sessions[j].gen + 1
      /\ \A j \in Ids \ started : r.sessions[j].gen = s.sessions[j].gen
  OBVIOUS
<1>5. ASSUME NEW j \in Live(r) \ {i}
      PROVE  Contents(r, j) = Contents(s, j) /\ r.sessions[j].complete = s.sessions[j].complete
  <2>1. j \in Ids /\ j # i /\ j \notin removed /\ j # None
    BY <1>2, <1>3 DEF Live
  <2>2. r.sessions[j] = s.sessions[j]
    BY <2>1
  <2>3. \A q \in Traces : /\ r.traces[q].session = j <=> s.traces[q].session = j
                          /\ r.traces[q].session = j => r.traces[q].at = s.traces[q].at
    BY <2>1
  <2>4. \A q \in Traces : Contents(r, j)[q] = Contents(s, j)[q]
    BY <2>3 DEF Contents
  <2> QED
    BY <2>2, <2>4 DEF Contents
<1>6. ASSUME NEW j \in Live(r) \ started
      PROVE  Within(Contents(s, j), Contents(r, j))
  <2> SUFFICES ASSUME NEW q \in Traces PROVE AtLeast(Contents(r, j)[q], Contents(s, j)[q])
    BY DEF Within
  <2>1. CASE j # i
    <3>1. Contents(r, j) = Contents(s, j)
      BY <1>5, <2>1
    <3>2. Contents(s, j)[q].version \in Nat
      BY <1>1, <1>2 DEF Contents
    <3> QED
      BY <3>1, <3>2 DEF AtLeast
  <2>2. CASE j = i
    <3>1. i \notin started
      BY <2>2
    <3>2. /\ Contents(s, i)[q] = IF s.traces[q].session = i THEN s.traces[q].at ELSE Nothing
          /\ Contents(r, i)[q] = IF r.traces[q].session = i THEN r.traces[q].at ELSE Nothing
      BY DEF Contents
    <3>3. CASE r.traces[q].session = i
      <4>1. AtLeast(r.traces[q].at, s.traces[q].at)
        BY <3>3
      <4>2. AtLeast(r.traces[q].at, Nothing)
        BY <1>1, <1>2 DEF AtLeast
      <4> QED
        BY <2>2, <3>2, <3>3, <4>1, <4>2
    <3>4. CASE r.traces[q].session # i
      <4>1. s.traces[q].session # i
        BY <3>1, <3>4
      <4> QED
        BY <1>2, <2>2, <3>2, <3>4, <4>1 DEF AtLeast
    <3> QED
      BY <3>3, <3>4
  <2> QED
    BY <2>1, <2>2
<1>7. ASSUME StoreFits(s) PROVE StoreFits(r)
  <2> SUFFICES ASSUME NEW q \in Traces
               PROVE  /\ IsStamp(r.traces[q].at)
                      /\ r.traces[q].session # None =>
                           r.traces[q].session \in Live(r) /\ r.traces[q].at.life # 0
    BY DEF StoreFits
  <2>1. /\ IsStamp(s.traces[q].at)
        /\ s.traces[q].session # None => s.traces[q].session \in Live(s) /\ s.traces[q].at.life # 0
    BY <1>7 DEF StoreFits
  <2>2. CASE r.traces[q].session = i
    BY <2>1, <2>2 DEF Live
  <2>3. CASE r.traces[q].session # i
    <3>1. /\ r.traces[q].at = s.traces[q].at
          /\ r.traces[q].session =
               IF s.traces[q].session \in removed THEN None ELSE s.traces[q].session
      BY <2>3
    <3> QED
      BY <1>3, <2>1, <3>1
  <2> QED
    BY <2>2, <2>3
<1>8. i \in Live(r)
  BY DEF Live
<1> QED
  BY <1>3, <1>4, <1>5, <1>6, <1>7, <1>8 DEF Changes

LEMMA IngestChanges ==
  ASSUME NEW s \in Stores, NEW t \in Traces, NEW i \in Ids, NEW gone \in SUBSET (Ids \ {i}),
         s.traces[t].session \in {None, i}, Room(s, t), Usable(s, i)
  PROVE  Changes(s, Grown(Begun(Dropped(s, gone), i), t, i), {i} \ Live(s), gone, {i})
<1> DEFINE a == Dropped(s, gone)
           b == Begun(a, i)
           r == Grown(b, t, i)
<1>1. None \notin Ids
  BY LiveAssumption
<1>2. gone \in SUBSET Ids
  OBVIOUS
<1>3. /\ a \in Stores
      /\ \A j \in Ids : /\ a.sessions[j].live <=> s.sessions[j].live /\ j \notin gone
                        /\ a.sessions[j].gen = s.sessions[j].gen
                        /\ j \notin gone => a.sessions[j] = s.sessions[j]
      /\ \A q \in Traces : /\ a.traces[q].at = s.traces[q].at
                           /\ a.traces[q].session =
                                IF s.traces[q].session \in gone THEN None ELSE s.traces[q].session
  BY <1>2, DroppedStore
<1> HIDE DEF a
<1>4. Usable(a, i)
  BY <1>3 DEF Usable, Live
<1>5. /\ b \in Stores /\ b.traces = a.traces
      /\ b.sessions[i].live
      /\ a.sessions[i].live => b.sessions[i] = a.sessions[i]
      /\ ~a.sessions[i].live => b.sessions[i].gen = a.sessions[i].gen + 1
      /\ \A j \in Ids \ {i} : b.sessions[j] = a.sessions[j]
  BY <1>3, <1>4, BegunStore
<1> HIDE DEF b
<1>6. b.traces[t].session = s.traces[t].session /\ b.traces[t].at = s.traces[t].at
  BY <1>1, <1>3, <1>5
<1>7. Room(b, t)
  BY <1>6 DEF Room, Known
<1>8. GrowsTo(b, t, i, r)
  BY <1>5, <1>7, GrownStore
<1> HIDE DEF r
<1>9. \A j \in Ids \ {i} : /\ r.sessions[j].live <=> s.sessions[j].live /\ j \notin gone
                           /\ r.sessions[j].gen = s.sessions[j].gen
                           /\ j \notin gone => r.sessions[j] = s.sessions[j]
  BY <1>3, <1>5, <1>8 DEF GrowsTo
<1>10. /\ r.sessions[i].live
       /\ i \in {i} \ Live(s) => /\ r.sessions[i].gen = s.sessions[i].gen + 1
                                 /\ i \in Live(s) => i \in gone
       /\ i \notin {i} \ Live(s) => /\ r.sessions[i].gen = s.sessions[i].gen
                                    /\ i \in Live(s) \ gone
  BY <1>3, <1>5, <1>8 DEF GrowsTo, Live
<1>11. \A q \in Traces : s.traces[q].at.life \in Nat /\ s.traces[q].at.version \in Nat
  BY DEF Stores, TraceRows, Versions
<1>12. ASSUME NEW q \in Traces
       PROVE  LET x == s.traces[q]
                  y == r.traces[q]
              IN  \/ /\ y.session = i /\ x.session \in gone \cup {None, i}
                     /\ AtLeast(y.at, x.at)
                     /\ IsStamp(x.at) /\ (x.session # None => x.at.life # 0)
                          => IsStamp(y.at) /\ y.at.life # 0
                  \/ /\ y.session # i /\ y.at = x.at
                     /\ i \notin {i} \ Live(s) => x.session # i
                     /\ y.session = IF x.session \in gone THEN None ELSE x.session
  <2>1. CASE q = t
    BY <1>1, <1>6, <1>8, <1>11, <2>1 DEF GrowsTo, AtLeast, IsStamp
  <2>2. CASE q # t
    <3>1. /\ r.traces[q].at = s.traces[q].at
          /\ r.traces[q].session = IF s.traces[q].session \in gone THEN None ELSE s.traces[q].session
      BY <1>3, <1>5, <1>8, <2>2 DEF GrowsTo
    <3>2. AtLeast(r.traces[q].at, s.traces[q].at)
      BY <1>11, <3>1 DEF AtLeast
    <3> QED
      BY <1>1, <3>1, <3>2
  <2> QED
    BY <2>1, <2>2
<1> HIDE DEF r
<1>13. OneSession(s, r, i, {i} \ Live(s), gone)
  BY <1>8, <1>9, <1>10, <1>12 DEF GrowsTo, OneSession
<1>14. Changes(s, r, {i} \ Live(s), gone, {i})
  BY <1>2, <1>13, OneSessionChanges
<1> QED
  BY <1>14 DEF r, b, a

LEMMA PromotionChanges ==
  ASSUME NEW s \in Stores, NEW t \in Traces, NEW i \in Ids,
         s.traces[t].session \notin {None, i}, Room(s, t), Usable(s, i)
  PROVE  LET source == s.traces[t].session
         IN  Changes(s, Grown(Absorbed(Begun(s, i), source, i), t, i), {i} \ Live(s), {source}, {i})
<1> DEFINE source == s.traces[t].session
           a == Begun(s, i)
           b == Absorbed(a, source, i)
           r == Grown(b, t, i)
<1>1. None \notin Ids /\ source \in Ids /\ source # i
  BY LiveAssumption DEF Stores, TraceRows
<1>2. /\ a \in Stores /\ a.traces = s.traces
      /\ a.sessions[i].live
      /\ s.sessions[i].live => a.sessions[i] = s.sessions[i]
      /\ ~s.sessions[i].live => a.sessions[i].gen = s.sessions[i].gen + 1
      /\ \A j \in Ids \ {i} : a.sessions[j] = s.sessions[j]
  BY BegunStore
<1> HIDE DEF a, source
<1>3. /\ b \in Stores
      /\ \A j \in Ids \ {source} : b.sessions[j] = a.sessions[j]
      /\ ~b.sessions[source].live /\ b.sessions[source].gen = a.sessions[source].gen
      /\ \A q \in Traces :
           /\ b.traces[q].at = a.traces[q].at
           /\ b.traces[q].session = IF a.traces[q].session = source THEN i ELSE a.traces[q].session
  BY <1>1, <1>2, AbsorbedStore
<1> HIDE DEF b
<1>4. b.traces[t].session = i /\ b.traces[t].at = s.traces[t].at
  BY <1>1, <1>2, <1>3 DEF source
<1>5. Room(b, t)
  BY <1>1, <1>4 DEF Room, Known, source
<1>6. GrowsTo(b, t, i, r)
  BY <1>3, <1>5, GrownStore
<1> HIDE DEF r
<1>7. \A j \in Ids \ {i} : /\ r.sessions[j].live <=> s.sessions[j].live /\ j \notin {source}
                           /\ r.sessions[j].gen = s.sessions[j].gen
                           /\ j \notin {source} => r.sessions[j] = s.sessions[j]
  BY <1>1, <1>2, <1>3, <1>6 DEF GrowsTo
<1>8. /\ r.sessions[i].live
      /\ i \in {i} \ Live(s) => /\ r.sessions[i].gen = s.sessions[i].gen + 1
                                /\ i \in Live(s) => i \in {source}
      /\ i \notin {i} \ Live(s) => /\ r.sessions[i].gen = s.sessions[i].gen
                                   /\ i \in Live(s) \ {source}
  BY <1>1, <1>2, <1>3, <1>6 DEF GrowsTo, Live
<1>9. \A q \in Traces : s.traces[q].at.life \in Nat /\ s.traces[q].at.version \in Nat
  BY DEF Stores, TraceRows, Versions
<1>10. ASSUME NEW q \in Traces
       PROVE  LET x == s.traces[q]
                  y == r.traces[q]
              IN  \/ /\ y.session = i /\ x.session \in {source} \cup {None, i}
                     /\ AtLeast(y.at, x.at)
                     /\ IsStamp(x.at) /\ (x.session # None => x.at.life # 0)
                          => IsStamp(y.at) /\ y.at.life # 0
                  \/ /\ y.session # i /\ y.at = x.at
                     /\ i \notin {i} \ Live(s) => x.session # i
                     /\ y.session = IF x.session \in {source} THEN None ELSE x.session
  <2>1. CASE q = t
    <3>1. s.traces[t].session = source
      BY DEF source
    <3> QED
      BY <1>1, <1>4, <1>6, <1>9, <2>1, <3>1 DEF GrowsTo, AtLeast, IsStamp
  <2>2. CASE q # t
    <3>1. /\ r.traces[q].at = s.traces[q].at
          /\ r.traces[q].session = IF s.traces[q].session = source THEN i ELSE s.traces[q].session
      BY <1>2, <1>3, <1>6, <2>2 DEF GrowsTo
    <3>2. AtLeast(r.traces[q].at, s.traces[q].at)
      BY <1>9, <3>1 DEF AtLeast
    <3>3. s.traces[q].session # None /\ s.traces[q].session \in {source, i} => r.traces[q].session = i
      BY <3>1
    <3> QED
      BY <1>1, <3>1, <3>2
  <2> QED
    BY <2>1, <2>2
<1> HIDE DEF r
<1>11. OneSession(s, r, i, {i} \ Live(s), {source})
  BY <1>6, <1>7, <1>8, <1>10 DEF GrowsTo, OneSession
<1>12. Changes(s, r, {i} \ Live(s), {source}, {i})
  BY <1>1, <1>11, OneSessionChanges
<1> QED
  BY <1>12 DEF r, b, a, source

LEMMA LoadChanges ==
  ASSUME NEW s \in Stores, NEW t \in Traces, NEW i \in Ids, NEW gone \in SUBSET Ids,
         i \notin Live(Dropped(s, gone)), Usable(Dropped(s, gone), i),
         t \notin Known(Dropped(s, gone)), Room(Dropped(s, gone), t)
  PROVE  Changes(s, [Grown(Begun(Dropped(s, gone), i), t, i) EXCEPT !.sessions[i].complete = TRUE],
                 {i}, gone, {i})
<1> DEFINE a == Dropped(s, gone)
           b == Begun(a, i)
           c == Grown(b, t, i)
           r == [c EXCEPT !.sessions[i].complete = TRUE]
<1>1. None \notin Ids
  BY LiveAssumption
<1>2. /\ a \in Stores
      /\ \A j \in Ids : /\ a.sessions[j].live <=> s.sessions[j].live /\ j \notin gone
                        /\ a.sessions[j].gen = s.sessions[j].gen
                        /\ j \notin gone => a.sessions[j] = s.sessions[j]
      /\ \A q \in Traces : /\ a.traces[q].at = s.traces[q].at
                           /\ a.traces[q].session =
                                IF s.traces[q].session \in gone THEN None ELSE s.traces[q].session
  BY DroppedStore
<1>3. i \notin Live(a) /\ Usable(a, i) /\ t \notin Known(a) /\ Room(a, t)
  OBVIOUS
<1> HIDE DEF a
<1>4. /\ b \in Stores /\ b.traces = a.traces
      /\ b.sessions[i].live
      /\ ~a.sessions[i].live => b.sessions[i].gen = a.sessions[i].gen + 1
      /\ \A j \in Ids \ {i} : b.sessions[j] = a.sessions[j]
  BY <1>2, <1>3, BegunStore
<1> HIDE DEF b
<1>5. b.traces[t].session = None /\ b.traces[t].at = s.traces[t].at
  BY <1>2, <1>3, <1>4 DEF Known
<1>6. Room(b, t)
  BY <1>3, <1>4 DEF Room, Known
<1>7. GrowsTo(b, t, i, c)
  BY <1>4, <1>6, GrownStore
<1> HIDE DEF c
<1>8. /\ r \in Stores /\ r.traces = c.traces
      /\ r.sessions[i].live = c.sessions[i].live /\ r.sessions[i].gen = c.sessions[i].gen
      /\ \A j \in Ids \ {i} : r.sessions[j] = c.sessions[j]
  <2> DEFINE row == [c.sessions[i] EXCEPT !.complete = TRUE]
  <2>1. c \in Stores /\ c.sessions[i] \in SessionRows
    BY <1>7 DEF GrowsTo, Stores
  <2>2. row \in SessionRows /\ row.live = c.sessions[i].live /\ row.gen = c.sessions[i].gen
    BY <2>1 DEF SessionRows
  <2>3. r = [c EXCEPT !.sessions = [c.sessions EXCEPT ![i] = row]]
    BY <2>1 DEF Stores
  <2> HIDE DEF row, r
  <2>4. [c.sessions EXCEPT ![i] = row] \in [Ids -> SessionRows]
    BY <2>1, <2>2 DEF Stores
  <2> QED
    BY <2>1, <2>2, <2>3, <2>4 DEF Stores
<1> HIDE DEF r
<1>9. \A j \in Ids \ {i} : /\ r.sessions[j].live <=> s.sessions[j].live /\ j \notin gone
                           /\ r.sessions[j].gen = s.sessions[j].gen
                           /\ j \notin gone => r.sessions[j] = s.sessions[j]
  BY <1>2, <1>4, <1>7, <1>8 DEF GrowsTo
<1>10. /\ r.sessions[i].live /\ r.sessions[i].gen = s.sessions[i].gen + 1
       /\ i \in Live(s) => i \in gone
  BY <1>2, <1>3, <1>4, <1>7, <1>8 DEF GrowsTo, Live
<1>11. \A q \in Traces : s.traces[q].at.life \in Nat /\ s.traces[q].at.version \in Nat
  BY DEF Stores, TraceRows, Versions
<1>12. ASSUME NEW q \in Traces
       PROVE  LET x == s.traces[q]
                  y == r.traces[q]
              IN  \/ /\ y.session = i /\ x.session \in gone \cup {None, i}
                     /\ AtLeast(y.at, x.at)
                     /\ IsStamp(x.at) /\ (x.session # None => x.at.life # 0)
                          => IsStamp(y.at) /\ y.at.life # 0
                  \/ /\ y.session # i /\ y.at = x.at
                     /\ i \notin {i} => x.session # i
                     /\ y.session = IF x.session \in gone THEN None ELSE x.session
  <2>1. CASE q = t
    <3>1. s.traces[t].session \in gone \cup {None}
      BY <1>2, <1>4, <1>5
    <3> QED
      BY <1>5, <1>7, <1>8, <1>11, <2>1, <3>1 DEF GrowsTo, AtLeast, IsStamp
  <2>2. CASE q # t
    <3>1. /\ r.traces[q].at = s.traces[q].at
          /\ r.traces[q].session = IF s.traces[q].session \in gone THEN None ELSE s.traces[q].session
      BY <1>2, <1>4, <1>7, <1>8, <2>2 DEF GrowsTo
    <3>2. AtLeast(r.traces[q].at, s.traces[q].at)
      BY <1>11, <3>1 DEF AtLeast
    <3> QED
      BY <1>1, <3>1, <3>2
  <2> QED
    BY <2>1, <2>2
<1>13. OneSession(s, r, i, {i}, gone)
  BY <1>8, <1>9, <1>10, <1>12 DEF OneSession
<1>14. Changes(s, r, {i}, gone, {i})
  BY <1>13, OneSessionChanges
<1> QED
  BY <1>14 DEF r, c, b, a

LEMMA TickChanges ==
  ASSUME NEW s \in Stores, NEW done \in SUBSET Live(s), NEW gone \in SUBSET Ids
  PROVE  Changes(s, Dropped(Completed(s, done), gone), {}, gone, done \ gone)
<1> DEFINE a == Completed(s, done)
           r == Dropped(a, gone)
           R(i) == [s.sessions[i] EXCEPT !.complete = s.sessions[i].complete \/ i \in done]
<1>10. done \in SUBSET Ids
  BY DEF Live
<1>1. ASSUME NEW i \in Ids
      PROVE  /\ R(i) \in SessionRows
             /\ R(i).live = s.sessions[i].live /\ R(i).gen = s.sessions[i].gen
             /\ i \notin done => R(i).complete = s.sessions[i].complete
  <2>1. s.sessions[i] \in SessionRows
    BY DEF Stores
  <2> QED
    BY <2>1 DEF SessionRows
<1>2. a = [s EXCEPT !.sessions = [i \in Ids |-> R(i)]]
  BY DEF Completed
<1> HIDE DEF R, a
<1>3. /\ a \in Stores /\ a.traces = s.traces
      /\ \A i \in Ids : /\ a.sessions[i].live = s.sessions[i].live
                        /\ a.sessions[i].gen = s.sessions[i].gen
                        /\ i \notin done => a.sessions[i].complete = s.sessions[i].complete
  BY <1>1, <1>2 DEF Stores
<1>4. /\ r \in Stores
      /\ \A i \in Ids : /\ r.sessions[i].live <=> a.sessions[i].live /\ i \notin gone
                        /\ r.sessions[i].gen = a.sessions[i].gen
                        /\ i \notin gone => r.sessions[i] = a.sessions[i]
      /\ \A t \in Traces :
           /\ r.traces[t].at = a.traces[t].at
           /\ r.traces[t].session = IF a.traces[t].session \in gone THEN None ELSE a.traces[t].session
  BY <1>3, DroppedStore
<1> HIDE DEF r
<1>5. Live(r) = (Live(s) \ {}) \ gone
  BY <1>3, <1>4 DEF Live
<1>6. /\ \A i \in Ids : r.sessions[i].gen = s.sessions[i].gen
      /\ \A i \in Live(r) \ (done \ gone) : r.sessions[i].complete = s.sessions[i].complete
  BY <1>3, <1>4, <1>5 DEF Live
<1>7. ASSUME NEW i \in Live(r)
      PROVE  Contents(r, i) = Contents(s, i) /\ Within(Contents(s, i), Contents(r, i))
  <2>1. i \in Ids /\ i \notin gone /\ i # None
    BY <1>5, LiveAssumption DEF Live
  <2>2. \A t \in Traces : /\ r.traces[t].session = i <=> s.traces[t].session = i
                          /\ r.traces[t].at = s.traces[t].at
    BY <1>3, <1>4, <2>1
  <2>3. Contents(r, i) = Contents(s, i)
    BY <2>2 DEF Contents
  <2>4. \A t \in Traces : /\ Contents(s, i)[t].life \in Nat /\ Contents(s, i)[t].version \in Nat
    BY DEF Contents, Nothing, Stores, TraceRows, Versions
  <2>5. Within(Contents(s, i), Contents(s, i))
    BY <2>4 DEF Within, AtLeast
  <2> QED
    BY <2>3, <2>5
<1>8. ASSUME StoreFits(s) PROVE StoreFits(r)
  BY <1>3, <1>4, <1>5, <1>8 DEF StoreFits
<1>11. done \ gone \subseteq Live(r)
  BY <1>5
<1>9. Changes(s, r, {}, gone, done \ gone)
  BY <1>4, <1>5, <1>6, <1>7, <1>8, <1>11 DEF Changes
<1> QED
  BY <1>9 DEF r, a

-----------------------------------------------------------------------------
(* What the events of a store call do to the manager.                      *)

\* What is sent of a session that has just started.
Summary(s, i) == View(s, i, [t \in Traces |-> Nothing])

LEMMA SummaryIsAView ==
  ASSUME NEW s \in Stores, NEW i \in Ids
  PROVE  /\ Summary(s, i) \in Views /\ Summary(s, i).gen = s.sessions[i].gen
         /\ Current(s, i) \in Views /\ Contents(s, i) \in Snapshots
<1>1. s.sessions[i] \in SessionRows /\ \A t \in Traces : s.traces[t].at \in Versions
  BY DEF Stores, TraceRows
<1>2. Nothing \in Versions
  BY LiveAssumption DEF Nothing, Versions
<1>3. Contents(s, i) \in Snapshots
  BY <1>1, <1>2 DEF Contents, Snapshots
<1> QED
  BY <1>1, <1>2, <1>3 DEF Summary, Current, View, Views, SessionRows, Snapshots

DrainTells(m, p, r, started, removed) ==
  \A w \in Watchers :
    LET old == m.watchers[w]
        new == p.watchers[w]
    IN  /\ new.state = old.state /\ new.seen = old.seen
        /\ old.state # "open" => new = old
        /\ old.state = "open" =>
             \A i \in Ids : Queued(new.queue, i) =
               IF i \in started
               THEN {IF i \notin removed /\ m.views[i] # None THEN m.views[i] ELSE Summary(r, i)}
               ELSE IF i \in removed THEN {Gone} ELSE Queued(old.queue, i)

\* p is m after the events of a store call, r being the store after it.
Drains(m, r, started, removed, dirty, p) ==
  /\ Typed(p) /\ DrainTells(m, p, r, started, removed)
  /\ \A i \in Ids : p.views[i] = IF i \in removed THEN None ELSE m.views[i]
  /\ p.pending = (m.pending \ removed) \cup dirty
  /\ \A i \in Ids : p.running[i] = IF i \in removed THEN None ELSE m.running[i]
  /\ \A k \in 1..Threads : p.tasks[k] =
       IF \E i \in removed : m.running[i] = k THEN Cancelled(m.tasks[k]) ELSE m.tasks[k]
  /\ \A t \in Traces : p.memo[t] \in {m.memo[t], Nothing}

LEMMA DrainEffects ==
  ASSUME NEW m, Typed(m), NEW r \in Stores, NEW started \in SUBSET Ids, NEW removed \in SUBSET Ids,
         NEW dirty \in SUBSET Ids
  PROVE  Drains(m, r, started, removed, dirty, Drain(m, r, started, removed, dirty))
<1> DEFINE a == Forget(m, r, removed)
           gones == [i \in removed |-> Gone]
           b == Publish(a, gones)
           news == [i \in started |-> Shown(b, r, i)]
           c == Publish(b, news)
           p == Drain(m, r, started, removed, dirty)
<1>1. /\ Typed(a) /\ a.watchers = m.watchers
      /\ \A i \in Ids : a.views[i] = IF i \in removed THEN None ELSE m.views[i]
      /\ a.pending = m.pending \ removed
      /\ \A i \in Ids : a.running[i] = IF i \in removed THEN None ELSE m.running[i]
      /\ \A k \in 1..Threads : a.tasks[k] =
           IF \E i \in removed : m.running[i] = k THEN Cancelled(m.tasks[k]) ELSE m.tasks[k]
      /\ \A t \in Traces : a.memo[t] \in {m.memo[t], Nothing}
  BY ForgetClears
<1>2. gones \in [removed -> Bodies] /\ \A i \in removed : gones[i] = Gone
  BY DEF Bodies
<1> HIDE DEF a, gones
<1>3. Tells(a, removed, gones, b)
  BY <1>1, <1>2, PublishTells
<1>4. \A i \in Ids : b.views[i] = IF i \in removed THEN None ELSE m.views[i]
  BY <1>1, <1>3 DEF Tells, Manages
<1>5. /\ news \in [started -> Bodies]
      /\ \A i \in started : news[i] = IF i \notin removed /\ m.views[i] # None
                                      THEN m.views[i] ELSE Summary(r, i)
  <2>1. \A i \in started : Summary(r, i) \in Bodies /\ b.views[i] \in Views \cup {None}
    BY <1>3, SummaryIsAView DEF Tells, Typed, Managers, Bodies
  <2>2. \A i \in started : Shown(b, r, i) = IF b.views[i] # None THEN b.views[i] ELSE Summary(r, i)
    BY DEF Shown, Summary
  <2>3. \A i \in started : Shown(b, r, i) \in Bodies
    BY <2>1, <2>2 DEF Bodies
  <2> QED
    BY <1>4, <2>2, <2>3
<1> HIDE DEF b, news
<1>6. Tells(b, started, news, c)
  <2>1. Typed(b)
    BY <1>3 DEF Tells
  <2> QED
    BY <1>5, <2>1, PublishTells
<1>7. p = [c EXCEPT !.pending = c.pending \cup dirty]
  BY DEF Drain, Asks, c, news, b, gones, a
<1> HIDE DEF c, p
<1>8. /\ p \in Managers /\ p.views = c.views /\ p.pending = c.pending \cup dirty
      /\ p.running = c.running /\ p.tasks = c.tasks /\ p.memo = c.memo /\ p.watchers = c.watchers
  BY <1>6, <1>7 DEF Tells, Typed, Managers
<1>9. Typed(p)
  BY <1>6, <1>8 DEF Tells, Typed
<1>10. DrainTells(m, p, r, started, removed)
  <2> SUFFICES ASSUME NEW w \in Watchers
               PROVE  LET old == m.watchers[w]
                          new == p.watchers[w]
                      IN  /\ new.state = old.state /\ new.seen = old.seen
                          /\ old.state # "open" => new = old
                          /\ old.state = "open" =>
                               \A i \in Ids : Queued(new.queue, i) =
                                 IF i \in started
                                 THEN {IF i \notin removed /\ m.views[i] # None
                                       THEN m.views[i] ELSE Summary(r, i)}
                                 ELSE IF i \in removed THEN {Gone} ELSE Queued(old.queue, i)
    BY DEF DrainTells
  <2> DEFINE old == m.watchers[w]
             mid == b.watchers[w]
             new == p.watchers[w]
  <2>1. a.watchers[w] = old /\ new = c.watchers[w]
    BY <1>1, <1>8
  <2>2. /\ mid.state = old.state /\ mid.seen = old.seen
        /\ old.state # "open" => mid = old
        /\ old.state = "open" =>
             /\ \A i \in removed : Queued(mid.queue, i) = {gones[i]}
             /\ \A i : i \notin removed => Queued(mid.queue, i) = Queued(old.queue, i)
    BY <1>3, <2>1 DEF Tells
  <2>3. /\ new.state = mid.state /\ new.seen = mid.seen
        /\ mid.state # "open" => new = mid
        /\ mid.state = "open" =>
             /\ \A i \in started : Queued(new.queue, i) = {news[i]}
             /\ \A i : i \notin started => Queued(new.queue, i) = Queued(mid.queue, i)
    BY <1>6, <2>1 DEF Tells
  <2> HIDE DEF old, mid, new
  <2>4. ASSUME old.state = "open", NEW i \in Ids
        PROVE  Queued(new.queue, i) =
                 IF i \in started
                 THEN {IF i \notin removed /\ m.views[i] # None THEN m.views[i] ELSE Summary(r, i)}
                 ELSE IF i \in removed THEN {Gone} ELSE Queued(old.queue, i)
    <3>1. CASE i \in started
      BY <1>5, <2>2, <2>3, <2>4, <3>1
    <3>2. CASE i \notin started
      BY <1>2, <2>2, <2>3, <2>4, <3>2
    <3> QED
      BY <3>1, <3>2
  <2> QED
    BY <2>2, <2>3, <2>4 DEF old, new
<1> QED
  BY <1>1, <1>3, <1>6, <1>8, <1>9, <1>10 DEF Tells, Manages, Drains, p

\* What is dropped, and what is sent of the sessions that start, agrees with the store.
LEMMA DrainConverges ==
  ASSUME NEW s \in Stores, NEW r, NEW started \in SUBSET Ids, NEW removed \in SUBSET Ids,
         NEW changed, Changes(s, r, started, removed, changed),
         NEW m, Typed(m), OfLiveSessions(s, m), Converged(s, m), NEW dirty \in SUBSET Ids
  PROVE  LET p == Drain(m, r, started, removed, dirty)
         IN  Typed(p) /\ OfLiveSessions(r, p) /\ Converged(r, p)
<1> DEFINE p == Drain(m, r, started, removed, dirty)
<1>1. r \in Stores
  BY DEF Changes
<1>2. /\ Typed(p) /\ DrainTells(m, p, r, started, removed)
      /\ \A i \in Ids : p.views[i] = IF i \in removed THEN None ELSE m.views[i]
  <2>1. Drains(m, r, started, removed, dirty, p)
    BY <1>1, DrainEffects
  <2> QED
    BY <2>1 DEF Drains
<1> HIDE DEF p
<1>3. /\ Live(r) = (Live(s) \ removed) \cup started
      /\ started \cap (Live(s) \ removed) = {}
      /\ \A i \in Ids \ started : r.sessions[i].gen = s.sessions[i].gen
  BY DEF Changes
<1>4. OfLiveSessions(r, p)
  <2> SUFFICES ASSUME NEW i \in Ids, p.views[i] # None
               PROVE  i \in Live(r) /\ p.views[i].gen = r.sessions[i].gen
    BY DEF OfLiveSessions
  <2>1. i \notin removed /\ p.views[i] = m.views[i]
    BY <1>2
  <2>2. i \in Live(s) /\ m.views[i].gen = s.sessions[i].gen
    BY <2>1 DEF OfLiveSessions
  <2> QED
    BY <1>3, <2>1, <2>2
<1>5. ASSUME NEW w \in Watchers, p.watchers[w].state = "open", NEW i \in Ids,
             NEW body \in Told(p.watchers[w], i)
      PROVE  Knows(r, p, i, body)
  <2> DEFINE old == m.watchers[w]
             new == p.watchers[w]
             first == IF i \notin removed /\ m.views[i] # None THEN m.views[i] ELSE Summary(r, i)
  <2>1. /\ new.seen = old.seen /\ old.state = "open"
        /\ Queued(new.queue, i) =
             IF i \in started THEN {first}
             ELSE IF i \in removed THEN {Gone} ELSE Queued(old.queue, i)
    BY <1>2, <1>5 DEF DrainTells
  <2>2. body \in Told(new, i)
    BY <1>5
  <2> HIDE DEF new, old
  <2>3. CASE i \in started
    <3>1. Summary(r, i) \in Views /\ Summary(r, i).gen = r.sessions[i].gen
      BY <1>1, SummaryIsAView
    <3>2. i \in Live(r) /\ p.views[i] = None
      <4>1. i \in removed \/ i \notin Live(s)
        BY <1>3, <2>3
      <4>2. i \in removed \/ m.views[i] = None
        BY <4>1 DEF OfLiveSessions
      <4> QED
        BY <1>2, <1>3, <2>3, <4>2
    <3>3. first = Summary(r, i)
      BY <1>2, <3>2
    <3>4. body = Summary(r, i)
      BY <2>1, <2>2, <2>3, <3>3 DEF Told
    <3> QED
      BY <3>1, <3>2, <3>4 DEF Knows
  <2>4. CASE i \notin started /\ i \in removed
    <3>1. body = Gone
      BY <2>1, <2>2, <2>4 DEF Told
    <3> QED
      BY <1>3, <2>4, <3>1 DEF Knows
  <2>5. CASE i \notin started /\ i \notin removed
    <3>1. Told(new, i) = Told(old, i)
      BY <2>1, <2>5 DEF Told
    <3>2. Knows(s, m, i, body)
      BY <2>1, <2>2, <3>1 DEF Converged, old
    <3>3. p.views[i] = m.views[i]
      BY <1>2, <2>5
    <3>4. i \in Live(r) <=> i \in Live(s)
      BY <1>3, <2>5
    <3>5. r.sessions[i].gen = s.sessions[i].gen
      BY <1>3, <2>5
    <3> QED
      BY <3>2, <3>3, <3>4, <3>5 DEF Knows
  <2> QED
    BY <2>3, <2>4, <2>5
<1>6. Converged(r, p)
  BY <1>5 DEF Converged
<1> QED
  BY <1>2, <1>4, <1>6 DEF p

-----------------------------------------------------------------------------
(* Recompute tasks.                                                        *)

\* p is m but for task k, and perhaps some of its tables.
TaskSet(m, k, task, views, running, memo, p) ==
  /\ Typed(p)
  /\ p.views = views /\ p.running = running /\ p.memo = memo
  /\ p.pending = m.pending /\ p.watchers = m.watchers
  /\ p.tasks[k] = task /\ \A j \in (1..Threads) \ {k} : p.tasks[j] = m.tasks[j]

LEMMA TaskSteps ==
  ASSUME NEW m, Typed(m), NEW k \in 1..Threads, NEW task \in TaskRows, TaskTyped(task),
         NEW views \in [Ids -> Views \cup {None}], NEW running \in [Ids -> (1..Threads) \cup {None}],
         NEW memo \in Snapshots
  PROVE  TaskSet(m, k, task, views, running, memo,
                 [m EXCEPT !.views = views, !.running = running, !.memo = memo,
                           !.tasks = [m.tasks EXCEPT ![k] = task]])
<1> DEFINE p == [m EXCEPT !.views = views, !.running = running, !.memo = memo,
                          !.tasks = [m.tasks EXCEPT ![k] = task]]
<1>1. m \in Managers /\ m.tasks \in [1..Threads -> TaskRows]
  BY DEF Typed, Managers
<1>2. [m.tasks EXCEPT ![k] = task] \in [1..Threads -> TaskRows]
  BY <1>1
<1>3. /\ p \in Managers /\ p.views = views /\ p.running = running /\ p.memo = memo
      /\ p.pending = m.pending /\ p.watchers = m.watchers
      /\ p.tasks[k] = task /\ \A j \in (1..Threads) \ {k} : p.tasks[j] = m.tasks[j]
  BY <1>1, <1>2 DEF Managers
<1> HIDE DEF p
<1>4. Typed(p)
  BY <1>3 DEF Typed
<1> QED
  BY <1>3, <1>4 DEF TaskSet, p

LEMMA NoTaskTyped == NoTask \in TaskRows /\ TaskTyped(NoTask) /\ NoTask.stage = "free"
BY DEF NoTask, TaskRows, TaskTyped

LEMMA TaskHere ==
  ASSUME NEW m, Typed(m), NEW k \in 1..Threads
  PROVE  m.tasks[k] \in TaskRows /\ TaskTyped(m.tasks[k])
BY DEF Typed, Managers

\* Ended, in the form of TaskSteps.
LEMMA EndedSteps ==
  ASSUME NEW m, Typed(m), NEW k \in 1..Threads
  PROVE  LET p == Ended(m, k)
         IN  /\ Typed(p) /\ p.views = m.views /\ p.memo = m.memo
             /\ p.pending = m.pending /\ p.watchers = m.watchers
             /\ \A i \in Ids : p.running[i] = IF m.running[i] = k THEN None ELSE m.running[i]
             /\ p.tasks[k] = NoTask /\ \A j \in (1..Threads) \ {k} : p.tasks[j] = m.tasks[j]
<1> DEFINE running == [i \in Ids |-> IF m.running[i] = k THEN None ELSE m.running[i]]
<1>1. /\ m \in Managers /\ m.views \in [Ids -> Views \cup {None}] /\ m.memo \in Snapshots
      /\ running \in [Ids -> (1..Threads) \cup {None}]
  BY DEF Typed, Managers
<1>2. Ended(m, k) = [m EXCEPT !.views = m.views, !.running = running, !.memo = m.memo,
                              !.tasks = [m.tasks EXCEPT ![k] = NoTask]]
  BY <1>1 DEF Ended, Managers
<1>3. \A i \in Ids : running[i] = IF m.running[i] = k THEN None ELSE m.running[i]
  OBVIOUS
<1> HIDE DEF running
<1>4. TaskSet(m, k, NoTask, m.views, running, m.memo, Ended(m, k))
  <2>1. TaskSet(m, k, NoTask, m.views, running, m.memo,
                [m EXCEPT !.views = m.views, !.running = running, !.memo = m.memo,
                          !.tasks = [m.tasks EXCEPT ![k] = NoTask]])
    BY <1>1, NoTaskTyped, TaskSteps
  <2> QED
    BY <1>2, <2>1
<1> QED
  BY <1>3, <1>4 DEF TaskSet

\* What the steps of a task leave alone, but for the task itself.
OthersStay(k) ==
  /\ LiveTyped' /\ UNCHANGED <<store, up>>
  /\ lm'.pending = lm.pending
  /\ \A j \in (1..Threads) \ {k} : lm'.tasks[j] = lm.tasks[j]

LEMMA BeginEffects ==
  ASSUME LiveTyped, NEW k \in 1..Threads, Begin(k)
  PROVE  LET i == lm.tasks[k].id
             new == lm'.tasks[k]
         IN  /\ OthersStay(k) /\ i \in Ids /\ lm.tasks[k].stage = "created" /\ lost' = lost
             /\ lm'.views = lm.views /\ lm'.memo = lm.memo /\ lm'.watchers = lm.watchers
             /\ \/ /\ i \notin Live(store) /\ new = NoTask
                   /\ lm'.running = [lm.running EXCEPT ![i] = None]
                \/ /\ i \in Live(store) /\ lm'.running = lm.running
                   /\ new.stage = "thread" /\ new.id = i /\ new.snap = Contents(store, i)
                   /\ new.view = Summary(store, i)
                   /\ new.todo = {t \in Traces : Contents(store, i)[t] # Nothing}
<1> DEFINE old == lm.tasks[k]
           i == old.id
           content == Contents(store, i)
<1>1. /\ Typed(lm) /\ lm \in Managers /\ store \in Stores
      /\ lm.views \in [Ids -> Views \cup {None}] /\ lm.memo \in Snapshots
      /\ lm.running \in [Ids -> (1..Threads) \cup {None}]
      /\ lm.tasks \in [1..Threads -> TaskRows]
  BY DEF LiveTyped, Typed, Managers
<1>2. old \in TaskRows /\ i \in Ids /\ old.stage = "created"
  BY <1>1, TaskHere DEF Begin, TaskTyped
<1>3. store' = store /\ up' = up /\ lost' = lost
  BY DEF Begin
<1>4. CASE i \notin Live(store)
  <2> DEFINE running == [lm.running EXCEPT ![i] = None]
  <2>1. running \in [Ids -> (1..Threads) \cup {None}]
    BY <1>1
  <2>2. lm' = [lm EXCEPT !.views = lm.views, !.running = running, !.memo = lm.memo,
                         !.tasks = [lm.tasks EXCEPT ![k] = NoTask]]
    BY <1>1, <1>2, <1>4 DEF Begin, Managers
  <2> HIDE DEF running
  <2>3. TaskSet(lm, k, NoTask, lm.views, running, lm.memo, lm')
    BY <1>1, <2>1, <2>2, NoTaskTyped, TaskSteps
  <2> QED
    BY <1>2, <1>3, <1>4, <2>3 DEF TaskSet, OthersStay, LiveTyped, running
<1>5. CASE i \in Live(store)
  <2> DEFINE todo == {t \in Traces : content[t] # Nothing}
             new == [old EXCEPT !.stage = "thread", !.snap = content,
                                !.view = Summary(store, i), !.todo = todo]
  <2>1. content \in Snapshots /\ Summary(store, i) \in Views
    BY <1>1, <1>2, SummaryIsAView
  <2>2. lm' = [lm EXCEPT !.tasks[k] = new]
    BY <1>5 DEF Begin, Summary
  <2> HIDE DEF content
  <2>3. /\ new \in TaskRows /\ new.stage = "thread" /\ new.id = i /\ new.snap = content
        /\ new.view = Summary(store, i) /\ new.todo = todo
    BY <1>2, <2>1 DEF TaskRows
  <2> HIDE DEF new
  <2>4. TaskTyped(new)
    BY <2>1, <2>3 DEF TaskTyped
  <2>5. lm' = [lm EXCEPT !.views = lm.views, !.running = lm.running, !.memo = lm.memo,
                         !.tasks = [lm.tasks EXCEPT ![k] = new]]
    BY <1>1, <2>2 DEF Managers
  <2>6. TaskSet(lm, k, new, lm.views, lm.running, lm.memo, lm')
    BY <1>1, <2>3, <2>4, <2>5, TaskSteps
  <2> QED
    BY <1>2, <1>3, <1>5, <2>3, <2>6 DEF TaskSet, OthersStay, LiveTyped, content
<1> QED
  BY <1>4, <1>5

\* A step of a thread, up to the publication: at most the memo and the view it is making.
ThreadGoesOn(k) ==
  LET old == lm.tasks[k]
      new == lm'.tasks[k]
  IN  /\ OthersStay(k) /\ lost' = lost
      /\ lm'.views = lm.views /\ lm'.running = lm.running /\ lm'.watchers = lm.watchers
      /\ old.stage = "thread" /\ new.stage = "thread"
      /\ new.id = old.id /\ new.snap = old.snap
      /\ new.view.gen = old.view.gen /\ new.view.complete = old.view.complete

\* What a thread does with the view it is making: trace t is done, as content.
Shows(old, new, t, content) ==
  /\ new.todo = old.todo \ {t} /\ new.view.content[t] = content
  /\ \A q \in Traces \ {t} : new.view.content[q] = old.view.content[q]

\* p is m after its task k has shown trace t.
ShowsTo(m, k, t, at, memo, p) ==
  LET old == m.tasks[k]
      new == p.tasks[k]
  IN  /\ Typed(p) /\ p.views = m.views /\ p.running = m.running /\ p.memo = memo
      /\ p.pending = m.pending /\ p.watchers = m.watchers
      /\ \A j \in (1..Threads) \ {k} : p.tasks[j] = m.tasks[j]
      /\ new.stage = "thread" /\ new.id = old.id /\ new.snap = old.snap
      /\ new.view.gen = old.view.gen /\ new.view.complete = old.view.complete
      /\ Shows(old, new, t, at)

LEMMA ThreadShows ==
  ASSUME NEW m, Typed(m), NEW k \in 1..Threads, m.tasks[k].stage = "thread",
         NEW t \in Traces, NEW at \in Versions, NEW memo \in Snapshots, NEW missed \in Traces \cup {None}
  PROVE  LET new == [Built(m.tasks[k], t, at) EXCEPT !.missed = missed]
         IN  ShowsTo(m, k, t, at, memo,
                     [m EXCEPT !.memo = memo, !.tasks = [m.tasks EXCEPT ![k] = new]])
<1> DEFINE old == m.tasks[k]
           content == [old.view.content EXCEPT ![t] = at]
           view == [old.view EXCEPT !.content = content]
           built == [old EXCEPT !.todo = old.todo \ {t}, !.view = view]
           new == [Built(old, t, at) EXCEPT !.missed = missed]
           p == [m EXCEPT !.memo = memo, !.tasks = [m.tasks EXCEPT ![k] = new]]
<1>1. /\ m \in Managers /\ m.views \in [Ids -> Views \cup {None}]
      /\ m.running \in [Ids -> (1..Threads) \cup {None}]
  BY DEF Typed, Managers
<1>2. old \in TaskRows /\ old.view \in Views /\ old.snap \in Snapshots /\ old.stage = "thread"
  BY TaskHere DEF TaskTyped
<1>3. /\ content \in [Traces -> Versions] /\ content[t] = at
      /\ \A q \in Traces \ {t} : content[q] = old.view.content[q]
  BY <1>2 DEF Views
<1>10. Built(old, t, at) = built
  BY <1>2 DEF Built, TaskRows, Views
<1> HIDE DEF content
<1>4. /\ view \in Views /\ view.gen = old.view.gen /\ view.complete = old.view.complete
      /\ view.content = content
  BY <1>2, <1>3 DEF Views
<1> HIDE DEF view
<1>5. /\ new \in TaskRows /\ new.stage = "thread" /\ new.id = old.id /\ new.snap = old.snap
      /\ new.view = view /\ new.todo = old.todo \ {t}
  BY ZenonT(60), <1>2, <1>4, <1>10 DEF TaskRows
<1> HIDE DEF new
<1>6. TaskTyped(new)
  BY <1>2, <1>4, <1>5 DEF TaskTyped
<1>7. p = [m EXCEPT !.views = m.views, !.running = m.running, !.memo = memo,
                    !.tasks = [m.tasks EXCEPT ![k] = new]]
  BY <1>1 DEF Managers
<1> HIDE DEF p
<1>8. TaskSet(m, k, new, m.views, m.running, memo, p)
  BY <1>1, <1>5, <1>6, <1>7, TaskSteps
<1>9. Shows(old, new, t, at)
  BY <1>3, <1>4, <1>5 DEF Shows
<1> QED
  BY <1>4, <1>5, <1>8, <1>9 DEF TaskSet, ShowsTo, p, new, view, content

LEMMA MemoHitEffects ==
  ASSUME LiveTyped, NEW k \in 1..Threads, MemoHit(k)
  PROVE  /\ ThreadGoesOn(k) /\ lm'.memo = lm.memo
         /\ \E t \in Traces : /\ IsMemoized(lm.memo[t], lm.tasks[k].snap[t])
                              /\ Shows(lm.tasks[k], lm'.tasks[k], t, lm.memo[t])
<1> DEFINE old == lm.tasks[k]
           t == CHOOSE q \in old.todo : TRUE
           new == [Built(old, t, lm.memo[t]) EXCEPT !.missed = old.missed]
<1>1. Typed(lm) /\ lm \in Managers /\ old.stage = "thread"
  BY DEF LiveTyped, Typed, MemoHit, InThread
<1>2. old \in TaskRows /\ old.view \in Views
  BY <1>1, TaskHere DEF TaskTyped
<1>3. t \in Traces /\ IsMemoized(lm.memo[t], old.snap[t])
  BY <1>2 DEF MemoHit, TaskRows
<1>4. lm.memo[t] \in Versions /\ lm.memo \in Snapshots
  BY <1>1, <1>3 DEF Managers, Snapshots
<1>5. old.missed \in Traces \cup {None}
  BY <1>2 DEF TaskRows
<1>6. lm' = [lm EXCEPT !.memo = lm.memo, !.tasks = [lm.tasks EXCEPT ![k] = new]]
  <2>1. lm' = [lm EXCEPT !.tasks[k] = Built(old, t, lm.memo[t])]
    BY DEF MemoHit
  <2> HIDE DEF t
  <2>2. Built(old, t, lm.memo[t]) = new
    BY <1>2 DEF Built, TaskRows
  <2> HIDE DEF new
  <2> QED
    BY <1>1, <2>1, <2>2 DEF Managers
<1> HIDE DEF t
<1>7. ShowsTo(lm, k, t, lm.memo[t], lm.memo, lm')
  BY <1>1, <1>3, <1>4, <1>5, <1>6, ThreadShows
<1>8. store' = store /\ up' = up /\ lost' = lost
  BY DEF MemoHit
<1> HIDE DEF new
<1>9. OthersStay(k)
  BY <1>7, <1>8 DEF ShowsTo, OthersStay, LiveTyped
<1>10. ThreadGoesOn(k)
  BY <1>1, <1>7, <1>8, <1>9 DEF ShowsTo, ThreadGoesOn
<1> QED
  BY <1>3, <1>7, <1>10 DEF ShowsTo

LEMMA MemoMissEffects ==
  ASSUME LiveTyped, NEW k \in 1..Threads, MemoMiss(k)
  PROVE  /\ ThreadGoesOn(k) /\ lm'.memo = lm.memo
         /\ lm'.tasks[k].todo = lm.tasks[k].todo /\ lm'.tasks[k].view = lm.tasks[k].view
<1> DEFINE old == lm.tasks[k]
           t == CHOOSE q \in old.todo : TRUE
           new == [old EXCEPT !.missed = t]
<1>1. /\ Typed(lm) /\ lm \in Managers /\ old.stage = "thread"
      /\ lm.views \in [Ids -> Views \cup {None}] /\ lm.memo \in Snapshots
      /\ lm.running \in [Ids -> (1..Threads) \cup {None}]
  BY DEF LiveTyped, Typed, Managers, MemoMiss, InThread
<1>2. old \in TaskRows /\ TaskTyped(old)
  BY <1>1, TaskHere
<1>3. t \in Traces
  BY <1>2 DEF MemoMiss, TaskRows
<1>4. lm' = [lm EXCEPT !.tasks[k].missed = t]
  BY DEF MemoMiss
<1> HIDE DEF t
<1>5. lm' = [lm EXCEPT !.views = lm.views, !.running = lm.running, !.memo = lm.memo,
                       !.tasks = [lm.tasks EXCEPT ![k] = new]]
  BY <1>1, <1>4 DEF Managers
<1>6. /\ new \in TaskRows /\ new.stage = "thread" /\ new.id = old.id /\ new.snap = old.snap
      /\ new.view = old.view /\ new.todo = old.todo
  BY <1>1, <1>2, <1>3 DEF TaskRows
<1> HIDE DEF new
<1>7. TaskTyped(new)
  BY <1>1, <1>2, <1>6 DEF TaskTyped
<1>8. TaskSet(lm, k, new, lm.views, lm.running, lm.memo, lm')
  BY <1>1, <1>5, <1>6, <1>7, TaskSteps
<1>9. store' = store /\ up' = up /\ lost' = lost
  BY DEF MemoMiss
<1>10. OthersStay(k)
  BY <1>8, <1>9 DEF TaskSet, OthersStay, LiveTyped
<1> QED
  BY <1>1, <1>6, <1>8, <1>9, <1>10 DEF TaskSet, ThreadGoesOn

LEMMA MemoWriteEffects ==
  ASSUME LiveTyped, NEW k \in 1..Threads, MemoWrite(k)
  PROVE  /\ ThreadGoesOn(k)
         /\ \E t \in Traces :
              /\ lm'.memo = [lm.memo EXCEPT ![t] = lm.tasks[k].snap[t]]
              /\ Shows(lm.tasks[k], lm'.tasks[k], t, lm.tasks[k].snap[t])
<1> DEFINE old == lm.tasks[k]
           t == old.missed
           at == old.snap[t]
           memo == [lm.memo EXCEPT ![t] = at]
           new == [Built(old, t, at) EXCEPT !.missed = None]
<1>1. Typed(lm) /\ lm \in Managers /\ old.stage = "thread"
  BY DEF LiveTyped, Typed, MemoWrite, InThread
<1>2. old \in TaskRows /\ old.view \in Views /\ old.snap \in Snapshots
  BY <1>1, TaskHere DEF TaskTyped
<1>3. t \in Traces
  BY <1>2 DEF MemoWrite, TaskRows
<1>4. at \in Versions /\ memo \in Snapshots
  BY <1>1, <1>2, <1>3 DEF Managers, Snapshots
<1>5. lm' = [lm EXCEPT !.memo = memo, !.tasks = [lm.tasks EXCEPT ![k] = new]]
  <2>1. lm' = [lm EXCEPT !.memo[t] = at, !.tasks[k] = new]
    BY DEF MemoWrite
  <2> HIDE DEF t, at, new
  <2> QED
    BY <1>1, <2>1 DEF Managers
<1> HIDE DEF memo, at, t
<1>6. ShowsTo(lm, k, t, at, memo, lm')
  BY <1>1, <1>3, <1>4, <1>5, ThreadShows
<1>7. store' = store /\ up' = up /\ lost' = lost
  BY DEF MemoWrite
<1> HIDE DEF new
<1>8. OthersStay(k)
  BY <1>6, <1>7 DEF ShowsTo, OthersStay, LiveTyped
<1>9. ThreadGoesOn(k)
  BY <1>1, <1>6, <1>7, <1>8 DEF ShowsTo, ThreadGoesOn
<1> QED
  BY <1>3, <1>6, <1>9 DEF ShowsTo, memo, at, t

\* What the end of a task leaves.
Ends(k) ==
  /\ OthersStay(k) /\ lm'.memo = lm.memo /\ lm'.tasks[k] = NoTask
  /\ \A i \in Ids : lm'.running[i] = IF lm.running[i] = k THEN None ELSE lm.running[i]

LEMMA FinishEffects ==
  ASSUME LiveTyped, NEW k \in 1..Threads, Finish(k)
  PROVE  LET old == lm.tasks[k]
             i == old.id
         IN  /\ Ends(k) /\ lost' = lost
             /\ old.stage = "thread" /\ old.view \in Views /\ old.todo = {}
             /\ \/ /\ i = None \/ ~SameSession(i, old.view)
                   /\ lm'.views = lm.views /\ lm'.watchers = lm.watchers
                \/ /\ i \in Ids /\ SameSession(i, old.view)
                   /\ lm'.views = [lm.views EXCEPT ![i] = old.view]
                   /\ \A w \in Watchers :
                        LET was == lm.watchers[w]
                            is == lm'.watchers[w]
                        IN  /\ is.state = was.state /\ is.seen = was.seen
                            /\ was.state # "open" => is = was
                            /\ was.state = "open" =>
                                 \A j \in Ids : Queued(is.queue, j) =
                                   IF j = i THEN {old.view} ELSE Queued(was.queue, j)
<1> DEFINE old == lm.tasks[k]
           i == old.id
           ended == Ended(lm, k)
<1>1. Typed(lm) /\ old.stage = "thread" /\ old.todo = {}
  BY DEF LiveTyped, Finish, InThread
<1>2. old.view \in Views /\ i \in Ids \cup {None}
  BY <1>1, TaskHere DEF TaskTyped, TaskRows
<1>3. /\ Typed(ended) /\ ended.views = lm.views /\ ended.memo = lm.memo
      /\ ended.pending = lm.pending /\ ended.watchers = lm.watchers
      /\ \A j \in Ids : ended.running[j] = IF lm.running[j] = k THEN None ELSE lm.running[j]
      /\ ended.tasks[k] = NoTask /\ \A j \in (1..Threads) \ {k} : ended.tasks[j] = lm.tasks[j]
  BY <1>1, EndedSteps
<1>4. store' = store /\ up' = up /\ lost' = lost
  BY DEF Finish
<1>5. CASE i = None \/ ~SameSession(i, old.view)
  <2>1. lm' = ended
    BY <1>5 DEF Finish
  <2> HIDE DEF ended
  <2>2. Ends(k)
    BY <1>3, <1>4, <2>1 DEF Ends, OthersStay, LiveTyped
  <2> QED
    BY <1>1, <1>2, <1>3, <1>4, <1>5, <2>1, <2>2
<1>6. CASE i # None /\ SameSession(i, old.view)
  <2> DEFINE bodies == [id \in {i} |-> old.view]
             shown == [ended EXCEPT !.views = [ended.views EXCEPT ![i] = old.view]]
  <2>1. i \in Ids
    BY <1>2, <1>6
  <2>2. lm' = Publish(shown, bodies)
    <3>1. lm' = Publish([Ended(lm, k) EXCEPT !.views[i] = old.view], bodies)
      BY <1>6 DEF Finish
    <3> QED
      BY <3>1
  <2> HIDE DEF ended
  <2>3. ended \in Managers /\ ended.views \in [Ids -> Views \cup {None}]
    BY <1>3 DEF Typed, Managers
  <2>4. /\ shown \in Managers /\ shown.views = [lm.views EXCEPT ![i] = old.view]
        /\ shown.memo = ended.memo /\ shown.pending = ended.pending
        /\ shown.watchers = ended.watchers /\ shown.running = ended.running
        /\ shown.tasks = ended.tasks
    BY <1>2, <1>3, <2>1, <2>3 DEF Managers
  <2> HIDE DEF shown
  <2>5. Typed(shown)
    BY <1>3, <2>4 DEF Typed
  <2>6. /\ bodies \in [{i} -> Bodies] /\ bodies[i] = old.view /\ {i} \in SUBSET Ids
    BY <1>2, <2>1 DEF Bodies
  <2> HIDE DEF bodies
  <2>7. Tells(shown, {i}, bodies, lm')
    BY <2>2, <2>5, <2>6, PublishTells
  <2>8. Ends(k)
    BY <1>3, <1>4, <2>4, <2>7 DEF Tells, Ends, OthersStay, LiveTyped, Manages
  <2>9. \A w \in Watchers :
          LET was == lm.watchers[w]
              is == lm'.watchers[w]
          IN  /\ is.state = was.state /\ is.seen = was.seen
              /\ was.state # "open" => is = was
              /\ was.state = "open" =>
                   \A j \in Ids : Queued(is.queue, j) =
                     IF j = i THEN {old.view} ELSE Queued(was.queue, j)
    <3> TAKE w \in Watchers
    <3>1. shown.watchers[w] = lm.watchers[w]
      BY <1>3, <2>4
    <3>2. bodies[i] = old.view
      BY <2>6
    <3> QED
      BY <2>7, <3>1, <3>2 DEF Tells
  <2>10. lm'.views = [lm.views EXCEPT ![i] = old.view]
    BY <2>4, <2>7 DEF Tells, Manages
  <2> QED
    BY <1>1, <1>2, <1>4, <1>6, <2>1, <2>8, <2>9, <2>10
<1> QED
  BY <1>5, <1>6

LEMMA FailureEffects ==
  ASSUME LiveTyped, NEW k \in 1..Threads, RecomputeFails(k)
  PROVE  /\ Ends(k) /\ lm'.views = lm.views /\ lm'.watchers = lm.watchers
         /\ lm.tasks[k].stage = "thread"
         /\ lost' = lost \cup ({lm.tasks[k].id} \ ({None} \cup lm.pending))
<1> DEFINE ended == Ended(lm, k)
<1>1. Typed(lm)
  BY DEF LiveTyped
<1>2. /\ Typed(ended) /\ ended.views = lm.views /\ ended.memo = lm.memo
      /\ ended.pending = lm.pending /\ ended.watchers = lm.watchers
      /\ \A j \in Ids : ended.running[j] = IF lm.running[j] = k THEN None ELSE lm.running[j]
      /\ ended.tasks[k] = NoTask /\ \A j \in (1..Threads) \ {k} : ended.tasks[j] = lm.tasks[j]
  BY <1>1, EndedSteps
<1>3. /\ lm' = ended /\ store' = store /\ up' = up /\ lm.tasks[k].stage = "thread"
      /\ lost' = lost \cup ({lm.tasks[k].id} \ ({None} \cup lm.pending))
  BY DEF RecomputeFails, InThread
<1> HIDE DEF ended
<1>4. lm.tasks[k].id \in Ids \cup {None}
  BY <1>1, TaskHere DEF TaskRows
<1>5. lost' \subseteq Ids
  BY <1>3, <1>4 DEF LiveTyped
<1>6. Ends(k)
  BY <1>2, <1>3, <1>5 DEF Ends, OthersStay, LiveTyped
<1> QED
  BY <1>2, <1>3, <1>6

-----------------------------------------------------------------------------
(* Watchers, the start of recomputes, and the end.                         *)

LEMMA WatcherSteps ==
  ASSUME NEW m, Typed(m), NEW w \in Watchers, NEW row \in WatcherRows, WatcherTyped(row)
  PROVE  LET p == [m EXCEPT !.watchers = [m.watchers EXCEPT ![w] = row]]
         IN  /\ Typed(p) /\ Manages(p, m)
             /\ p.watchers[w] = row /\ \A x \in Watchers \ {w} : p.watchers[x] = m.watchers[x]
<1> DEFINE p == [m EXCEPT !.watchers = [m.watchers EXCEPT ![w] = row]]
<1>1. m \in Managers
  BY DEF Typed
<1>2. /\ p \in Managers /\ Manages(p, m)
      /\ p.watchers[w] = row /\ \A x \in Watchers \ {w} : p.watchers[x] = m.watchers[x]
  BY <1>1 DEF Managers, Manages
<1> HIDE DEF p
<1>3. Typed(p)
  BY <1>2 DEF Typed, Manages
<1> QED
  BY <1>2, <1>3 DEF p

\* What the steps of a watcher leave alone.
ManagerStays(w) ==
  /\ LiveTyped' /\ UNCHANGED <<store, up, lost>>
  /\ lm'.views = lm.views /\ lm'.pending = lm.pending /\ lm'.running = lm.running
  /\ lm'.tasks = lm.tasks /\ lm'.memo = lm.memo
  /\ \A x \in Watchers \ {w} : lm'.watchers[x] = lm.watchers[x]

LEMMA WatcherHere ==
  ASSUME NEW m, Typed(m), NEW w \in Watchers
  PROVE  /\ m.watchers[w] \in WatcherRows /\ WatcherTyped(m.watchers[w])
         /\ m.watchers[w].queue \in Seq(QueueEvents) /\ m.watchers[w].seen \in [Ids -> Bodies]
BY DEF Typed, Managers, WatcherRows

LEMMA UnreadHasNothing == Unread \in [Ids -> Bodies] /\ \A i \in Ids : Unread[i] = None
BY DEF Unread, Bodies

LEMMA SubscribeEffects ==
  ASSUME LiveTyped, NEW w \in Watchers, Subscribe(w)
  PROVE  /\ ManagerStays(w) /\ lm.watchers[w].state = "none" /\ lm'.watchers[w].state = "open"
         /\ \A i \in Ids :
              /\ lm.watchers[w].seen[i] = None /\ lm'.watchers[w].seen[i] = None
              /\ Queued(lm'.watchers[w].queue, i) =
                   IF i \notin Live(store) THEN {}
                   ELSE {IF lm.views[i] # None THEN lm.views[i] ELSE Summary(store, i)}
<1> DEFINE old == lm.watchers[w]
           bodies == [i \in Live(store) |-> Shown(lm, store, i)]
           synced == [key |-> None, body |-> None]
           first == Events(bodies)
           queue == Append(first, synced)
           row == [old EXCEPT !.state = "open", !.queue = queue]
<1>1. Typed(lm) /\ lm \in Managers /\ store \in Stores /\ None \notin Ids
  BY LiveAssumption DEF LiveTyped, Typed
<1>2. old \in WatcherRows /\ WatcherTyped(old) /\ old.state = "none" /\ old.seen = Unread
  BY <1>1, WatcherHere DEF Subscribe, WatcherTyped
<1>3. \A i \in Ids : Shown(lm, store, i) = IF lm.views[i] # None THEN lm.views[i]
                                           ELSE Summary(store, i)
  BY DEF Shown, Summary
<1>4. Live(store) \in SUBSET Ids /\ bodies \in [Live(store) -> Bodies]
  <2>1. \A i \in Ids : Summary(store, i) \in Views /\ lm.views[i] \in Views \cup {None}
    BY <1>1, SummaryIsAView DEF Managers
  <2>2. \A i \in Ids : Shown(lm, store, i) \in Bodies
    BY <1>3, <2>1 DEF Bodies
  <2> QED
    BY <2>2 DEF Live
<1>5. \A i \in Live(store) : bodies[i] = Shown(lm, store, i)
  OBVIOUS
<1> HIDE DEF bodies
<1>6. /\ first \in Seq(QueueEvents) /\ UniqueKeys(first)
      /\ ToSet(first) = {[key |-> i, body |-> bodies[i]] : i \in Live(store)}
  BY <1>4, EventsAreAll
<1> HIDE DEF first
<1>7. synced \in QueueEvents /\ synced.key = None
  BY DEF QueueEvents, Bodies
<1> HIDE DEF synced
<1>8. \A d \in ToSet(first) : d.key # synced.key
  BY <1>1, <1>4, <1>6, <1>7
<1>9. /\ queue \in Seq(QueueEvents) /\ UniqueKeys(queue)
      /\ ToSet(queue) = ToSet(first) \cup {synced}
  BY <1>6, <1>7, <1>8, QueueGrows
<1>10. ASSUME NEW i \in Ids
       PROVE  Queued(queue, i) = IF i \notin Live(store) THEN {}
                                 ELSE {IF lm.views[i] # None THEN lm.views[i] ELSE Summary(store, i)}
  <2>1. Queued(queue, i) = {e.body : e \in {d \in ToSet(queue) : d.key = i}}
    BY QueuedInSet
  <2>2. i # None
    BY <1>1
  <2>3. CASE i \notin Live(store)
    <3>1. {d \in ToSet(queue) : d.key = i} = {}
      BY <1>6, <1>7, <1>9, <2>2, <2>3
    <3> QED
      BY <2>1, <2>3, <3>1
  <2>4. CASE i \in Live(store)
    <3> DEFINE event == [key |-> i, body |-> bodies[i]]
    <3>1. event.key = i /\ event.body = bodies[i]
      OBVIOUS
    <3>2. {d \in ToSet(queue) : d.key = i} = {event}
      BY <1>6, <1>7, <1>9, <2>2, <2>4
    <3> HIDE DEF event
    <3>3. {e.body : e \in {event}} = {bodies[i]}
      BY <3>1
    <3> QED
      BY <1>3, <1>5, <2>1, <2>4, <3>2, <3>3
  <2> QED
    BY <2>3, <2>4
<1> HIDE DEF queue
<1>11. lm' = [lm EXCEPT !.watchers = [lm.watchers EXCEPT ![w] = row]]
  BY <1>1 DEF Subscribe, bodies, first, queue, synced, Managers
<1>12. /\ row \in WatcherRows /\ row.state = "open" /\ row.queue = queue /\ row.seen = Unread
  BY <1>2, <1>9 DEF WatcherRows
<1> HIDE DEF row
<1>13. WatcherTyped(row)
  BY <1>9, <1>12 DEF WatcherTyped
<1>14. /\ Typed(lm') /\ Manages(lm', lm)
       /\ lm'.watchers[w] = row /\ \A x \in Watchers \ {w} : lm'.watchers[x] = lm.watchers[x]
  BY <1>1, <1>11, <1>12, <1>13, WatcherSteps
<1>15. store' = store /\ up' = up /\ lost' = lost
  BY DEF Subscribe
<1>16. ManagerStays(w)
  BY <1>14, <1>15 DEF ManagerStays, LiveTyped, Manages
<1> QED
  BY <1>2, <1>10, <1>12, <1>14, <1>16, UnreadHasNothing

LEMMA TailLeaves ==
  ASSUME NEW q \in Seq(QueueEvents), q # << >>, UniqueKeys(q)
  PROVE  /\ Head(q) \in QueueEvents /\ Tail(q) \in Seq(QueueEvents) /\ UniqueKeys(Tail(q))
         /\ ToSet(q) = ToSet(Tail(q)) \cup {Head(q)}
         /\ \A d \in ToSet(Tail(q)) : d.key # Head(q).key
<1> DEFINE r == Tail(q)
<1>1. /\ Len(q) \in Nat /\ Len(q) >= 1 /\ DOMAIN q = 1..Len(q) /\ Head(q) = q[1]
      /\ r \in Seq(QueueEvents) /\ Len(r) = Len(q) - 1 /\ DOMAIN r = 1..(Len(q) - 1)
      /\ \A j \in 1..(Len(q) - 1) : r[j] = q[j + 1] /\ j + 1 \in 1..Len(q)
      /\ \A j \in 1..Len(q) : q[j] \in QueueEvents
  OBVIOUS
<1> HIDE DEF r
<1>2. \A j \in 1..Len(q) : j = 1 \/ (j - 1 \in 1..(Len(q) - 1) /\ (j - 1) + 1 = j)
  BY <1>1
<1>3. UniqueKeys(r)
  <2> SUFFICES ASSUME NEW j \in 1..(Len(q) - 1), NEW n \in 1..(Len(q) - 1), r[j].key = r[n].key
               PROVE  j = n
    BY <1>1 DEF UniqueKeys
  <2>1. j + 1 \in DOMAIN q /\ n + 1 \in DOMAIN q /\ q[j + 1].key = q[n + 1].key
    BY <1>1
  <2>2. j + 1 = n + 1
    BY <2>1 DEF UniqueKeys
  <2> QED
    BY <2>2
<1>4. 1 \in 1..Len(q)
  BY <1>1
<1>5. ToSet(q) = ToSet(r) \cup {Head(q)}
  <2>1. ASSUME NEW e \in ToSet(q) PROVE e \in ToSet(r) \cup {Head(q)}
    <3>1. PICK j \in 1..Len(q) : q[j] = e
      BY <1>1 DEF ToSet
    <3>2. CASE j = 1
      BY <1>1, <3>1, <3>2
    <3>3. CASE j # 1
      <4>1. r[j - 1] = e /\ j - 1 \in DOMAIN r
        BY <1>1, <1>2, <3>1, <3>3
      <4> QED
        BY <4>1 DEF ToSet
    <3> QED
      BY <3>2, <3>3
  <2>2. ASSUME NEW e \in ToSet(r) \cup {Head(q)} PROVE e \in ToSet(q)
    <3>1. CASE e = Head(q)
      BY <1>1, <1>4, <3>1 DEF ToSet
    <3>2. CASE e \in ToSet(r)
      <4>1. PICK j \in 1..(Len(q) - 1) : r[j] = e
        BY <1>1, <3>2 DEF ToSet
      <4>2. j + 1 \in 1..Len(q) /\ q[j + 1] = e
        BY <1>1, <4>1
      <4> QED
        BY <1>1, <4>2 DEF ToSet
    <3> QED
      BY <2>2, <3>1, <3>2
  <2> QED
    BY <2>1, <2>2
<1>6. \A d \in ToSet(r) : d.key # Head(q).key
  <2> SUFFICES ASSUME NEW j \in 1..(Len(q) - 1) PROVE r[j].key # Head(q).key
    BY <1>1 DEF ToSet
  <2>1. j + 1 \in 1..Len(q) /\ j + 1 # 1 /\ r[j] = q[j + 1]
    BY <1>1
  <2> QED
    BY <1>1, <1>4, <2>1 DEF UniqueKeys
<1> QED
  BY <1>1, <1>3, <1>4, <1>5, <1>6 DEF r

LEMMA ReadEffects ==
  ASSUME LiveTyped, NEW w \in Watchers, Read(w)
  PROVE  LET old == lm.watchers[w]
             new == lm'.watchers[w]
         IN  /\ ManagerStays(w) /\ new.state = old.state
             /\ \A i \in Ids :
                  \/ /\ Queued(old.queue, i) = {new.seen[i]} /\ Queued(new.queue, i) = {}
                  \/ /\ Queued(old.queue, i) = Queued(new.queue, i) /\ new.seen[i] = old.seen[i]
<1> DEFINE old == lm.watchers[w]
           event == Head(old.queue)
           queue == Tail(old.queue)
           seen == [i \in Ids |-> IF i = event.key THEN event.body ELSE old.seen[i]]
           row == [old EXCEPT !.queue = queue, !.seen = seen]
<1>1. Typed(lm) /\ lm \in Managers /\ None \notin Ids
  BY LiveAssumption DEF LiveTyped, Typed
<1>2. /\ old \in WatcherRows /\ WatcherTyped(old) /\ old.queue \in Seq(QueueEvents)
      /\ old.seen \in [Ids -> Bodies] /\ old.queue # << >> /\ UniqueKeys(old.queue)
      /\ old.state # "none"
  BY <1>1, WatcherHere DEF Read, WatcherTyped
<1>3. lm' = [lm EXCEPT !.watchers = [lm.watchers EXCEPT ![w] = row]]
  <2>1. lm' = [lm EXCEPT !.watchers[w].queue = Tail(@),
                         !.watchers[w].seen = [i \in Ids |-> IF i = event.key THEN event.body ELSE @[i]]]
    BY DEF Read
  <2> QED
    BY <1>1, <1>2, <2>1 DEF Managers, WatcherRows
<1>4. /\ event \in QueueEvents /\ queue \in Seq(QueueEvents) /\ UniqueKeys(queue)
      /\ ToSet(old.queue) = ToSet(queue) \cup {event}
      /\ \A d \in ToSet(queue) : d.key # event.key
  BY <1>2, TailLeaves
<1> HIDE DEF event, queue, old
<1>5. /\ seen \in [Ids -> Bodies]
      /\ \A i \in Ids : seen[i] = IF i = event.key THEN event.body ELSE old.seen[i]
  BY <1>2, <1>4 DEF QueueEvents
<1> HIDE DEF seen
<1>6. row \in WatcherRows /\ row.state = old.state /\ row.queue = queue /\ row.seen = seen
  BY <1>2, <1>4, <1>5 DEF WatcherRows
<1> HIDE DEF row
<1>7. WatcherTyped(row)
  BY <1>2, <1>4, <1>6 DEF WatcherTyped
<1>8. /\ Typed(lm') /\ Manages(lm', lm)
      /\ lm'.watchers[w] = row /\ \A x \in Watchers \ {w} : lm'.watchers[x] = lm.watchers[x]
  BY <1>1, <1>3, <1>6, <1>7, WatcherSteps
<1>9. store' = store /\ up' = up /\ lost' = lost
  BY DEF Read
<1>10. ManagerStays(w)
  BY <1>8, <1>9 DEF ManagerStays, LiveTyped, Manages
<1>11. ASSUME NEW i \in Ids
       PROVE  \/ /\ Queued(old.queue, i) = {seen[i]} /\ Queued(queue, i) = {}
              \/ /\ Queued(old.queue, i) = Queued(queue, i) /\ seen[i] = old.seen[i]
  <2>1. /\ Queued(old.queue, i) = {e.body : e \in {d \in ToSet(old.queue) : d.key = i}}
        /\ Queued(queue, i) = {e.body : e \in {d \in ToSet(queue) : d.key = i}}
    BY QueuedInSet
  <2>2. CASE event.key = i
    <3>1. /\ {d \in ToSet(old.queue) : d.key = i} = {event}
          /\ {d \in ToSet(queue) : d.key = i} = {}
      BY <1>4, <2>2
    <3>2. {e.body : e \in {event}} = {event.body}
      OBVIOUS
    <3> QED
      BY <1>5, <2>1, <2>2, <3>1, <3>2
  <2>3. CASE event.key # i
    <3>1. {d \in ToSet(old.queue) : d.key = i} = {d \in ToSet(queue) : d.key = i}
      BY <1>4, <2>3
    <3> QED
      BY <1>5, <2>1, <2>3, <3>1
  <2> QED
    BY <2>2, <2>3
<1> QED
  BY <1>6, <1>8, <1>10, <1>11 DEF old

LEMMA UnsubscribeEffects ==
  ASSUME LiveTyped, NEW w \in Watchers, Unsubscribe(w)
  PROVE  /\ ManagerStays(w) /\ lm'.watchers[w].state = "none"
         /\ \A i \in Ids : /\ lm'.watchers[w].seen[i] = None
                           /\ Queued(lm'.watchers[w].queue, i) = {}
<1> DEFINE row == [state |-> "none", queue |-> << >>, seen |-> Unread]
<1>1. Typed(lm) /\ lm \in Managers
  BY DEF LiveTyped, Typed
<1>2. row \in WatcherRows /\ WatcherTyped(row)
  BY UnreadHasNothing DEF WatcherRows, WatcherTyped, UniqueKeys
<1>3. lm' = [lm EXCEPT !.watchers = [lm.watchers EXCEPT ![w] = row]]
  BY <1>1 DEF Unsubscribe, Managers
<1>4. row.state = "none" /\ row.queue = << >> /\ row.seen = Unread
  OBVIOUS
<1> HIDE DEF row
<1>5. /\ Typed(lm') /\ Manages(lm', lm)
      /\ lm'.watchers[w] = row /\ \A x \in Watchers \ {w} : lm'.watchers[x] = lm.watchers[x]
  BY <1>1, <1>2, <1>3, WatcherSteps
<1>6. store' = store /\ up' = up /\ lost' = lost
  BY DEF Unsubscribe
<1>7. ManagerStays(w)
  BY <1>5, <1>6 DEF ManagerStays, LiveTyped, Manages
<1>8. \A i \in Ids : Queued(<< >>, i) = {}
  BY DEF Queued
<1> QED
  BY <1>4, <1>5, <1>7, <1>8, UnreadHasNothing

LEMMA ShutdownEffects ==
  ASSUME LiveTyped, Shutdown
  PROVE  /\ LiveTyped' /\ UNCHANGED <<store, lost>> /\ up' = FALSE
         /\ lm'.views = lm.views /\ lm'.memo = lm.memo /\ lm'.pending = lm.pending
         /\ \A i \in Ids : lm'.running[i] = None
         /\ \A k \in 1..Threads : lm'.tasks[k] =
              IF \E i \in Ids : lm.running[i] = k THEN Cancelled(lm.tasks[k]) ELSE lm.tasks[k]
         /\ \A w \in Watchers :
              /\ lm'.watchers[w].queue = lm.watchers[w].queue
              /\ lm'.watchers[w].seen = lm.watchers[w].seen
              /\ lm'.watchers[w].state # "open"
<1>1. Typed(lm) /\ lm \in Managers
  BY DEF LiveTyped, Typed
<1> DEFINE R == [i \in Ids |-> None]
           K(k) == IF \E i \in Ids : lm.running[i] = k THEN Cancelled(lm.tasks[k]) ELSE lm.tasks[k]
           W(w) == [lm.watchers[w] EXCEPT !.state = IF lm.watchers[w].state = "open" THEN "closed"
                                                    ELSE lm.watchers[w].state]
<1>2. ASSUME NEW k \in 1..Threads PROVE K(k) \in TaskRows /\ TaskTyped(K(k))
  <2> DEFINE task == lm.tasks[k]
  <2>1. task \in TaskRows /\ TaskTyped(task)
    BY <1>1, TaskHere
  <2> HIDE DEF task
  <2>2. Cancelled(task) \in TaskRows
    BY <2>1, NoTaskTyped DEF Cancelled, TaskRows
  <2>3. TaskTyped(Cancelled(task))
    BY <2>1, NoTaskTyped DEF Cancelled, TaskTyped, TaskRows
  <2> QED
    BY <2>1, <2>2, <2>3 DEF task
<1>3. ASSUME NEW w \in Watchers
      PROVE  /\ W(w) \in WatcherRows /\ WatcherTyped(W(w)) /\ W(w).state # "open"
             /\ W(w).queue = lm.watchers[w].queue /\ W(w).seen = lm.watchers[w].seen
  <2> DEFINE old == lm.watchers[w]
  <2>1. old \in WatcherRows /\ WatcherTyped(old)
    BY <1>1, WatcherHere
  <2> HIDE DEF old
  <2>2. W(w) = [old EXCEPT !.state = IF old.state = "open" THEN "closed" ELSE old.state]
    BY DEF old
  <2> HIDE DEF W
  <2>3. /\ W(w) \in WatcherRows /\ W(w).state # "open" /\ W(w).queue = old.queue
        /\ W(w).seen = old.seen
        /\ W(w).state = "none" => old.state = "none"
    BY <2>1, <2>2 DEF WatcherRows
  <2>4. WatcherTyped(W(w))
    BY <2>1, <2>3 DEF WatcherTyped
  <2> QED
    BY <2>3, <2>4 DEF old
<1>4. lm' = [lm EXCEPT !.watchers = [w \in Watchers |-> W(w)],
                       !.tasks = [k \in 1..Threads |-> K(k)], !.running = R]
  BY <1>1 DEF Shutdown, Closed, Managers, Unread
<1> HIDE DEF W, K
<1>5. /\ [w \in Watchers |-> W(w)] \in [Watchers -> WatcherRows]
      /\ [k \in 1..Threads |-> K(k)] \in [1..Threads -> TaskRows]
      /\ R \in [Ids -> (1..Threads) \cup {None}]
  BY <1>2, <1>3
<1>6. /\ lm' \in Managers /\ lm'.views = lm.views /\ lm'.memo = lm.memo
      /\ lm'.pending = lm.pending /\ \A i \in Ids : lm'.running[i] = None
      /\ \A k \in 1..Threads : lm'.tasks[k] = K(k)
      /\ \A w \in Watchers : lm'.watchers[w] = W(w)
  BY <1>1, <1>4, <1>5 DEF Managers
<1>7. Typed(lm')
  BY <1>2, <1>3, <1>6 DEF Typed
<1>8. store' = store /\ lost' = lost /\ up' = FALSE
  BY DEF Shutdown
<1>9. LiveTyped'
  BY <1>7, <1>8 DEF LiveTyped
<1> QED
  BY <1>3, <1>6, <1>8, <1>9 DEF K

LEMMA StartEffects ==
  ASSUME NEW m, Typed(m), NEW S \in SUBSET Ids, NEW slot \in Injection(S, Slots(m))
  PROVE  LET p == Start(m, slot)
         IN  /\ Typed(p) /\ p.views = m.views /\ p.memo = m.memo /\ p.watchers = m.watchers
             /\ p.pending = m.pending \ S
             /\ \A i \in Ids : p.running[i] = IF i \in S THEN slot[i] ELSE m.running[i]
             /\ \A i \in S : /\ slot[i] \in 1..Threads /\ m.tasks[slot[i]].stage = "free"
                             /\ p.tasks[slot[i]].stage = "created" /\ p.tasks[slot[i]].id = i
             /\ \A k \in 1..Threads : (\A i \in S : slot[i] # k) => p.tasks[k] = m.tasks[k]
<1>1. m \in Managers
  BY DEF Typed
<1>2. /\ slot \in [S -> Slots(m)] /\ DOMAIN slot = S
      /\ \A i, j \in S : slot[i] = slot[j] => i = j
  BY DEF Injection, IsInjective
<1>3. \A k \in Slots(m) : k \in 1..Threads /\ m.tasks[k].stage = "free"
  BY <1>1 DEF Slots, Managers
<1> DEFINE New(i) == [NoTask EXCEPT !.stage = "created", !.id = i]
           R == [i \in Ids |-> IF i \in S THEN slot[i] ELSE m.running[i]]
           K == [k \in 1..Threads |-> IF \E i \in S : slot[i] = k
                                      THEN New(CHOOSE i \in S : slot[i] = k) ELSE m.tasks[k]]
           p == Start(m, slot)
<1>4. ASSUME NEW i \in S
      PROVE  /\ New(i) \in TaskRows /\ TaskTyped(New(i))
             /\ New(i).stage = "created" /\ New(i).id = i
  BY DEF NoTask, TaskRows, TaskTyped
<1>5. p = [m EXCEPT !.pending = m.pending \ S, !.running = R, !.tasks = K]
  <2>1. /\ \A i \in Ids : (IF i \in DOMAIN slot THEN slot[i] ELSE m.running[i]) = R[i]
        /\ DOMAIN m.tasks = 1..Threads
    BY <1>1, <1>2 DEF Managers
  <2> QED
    BY <1>1, <1>2, <2>1 DEF Start, Managers
<1> HIDE DEF New
<1>6. \A i \in S : slot[i] \in 1..Threads /\ m.tasks[slot[i]].stage = "free"
  BY <1>2, <1>3
<1>7. \A i \in S : K[slot[i]] = New(i)
  <2> TAKE i \in S
  <2>1. (CHOOSE j \in S : slot[j] = slot[i]) = i
    BY <1>2
  <2> QED
    BY <1>6, <2>1
<1>8. \A k \in 1..Threads : (\A i \in S : slot[i] # k) => K[k] = m.tasks[k]
  OBVIOUS
<1>9. \A k \in 1..Threads : K[k] \in TaskRows /\ TaskTyped(K[k])
  <2> TAKE k \in 1..Threads
  <2>1. CASE \E i \in S : slot[i] = k
    BY <1>4, <1>7, <2>1
  <2>2. CASE \A i \in S : slot[i] # k
    BY <1>8, <2>2, TaskHere
  <2> QED
    BY <2>1, <2>2
<1>10. K \in [1..Threads -> TaskRows]
  BY <1>9
<1>11. /\ R \in [Ids -> (1..Threads) \cup {None}]
       /\ \A i \in Ids : R[i] = IF i \in S THEN slot[i] ELSE m.running[i]
  BY <1>1, <1>6 DEF Managers
<1> HIDE DEF R, K, p
<1>12. /\ p \in Managers /\ p.pending = m.pending \ S /\ p.running = R /\ p.tasks = K
       /\ p.views = m.views /\ p.memo = m.memo /\ p.watchers = m.watchers
  BY <1>1, <1>5, <1>10, <1>11 DEF Managers
<1>13. Typed(p)
  BY <1>9, <1>12 DEF Typed
<1> QED
  BY <1>4, <1>6, <1>7, <1>8, <1>11, <1>12, <1>13 DEF p

-----------------------------------------------------------------------------
(* The store's handlers and ticks, in the terms above.                     *)

StoreCall ==
  \E started, removed, dirty \in SUBSET Ids :
    /\ Changes(store, store', started, removed, dirty)
    /\ lm' = Drain(lm, store', started, removed, dirty)
    /\ lost' = lost \ (removed \cup dirty) /\ up' = up

\* What asks for a recompute before the events of a tick are applied.
Asked(m, done) == [m EXCEPT !.pending = m.pending \cup done]

TickCall ==
  \E done, gone, starting \in SUBSET Ids :
    LET drained == Drain(Asked(lm, done), store', {}, gone, {})
    IN  /\ Changes(store, store', {}, gone, done) /\ done \cap gone = {}
        /\ starting \subseteq {i \in drained.pending : drained.running[i] = None}
        /\ \E slot \in Injection(starting, Slots(drained)) : lm' = Start(drained, slot)
        /\ lost' = lost \ (gone \cup done) /\ up' = up

LEMMA IngestCalls ==
  ASSUME LiveTyped, NEW t \in Traces, NEW i \in Ids, NEW gone \in SUBSET Complete(store),
         Ingest(t, i, gone)
  PROVE  StoreCall
<1> DEFINE r == Grown(Begun(Dropped(store, gone), i), t, i)
           started == {i} \ Live(store)
<1>1. /\ store \in Stores /\ gone \in SUBSET (Ids \ {i}) /\ gone \in SUBSET Ids
      /\ store.traces[t].session \in {None, i} /\ Room(store, t) /\ Usable(store, i)
  BY DEF Ingest, LiveTyped, Complete, Live
<1>2. Changes(store, r, started, gone, {i})
  BY <1>1, IngestChanges
<1>3. /\ store' = r /\ lm' = Drain(lm, r, started, gone, {i})
      /\ lost' = lost \ (gone \cup {i}) /\ up' = up
  BY DEF Ingest, Applied
<1> HIDE DEF r
<1>4. started \in SUBSET Ids /\ {i} \in SUBSET Ids
  OBVIOUS
<1> QED
  BY <1>1, <1>2, <1>3, <1>4 DEF StoreCall

LEMMA PromotionCalls ==
  ASSUME LiveTyped, NEW t \in Traces, NEW i \in Ids, IngestPromotes(t, i)
  PROVE  StoreCall
<1> DEFINE source == store.traces[t].session
           r == Grown(Absorbed(Begun(store, i), source, i), t, i)
           started == {i} \ Live(store)
<1>1. /\ store \in Stores /\ source \in Ids /\ source \notin {None, i}
      /\ Room(store, t) /\ Usable(store, i)
  BY DEF IngestPromotes, LiveTyped, Stores, TraceRows
<1>2. Changes(store, r, started, {source}, {i})
  BY <1>1, PromotionChanges
<1>3. /\ store' = r /\ lm' = Drain(lm, r, started, {source}, {i})
      /\ lost' = lost \ ({source} \cup {i}) /\ up' = up
  BY DEF IngestPromotes, Applied
<1> HIDE DEF r, source
<1>4. started \in SUBSET Ids /\ {i} \in SUBSET Ids /\ {source} \in SUBSET Ids
  BY <1>1
<1> QED
  BY <1>2, <1>3, <1>4 DEF StoreCall

LEMMA LoadCalls ==
  ASSUME LiveTyped, NEW t \in Traces, NEW i \in Ids, NEW gone \in SUBSET Complete(store),
         LoadSession(t, i, gone)
  PROVE  StoreCall
<1> DEFINE left == Dropped(store, gone)
           filled == Grown(Begun(left, i), t, i)
           r == [filled EXCEPT !.sessions[i].complete = TRUE]
<1>1. /\ store \in Stores /\ gone \in SUBSET Ids
      /\ i \notin Live(left) /\ Usable(left, i) /\ t \notin Known(left) /\ Room(left, t)
  BY DEF LoadSession, LiveTyped, Complete, Live
<1>2. Changes(store, r, {i}, gone, {i})
  BY <1>1, LoadChanges
<1>3. /\ store' = r /\ lm' = Drain(lm, r, {i}, gone, {i})
      /\ lost' = lost \ (gone \cup {i}) /\ up' = up
  BY DEF LoadSession, Applied
<1> HIDE DEF r
<1>4. {i} \in SUBSET Ids
  OBVIOUS
<1> QED
  BY <1>1, <1>2, <1>3, <1>4 DEF StoreCall

LEMMA TickCalls ==
  ASSUME LiveTyped, NEW done \in SUBSET Ids, NEW gone \in SUBSET Ids, NEW due \in SUBSET Ids,
         Tick(done, gone, due)
  PROVE  TickCall
<1> DEFINE after == Dropped(Completed(store, done), gone)
           drained == Drain(Asked(lm, done), after, {}, gone, {})
           starting == {i \in (done \cup due) \cap drained.pending : Startable(drained, i)}
           slots == Injection(starting, Slots(drained))
           slot == CHOOSE x \in slots : TRUE
<1>1. store \in Stores /\ done \cap gone = {} /\ done \in SUBSET Live(store)
  BY DEF Tick, LiveTyped, Complete
<1>2. Changes(store, after, {}, gone, done \ gone)
  BY <1>1, TickChanges
<1>3. done \ gone = done
  BY <1>1
<1>4. /\ store' = after /\ up' = up /\ lost' = lost \ (gone \cup done)
      /\ slots # {} /\ lm' = Start(drained, slot)
  BY DEF Tick, Asked
<1>5. slot \in slots
  BY <1>4
<1>6. starting \in SUBSET Ids /\ starting \subseteq {i \in drained.pending : drained.running[i] = None}
  BY DEF Startable
<1> HIDE DEF starting, after, slot
<1> QED
  BY <1>1, <1>2, <1>3, <1>4, <1>5, <1>6 DEF TickCall

LEMMA AskedTyped ==
  ASSUME NEW m, Typed(m), NEW done \in SUBSET Ids
  PROVE  LET p == Asked(m, done)
         IN  /\ Typed(p) /\ p.pending = m.pending \cup done
             /\ p.views = m.views /\ p.running = m.running /\ p.tasks = m.tasks
             /\ p.memo = m.memo /\ p.watchers = m.watchers
BY DEF Typed, Managers, Asked

-----------------------------------------------------------------------------
(* The tables hold what they may, and watchers converge.                   *)

\* Nothing that a watcher may be told of differs.
LEMMA SameTales ==
  ASSUME NEW s, NEW m, NEW p, OfLiveSessions(s, m), Converged(s, m), p.views = m.views,
         \A w \in Watchers : p.watchers[w].state = "open" => p.watchers[w] = m.watchers[w]
  PROVE  OfLiveSessions(s, p) /\ Converged(s, p)
BY DEF OfLiveSessions, Converged, Knows

LEMMA WatchersStart ==
  ASSUME Init
  PROVE  WatchersInv
<1> DEFINE row == [state |-> "none", queue |-> << >>, seen |-> Unread]
           fresh == [live |-> FALSE, gen |-> 0, complete |-> FALSE]
           blank == [session |-> None, at |-> Nothing]
<1>1. Nothing \in Versions
  BY LiveAssumption DEF Nothing, Versions
<1>2. row \in WatcherRows /\ WatcherTyped(row) /\ row.state = "none"
  BY UnreadHasNothing DEF WatcherRows, WatcherTyped, UniqueKeys
<1>3. fresh \in SessionRows /\ blank \in TraceRows
  BY <1>1, LiveAssumption DEF SessionRows, TraceRows
<1>4. store = [sessions |-> [i \in Ids |-> fresh], traces |-> [t \in Traces |-> blank]]
  BY DEF Init
<1>5. lm = [views |-> Unread, pending |-> {}, running |-> Unread,
            tasks |-> [k \in 1..Threads |-> NoTask], memo |-> [t \in Traces |-> Nothing],
            watchers |-> [w \in Watchers |-> row]]
  BY DEF Init
<1> HIDE DEF row, fresh, blank
<1>6. store \in Stores
  BY <1>3, <1>4 DEF Stores
<1>7. /\ lm \in Managers /\ lm.views = Unread
      /\ \A w \in Watchers : lm.watchers[w] = row
      /\ \A k \in 1..Threads : lm.tasks[k] = NoTask
  BY <1>1, <1>2, <1>5, NoTaskTyped DEF Managers, Snapshots, Unread
<1>8. LiveTyped
  BY <1>2, <1>6, <1>7, NoTaskTyped DEF Init, LiveTyped, Typed
<1>9. OfLiveSessions(store, lm)
  BY <1>7, UnreadHasNothing DEF OfLiveSessions
<1>10. Converged(store, lm)
  BY <1>2, <1>7 DEF Converged
<1> QED
  BY <1>8, <1>9, <1>10 DEF WatchersInv

LEMMA StoreCallConverges ==
  ASSUME WatchersInv, StoreCall
  PROVE  WatchersInv'
<1>1. PICK started \in SUBSET Ids, removed \in SUBSET Ids, dirty \in SUBSET Ids :
        /\ Changes(store, store', started, removed, dirty)
        /\ lm' = Drain(lm, store', started, removed, dirty)
        /\ lost' = lost \ (removed \cup dirty) /\ up' = up
  BY DEF StoreCall
<1>2. /\ store \in Stores /\ Typed(lm) /\ OfLiveSessions(store, lm) /\ Converged(store, lm)
      /\ up \in BOOLEAN /\ lost \subseteq Ids
  BY DEF WatchersInv, LiveTyped
<1> DEFINE p == Drain(lm, store', started, removed, dirty)
<1>3. Typed(p) /\ OfLiveSessions(store', p) /\ Converged(store', p)
  BY <1>1, <1>2, DrainConverges
<1>4. store' \in Stores
  BY <1>1 DEF Changes
<1> QED
  BY <1>1, <1>2, <1>3, <1>4 DEF WatchersInv, LiveTyped

LEMMA TickCallConverges ==
  ASSUME WatchersInv, TickCall
  PROVE  WatchersInv'
<1> DEFINE Drained(done, gone) == Drain(Asked(lm, done), store', {}, gone, {})
<1>1. PICK done \in SUBSET Ids, gone \in SUBSET Ids, starting \in SUBSET Ids :
        /\ Changes(store, store', {}, gone, done)
        /\ \E slot \in Injection(starting, Slots(Drained(done, gone))) :
             lm' = Start(Drained(done, gone), slot)
        /\ lost' = lost \ (gone \cup done) /\ up' = up
  BY DEF TickCall
<1> DEFINE asked == Asked(lm, done)
           p == Drained(done, gone)
<1>2. /\ store \in Stores /\ Typed(lm) /\ OfLiveSessions(store, lm) /\ Converged(store, lm)
      /\ up \in BOOLEAN /\ lost \subseteq Ids
  BY DEF WatchersInv, LiveTyped
<1>3. Typed(asked) /\ asked.views = lm.views /\ asked.watchers = lm.watchers
  BY <1>2, AskedTyped
<1> HIDE DEF asked
<1>4. OfLiveSessions(store, asked) /\ Converged(store, asked)
  BY <1>2, <1>3, SameTales
<1>5. Typed(p) /\ OfLiveSessions(store', p) /\ Converged(store', p)
  <2> DEFINE q == Drain(asked, store', {}, gone, {})
  <2>1. {} \in SUBSET Ids
    OBVIOUS
  <2>2. Typed(q) /\ OfLiveSessions(store', q) /\ Converged(store', q)
    BY <1>1, <1>2, <1>3, <1>4, <2>1, DrainConverges
  <2> QED
    BY <2>2 DEF asked
<1>6. PICK slot \in Injection(starting, Slots(p)) : lm' = Start(p, slot)
  BY <1>1
<1> HIDE DEF Drained, p
<1>7. Typed(lm') /\ lm'.views = p.views /\ lm'.watchers = p.watchers
  BY <1>5, <1>6, StartEffects
<1>8. OfLiveSessions(store', lm') /\ Converged(store', lm')
  BY <1>5, <1>7, SameTales
<1>9. store' \in Stores
  BY <1>1 DEF Changes
<1> QED
  BY <1>1, <1>2, <1>7, <1>8, <1>9 DEF WatchersInv, LiveTyped

LEMMA TasksConverge ==
  ASSUME WatchersInv, NEW k \in 1..Threads,
         \/ Begin(k) \/ MemoHit(k) \/ MemoMiss(k) \/ MemoWrite(k) \/ RecomputeFails(k)
  PROVE  WatchersInv'
<1>1. LiveTyped /\ OfLiveSessions(store, lm) /\ Converged(store, lm)
  BY DEF WatchersInv
<1>2. OthersStay(k) /\ lm'.views = lm.views /\ lm'.watchers = lm.watchers
  <2>1. CASE Begin(k)
    BY <1>1, <2>1, BeginEffects
  <2>2. CASE MemoHit(k)
    BY <1>1, <2>2, MemoHitEffects DEF ThreadGoesOn
  <2>3. CASE MemoMiss(k)
    BY <1>1, <2>3, MemoMissEffects DEF ThreadGoesOn
  <2>4. CASE MemoWrite(k)
    BY <1>1, <2>4, MemoWriteEffects DEF ThreadGoesOn
  <2>5. CASE RecomputeFails(k)
    BY <1>1, <2>5, FailureEffects DEF Ends
  <2> QED
    BY <2>1, <2>2, <2>3, <2>4, <2>5
<1>3. OfLiveSessions(store, lm') /\ Converged(store, lm')
  BY <1>1, <1>2, SameTales
<1> QED
  BY <1>2, <1>3 DEF OthersStay, WatchersInv

\* What is published is the view that is cached with it.
LEMMA FinishConverges ==
  ASSUME WatchersInv, NEW k \in 1..Threads, Finish(k)
  PROVE  WatchersInv'
<1> DEFINE view == lm.tasks[k].view
           i == lm.tasks[k].id
<1>1. LiveTyped /\ OfLiveSessions(store, lm) /\ Converged(store, lm) /\ lm \in Managers
  BY DEF WatchersInv, LiveTyped, Typed
<1>2. Ends(k) /\ view \in Views
  BY <1>1, FinishEffects
<1>3. LiveTyped' /\ store' = store
  BY <1>2 DEF Ends, OthersStay
<1>4. CASE lm'.views = lm.views /\ lm'.watchers = lm.watchers
  <2>1. OfLiveSessions(store, lm') /\ Converged(store, lm')
    BY <1>1, <1>4, SameTales
  <2> QED
    BY <1>3, <2>1 DEF WatchersInv
<1>5. CASE ~(lm'.views = lm.views /\ lm'.watchers = lm.watchers)
  <2>1. /\ i \in Ids /\ SameSession(i, view)
        /\ lm'.views = [lm.views EXCEPT ![i] = view]
        /\ \A w \in Watchers :
             LET was == lm.watchers[w]
                 is == lm'.watchers[w]
             IN  /\ is.state = was.state /\ is.seen = was.seen
                 /\ was.state = "open" =>
                      \A j \in Ids : Queued(is.queue, j) =
                        IF j = i THEN {view} ELSE Queued(was.queue, j)
    BY <1>1, <1>5, FinishEffects
  <2>2. /\ lm'.views[i] = view /\ view # None
        /\ \A j \in Ids \ {i} : lm'.views[j] = lm.views[j]
    BY <1>1, <1>2, <2>1, LiveAssumption DEF Managers
  <2>3. i \in Live(store) /\ view.gen = store.sessions[i].gen
    BY <2>1 DEF SameSession
  <2> HIDE DEF view, i
  <2>4. OfLiveSessions(store, lm')
    BY <1>1, <2>2, <2>3 DEF OfLiveSessions
  <2>5. ASSUME NEW w \in Watchers, lm'.watchers[w].state = "open", NEW j \in Ids,
               NEW body \in Told(lm'.watchers[w], j)
        PROVE  Knows(store, lm', j, body)
    <3> DEFINE was == lm.watchers[w]
               is == lm'.watchers[w]
    <3>1. /\ is.seen = was.seen /\ was.state = "open"
          /\ Queued(is.queue, j) = IF j = i THEN {view} ELSE Queued(was.queue, j)
      BY <2>1, <2>5
    <3>2. body \in Told(is, j)
      BY <2>5
    <3> HIDE DEF is, was
    <3>3. CASE j = i
      <4>1. body = view
        BY <3>1, <3>2, <3>3 DEF Told
      <4> QED
        BY <2>2, <2>3, <3>3, <4>1 DEF Knows
    <3>4. CASE j # i
      <4>1. body \in Told(was, j)
        BY <3>1, <3>2, <3>4 DEF Told
      <4>2. Knows(store, lm, j, body)
        BY <1>1, <3>1, <4>1 DEF Converged, was
      <4> QED
        BY <2>2, <3>4, <4>2 DEF Knows
    <3> QED
      BY <3>3, <3>4
  <2>6. Converged(store, lm')
    BY <2>5 DEF Converged
  <2> QED
    BY <1>3, <2>4, <2>6 DEF WatchersInv
<1> QED
  BY <1>4, <1>5

LEMMA WatcherConverges ==
  ASSUME WatchersInv, NEW w \in Watchers, Subscribe(w) \/ Read(w) \/ Unsubscribe(w)
  PROVE  WatchersInv'
<1>1. LiveTyped /\ OfLiveSessions(store, lm) /\ Converged(store, lm)
  BY DEF WatchersInv
<1>2. /\ ManagerStays(w)
      /\ lm'.watchers[w].state = "open" =>
           \A i \in Ids : \A body \in Told(lm'.watchers[w], i) : Knows(store, lm, i, body)
  <2>1. CASE Subscribe(w)
    <3>1. ManagerStays(w)
      BY <1>1, <2>1, SubscribeEffects
    <3>2. ASSUME NEW i \in Ids, NEW body \in Told(lm'.watchers[w], i)
          PROVE  Knows(store, lm, i, body)
      <4>1. /\ lm'.watchers[w].seen[i] = None
            /\ Queued(lm'.watchers[w].queue, i) =
                 IF i \notin Live(store) THEN {}
                 ELSE {IF lm.views[i] # None THEN lm.views[i] ELSE Summary(store, i)}
        BY <1>1, <2>1, SubscribeEffects
      <4>2. body = IF i \notin Live(store) THEN None
                   ELSE IF lm.views[i] # None THEN lm.views[i] ELSE Summary(store, i)
        BY <3>2, <4>1 DEF Told
      <4>3. Summary(store, i) \in Views /\ Summary(store, i).gen = store.sessions[i].gen
        BY <1>1, SummaryIsAView DEF LiveTyped
      <4> QED
        BY <4>2, <4>3 DEF Knows
    <3> QED
      BY <3>1, <3>2
  <2>2. CASE Read(w)
    <3> DEFINE old == lm.watchers[w]
               new == lm'.watchers[w]
    <3>1. /\ ManagerStays(w) /\ new.state = old.state
          /\ \A i \in Ids :
               \/ /\ Queued(old.queue, i) = {new.seen[i]} /\ Queued(new.queue, i) = {}
               \/ /\ Queued(old.queue, i) = Queued(new.queue, i) /\ new.seen[i] = old.seen[i]
      BY <1>1, <2>2, ReadEffects
    <3>2. \A i \in Ids : Told(new, i) = Told(old, i)
      BY <3>1 DEF Told
    <3> QED
      BY <1>1, <3>1, <3>2 DEF Converged
  <2>3. CASE Unsubscribe(w)
    BY <1>1, <2>3, UnsubscribeEffects
  <2> QED
    BY <2>1, <2>2, <2>3
<1>3. /\ LiveTyped' /\ store' = store /\ lm'.views = lm.views
      /\ \A x \in Watchers \ {w} : lm'.watchers[x] = lm.watchers[x]
  BY <1>2 DEF ManagerStays
<1>4. OfLiveSessions(store, lm')
  BY <1>1, <1>3 DEF OfLiveSessions
<1>5. Converged(store, lm')
  BY <1>1, <1>2, <1>3 DEF Converged, Knows
<1> QED
  BY <1>3, <1>4, <1>5 DEF WatchersInv

LEMMA ShutdownConverges ==
  ASSUME WatchersInv, Shutdown
  PROVE  WatchersInv'
<1>1. LiveTyped /\ OfLiveSessions(store, lm) /\ Converged(store, lm)
  BY DEF WatchersInv
<1>2. /\ LiveTyped' /\ store' = store /\ lm'.views = lm.views
      /\ \A w \in Watchers : lm'.watchers[w].state # "open"
  BY <1>1, ShutdownEffects
<1>3. OfLiveSessions(store, lm') /\ Converged(store, lm')
  BY <1>1, <1>2, SameTales
<1> QED
  BY <1>2, <1>3 DEF WatchersInv

LEMMA WatchersInvHolds == Spec => []WatchersInv
<1>1. Init => WatchersInv
  BY WatchersStart
<1>2. ASSUME WatchersInv, [Next]_vars
      PROVE  WatchersInv'
  <2>1. CASE UNCHANGED vars
    <3>1. store' = store /\ lm' = lm /\ up' = up /\ lost' = lost
      BY <2>1 DEF vars
    <3> QED
      BY <1>2, <3>1 DEF WatchersInv, LiveTyped
  <2>2. ASSUME NEW t \in Traces, NEW i \in Ids,
               \/ IngestPromotes(t, i)
               \/ \E gone \in SUBSET Complete(store) : Ingest(t, i, gone) \/ LoadSession(t, i, gone)
        PROVE  WatchersInv'
    <3>1. StoreCall
      BY <1>2, <2>2, IngestCalls, PromotionCalls, LoadCalls DEF WatchersInv
    <3> QED
      BY <1>2, <3>1, StoreCallConverges
  <2>3. ASSUME NEW done \in SUBSET Ids, NEW gone \in SUBSET Ids, NEW due \in SUBSET Ids,
               Tick(done, gone, due)
        PROVE  WatchersInv'
    <3>1. TickCall
      BY <1>2, <2>3, TickCalls DEF WatchersInv
    <3> QED
      BY <1>2, <3>1, TickCallConverges
  <2>4. ASSUME NEW k \in 1..Threads,
               \/ Begin(k) \/ MemoHit(k) \/ MemoMiss(k) \/ MemoWrite(k)
               \/ Finish(k) \/ RecomputeFails(k)
        PROVE  WatchersInv'
    BY <1>2, <2>4, TasksConverge, FinishConverges
  <2>5. ASSUME NEW w \in Watchers, Subscribe(w) \/ Read(w) \/ Unsubscribe(w)
        PROVE  WatchersInv'
    BY <1>2, <2>5, WatcherConverges
  <2>6. CASE Shutdown
    BY <1>2, <2>6, ShutdownConverges
  <2> QED
    BY <1>2, <2>1, <2>2, <2>3, <2>4, <2>5, <2>6 DEF Next
<1> QED
  BY <1>1, <1>2, PTL DEF Spec

\* A queue with an event for each key at most is no longer than the ids, and "synced".
LEMMA QueuesAreShort ==
  ASSUME NEW q \in Seq(QueueEvents), UniqueKeys(q)
  PROVE  Len(q) <= Cardinality(Ids) + 1
<1> DEFINE L == Len(q)
           keys == Ids \cup {None}
           f == [n \in 1..L |-> q[n].key]
<1>1. L \in Nat /\ DOMAIN q = 1..L /\ \A n \in 1..L : q[n] \in QueueEvents
  OBVIOUS
<1>2. f \in [1..L -> keys]
  BY <1>1 DEF QueueEvents
<1>3. \A a, b \in 1..L : f[a] = f[b] => a = b
  BY <1>1 DEF UniqueKeys
<1>4. IsFiniteSet(keys) /\ Cardinality(keys) = Cardinality(Ids) + 1
  BY LiveAssumption, FS_AddElement
<1> HIDE DEF f, L, keys
<1>5. IsFiniteSet(1..L) /\ Cardinality(1..L) = L
  BY <1>1, FS_Interval
<1>6. f \in Injection(1..L, keys)
  BY <1>2, <1>3, Fun_IsInj
<1>7. Cardinality(1..L) <= Cardinality(keys)
  BY <1>4, <1>5, <1>6, FS_Injection
<1> QED
  BY <1>4, <1>5, <1>7 DEF L

(* The tables of the live manager: every view, task, memo and watcher is of the ids, traces
   and threads there are, and a watcher's queue holds one event for each session at most, and
   "synced" (Watcher.put, manager.py): what is pending for a slow reader is bounded. *)
THEOREM LiveTablesAreTyped == Spec => []TypeOK
<1>1. WatchersInv => TypeOK
  <2> SUFFICES ASSUME WatchersInv PROVE TypeOK
    OBVIOUS
  <2>1. store \in Stores /\ Typed(lm) /\ lm \in Managers /\ up \in BOOLEAN /\ lost \subseteq Ids
    BY DEF WatchersInv, LiveTyped, Typed
  <2>2. store \in [sessions : [Ids -> [live : BOOLEAN, gen : 0..MaxGens, complete : BOOLEAN]],
                   traces : [Traces -> [session : Ids \cup {None}, at : Versions]]]
    BY <2>1 DEF Stores, SessionRows, TraceRows
  <2>3. /\ lm.pending \subseteq Ids /\ lm.running \in [Ids -> (1..Threads) \cup {None}]
        /\ lm.memo \in [Traces -> Versions]
    BY <2>1 DEF Managers, Snapshots
  <2>4. \A k \in 1..Threads : /\ lm.tasks[k].stage \in {"free", "created", "thread"}
                              /\ lm.tasks[k].stage = "created" => lm.tasks[k].id \in Ids
    BY <2>1, TaskHere DEF TaskRows, TaskTyped
  <2>5. ASSUME NEW w \in Watchers
        PROVE  /\ lm.watchers[w].state \in {"none", "open", "closed"}
               /\ Len(lm.watchers[w].queue) <= Cardinality(Ids) + 1
    <3>1. lm.watchers[w] \in WatcherRows /\ WatcherTyped(lm.watchers[w])
      BY <2>1, WatcherHere
    <3>2. lm.watchers[w].queue \in Seq(QueueEvents) /\ UniqueKeys(lm.watchers[w].queue)
      BY <3>1 DEF WatcherRows, WatcherTyped
    <3> QED
      BY <3>1, <3>2, QueuesAreShort DEF WatcherRows
  <2> QED
    BY <2>1, <2>2, <2>3, <2>4, <2>5 DEF TypeOK
<1> QED
  BY <1>1, WatchersInvHolds, PTL

(* Watchers converge: once its queue is read, a watcher knows the manager's view of every
   session and none of a session that went, whatever it skipped (Watcher.put drops a pending
   event of the same id, LiveManager.subscribe sends every session; manager.py:8-10). *)
THEOREM WatchersAreTold == Spec => []WatchersConverge
<1>1. WatchersInv => WatchersConverge
  <2> SUFFICES ASSUME WatchersInv, NEW w \in Watchers, IsOpen(w), NEW i \in Ids
               PROVE  IF i \notin Live(store) THEN LastTold(w, i) \in {None, Gone}
                      ELSE IF lm.views[i] # None THEN LastTold(w, i) = lm.views[i]
                      ELSE /\ LastTold(w, i) \notin {None, Gone}
                           /\ LastTold(w, i).gen = store.sessions[i].gen
    BY DEF WatchersConverge
  <2> DEFINE queue == lm.watchers[w].queue
             told == {n \in DOMAIN queue : queue[n].key = i}
             body == LastTold(w, i)
  <2>1. body \in Told(lm.watchers[w], i)
    <3>1. Queued(queue, i) = {queue[n].body : n \in told}
      BY DEF Queued
    <3>2. CASE told = {}
      <4>1. body = lm.watchers[w].seen[i]
        BY <3>2 DEF LastTold
      <4>2. Queued(queue, i) = {}
        BY <3>1, <3>2
      <4> QED
        BY <4>1, <4>2 DEF Told
    <3>3. CASE told # {}
      <4>1. body = queue[CHOOSE n \in told : TRUE].body
        BY <3>3 DEF LastTold
      <4>2. (CHOOSE n \in told : TRUE) \in told
        BY <3>3
      <4>3. body \in Queued(queue, i)
        BY <3>1, <4>1, <4>2
      <4> QED
        BY <4>3 DEF Told
    <3> QED
      BY <3>2, <3>3
  <2>2. Knows(store, lm, i, body)
    BY <2>1 DEF WatchersInv, Converged, IsOpen
  <2> HIDE DEF body
  <2> QED
    BY <2>2, LiveAssumption DEF Knows, body
<1> QED
  BY <1>1, WatchersInvHolds, PTL
=============================================================================
