---------------------------- MODULE StoreProofs ----------------------------
(***************************************************************************)
(* Proofs about the store of live telemetry, for any traces, items, keys,  *)
(* limits and producers: its tables hold what they may, its bytes are      *)
(* those of what it holds, sessions, traces, keys and queues agree, and a  *)
(* session that is not finished loses nothing.                             *)
(*                                                                         *)
(* The methods of the store are compositions of helpers, so the invariant  *)
(* is an operator of a store s, and each helper has a lemma of its own.    *)
(***************************************************************************)
EXTENDS StoreLemmas

-----------------------------------------------------------------------------
(* Rows of the tables.                                                     *)

SessionRows == [key: Keys \cup {NoKey}, run: {Attr[x].run : x \in Items} \cup {None},
                instance: {Attr[x].instance : x \in Items} \cup {None},
                traces: SUBSET Traces, complete: BOOLEAN, spans: Int, logs: Int]
TraceRows == [session: Ids \cup {NoSession}, spans: SUBSET Spans, logs: SUBSET Logs,
              complete: BOOLEAN]
Contents == [spans: SUBSET Spans, logs: SUBSET Logs]

\* The items of a row belong to the row's trace.
Sorted(rows) == \A t \in Traces : /\ rows[t].spans \subseteq Spans /\ rows[t].logs \subseteq Logs
                                  /\ \A x \in ItemsIn(rows[t]) : Attr[x].trace = t
\* The spans, logs and items of some traces.
SpansAmong(rows, ts) == UNION {rows[t].spans : t \in ts}
LogsAmong(rows, ts) == UNION {rows[t].logs : t \in ts}
ItemsAmong(rows, ts) == UNION {ItemsIn(rows[t]) : t \in ts}
\* Trace t holds the same in both tables.
SameItems(rows, rows2, t) == rows[t].spans = rows2[t].spans /\ rows[t].logs = rows2[t].logs

\* What some traces hold is what belongs to those traces and their rows hold.
LEMMA AmongIsSorted ==
  ASSUME NEW rows, Sorted(rows), NEW ts \in SUBSET Traces
  PROVE  /\ SpansAmong(rows, ts) = {x \in Spans : Attr[x].trace \in ts /\ x \in rows[Attr[x].trace].spans}
         /\ LogsAmong(rows, ts) = {x \in Logs : Attr[x].trace \in ts /\ x \in rows[Attr[x].trace].logs}
         /\ ItemsAmong(rows, ts) = {x \in Items : Attr[x].trace \in ts /\ x \in ItemsIn(rows[Attr[x].trace])}
<1>1. \A t \in ts : \A x \in rows[t].spans : x \in Spans /\ Attr[x].trace = t
  BY DEF Sorted, ItemsIn
<1>2. \A t \in ts : \A x \in rows[t].logs : x \in Logs /\ Attr[x].trace = t
  BY DEF Sorted, ItemsIn
<1>3. SpansAmong(rows, ts) = {x \in Spans : Attr[x].trace \in ts /\ x \in rows[Attr[x].trace].spans}
  BY <1>1 DEF SpansAmong
<1>4. LogsAmong(rows, ts) = {x \in Logs : Attr[x].trace \in ts /\ x \in rows[Attr[x].trace].logs}
  BY <1>2 DEF LogsAmong
<1>5. \A t \in ts : \A x \in ItemsIn(rows[t]) : x \in Items /\ Attr[x].trace = t
  BY <1>1, <1>2 DEF ItemsIn, Items
<1>6. ItemsAmong(rows, ts) = {x \in Items : Attr[x].trace \in ts /\ x \in ItemsIn(rows[Attr[x].trace])}
  BY <1>5 DEF ItemsAmong
<1> QED
  BY <1>3, <1>4, <1>6

\* When only the rows of ts change, so does the size of all rows.
LEMMA SizeChange ==
  ASSUME NEW rows, Sorted(rows), NEW rows2, Sorted(rows2), NEW ts \in SUBSET Traces,
         \A t \in Traces \ ts : SameItems(rows, rows2, t)
  PROVE  Size(ItemsAmong(rows2, Traces)) =
           Size(ItemsAmong(rows, Traces)) - Size(ItemsAmong(rows, ts)) + Size(ItemsAmong(rows2, ts))
<1> DEFINE A == ItemsAmong(rows, Traces)
           B == ItemsAmong(rows, ts)
           C == ItemsAmong(rows2, Traces)
           E == ItemsAmong(rows2, ts)
<1>1. /\ A \in SUBSET Items /\ B \in SUBSET A /\ C \in SUBSET Items /\ E \in SUBSET C
  <2>1. Traces \in SUBSET Traces
    OBVIOUS
  <2> QED
    BY <2>1, AmongIsSorted
<1>2. A \ B = C \ E
  <2>1. ItemsAmong(rows, Traces \ ts) = ItemsAmong(rows2, Traces \ ts)
    BY DEF ItemsAmong, SameItems, ItemsIn
  <2>2. Traces \in SUBSET Traces /\ Traces \ ts \in SUBSET Traces
    OBVIOUS
  <2>3. A \ B = ItemsAmong(rows, Traces \ ts)
    BY <2>2, AmongIsSorted, ItemsAreSound
  <2>4. C \ E = ItemsAmong(rows2, Traces \ ts)
    BY <2>2, AmongIsSorted, ItemsAreSound
  <2> QED
    BY <2>1, <2>3, <2>4
<1> HIDE DEF A, B, C, E
<1>3. Size(A \ B) = Size(A) - Size(B) /\ Size(C \ E) = Size(C) - Size(E)
  BY <1>1, SizeWithout
<1>4. Size(A) \in Nat /\ Size(B) \in Nat /\ Size(C) \in Nat /\ Size(E) \in Nat
  BY <1>1, SizeType
<1>5. Size(C) = Size(A) - Size(B) + Size(E)
  BY <1>2, <1>3, <1>4
<1> QED
  BY <1>5 DEF A, B, C, E

\* What one trace holds is its row.
LEMMA AmongOne ==
  ASSUME NEW rows, NEW t
  PROVE  SpansAmong(rows, {t}) = rows[t].spans /\ LogsAmong(rows, {t}) = rows[t].logs
         /\ ItemsAmong(rows, {t}) = ItemsIn(rows[t])
BY DEF SpansAmong, LogsAmong, ItemsAmong

\* A session counts the items of its traces.
Counted(row, rows) == /\ row.spans = Cardinality(SpansAmong(rows, row.traces))
                      /\ row.logs = Cardinality(LogsAmong(rows, row.traces))
\* The part of n that belongs to a session with traces ts.
Share(n, t, ts) == IF t \in ts THEN n ELSE 0

\* The cardinalities of disjoint finite sets add up.
LEMMA DisjointCards ==
  ASSUME NEW A, IsFiniteSet(A), NEW B, IsFiniteSet(B), A \cap B = {}
  PROVE  Cardinality(A \cup B) = Cardinality(A) + Cardinality(B)
         /\ Cardinality(A) \in Nat /\ Cardinality(B) \in Nat
<1>1. Cardinality(A \cup B) = Cardinality(A) + Cardinality(B) - Cardinality({})
  BY FS_Union
<1>2. Cardinality({}) = 0
  BY FS_EmptySet
<1>3. Cardinality(A) \in Nat /\ Cardinality(B) \in Nat
  BY FS_CardinalityType
<1> QED
  BY <1>1, <1>2, <1>3

\* What ts hold is what the others hold and t's share.
CountsSplit(rows, ts, t) ==
  /\ Cardinality(SpansAmong(rows, ts)) =
       Cardinality(SpansAmong(rows, ts \ {t})) + Share(Cardinality(rows[t].spans), t, ts)
  /\ Cardinality(LogsAmong(rows, ts)) =
       Cardinality(LogsAmong(rows, ts \ {t})) + Share(Cardinality(rows[t].logs), t, ts)
  /\ Cardinality(SpansAmong(rows, ts)) \in Nat /\ Cardinality(LogsAmong(rows, ts)) \in Nat
  /\ Cardinality(SpansAmong(rows, ts \ {t})) \in Nat /\ Cardinality(LogsAmong(rows, ts \ {t})) \in Nat
  /\ Cardinality(rows[t].spans) \in Nat /\ Cardinality(rows[t].logs) \in Nat

\* A trace's items are counted with its session's, and are no other trace's.
LEMMA CardsSplit ==
  ASSUME NEW rows, Sorted(rows), NEW ts \in SUBSET Traces, NEW t \in Traces
  PROVE  CountsSplit(rows, ts, t)
<1>1. ts \ {t} \in SUBSET Traces
  OBVIOUS
<1>2. /\ rows[t].spans \in SUBSET Spans /\ rows[t].logs \in SUBSET Logs
      /\ SpansAmong(rows, ts \ {t}) \in SUBSET Spans /\ LogsAmong(rows, ts \ {t}) \in SUBSET Logs
      /\ SpansAmong(rows, ts) \in SUBSET Spans /\ LogsAmong(rows, ts) \in SUBSET Logs
  BY <1>1, AmongIsSorted DEF Sorted
<1>3. /\ IsFiniteSet(rows[t].spans) /\ IsFiniteSet(rows[t].logs)
      /\ IsFiniteSet(SpansAmong(rows, ts \ {t})) /\ IsFiniteSet(LogsAmong(rows, ts \ {t}))
      /\ IsFiniteSet(SpansAmong(rows, ts)) /\ IsFiniteSet(LogsAmong(rows, ts))
  <2>1. IsFiniteSet(Spans) /\ IsFiniteSet(Logs)
    BY StoreAssumption
  <2> QED
    BY <1>2, <2>1, FS_Subset
<1>4. /\ Cardinality(rows[t].spans) \in Nat /\ Cardinality(rows[t].logs) \in Nat
      /\ Cardinality(SpansAmong(rows, ts \ {t})) \in Nat /\ Cardinality(LogsAmong(rows, ts \ {t})) \in Nat
      /\ Cardinality(SpansAmong(rows, ts)) \in Nat /\ Cardinality(LogsAmong(rows, ts)) \in Nat
  BY <1>3, FS_CardinalityType
<1>5. CASE t \in ts
  <2>1. /\ SpansAmong(rows, ts) = SpansAmong(rows, ts \ {t}) \cup rows[t].spans
        /\ LogsAmong(rows, ts) = LogsAmong(rows, ts \ {t}) \cup rows[t].logs
    BY <1>5 DEF SpansAmong, LogsAmong
  <2>2. \A x \in rows[t].spans \cup rows[t].logs : Attr[x].trace = t
    BY DEF Sorted, ItemsIn
  <2>3. /\ SpansAmong(rows, ts \ {t}) \cap rows[t].spans = {}
        /\ LogsAmong(rows, ts \ {t}) \cap rows[t].logs = {}
    BY <1>1, <2>2, AmongIsSorted
  <2>4. /\ Cardinality(SpansAmong(rows, ts)) = Cardinality(SpansAmong(rows, ts \ {t})) + Cardinality(rows[t].spans)
        /\ Cardinality(LogsAmong(rows, ts)) = Cardinality(LogsAmong(rows, ts \ {t})) + Cardinality(rows[t].logs)
    BY <1>3, <2>1, <2>3, DisjointCards
  <2> QED
    BY <1>4, <1>5, <2>4 DEF Share, CountsSplit
<1>6. CASE t \notin ts
  <2>1. ts \ {t} = ts
    BY <1>6
  <2> QED
    BY <1>4, <1>6, <2>1 DEF Share, CountsSplit
<1> QED
  BY <1>5, <1>6

\* The counters of a session when trace t joins, leaves or changes.
LEMMA CountsChange ==
  ASSUME NEW rows, Sorted(rows), NEW rows2, Sorted(rows2), NEW t \in Traces,
         NEW row \in SessionRows, NEW row2 \in SessionRows, Counted(row, rows),
         row.traces \ {t} = row2.traces \ {t},
         \A u \in row.traces \ {t} : SameItems(rows, rows2, u),
         row2.spans = row.spans - Share(Cardinality(rows[t].spans), t, row.traces)
                                + Share(Cardinality(rows2[t].spans), t, row2.traces),
         row2.logs = row.logs - Share(Cardinality(rows[t].logs), t, row.traces)
                              + Share(Cardinality(rows2[t].logs), t, row2.traces)
  PROVE  Counted(row2, rows2)
<1> DEFINE ts == row.traces
           ts2 == row2.traces
<1>1. ts \in SUBSET Traces /\ ts2 \in SUBSET Traces
  BY DEF SessionRows
<1>2. /\ SpansAmong(rows2, ts2 \ {t}) = SpansAmong(rows, ts \ {t})
      /\ LogsAmong(rows2, ts2 \ {t}) = LogsAmong(rows, ts \ {t})
  BY DEF SpansAmong, LogsAmong, SameItems
<1> HIDE DEF ts, ts2
<1>3. CountsSplit(rows, ts, t) /\ CountsSplit(rows2, ts2, t)
  BY <1>1, CardsSplit
<1> DEFINE a == Cardinality(SpansAmong(rows, ts \ {t}))
           b == Share(Cardinality(rows[t].spans), t, ts)
           c == Share(Cardinality(rows2[t].spans), t, ts2)
           d == Cardinality(LogsAmong(rows, ts \ {t}))
           e == Share(Cardinality(rows[t].logs), t, ts)
           f == Share(Cardinality(rows2[t].logs), t, ts2)
<1>4. /\ Cardinality(SpansAmong(rows, ts)) = a + b /\ Cardinality(LogsAmong(rows, ts)) = d + e
      /\ a \in Nat /\ d \in Nat
  BY <1>3 DEF CountsSplit
<1>5. Cardinality(SpansAmong(rows2, ts2)) = a + c /\ Cardinality(LogsAmong(rows2, ts2)) = d + f
  BY <1>2, <1>3 DEF CountsSplit
<1>6. b \in Nat /\ c \in Nat /\ e \in Nat /\ f \in Nat
  BY <1>3 DEF Share, CountsSplit
<1>7. row.spans = a + b /\ row.logs = d + e
  BY <1>4 DEF Counted, ts
<1>8. row2.spans = row.spans - b + c /\ row2.logs = row.logs - e + f
  BY DEF ts, ts2
<1> HIDE DEF a, b, c, d, e, f
<1>9. row2.spans = a + c /\ row2.logs = d + f
  BY <1>4, <1>6, <1>7, <1>8
<1> QED
  BY <1>5, <1>9 DEF Counted, ts2

\* A session none of whose traces changes still counts what it holds.
LEMMA CountsStay ==
  ASSUME NEW rows, NEW rows2, NEW row, NEW row2, Counted(row, rows),
         row.traces = row2.traces, row.spans = row2.spans, row.logs = row2.logs,
         \A u \in row.traces : SameItems(rows, rows2, u)
  PROVE  Counted(row2, rows2)
<1>1. /\ SpansAmong(rows2, row2.traces) = SpansAmong(rows, row.traces)
      /\ LogsAmong(rows2, row2.traces) = LogsAmong(rows, row.traces)
  BY DEF SpansAmong, LogsAmong, SameItems
<1> QED
  BY <1>1 DEF Counted

-----------------------------------------------------------------------------
(* The invariant of a store s.  While a method runs, the sessions E and    *)
(* the traces T may hold nothing yet.                                      *)

\* Tables of sessions, and what the store is made of.
Tables == UNION {[D -> SessionRows] : D \in SUBSET Ids}
Events == ({"started", "dirty", "reopened"} \X Ids)
          \cup ({"removed"} \X Ids \X (Ids \cup {NoSession}))
Stores == [at: Deployments, sessions: Tables, traces: [Traces -> TraceRows], staged: Seq(Traces),
           held: [Traces -> Contents], pending: [Traces -> Seq(Logs)],
           heads: [Keys -> Ids \cup {NoSession}], due: SUBSET (Traces \cup Ids),
           finished: Seq(Ids), bytes: Int, events: Seq(Events)]

\* Logs wait for their own trace.
LogsFit(pending) == \A t \in Traces : \A i \in 1..Len(pending[t]) : Attr[pending[t][i]].trace = t
\* The bytes are those of what is owned and held, and within the budget.
BytesFit(at, traces, held, bytes) ==
  /\ bytes = Size(ItemsAmong(traces, Traces)) + Size(ItemsAmong(held, Traces))
  /\ bytes <= Limits[at].max_bytes
\* A trace is staged once, holds something only then, and is a session's too only when a
\* bundle has brought it.
StagedFit(at, traces, staged, held) ==
  /\ IsInjective(staged)
  /\ \A t \in Traces : t \notin ToSet(staged) => held[t] = Nothing
  /\ \A t \in Traces : traces[t].session # NoSession /\ t \in ToSet(staged) =>
       \E b \in Bundles[at] : \E x \in ItemsIn(b) : Attr[x].trace = t
\* Sessions and traces agree about who belongs to whom, and counters count.
MembersFit(sessions, traces) ==
  /\ \A id \in DOMAIN sessions : /\ sessions[id].traces = {t \in Traces : traces[t].session = id}
                                 /\ Counted(sessions[id], traces)
  /\ \A t \in Traces : traces[t].session # NoSession => traces[t].session \in DOMAIN sessions
  /\ \A t \in Traces : traces[t].session = NoSession => traces[t] = NoTrace
\* The eviction queue lists the complete sessions, each once.
FinishedFit(sessions, finished) ==
  /\ IsInjective(finished)
  /\ ToSet(finished) = {id \in DOMAIN sessions : sessions[id].complete}
\* The session a key leads to is live and has the key.
HeadsFit(sessions, heads) ==
  \A k \in Keys : heads[k] # NoSession => heads[k] \in DOMAIN sessions /\ sessions[heads[k]].key = k
\* Sessions and traces hold something, but for E and T and bundles that brought nothing.
FullFit(sessions, traces, E, T) ==
  /\ \A t \in Traces \ T : traces[t].session # NoSession => ItemsIn(traces[t]) # {}
  /\ \A id \in DOMAIN sessions \ E :
       sessions[id].traces = {} => sessions[id].complete /\ sessions[id].key = NoKey

\* The invariant.
Inv(s, E, T) ==
  /\ s \in Stores /\ IsFiniteSet(Live(s))
  /\ Sorted(s.traces) /\ Sorted(s.held) /\ LogsFit(s.pending)
  /\ BytesFit(s.at, s.traces, s.held, s.bytes)
  /\ StagedFit(s.at, s.traces, s.staged, s.held)
  /\ MembersFit(s.sessions, s.traces)
  /\ FinishedFit(s.sessions, s.finished)
  /\ HeadsFit(s.sessions, s.heads)
  /\ FullFit(s.sessions, s.traces, E, T)

\* Replacing the row of a session that is there.
LEMMA RowSet ==
  ASSUME NEW f \in Tables, NEW id \in DOMAIN f, NEW row \in SessionRows
  PROVE  /\ [f EXCEPT ![id] = row] \in Tables /\ DOMAIN [f EXCEPT ![id] = row] = DOMAIN f
         /\ \A i \in DOMAIN f : [f EXCEPT ![id] = row][i] = IF i = id THEN row ELSE f[i]
         /\ \A i \in DOMAIN f : i \in Ids /\ f[i] \in SessionRows
<1>1. PICK D \in SUBSET Ids : f \in [D -> SessionRows]
  BY DEF Tables
<1>2. [f EXCEPT ![id] = row] \in [D -> SessionRows]
  BY <1>1
<1> QED
  BY <1>1, <1>2 DEF Tables

\* Adding the row of a session.
LEMMA RowAdded ==
  ASSUME NEW f \in Tables, NEW id \in Ids, NEW row \in SessionRows
  PROVE  [i \in DOMAIN f \cup {id} |-> IF i = id THEN row ELSE f[i]] \in Tables
<1>1. PICK D \in SUBSET Ids : f \in [D -> SessionRows]
  BY DEF Tables
<1>2. [i \in DOMAIN f \cup {id} |-> IF i = id THEN row ELSE f[i]] \in [D \cup {id} -> SessionRows]
  BY <1>1
<1>3. D \cup {id} \in SUBSET Ids
  BY <1>1
<1> QED
  BY <1>2, <1>3 DEF Tables

\* Removing the row of a session.
LEMMA RowGone ==
  ASSUME NEW f \in Tables, NEW id
  PROVE  /\ Restrict(f, DOMAIN f \ {id}) \in Tables
         /\ DOMAIN Restrict(f, DOMAIN f \ {id}) = DOMAIN f \ {id}
         /\ \A i \in DOMAIN f \ {id} : Restrict(f, DOMAIN f \ {id})[i] = f[i]
<1>1. PICK D \in SUBSET Ids : f \in [D -> SessionRows]
  BY DEF Tables
<1>2. Restrict(f, DOMAIN f \ {id}) \in [D \ {id} -> SessionRows]
  BY <1>1 DEF Restrict
<1>3. D \ {id} \in SUBSET Ids
  BY <1>1
<1>4. Restrict(f, DOMAIN f \ {id}) \in Tables
  BY <1>2, <1>3 DEF Tables
<1> QED
  BY <1>4 DEF Restrict

\* The empty content and the row of a trace nobody owns are typed and hold nothing.
LEMMA NothingIsThere ==
  /\ Nothing \in Contents /\ ItemsIn(Nothing) = {} /\ Nothing.spans = {} /\ Nothing.logs = {}
  /\ NoTrace \in TraceRows /\ ItemsIn(NoTrace) = {} /\ NoTrace.spans = {} /\ NoTrace.logs = {}
  /\ NoTrace.session = NoSession /\ NoSession \notin Ids /\ NoKey \notin Keys
BY StoreAssumption DEF Nothing, NoTrace, ItemsIn, Contents, TraceRows

-----------------------------------------------------------------------------
(* Removal                                                                 *)

\* r is s without session id.
Without(s, r, id) ==
  /\ r.at = s.at /\ r.pending = s.pending /\ r.due = s.due /\ r.staged = s.staged
  /\ r.held = s.held /\ r.bytes <= s.bytes
  /\ Live(r) = Live(s) \ {id}
  /\ \A i \in Live(r) : r.sessions[i] = s.sessions[i]
  /\ \A t \in Traces : r.traces[t] = IF s.traces[t].session = id THEN NoTrace ELSE s.traces[t]

\* _remove_session keeps the invariant, and removes session id and its traces only.
LEMMA RemovedFits ==
  ASSUME NEW s, NEW E, NEW T, Inv(s, E, T), NEW id \in Live(s), NEW a \in Ids \cup {NoSession}
  PROVE  Inv(Removed(s, id, a), E, T) /\ Without(s, Removed(s, id, a), id)
<1> DEFINE r == Removed(s, id, a)
           gone == {t \in s.sessions[id].traces : s.traces[t].session = id}
<1>1. s \in Stores /\ Live(s) = DOMAIN s.sessions
  BY DEF Inv, Live
<1>2. /\ s.sessions \in Tables /\ s.traces \in [Traces -> TraceRows] /\ s.finished \in Seq(Ids)
      /\ s.heads \in [Keys -> Ids \cup {NoSession}] /\ s.events \in Seq(Events) /\ s.bytes \in Int
  BY <1>1 DEF Stores
<1>3. id \in Ids
  BY <1>1, <1>2 DEF Tables
<1>4. gone = {t \in Traces : s.traces[t].session = id} /\ gone \in SUBSET Traces
  BY <1>1 DEF Inv, MembersFit
<1> HIDE DEF gone
<1>5. /\ r.at = s.at /\ r.staged = s.staged /\ r.held = s.held /\ r.pending = s.pending /\ r.due = s.due
      /\ r.sessions = Restrict(s.sessions, DOMAIN s.sessions \ {id})
      /\ r.traces = [t \in Traces |-> IF t \in gone THEN NoTrace ELSE s.traces[t]]
      /\ r.bytes = s.bytes - Size(ItemsAmong(s.traces, gone))
      /\ r.heads = [k \in Keys |-> IF s.heads[k] = id THEN NoSession ELSE s.heads[k]]
      /\ r.finished = RemoveFirst(s.finished, id)
      /\ r.events = Append(s.events, <<"removed", id, a>>)
  BY <1>1 DEF Removed, Stores, BytesWithout, ItemsOf, ItemsAmong, HeadsWithout, Live, gone
<1>51. r = [s EXCEPT !.sessions = r.sessions, !.traces = r.traces, !.bytes = r.bytes,
                     !.heads = r.heads, !.finished = r.finished, !.events = r.events]
  BY <1>1, <1>5 DEF Removed, Stores, BytesWithout, ItemsOf, ItemsAmong, HeadsWithout, Live, gone
<1> HIDE DEF r
<1>6. /\ r.sessions \in Tables /\ DOMAIN r.sessions = DOMAIN s.sessions \ {id}
      /\ \A i \in DOMAIN r.sessions : r.sessions[i] = s.sessions[i]
  <2> DEFINE f == Restrict(s.sessions, DOMAIN s.sessions \ {id})
  <2>1. f \in Tables
    BY <1>2, RowGone
  <2>2. DOMAIN f = DOMAIN s.sessions \ {id}
    BY <1>2, RowGone
  <2>3. \A i \in DOMAIN s.sessions \ {id} : f[i] = s.sessions[i]
    BY <1>2, RowGone
  <2> HIDE DEF f
  <2>4. r.sessions = f
    BY <1>5 DEF f
  <2> QED
    BY <2>1, <2>2, <2>3, <2>4
<1>7. /\ r.traces \in [Traces -> TraceRows]
      /\ \A t \in Traces : r.traces[t] = IF s.traces[t].session = id THEN NoTrace ELSE s.traces[t]
  BY <1>2, <1>4, <1>5, NothingIsThere
<1>8. Sorted(s.traces) /\ Sorted(r.traces)
  BY <1>7, NothingIsThere DEF Inv, Sorted
<1>9. /\ Size(ItemsAmong(s.traces, gone)) \in Nat
      /\ r.bytes = Size(ItemsAmong(r.traces, Traces)) + Size(ItemsAmong(r.held, Traces))
  <2>1. Size(ItemsAmong(r.traces, Traces)) = Size(ItemsAmong(s.traces, Traces))
          - Size(ItemsAmong(s.traces, gone)) + Size(ItemsAmong(r.traces, gone))
    <3>1. \A t \in Traces \ gone : SameItems(s.traces, r.traces, t)
      BY <1>4, <1>7 DEF SameItems
    <3> QED
      BY <1>4, <1>8, <3>1, SizeChange
  <2>2. ItemsAmong(r.traces, gone) = {}
    BY <1>4, <1>7, NothingIsThere DEF ItemsAmong
  <2>3. /\ ItemsAmong(s.traces, gone) \in SUBSET Items /\ ItemsAmong(r.traces, Traces) \in SUBSET Items
        /\ ItemsAmong(s.traces, Traces) \in SUBSET Items /\ ItemsAmong(r.held, Traces) \in SUBSET Items
    BY <1>4, <1>5, <1>8, AmongIsSorted DEF Inv
  <2>4. /\ Size(ItemsAmong(s.traces, gone)) \in Nat /\ Size(ItemsAmong(r.traces, Traces)) \in Nat
        /\ Size(ItemsAmong(s.traces, Traces)) \in Nat /\ Size(ItemsAmong(r.held, Traces)) \in Nat
    BY <2>3, SizeType
  <2>5. s.bytes = Size(ItemsAmong(s.traces, Traces)) + Size(ItemsAmong(r.held, Traces))
    BY <1>5 DEF Inv, BytesFit
  <2>6. r.bytes = s.bytes - Size(ItemsAmong(s.traces, gone)) /\ Size(ItemsAmong(r.traces, gone)) = 0
    BY <1>5, <2>2, SizeNone
  <2> DEFINE w == Size(ItemsAmong(r.traces, Traces))
             x == Size(ItemsAmong(s.traces, Traces))
             y == Size(ItemsAmong(s.traces, gone))
             z == Size(ItemsAmong(r.held, Traces))
  <2> HIDE DEF w, x, y, z
  <2>7. w = x - y + 0 /\ r.bytes = s.bytes - y /\ s.bytes = x + z
    BY <2>1, <2>5, <2>6 DEF w, x, y, z
  <2>8. w \in Nat /\ x \in Nat /\ y \in Nat /\ z \in Nat
    BY <2>4 DEF w, x, y, z
  <2>9. r.bytes = w + z
    BY <2>7, <2>8
  <2> QED
    BY <2>8, <2>9 DEF w, y, z
<1>10. RemoveFirst(s.finished, id) \in Seq(Ids) /\ FinishedFit(r.sessions, r.finished)
  <2>1. FinishedFit(s.sessions, s.finished)
    BY DEF Inv
  <2>2. /\ RemoveFirst(s.finished, id) \in Seq(Ids) /\ IsInjective(RemoveFirst(s.finished, id))
        /\ ToSet(RemoveFirst(s.finished, id)) = ToSet(s.finished) \ {id}
    BY <1>2, <2>1, RemovedFirst DEF FinishedFit
  <2>3. \A i : i \in ToSet(s.finished) <=> i \in DOMAIN s.sessions /\ s.sessions[i].complete
    BY <2>1 DEF FinishedFit
  <2>4. r.finished = RemoveFirst(s.finished, id)
    BY <1>5
  <2>5. ToSet(r.finished) = {i \in DOMAIN r.sessions : r.sessions[i].complete}
    BY <1>6, <2>2, <2>3, <2>4
  <2> QED
    BY <2>2, <2>4, <2>5 DEF FinishedFit
<1>11. r.events \in Seq(Events)
  <2>1. <<"removed", id, a>> \in Events
    BY <1>3 DEF Events
  <2> QED
    BY <1>2, <1>5, <2>1
<1>12. r \in Stores
  <2>1. r.heads \in [Keys -> Ids \cup {NoSession}]
    BY <1>2, <1>5
  <2>2. r.bytes \in Int
    BY <1>2, <1>5, <1>9
  <2>3. r.finished \in Seq(Ids)
    BY <1>5, <1>10
  <2> QED
    BY <1>1, <1>51, <1>6, <1>7, <1>11, <2>1, <2>2, <2>3 DEF Stores
<1>13. IsFiniteSet(DOMAIN r.sessions)
  <2>1. IsFiniteSet(DOMAIN s.sessions)
    BY <1>1 DEF Inv
  <2> QED
    BY <1>6, <2>1, FS_RemoveElement
<1>14. MembersFit(r.sessions, r.traces)
  <2>1. MembersFit(s.sessions, s.traces)
    BY DEF Inv
  <2>2. ASSUME NEW i \in DOMAIN r.sessions
        PROVE  /\ r.sessions[i].traces = {t \in Traces : r.traces[t].session = i}
               /\ Counted(r.sessions[i], r.traces)
    <3>1. i \in DOMAIN s.sessions /\ i # id /\ r.sessions[i] = s.sessions[i] /\ i \in Ids
      BY <1>2, <1>6 DEF Tables
    <3>2. s.sessions[i].traces = {t \in Traces : s.traces[t].session = i} /\ Counted(s.sessions[i], s.traces)
      BY <2>1, <3>1 DEF MembersFit
    <3>3. r.sessions[i].traces = {t \in Traces : r.traces[t].session = i}
      BY <1>7, <3>1, <3>2, NothingIsThere
    <3>4. \A t \in s.sessions[i].traces : SameItems(s.traces, r.traces, t)
      BY <1>7, <3>1, <3>2 DEF SameItems
    <3>5. Counted(r.sessions[i], r.traces)
      BY <3>1, <3>2, <3>4, CountsStay
    <3> QED
      BY <3>3, <3>5
  <2>3. \A t \in Traces : r.traces[t].session # NoSession => r.traces[t].session \in DOMAIN r.sessions
    BY <1>6, <1>7, <2>1, NothingIsThere DEF MembersFit
  <2>4. \A t \in Traces : r.traces[t].session = NoSession => r.traces[t] = NoTrace
    BY <1>7, <2>1 DEF MembersFit
  <2> QED
    BY <2>2, <2>3, <2>4 DEF MembersFit
<1>15. HeadsFit(r.sessions, r.heads)
  <2>1. HeadsFit(s.sessions, s.heads)
    BY DEF Inv
  <2>2. \A k \in Keys : r.heads[k] = IF s.heads[k] = id THEN NoSession ELSE s.heads[k]
    BY <1>5
  <2>3. ASSUME NEW k \in Keys, r.heads[k] # NoSession
        PROVE  r.heads[k] \in DOMAIN r.sessions /\ r.sessions[r.heads[k]].key = k
    <3>1. r.heads[k] = s.heads[k] /\ s.heads[k] # id
      BY <2>2, <2>3
    <3>2. s.heads[k] \in DOMAIN s.sessions /\ s.sessions[s.heads[k]].key = k
      BY <2>1, <2>3, <3>1 DEF HeadsFit
    <3> QED
      BY <1>6, <3>1, <3>2
  <2> QED
    BY <2>3 DEF HeadsFit
<1>16. FullFit(r.sessions, r.traces, E, T)
  <2>1. FullFit(s.sessions, s.traces, E, T)
    BY DEF Inv
  <2> QED
    BY <1>6, <1>7, <2>1, NothingIsThere DEF FullFit
<1>17. StagedFit(r.at, r.traces, r.staged, r.held)
  <2>1. StagedFit(s.at, s.traces, s.staged, s.held)
    BY DEF Inv
  <2> QED
    BY <1>5, <1>7, <2>1, NothingIsThere DEF StagedFit
<1>18. BytesFit(r.at, r.traces, r.held, r.bytes) /\ r.bytes <= s.bytes
  <2>1. s.at \in Deployments /\ Limits[s.at].max_bytes \in Int
    BY <1>1, StoreAssumption DEF Stores
  <2>2. s.bytes <= Limits[s.at].max_bytes
    BY DEF Inv, BytesFit
  <2>3. r.bytes <= s.bytes
    BY <1>2, <1>5, <1>9
  <2>4. r.bytes <= Limits[s.at].max_bytes
    BY <1>2, <1>5, <1>9, <2>1, <2>2
  <2> QED
    BY <1>5, <1>9, <2>3, <2>4 DEF BytesFit
<1>19. Inv(r, E, T)
  BY <1>5, <1>8, <1>10, <1>12, <1>13, <1>14, <1>15, <1>16, <1>17, <1>18 DEF Inv, Live
<1>20. Without(s, r, id)
  BY <1>5, <1>6, <1>7, <1>18 DEF Without, Live
<1> QED
  BY <1>19, <1>20 DEF r

\* r is s without what was held of trace t.
Dropped(s, r, t) ==
  /\ r.at = s.at /\ r.sessions = s.sessions /\ r.traces = s.traces /\ r.pending = s.pending
  /\ r.heads = s.heads /\ r.due = s.due /\ r.finished = s.finished /\ r.events = s.events
  /\ r.bytes = s.bytes - Bytes(s.held[t]) /\ Bytes(s.held[t]) \in Nat
  /\ ToSet(r.staged) = ToSet(s.staged) \ {t}
  /\ r.held = [s.held EXCEPT ![t] = Nothing]

\* Dropping a staged trace keeps the invariant, and drops what was held of t only.
LEMMA UnstagedFits ==
  ASSUME NEW s, NEW E, NEW T, Inv(s, E, T), NEW t \in Traces
  PROVE  Inv(Unstaged(s, t), E, T) /\ Dropped(s, Unstaged(s, t), t)
<1> DEFINE r == Unstaged(s, t)
<1>1. s \in Stores
  BY DEF Inv
<1>2. /\ s.staged \in Seq(Traces) /\ s.held \in [Traces -> Contents] /\ s.bytes \in Int
      /\ s.at \in Deployments
  BY <1>1 DEF Stores
<1>3. /\ r.at = s.at /\ r.sessions = s.sessions /\ r.traces = s.traces /\ r.pending = s.pending
      /\ r.heads = s.heads /\ r.due = s.due /\ r.finished = s.finished /\ r.events = s.events
      /\ r.staged = RemoveFirst(s.staged, t)
      /\ r.held = [s.held EXCEPT ![t] = Nothing]
      /\ r.bytes = s.bytes - Bytes(s.held[t])
  BY <1>1 DEF Unstaged, Stores
<1>4. r = [s EXCEPT !.staged = r.staged, !.held = r.held, !.bytes = r.bytes]
  BY <1>1, <1>3 DEF Unstaged, Stores
<1> HIDE DEF r
<1>5. StagedFit(s.at, s.traces, s.staged, s.held) /\ Sorted(s.held)
      /\ BytesFit(s.at, s.traces, s.held, s.bytes) /\ Sorted(s.traces)
  BY DEF Inv
<1>6. /\ RemoveFirst(s.staged, t) \in Seq(Traces) /\ IsInjective(RemoveFirst(s.staged, t))
      /\ ToSet(RemoveFirst(s.staged, t)) = ToSet(s.staged) \ {t}
  BY <1>2, <1>5, RemovedFirst DEF StagedFit
<1>7. /\ r.held \in [Traces -> Contents] /\ r.held[t] = Nothing
      /\ \A u \in Traces : u # t => r.held[u] = s.held[u]
  BY <1>2, <1>3, NothingIsThere
<1>8. Sorted(r.held)
  BY <1>5, <1>7, NothingIsThere DEF Sorted
<1>9. Size(ItemsAmong(r.held, Traces)) = Size(ItemsAmong(s.held, Traces)) - Bytes(s.held[t]) + 0
  <2>1. \A u \in Traces \ {t} : SameItems(s.held, r.held, u)
    BY <1>7 DEF SameItems
  <2>2. Size(ItemsAmong(r.held, Traces)) = Size(ItemsAmong(s.held, Traces))
            - Size(ItemsAmong(s.held, {t})) + Size(ItemsAmong(r.held, {t}))
    BY <1>5, <1>8, <2>1, SizeChange
  <2>3. ItemsAmong(s.held, {t}) = ItemsIn(s.held[t]) /\ ItemsAmong(r.held, {t}) = {}
    BY <1>7, AmongOne, NothingIsThere
  <2> QED
    BY <2>2, <2>3, SizeNone DEF Bytes
<1>10. Bytes(s.held[t]) \in Nat /\ r.bytes \in Int
       /\ BytesFit(r.at, r.traces, r.held, r.bytes)
  <2>1. /\ ItemsIn(s.held[t]) \in SUBSET Items /\ ItemsAmong(s.held, Traces) \in SUBSET Items
        /\ ItemsAmong(s.traces, Traces) \in SUBSET Items /\ ItemsAmong(r.held, Traces) \in SUBSET Items
    BY <1>2, <1>5, <1>8, AmongIsSorted DEF Contents, ItemsIn, Items
  <2>2. /\ Bytes(s.held[t]) \in Nat /\ Size(ItemsAmong(s.held, Traces)) \in Nat
        /\ Size(ItemsAmong(s.traces, Traces)) \in Nat /\ Size(ItemsAmong(r.held, Traces)) \in Nat
    BY <2>1, SizeType DEF Bytes
  <2>3. Limits[s.at].max_bytes \in Int
    BY <1>2, StoreAssumption
  <2>4. r.bytes = Size(ItemsAmong(s.traces, Traces)) + Size(ItemsAmong(r.held, Traces))
    BY <1>2, <1>3, <1>5, <1>9, <2>2 DEF BytesFit
  <2>5. r.bytes <= Limits[s.at].max_bytes
    BY <1>2, <1>3, <1>5, <2>2, <2>3 DEF BytesFit
  <2> QED
    BY <1>2, <1>3, <2>2, <2>4, <2>5 DEF BytesFit
<1>11. r \in Stores
  <2>1. r.staged \in Seq(Traces)
    BY <1>3, <1>6
  <2> QED
    BY <1>1, <1>4, <1>7, <1>10, <2>1 DEF Stores
<1>12. StagedFit(r.at, r.traces, r.staged, r.held)
  BY <1>3, <1>5, <1>6, <1>7 DEF StagedFit
<1>13. Inv(r, E, T)
  BY <1>3, <1>8, <1>10, <1>11, <1>12 DEF Inv, Live
<1>14. Dropped(s, r, t)
  BY <1>3, <1>6, <1>10 DEF Dropped
<1> QED
  BY <1>13, <1>14 DEF r

-----------------------------------------------------------------------------
(* Making room                                                             *)

\* Session x and the sessions that are not complete are in r as they were in s.
Keeps(s, r, x) ==
  /\ r.at = s.at /\ r.pending = s.pending /\ r.due = s.due /\ r.bytes <= s.bytes
  /\ \A id \in Live(s) : id = x \/ ~s.sessions[id].complete =>
       /\ id \in Live(r) /\ r.sessions[id] = s.sessions[id]
       /\ \A t \in Traces : s.traces[t].session = id => r.traces[t] = s.traces[t]
  /\ \A t \in Traces : s.traces[t].session = NoSession => r.traces[t] = s.traces[t]
  /\ \A t \in Traces : t \in ToSet(r.staged) => t \in ToSet(s.staged) /\ r.held[t] = s.held[t]

\* A store keeps what it has.
LEMMA KeepsItself ==
  ASSUME NEW s \in Stores, NEW x
  PROVE  Keeps(s, s, x)
<1>1. s.bytes <= s.bytes
  BY DEF Stores
<1> QED
  BY <1>1 DEF Keeps

\* What is kept twice is kept.
LEMMA KeepsOn ==
  ASSUME NEW s \in Stores, NEW r \in Stores, NEW q \in Stores, NEW x, Keeps(s, r, x), Keeps(r, q, x)
  PROVE  Keeps(s, q, x)
<1>1. q.bytes <= s.bytes
  <2>1. s.bytes \in Int /\ r.bytes \in Int /\ q.bytes \in Int
    BY DEF Stores
  <2> QED
    BY <2>1 DEF Keeps
<1>2. ASSUME NEW id \in Live(s), id = x \/ ~s.sessions[id].complete
      PROVE  /\ id \in Live(q) /\ q.sessions[id] = s.sessions[id]
             /\ \A t \in Traces : s.traces[t].session = id => q.traces[t] = s.traces[t]
  <2>1. /\ id \in Live(r) /\ r.sessions[id] = s.sessions[id]
        /\ \A t \in Traces : s.traces[t].session = id => r.traces[t] = s.traces[t]
    BY <1>2 DEF Keeps
  <2> QED
    BY <1>2, <2>1 DEF Keeps
<1> QED
  BY <1>1, <1>2 DEF Keeps

\* Removing another session that is complete keeps session x.
LEMMA WithoutKeeps ==
  ASSUME NEW s, NEW E, NEW T, Inv(s, E, T), NEW id \in Live(s), s.sessions[id].complete,
         NEW r, Without(s, r, id), NEW x, x # id
  PROVE  Keeps(s, r, x)
<1>1. id # NoSession
  BY NothingIsThere DEF Inv, Stores, Tables, Live
<1> QED
  BY <1>1 DEF Without, Keeps

\* Dropping a staged trace keeps every session.
LEMMA DroppedKeeps ==
  ASSUME NEW s, NEW E, NEW T, Inv(s, E, T), NEW t \in Traces, NEW r, Dropped(s, r, t), NEW x
  PROVE  Keeps(s, r, x)
<1>1. s.bytes \in Int /\ s.held \in [Traces -> Contents]
  BY DEF Inv, Stores
<1>2. r.bytes <= s.bytes
  BY <1>1 DEF Dropped
<1>3. \A u \in Traces : u \in ToSet(r.staged) => u \in ToSet(s.staged) /\ r.held[u] = s.held[u]
  BY <1>1 DEF Dropped
<1> QED
  BY <1>2, <1>3 DEF Dropped, Keeps, Live

\* Trace t holds something that is not to be lost: its session is in X or not finished.
Safe(s, t, X) == /\ Known(s, t) /\ ItemsIn(s.traces[t]) # {}
                 /\ s.traces[t].session \in X \/ ~s.sessions[s.traces[t].session].complete
\* What traces hold in s that is not to be lost is theirs in r, and not to be lost there.
Saved(s, r, X, Y) ==
  \A t \in Traces : Safe(s, t, X) => /\ Safe(r, t, Y)
                                     /\ s.traces[t].spans \subseteq r.traces[t].spans
                                     /\ s.traces[t].logs \subseteq r.traces[t].logs
\* No trace leaves its session or loses an item, and no session is finished.
Still(s, r) ==
  /\ \A t \in Traces : Known(s, t) /\ ItemsIn(s.traces[t]) # {} =>
       /\ r.traces[t].session = s.traces[t].session
       /\ s.traces[t].spans \subseteq r.traces[t].spans /\ s.traces[t].logs \subseteq r.traces[t].logs
  /\ \A i \in Live(s) \cap Live(r) : r.sessions[i].complete => s.sessions[i].complete

\* What is saved twice is saved.
LEMMA SavedOn ==
  ASSUME NEW s, NEW r, NEW q, NEW X, NEW Y, NEW Z, Saved(s, r, X, Y), Saved(r, q, Y, Z)
  PROVE  Saved(s, q, X, Z)
BY DEF Saved

\* Fewer sessions to begin with, or more in the end, ask for less.
LEMMA SavedLess ==
  ASSUME NEW s, NEW r, NEW X, NEW Y, NEW X2, NEW Y2, Saved(s, r, X, Y), X2 \subseteq X, Y \subseteq Y2
  PROVE  Saved(s, r, X2, Y2)
BY DEF Saved, Safe

\* The same sessions and traces hold the same.
LEMMA SameSaved ==
  ASSUME NEW s, NEW r, r.sessions = s.sessions, r.traces = s.traces, NEW X
  PROVE  Saved(s, r, X, X)
BY DEF Saved, Safe, Known

\* No session that is not finished loses an item.
NoneLost(s, r) ==
  \A t \in Traces : Known(s, t) /\ ~s.sessions[s.traces[t].session].complete =>
    s.traces[t].spans \subseteq r.traces[t].spans /\ s.traces[t].logs \subseteq r.traces[t].logs

\* What is saved is not lost.
LEMMA SavedIsNotLost ==
  ASSUME NEW s, NEW r, NEW Y, Saved(s, r, {}, Y)
  PROVE  NoneLost(s, r)
BY DEF Saved, Safe, NoneLost, ItemsIn

\* Nothing of a session that is kept is lost.
LEMMA KeptIsSaved ==
  ASSUME NEW s, NEW E, NEW T, Inv(s, E, T), NEW r, NEW x, Keeps(s, r, x)
  PROVE  Saved(s, r, {x}, {x}) /\ Saved(s, r, {}, {})
<1>1. \A t \in Traces : Known(s, t) => s.traces[t].session \in Live(s)
  BY DEF Inv, MembersFit, Known, Live
<1>2. ASSUME NEW t \in Traces, Safe(s, t, {x})
      PROVE  /\ r.traces[t] = s.traces[t] /\ Safe(r, t, {x})
             /\ Safe(s, t, {}) => Safe(r, t, {})
  <2>1. /\ s.traces[t].session \in Live(s)
        /\ s.traces[t].session = x \/ ~s.sessions[s.traces[t].session].complete
    BY <1>1, <1>2 DEF Safe
  <2>2. r.traces[t] = s.traces[t] /\ r.sessions[s.traces[t].session] = s.sessions[s.traces[t].session]
    BY <2>1 DEF Keeps
  <2> QED
    BY <1>2, <2>2 DEF Safe, Known
<1>3. \A t \in Traces : Safe(s, t, {}) => Safe(s, t, {x})
  BY DEF Safe
<1> QED
  BY <1>2, <1>3 DEF Saved

\* Nothing is lost where no trace leaves its session or loses an item.
LEMMA StillSaved ==
  ASSUME NEW s, NEW E, NEW T, Inv(s, E, T), NEW r, NEW E2, NEW T2, Inv(r, E2, T2), Still(s, r), NEW X
  PROVE  Saved(s, r, X, X)
<1> SUFFICES ASSUME NEW t \in Traces, Safe(s, t, X)
             PROVE  /\ Safe(r, t, X)
                    /\ s.traces[t].spans \subseteq r.traces[t].spans
                    /\ s.traces[t].logs \subseteq r.traces[t].logs
  BY DEF Saved
<1> DEFINE i == s.traces[t].session
<1>1. /\ r.traces[t].session = i /\ i # NoSession
      /\ s.traces[t].spans \subseteq r.traces[t].spans /\ s.traces[t].logs \subseteq r.traces[t].logs
      /\ ItemsIn(r.traces[t]) # {}
  BY DEF Safe, Still, Known, ItemsIn
<1>2. i \in Live(s) /\ i \in Live(r)
  BY <1>1 DEF Inv, MembersFit, Live
<1>3. i \in X \/ ~r.sessions[i].complete
  BY <1>2 DEF Safe, Still
<1> QED
  BY <1>1, <1>3 DEF Safe, Known

\* The two loops of _make_room.
Unstaging(s, size, seq) ==
  Each(LAMBDA acc, t : IF Roomy(acc, size) THEN acc ELSE Unstaged(acc, t), s, seq)
Evicting(s, size, x) ==
  Each(LAMBDA acc, id : IF Roomy(acc, size) THEN acc ELSE Removed(acc, id, NoSession),
       s, Evictable(s, x))

\* The first loop of _make_room, over staged traces, keeps the invariant and never drops
\* keep.
LEMMA StagedGo ==
  ASSUME NEW s, NEW E, NEW T, Inv(s, E, T), NEW seq \in Seq(Traces), NEW size, NEW x,
         NEW keep, keep \notin ToSet(seq)
  PROVE  LET r == Unstaging(s, size, seq)
         IN  /\ Inv(r, E, T) /\ Keeps(s, r, x)
             /\ r.sessions = s.sessions /\ r.traces = s.traces /\ r.finished = s.finished
             /\ keep \in ToSet(s.staged) => keep \in ToSet(r.staged)
<1> DEFINE Good(a) == /\ Inv(a, E, T) /\ Keeps(s, a, x)
                      /\ a.sessions = s.sessions /\ a.traces = s.traces /\ a.finished = s.finished
                      /\ keep \in ToSet(s.staged) => keep \in ToSet(a.staged)
           Op(acc, t) == IF Roomy(acc, size) THEN acc ELSE Unstaged(acc, t)
           L == Len(seq)
           Ok == {a \in Stores : Good(a)}
           H == [n \in 0..L |-> Ok]
           F == [p \in Stores \X (1..L) |-> IF p[1] \in Ok THEN Op(p[1], seq[p[2]]) ELSE p[1]]
<1>1. L \in Nat /\ \A n \in 1..L : seq[n] \in Traces /\ seq[n] # keep
  BY Elements
<1>2. s \in Ok
  BY KeepsItself DEF Inv
<1>3. ASSUME NEW a \in Ok, NEW t \in Traces, t # keep PROVE Op(a, t) \in Ok
  <2>1. Inv(Unstaged(a, t), E, T) /\ Dropped(a, Unstaged(a, t), t) /\ Inv(a, E, T)
    BY UnstagedFits
  <2>2. Keeps(a, Unstaged(a, t), x)
    BY <2>1, DroppedKeeps
  <2>3. Unstaged(a, t) \in Stores
    BY <2>1 DEF Inv
  <2>4. Keeps(s, Unstaged(a, t), x)
    <3>1. s \in Stores /\ a \in Stores /\ Keeps(s, a, x)
      BY <1>2
    <3> QED
      BY <2>2, <2>3, <3>1, KeepsOn
  <2>5. Good(Unstaged(a, t))
    BY <1>3, <2>1, <2>4 DEF Dropped
  <2> QED
    BY <2>3, <2>5
<1> HIDE DEF Ok, Op, L
<1>4. H \in [0..L -> SUBSET Stores] /\ s \in H[0]
  <2>1. Ok \in SUBSET Stores
    BY DEF Ok
  <2> QED
    BY <1>1, <1>2, <2>1
<1>5. /\ F \in [Stores \X (1..L) -> Stores]
      /\ \A n \in 1..L : \A a \in H[n - 1] : F[<<a, n>>] \in H[n]
  <2>1. \A a \in Ok : a \in Stores
    BY DEF Ok
  <2> QED
    BY <1>1, <1>3, <2>1
<1>6. \A n \in 1..L : \A a \in H[n - 1] : F[<<a, n>>] = Op(a, seq[n]) /\ Op(a, seq[n]) \in H[n]
  <2>1. \A a \in Ok : a \in Stores
    BY DEF Ok
  <2> QED
    BY <1>1, <1>3, <2>1
<1> HIDE DEF H, F
<1>7. PICK f : Recurs(f, s, L, H, F)
  BY <1>1, <1>4, <1>5, Recursion
<1> DEFINE Runs(g) == g = [n \in 0..L |-> IF n = 0 THEN s ELSE Op(g[n - 1], seq[n])]
           after == CHOOSE g : Runs(g)
<1>8. Runs(f)
  <2>1. \A n \in 0..L : n = 0 \/ n \in 1..L
    OBVIOUS
  <2>2. \A n \in 0..L : f[n] = IF n = 0 THEN s ELSE Op(f[n - 1], seq[n])
    BY <1>6, <1>7, <2>1 DEF Recurs
  <2> QED
    BY <1>7, <2>2 DEF Recurs
<1>9. Runs(after)
  BY <1>8
<1> HIDE DEF after
<1>10. after[L] \in H[L]
  <2>1. 0 \in 0..L /\ \A n \in 1..L : n \in 0..L /\ n # 0
    BY <1>1
  <2>2. after[0] = s /\ \A n \in 1..L : after[n] = Op(after[n - 1], seq[n])
    BY <1>9, <2>1
  <2>3. \A n \in 1..L : after[n - 1] \in H[n - 1] => after[n] \in H[n]
    BY <1>6, <2>2
  <2> QED
    BY <1>1, <1>4, <2>2, <2>3, RecursionStays
<1>11. after[L] \in Ok
  BY <1>1, <1>10 DEF H
<1>12. Unstaging(s, size, seq) = after[L]
  BY DEF Unstaging, Each, after, Op, L
<1> QED
  BY <1>11, <1>12 DEF Ok

\* The candidates for eviction are distinct live complete sessions other than x.
LEMMA EvictableFits ==
  ASSUME NEW s, NEW E, NEW T, Inv(s, E, T), NEW x
  PROVE  /\ Evictable(s, x) \in Seq(Ids) /\ Len(Evictable(s, x)) \in Nat
         /\ \A i, j \in 1..Len(Evictable(s, x)) : Evictable(s, x)[i] = Evictable(s, x)[j] => i = j
         /\ \A i \in 1..Len(Evictable(s, x)) :
              LET id == Evictable(s, x)[i] IN id # x /\ id \in Live(s) /\ s.sessions[id].complete
<1> DEFINE e == Evictable(s, x)
<1>1. s.finished \in Seq(Ids)
  BY DEF Inv, Stores
<1>2. FinishedFit(s.sessions, s.finished)
  BY DEF Inv
<1>3. e \in Seq(Ids) /\ IsInjective(e) /\ ToSet(e) = ToSet(s.finished) \ {x}
  BY <1>1, <1>2, RemovedFirst DEF FinishedFit, Evictable
<1> HIDE DEF e
<1>4. \A i, j \in 1..Len(e) : e[i] = e[j] => i = j
  BY <1>3, Injective
<1>5. \A i \in 1..Len(e) : e[i] # x /\ e[i] \in Live(s) /\ s.sessions[e[i]].complete
  BY <1>2, <1>3, Elements DEF FinishedFit, Live
<1>6. e \in Seq(Ids) /\ Len(e) \in Nat
  BY <1>3
<1> QED
  BY <1>4, <1>5, <1>6 DEF e

\* The second loop of _make_room, over sessions that are complete, keeps the invariant
\* and session x.
LEMMA SessionsGo ==
  ASSUME NEW s, NEW E, NEW T, Inv(s, E, T), NEW size, NEW x
  PROVE  LET r == Evicting(s, size, x)
         IN  Inv(r, E, T) /\ Keeps(s, r, x) /\ Live(r) \subseteq Live(s) /\ r.staged = s.staged
<1> DEFINE seq == Evictable(s, x)
           L == Len(seq)
           Good(a, n) == /\ Inv(a, E, T) /\ Keeps(s, a, x) /\ Live(a) \subseteq Live(s)
                         /\ a.staged = s.staged
                         /\ \A j \in (n + 1)..L : seq[j] \in Live(a) /\ a.sessions[seq[j]].complete
           Op(acc, id) == IF Roomy(acc, size) THEN acc ELSE Removed(acc, id, NoSession)
           H == [n \in 0..L |-> {a \in Stores : Good(a, n)}]
           F == [p \in Stores \X (1..L) |-> IF p[1] \in H[p[2] - 1] THEN Op(p[1], seq[p[2]]) ELSE p[1]]
<1>1. /\ L \in Nat /\ \A i, j \in 1..L : seq[i] = seq[j] => i = j
      /\ \A i \in 1..L : seq[i] # x /\ seq[i] \in Live(s) /\ s.sessions[seq[i]].complete
  BY EvictableFits
<1> HIDE DEF seq, L
<1>2. s \in Stores /\ Good(s, 0)
  <2>1. s \in Stores /\ Keeps(s, s, x)
    BY KeepsItself DEF Inv
  <2>2. 0 + 1 = 1
    OBVIOUS
  <2> QED
    BY <1>1, <2>1, <2>2
<1>3. ASSUME NEW n \in 1..L, NEW a \in Stores, Good(a, n - 1)
      PROVE  Op(a, seq[n]) \in Stores /\ Good(Op(a, seq[n]), n)
  <2>1. n \in (n - 1 + 1)..L /\ \A j \in (n + 1)..L : j \in (n - 1 + 1)..L /\ j # n /\ j \in 1..L
    BY <1>1
  <2>2. /\ seq[n] \in Live(a) /\ a.sessions[seq[n]].complete
        /\ \A j \in (n + 1)..L : seq[j] \in Live(a) /\ a.sessions[seq[j]].complete
    BY <1>3, <2>1
  <2>3. CASE Roomy(a, size)
    BY <1>3, <2>2, <2>3
  <2>4. CASE ~Roomy(a, size)
    <3> DEFINE r == Removed(a, seq[n], NoSession)
    <3>1. Inv(r, E, T) /\ Without(a, r, seq[n])
      <4>1. NoSession \in Ids \cup {NoSession}
        OBVIOUS
      <4> QED
        BY <1>3, <2>2, <4>1, RemovedFits
    <3> HIDE DEF r
    <3>2. Keeps(a, r, x)
      BY <1>1, <1>3, <2>2, <3>1, WithoutKeeps
    <3>3. r \in Stores
      BY <3>1 DEF Inv
    <3>4. Keeps(s, r, x)
      BY <1>2, <1>3, <3>2, <3>3, KeepsOn
    <3>5. \A j \in (n + 1)..L : seq[j] \in Live(r) /\ r.sessions[seq[j]].complete
      <4>1. \A j \in (n + 1)..L : seq[j] # seq[n]
        BY <1>1, <2>1
      <4> QED
        BY <2>2, <3>1, <4>1 DEF Without
    <3>6. Live(r) \subseteq Live(s) /\ r.staged = s.staged
      BY <1>3, <3>1 DEF Without
    <3>7. Good(r, n)
      BY <3>1, <3>4, <3>5, <3>6
    <3> QED
      BY <2>4, <3>3, <3>7 DEF r
  <2> QED
    BY <2>3, <2>4
<1> HIDE DEF Good, Op
<1>4. H \in [0..L -> SUBSET Stores] /\ s \in H[0]
  BY <1>1, <1>2
<1>5. \A n \in 1..L : n - 1 \in 0..L /\ n \in 0..L
  BY <1>1
<1>6. /\ F \in [Stores \X (1..L) -> Stores]
      /\ \A n \in 1..L : \A a \in H[n - 1] : F[<<a, n>>] \in H[n]
  BY <1>3, <1>5
<1>7. \A n \in 1..L : \A a \in H[n - 1] : F[<<a, n>>] = Op(a, seq[n]) /\ Op(a, seq[n]) \in H[n]
  BY <1>3, <1>5
<1> HIDE DEF F
<1>8. PICK f : Recurs(f, s, L, H, F)
  <2> HIDE DEF H
  <2> QED
    BY <1>1, <1>4, <1>6, Recursion
<1> DEFINE Runs(g) == g = [n \in 0..L |-> IF n = 0 THEN s ELSE Op(g[n - 1], seq[n])]
           after == CHOOSE g : Runs(g)
<1>9. Runs(f)
  <2> HIDE DEF H
  <2>1. \A n \in 0..L : n = 0 \/ n \in 1..L
    OBVIOUS
  <2>2. \A n \in 0..L : f[n] = IF n = 0 THEN s ELSE Op(f[n - 1], seq[n])
    BY <1>7, <1>8, <2>1 DEF Recurs
  <2> QED
    BY <1>8, <2>2 DEF Recurs
<1>10. Runs(after)
  BY <1>9
<1> HIDE DEF after
<1>11. after[L] \in H[L]
  <2> HIDE DEF H
  <2>1. 0 \in 0..L /\ \A n \in 1..L : n \in 0..L /\ n # 0
    BY <1>1
  <2>2. after[0] = s /\ \A n \in 1..L : after[n] = Op(after[n - 1], seq[n])
    BY <1>10, <2>1
  <2>3. \A n \in 1..L : after[n - 1] \in H[n - 1] => after[n] \in H[n]
    BY <1>7, <2>2
  <2> QED
    BY <1>1, <1>4, <2>2, <2>3, RecursionStays
<1>12. Good(after[L], L)
  BY <1>1, <1>11
<1>13. Evicting(s, size, x) = after[L]
  BY DEF Evicting, Each, after, Op, L, seq
<1> QED
  BY <1>12, <1>13 DEF Good

\* _make_room keeps the invariant, session x, every session that is not complete and
\* what keep holds.
LEMMA MadeRoomFits ==
  ASSUME NEW s, NEW E, NEW T, Inv(s, E, T), NEW size, NEW x, NEW keep
  PROVE  LET r == MadeRoom(s, size, x, keep)
         IN  /\ Inv(r, E, T) /\ Keeps(s, r, x) /\ Live(r) \subseteq Live(s)
             /\ keep \in ToSet(s.staged) => keep \in ToSet(r.staged)
<1> DEFINE seq == RemoveFirst(s.staged, keep)
           q == Unstaging(s, size, seq)
           r == Evicting(q, size, x)
<1>1. seq \in Seq(Traces) /\ keep \notin ToSet(seq)
  <2>1. s.staged \in Seq(Traces) /\ IsInjective(s.staged)
    BY DEF Inv, Stores, StagedFit
  <2> QED
    BY <2>1, RemovedFirst
<1> HIDE DEF seq
<1>2. /\ Inv(q, E, T) /\ Keeps(s, q, x) /\ q.sessions = s.sessions /\ q.finished = s.finished
      /\ keep \in ToSet(s.staged) => keep \in ToSet(q.staged)
  BY <1>1, StagedGo
<1> HIDE DEF q
<1>3. Evictable(s, x) = Evictable(q, x)
  BY <1>2 DEF Evictable
<1>4. MadeRoom(s, size, x, keep) = r
  BY <1>3 DEF MadeRoom, Unstaging, Evicting, seq, q
<1>5. Inv(r, E, T) /\ Keeps(q, r, x) /\ Live(r) \subseteq Live(q) /\ r.staged = q.staged
  BY <1>2, SessionsGo
<1> HIDE DEF r
<1>6. s \in Stores /\ q \in Stores /\ r \in Stores
  BY <1>2, <1>5 DEF Inv
<1>7. Keeps(s, r, x)
  BY <1>2, <1>5, <1>6, KeepsOn
<1>8. Live(r) \subseteq Live(s)
  BY <1>2, <1>5 DEF Live
<1> QED
  BY <1>2, <1>4, <1>5, <1>7, <1>8

-----------------------------------------------------------------------------
(* Finding a session                                                       *)

\* What sessions are named for.
Names == Traces \cup {Name[k] : k \in Keys} \cup {b.name : b \in UNION {Bundles[d] : d \in Deployments}}

\* A session without traces counts nothing.
LEMMA EmptyCounts ==
  ASSUME NEW rows, NEW row, row.traces = {}, row.spans = 0, row.logs = 0
  PROVE  Counted(row, rows)
<1>1. SpansAmong(rows, {}) = {} /\ LogsAmong(rows, {}) = {}
  BY DEF SpansAmong, LogsAmong
<1> QED
  BY <1>1, FS_EmptySet DEF Counted

\* A store that is full loses its oldest complete session.
LEMMA EvictionFits ==
  ASSUME NEW s, NEW E, NEW T, Inv(s, E, T), NEW x, Evictable(s, x) # << >>
  PROVE  LET r == Removed(s, Head(Evictable(s, x)), NoSession)
         IN  Inv(r, E, T) /\ Keeps(s, r, x)
<1> DEFINE id == Head(Evictable(s, x))
<1>1. 1 \in 1..Len(Evictable(s, x)) /\ id = Evictable(s, x)[1]
  BY EvictableFits
<1>2. id # x /\ id \in Live(s) /\ s.sessions[id].complete
  BY <1>1, EvictableFits
<1> HIDE DEF id
<1>3. NoSession \in Ids \cup {NoSession}
  OBVIOUS
<1>4. Inv(Removed(s, id, NoSession), E, T) /\ Without(s, Removed(s, id, NoSession), id)
  BY <1>2, <1>3, RemovedFits
<1>5. Keeps(s, Removed(s, id, NoSession), x)
  BY <1>2, <1>4, WithoutKeeps
<1> QED
  BY <1>4, <1>5 DEF id

\* r is s with one more session.
Started(s, r, id, session) ==
  /\ r.at = s.at /\ r.traces = s.traces /\ r.staged = s.staged /\ r.held = s.held
  /\ r.pending = s.pending /\ r.due = s.due /\ r.finished = s.finished /\ r.bytes = s.bytes
  /\ r.sessions = [i \in DOMAIN s.sessions \cup {id} |-> IF i = id THEN session ELSE s.sessions[i]]
  /\ r.heads = [k \in Keys |-> IF k = session.key THEN id ELSE s.heads[k]]

\* A session that has just been started.
IsBlank(session) == session \in SessionRows /\ session.traces = {} /\ session.spans = 0
                    /\ session.logs = 0 /\ ~session.complete

\* A started session is empty until its first trace is attached; all else stays.
LEMMA StartedFits ==
  ASSUME NEW s, NEW E, NEW T, Inv(s, E, T), NEW id \in Ids, id \notin Live(s), NEW session, IsBlank(session),
         NEW r \in Stores, Started(s, r, id, session), NEW x
  PROVE  Inv(r, E \cup {id}, T) /\ Keeps(s, r, x) /\ Live(r) = Live(s) \cup {id}
         /\ r.sessions[id] = session
<1>1. /\ DOMAIN r.sessions = DOMAIN s.sessions \cup {id} /\ r.sessions[id] = session
      /\ id \notin DOMAIN s.sessions
      /\ \A i \in DOMAIN s.sessions : i # id /\ r.sessions[i] = s.sessions[i]
  BY DEF Started, Live
<1>2. IsFiniteSet(DOMAIN r.sessions)
  <2>1. IsFiniteSet(DOMAIN s.sessions)
    BY DEF Inv, Live
  <2> QED
    BY <1>1, <2>1, FS_AddElement
<1>3. MembersFit(r.sessions, r.traces)
  <2>1. MembersFit(s.sessions, s.traces) /\ r.traces = s.traces
    BY DEF Inv, Started
  <2>2. ASSUME NEW i \in DOMAIN r.sessions
        PROVE  /\ r.sessions[i].traces = {t \in Traces : r.traces[t].session = i}
               /\ Counted(r.sessions[i], r.traces)
    <3>1. CASE i = id
      <4>1. \A t \in Traces : r.traces[t].session # id
        BY <1>1, <2>1, NothingIsThere DEF MembersFit
      <4> QED
        BY <1>1, <3>1, <4>1, EmptyCounts DEF IsBlank
    <3>2. CASE i # id
      BY <1>1, <2>1, <3>2 DEF MembersFit
    <3> QED
      BY <3>1, <3>2
  <2> QED
    BY <1>1, <2>1, <2>2 DEF MembersFit
<1>4. FinishedFit(r.sessions, r.finished)
  <2>1. FinishedFit(s.sessions, s.finished) /\ r.finished = s.finished
    BY DEF Inv, Started
  <2>2. {i \in DOMAIN r.sessions : r.sessions[i].complete} = {i \in DOMAIN s.sessions : s.sessions[i].complete}
    BY <1>1 DEF IsBlank
  <2> QED
    BY <2>1, <2>2 DEF FinishedFit
<1>5. HeadsFit(r.sessions, r.heads)
  <2>1. HeadsFit(s.sessions, s.heads)
    BY DEF Inv
  <2>2. \A k \in Keys : r.heads[k] = IF k = session.key THEN id ELSE s.heads[k]
    BY DEF Started
  <2> QED
    BY <1>1, <2>1, <2>2 DEF HeadsFit
<1>6. FullFit(r.sessions, r.traces, E \cup {id}, T)
  <2>1. FullFit(s.sessions, s.traces, E, T) /\ r.traces = s.traces
    BY DEF Inv, Started
  <2> QED
    BY <1>1, <2>1 DEF FullFit
<1>7. Inv(r, E \cup {id}, T)
  BY <1>2, <1>3, <1>4, <1>5, <1>6 DEF Inv, Live, Started
<1>8. Keeps(s, r, x)
  <2>1. s.bytes \in Int
    BY DEF Inv, Stores
  <2> QED
    BY <1>1, <2>1 DEF Keeps, Started, Live
<1> QED
  BY <1>1, <1>7, <1>8 DEF Live

\* n is the store s and a session of it for key, found or started.
Chosen(s, n, key, x) ==
  /\ n.id \in Live(n.st) /\ n.id \in Ids /\ Inv(n.st, {n.id}, {}) /\ Keeps(s, n.st, x)
  /\ n.st.sessions[n.id].key = key
  /\ Inv(n.st, {}, {}) \/ n.st.sessions[n.id].traces = {}
  /\ x \in Live(s) /\ s.sessions[x].key # key => n.id # x

\* _new_session refuses and leaves the store alone, or starts an empty session for the
\* key.
LEMMA NewSessionFits ==
  ASSUME NEW s, Inv(s, {}, {}), NEW name \in Names, NEW key \in Keys \cup {NoKey}, NEW x \in Items,
         NEW exclude
  PROVE  LET n == NewSession(s, name, key, Attr[x], exclude)
         IN  (n.id = NoSession /\ n.st = s) \/ Chosen(s, n, key, exclude)
<1> DEFINE full == Cardinality(Live(s)) >= Limit(s).max_sessions
           room == IF full THEN Removed(s, Head(Evictable(s, exclude)), NoSession) ELSE s
           id == FreshId(room, name)
           session == [key |-> key, run |-> Attr[x].run, instance |-> Attr[x].instance, traces |-> {},
                       complete |-> FALSE, spans |-> 0, logs |-> 0]
           n == NewSession(s, name, key, Attr[x], exclude)
<1>1. CASE full /\ Evictable(s, exclude) = << >>
  BY <1>1 DEF NewSession
<1>2. CASE ~(full /\ Evictable(s, exclude) = << >>)
  <2>1. Inv(room, {}, {}) /\ Keeps(s, room, exclude)
    <3>1. CASE full
      BY <1>2, <3>1, EvictionFits
    <3>2. CASE ~full
      <4>1. s \in Stores
        BY DEF Inv
      <4> QED
        BY <3>2, <4>1, KeepsItself
    <3> QED
      BY <3>1, <3>2
  <2> HIDE DEF room
  <2>2. id \in Ids /\ id \notin Live(room)
    <3>1. IsFiniteSet(Live(room))
      BY <2>1 DEF Inv
    <3> QED
      BY <3>1, FreshIdIsFree DEF Names
  <2>3. session \in SessionRows
    BY DEF SessionRows
  <2> DEFINE r == [room EXCEPT
                 !.sessions = [i \in Live(room) \cup {id} |->
                                 IF i = id THEN session ELSE room.sessions[i]],
                 !.heads = [k \in Keys |-> IF k = key THEN id ELSE room.heads[k]],
                 !.events = Append(room.events, <<"started", id>>)]
  <2>4. n.id = id /\ n.st = r
    BY <1>2 DEF NewSession, room
  <2> HIDE DEF n, id, session
  <2>5. room \in Stores /\ session.key = key /\ session.traces = {} /\ IsBlank(session)
    BY <2>1, <2>3 DEF session, Inv, IsBlank
  <2>6. Started(room, r, id, session)
    BY <2>5 DEF Started, Stores, Live
  <2>7. r \in Stores
    <3>1. [i \in Live(room) \cup {id} |-> IF i = id THEN session ELSE room.sessions[i]] \in Tables
      <4>1. room.sessions \in Tables
        BY <2>5 DEF Stores
      <4>2. [i \in DOMAIN room.sessions \cup {id} |-> IF i = id THEN session ELSE room.sessions[i]] \in Tables
        BY <2>2, <2>3, <4>1, RowAdded
      <4> QED
        BY <4>2 DEF Live
    <3>2. [k \in Keys |-> IF k = key THEN id ELSE room.heads[k]] \in [Keys -> Ids \cup {NoSession}]
      BY <2>2, <2>5 DEF Stores
    <3>3. Append(room.events, <<"started", id>>) \in Seq(Events)
      <4>1. room.events \in Seq(Events) /\ <<"started", id>> \in Events
        BY <2>2, <2>5 DEF Stores, Events
      <4> QED
        BY <4>1
    <3> QED
      BY <2>5, <3>1, <3>2, <3>3 DEF Stores
  <2> HIDE DEF r
  <2>8. Inv(r, {} \cup {id}, {}) /\ Keeps(room, r, exclude) /\ Live(r) = Live(room) \cup {id}
        /\ r.sessions[id] = session
    <3>1. Inv(room, {}, {}) /\ id \in Ids /\ id \notin Live(room) /\ IsBlank(session)
          /\ r \in Stores /\ Started(room, r, id, session)
      BY <2>1, <2>2, <2>5, <2>6, <2>7
    <3> QED
      BY ONLY <3>1, StartedFits
  <2>9. Keeps(s, r, exclude)
    <3>1. s \in Stores
      BY DEF Inv
    <3> QED
      BY <2>1, <2>5, <2>7, <2>8, <3>1, KeepsOn
  <2>10. exclude \in Live(s) => exclude \in Live(room)
    BY <2>1 DEF Keeps
  <2>11. {} \cup {id} = {id}
    OBVIOUS
  <2>12. Chosen(s, n, key, exclude)
    BY <2>2, <2>4, <2>5, <2>8, <2>9, <2>10, <2>11 DEF Chosen
  <2> QED
    BY <2>12 DEF n
<1> QED
  BY <1>1, <1>2

\* _head and _new_session refuse, or choose a session that has the key it was asked for.
LEMMA SessionForFits ==
  ASSUME NEW s, Inv(s, {}, {}), NEW key \in Keys, NEW x \in Items, NEW passed, NEW exclude
  PROVE  LET n == SessionFor(s, key, Attr[x], passed, exclude)
         IN  (n.id = NoSession /\ n.st = s) \/ Chosen(s, n, key, exclude)
<1> DEFINE id == s.heads[key]
           joins == /\ id # NoSession
                    /\ Attr[x].run = None \/ s.sessions[id].run = Attr[x].run
                    /\ ~IsRerun(s.sessions[id], Attr[x], passed)
           n == SessionFor(s, key, Attr[x], passed, exclude)
<1>1. CASE joins
  <2>1. n = [st |-> s, id |-> id]
    BY <1>1 DEF SessionFor
  <2>2. id \in Live(s) /\ s.sessions[id].key = key
    BY <1>1 DEF Inv, HeadsFit, Live
  <2>3. s \in Stores /\ id \in Ids
    BY <2>2 DEF Inv, Stores, Tables, Live
  <2>4. Keeps(s, s, exclude)
    BY <2>3, KeepsItself
  <2>5. Inv(s, {id}, {})
    BY DEF Inv, FullFit
  <2> HIDE DEF n, id
  <2>6. Chosen(s, n, key, exclude)
    BY <2>1, <2>2, <2>3, <2>4, <2>5 DEF Chosen
  <2> QED
    BY <2>6 DEF n
<1>2. CASE ~joins
  <2>1. n = NewSession(s, Name[key], key, Attr[x], exclude)
    BY <1>2 DEF SessionFor
  <2>2. Name[key] \in Names /\ key \in Keys \cup {NoKey}
    BY DEF Names
  <2> HIDE DEF n
  <2> QED
    BY <2>1, <2>2, NewSessionFits DEF n
<1> QED
  BY <1>1, <1>2

-----------------------------------------------------------------------------
(* Changing a trace and its session                                        *)

\* r is s but for its events and deadlines.
SameTables(s, r) ==
  /\ r.at = s.at /\ r.sessions = s.sessions /\ r.traces = s.traces /\ r.staged = s.staged
  /\ r.held = s.held /\ r.pending = s.pending /\ r.heads = s.heads /\ r.finished = s.finished
  /\ r.bytes = s.bytes

\* Events and deadlines are no part of what the invariant says of the tables.
LEMMA EventsAside ==
  ASSUME NEW s, NEW E, NEW T, Inv(s, E, T), NEW r \in Stores, SameTables(s, r)
  PROVE  Inv(r, E, T)
BY DEF Inv, SameTables, Live

\* Sessions and traces that turn out to hold something, or to be gone.
LEMMA Filled ==
  ASSUME NEW s, NEW E, NEW T, NEW E2, NEW T2, Inv(s, E, T),
         \A id \in Live(s) : id \in E \ E2 => s.sessions[id].traces # {},
         \A t \in Traces : t \in T \ T2 /\ s.traces[t].session # NoSession => ItemsIn(s.traces[t]) # {}
  PROVE  Inv(s, E2, T2)
<1>1. FullFit(s.sessions, s.traces, E2, T2)
  BY DEF Inv, FullFit, Live
<1> QED
  BY <1>1 DEF Inv

\* Marking a session dirty changes no table.
LEMMA DirtyFits ==
  ASSUME NEW s, NEW E, NEW T, Inv(s, E, T), NEW id \in Ids
  PROVE  Inv(Dirty(s, id), E, T) /\ SameTables(s, Dirty(s, id)) /\ Dirty(s, id).due = s.due
<1>1. s \in Stores /\ s.events \in Seq(Events) /\ <<"dirty", id>> \in Events
  BY DEF Inv, Stores, Events
<1>2. Append(s.events, <<"dirty", id>>) \in Seq(Events)
  BY <1>1
<1>3. Dirty(s, id) \in Stores /\ SameTables(s, Dirty(s, id)) /\ Dirty(s, id).due = s.due
  BY <1>1, <1>2 DEF Dirty, Stores, SameTables
<1> QED
  BY <1>3, EventsAside

\* Arming a deadline changes no table.
LEMMA ArmFits ==
  ASSUME NEW s, NEW E, NEW T, Inv(s, E, T), NEW id \in Traces \cup Ids
  PROVE  Inv(Arm(s, id), E, T) /\ SameTables(s, Arm(s, id))
<1>1. s \in Stores /\ s.due \cup {id} \in SUBSET (Traces \cup Ids)
  BY DEF Inv, Stores
<1>2. Arm(s, id) \in Stores /\ SameTables(s, Arm(s, id))
  BY <1>1 DEF Arm, Stores, SameTables
<1> QED
  BY <1>2, EventsAside

\* Trace t, which is session id's or nobody's, gets another row, and so does id.
RowsChanged(s, r, t, id, trow, row) ==
  /\ r.at = s.at /\ r.staged = s.staged /\ r.held = s.held /\ r.pending = s.pending
  /\ r.heads = s.heads /\ r.due = s.due /\ r.finished = s.finished /\ r.events = s.events
  /\ r.sessions = [s.sessions EXCEPT ![id] = row]
  /\ r.traces = [s.traces EXCEPT ![t] = trow]
  /\ s.traces[t].session \in {id, NoSession} /\ trow.session \in {id, NoSession}
  /\ trow.session = NoSession => trow = NoTrace
  /\ s.traces[t].session = NoSession => t \notin ToSet(s.staged)
  /\ trow \in TraceRows /\ \A x \in ItemsIn(trow) : Attr[x].trace = t
  /\ row \in SessionRows
  /\ row.key = s.sessions[id].key /\ row.complete = s.sessions[id].complete
  /\ row.traces = IF trow.session = id THEN s.sessions[id].traces \cup {t}
                  ELSE s.sessions[id].traces \ {t}
  /\ row.spans = s.sessions[id].spans - Share(Cardinality(s.traces[t].spans), t, s.sessions[id].traces)
                                      + Share(Cardinality(trow.spans), t, row.traces)
  /\ row.logs = s.sessions[id].logs - Share(Cardinality(s.traces[t].logs), t, s.sessions[id].traces)
                                    + Share(Cardinality(trow.logs), t, row.traces)
  /\ r.bytes = s.bytes - Size(ItemsIn(s.traces[t])) + Size(ItemsIn(trow))
  /\ r.bytes <= Limits[s.at].max_bytes

\* A trace and its session may change together: the one change every method that fills,
\* empties or attaches a trace is made of.
LEMMA RowChange ==
  ASSUME NEW s, NEW E, NEW T, Inv(s, E, T), NEW t \in Traces, NEW id \in Live(s), NEW trow, NEW row,
         NEW r, RowsChanged(s, r, t, id, trow, row),
         r = [s EXCEPT !.sessions = r.sessions, !.traces = r.traces, !.bytes = r.bytes]
  PROVE  Inv(r, E \cup {id}, T \cup {t})
<1>1. s \in Stores /\ s.sessions \in Tables /\ s.traces \in [Traces -> TraceRows] /\ s.bytes \in Int
  BY DEF Inv, Stores
<1>2. id \in DOMAIN s.sessions /\ id \in Ids /\ row \in SessionRows /\ id # NoSession
  BY <1>1, NothingIsThere DEF Tables, Live, RowsChanged
<1>3. /\ r.sessions \in Tables /\ DOMAIN r.sessions = DOMAIN s.sessions
      /\ r.sessions[id] = row
      /\ \A i \in DOMAIN s.sessions : i # id => r.sessions[i] = s.sessions[i]
      /\ \A i \in DOMAIN s.sessions : i \in Ids /\ s.sessions[i] \in SessionRows
  <2> DEFINE f == [s.sessions EXCEPT ![id] = row]
  <2>1. f \in Tables
    BY <1>1, <1>2, RowSet
  <2>2. DOMAIN f = DOMAIN s.sessions
    BY <1>1, <1>2, RowSet
  <2>3. \A i \in DOMAIN s.sessions : f[i] = IF i = id THEN row ELSE s.sessions[i]
    BY <1>1, <1>2, RowSet
  <2>4. \A i \in DOMAIN s.sessions : i \in Ids /\ s.sessions[i] \in SessionRows
    BY <1>1, <1>2, RowSet
  <2> HIDE DEF f
  <2>5. r.sessions = f
    BY DEF RowsChanged, f
  <2> QED
    BY <1>2, <2>1, <2>2, <2>3, <2>4, <2>5
<1>4. /\ r.traces \in [Traces -> TraceRows] /\ r.traces[t] = trow
      /\ \A u \in Traces : u # t => r.traces[u] = s.traces[u]
  BY <1>1 DEF RowsChanged
<1>5. Sorted(s.traces) /\ Sorted(r.traces)
  <2>1. Sorted(s.traces) /\ trow \in TraceRows /\ \A x \in ItemsIn(trow) : Attr[x].trace = t
    BY DEF Inv, RowsChanged
  <2> QED
    BY <1>4, <2>1 DEF Sorted, TraceRows
<1>6. r.bytes \in Int /\ BytesFit(r.at, r.traces, r.held, r.bytes)
  <2>1. \A u \in Traces \ {t} : SameItems(s.traces, r.traces, u)
    BY <1>4 DEF SameItems
  <2>2. Size(ItemsAmong(r.traces, Traces)) = Size(ItemsAmong(s.traces, Traces))
            - Size(ItemsAmong(s.traces, {t})) + Size(ItemsAmong(r.traces, {t}))
    BY <1>5, <2>1, SizeChange
  <2>3. ItemsAmong(s.traces, {t}) = ItemsIn(s.traces[t]) /\ ItemsAmong(r.traces, {t}) = ItemsIn(trow)
    BY <1>4, AmongOne
  <2>4. r.held = s.held /\ BytesFit(s.at, s.traces, s.held, s.bytes) /\ Sorted(s.held)
        /\ r.at = s.at /\ r.bytes <= Limits[s.at].max_bytes
        /\ r.bytes = s.bytes - Size(ItemsIn(s.traces[t])) + Size(ItemsIn(trow))
    BY DEF Inv, RowsChanged
  <2>5. /\ ItemsAmong(s.traces, Traces) \in SUBSET Items /\ ItemsAmong(s.held, Traces) \in SUBSET Items
        /\ ItemsIn(s.traces[t]) \in SUBSET Items /\ ItemsIn(trow) \in SUBSET Items
    BY <1>4, <1>5, <2>4, AmongIsSorted DEF Sorted, ItemsIn, Items
  <2> DEFINE a == Size(ItemsAmong(s.traces, Traces))
             b == Size(ItemsIn(s.traces[t]))
             c == Size(ItemsIn(trow))
             d == Size(ItemsAmong(s.held, Traces))
  <2>6. a \in Nat /\ b \in Nat /\ c \in Nat /\ d \in Nat
    BY <2>5, SizeType
  <2>7. Size(ItemsAmong(r.traces, Traces)) = a - b + c
    BY <2>2, <2>3
  <2>8. s.bytes = a + d /\ r.bytes = s.bytes - b + c
    BY <2>4 DEF BytesFit
  <2> HIDE DEF a, b, c, d
  <2>9. r.bytes = (a - b + c) + d /\ r.bytes \in Int
    BY <2>6, <2>8
  <2> QED
    BY <2>4, <2>7, <2>9 DEF BytesFit, d
<1>7. r \in Stores
  BY <1>1, <1>3, <1>4, <1>6 DEF Stores
<1>8. MembersFit(s.sessions, s.traces) /\ MembersFit(r.sessions, r.traces)
  <2>1. MembersFit(s.sessions, s.traces)
    BY DEF Inv
  <2>2. s.traces[t].session \in {id, NoSession} /\ trow.session \in {id, NoSession}
    BY DEF RowsChanged
  <2>3. row.traces = {u \in Traces : r.traces[u].session = id}
    <3>1. row.traces = IF trow.session = id THEN s.sessions[id].traces \cup {t} ELSE s.sessions[id].traces \ {t}
      BY DEF RowsChanged
    <3>2. s.sessions[id].traces = {u \in Traces : s.traces[u].session = id}
      BY <1>2, <2>1 DEF MembersFit
    <3> QED
      BY <1>4, <3>1, <3>2
  <2>4. Counted(row, r.traces)
    <3>1. s.sessions[id] \in SessionRows /\ Counted(s.sessions[id], s.traces)
      BY <1>2, <1>3, <2>1 DEF MembersFit
    <3>2. s.sessions[id].traces \ {t} = row.traces \ {t}
      BY DEF RowsChanged
    <3>3. \A u \in s.sessions[id].traces \ {t} : SameItems(s.traces, r.traces, u)
      BY <1>4, <3>1 DEF SameItems, SessionRows
    <3>4. row.spans = s.sessions[id].spans - Share(Cardinality(s.traces[t].spans), t, s.sessions[id].traces)
                                      + Share(Cardinality(r.traces[t].spans), t, row.traces)
      BY <1>4 DEF RowsChanged
    <3>5. row.logs = s.sessions[id].logs - Share(Cardinality(s.traces[t].logs), t, s.sessions[id].traces)
                                    + Share(Cardinality(r.traces[t].logs), t, row.traces)
      BY <1>4 DEF RowsChanged
    <3> QED
      BY ONLY <1>2, <1>5, <3>1, <3>2, <3>3, <3>4, <3>5, CountsChange
  <2>5. ASSUME NEW i \in DOMAIN r.sessions, i # id
        PROVE  /\ r.sessions[i].traces = {u \in Traces : r.traces[u].session = i}
               /\ Counted(r.sessions[i], r.traces)
    <3>1. i \in DOMAIN s.sessions /\ r.sessions[i] = s.sessions[i] /\ i # NoSession
      BY <1>3, <2>5, NothingIsThere
    <3>2. s.sessions[i].traces = {u \in Traces : s.traces[u].session = i} /\ Counted(s.sessions[i], s.traces)
      BY <2>1, <3>1 DEF MembersFit
    <3>3. \A u \in Traces : (r.traces[u].session = i <=> s.traces[u].session = i)
                            /\ (s.traces[u].session = i => r.traces[u] = s.traces[u])
      BY <1>4, <2>2, <2>5, <3>1
    <3>4. \A u \in s.sessions[i].traces : SameItems(s.traces, r.traces, u)
      BY <3>2, <3>3 DEF SameItems
    <3>5. Counted(r.sessions[i], r.traces)
      BY <3>1, <3>2, <3>4, CountsStay
    <3> QED
      BY <3>1, <3>2, <3>3, <3>5
  <2>6. \A u \in Traces : r.traces[u].session # NoSession => r.traces[u].session \in DOMAIN r.sessions
    BY <1>2, <1>3, <1>4, <2>1, <2>2 DEF MembersFit
  <2>7. \A u \in Traces : r.traces[u].session = NoSession => r.traces[u] = NoTrace
    <3>1. trow.session = NoSession => trow = NoTrace
      BY DEF RowsChanged
    <3> QED
      BY <1>4, <2>1, <3>1 DEF MembersFit
  <2> QED
    BY <1>3, <2>1, <2>3, <2>4, <2>5, <2>6, <2>7 DEF MembersFit
<1>9. FinishedFit(r.sessions, r.finished)
  <2>1. FinishedFit(s.sessions, s.finished) /\ r.finished = s.finished /\ row.complete = s.sessions[id].complete
    BY DEF Inv, RowsChanged
  <2>2. {i \in DOMAIN r.sessions : r.sessions[i].complete} = {i \in DOMAIN s.sessions : s.sessions[i].complete}
    BY <1>3, <2>1
  <2> QED
    BY <2>1, <2>2 DEF FinishedFit
<1>10. HeadsFit(r.sessions, r.heads)
  <2>1. HeadsFit(s.sessions, s.heads) /\ r.heads = s.heads /\ row.key = s.sessions[id].key
    BY DEF Inv, RowsChanged
  <2> QED
    BY <1>3, <2>1 DEF HeadsFit
<1>11. FullFit(r.sessions, r.traces, E \cup {id}, T \cup {t})
  <2>1. FullFit(s.sessions, s.traces, E, T)
    BY DEF Inv
  <2> QED
    BY <1>3, <1>4, <2>1 DEF FullFit
<1>12. StagedFit(r.at, r.traces, r.staged, r.held)
  <2>1. StagedFit(s.at, s.traces, s.staged, s.held) /\ r.at = s.at /\ r.staged = s.staged /\ r.held = s.held
        /\ (s.traces[t].session = NoSession => t \notin ToSet(s.staged))
    BY DEF Inv, RowsChanged
  <2> QED
    BY <1>4, <2>1 DEF StagedFit
<1> QED
  BY <1>3, <1>5, <1>6, <1>7, <1>8, <1>9, <1>10, <1>11, <1>12 DEF Inv, Live, RowsChanged

\* _discard_if_empty ends the exemption of session id, and loses nothing.
LEMMA DiscardedFits ==
  ASSUME NEW s, NEW T, NEW id \in Live(s), Inv(s, {id}, T)
  PROVE  Inv(Discarded(s, id), {}, T) /\ Still(s, Discarded(s, id))
<1>1. CASE s.sessions[id].traces # {}
  <2>1. Discarded(s, id) = s
    BY <1>1 DEF Discarded
  <2>2. Inv(s, {}, T)
    BY <1>1, Filled
  <2> QED
    BY <2>1, <2>2 DEF Still
<1>2. CASE s.sessions[id].traces = {}
  <2> DEFINE q == Removed(s, id, NoSession)
             r == Discarded(s, id)
  <2>1. Inv(q, {id}, T) /\ Without(s, q, id)
    <3>1. NoSession \in Ids \cup {NoSession}
      OBVIOUS
    <3> QED
      BY <3>1, RemovedFits
  <2>2. /\ s \in Stores /\ s.events \in Seq(Events) /\ id \in Ids /\ s.traces \in [Traces -> TraceRows]
        /\ s.bytes \in Int
    BY DEF Inv, Stores, Tables, Live
  <2>3. StartWithdrawn(s.events, id) \in Seq(Events)
    <3>1. RemoveFirst(s.events, <<"started", id>>) \in Seq(Events)
      BY <2>2, RemovedFirst
    <3>2. <<"removed", id, NoSession>> \in Events
      BY <2>2 DEF Events
    <3>3. Append(s.events, <<"removed", id, NoSession>>) \in Seq(Events)
      BY <2>2, <3>2
    <3> QED
      BY <3>1, <3>3 DEF StartWithdrawn
  <2>4. /\ q.at = s.at /\ q.staged = s.staged /\ q.held = s.held /\ q.pending = s.pending /\ q.due = s.due
        /\ q.sessions = Restrict(s.sessions, Live(s) \ {id})
        /\ q.heads = HeadsWithout(s, id) /\ q.finished = RemoveFirst(s.finished, id)
        /\ q.bytes = BytesWithout(s, {t \in s.sessions[id].traces : s.traces[t].session = id})
        /\ q.traces = [t \in Traces |-> IF t \in {u \in s.sessions[id].traces : s.traces[u].session = id}
                                        THEN NoTrace ELSE s.traces[t]]
    BY <2>2 DEF Removed, Stores
  <2>5. r = [s EXCEPT !.sessions = Restrict(s.sessions, Live(s) \ {id}),
                 !.heads = HeadsWithout(s, id),
                 !.finished = RemoveFirst(s.finished, id),
                 !.events = StartWithdrawn(s.events, id)]
    BY <1>2 DEF Discarded
  <2>6. q.traces = s.traces /\ q.bytes = s.bytes
    <3>1. q.traces = s.traces
      BY <1>2, <2>2, <2>4
    <3>2. ItemsOf(s, {t \in s.sessions[id].traces : s.traces[t].session = id}) = {}
      BY <1>2 DEF ItemsOf
    <3>3. q.bytes = s.bytes - Size({})
      BY <2>4, <3>2, Zenon DEF BytesWithout
    <3> QED
      BY <2>2, <3>1, <3>3, SizeNone
  <2>7. q \in Stores
    BY <2>1 DEF Inv
  <2> HIDE DEF q, r
  <2>8. r \in Stores /\ SameTables(q, r)
    <3>1. /\ Restrict(s.sessions, Live(s) \ {id}) \in Tables
          /\ HeadsWithout(s, id) \in [Keys -> Ids \cup {NoSession}]
          /\ RemoveFirst(s.finished, id) \in Seq(Ids)
      BY <2>4, <2>7 DEF Stores
    <3>2. r \in Stores
      BY <2>2, <2>3, <2>5, <3>1 DEF Stores
    <3>3. SameTables(q, r)
      BY <2>2, <2>4, <2>5, <2>6 DEF Stores, SameTables
    <3> QED
      BY <3>2, <3>3
  <2>9. Inv(r, {id}, T)
    BY <2>1, <2>8, EventsAside
  <2>10. Live(r) = Live(s) \ {id}
    BY <2>1, <2>8 DEF SameTables, Without, Live
  <2>11. Inv(r, {}, T)
    BY <2>9, <2>10, Filled
  <2>12. Still(s, r)
    <3>1. r.traces = s.traces /\ \A i \in Live(r) : r.sessions[i] = s.sessions[i]
      BY <2>1, <2>6, <2>8 DEF SameTables, Without, Live
    <3> QED
      BY <3>1 DEF Still
  <2> QED
    BY <2>11, <2>12 DEF r
<1> QED
  BY <1>1, <1>2

\* _detach_if_empty gives back a trace that got nothing, and its session if that was all
\* it had.
LEMMA DetachedFits ==
  ASSUME NEW s, NEW t \in Traces, NEW id \in Live(s), Inv(s, {}, {t}), s.traces[t].session = id
  PROVE  Inv(Detached(s, t, id), {}, {}) /\ Still(s, Detached(s, t, id))
<1>1. CASE ItemsIn(s.traces[t]) # {}
  <2>1. Detached(s, t, id) = s
    BY <1>1 DEF Detached
  <2>2. Inv(s, {}, {})
    BY <1>1, Filled
  <2> QED
    BY <2>1, <2>2 DEF Still
<1>2. CASE ItemsIn(s.traces[t]) = {}
  <2> DEFINE row == [s.sessions[id] EXCEPT !.traces = s.sessions[id].traces \ {t}]
             r == [s EXCEPT !.traces[t] = NoTrace, !.sessions[id].traces = @ \ {t}]
  <2>1. /\ s \in Stores /\ s.sessions \in Tables /\ id \in DOMAIN s.sessions
        /\ s.traces \in [Traces -> TraceRows] /\ s.bytes \in Int
    BY DEF Inv, Stores, Live
  <2>2. s.sessions[id] \in SessionRows /\ id \in Ids /\ id # NoSession
    BY <2>1, NothingIsThere DEF Tables
  <2>3. /\ row \in SessionRows /\ row.traces = s.sessions[id].traces \ {t}
        /\ row.key = s.sessions[id].key /\ row.complete = s.sessions[id].complete
        /\ row.spans = s.sessions[id].spans /\ row.logs = s.sessions[id].logs
    BY <2>2 DEF SessionRows
  <2>4. r = [s EXCEPT !.traces = [s.traces EXCEPT ![t] = NoTrace],
                      !.sessions = [s.sessions EXCEPT ![id] = row]]
    OBVIOUS
  <2> HIDE DEF row, r
  <2>5. /\ r.at = s.at /\ r.staged = s.staged /\ r.held = s.held /\ r.pending = s.pending
        /\ r.heads = s.heads /\ r.due = s.due /\ r.finished = s.finished /\ r.events = s.events
        /\ r.sessions = [s.sessions EXCEPT ![id] = row] /\ r.traces = [s.traces EXCEPT ![t] = NoTrace]
        /\ r.bytes = s.bytes
    BY <2>1, <2>4 DEF Stores
  <2>6. r = [s EXCEPT !.sessions = r.sessions, !.traces = r.traces, !.bytes = r.bytes]
    BY <2>1, <2>4, <2>5 DEF Stores
  <2>7. s.traces[t].spans = {} /\ s.traces[t].logs = {}
    BY <1>2 DEF ItemsIn
  <2>8. RowsChanged(s, r, t, id, NoTrace, row)
    <3>1. NoTrace \in TraceRows /\ NoTrace.session = NoSession /\ ItemsIn(NoTrace) = {}
      BY NothingIsThere
    <3>2. r.bytes = s.bytes - Size(ItemsIn(s.traces[t])) + Size(ItemsIn(NoTrace))
      BY <1>2, <2>1, <2>5, <3>1, SizeNone
    <3>3. r.bytes <= Limits[s.at].max_bytes
      BY <2>5 DEF Inv, BytesFit
    <3>4. /\ row.spans = s.sessions[id].spans - Share(Cardinality(s.traces[t].spans), t, s.sessions[id].traces)
                                      + Share(Cardinality(NoTrace.spans), t, row.traces)
          /\ row.logs = s.sessions[id].logs - Share(Cardinality(s.traces[t].logs), t, s.sessions[id].traces)
                                    + Share(Cardinality(NoTrace.logs), t, row.traces)
      BY <2>2, <2>3, <2>7, NothingIsThere, FS_EmptySet DEF Share, SessionRows
    <3> QED
      BY <2>2, <2>3, <2>5, <3>1, <3>2, <3>3, <3>4 DEF RowsChanged
  <2>9. Inv(r, {} \cup {id}, {t} \cup {t})
    BY <2>6, <2>8, RowChange
  <2>10. Live(r) = Live(s) /\ r.traces[t].session = NoSession
    BY <2>1, <2>5, NothingIsThere DEF Live
  <2>11. Inv(r, {id}, {})
    BY <2>9, <2>10, Filled
  <2> DEFINE q == Discarded(r, id)
  <2>12. Inv(q, {}, {}) /\ Still(r, q)
    BY <2>10, <2>11, DiscardedFits
  <2>13. Detached(s, t, id) = q
    BY <1>2 DEF Detached, r
  <2> HIDE DEF q
  <2>14. Still(s, q)
    <3>1. \A u \in Traces : u # t => r.traces[u] = s.traces[u]
      BY <2>1, <2>5
    <3>2. \A u \in Traces : Known(s, u) /\ ItemsIn(s.traces[u]) # {} => u # t /\ Known(r, u)
      BY <1>2, <3>1 DEF Known
    <3>3. \A i \in Live(s) : r.sessions[i].complete = s.sessions[i].complete
      BY <2>1, <2>3, <2>5 DEF Live
    <3> QED
      BY <2>10, <2>12, <3>1, <3>2, <3>3 DEF Still
  <2> QED
    BY <2>12, <2>13, <2>14
<1> QED
  BY <1>1, <1>2

\* Session id is marked complete or not, and queued accordingly.
FlagChanged(s, r, id, b) ==
  /\ r.at = s.at /\ r.staged = s.staged /\ r.held = s.held /\ r.pending = s.pending
  /\ r.heads = s.heads /\ r.due = s.due /\ r.traces = s.traces /\ r.bytes = s.bytes
  /\ r.sessions = [s.sessions EXCEPT ![id] = [s.sessions[id] EXCEPT !.complete = b]]
  /\ IsInjective(r.finished)
  /\ ToSet(r.finished) = IF b THEN ToSet(s.finished) \cup {id} ELSE ToSet(s.finished) \ {id}
  /\ r.finished \in Seq(Ids) /\ r.events \in Seq(Events)
  /\ r = [s EXCEPT !.sessions = r.sessions, !.finished = r.finished, !.events = r.events]

\* Completing or reopening a session and queueing it accordingly keeps the invariant.
LEMMA FlagChange ==
  ASSUME NEW s, NEW E, NEW T, Inv(s, E, T), NEW id \in Live(s), NEW b \in BOOLEAN,
         NEW r, FlagChanged(s, r, id, b)
  PROVE  Inv(r, E \cup {id}, T) /\ Live(r) = Live(s) /\ r.sessions[id].traces = s.sessions[id].traces
<1> DEFINE row == [s.sessions[id] EXCEPT !.complete = b]
<1>1. /\ s \in Stores /\ s.sessions \in Tables /\ id \in DOMAIN s.sessions
  BY DEF Inv, Stores, Live
<1>2. s.sessions[id] \in SessionRows
  BY <1>1 DEF Tables
<1>3. /\ row \in SessionRows /\ row.traces = s.sessions[id].traces
      /\ row.key = s.sessions[id].key /\ row.complete = b
      /\ row.spans = s.sessions[id].spans /\ row.logs = s.sessions[id].logs
  BY <1>2 DEF SessionRows
<1> HIDE DEF row
<1>4. /\ r.sessions \in Tables /\ DOMAIN r.sessions = DOMAIN s.sessions
      /\ r.sessions[id] = row
      /\ \A i \in DOMAIN s.sessions : i # id => r.sessions[i] = s.sessions[i]
  <2> DEFINE f == [s.sessions EXCEPT ![id] = row]
  <2>1. f \in Tables
    BY <1>1, <1>3, RowSet
  <2>2. DOMAIN f = DOMAIN s.sessions
    BY <1>1, <1>3, RowSet
  <2>3. \A i \in DOMAIN s.sessions : f[i] = IF i = id THEN row ELSE s.sessions[i]
    BY <1>1, <1>3, RowSet
  <2> HIDE DEF f
  <2>4. r.sessions = f
    BY DEF FlagChanged, f, row
  <2> QED
    BY <1>1, <2>1, <2>2, <2>3, <2>4
<1>5. r \in Stores
  BY <1>1, <1>4 DEF Stores, FlagChanged
<1>6. r.traces = s.traces /\ MembersFit(r.sessions, r.traces)
  <2>1. MembersFit(s.sessions, s.traces) /\ r.traces = s.traces
    BY DEF Inv, FlagChanged
  <2>2. ASSUME NEW i \in DOMAIN r.sessions
        PROVE  /\ r.sessions[i].traces = s.sessions[i].traces
               /\ Counted(r.sessions[i], r.traces)
    <3>1. /\ r.sessions[i].traces = s.sessions[i].traces /\ r.sessions[i].spans = s.sessions[i].spans
          /\ r.sessions[i].logs = s.sessions[i].logs
      BY <1>3, <1>4
    <3>2. Counted(s.sessions[i], s.traces) /\ \A u \in s.sessions[i].traces : SameItems(s.traces, r.traces, u)
      BY <1>4, <2>1 DEF MembersFit, SameItems
    <3> QED
      BY <3>1, <3>2, CountsStay
  <2> QED
    BY <1>4, <2>1, <2>2 DEF MembersFit
<1>7. FinishedFit(r.sessions, r.finished)
  <2>1. FinishedFit(s.sessions, s.finished)
    BY DEF Inv
  <2>2. \A i : i \in ToSet(s.finished) <=> i \in DOMAIN s.sessions /\ s.sessions[i].complete
    BY <2>1 DEF FinishedFit
  <2>3. ToSet(r.finished) = {i \in DOMAIN r.sessions : r.sessions[i].complete}
    BY <1>1, <1>3, <1>4, <2>2 DEF FlagChanged
  <2> QED
    BY <2>3 DEF FinishedFit, FlagChanged
<1>8. HeadsFit(r.sessions, r.heads)
  <2>1. HeadsFit(s.sessions, s.heads) /\ r.heads = s.heads
    BY DEF Inv, FlagChanged
  <2> QED
    BY <1>3, <1>4, <2>1 DEF HeadsFit
<1>9. FullFit(r.sessions, r.traces, E \cup {id}, T)
  <2>1. FullFit(s.sessions, s.traces, E, T)
    BY DEF Inv
  <2> QED
    BY <1>4, <1>6, <2>1 DEF FullFit
<1>10. Inv(r, E \cup {id}, T)
  BY <1>4, <1>5, <1>6, <1>7, <1>8, <1>9 DEF Inv, Live, FlagChanged
<1> QED
  BY <1>3, <1>4, <1>10 DEF Live

\* _reopen keeps the invariant, and leaves session id incomplete and all others alone.
LEMMA ReopenedFits ==
  ASSUME NEW s, NEW E, NEW T, Inv(s, E, T), NEW id \in Live(s), s.sessions[id].traces # {}
  PROVE  LET r == Reopened(s, id)
         IN  /\ Inv(r, E, T) /\ r.traces = s.traces /\ Live(r) = Live(s) /\ ~r.sessions[id].complete
             /\ r.at = s.at /\ r.pending = s.pending /\ r.sessions[id].traces = s.sessions[id].traces
             /\ \A i \in Live(s) : i # id => r.sessions[i] = s.sessions[i]
<1> DEFINE r == Reopened(s, id)
           row == [s.sessions[id] EXCEPT !.complete = FALSE]
<1>1. /\ s \in Stores /\ s.sessions \in Tables /\ id \in DOMAIN s.sessions /\ s.finished \in Seq(Ids)
      /\ s.events \in Seq(Events) /\ id \in Ids
  BY DEF Inv, Stores, Live, Tables
<1>2. r = [s EXCEPT !.sessions = [s.sessions EXCEPT ![id] = row],
                    !.finished = RemoveFirst(s.finished, id),
                    !.events = Append(s.events, <<"reopened", id>>)]
  BY DEF Reopened
<1>3. s.sessions[id] \in SessionRows /\ ~row.complete
  BY <1>1 DEF Tables, SessionRows
<1> HIDE DEF r, row
<1>4. /\ r.at = s.at /\ r.staged = s.staged /\ r.held = s.held /\ r.pending = s.pending
      /\ r.heads = s.heads /\ r.due = s.due /\ r.traces = s.traces /\ r.bytes = s.bytes
      /\ r.sessions = [s.sessions EXCEPT ![id] = row]
      /\ r.finished = RemoveFirst(s.finished, id)
      /\ r.events = Append(s.events, <<"reopened", id>>)
      /\ r = [s EXCEPT !.sessions = r.sessions, !.finished = r.finished, !.events = r.events]
  BY <1>1, <1>2 DEF Stores
<1>5. IsInjective(s.finished)
  BY DEF Inv, FinishedFit
<1>6. /\ r.finished \in Seq(Ids) /\ IsInjective(r.finished)
      /\ ToSet(r.finished) = ToSet(s.finished) \ {id}
  <2>1. /\ RemoveFirst(s.finished, id) \in Seq(Ids) /\ IsInjective(RemoveFirst(s.finished, id))
        /\ ToSet(RemoveFirst(s.finished, id)) = ToSet(s.finished) \ {id}
    BY <1>1, <1>5, RemovedFirst
  <2> QED
    BY <1>4, <2>1
<1>7. r.events \in Seq(Events)
  <2>1. <<"reopened", id>> \in Events
    BY <1>1 DEF Events
  <2> QED
    BY <1>1, <1>4, <2>1
<1>8. FlagChanged(s, r, id, FALSE)
  BY <1>4, <1>6, <1>7 DEF FlagChanged, row
<1>9. Inv(r, E \cup {id}, T) /\ Live(r) = Live(s) /\ r.sessions[id].traces = s.sessions[id].traces
  <2>1. ASSUME NEW b \in BOOLEAN, FlagChanged(s, r, id, b)
        PROVE  Inv(r, E \cup {id}, T) /\ Live(r) = Live(s) /\ r.sessions[id].traces = s.sessions[id].traces
    BY <2>1, FlagChange
  <2> QED
    BY <1>8, <2>1
<1>10. Inv(r, E, T)
  BY <1>9, Filled
<1>11. ~r.sessions[id].complete /\ \A i \in Live(s) : i # id => r.sessions[i] = s.sessions[i]
  BY <1>1, <1>3, <1>4 DEF Live
<1> QED
  BY <1>4, <1>9, <1>10, <1>11 DEF r

\* Completing a session, as tick does, keeps the invariant.
LEMMA FinishedFits ==
  ASSUME NEW s, Inv(s, {}, {}), NEW id \in Live(s)
  PROVE  Inv(Finished(s, id), {}, {}) /\ Saved(s, Finished(s, id), {}, {id})
<1> DEFINE r == Finished(s, id)
           row == [s.sessions[id] EXCEPT !.complete = TRUE]
<1>1. CASE r = s
  BY <1>1 DEF Saved, Safe
<1>2. CASE r # s
  <2>1. /\ s \in Stores /\ s.sessions \in Tables /\ id \in DOMAIN s.sessions /\ s.finished \in Seq(Ids)
        /\ s.events \in Seq(Events) /\ id \in Ids
    BY DEF Inv, Stores, Live, Tables
  <2>2. ~s.sessions[id].complete
    BY <1>2 DEF Finished
  <2>3. r = [s EXCEPT !.sessions = [s.sessions EXCEPT ![id] = row], !.finished = Append(s.finished, id)]
    BY <1>2 DEF Finished
  <2> HIDE DEF r, row
  <2>4. /\ r.at = s.at /\ r.staged = s.staged /\ r.held = s.held /\ r.pending = s.pending
        /\ r.heads = s.heads /\ r.due = s.due /\ r.traces = s.traces /\ r.bytes = s.bytes
        /\ r.sessions = [s.sessions EXCEPT ![id] = row]
        /\ r.finished = Append(s.finished, id) /\ r.events = s.events
        /\ r = [s EXCEPT !.sessions = r.sessions, !.finished = r.finished, !.events = r.events]
    BY <2>1, <2>3 DEF Stores
  <2>5. IsInjective(s.finished) /\ id \notin ToSet(s.finished)
    BY <2>2 DEF Inv, FinishedFit
  <2>6. /\ r.finished \in Seq(Ids) /\ IsInjective(r.finished)
        /\ ToSet(r.finished) = ToSet(s.finished) \cup {id}
    <3>1. /\ Append(s.finished, id) \in Seq(Ids) /\ IsInjective(Append(s.finished, id))
          /\ ToSet(Append(s.finished, id)) = ToSet(s.finished) \cup {id}
      BY <2>1, <2>5, Appended
    <3> QED
      BY <2>4, <3>1
  <2>7. FlagChanged(s, r, id, TRUE)
    BY <2>1, <2>4, <2>6 DEF FlagChanged, row
  <2>8. Inv(r, {} \cup {id}, {}) /\ Live(r) = Live(s) /\ r.sessions[id].traces = s.sessions[id].traces
    <3>1. ASSUME NEW b \in BOOLEAN, FlagChanged(s, r, id, b)
          PROVE  Inv(r, {} \cup {id}, {}) /\ Live(r) = Live(s) /\ r.sessions[id].traces = s.sessions[id].traces
      BY <3>1, FlagChange
    <3> QED
      BY <2>7, <3>1
  <2>9. s.sessions[id].traces # {}
    BY <2>1, <2>2 DEF Inv, FullFit
  <2>10. Inv(r, {}, {})
    BY <2>8, <2>9, Filled
  <2>11. Saved(s, r, {}, {id})
    <3>1. \A i \in Live(s) : i # id => r.sessions[i] = s.sessions[i]
      BY <2>1, <2>4 DEF Live
    <3>2. \A t \in Traces : Known(s, t) => s.traces[t].session \in Live(s)
      BY DEF Inv, MembersFit, Known, Live
    <3> QED
      BY <2>4, <3>1, <3>2 DEF Saved, Safe, Known
  <2> QED
    BY <2>10, <2>11 DEF r
<1> QED
  BY <1>1, <1>2

-----------------------------------------------------------------------------
(* Moving a trace                                                          *)

\* Trace t goes from session a, with row from now, to session b, with row to.
TraceMoves(s, r, t, a, b, from, to) ==
  /\ r.at = s.at /\ r.staged = s.staged /\ r.held = s.held /\ r.pending = s.pending
  /\ r.heads = s.heads /\ r.due = s.due /\ r.finished = s.finished /\ r.bytes = s.bytes
  /\ r.events = s.events
  /\ r.sessions = [s.sessions EXCEPT ![a] = from, ![b] = to]
  /\ r.traces = [s.traces EXCEPT ![t] = [session |-> b, spans |-> s.traces[t].spans,
                                         logs |-> s.traces[t].logs, complete |-> s.traces[t].complete]]
  /\ r \in Stores
  /\ from \in SessionRows /\ to \in SessionRows
  /\ from.key = s.sessions[a].key /\ from.complete = s.sessions[a].complete
  /\ to.key = s.sessions[b].key /\ to.complete = s.sessions[b].complete
  /\ from.traces = s.sessions[a].traces \ {t} /\ to.traces = s.sessions[b].traces \cup {t}
  /\ from.spans = s.sessions[a].spans - Cardinality(s.traces[t].spans)
  /\ from.logs = s.sessions[a].logs - Cardinality(s.traces[t].logs)
  /\ to.spans = s.sessions[b].spans + Cardinality(s.traces[t].spans)
  /\ to.logs = s.sessions[b].logs + Cardinality(s.traces[t].logs)

\* Replacing the rows of two sessions.
LEMMA TwoRows ==
  ASSUME NEW f \in Tables, NEW a \in DOMAIN f, NEW b \in DOMAIN f, a # b,
         NEW from \in SessionRows, NEW to \in SessionRows
  PROVE  LET g == [f EXCEPT ![a] = from, ![b] = to]
         IN  /\ g \in Tables /\ DOMAIN g = DOMAIN f /\ g[a] = from /\ g[b] = to
             /\ \A i \in DOMAIN f : i \notin {a, b} => g[i] = f[i]
<1>1. PICK D \in SUBSET Ids : f \in [D -> SessionRows]
  BY DEF Tables
<1>2. [f EXCEPT ![a] = from, ![b] = to] \in [D -> SessionRows]
  BY <1>1
<1> QED
  BY <1>1, <1>2 DEF Tables

\* Trace t is b's, as the rows from and to say; every other trace is where it was.
Relocated(s, r, E, T, t, a, b, from, to) ==
  /\ Inv(r, E, T) /\ Live(r) = Live(s)
  /\ r.sessions[a] = from /\ r.sessions[b] = to
  /\ r.traces[t].session = b /\ SameItems(s.traces, r.traces, t)
  /\ \A u \in Traces : u # t => r.traces[u] = s.traces[u]

\* A trace that goes from a to b takes its items and its share of the counters along.
LEMMA MoveFits ==
  ASSUME NEW s, NEW E, NEW T, Inv(s, E, T), NEW t \in Traces, NEW a \in Live(s), NEW b \in Live(s), a # b,
         s.traces[t].session = a, NEW from, NEW to, NEW r, TraceMoves(s, r, t, a, b, from, to)
  PROVE  Relocated(s, r, E \cup {a}, T, t, a, b, from, to)
<1> DEFINE trow == [session |-> b, spans |-> s.traces[t].spans,
                    logs |-> s.traces[t].logs, complete |-> s.traces[t].complete]
<1>1. s \in Stores /\ s.sessions \in Tables /\ s.traces \in [Traces -> TraceRows]
  BY DEF Inv, Stores
<1>2. /\ a \in DOMAIN s.sessions /\ b \in DOMAIN s.sessions /\ a \in Ids /\ b \in Ids
      /\ a # NoSession /\ b # NoSession
      /\ from \in SessionRows /\ to \in SessionRows
      /\ \A i \in DOMAIN s.sessions : s.sessions[i] \in SessionRows /\ i # NoSession
  BY <1>1, NothingIsThere DEF Tables, Live, TraceMoves
<1>3. /\ r.sessions \in Tables /\ DOMAIN r.sessions = DOMAIN s.sessions
      /\ r.sessions[a] = from /\ r.sessions[b] = to
      /\ \A i \in DOMAIN s.sessions : i \notin {a, b} => r.sessions[i] = s.sessions[i]
  <2> DEFINE g == [s.sessions EXCEPT ![a] = from, ![b] = to]
  <2>1. /\ g \in Tables /\ DOMAIN g = DOMAIN s.sessions /\ g[a] = from /\ g[b] = to
        /\ \A i \in DOMAIN s.sessions : i \notin {a, b} => g[i] = s.sessions[i]
    BY <1>1, <1>2, TwoRows
  <2>2. r.sessions = g
    BY DEF TraceMoves
  <2> HIDE DEF g
  <2> QED
    BY <2>1, <2>2
<1>4. /\ trow \in TraceRows /\ trow.session = b /\ trow.spans = s.traces[t].spans
      /\ trow.logs = s.traces[t].logs
  BY <1>1, <1>2 DEF TraceRows
<1>5. r.traces = [s.traces EXCEPT ![t] = trow]
  BY DEF TraceMoves
<1> HIDE DEF trow
<1>6. /\ r.traces \in [Traces -> TraceRows] /\ r.traces[t] = trow
      /\ \A u \in Traces : u # t => r.traces[u] = s.traces[u]
      /\ \A u \in Traces : SameItems(s.traces, r.traces, u)
  BY <1>1, <1>4, <1>5 DEF SameItems
<1>7. Sorted(s.traces) /\ Sorted(r.traces)
  BY <1>6 DEF Inv, Sorted, SameItems, ItemsIn
<1>8. r \in Stores
  BY DEF TraceMoves
<1>9. BytesFit(r.at, r.traces, r.held, r.bytes)
  <2>1. ItemsAmong(r.traces, Traces) = ItemsAmong(s.traces, Traces)
    BY <1>6 DEF ItemsAmong, SameItems, ItemsIn
  <2>2. BytesFit(s.at, s.traces, s.held, s.bytes)
    BY DEF Inv
  <2> QED
    BY <2>1, <2>2 DEF BytesFit, TraceMoves
<1>10. MembersFit(r.sessions, r.traces)
  <2>1. MembersFit(s.sessions, s.traces)
    BY DEF Inv
  <2>2. from.traces = {u \in Traces : r.traces[u].session = a}
    BY <1>2, <1>4, <1>6, <2>1 DEF TraceMoves, MembersFit
  <2>3. to.traces = {u \in Traces : r.traces[u].session = b}
    BY <1>2, <1>4, <1>6, <2>1 DEF TraceMoves, MembersFit
  <2>4. /\ t \in s.sessions[a].traces /\ t \notin s.sessions[b].traces
        /\ s.sessions[a].traces \in SUBSET Traces /\ s.sessions[b].traces \in SUBSET Traces
    BY <1>2, <2>1 DEF MembersFit, SessionRows
  <2>5. /\ Cardinality(s.traces[t].spans) \in Nat /\ Cardinality(s.traces[t].logs) \in Nat
    <3>1. CountsSplit(s.traces, s.sessions[a].traces, t)
      BY <1>7, <2>4, CardsSplit
    <3> QED
      BY <3>1 DEF CountsSplit
  <2>6. Counted(from, r.traces)
    <3>1. /\ s.sessions[a] \in SessionRows /\ Counted(s.sessions[a], s.traces)
          /\ s.sessions[a].traces \ {t} = from.traces \ {t}
          /\ \A u \in s.sessions[a].traces \ {t} : SameItems(s.traces, r.traces, u)
      BY <1>2, <1>6, <2>1, <2>4 DEF MembersFit, TraceMoves
    <3>2. from.spans = s.sessions[a].spans - Share(Cardinality(s.traces[t].spans), t, s.sessions[a].traces)
                                           + Share(Cardinality(r.traces[t].spans), t, from.traces)
      BY <1>2, <2>4, <2>5 DEF Share, TraceMoves, SessionRows
    <3>3. from.logs = s.sessions[a].logs - Share(Cardinality(s.traces[t].logs), t, s.sessions[a].traces)
                                         + Share(Cardinality(r.traces[t].logs), t, from.traces)
      BY <1>2, <2>4, <2>5 DEF Share, TraceMoves, SessionRows
    <3> QED
      BY ONLY <1>2, <1>7, <3>1, <3>2, <3>3, CountsChange, t \in Traces
  <2>7. Counted(to, r.traces)
    <3>1. /\ s.sessions[b] \in SessionRows /\ Counted(s.sessions[b], s.traces)
          /\ s.sessions[b].traces \ {t} = to.traces \ {t}
          /\ \A u \in s.sessions[b].traces \ {t} : SameItems(s.traces, r.traces, u)
      BY <1>2, <1>6, <2>1, <2>4 DEF MembersFit, TraceMoves
    <3>2. to.spans = s.sessions[b].spans - Share(Cardinality(s.traces[t].spans), t, s.sessions[b].traces)
                                         + Share(Cardinality(r.traces[t].spans), t, to.traces)
      BY <1>2, <1>4, <1>6, <2>4, <2>5 DEF Share, TraceMoves, SessionRows
    <3>3. to.logs = s.sessions[b].logs - Share(Cardinality(s.traces[t].logs), t, s.sessions[b].traces)
                                       + Share(Cardinality(r.traces[t].logs), t, to.traces)
      BY <1>2, <1>4, <1>6, <2>4, <2>5 DEF Share, TraceMoves, SessionRows
    <3> QED
      BY ONLY <1>2, <1>7, <3>1, <3>2, <3>3, CountsChange, t \in Traces
  <2>8. ASSUME NEW i \in DOMAIN r.sessions, i \notin {a, b}
        PROVE  /\ r.sessions[i].traces = {u \in Traces : r.traces[u].session = i}
               /\ Counted(r.sessions[i], r.traces)
    <3>1. i \in DOMAIN s.sessions /\ r.sessions[i] = s.sessions[i]
      BY <1>3, <2>8
    <3>2. s.sessions[i].traces = {u \in Traces : s.traces[u].session = i} /\ Counted(s.sessions[i], s.traces)
      BY <2>1, <3>1 DEF MembersFit
    <3>3. \A u \in Traces : r.traces[u].session = i <=> s.traces[u].session = i
      BY <1>4, <1>6, <2>8
    <3>4. \A u \in s.sessions[i].traces : SameItems(s.traces, r.traces, u)
      BY <1>6, <3>2
    <3>5. Counted(r.sessions[i], r.traces)
      BY <3>1, <3>2, <3>4, CountsStay
    <3> QED
      BY <3>1, <3>2, <3>3, <3>5
  <2>9. \A u \in Traces : r.traces[u].session # NoSession => r.traces[u].session \in DOMAIN r.sessions
    BY <1>2, <1>3, <1>4, <1>6, <2>1 DEF MembersFit
  <2>10. \A u \in Traces : r.traces[u].session = NoSession => r.traces[u] = NoTrace
    BY <1>2, <1>4, <1>6, <2>1 DEF MembersFit
  <2> QED
    BY <1>3, <2>2, <2>3, <2>6, <2>7, <2>8, <2>9, <2>10 DEF MembersFit
<1>11. FinishedFit(r.sessions, r.finished)
  <2>1. FinishedFit(s.sessions, s.finished) /\ r.finished = s.finished
        /\ from.complete = s.sessions[a].complete /\ to.complete = s.sessions[b].complete
    BY DEF Inv, TraceMoves
  <2>2. {i \in DOMAIN r.sessions : r.sessions[i].complete} = {i \in DOMAIN s.sessions : s.sessions[i].complete}
    BY <1>3, <2>1
  <2> QED
    BY <2>1, <2>2 DEF FinishedFit
<1>12. HeadsFit(r.sessions, r.heads)
  <2>1. HeadsFit(s.sessions, s.heads) /\ r.heads = s.heads
        /\ from.key = s.sessions[a].key /\ to.key = s.sessions[b].key
    BY DEF Inv, TraceMoves
  <2> QED
    BY <1>3, <2>1 DEF HeadsFit
<1>13. FullFit(r.sessions, r.traces, E \cup {a}, T)
  <2>1. FullFit(s.sessions, s.traces, E, T) /\ t \in to.traces
    BY DEF Inv, TraceMoves
  <2>2. \A u \in Traces \ T : r.traces[u].session # NoSession => ItemsIn(r.traces[u]) # {}
    BY <1>2, <1>6, <2>1 DEF FullFit, SameItems, ItemsIn
  <2> QED
    BY <1>3, <2>1, <2>2 DEF FullFit
<1>14. StagedFit(r.at, r.traces, r.staged, r.held)
  <2>1. StagedFit(s.at, s.traces, s.staged, s.held) /\ r.at = s.at /\ r.staged = s.staged /\ r.held = s.held
    BY DEF Inv, TraceMoves
  <2>2. \A u \in Traces : r.traces[u].session # NoSession => s.traces[u].session # NoSession
    BY <1>2, <1>6
  <2> QED
    BY <2>1, <2>2 DEF StagedFit
<1>15. Inv(r, E \cup {a}, T)
  BY <1>3, <1>7, <1>8, <1>9, <1>10, <1>11, <1>12, <1>13, <1>14 DEF Inv, Live, TraceMoves
<1> QED
  BY <1>3, <1>4, <1>6, <1>15 DEF Live, Relocated

\* What the session of t and its new session look like once t has moved.
MovedWell(s, r, t, a, b) ==
  /\ Inv(r, {}, {}) /\ r.at = s.at /\ r.pending = s.pending
  /\ b \in Live(r) /\ r.traces[t].session = b /\ SameItems(s.traces, r.traces, t)
  /\ \A u \in Traces : u # t => r.traces[u] = s.traces[u]
  /\ \A i \in Live(r) : r.sessions[i].complete => s.sessions[i].complete

\* Waking the session a trace moved to keeps the invariant and moves nothing.
LEMMA WokenFits ==
  ASSUME NEW s, Inv(s, {}, {}), NEW b \in Live(s), s.sessions[b].traces # {}, NEW t
  PROVE  LET r == Woken(s, t, b)
         IN  /\ Inv(r, {}, {}) /\ r.traces = s.traces /\ Live(r) = Live(s)
             /\ r.at = s.at /\ r.pending = s.pending
             /\ \A i \in Live(r) : r.sessions[i].complete => s.sessions[i].complete
<1> DEFINE opened == IF s.sessions[b].complete /\ ~s.traces[t].complete THEN Reopened(s, b) ELSE s
           armed == IF opened.sessions[b].complete THEN opened ELSE Arm(opened, b)
<1>1. b \in Ids
  BY DEF Inv, Stores, Tables, Live
<1>2. /\ Inv(opened, {}, {}) /\ opened.traces = s.traces /\ Live(opened) = Live(s)
      /\ opened.at = s.at /\ opened.pending = s.pending
      /\ \A i \in Live(s) : opened.sessions[i].complete => s.sessions[i].complete
  BY ReopenedFits
<1> HIDE DEF opened
<1>3. Inv(armed, {}, {}) /\ SameTables(opened, armed)
  <2>1. b \in Traces \cup Ids
    BY <1>1
  <2>2. Inv(Arm(opened, b), {}, {}) /\ SameTables(opened, Arm(opened, b))
    BY <1>2, <2>1, ArmFits
  <2> QED
    BY <1>2, <2>2 DEF SameTables
<1> HIDE DEF armed
<1>4. Inv(Dirty(armed, b), {}, {}) /\ SameTables(armed, Dirty(armed, b))
  BY <1>1, <1>3, DirtyFits
<1>5. Woken(s, t, b) = Dirty(armed, b)
  BY DEF Woken, armed, opened
<1> QED
  BY <1>2, <1>3, <1>4, <1>5 DEF SameTables, Live

\* What a session's row is with one trace less or more.
LEMMA LessAndMore ==
  ASSUME NEW row \in SessionRows, NEW t \in Traces, NEW c,
         Cardinality(c.spans) \in Nat, Cardinality(c.logs) \in Nat
  PROVE  /\ Less(row, t, c) \in SessionRows /\ More(row, t, c) \in SessionRows
         /\ Less(row, t, c).key = row.key /\ Less(row, t, c).complete = row.complete
         /\ More(row, t, c).key = row.key /\ More(row, t, c).complete = row.complete
         /\ Less(row, t, c).traces = row.traces \ {t} /\ More(row, t, c).traces = row.traces \cup {t}
         /\ Less(row, t, c).spans = row.spans - Cardinality(c.spans)
         /\ Less(row, t, c).logs = row.logs - Cardinality(c.logs)
         /\ More(row, t, c).spans = row.spans + Cardinality(c.spans)
         /\ More(row, t, c).logs = row.logs + Cardinality(c.logs)
<1>1. /\ row.traces \ {t} \in SUBSET Traces /\ row.traces \cup {t} \in SUBSET Traces
      /\ row.spans - Cardinality(c.spans) \in Int /\ row.logs - Cardinality(c.logs) \in Int
      /\ row.spans + Cardinality(c.spans) \in Int /\ row.logs + Cardinality(c.logs) \in Int
  BY DEF SessionRows
<1> DEFINE gone == row.traces \ {t}
           i == row.spans - Cardinality(c.spans)
           j == row.logs - Cardinality(c.logs)
           come == row.traces \cup {t}
           k == row.spans + Cardinality(c.spans)
           l == row.logs + Cardinality(c.logs)
           less == [row EXCEPT !.traces = gone, !.spans = i, !.logs = j]
           more == [row EXCEPT !.traces = come, !.spans = k, !.logs = l]
<1>2. Less(row, t, c) = less /\ More(row, t, c) = more
  BY DEF Less, More
<1> HIDE DEF gone, i, j, come, k, l
<1>3. /\ less \in SessionRows /\ less.key = row.key /\ less.complete = row.complete
      /\ less.traces = gone /\ less.spans = i /\ less.logs = j
  <2>1. gone \in SUBSET Traces /\ i \in Int /\ j \in Int
    BY <1>1 DEF gone, i, j
  <2> QED
    BY <2>1 DEF SessionRows
<1>4. /\ more \in SessionRows /\ more.key = row.key /\ more.complete = row.complete
      /\ more.traces = come /\ more.spans = k /\ more.logs = l
  <2>1. come \in SUBSET Traces /\ k \in Int /\ l \in Int
    BY <1>1 DEF come, k, l
  <2> QED
    BY <2>1 DEF SessionRows
<1> HIDE DEF less, more
<1> QED
  BY <1>2, <1>3, <1>4 DEF gone, i, j, come, k, l

\* _move_trace keeps the invariant: t is b's, a is discarded if it is empty, no other
\* trace moves.
LEMMA MovedFits ==
  ASSUME NEW s, NEW t \in Traces, NEW a \in Live(s), NEW b \in Live(s), a # b, Inv(s, {b}, {}),
         s.traces[t].session = a
  PROVE  MovedWell(s, Moved(s, t, a, b), t, a, b)
<1> DEFINE c == s.traces[t]
           from == Less(s.sessions[a], t, c)
           to == More(s.sessions[b], t, c)
           trow == [session |-> b, spans |-> c.spans, logs |-> c.logs, complete |-> c.complete]
           q == Attached(Taken(s, t, a), t, c, b)
<1>1. /\ s \in Stores /\ s.sessions \in Tables /\ s.traces \in [Traces -> TraceRows]
      /\ a \in DOMAIN s.sessions /\ b \in DOMAIN s.sessions
      /\ s.sessions[a] \in SessionRows /\ s.sessions[b] \in SessionRows
      /\ a \in Ids /\ b \in Ids
  BY DEF Inv, Stores, Tables, Live
<1>2. /\ c.spans \subseteq Spans /\ c.logs \subseteq Logs
      /\ Cardinality(c.spans) \in Nat /\ Cardinality(c.logs) \in Nat
  <2>1. CountsSplit(s.traces, {}, t) /\ Sorted(s.traces)
    BY CardsSplit DEF Inv
  <2> QED
    BY <2>1 DEF CountsSplit, Sorted
<1>3. /\ from \in SessionRows /\ to \in SessionRows
      /\ from.key = s.sessions[a].key /\ from.complete = s.sessions[a].complete
      /\ to.key = s.sessions[b].key /\ to.complete = s.sessions[b].complete
      /\ from.traces = s.sessions[a].traces \ {t} /\ to.traces = s.sessions[b].traces \cup {t}
      /\ from.spans = s.sessions[a].spans - Cardinality(c.spans)
      /\ from.logs = s.sessions[a].logs - Cardinality(c.logs)
      /\ to.spans = s.sessions[b].spans + Cardinality(c.spans)
      /\ to.logs = s.sessions[b].logs + Cardinality(c.logs)
  <2> HIDE DEF c
  <2> QED
    BY <1>1, <1>2, LessAndMore
<1>4. trow \in TraceRows
  BY <1>1, <1>2 DEF TraceRows
<1> DEFINE f == [s.sessions EXCEPT ![a] = from]
           q1 == [s EXCEPT !.sessions = f]
<1>5. q1 = Taken(s, t, a)
  BY DEF Taken
<1> HIDE DEF from, to
<1>6. /\ f \in Tables /\ DOMAIN f = DOMAIN s.sessions /\ f[b] = s.sessions[b]
  BY <1>1, <1>3, RowSet
<1>7. /\ q1 \in Stores /\ q1.sessions = f /\ q1.traces = s.traces
      /\ q1.at = s.at /\ q1.staged = s.staged /\ q1.held = s.held /\ q1.pending = s.pending
      /\ q1.heads = s.heads /\ q1.due = s.due /\ q1.finished = s.finished /\ q1.bytes = s.bytes
      /\ q1.events = s.events
  BY <1>1, <1>6 DEF Stores
<1> HIDE DEF q1
<1>8. q = [q1 EXCEPT !.traces = [q1.traces EXCEPT ![t] = [session |-> b, spans |-> c.spans, logs |-> c.logs,
                                                          complete |-> q1.traces[t].complete]],
                     !.sessions = [q1.sessions EXCEPT ![b] = More(q1.sessions[b], t, c)]]
  BY <1>5 DEF Attached
<1>9. /\ q1.traces[t] = c /\ q1.sessions[b] = s.sessions[b]
  BY <1>6, <1>7
<1>10. q = [q1 EXCEPT !.traces = [s.traces EXCEPT ![t] = trow], !.sessions = [f EXCEPT ![b] = to]]
  BY <1>7, <1>8, <1>9 DEF to
<1> HIDE DEF q
<1>11. [f EXCEPT ![b] = to] \in Tables /\ [s.traces EXCEPT ![t] = trow] \in [Traces -> TraceRows]
  BY <1>1, <1>3, <1>4, <1>6, RowSet
<1>12. /\ q \in Stores /\ q.sessions = [s.sessions EXCEPT ![a] = from, ![b] = to]
       /\ q.traces = [s.traces EXCEPT ![t] = trow]
       /\ q.at = s.at /\ q.staged = s.staged /\ q.held = s.held /\ q.pending = s.pending
       /\ q.heads = s.heads /\ q.due = s.due /\ q.finished = s.finished /\ q.bytes = s.bytes
       /\ q.events = s.events
  <2> HIDE DEF trow
  <2> QED
    BY <1>7, <1>10, <1>11 DEF Stores
<1>13. TraceMoves(s, q, t, a, b, from, to)
  BY <1>3, <1>12 DEF TraceMoves
<1>14. /\ Inv(q, {b} \cup {a}, {}) /\ Live(q) = Live(s)
       /\ q.sessions[a] = from /\ q.sessions[b] = to
       /\ q.traces[t].session = b /\ SameItems(s.traces, q.traces, t)
       /\ \A u \in Traces : u # t => q.traces[u] = s.traces[u]
  <2>1. Inv(s, {b}, {}) /\ t \in Traces /\ a \in Live(s) /\ b \in Live(s) /\ a # b /\ s.traces[t].session = a
    OBVIOUS
  <2>2. Relocated(s, q, {b} \cup {a}, {}, t, a, b, from, to)
    BY ONLY <2>1, <1>13, MoveFits
  <2> QED
    BY <2>2 DEF Relocated
<1>15. Inv(q, {a}, {})
  BY <1>3, <1>14, Filled
<1> DEFINE left == Left(q, a, b)
<1>16. /\ Inv(left, {}, {}) /\ b \in Live(left) /\ left.traces = q.traces /\ left.sessions[b] = to
       /\ left.at = q.at /\ left.pending = q.pending
       /\ \A i \in Live(left) : i \in Live(q) /\ left.sessions[i] = q.sessions[i]
  <2>1. CASE q.sessions[a].traces # {}
    <3>1. Inv(q, {}, {})
      BY <1>15, <2>1, Filled
    <3>2. left = Dirty(q, a)
      BY <2>1 DEF Left
    <3>3. Inv(Dirty(q, a), {}, {}) /\ SameTables(q, Dirty(q, a))
      BY <1>1, <3>1, DirtyFits
    <3> QED
      BY <1>14, <3>2, <3>3 DEF SameTables, Live
  <2>2. CASE q.sessions[a].traces = {}
    <3>1. left = Removed(q, a, b)
      BY <2>2 DEF Left
    <3>2. b \in Ids \cup {NoSession} /\ a \in Live(q)
      BY <1>1, <1>14
    <3>3. Inv(left, {a}, {}) /\ Without(q, left, a)
      BY <1>15, <3>1, <3>2, RemovedFits
    <3> HIDE DEF left
    <3>4. /\ Live(left) = Live(q) \ {a} /\ left.sessions[b] = to /\ left.at = q.at /\ left.pending = q.pending
          /\ \A i \in Live(left) : i \in Live(q) /\ left.sessions[i] = q.sessions[i]
      BY <1>14, <3>3 DEF Without
    <3>5. Inv(left, {}, {})
      BY <3>3, <3>4, Filled
    <3>6. left.traces = q.traces
      <4>1. left.traces \in [Traces -> TraceRows] /\ q.traces \in [Traces -> TraceRows]
        BY <1>12, <3>3 DEF Inv, Stores
      <4>2. \A u \in Traces : q.traces[u].session # a
        BY <1>15, <2>2, <3>2 DEF Inv, MembersFit, Live
      <4>3. \A u \in Traces : left.traces[u] = q.traces[u]
        BY <3>3, <4>2 DEF Without
      <4> QED
        BY <4>1, <4>3
    <3> QED
      BY <1>14, <3>4, <3>5, <3>6
  <2> QED
    BY <2>1, <2>2
<1> HIDE DEF left
<1>17. left.sessions[b].traces # {}
  BY <1>3, <1>16
<1> DEFINE r == Woken(left, t, b)
<1>18. /\ Inv(r, {}, {}) /\ r.traces = left.traces /\ Live(r) = Live(left)
       /\ r.at = left.at /\ r.pending = left.pending
       /\ \A i \in Live(r) : r.sessions[i].complete => left.sessions[i].complete
  BY <1>16, <1>17, WokenFits
<1>19. Moved(s, t, a, b) = r
  BY DEF Moved, r, left, q
<1> HIDE DEF r
<1>20. \A i \in Live(r) : r.sessions[i].complete => s.sessions[i].complete
  <2>1. \A i \in Live(s) : i \notin {a, b} => q.sessions[i] = s.sessions[i]
    BY <1>1, <1>12 DEF Live
  <2>2. \A i \in Live(s) : q.sessions[i].complete = s.sessions[i].complete
    BY <1>3, <1>14, <2>1
  <2> QED
    BY <1>14, <1>16, <1>18, <2>2
<1>21. MovedWell(s, r, t, a, b)
  BY <1>12, <1>14, <1>16, <1>18, <1>20 DEF MovedWell
<1> QED
  BY <1>19, <1>21

\* A trace that moves from a to b is not lost, nor is any other trace.
LEMMA MovedIsSaved ==
  ASSUME NEW s, NEW t \in Traces, NEW a, NEW b \in Ids, NEW r, MovedWell(s, r, t, a, b), NEW X
  PROVE  Saved(s, r, X, X \cup {b})
<1> SUFFICES ASSUME NEW u \in Traces, Safe(s, u, X)
             PROVE  /\ Safe(r, u, X \cup {b})
                    /\ s.traces[u].spans \subseteq r.traces[u].spans
                    /\ s.traces[u].logs \subseteq r.traces[u].logs
  BY DEF Saved
<1>1. CASE u = t
  BY <1>1, NothingIsThere DEF MovedWell, SameItems, Safe, Known, ItemsIn
<1>2. CASE u # t
  <2> DEFINE i == s.traces[u].session
  <2>1. r.traces[u] = s.traces[u] /\ i # NoSession
    BY <1>2 DEF MovedWell, Safe, Known
  <2>2. i \in Live(r)
    BY <2>1 DEF MovedWell, Inv, MembersFit, Live
  <2> QED
    BY <2>1, <2>2 DEF MovedWell, Safe, Known
<1> QED
  BY <1>1, <1>2

\* All traces of session a go to b, and nothing is lost.
Absorbed(s, r, a, b) ==
  /\ Inv(r, {}, {}) /\ r.at = s.at /\ r.pending = s.pending /\ b \in Live(r)
  /\ \A t \in Traces : s.traces[t].session = a => r.traces[t].session = b
  /\ Saved(s, r, {}, {b})

\* _merge_into keeps the invariant and hands every trace of a to b; nothing is lost.
LEMMA MergedFits ==
  ASSUME NEW s, NEW a \in Live(s), NEW b \in Live(s), a # b, Inv(s, {b}, {}),
         s.sessions[a].traces # {}
  PROVE  Absorbed(s, Merged(s, a, b), a, b)
<1> DEFINE ts == s.sessions[a].traces
           seq == SetToSeq(ts)
           L == Len(seq)
           Good(x, n) == /\ Inv(x, {b}, {}) /\ x.at = s.at /\ x.pending = s.pending /\ b \in Live(x)
                         /\ n >= 1 => Inv(x, {}, {})
                         /\ Saved(s, x, {}, {b})
                         /\ \A j \in 1..L : x.traces[seq[j]].session = IF j <= n THEN b ELSE a
           Op(acc, t) == Moved(acc, t, a, b)
           H == [n \in 0..L |-> {x \in Stores : Good(x, n)}]
           F == [p \in Stores \X (1..L) |-> IF p[1] \in H[p[2] - 1] THEN Op(p[1], seq[p[2]]) ELSE p[1]]
<1>a. /\ ts \in SUBSET Traces /\ ts = {t \in Traces : s.traces[t].session = a} /\ s \in Stores
      /\ a \in Ids /\ a # NoSession
  <2>1. /\ s \in Stores /\ s.sessions \in Tables /\ a \in DOMAIN s.sessions /\ MembersFit(s.sessions, s.traces)
    BY DEF Inv, Stores, Live
  <2> QED
    BY <2>1, NothingIsThere DEF Tables, MembersFit
<1>b. IsFiniteSet(ts) /\ ts # {}
  <2>1. IsFiniteSet(Traces)
    BY StoreAssumption
  <2> QED
    BY <1>a, <2>1, FS_Subset
<1> HIDE DEF ts
<1>c. /\ L \in Nat /\ \A i, j \in 1..L : seq[i] = seq[j] => i = j
      /\ \A i \in 1..L : seq[i] \in ts
      /\ \A t \in ts : \E n \in 1..L : seq[n] = t
  <2> DEFINE N == Cardinality(ts)
  <2>1. /\ N \in Nat /\ seq \in [1..N -> ts] /\ \A i, j \in 1..N : seq[i] = seq[j] => i = j
        /\ \A t \in ts : \E n \in 1..N : seq[n] = t
    BY <1>b, ListedOnce
  <2> HIDE DEF N, seq
  <2>2. Len(seq) = N
    BY <2>1
  <2> QED
    BY <2>1, <2>2
<1>1. /\ L \in Nat /\ L >= 1 /\ \A i, j \in 1..L : seq[i] = seq[j] => i = j
      /\ \A i \in 1..L : seq[i] \in Traces
  <2>1. PICK t \in ts : TRUE
    BY <1>b
  <2>2. PICK n \in 1..L : seq[n] = t
    BY <1>c
  <2>3. L >= 1
    BY <1>c, <2>2
  <2> QED
    BY <1>a, <1>c, <2>3
<1>2. s \in Stores /\ Good(s, 0)
  <2> HIDE DEF seq, L
  <2>1. \A j \in 1..L : s.traces[seq[j]].session = a /\ ~(j <= 0)
    BY <1>a, <1>c
  <2>2. Saved(s, s, {}, {b})
    BY DEF Saved, Safe
  <2> QED
    BY <1>a, <2>1, <2>2
<1> HIDE DEF seq, L
<1>3. ASSUME NEW n \in 1..L, NEW x \in Stores, Good(x, n - 1)
      PROVE  Op(x, seq[n]) \in Stores /\ Good(Op(x, seq[n]), n)
  <2> DEFINE r == Moved(x, seq[n], a, b)
  <2>1. n \in Nat /\ n >= 1 /\ ~(n <= n - 1) /\ n <= n
    BY <1>1
  <2>2. x.traces[seq[n]].session = a /\ seq[n] \in Traces
    BY <1>1, <1>3, <2>1
  <2>3. a \in Live(x) /\ b \in Live(x) /\ Inv(x, {b}, {})
    BY <1>a, <1>3, <2>2 DEF Inv, MembersFit, Live
  <2>4. MovedWell(x, r, seq[n], a, b)
    BY <2>2, <2>3, MovedFits
  <2>5. Saved(s, r, {}, {b})
    <3>1. b \in Ids
      BY DEF Inv, Stores, Tables, Live
    <3>2. Saved(x, r, {b}, {b} \cup {b})
      BY <2>2, <2>4, <3>1, MovedIsSaved
    <3>3. Saved(s, x, {}, {b}) /\ {b} \cup {b} = {b}
      BY <1>3
    <3> QED
      BY <3>2, <3>3, SavedOn
  <2> HIDE DEF r
  <2>6. /\ Inv(r, {}, {}) /\ r.at = s.at /\ r.pending = s.pending /\ b \in Live(r) /\ r \in Stores
        /\ r.traces[seq[n]].session = b /\ \A u \in Traces : u # seq[n] => r.traces[u] = x.traces[u]
    BY <1>3, <2>4 DEF MovedWell, Inv
  <2>7. Inv(r, {b}, {})
    BY <2>6, Filled
  <2>8. \A j \in 1..L : r.traces[seq[j]].session = IF j <= n THEN b ELSE a
    <3> SUFFICES ASSUME NEW j \in 1..L PROVE r.traces[seq[j]].session = IF j <= n THEN b ELSE a
      OBVIOUS
    <3>1. CASE j = n
      BY <2>1, <2>6, <3>1
    <3>2. CASE j # n
      <4>1. seq[j] # seq[n] /\ seq[j] \in Traces /\ j <= n - 1 <=> j <= n
        BY <1>1, <3>2
      <4>2. x.traces[seq[j]].session = IF j <= n - 1 THEN b ELSE a
        BY <1>3
      <4> QED
        BY <1>1, <2>6, <3>2, <4>1, <4>2
    <3> QED
      BY <3>1, <3>2
  <2>9. Good(r, n)
    BY <2>6, <2>7, <2>8, <2>5
  <2> QED
    BY <2>6, <2>9 DEF r
<1> HIDE DEF Good, Op
<1>4. H \in [0..L -> SUBSET Stores] /\ s \in H[0]
  BY <1>1, <1>2
<1>5. \A n \in 1..L : n - 1 \in 0..L /\ n \in 0..L
  BY <1>1
<1>6. /\ F \in [Stores \X (1..L) -> Stores]
      /\ \A n \in 1..L : \A x \in H[n - 1] : F[<<x, n>>] \in H[n]
  BY <1>3, <1>5
<1>7. \A n \in 1..L : \A x \in H[n - 1] : F[<<x, n>>] = Op(x, seq[n]) /\ Op(x, seq[n]) \in H[n]
  BY <1>3, <1>5
<1> HIDE DEF F
<1>8. PICK f : Recurs(f, s, L, H, F)
  <2> HIDE DEF H
  <2> QED
    BY <1>1, <1>4, <1>6, Recursion
<1> DEFINE Runs(g) == g = [n \in 0..L |-> IF n = 0 THEN s ELSE Op(g[n - 1], seq[n])]
           after == CHOOSE g : Runs(g)
<1>9. Runs(f)
  <2> HIDE DEF H
  <2>1. \A n \in 0..L : n = 0 \/ n \in 1..L
    OBVIOUS
  <2>2. \A n \in 0..L : f[n] = IF n = 0 THEN s ELSE Op(f[n - 1], seq[n])
    BY <1>7, <1>8, <2>1 DEF Recurs
  <2> QED
    BY <1>8, <2>2 DEF Recurs
<1>10. Runs(after)
  BY <1>9
<1> HIDE DEF after
<1>11. after[L] \in H[L]
  <2> HIDE DEF H
  <2>1. 0 \in 0..L /\ \A n \in 1..L : n \in 0..L /\ n # 0
    BY <1>1
  <2>2. after[0] = s /\ \A n \in 1..L : after[n] = Op(after[n - 1], seq[n])
    BY <1>10, <2>1
  <2>3. \A n \in 1..L : after[n - 1] \in H[n - 1] => after[n] \in H[n]
    BY <1>7, <2>2
  <2> QED
    BY <1>1, <1>4, <2>2, <2>3, RecursionStays
<1>12. Good(after[L], L)
  BY <1>1, <1>11
<1>13. Merged(s, a, b) = after[L]
  BY DEF Merged, Each, after, Op, L, seq, ts
<1> DEFINE r == after[L]
<1>14. /\ Inv(r, {}, {}) /\ r.at = s.at /\ r.pending = s.pending /\ b \in Live(r)
       /\ Saved(s, r, {}, {b}) /\ \A j \in 1..L : r.traces[seq[j]].session = b
  <2> HIDE DEF r
  <2>1. Good(r, L)
    BY <1>12 DEF r
  <2> QED
    BY <1>1, <2>1 DEF Good
<1>15. \A t \in Traces : s.traces[t].session = a => r.traces[t].session = b
  BY <1>a, <1>c, <1>14
<1> QED
  BY <1>13, <1>14, <1>15 DEF Absorbed

\* Trace t, which is nobody's, is now session id's and holds c.
Joins(s, r, t, c, id) ==
  /\ r.at = s.at /\ r.pending = s.pending /\ r.staged = s.staged /\ r.held = s.held /\ Live(r) = Live(s)
  /\ r.bytes = s.bytes + Bytes(c)
  /\ r.traces[t].session = id /\ r.traces[t].spans = c.spans /\ r.traces[t].logs = c.logs
  /\ r.sessions[id].traces = s.sessions[id].traces \cup {t}
  /\ \A u \in Traces : u # t => r.traces[u] = s.traces[u]
  /\ \A i \in Live(s) : r.sessions[i].complete = s.sessions[i].complete

\* A trace that joins takes nothing from the others.
LEMMA JoinsStill ==
  ASSUME NEW s, NEW r, NEW t, NEW c, NEW id, s.traces[t].session = NoSession, Joins(s, r, t, c, id)
  PROVE  Still(s, r)
BY DEF Joins, Still, Known

\* c, which was in hand, is counted and becomes the content of a trace of session id.
LEMMA AttachFits ==
  ASSUME NEW s, NEW E, NEW id \in Live(s), Inv(s, E, {}), NEW t \in Traces, s.traces[t].session = NoSession,
         t \notin ToSet(s.staged), NEW c, c.spans \subseteq Spans, c.logs \subseteq Logs,
         \A x \in ItemsIn(c) : Attr[x].trace = t, s.bytes + Bytes(c) <= Limits[s.at].max_bytes,
         NEW q, q = [s EXCEPT !.bytes = s.bytes + Bytes(c)]
  PROVE  Inv(Attached(q, t, c, id), E \cup {id}, {t}) /\ Joins(s, Attached(q, t, c, id), t, c, id)
<1> DEFINE trow == [session |-> id, spans |-> c.spans, logs |-> c.logs, complete |-> FALSE]
           row == More(s.sessions[id], t, c)
           r == Attached(q, t, c, id)
<1>1. /\ s \in Stores /\ s.sessions \in Tables /\ id \in DOMAIN s.sessions
      /\ s.traces \in [Traces -> TraceRows] /\ s.bytes \in Int /\ MembersFit(s.sessions, s.traces)
  BY DEF Inv, Stores, Live
<1>2. s.sessions[id] \in SessionRows /\ id \in Ids /\ id # NoSession
  BY <1>1, NothingIsThere DEF Tables
<1>3. s.traces[t] = NoTrace /\ t \notin s.sessions[id].traces
  BY <1>1, <1>2 DEF MembersFit
<1>4. Cardinality(c.spans) \in Nat /\ Cardinality(c.logs) \in Nat
  <2>1. IsFiniteSet(Spans) /\ IsFiniteSet(Logs)
    BY StoreAssumption
  <2>2. IsFiniteSet(c.spans) /\ IsFiniteSet(c.logs)
    BY <2>1, FS_Subset
  <2> QED
    BY <2>2, FS_CardinalityType
<1>5. /\ row \in SessionRows /\ row.key = s.sessions[id].key /\ row.complete = s.sessions[id].complete
      /\ row.traces = s.sessions[id].traces \cup {t}
      /\ row.spans = s.sessions[id].spans + Cardinality(c.spans)
      /\ row.logs = s.sessions[id].logs + Cardinality(c.logs)
  BY <1>2, <1>4, LessAndMore
<1>6. Bytes(c) \in Nat
  <2>1. ItemsIn(c) \in SUBSET Items
    BY DEF ItemsIn, Items
  <2> QED
    BY <2>1, SizeType DEF Bytes
<1>7. /\ q.at = s.at /\ q.staged = s.staged /\ q.held = s.held /\ q.pending = s.pending
      /\ q.heads = s.heads /\ q.due = s.due /\ q.finished = s.finished /\ q.events = s.events
      /\ q.sessions = s.sessions /\ q.traces = s.traces /\ q.bytes = s.bytes + Bytes(c) /\ q \in Stores
  <2> DEFINE b == s.bytes + Bytes(c)
  <2>1. b \in Int /\ q = [s EXCEPT !.bytes = b]
    BY <1>1, <1>6
  <2> HIDE DEF b
  <2>2. /\ q.at = s.at /\ q.staged = s.staged /\ q.held = s.held /\ q.pending = s.pending
        /\ q.heads = s.heads /\ q.due = s.due /\ q.finished = s.finished /\ q.events = s.events
        /\ q.sessions = s.sessions /\ q.traces = s.traces /\ q.bytes = b /\ q \in Stores
    BY ONLY <1>1, <2>1 DEF Stores
  <2> QED
    BY <2>2 DEF b
<1>8. r = [q EXCEPT !.traces = [q.traces EXCEPT ![t] = [session |-> id, spans |-> c.spans, logs |-> c.logs,
                                                        complete |-> q.traces[t].complete]],
                    !.sessions = [q.sessions EXCEPT ![id] = More(q.sessions[id], t, c)]]
  BY DEF Attached
<1>9. r = [q EXCEPT !.traces = [s.traces EXCEPT ![t] = trow], !.sessions = [s.sessions EXCEPT ![id] = row]]
  <2>1. q.traces[t].complete = FALSE
    BY <1>3, <1>7 DEF NoTrace
  <2> QED
    BY <1>7, <1>8, <2>1
<1> HIDE DEF r, row
<1>10. trow \in TraceRows /\ trow.session = id /\ ItemsIn(trow) = ItemsIn(c)
       /\ trow.spans = c.spans /\ trow.logs = c.logs
  BY <1>2 DEF TraceRows, ItemsIn
<1> HIDE DEF trow
<1>11. /\ r.at = s.at /\ r.staged = s.staged /\ r.held = s.held /\ r.pending = s.pending
       /\ r.heads = s.heads /\ r.due = s.due /\ r.finished = s.finished /\ r.events = s.events
       /\ r.sessions = [s.sessions EXCEPT ![id] = row] /\ r.traces = [s.traces EXCEPT ![t] = trow]
       /\ r.bytes = s.bytes + Bytes(c)
  BY <1>7, <1>9 DEF Stores
<1>12. r = [s EXCEPT !.sessions = r.sessions, !.traces = r.traces, !.bytes = r.bytes]
  BY <1>1, <1>9, <1>11 DEF Stores
<1>13. RowsChanged(s, r, t, id, trow, row)
  <2>1. NoTrace.spans = {} /\ NoTrace.logs = {} /\ Cardinality({}) = 0 /\ ItemsIn(NoTrace) = {}
    BY NothingIsThere, FS_EmptySet
  <2>2. r.bytes = s.bytes - Size(ItemsIn(s.traces[t])) + Size(ItemsIn(trow))
    BY <1>1, <1>3, <1>6, <1>10, <1>11, <2>1, SizeNone DEF Bytes
  <2>3. /\ row.spans = s.sessions[id].spans - Share(Cardinality(s.traces[t].spans), t, s.sessions[id].traces)
                                    + Share(Cardinality(trow.spans), t, row.traces)
        /\ row.logs = s.sessions[id].logs - Share(Cardinality(s.traces[t].logs), t, s.sessions[id].traces)
                                  + Share(Cardinality(trow.logs), t, row.traces)
    BY <1>2, <1>3, <1>4, <1>5, <1>10 DEF Share, SessionRows
  <2> QED
    BY <1>2, <1>3, <1>5, <1>10, <1>11, <2>1, <2>2, <2>3, NothingIsThere DEF RowsChanged
<1>14. Inv(r, E \cup {id}, {} \cup {t})
  BY <1>12, <1>13, RowChange
<1>15. Joins(s, r, t, c, id)
  BY <1>1, <1>5, <1>10, <1>11 DEF Joins, Live
<1> QED
  BY <1>14, <1>15 DEF r

-----------------------------------------------------------------------------
(* Storing items in sessions.                                              *)

\* Trace t of session id holds in r what it held in s, and maybe more; nothing is lost.
Grew(s, r, t, id) ==
  /\ r.at = s.at /\ r.pending = s.pending /\ id \in Live(r) /\ r.traces[t].session = id
  /\ s.traces[t].spans \subseteq r.traces[t].spans /\ s.traces[t].logs \subseteq r.traces[t].logs
  /\ Saved(s, r, {id}, {id})

\* Item x is one more of trow, and row counts it.
OneMore(s, t, id, x, trow, row) ==
  /\ trow \in TraceRows /\ trow.session = id /\ ItemsIn(trow) = ItemsIn(s.traces[t]) \cup {x}
  /\ s.traces[t].spans \subseteq trow.spans /\ s.traces[t].logs \subseteq trow.logs
  /\ row \in SessionRows /\ row.key = s.sessions[id].key /\ row.complete = s.sessions[id].complete
  /\ row.traces = s.sessions[id].traces
  /\ row.spans = s.sessions[id].spans - Cardinality(s.traces[t].spans) + Cardinality(trow.spans)
  /\ row.logs = s.sessions[id].logs - Cardinality(s.traces[t].logs) + Cardinality(trow.logs)

\* One more item for a trace of a session, if there is room for it.
LEMMA ItemFits ==
  ASSUME NEW s, NEW T, Inv(s, {}, T), NEW t \in Traces, NEW id \in Live(s), s.traces[t].session = id,
         NEW x \in Items, Attr[x].trace = t, x \notin ItemsIn(s.traces[t]), Roomy(s, Attr[x].size),
         NEW trow, NEW row, OneMore(s, t, id, x, trow, row),
         NEW r, r = [s EXCEPT !.traces = [s.traces EXCEPT ![t] = trow],
                              !.sessions = [s.sessions EXCEPT ![id] = row],
                              !.bytes = s.bytes + Attr[x].size]
  PROVE  Inv(r, {}, T) /\ Grew(s, r, t, id)
<1>1. /\ s \in Stores /\ s.sessions \in Tables /\ id \in DOMAIN s.sessions
      /\ s.traces \in [Traces -> TraceRows] /\ s.bytes \in Int /\ MembersFit(s.sessions, s.traces)
      /\ Sorted(s.traces)
  BY DEF Inv, Stores, Live
<1>2. s.sessions[id] \in SessionRows /\ id \in Ids /\ id # NoSession /\ t \in s.sessions[id].traces
  BY <1>1, NothingIsThere DEF Tables, MembersFit
<1>3. /\ r.at = s.at /\ r.staged = s.staged /\ r.held = s.held /\ r.pending = s.pending
      /\ r.heads = s.heads /\ r.due = s.due /\ r.finished = s.finished /\ r.events = s.events
      /\ r.sessions = [s.sessions EXCEPT ![id] = row] /\ r.traces = [s.traces EXCEPT ![t] = trow]
      /\ r.bytes = s.bytes + Attr[x].size
  BY <1>1 DEF Stores
<1>4. r = [s EXCEPT !.sessions = r.sessions, !.traces = r.traces, !.bytes = r.bytes]
  BY <1>1, <1>3 DEF Stores
<1>5. Size(ItemsIn(trow)) = Size(ItemsIn(s.traces[t])) + Attr[x].size
      /\ Size(ItemsIn(s.traces[t])) \in Nat /\ Attr[x].size \in Nat
  <2>1. ItemsIn(s.traces[t]) \in SUBSET Items
    BY <1>1 DEF Sorted, ItemsIn, Items
  <2> QED
    BY <2>1, SizeWith, SizeType, ItemsAreSound DEF OneMore
<1>6. RowsChanged(s, r, t, id, trow, row)
  <2>1. \A y \in ItemsIn(trow) : Attr[y].trace = t
    BY <1>1 DEF OneMore, Sorted
  <2>2. r.bytes <= Limits[s.at].max_bytes
    BY <1>3 DEF Roomy, Limit
  <2>3. r.bytes = s.bytes - Size(ItemsIn(s.traces[t])) + Size(ItemsIn(trow))
    BY <1>1, <1>3, <1>5
  <2>4. /\ trow \in TraceRows /\ trow.session = id /\ row \in SessionRows
        /\ row.key = s.sessions[id].key /\ row.complete = s.sessions[id].complete
        /\ row.traces = s.sessions[id].traces \cup {t}
        /\ row.spans = s.sessions[id].spans - Share(Cardinality(s.traces[t].spans), t, s.sessions[id].traces)
                                          + Share(Cardinality(trow.spans), t, row.traces)
        /\ row.logs = s.sessions[id].logs - Share(Cardinality(s.traces[t].logs), t, s.sessions[id].traces)
                                        + Share(Cardinality(trow.logs), t, row.traces)
    BY <1>2 DEF OneMore, Share
  <2> QED
    BY <1>2, <1>3, <2>1, <2>2, <2>3, <2>4 DEF RowsChanged
<1>7. Inv(r, {} \cup {id}, T \cup {t})
  BY <1>4, <1>6, RowChange
<1>8. /\ Live(r) = Live(s) /\ r.sessions[id].traces # {} /\ r.traces[t] = trow
  BY <1>1, <1>2, <1>3 DEF Live, OneMore
<1>9. ItemsIn(r.traces[t]) # {}
  BY <1>8 DEF OneMore
<1>10. Inv(r, {}, T)
  <2>1. \A i \in Live(r) : i \in ({} \cup {id}) \ {} => r.sessions[i].traces # {}
    BY <1>8
  <2>2. \A u \in Traces : u \in (T \cup {t}) \ T /\ r.traces[u].session # NoSession => ItemsIn(r.traces[u]) # {}
    BY <1>9
  <2> QED
    BY ONLY <1>7, <2>1, <2>2, Filled
<1>11. Still(s, r)
  <2>1. \A u \in Traces : r.traces[u] = IF u = t THEN trow ELSE s.traces[u]
    BY <1>1, <1>3
  <2>2. \A i \in Live(s) : r.sessions[i].complete = s.sessions[i].complete
    BY <1>1, <1>3 DEF OneMore, Live
  <2> QED
    BY <2>1, <2>2 DEF Still, OneMore
<1>12. Saved(s, r, {id}, {id})
  BY <1>10, <1>11, StillSaved
<1>13. Grew(s, r, t, id)
  BY <1>3, <1>8, <1>12 DEF Grew, OneMore
<1> QED
  BY <1>10, <1>13

\* A session that is kept has lost nothing.
LEMMA GrewNot ==
  ASSUME NEW s, NEW T, Inv(s, {}, T), NEW t \in Traces, NEW id \in Live(s), s.traces[t].session = id,
         NEW r, Keeps(s, r, id)
  PROVE  Grew(s, r, t, id) /\ r.traces[t] = s.traces[t] /\ r.sessions[id] = s.sessions[id]
<1>1. Saved(s, r, {id}, {id})
  BY KeptIsSaved
<1> QED
  BY <1>1 DEF Grew, Keeps, Inv, Stores

\* What only grows twice only grows.
LEMMA GrewOn ==
  ASSUME NEW s, NEW r, NEW q, NEW t, NEW id, Grew(s, r, t, id), Grew(r, q, t, id)
  PROVE  Grew(s, q, t, id)
<1>1. Saved(s, q, {id}, {id})
  BY SavedOn DEF Grew
<1> QED
  BY <1>1 DEF Grew

\* A store that is left alone has grown, if not by much.
LEMMA GrewSelf ==
  ASSUME NEW s, NEW t, NEW id \in Live(s), s.traces[t].session = id
  PROVE  Grew(s, s, t, id)
BY DEF Grew, Saved, Safe

\* The body of the span loop keeps the invariant, whether the span is new, known or
\* refused.
LEMMA SpanAddedFits ==
  ASSUME NEW s, NEW T, Inv(s, {}, T), NEW x \in Spans, NEW id \in Live(s),
         s.traces[Attr[x].trace].session = id
  PROVE  LET r == SpanAdded(s, x, id)
         IN  Inv(r, {}, T) /\ Grew(s, r, Attr[x].trace, id)
<1> DEFINE t == Attr[x].trace
           size == Attr[x].size
           room == MadeRoom(s, size, id, NoSession)
           more == room.traces[t].spans \cup {x}
           trow == [room.traces[t] EXCEPT !.spans = more]
           row == [room.sessions[id] EXCEPT !.spans = room.sessions[id].spans + 1]
           r == [room EXCEPT !.traces[t].spans = @ \cup {x},
                             !.sessions[id].spans = @ + 1,
                             !.bytes = @ + size]
<1>1. x \in Items /\ t \in Traces /\ size \in Nat \ {0}
  BY ItemsAreSound DEF Items
<1>2. Inv(room, {}, T) /\ Keeps(s, room, id)
  BY MadeRoomFits
<1> HIDE DEF room, t, size
<1>3. Grew(s, room, t, id) /\ room.traces[t] = s.traces[t] /\ room.sessions[id] = s.sessions[id]
  BY <1>1, <1>2, GrewNot DEF t
<1>4. Grew(s, s, t, id)
  BY GrewSelf DEF t
<1>5. /\ room \in Stores /\ room.sessions \in Tables /\ id \in DOMAIN room.sessions /\ id \in Live(room)
      /\ room.traces \in [Traces -> TraceRows] /\ room.bytes \in Int /\ Sorted(room.traces)
      /\ room.traces[t].session = id
  BY <1>2, <1>3 DEF Inv, Stores, Live, Grew
<1>6. room.sessions[id] \in SessionRows /\ id \in Ids /\ room.traces[t] \in TraceRows
  BY <1>1, <1>5 DEF Tables
<1>7. ASSUME x \notin room.traces[t].spans, Roomy(room, size)
      PROVE  Inv(r, {}, T) /\ Grew(s, r, t, id)
  <2>1. r = [room EXCEPT !.traces = [room.traces EXCEPT ![t] = trow],
                         !.sessions = [room.sessions EXCEPT ![id] = row],
                         !.bytes = room.bytes + size]
    OBVIOUS
  <2>2. Cardinality(more) = Cardinality(room.traces[t].spans) + 1
        /\ Cardinality(room.traces[t].spans) \in Nat /\ Cardinality(room.traces[t].logs) \in Nat
    <3>1. IsFiniteSet(Spans) /\ IsFiniteSet(Logs)
      BY StoreAssumption
    <3>2. IsFiniteSet(room.traces[t].spans) /\ IsFiniteSet(room.traces[t].logs)
      BY <1>6, <3>1, FS_Subset DEF TraceRows
    <3> QED
      BY <1>7, <3>2, FS_AddElement, FS_CardinalityType
  <2>3. more \subseteq Spans /\ room.traces[t].spans \subseteq more
    BY <1>6 DEF TraceRows
  <2> HIDE DEF r
  <2>4. /\ trow \in TraceRows /\ trow.session = id /\ trow.spans = more /\ trow.logs = room.traces[t].logs
    <3> HIDE DEF more
    <3> QED
      BY <1>5, <1>6, <2>3 DEF TraceRows
  <2>5. /\ row \in SessionRows /\ row.key = room.sessions[id].key /\ row.complete = room.sessions[id].complete
        /\ row.traces = room.sessions[id].traces /\ row.spans = room.sessions[id].spans + 1
        /\ row.logs = room.sessions[id].logs
    BY <1>6 DEF SessionRows
  <2> HIDE DEF trow, row
  <2>6. ItemsIn(trow) = ItemsIn(room.traces[t]) \cup {x}
    BY <2>4 DEF ItemsIn
  <2>7. OneMore(room, t, id, x, trow, row)
    <3>1. room.sessions[id].spans \in Int /\ room.sessions[id].logs \in Int
      BY <1>6 DEF SessionRows
    <3>2. /\ row.spans = room.sessions[id].spans - Cardinality(room.traces[t].spans) + Cardinality(trow.spans)
          /\ row.logs = room.sessions[id].logs - Cardinality(room.traces[t].logs) + Cardinality(trow.logs)
      BY <2>2, <2>4, <2>5, <3>1
    <3> QED
      BY <2>3, <2>4, <2>5, <2>6, <3>2 DEF OneMore
  <2>8. x \notin ItemsIn(room.traces[t])
    BY <1>6, <1>7, StoreAssumption DEF ItemsIn, TraceRows
  <2>9. Inv(r, {}, T) /\ Grew(room, r, t, id)
    <3>1. Attr[x].trace = t /\ Roomy(room, Attr[x].size)
          /\ r = [room EXCEPT !.traces = [room.traces EXCEPT ![t] = trow],
                              !.sessions = [room.sessions EXCEPT ![id] = row],
                              !.bytes = room.bytes + Attr[x].size]
      BY <1>7, <2>1 DEF t, size
    <3> QED
      BY ONLY <1>1, <1>2, <1>5, <2>7, <2>8, <3>1, ItemFits
  <2> QED
    BY <1>3, <2>9, GrewOn
<1>8. Inv(SpanAdded(s, x, id), {}, T) /\ Grew(s, SpanAdded(s, x, id), t, id)
  <2> DEFINE full == \/ x \in s.traces[t].spans
                     \/ Cardinality(s.traces[t].spans) >= Limit(s).spans_per_trace
                     \/ s.sessions[id].spans >= Limit(s).spans_per_session
  <2>1. SpanAdded(s, x, id) = IF full THEN s ELSE IF ~Roomy(room, size) THEN room ELSE r
    BY DEF SpanAdded, room, t, size
  <2>2. full \/ x \notin room.traces[t].spans
    BY <1>3
  <2> HIDE DEF full, r
  <2> QED
    BY <1>2, <1>3, <1>4, <1>7, <2>1, <2>2
<1> QED
  BY <1>8 DEF t

\* _add_log keeps the invariant, whether the log is new, known or refused.
LEMMA LogAddedFits ==
  ASSUME NEW s, NEW T, Inv(s, {}, T), NEW x \in Logs, NEW id \in Live(s),
         s.traces[Attr[x].trace].session = id
  PROVE  LET r == LogAdded(s, x, id)
         IN  Inv(r, {}, T) /\ Grew(s, r, Attr[x].trace, id)
<1> DEFINE t == Attr[x].trace
           size == Attr[x].size
           room == MadeRoom(s, size, id, NoSession)
           more == room.traces[t].logs \cup {x}
           trow == [room.traces[t] EXCEPT !.logs = more]
           row == [room.sessions[id] EXCEPT !.logs = room.sessions[id].logs + 1]
           r == [room EXCEPT !.traces[t].logs = @ \cup {x},
                             !.sessions[id].logs = @ + 1,
                             !.bytes = @ + size]
<1>1. x \in Items /\ t \in Traces /\ size \in Nat \ {0}
  BY ItemsAreSound DEF Items
<1>2. Inv(room, {}, T) /\ Keeps(s, room, id)
  BY MadeRoomFits
<1> HIDE DEF room, t, size
<1>3. Grew(s, room, t, id) /\ room.traces[t] = s.traces[t] /\ room.sessions[id] = s.sessions[id]
  BY <1>1, <1>2, GrewNot DEF t
<1>4. Grew(s, s, t, id)
  BY GrewSelf DEF t
<1>5. /\ room \in Stores /\ room.sessions \in Tables /\ id \in DOMAIN room.sessions /\ id \in Live(room)
      /\ room.traces \in [Traces -> TraceRows] /\ room.bytes \in Int /\ Sorted(room.traces)
      /\ room.traces[t].session = id
  BY <1>2, <1>3 DEF Inv, Stores, Live, Grew
<1>6. room.sessions[id] \in SessionRows /\ id \in Ids /\ room.traces[t] \in TraceRows
  BY <1>1, <1>5 DEF Tables
<1>7. ASSUME x \notin room.traces[t].logs, Roomy(room, size)
      PROVE  Inv(r, {}, T) /\ Grew(s, r, t, id)
  <2>1. r = [room EXCEPT !.traces = [room.traces EXCEPT ![t] = trow],
                         !.sessions = [room.sessions EXCEPT ![id] = row],
                         !.bytes = room.bytes + size]
    OBVIOUS
  <2>2. Cardinality(more) = Cardinality(room.traces[t].logs) + 1
        /\ Cardinality(room.traces[t].logs) \in Nat /\ Cardinality(room.traces[t].spans) \in Nat
    <3>1. IsFiniteSet(Spans) /\ IsFiniteSet(Logs)
      BY StoreAssumption
    <3>2. IsFiniteSet(room.traces[t].logs) /\ IsFiniteSet(room.traces[t].spans)
      BY <1>6, <3>1, FS_Subset DEF TraceRows
    <3> QED
      BY <1>7, <3>2, FS_AddElement, FS_CardinalityType
  <2>3. more \subseteq Logs /\ room.traces[t].logs \subseteq more
    BY <1>6 DEF TraceRows
  <2> HIDE DEF r
  <2>4. /\ trow \in TraceRows /\ trow.session = id /\ trow.logs = more /\ trow.spans = room.traces[t].spans
    <3> HIDE DEF more
    <3> QED
      BY <1>5, <1>6, <2>3 DEF TraceRows
  <2>5. /\ row \in SessionRows /\ row.key = room.sessions[id].key /\ row.complete = room.sessions[id].complete
        /\ row.traces = room.sessions[id].traces /\ row.logs = room.sessions[id].logs + 1
        /\ row.spans = room.sessions[id].spans
    BY <1>6 DEF SessionRows
  <2> HIDE DEF trow, row
  <2>6. ItemsIn(trow) = ItemsIn(room.traces[t]) \cup {x}
    BY <2>4 DEF ItemsIn
  <2>7. OneMore(room, t, id, x, trow, row)
    <3>1. room.sessions[id].logs \in Int /\ room.sessions[id].spans \in Int
      BY <1>6 DEF SessionRows
    <3>2. /\ row.logs = room.sessions[id].logs - Cardinality(room.traces[t].logs) + Cardinality(trow.logs)
          /\ row.spans = room.sessions[id].spans - Cardinality(room.traces[t].spans) + Cardinality(trow.spans)
      BY <2>2, <2>4, <2>5, <3>1
    <3> QED
      BY <2>3, <2>4, <2>5, <2>6, <3>2 DEF OneMore
  <2>8. x \notin ItemsIn(room.traces[t])
    BY <1>6, <1>7, StoreAssumption DEF ItemsIn, TraceRows
  <2>9. Inv(r, {}, T) /\ Grew(room, r, t, id)
    <3>1. Attr[x].trace = t /\ Roomy(room, Attr[x].size)
          /\ r = [room EXCEPT !.traces = [room.traces EXCEPT ![t] = trow],
                              !.sessions = [room.sessions EXCEPT ![id] = row],
                              !.bytes = room.bytes + Attr[x].size]
      BY <1>7, <2>1 DEF t, size
    <3> QED
      BY ONLY <1>1, <1>2, <1>5, <2>7, <2>8, <3>1, ItemFits
  <2> QED
    BY <1>3, <2>9, GrewOn
<1>8. Inv(LogAdded(s, x, id), {}, T) /\ Grew(s, LogAdded(s, x, id), t, id)
  <2> DEFINE full == \/ x \in s.traces[t].logs
                     \/ Cardinality(s.traces[t].logs) >= Limit(s).logs_per_trace
                     \/ s.sessions[id].logs >= Limit(s).logs_per_session
  <2>1. LogAdded(s, x, id) = IF full THEN s ELSE IF ~Roomy(room, size) THEN room ELSE r
    BY DEF LogAdded, room, t, size
  <2>2. full \/ x \notin room.traces[t].logs
    BY <1>3
  <2> HIDE DEF full, r
  <2> QED
    BY <1>2, <1>3, <1>4, <1>7, <2>1, <2>2
<1> QED
  BY <1>8 DEF t

\* The span loop of ingest_spans.
SpansLoop(s, unit, id) == Each(LAMBDA acc, x : SpanAdded(acc, x, id), s, unit)

\* The span loop keeps the invariant, and its trace only gains spans.
LEMMA SpansLoopFits ==
  ASSUME NEW s, NEW T, Inv(s, {}, T), NEW t \in Traces, NEW id \in Live(s), s.traces[t].session = id,
         NEW seq \in Seq(Spans), \A i \in 1..Len(seq) : Attr[seq[i]].trace = t
  PROVE  LET r == SpansLoop(s, seq, id) IN Inv(r, {}, T) /\ Grew(s, r, t, id)
<1> DEFINE L == Len(seq)
           Good(x, n) == Inv(x, {}, T) /\ Grew(s, x, t, id)
           Op(acc, x) == SpanAdded(acc, x, id)
           H == [n \in 0..L |-> {x \in Stores : Good(x, n)}]
           F == [p \in Stores \X (1..L) |-> IF p[1] \in H[p[2] - 1] THEN Op(p[1], seq[p[2]]) ELSE p[1]]
<1>1. L \in Nat /\ \A i \in 1..L : seq[i] \in Spans /\ Attr[seq[i]].trace = t
  BY Elements
<1> HIDE DEF L
<1>2. s \in Stores /\ Good(s, 0)
  BY GrewSelf DEF Inv
<1>3. ASSUME NEW n \in 1..L, NEW x \in Stores, Good(x, n - 1)
      PROVE  Op(x, seq[n]) \in Stores /\ Good(Op(x, seq[n]), n)
  <2> DEFINE r == SpanAdded(x, seq[n], id)
  <2>1. id \in Live(x) /\ x.traces[t].session = id
    BY <1>3 DEF Grew
  <2>2. Inv(r, {}, T) /\ Grew(x, r, t, id)
    BY <1>1, <1>3, <2>1, SpanAddedFits
  <2> HIDE DEF r
  <2>3. Grew(s, r, t, id)
    BY <1>3, <2>2, GrewOn
  <2>4. r \in Stores
    BY <2>2 DEF Inv
  <2> QED
    BY <2>2, <2>3, <2>4 DEF r
<1> HIDE DEF Good, Op
<1>4. H \in [0..L -> SUBSET Stores] /\ s \in H[0]
  BY <1>1, <1>2
<1>5. \A n \in 1..L : n - 1 \in 0..L /\ n \in 0..L
  BY <1>1
<1>6. /\ F \in [Stores \X (1..L) -> Stores]
      /\ \A n \in 1..L : \A x \in H[n - 1] : F[<<x, n>>] \in H[n]
  BY <1>3, <1>5
<1>7. \A n \in 1..L : \A x \in H[n - 1] : F[<<x, n>>] = Op(x, seq[n]) /\ Op(x, seq[n]) \in H[n]
  BY <1>3, <1>5
<1> HIDE DEF F
<1>8. PICK f : Recurs(f, s, L, H, F)
  <2> HIDE DEF H
  <2> QED
    BY <1>1, <1>4, <1>6, Recursion
<1> DEFINE Runs(g) == g = [n \in 0..L |-> IF n = 0 THEN s ELSE Op(g[n - 1], seq[n])]
           after == CHOOSE g : Runs(g)
<1>9. Runs(f)
  <2> HIDE DEF H
  <2>1. \A n \in 0..L : n = 0 \/ n \in 1..L
    OBVIOUS
  <2>2. \A n \in 0..L : f[n] = IF n = 0 THEN s ELSE Op(f[n - 1], seq[n])
    BY <1>7, <1>8, <2>1 DEF Recurs
  <2> QED
    BY <1>8, <2>2 DEF Recurs
<1>10. Runs(after)
  BY <1>9
<1> HIDE DEF after
<1>11. after[L] \in H[L]
  <2> HIDE DEF H
  <2>1. 0 \in 0..L /\ \A n \in 1..L : n \in 0..L /\ n # 0
    BY <1>1
  <2>2. after[0] = s /\ \A n \in 1..L : after[n] = Op(after[n - 1], seq[n])
    BY <1>10, <2>1
  <2>3. \A n \in 1..L : after[n - 1] \in H[n - 1] => after[n] \in H[n]
    BY <1>7, <2>2
  <2> QED
    BY <1>1, <1>4, <2>2, <2>3, RecursionStays
<1>12. Good(after[L], L)
  BY <1>1, <1>11
<1>13. SpansLoop(s, seq, id) = after[L]
  BY DEF SpansLoop, Each, after, Op, L
<1> QED
  BY <1>12, <1>13 DEF Good

\* The log loop keeps the invariant, and its trace only gains logs.
LEMMA LogsAddedFits ==
  ASSUME NEW s, NEW T, Inv(s, {}, T), NEW t \in Traces, NEW id \in Live(s), s.traces[t].session = id,
         NEW seq \in Seq(Logs), \A i \in 1..Len(seq) : Attr[seq[i]].trace = t
  PROVE  LET r == LogsAdded(s, seq, id) IN Inv(r, {}, T) /\ Grew(s, r, t, id)
<1> DEFINE L == Len(seq)
           Good(x, n) == Inv(x, {}, T) /\ Grew(s, x, t, id)
           Op(acc, x) == LogAdded(acc, x, id)
           H == [n \in 0..L |-> {x \in Stores : Good(x, n)}]
           F == [p \in Stores \X (1..L) |-> IF p[1] \in H[p[2] - 1] THEN Op(p[1], seq[p[2]]) ELSE p[1]]
<1>1. L \in Nat /\ \A i \in 1..L : seq[i] \in Logs /\ Attr[seq[i]].trace = t
  BY Elements
<1> HIDE DEF L
<1>2. s \in Stores /\ Good(s, 0)
  BY GrewSelf DEF Inv
<1>3. ASSUME NEW n \in 1..L, NEW x \in Stores, Good(x, n - 1)
      PROVE  Op(x, seq[n]) \in Stores /\ Good(Op(x, seq[n]), n)
  <2> DEFINE r == LogAdded(x, seq[n], id)
  <2>1. id \in Live(x) /\ x.traces[t].session = id
    BY <1>3 DEF Grew
  <2>2. Inv(r, {}, T) /\ Grew(x, r, t, id)
    BY <1>1, <1>3, <2>1, LogAddedFits
  <2> HIDE DEF r
  <2>3. Grew(s, r, t, id)
    BY <1>3, <2>2, GrewOn
  <2>4. r \in Stores
    BY <2>2 DEF Inv
  <2> QED
    BY <2>2, <2>3, <2>4 DEF r
<1> HIDE DEF Good, Op
<1>4. H \in [0..L -> SUBSET Stores] /\ s \in H[0]
  BY <1>1, <1>2
<1>5. \A n \in 1..L : n - 1 \in 0..L /\ n \in 0..L
  BY <1>1
<1>6. /\ F \in [Stores \X (1..L) -> Stores]
      /\ \A n \in 1..L : \A x \in H[n - 1] : F[<<x, n>>] \in H[n]
  BY <1>3, <1>5
<1>7. \A n \in 1..L : \A x \in H[n - 1] : F[<<x, n>>] = Op(x, seq[n]) /\ Op(x, seq[n]) \in H[n]
  BY <1>3, <1>5
<1> HIDE DEF F
<1>8. PICK f : Recurs(f, s, L, H, F)
  <2> HIDE DEF H
  <2> QED
    BY <1>1, <1>4, <1>6, Recursion
<1> DEFINE Runs(g) == g = [n \in 0..L |-> IF n = 0 THEN s ELSE Op(g[n - 1], seq[n])]
           after == CHOOSE g : Runs(g)
<1>9. Runs(f)
  <2> HIDE DEF H
  <2>1. \A n \in 0..L : n = 0 \/ n \in 1..L
    OBVIOUS
  <2>2. \A n \in 0..L : f[n] = IF n = 0 THEN s ELSE Op(f[n - 1], seq[n])
    BY <1>7, <1>8, <2>1 DEF Recurs
  <2> QED
    BY <1>8, <2>2 DEF Recurs
<1>10. Runs(after)
  BY <1>9
<1> HIDE DEF after
<1>11. after[L] \in H[L]
  <2> HIDE DEF H
  <2>1. 0 \in 0..L /\ \A n \in 1..L : n \in 0..L /\ n # 0
    BY <1>1
  <2>2. after[0] = s /\ \A n \in 1..L : after[n] = Op(after[n - 1], seq[n])
    BY <1>10, <2>1
  <2>3. \A n \in 1..L : after[n - 1] \in H[n - 1] => after[n] \in H[n]
    BY <1>7, <2>2
  <2> QED
    BY <1>1, <1>4, <2>2, <2>3, RecursionStays
<1>12. Good(after[L], L)
  BY <1>1, <1>11
<1>13. LogsAdded(s, seq, id) = after[L]
  BY DEF LogsAdded, Each, after, Op, L
<1> QED
  BY <1>12, <1>13 DEF Good

\* A trace of a session is marked complete or not.
LEMMA MarkFits ==
  ASSUME NEW s, Inv(s, {}, {}), NEW t \in Traces, NEW id \in Live(s), s.traces[t].session = id, NEW b \in BOOLEAN
  PROVE  LET r == [s EXCEPT !.traces[t].complete = b]
         IN  Inv(r, {}, {}) /\ r.sessions = s.sessions /\ Live(r) = Live(s) /\ Still(s, r)
<1> DEFINE r == [s EXCEPT !.traces[t].complete = b]
           trow == [s.traces[t] EXCEPT !.complete = b]
           row == s.sessions[id]
<1>1. /\ s \in Stores /\ s.sessions \in Tables /\ id \in DOMAIN s.sessions
      /\ s.traces \in [Traces -> TraceRows] /\ s.bytes \in Int /\ MembersFit(s.sessions, s.traces)
      /\ Sorted(s.traces) /\ s.bytes <= Limits[s.at].max_bytes /\ s.traces[t] \in TraceRows
  BY DEF Inv, Stores, Live, BytesFit
<1>2. row \in SessionRows /\ id \in Ids /\ id # NoSession /\ t \in row.traces
  BY <1>1, NothingIsThere DEF Tables, MembersFit
<1>3. r = [s EXCEPT !.traces = [s.traces EXCEPT ![t] = trow]]
  OBVIOUS
<1>4. /\ trow \in TraceRows /\ trow.session = id /\ trow.spans = s.traces[t].spans /\ trow.logs = s.traces[t].logs
  BY <1>1 DEF TraceRows
<1> HIDE DEF trow, r, row
<1>5. [s.sessions EXCEPT ![id] = row] = s.sessions
  BY <1>1 DEF Tables, row
<1>6. /\ r.at = s.at /\ r.staged = s.staged /\ r.held = s.held /\ r.pending = s.pending
      /\ r.heads = s.heads /\ r.due = s.due /\ r.finished = s.finished /\ r.events = s.events
      /\ r.sessions = [s.sessions EXCEPT ![id] = row] /\ r.sessions = s.sessions
      /\ r.traces = [s.traces EXCEPT ![t] = trow] /\ r.bytes = s.bytes
  BY <1>1, <1>3, <1>5 DEF Stores
<1>7. r = [s EXCEPT !.sessions = r.sessions, !.traces = r.traces, !.bytes = r.bytes]
  BY <1>1, <1>3, <1>6 DEF Stores
<1>8. ItemsIn(trow) = ItemsIn(s.traces[t]) /\ Size(ItemsIn(trow)) \in Nat
  <2>1. ItemsIn(trow) = ItemsIn(s.traces[t]) /\ ItemsIn(trow) \in SUBSET Items
    BY <1>4 DEF ItemsIn, TraceRows, Items
  <2> QED
    BY <2>1, SizeType
<1>9. RowsChanged(s, r, t, id, trow, row)
  <2>1. \A x \in ItemsIn(trow) : Attr[x].trace = t
    BY <1>1, <1>8 DEF Sorted
  <2>2. r.bytes = s.bytes - Size(ItemsIn(s.traces[t])) + Size(ItemsIn(trow))
    BY <1>1, <1>6, <1>8
  <2>3. CountsSplit(s.traces, row.traces, t)
    BY <1>1, <1>2, CardsSplit DEF SessionRows
  <2>4. /\ row.spans = row.spans - Share(Cardinality(s.traces[t].spans), t, row.traces)
                                 + Share(Cardinality(trow.spans), t, row.traces)
        /\ row.logs = row.logs - Share(Cardinality(s.traces[t].logs), t, row.traces)
                               + Share(Cardinality(trow.logs), t, row.traces)
    BY <1>2, <1>4, <2>3 DEF Share, CountsSplit, SessionRows
  <2>5. row = s.sessions[id] /\ row.traces = row.traces \cup {t}
    BY <1>2 DEF row
  <2> QED
    BY <1>1, <1>2, <1>4, <1>6, <2>1, <2>2, <2>4, <2>5 DEF RowsChanged
<1>10. Inv(r, {} \cup {id}, {} \cup {t})
  BY <1>7, <1>9, RowChange
<1>11. r.traces[t] = trow /\ Live(r) = Live(s) /\ r.sessions[id].traces # {}
  BY <1>1, <1>2, <1>6 DEF Live, row
<1>12. ItemsIn(s.traces[t]) # {}
  BY <1>1, <1>4, NothingIsThere, <1>2 DEF Inv, FullFit
<1>13. Inv(r, {}, {})
  <2>1. \A i \in Live(r) : i \in ({} \cup {id}) \ {} => r.sessions[i].traces # {}
    BY <1>11
  <2>2. \A u \in Traces : u \in ({} \cup {t}) \ {} /\ r.traces[u].session # NoSession => ItemsIn(r.traces[u]) # {}
    BY <1>8, <1>11, <1>12
  <2> QED
    BY ONLY <1>10, <2>1, <2>2, Filled
<1>14. Still(s, r)
  <2>1. \A u \in Traces : r.traces[u] = IF u = t THEN trow ELSE s.traces[u]
    BY <1>1, <1>6
  <2> QED
    BY <1>4, <1>6, <2>1 DEF Still
<1> QED
  BY <1>6, <1>11, <1>13, <1>14 DEF r

\* A store with an armed deadline that reports a session.
LEMMA ReportedFits ==
  ASSUME NEW s, Inv(s, {}, {}), NEW i \in Traces \cup Ids, NEW id \in Ids
  PROVE  Inv(Dirty(Arm(s, i), id), {}, {}) /\ SameTables(s, Dirty(Arm(s, i), id))
<1> DEFINE q == Arm(s, i)
<1>1. Inv(q, {}, {}) /\ SameTables(s, q)
  BY ArmFits
<1> HIDE DEF q
<1>2. Inv(Dirty(q, id), {}, {}) /\ SameTables(q, Dirty(q, id))
  BY <1>1, DirtyFits
<1>3. SameTables(s, Dirty(q, id))
  BY <1>1, <1>2 DEF SameTables
<1> QED
  BY <1>2, <1>3 DEF q

\* Storing a batch of spans keeps the invariant, and nothing is lost: a trace attached for
\* the batch holds some of it at the end, or is detached.
LEMMA SpansAddedFits ==
  ASSUME NEW s, NEW unit \in Seq(Spans), OfOneTrace(unit), NEW id \in Live(s), NEW attached \in BOOLEAN,
         s.traces[Attr[unit[1]].trace].session = id,
         Inv(s, {}, IF attached THEN {Attr[unit[1]].trace} ELSE {})
  PROVE  LET r == SpansAdded(s, unit, id, attached) IN Inv(r, {}, {}) /\ Saved(s, r, {id}, {id})
<1> DEFINE t == Attr[unit[1]].trace
           T == IF attached THEN {t} ELSE {}
           stored == SpansLoop(s, unit, id)
           kept == IF attached THEN Detached(stored, t, id) ELSE stored
           opened == IF kept.sessions[id].complete THEN Reopened(kept, id) ELSE kept
           marked == [opened EXCEPT !.traces[t].complete = FALSE]
           r == SpansAdded(s, unit, id, attached)
<1>1. t \in Traces /\ \A i \in 1..Len(unit) : Attr[unit[i]].trace = t
  <2>1. unit[1] \in Items /\ \A i \in 1..Len(unit) : i \in DOMAIN unit
    BY DEF OfOneTrace, Items
  <2> QED
    BY <2>1, ItemsAreSound DEF OfOneTrace
<1>2. r = IF stored.traces[t].spans = s.traces[t].spans THEN kept ELSE Dirty(Arm(marked, t), id)
  BY DEF SpansAdded, SpansLoop
<1> HIDE DEF t, r
<1>3. Inv(stored, {}, T) /\ Grew(s, stored, t, id)
  <2>1. s.traces[t].session = id /\ Inv(s, {}, T)
    BY DEF t
  <2> HIDE DEF T, stored
  <2>2. Inv(SpansLoop(s, unit, id), {}, T) /\ Grew(s, SpansLoop(s, unit, id), t, id)
    BY <1>1, <2>1, SpansLoopFits
  <2> QED
    BY <2>2 DEF stored
<1> HIDE DEF stored
<1>4. id \in Live(stored) /\ stored.traces[t].session = id /\ Saved(s, stored, {id}, {id})
  BY <1>3 DEF Grew
<1>5. Inv(kept, {}, {}) /\ Saved(s, kept, {id}, {id})
  <2>1. attached => Inv(Detached(stored, t, id), {}, {}) /\ Still(stored, Detached(stored, t, id))
    BY <1>1, <1>3, <1>4, DetachedFits
  <2>2. Inv(kept, {}, {}) /\ Still(stored, kept)
    BY <1>3, <2>1 DEF Still
  <2> HIDE DEF kept
  <2>3. Saved(stored, kept, {id}, {id})
    BY <1>3, <2>2, StillSaved
  <2> QED
    BY <1>4, <2>2, <2>3, SavedOn
<1>6. CASE stored.traces[t].spans = s.traces[t].spans
  BY <1>2, <1>5, <1>6 DEF r
<1>7. CASE stored.traces[t].spans # s.traces[t].spans
  <2>1. ItemsIn(stored.traces[t]) # {}
    BY <1>3, <1>7 DEF Grew, ItemsIn
  <2>2. kept = stored
    BY <2>1 DEF Detached
  <2> HIDE DEF kept
  <2>3. id \in Live(kept) /\ kept.traces[t].session = id /\ kept.sessions[id].traces # {} /\ id \in Ids
    <3>1. id \in Live(kept) /\ kept.traces[t].session = id
      BY <1>4, <2>2
    <3>2. /\ kept.sessions \in Tables /\ id \in DOMAIN kept.sessions /\ MembersFit(kept.sessions, kept.traces)
      BY <1>5, <3>1 DEF Inv, Stores, Live
    <3> QED
      BY <1>1, <3>1, <3>2 DEF MembersFit, Tables
  <2>4. /\ Inv(opened, {}, {}) /\ opened.traces[t].session = id /\ id \in Live(opened)
        /\ Still(kept, opened)
    <3>1. CASE ~kept.sessions[id].complete
      BY <1>5, <2>3, <3>1 DEF Still
    <3>2. CASE kept.sessions[id].complete
      <4>1. opened = Reopened(kept, id)
        BY <3>2
      <4> HIDE DEF opened
      <4>2. /\ Inv(opened, {}, {}) /\ opened.traces = kept.traces /\ Live(opened) = Live(kept)
            /\ ~opened.sessions[id].complete
            /\ \A i \in Live(kept) : i # id => opened.sessions[i] = kept.sessions[i]
        BY <1>5, <2>3, <4>1, ReopenedFits
      <4> QED
        BY <2>3, <4>2 DEF Still
    <3> QED
      BY <3>1, <3>2
  <2> HIDE DEF opened
  <2>5. Inv(marked, {}, {}) /\ Still(opened, marked)
    <3>1. ASSUME NEW b \in BOOLEAN
          PROVE  LET q == [opened EXCEPT !.traces[t].complete = b]
                 IN  Inv(q, {}, {}) /\ Still(opened, q)
      BY <1>1, <2>4, MarkFits
    <3> QED
      BY <3>1
  <2> HIDE DEF marked
  <2> DEFINE told == Dirty(Arm(marked, t), id)
  <2>6. Inv(told, {}, {}) /\ SameTables(marked, told)
    BY <1>1, <2>3, <2>5, ReportedFits
  <2> HIDE DEF told
  <2>7. /\ Saved(kept, opened, {id}, {id}) /\ Saved(opened, marked, {id}, {id})
        /\ Saved(marked, told, {id}, {id})
    BY <1>5, <2>4, <2>5, <2>6, StillSaved, SameSaved DEF SameTables
  <2>8. Saved(kept, told, {id}, {id})
    BY <2>7, SavedOn
  <2>9. Saved(s, told, {id}, {id})
    BY <1>5, <2>8, SavedOn
  <2> QED
    BY <1>2, <1>7, <2>6, <2>9 DEF r, told
<1> QED
  BY <1>6, <1>7

-----------------------------------------------------------------------------
(* Logs that wait, deadlines and events.                                   *)

\* r is s but for what waits, is due or is to be told.
Aside(s, r) ==
  /\ r \in Stores /\ LogsFit(r.pending)
  /\ r.at = s.at /\ r.sessions = s.sessions /\ r.traces = s.traces /\ r.staged = s.staged
  /\ r.held = s.held /\ r.heads = s.heads /\ r.finished = s.finished /\ r.bytes = s.bytes

\* What waits, is due or is to be told changes nothing of the tables.
LEMMA AsideFits ==
  ASSUME NEW s, NEW E, NEW T, Inv(s, E, T), NEW r, Aside(s, r)
  PROVE  Inv(r, E, T) /\ Live(r) = Live(s)
BY DEF Inv, Aside, Live

\* Other logs wait for trace t.
LEMMA PendingFits ==
  ASSUME NEW s, NEW E, NEW T, Inv(s, E, T), NEW t \in Traces, NEW q \in Seq(Logs),
         \A i \in 1..Len(q) : Attr[q[i]].trace = t
  PROVE  LET r == [s EXCEPT !.pending[t] = q]
         IN  Inv(r, E, T) /\ Aside(s, r) /\ Live(r) = Live(s)
<1> DEFINE r == [s EXCEPT !.pending[t] = q]
           p == [s.pending EXCEPT ![t] = q]
<1>1. s \in Stores /\ LogsFit(s.pending) /\ s.pending \in [Traces -> Seq(Logs)]
  BY DEF Inv, Stores
<1>2. r = [s EXCEPT !.pending = p]
  OBVIOUS
<1>3. p \in [Traces -> Seq(Logs)] /\ LogsFit(p)
  BY <1>1 DEF LogsFit
<1> HIDE DEF p, r
<1>4. Aside(s, r)
  BY <1>1, <1>2, <1>3 DEF Aside, Stores
<1> QED
  BY <1>4, AsideFits DEF r

\* Replaying the logs that waited keeps the invariant and the owner of t.
LEMMA ReplayedFits ==
  ASSUME NEW s, NEW T, Inv(s, {}, T), NEW t \in Traces, NEW id \in Live(s), s.traces[t].session = id
  PROVE  LET r == Replayed(s, t, id)
         IN  Inv(r, {}, T) /\ id \in Live(r) /\ r.traces[t].session = id /\ Saved(s, r, {id}, {id})
<1> DEFINE q == [s EXCEPT !.pending[t] = << >>]
           logs == s.pending[t]
           r == LogsAdded(q, logs, id)
<1>1. logs \in Seq(Logs) /\ \A i \in 1..Len(logs) : Attr[logs[i]].trace = t
  BY DEF Inv, Stores, LogsFit
<1>2. Inv(q, {}, T) /\ Aside(s, q) /\ Live(q) = Live(s)
  <2> DEFINE none == << >>
  <2>1. none \in Seq(Logs) /\ \A i \in 1..Len(none) : Attr[none[i]].trace = t
    OBVIOUS
  <2>2. q = [s EXCEPT !.pending[t] = none]
    OBVIOUS
  <2> HIDE DEF none, q
  <2>3. LET r1 == [s EXCEPT !.pending[t] = none]
        IN  Inv(r1, {}, T) /\ Aside(s, r1) /\ Live(r1) = Live(s)
    BY <2>1, PendingFits
  <2> QED
    BY <2>2, <2>3
<1> HIDE DEF q, logs
<1>3. q.traces[t].session = id /\ id \in Live(q)
  BY <1>2 DEF Aside
<1>4. Inv(r, {}, T) /\ Grew(q, r, t, id)
  BY <1>1, <1>2, <1>3, LogsAddedFits
<1>5. Replayed(s, t, id) = r
  BY DEF Replayed, q, logs
<1> HIDE DEF r
<1>6. Saved(s, q, {id}, {id}) /\ Saved(q, r, {id}, {id})
  BY <1>2, <1>4, SameSaved DEF Aside, Grew
<1>7. Saved(s, r, {id}, {id})
  BY <1>6, SavedOn
<1> QED
  BY <1>4, <1>5, <1>7 DEF Grew

\* Noting that a session got logs keeps the invariant.
LEMMA NotedFits ==
  ASSUME NEW s, Inv(s, {}, {}), NEW id \in Live(s)
  PROVE  Inv(Noted(s, id), {}, {}) /\ SameTables(s, Noted(s, id))
<1>1. id \in Ids /\ id \in Traces \cup Ids
  BY DEF Inv, Stores, Tables, Live
<1>2. /\ Inv(Dirty(s, id), {}, {}) /\ Inv(Dirty(Arm(s, id), id), {}, {})
      /\ SameTables(s, Dirty(s, id)) /\ SameTables(s, Dirty(Arm(s, id), id))
  BY <1>1, DirtyFits, ReportedFits
<1> QED
  BY <1>2 DEF Noted

\* A buffer that is full refuses a log; else it comes last.
LEMMA BufferedFits ==
  ASSUME NEW s, Inv(s, {}, {}), NEW l \in Logs
  PROVE  LET r == Buffered(s, l) IN Inv(r, {}, {}) /\ r.sessions = s.sessions /\ r.traces = s.traces
<1> DEFINE t == Attr[l].trace
           q == Append(s.pending[t], l)
<1>1. t \in Traces
  BY ItemsAreSound DEF Items
<1>2. s.pending[t] \in Seq(Logs) /\ \A i \in 1..Len(s.pending[t]) : Attr[s.pending[t][i]].trace = t
  BY <1>1 DEF Inv, Stores, LogsFit
<1>3. q \in Seq(Logs) /\ \A i \in 1..Len(q) : Attr[q[i]].trace = t
  <2> DEFINE p == s.pending[t]
  <2> HIDE DEF p
  <2>1. p \in Seq(Logs) /\ \A i \in 1..Len(p) : Attr[p[i]].trace = t
    BY <1>2 DEF p
  <2>2. \A i \in 1..(Len(p) + 1) : Append(p, l)[i] = IF i <= Len(p) THEN p[i] ELSE l
    BY <2>1
  <2>3. Append(p, l) \in Seq(Logs) /\ Len(Append(p, l)) = Len(p) + 1
    BY <2>1
  <2>4. \A i \in 1..(Len(p) + 1) : i <= Len(p) => i \in 1..Len(p)
    BY <2>1
  <2>5. \A i \in 1..Len(Append(p, l)) : Attr[Append(p, l)[i]].trace = t
    BY <2>1, <2>2, <2>3, <2>4
  <2> QED
    BY <2>3, <2>5 DEF p
<1>4. LET r == [s EXCEPT !.pending[t] = q]
      IN  Inv(r, {}, {}) /\ r.sessions = s.sessions /\ r.traces = s.traces
  <2> HIDE DEF q, t
  <2> DEFINE r == [s EXCEPT !.pending[t] = q]
  <2>1. Inv(r, {}, {}) /\ Aside(s, r)
    BY ONLY Inv(s, {}, {}), <1>1, <1>3, PendingFits
  <2> QED
    BY <2>1 DEF Aside
<1>5. [s EXCEPT !.pending[t] = Append(@, l)] = [s EXCEPT !.pending[t] = q]
  OBVIOUS
<1> HIDE DEF q
<1>6. Buffered(s, l) = IF BufferIsFull(s, l) THEN s ELSE [s EXCEPT !.pending[t] = q]
  BY <1>5 DEF Buffered
<1> QED
  BY <1>4, <1>6

-----------------------------------------------------------------------------
(* Traces that are staged.                                                 *)

\* Trace t, which is staged in r, holds c.
Holds(s, r, t, c) ==
  /\ r.at = s.at /\ r.sessions = s.sessions /\ r.traces = s.traces /\ r.pending = s.pending
  /\ r.heads = s.heads /\ r.due = s.due /\ r.finished = s.finished /\ r.events = s.events
  /\ r = [s EXCEPT !.staged = r.staged, !.held = r.held, !.bytes = r.bytes]
  /\ r.held = [s.held EXCEPT ![t] = c] /\ c \in Contents /\ \A x \in ItemsIn(c) : Attr[x].trace = t
  /\ r.staged \in Seq(Traces) /\ IsInjective(r.staged) /\ ToSet(r.staged) = ToSet(s.staged) \cup {t}
  /\ s.traces[t].session # NoSession => t \in ToSet(s.staged)
  /\ r.bytes = s.bytes - Bytes(s.held[t]) + Bytes(c) /\ r.bytes <= Limits[s.at].max_bytes

\* What is held of a staged trace may change when the bytes change with it.
LEMMA HeldFits ==
  ASSUME NEW s, NEW E, NEW T, Inv(s, E, T), NEW t \in Traces, NEW c, NEW r, Holds(s, r, t, c)
  PROVE  Inv(r, E, T)
<1>1. s \in Stores
  BY DEF Inv
<1>2. /\ s.staged \in Seq(Traces) /\ s.held \in [Traces -> Contents] /\ s.bytes \in Int
      /\ s.at \in Deployments
  BY <1>1 DEF Stores
<1>3. /\ StagedFit(s.at, s.traces, s.staged, s.held) /\ Sorted(s.held)
      /\ BytesFit(s.at, s.traces, s.held, s.bytes) /\ Sorted(s.traces)
  BY DEF Inv
<1>4. /\ r.held \in [Traces -> Contents] /\ r.held[t] = c
      /\ \A u \in Traces : u # t => r.held[u] = s.held[u]
  BY <1>2 DEF Holds
<1>5. Sorted(r.held)
  BY <1>3, <1>4 DEF Sorted, Holds, Contents
<1>6. Size(ItemsAmong(r.held, Traces)) = Size(ItemsAmong(s.held, Traces)) - Bytes(s.held[t]) + Bytes(c)
  <2>1. \A u \in Traces \ {t} : SameItems(s.held, r.held, u)
    BY <1>4 DEF SameItems
  <2>2. Size(ItemsAmong(r.held, Traces)) = Size(ItemsAmong(s.held, Traces))
            - Size(ItemsAmong(s.held, {t})) + Size(ItemsAmong(r.held, {t}))
    BY <1>3, <1>5, <2>1, SizeChange
  <2>3. ItemsAmong(s.held, {t}) = ItemsIn(s.held[t]) /\ ItemsAmong(r.held, {t}) = ItemsIn(c)
    BY <1>4, AmongOne
  <2> QED
    BY <2>2, <2>3 DEF Bytes
<1>7. r.bytes \in Int /\ BytesFit(r.at, r.traces, r.held, r.bytes)
  <2>1. /\ ItemsIn(s.held[t]) \in SUBSET Items /\ ItemsAmong(s.held, Traces) \in SUBSET Items
        /\ ItemsAmong(s.traces, Traces) \in SUBSET Items /\ ItemsIn(c) \in SUBSET Items
    BY <1>2, <1>3, <1>5, AmongIsSorted DEF Contents, ItemsIn, Items, Holds
  <2>2. /\ Bytes(s.held[t]) \in Nat /\ Size(ItemsAmong(s.held, Traces)) \in Nat
        /\ Size(ItemsAmong(s.traces, Traces)) \in Nat /\ Bytes(c) \in Nat
    BY <2>1, SizeType DEF Bytes
  <2>3. /\ r.bytes = s.bytes - Bytes(s.held[t]) + Bytes(c) /\ r.bytes <= Limits[s.at].max_bytes
        /\ r.at = s.at /\ r.traces = s.traces
    BY DEF Holds
  <2>4. r.bytes = Size(ItemsAmong(s.traces, Traces)) + Size(ItemsAmong(r.held, Traces))
    BY <1>2, <1>3, <1>6, <2>2, <2>3 DEF BytesFit
  <2> QED
    BY <1>2, <2>2, <2>3, <2>4 DEF BytesFit
<1>8. r \in Stores
  BY <1>1, <1>4, <1>7 DEF Stores, Holds
<1>9. StagedFit(r.at, r.traces, r.staged, r.held)
  <2>1. \A u \in Traces : u \notin ToSet(r.staged) => r.held[u] = Nothing
    BY <1>3, <1>4 DEF StagedFit, Holds
  <2>2. \A u \in Traces : r.traces[u].session # NoSession /\ u \in ToSet(r.staged) =>
          \E b \in Bundles[r.at] : \E x \in ItemsIn(b) : Attr[x].trace = u
    BY <1>3 DEF StagedFit, Holds
  <2> QED
    BY <2>1, <2>2 DEF StagedFit, Holds
<1> QED
  BY <1>5, <1>7, <1>8, <1>9 DEF Inv, Holds, Live

\* One log more for a staged trace, if there is room, keeps the invariant and the trace
\* staged.
LEMMA StagedLogAddedFits ==
  ASSUME NEW s, Inv(s, {}, {}), NEW l \in Logs, Attr[l].trace \in ToSet(s.staged)
  PROVE  LET r == StagedLogAdded(s, l)
         IN  Inv(r, {}, {}) /\ Attr[l].trace \in ToSet(r.staged) /\ Saved(s, r, {}, {})
<1> DEFINE t == Attr[l].trace
           size == Attr[l].size
           room == MadeRoom(s, size, NoSession, t)
           more == room.held[t].logs \cup {l}
           c == [room.held[t] EXCEPT !.logs = more]
           b == room.bytes + size
           r == [room EXCEPT !.held[t].logs = @ \cup {l}, !.bytes = @ + size]
<1>1. l \in Items /\ t \in Traces /\ size \in Nat \ {0} /\ t \in ToSet(s.staged)
  BY ItemsAreSound DEF Items
<1>2. Inv(room, {}, {}) /\ Keeps(s, room, NoSession) /\ t \in ToSet(room.staged)
  BY <1>1, MadeRoomFits
<1> HIDE DEF room, t, size
<1>3. room.held[t] = s.held[t] /\ Saved(s, room, {}, {})
  <2>1. Saved(s, room, {}, {})
    BY <1>2, KeptIsSaved
  <2> QED
    BY <1>1, <1>2, <2>1 DEF Keeps
<1>4. /\ room \in Stores /\ room.held \in [Traces -> Contents] /\ room.bytes \in Int
      /\ room.staged \in Seq(Traces) /\ IsInjective(room.staged) /\ Sorted(room.held)
      /\ room.held[t] \in Contents
  BY <1>1, <1>2 DEF Inv, Stores, StagedFit
<1>5. ASSUME l \notin room.held[t].logs, Roomy(room, size)
      PROVE  Inv(r, {}, {}) /\ t \in ToSet(r.staged) /\ Saved(s, r, {}, {})
  <2>1. r = [room EXCEPT !.held = [room.held EXCEPT ![t] = c], !.bytes = b]
    OBVIOUS
  <2> HIDE DEF r
  <2>2. more \subseteq Logs
    BY <1>4 DEF Contents
  <2>3. c \in Contents /\ c.logs = more /\ c.spans = room.held[t].spans
    <3> HIDE DEF more
    <3> QED
      BY <1>4, <2>2 DEF Contents
  <2> HIDE DEF c
  <2>4. ItemsIn(c) = ItemsIn(room.held[t]) \cup {l} /\ \A x \in ItemsIn(c) : Attr[x].trace = t
    <3>1. ItemsIn(c) = ItemsIn(room.held[t]) \cup {l}
      BY <2>3 DEF ItemsIn
    <3>2. \A x \in ItemsIn(room.held[t]) : Attr[x].trace = t
      BY <1>1, <1>4 DEF Sorted
    <3> QED
      BY <3>1, <3>2 DEF t
  <2>5. Bytes(c) = Bytes(room.held[t]) + size /\ Bytes(room.held[t]) \in Nat
    <3>1. ItemsIn(room.held[t]) \in SUBSET Items /\ l \notin ItemsIn(room.held[t])
      BY <1>4, <1>5, StoreAssumption DEF Contents, ItemsIn, Items
    <3> QED
      BY <1>1, <2>4, <3>1, SizeWith, SizeType DEF Bytes, size
  <2>6. b \in Int /\ b <= Limits[room.at].max_bytes
        /\ b = room.bytes - Bytes(room.held[t]) + Bytes(c)
    BY <1>1, <1>4, <1>5, <2>5 DEF Roomy, Limit
  <2> HIDE DEF b
  <2>7. /\ r.at = room.at /\ r.sessions = room.sessions /\ r.traces = room.traces /\ r.pending = room.pending
        /\ r.heads = room.heads /\ r.due = room.due /\ r.finished = room.finished /\ r.events = room.events
        /\ r.held = [room.held EXCEPT ![t] = c] /\ r.bytes = b /\ r.staged = room.staged
        /\ r = [room EXCEPT !.staged = r.staged, !.held = r.held, !.bytes = r.bytes]
    BY <1>4, <2>1 DEF Stores
  <2>8. Holds(room, r, t, c)
    BY <1>2, <1>4, <2>3, <2>4, <2>6, <2>7 DEF Holds
  <2>9. Inv(r, {}, {})
    BY <1>1, <1>2, <2>8, HeldFits
  <2>10. Saved(s, r, {}, {})
    BY <1>3, <2>7, SameSaved, SavedOn
  <2> QED
    BY <1>2, <2>7, <2>9, <2>10
<1>6. LET q == StagedLogAdded(s, l) IN Inv(q, {}, {}) /\ t \in ToSet(q.staged) /\ Saved(s, q, {}, {})
  <2> DEFINE full == l \in s.held[t].logs \/ Cardinality(s.held[t].logs) >= Limit(s).logs_per_trace
  <2>1. StagedLogAdded(s, l) = IF full THEN s ELSE IF ~Roomy(room, size) THEN room ELSE r
    BY DEF StagedLogAdded, room, t, size
  <2>2. full \/ l \notin room.held[t].logs
    BY <1>3
  <2>3. Saved(s, s, {}, {})
    BY SameSaved
  <2> HIDE DEF full, r
  <2> QED
    BY <1>1, <1>2, <1>3, <1>5, <2>1, <2>2, <2>3
<1> QED
  BY <1>6 DEF t

\* The logs of a batch, added one by one to a staged trace, keep the invariant.
LEMMA StagedLogsFit ==
  ASSUME NEW s, Inv(s, {}, {}), NEW t, t \in ToSet(s.staged),
         NEW seq \in Seq(Logs), \A i \in 1..Len(seq) : Attr[seq[i]].trace = t
  PROVE  LET r == Each(StagedLogAdded, s, seq) IN Inv(r, {}, {}) /\ Saved(s, r, {}, {})
<1> DEFINE L == Len(seq)
           Good(x, n) == Inv(x, {}, {}) /\ t \in ToSet(x.staged) /\ Saved(s, x, {}, {})
           Op(acc, x) == StagedLogAdded(acc, x)
           H == [n \in 0..L |-> {x \in Stores : Good(x, n)}]
           F == [p \in Stores \X (1..L) |-> IF p[1] \in H[p[2] - 1] THEN Op(p[1], seq[p[2]]) ELSE p[1]]
<1>1. L \in Nat /\ \A i \in 1..L : seq[i] \in Logs /\ Attr[seq[i]].trace = t
  BY Elements
<1> HIDE DEF L
<1>2. s \in Stores /\ Good(s, 0)
  BY SameSaved DEF Inv
<1>3. ASSUME NEW n \in 1..L, NEW x \in Stores, Good(x, n - 1)
      PROVE  Op(x, seq[n]) \in Stores /\ Good(Op(x, seq[n]), n)
  <2> DEFINE r == StagedLogAdded(x, seq[n])
  <2>1. Inv(r, {}, {}) /\ t \in ToSet(r.staged) /\ Saved(x, r, {}, {})
    BY <1>1, <1>3, StagedLogAddedFits
  <2> HIDE DEF r
  <2>2. r \in Stores
    BY <2>1 DEF Inv
  <2>3. Saved(s, r, {}, {})
    BY <1>3, <2>1, SavedOn
  <2> QED
    BY <2>1, <2>2, <2>3 DEF r
<1> HIDE DEF Good, Op
<1>4. H \in [0..L -> SUBSET Stores] /\ s \in H[0]
  BY <1>1, <1>2
<1>5. \A n \in 1..L : n - 1 \in 0..L /\ n \in 0..L
  BY <1>1
<1>6. /\ F \in [Stores \X (1..L) -> Stores]
      /\ \A n \in 1..L : \A x \in H[n - 1] : F[<<x, n>>] \in H[n]
  BY <1>3, <1>5
<1>7. \A n \in 1..L : \A x \in H[n - 1] : F[<<x, n>>] = Op(x, seq[n]) /\ Op(x, seq[n]) \in H[n]
  BY <1>3, <1>5
<1> HIDE DEF F
<1>8. PICK f : Recurs(f, s, L, H, F)
  <2> HIDE DEF H
  <2> QED
    BY <1>1, <1>4, <1>6, Recursion
<1> DEFINE Runs(g) == g = [n \in 0..L |-> IF n = 0 THEN s ELSE Op(g[n - 1], seq[n])]
           after == CHOOSE g : Runs(g)
<1>9. Runs(f)
  <2> HIDE DEF H
  <2>1. \A n \in 0..L : n = 0 \/ n \in 1..L
    OBVIOUS
  <2>2. \A n \in 0..L : f[n] = IF n = 0 THEN s ELSE Op(f[n - 1], seq[n])
    BY <1>7, <1>8, <2>1 DEF Recurs
  <2> QED
    BY <1>8, <2>2 DEF Recurs
<1>10. Runs(after)
  BY <1>9
<1> HIDE DEF after
<1>11. after[L] \in H[L]
  <2> HIDE DEF H
  <2>1. 0 \in 0..L /\ \A n \in 1..L : n \in 0..L /\ n # 0
    BY <1>1
  <2>2. after[0] = s /\ \A n \in 1..L : after[n] = Op(after[n - 1], seq[n])
    BY <1>10, <2>1
  <2>3. \A n \in 1..L : after[n - 1] \in H[n - 1] => after[n] \in H[n]
    BY <1>7, <2>2
  <2> QED
    BY <1>1, <1>4, <2>2, <2>3, RecursionStays
<1>12. Good(after[L], L)
  BY <1>1, <1>11
<1>13. Each(StagedLogAdded, s, seq) = after[L]
  BY DEF Each, after, Op, L
<1> QED
  BY <1>12, <1>13 DEF Good

\* The logs of a batch, put aside one by one, keep the invariant.
LEMMA BufferedLogsFit ==
  ASSUME NEW s, Inv(s, {}, {}), NEW seq \in Seq(Logs)
  PROVE  LET r == Each(Buffered, s, seq)
         IN  Inv(r, {}, {}) /\ r.sessions = s.sessions /\ r.traces = s.traces
<1> DEFINE L == Len(seq)
           Good(x, n) == Inv(x, {}, {}) /\ x.sessions = s.sessions /\ x.traces = s.traces
           Op(acc, x) == Buffered(acc, x)
           H == [n \in 0..L |-> {x \in Stores : Good(x, n)}]
           F == [p \in Stores \X (1..L) |-> IF p[1] \in H[p[2] - 1] THEN Op(p[1], seq[p[2]]) ELSE p[1]]
<1>1. L \in Nat /\ \A i \in 1..L : seq[i] \in Logs
  BY Elements
<1> HIDE DEF L
<1>2. s \in Stores /\ Good(s, 0)
  BY DEF Inv
<1>3. ASSUME NEW n \in 1..L, NEW x \in Stores, Good(x, n - 1)
      PROVE  Op(x, seq[n]) \in Stores /\ Good(Op(x, seq[n]), n)
  <2> DEFINE r == Buffered(x, seq[n])
  <2>1. Inv(r, {}, {}) /\ r.sessions = x.sessions /\ r.traces = x.traces
    BY <1>1, <1>3, BufferedFits
  <2> HIDE DEF r
  <2>2. r \in Stores
    BY <2>1 DEF Inv
  <2> QED
    BY <1>3, <2>1, <2>2 DEF r
<1> HIDE DEF Good, Op
<1>4. H \in [0..L -> SUBSET Stores] /\ s \in H[0]
  BY <1>1, <1>2
<1>5. \A n \in 1..L : n - 1 \in 0..L /\ n \in 0..L
  BY <1>1
<1>6. /\ F \in [Stores \X (1..L) -> Stores]
      /\ \A n \in 1..L : \A x \in H[n - 1] : F[<<x, n>>] \in H[n]
  BY <1>3, <1>5
<1>7. \A n \in 1..L : \A x \in H[n - 1] : F[<<x, n>>] = Op(x, seq[n]) /\ Op(x, seq[n]) \in H[n]
  BY <1>3, <1>5
<1> HIDE DEF F
<1>8. PICK f : Recurs(f, s, L, H, F)
  <2> HIDE DEF H
  <2> QED
    BY <1>1, <1>4, <1>6, Recursion
<1> DEFINE Runs(g) == g = [n \in 0..L |-> IF n = 0 THEN s ELSE Op(g[n - 1], seq[n])]
           after == CHOOSE g : Runs(g)
<1>9. Runs(f)
  <2> HIDE DEF H
  <2>1. \A n \in 0..L : n = 0 \/ n \in 1..L
    OBVIOUS
  <2>2. \A n \in 0..L : f[n] = IF n = 0 THEN s ELSE Op(f[n - 1], seq[n])
    BY <1>7, <1>8, <2>1 DEF Recurs
  <2> QED
    BY <1>8, <2>2 DEF Recurs
<1>10. Runs(after)
  BY <1>9
<1> HIDE DEF after
<1>11. after[L] \in H[L]
  <2> HIDE DEF H
  <2>1. 0 \in 0..L /\ \A n \in 1..L : n \in 0..L /\ n # 0
    BY <1>1
  <2>2. after[0] = s /\ \A n \in 1..L : after[n] = Op(after[n - 1], seq[n])
    BY <1>10, <2>1
  <2>3. \A n \in 1..L : after[n - 1] \in H[n - 1] => after[n] \in H[n]
    BY <1>7, <2>2
  <2> QED
    BY <1>1, <1>4, <2>2, <2>3, RecursionStays
<1>12. Good(after[L], L)
  BY <1>1, <1>11
<1>13. Each(Buffered, s, seq) = after[L]
  BY DEF Each, after, Op, L
<1> QED
  BY <1>12, <1>13 DEF Good

\* Dropping some staged traces one by one keeps the invariant.
LEMMA UnstagedAllFit ==
  ASSUME NEW s, Inv(s, {}, {}), NEW seq \in Seq(Traces)
  PROVE  LET r == Each(Unstaged, s, seq)
         IN  Inv(r, {}, {}) /\ r.sessions = s.sessions /\ r.traces = s.traces
<1> DEFINE L == Len(seq)
           Good(x, n) == Inv(x, {}, {}) /\ x.sessions = s.sessions /\ x.traces = s.traces
           Op(acc, x) == Unstaged(acc, x)
           H == [n \in 0..L |-> {x \in Stores : Good(x, n)}]
           F == [p \in Stores \X (1..L) |-> IF p[1] \in H[p[2] - 1] THEN Op(p[1], seq[p[2]]) ELSE p[1]]
<1>1. L \in Nat /\ \A i \in 1..L : seq[i] \in Traces
  BY Elements
<1> HIDE DEF L
<1>2. s \in Stores /\ Good(s, 0)
  BY DEF Inv
<1>3. ASSUME NEW n \in 1..L, NEW x \in Stores, Good(x, n - 1)
      PROVE  Op(x, seq[n]) \in Stores /\ Good(Op(x, seq[n]), n)
  <2> DEFINE r == Unstaged(x, seq[n])
  <2>1. Inv(r, {}, {}) /\ r.sessions = x.sessions /\ r.traces = x.traces
    <3>1. Inv(x, {}, {}) /\ seq[n] \in Traces
      BY <1>1, <1>3
    <3> HIDE DEF r, Good, Op
    <3>2. Inv(r, {}, {}) /\ Dropped(x, r, seq[n])
      BY <3>1, UnstagedFits DEF r
    <3> QED
      BY <3>2 DEF Dropped
  <2> HIDE DEF r
  <2>2. r \in Stores
    BY <2>1 DEF Inv
  <2> QED
    BY <1>3, <2>1, <2>2 DEF r
<1> HIDE DEF Good, Op
<1>4. H \in [0..L -> SUBSET Stores] /\ s \in H[0]
  BY <1>1, <1>2
<1>5. \A n \in 1..L : n - 1 \in 0..L /\ n \in 0..L
  BY <1>1
<1>6. /\ F \in [Stores \X (1..L) -> Stores]
      /\ \A n \in 1..L : \A x \in H[n - 1] : F[<<x, n>>] \in H[n]
  BY <1>3, <1>5
<1>7. \A n \in 1..L : \A x \in H[n - 1] : F[<<x, n>>] = Op(x, seq[n]) /\ Op(x, seq[n]) \in H[n]
  BY <1>3, <1>5
<1> HIDE DEF F
<1>8. PICK f : Recurs(f, s, L, H, F)
  <2> HIDE DEF H
  <2> QED
    BY <1>1, <1>4, <1>6, Recursion
<1> DEFINE Runs(g) == g = [n \in 0..L |-> IF n = 0 THEN s ELSE Op(g[n - 1], seq[n])]
           after == CHOOSE g : Runs(g)
<1>9. Runs(f)
  <2> HIDE DEF H
  <2>1. \A n \in 0..L : n = 0 \/ n \in 1..L
    OBVIOUS
  <2>2. \A n \in 0..L : f[n] = IF n = 0 THEN s ELSE Op(f[n - 1], seq[n])
    BY <1>7, <1>8, <2>1 DEF Recurs
  <2> QED
    BY <1>8, <2>2 DEF Recurs
<1>10. Runs(after)
  BY <1>9
<1> HIDE DEF after
<1>11. after[L] \in H[L]
  <2> HIDE DEF H
  <2>1. 0 \in 0..L /\ \A n \in 1..L : n \in 0..L /\ n # 0
    BY <1>1
  <2>2. after[0] = s /\ \A n \in 1..L : after[n] = Op(after[n - 1], seq[n])
    BY <1>10, <2>1
  <2>3. \A n \in 1..L : after[n - 1] \in H[n - 1] => after[n] \in H[n]
    BY <1>7, <2>2
  <2> QED
    BY <1>1, <1>4, <2>2, <2>3, RecursionStays
<1>12. Good(after[L], L)
  BY <1>1, <1>11
<1>13. Each(Unstaged, s, seq) = after[L]
  BY DEF Each, after, Op, L
<1> QED
  BY <1>12, <1>13 DEF Good

\* c can be put back into s as what is held of trace t.
InHand(s, t, c) ==
  /\ Inv(s, {}, {}) /\ s.traces[t].session = NoSession /\ t \notin ToSet(s.staged)
  /\ c \in Contents /\ \A x \in ItemsIn(c) : Attr[x].trace = t
  /\ s.bytes + Bytes(c) <= Limits[s.at].max_bytes

\* Content in hand can be staged again.
LEMMA PutBackFits ==
  ASSUME NEW s, NEW t \in Traces, NEW c, InHand(s, t, c)
  PROVE  Inv(PutBack(s, t, c), {}, {})
<1> DEFINE r == PutBack(s, t, c)
           q == Append(s.staged, t)
           b == s.bytes + Bytes(c)
<1>1. /\ Inv(s, {}, {}) /\ s \in Stores /\ s.held \in [Traces -> Contents] /\ s.staged \in Seq(Traces)
      /\ s.bytes \in Int /\ IsInjective(s.staged) /\ t \notin ToSet(s.staged) /\ s.held[t] = Nothing
      /\ s.traces[t].session = NoSession
  BY DEF InHand, Inv, Stores, StagedFit
<1>2. q \in Seq(Traces) /\ IsInjective(q) /\ ToSet(q) = ToSet(s.staged) \cup {t}
  BY <1>1, Appended
<1>3. c \in Contents /\ (\A x \in ItemsIn(c) : Attr[x].trace = t) /\ b <= Limits[s.at].max_bytes
  BY DEF InHand
<1>4. Bytes(c) \in Nat
  <2>1. ItemsIn(c) \in SUBSET Items
    BY <1>3 DEF Contents, ItemsIn, Items
  <2> QED
    BY <2>1, SizeType DEF Bytes
<1>5. b \in Int /\ b = s.bytes - Bytes(s.held[t]) + Bytes(c)
  <2>1. Bytes(Nothing) = 0
    BY NothingIsThere, SizeNone DEF Bytes
  <2> QED
    BY <1>1, <1>4, <2>1
<1>6. r = [s EXCEPT !.staged = q, !.held = [s.held EXCEPT ![t] = c], !.bytes = b]
  BY DEF PutBack
<1> HIDE DEF r, q, b
<1>7. /\ r.at = s.at /\ r.sessions = s.sessions /\ r.traces = s.traces /\ r.pending = s.pending
      /\ r.heads = s.heads /\ r.due = s.due /\ r.finished = s.finished /\ r.events = s.events
      /\ r.held = [s.held EXCEPT ![t] = c] /\ r.bytes = b /\ r.staged = q
      /\ r = [s EXCEPT !.staged = r.staged, !.held = r.held, !.bytes = r.bytes]
  BY <1>1, <1>6 DEF Stores
<1>8. Holds(s, r, t, c)
  BY <1>1, <1>2, <1>3, <1>5, <1>7 DEF Holds
<1> QED
  BY <1>1, <1>8, HeldFits DEF r

\* Staging content in hand, and dropping the oldest staged traces above the limit, keeps
\* the invariant.
LEMMA RestagedFits ==
  ASSUME NEW s, NEW t \in Traces, NEW c, InHand(s, t, c)
  PROVE  LET r == Restaged(s, t, c)
         IN  Inv(r, {}, {}) /\ r.sessions = s.sessions /\ r.traces = s.traces
<1> DEFINE all == PutBack(s, t, c)
           over == IF Len(all.staged) <= Limit(s).staged_traces THEN 0
                   ELSE Len(all.staged) - Limit(s).staged_traces
           seq == SubSeq(all.staged, 1, over)
<1>1. Inv(all, {}, {}) /\ s \in Stores /\ all.sessions = s.sessions /\ all.traces = s.traces
  <2>1. Inv(all, {}, {}) /\ s \in Stores
    BY PutBackFits DEF InHand, Inv
  <2> QED
    BY <2>1 DEF PutBack, Stores
<1> HIDE DEF all
<1>2. all.staged \in Seq(Traces) /\ Limit(s).staged_traces \in Nat
  <2>1. all \in Stores /\ s.at \in Deployments
    BY <1>1 DEF Inv, Stores
  <2> QED
    BY <2>1, StoreAssumption DEF Stores, Limit
<1>3. Len(all.staged) \in Nat /\ over \in Nat /\ over <= Len(all.staged)
  BY <1>2
<1>4. seq \in Seq(Traces)
  <2> HIDE DEF over
  <2>1. \A i \in 1..over : all.staged[i] \in Traces
    BY <1>2, <1>3
  <2> QED
    BY <1>2, <1>3, <2>1
<1> HIDE DEF seq
<1> DEFINE r == Each(Unstaged, all, seq)
<1>5. Inv(r, {}, {}) /\ r.sessions = all.sessions /\ r.traces = all.traces
  BY <1>1, <1>4, UnstagedAllFit
<1>6. Restaged(s, t, c) = r
  BY DEF Restaged, seq, over, all
<1> HIDE DEF r
<1> QED
  BY <1>1, <1>5, <1>6

\* What is in hand of trace t, and the store without it.
Hands == [st: Stores, h: Contents]

\* A span staged with the content in hand, if there is room, leaves content that can be
\* put back.
LEMMA SpanStagedFits ==
  ASSUME NEW acc \in Hands, NEW x \in Spans, InHand(acc.st, Attr[x].trace, acc.h)
  PROVE  LET r == SpanStaged(acc, x)
         IN  r \in Hands /\ InHand(r.st, Attr[x].trace, r.h) /\ Saved(acc.st, r.st, {}, {})
<1> DEFINE t == Attr[x].trace
           size == Attr[x].size
           want == size + Bytes(acc.h)
           room == MadeRoom(acc.st, want, NoSession, NoSession)
           more == acc.h.spans \cup {x}
           h == [acc.h EXCEPT !.spans = more]
           s == acc.st
<1>1. x \in Items /\ t \in Traces /\ size \in Nat \ {0} /\ s \in Stores /\ acc.h \in Contents
  BY ItemsAreSound DEF Items, Hands
<1>2. InHand(s, t, acc.h)
  OBVIOUS
<1> HIDE DEF t, size, s
<1>3. Bytes(acc.h) \in Nat /\ ItemsIn(acc.h) \in SUBSET Items
  <2>1. ItemsIn(acc.h) \in SUBSET Items
    BY <1>1 DEF Contents, ItemsIn, Items
  <2> QED
    BY <2>1, SizeType DEF Bytes
<1>4. Inv(room, {}, {}) /\ Keeps(s, room, NoSession)
  <2>1. Inv(s, {}, {})
    BY <1>2 DEF InHand
  <2> QED
    BY <2>1, MadeRoomFits DEF s
<1> HIDE DEF room
<1>5. room \in Stores /\ room.bytes \in Int /\ s.bytes \in Int /\ room.bytes <= s.bytes /\ room.at = s.at
      /\ Limits[s.at].max_bytes \in Int
  <2>1. room \in Stores /\ room.bytes <= s.bytes /\ room.at = s.at
    BY <1>4 DEF Inv, Keeps
  <2> QED
    BY <1>1, <2>1, StoreAssumption DEF Stores
<1>6. InHand(room, t, acc.h)
  <2>1. room.traces[t].session = NoSession /\ t \notin ToSet(room.staged)
    BY <1>1, <1>2, <1>4 DEF InHand, Keeps
  <2>2. room.bytes + Bytes(acc.h) <= Limits[room.at].max_bytes
    BY <1>2, <1>3, <1>5 DEF InHand
  <2> QED
    BY <1>2, <1>4, <2>1, <2>2 DEF InHand
<1>7. ASSUME x \notin acc.h.spans, Roomy(room, want)
      PROVE  h \in Contents /\ InHand(room, t, h)
  <2>1. more \subseteq Spans
    BY <1>1 DEF Contents
  <2>2. h \in Contents /\ h.spans = more /\ h.logs = acc.h.logs
    <3> HIDE DEF more
    <3> QED
      BY <1>1, <2>1 DEF Contents
  <2> HIDE DEF h
  <2>3. ItemsIn(h) = ItemsIn(acc.h) \cup {x} /\ x \notin ItemsIn(acc.h)
    BY <1>1, <1>7, <2>2, StoreAssumption DEF ItemsIn, Contents
  <2>4. Bytes(h) = Bytes(acc.h) + size
    BY <1>1, <1>3, <2>3, SizeWith DEF Bytes, size
  <2>5. \A y \in ItemsIn(h) : Attr[y].trace = t
    BY <1>2, <2>3 DEF InHand, t
  <2>6. room.bytes + Bytes(h) <= Limits[room.at].max_bytes
    BY <1>1, <1>3, <1>5, <1>7, <2>4 DEF Roomy, Limit
  <2> QED
    BY <1>6, <2>2, <2>5, <2>6 DEF InHand
<1>8. LET r == SpanStaged(acc, x) IN r \in Hands /\ InHand(r.st, t, r.h) /\ Saved(acc.st, r.st, {}, {})
  <2> DEFINE full == x \in acc.h.spans \/ Cardinality(acc.h.spans) >= Limit(acc.st).spans_per_trace
  <2>1. SpanStaged(acc, x) = IF full THEN acc
                             ELSE IF ~Roomy(room, want) THEN [acc EXCEPT !.st = room]
                             ELSE [st |-> room, h |-> h]
    BY DEF SpanStaged, room, size
  <2>2. full \/ x \notin acc.h.spans
    OBVIOUS
  <2>3. acc \in Hands /\ InHand(acc.st, t, acc.h)
    BY <1>2 DEF s
  <2>4. [acc EXCEPT !.st = room] \in Hands /\ [acc EXCEPT !.st = room].st = room
        /\ [acc EXCEPT !.st = room].h = acc.h
    BY <1>5 DEF Hands
  <2>5. h \in Contents => [st |-> room, h |-> h] \in Hands
    BY <1>5 DEF Hands
  <2>6. Saved(acc.st, room, {}, {}) /\ Saved(acc.st, acc.st, {}, {})
    BY <1>2, <1>4, KeptIsSaved, SameSaved DEF InHand, s
  <2> HIDE DEF full, h, want
  <2> QED
    BY <1>6, <1>7, <2>1, <2>2, <2>3, <2>4, <2>5, <2>6
<1> QED
  BY <1>8 DEF t

\* The staging loop leaves content that can be put back.
LEMMA SpansStagedFit ==
  ASSUME NEW s \in Hands, NEW t \in Traces, InHand(s.st, t, s.h),
         NEW seq \in Seq(Spans), \A i \in 1..Len(seq) : Attr[seq[i]].trace = t
  PROVE  LET r == Each(SpanStaged, s, seq) IN InHand(r.st, t, r.h) /\ Saved(s.st, r.st, {}, {})
<1> DEFINE L == Len(seq)
           Good(x, n) == InHand(x.st, t, x.h) /\ Saved(s.st, x.st, {}, {})
           Op(acc, x) == SpanStaged(acc, x)
           H == [n \in 0..L |-> {x \in Hands : Good(x, n)}]
           F == [p \in Hands \X (1..L) |-> IF p[1] \in H[p[2] - 1] THEN Op(p[1], seq[p[2]]) ELSE p[1]]
<1>1. L \in Nat /\ \A i \in 1..L : seq[i] \in Spans /\ Attr[seq[i]].trace = t
  BY Elements
<1> HIDE DEF L
<1>2. s \in Hands /\ Good(s, 0)
  BY SameSaved
<1>3. ASSUME NEW n \in 1..L, NEW x \in Hands, Good(x, n - 1)
      PROVE  Op(x, seq[n]) \in Hands /\ Good(Op(x, seq[n]), n)
  <2> DEFINE r == SpanStaged(x, seq[n])
  <2>1. r \in Hands /\ InHand(r.st, t, r.h) /\ Saved(x.st, r.st, {}, {})
    BY <1>1, <1>3, SpanStagedFits
  <2> HIDE DEF r
  <2>2. Saved(s.st, r.st, {}, {})
    BY <1>3, <2>1, SavedOn
  <2> QED
    BY <2>1, <2>2 DEF r
<1> HIDE DEF Good, Op
<1>4. H \in [0..L -> SUBSET Hands] /\ s \in H[0]
  BY <1>1, <1>2
<1>5. \A n \in 1..L : n - 1 \in 0..L /\ n \in 0..L
  BY <1>1
<1>6. /\ F \in [Hands \X (1..L) -> Hands]
      /\ \A n \in 1..L : \A x \in H[n - 1] : F[<<x, n>>] \in H[n]
  BY <1>3, <1>5
<1>7. \A n \in 1..L : \A x \in H[n - 1] : F[<<x, n>>] = Op(x, seq[n]) /\ Op(x, seq[n]) \in H[n]
  BY <1>3, <1>5
<1> HIDE DEF F
<1>8. PICK f : Recurs(f, s, L, H, F)
  <2> HIDE DEF H
  <2> QED
    BY <1>1, <1>4, <1>6, Recursion
<1> DEFINE Runs(g) == g = [n \in 0..L |-> IF n = 0 THEN s ELSE Op(g[n - 1], seq[n])]
           after == CHOOSE g : Runs(g)
<1>9. Runs(f)
  <2> HIDE DEF H
  <2>1. \A n \in 0..L : n = 0 \/ n \in 1..L
    OBVIOUS
  <2>2. \A n \in 0..L : f[n] = IF n = 0 THEN s ELSE Op(f[n - 1], seq[n])
    BY <1>7, <1>8, <2>1 DEF Recurs
  <2> QED
    BY <1>8, <2>2 DEF Recurs
<1>10. Runs(after)
  BY <1>9
<1> HIDE DEF after
<1>11. after[L] \in H[L]
  <2> HIDE DEF H
  <2>1. 0 \in 0..L /\ \A n \in 1..L : n \in 0..L /\ n # 0
    BY <1>1
  <2>2. after[0] = s /\ \A n \in 1..L : after[n] = Op(after[n - 1], seq[n])
    BY <1>10, <2>1
  <2>3. \A n \in 1..L : after[n - 1] \in H[n - 1] => after[n] \in H[n]
    BY <1>7, <2>2
  <2> QED
    BY <1>1, <1>4, <2>2, <2>3, RecursionStays
<1>12. Good(after[L], L)
  BY <1>1, <1>11
<1>13. Each(SpanStaged, s, seq) = after[L]
  BY DEF Each, after, Op, L
<1> QED
  BY <1>12, <1>13 DEF Good

-----------------------------------------------------------------------------
(* A bundle.                                                               *)

\* The part of the bundle that is not live: its traces, and what they hold.
LoadedRow(b, id, t) == [session |-> id, spans |-> {x \in b.spans : Attr[x].trace = t},
                        logs |-> {x \in b.logs : Attr[x].trace = t}, complete |-> TRUE]
LoadedSession(b, new) ==
  [key |-> NoKey, run |-> None, instance |-> None, traces |-> new, complete |-> TRUE,
   spans |-> Cardinality({x \in b.spans : Attr[x].trace \in new}),
   logs |-> Cardinality({x \in b.logs : Attr[x].trace \in new})]
LoadedItems(b, new) == {x \in ItemsIn(b) : Attr[x].trace \in new}

\* r is s with session id, which holds the traces new of bundle b.
Loads(s, r, b, id, new) ==
  /\ r.at = s.at /\ r.staged = s.staged /\ r.held = s.held /\ r.pending = s.pending
  /\ r.heads = s.heads /\ r.due = s.due
  /\ r.sessions = [i \in DOMAIN s.sessions \cup {id} |->
                     IF i = id THEN LoadedSession(b, new) ELSE s.sessions[i]]
  /\ r.traces = [t \in Traces |-> IF t \in new THEN LoadedRow(b, id, t) ELSE s.traces[t]]
  /\ r.bytes = s.bytes + Size(LoadedItems(b, new))
  /\ r.finished = Append(s.finished, id) /\ r.events = Append(s.events, <<"started", id>>)
  /\ r = [s EXCEPT !.sessions = r.sessions, !.traces = r.traces, !.bytes = r.bytes,
                   !.finished = r.finished, !.events = r.events]

\* load_session keeps the invariant when the bundle fits: only traces that are not live
\* come from it.
LEMMA LoadedFits ==
  ASSUME NEW s, Inv(s, {}, {}), NEW b, b \in Bundles[s.at], NEW id \in Ids, id \notin Live(s),
         NEW new, new = Loadable(s, b), Roomy(s, Bytes(b)), NEW r, Loads(s, r, b, id, new)
  PROVE  Inv(r, {}, {})
<1>1. /\ s \in Stores /\ s.sessions \in Tables /\ s.traces \in [Traces -> TraceRows] /\ s.bytes \in Int
      /\ s.at \in Deployments /\ s.finished \in Seq(Ids) /\ s.events \in Seq(Events)
      /\ Sorted(s.traces) /\ Sorted(s.held) /\ MembersFit(s.sessions, s.traces)
      /\ BytesFit(s.at, s.traces, s.held, s.bytes) /\ IsFiniteSet(DOMAIN s.sessions)
      /\ StagedFit(s.at, s.traces, s.staged, s.held) /\ FinishedFit(s.sessions, s.finished)
      /\ HeadsFit(s.sessions, s.heads) /\ FullFit(s.sessions, s.traces, {}, {}) /\ id \notin DOMAIN s.sessions
  BY DEF Inv, Stores, Live
<1>2. b.spans \subseteq Spans /\ b.logs \subseteq Logs /\ id # NoSession /\ ItemsIn(b) \in SUBSET Items
  BY <1>1, StoreAssumption, NothingIsThere DEF ItemsIn, Items
<1>3. /\ new \in SUBSET Traces /\ \A t \in new : s.traces[t].session = NoSession /\ s.traces[t] = NoTrace
      /\ \A t \in new : \E x \in ItemsIn(b) : Attr[x].trace = t
  <2>1. /\ new \in SUBSET Traces /\ \A t \in new : s.traces[t].session = NoSession
        /\ \A t \in new : \E x \in ItemsIn(b) : Attr[x].trace = t
    BY <1>2, ItemsAreSound DEF Loadable, Known
  <2> QED
    BY <1>1, <2>1 DEF MembersFit
<1> DEFINE session == LoadedSession(b, new)
<1>4. /\ session \in SessionRows /\ session.traces = new /\ session.complete /\ session.key = NoKey
      /\ session.spans = Cardinality({x \in b.spans : Attr[x].trace \in new})
      /\ session.logs = Cardinality({x \in b.logs : Attr[x].trace \in new})
  <2>1. IsFiniteSet(Spans) /\ IsFiniteSet(Logs)
    BY StoreAssumption
  <2>2. IsFiniteSet({x \in b.spans : Attr[x].trace \in new}) /\ IsFiniteSet({x \in b.logs : Attr[x].trace \in new})
    <3>1. /\ {x \in b.spans : Attr[x].trace \in new} \in SUBSET Spans
          /\ {x \in b.logs : Attr[x].trace \in new} \in SUBSET Logs
      BY <1>2
    <3> QED
      BY <2>1, <3>1, FS_Subset
  <2>3. /\ Cardinality({x \in b.spans : Attr[x].trace \in new}) \in Nat
        /\ Cardinality({x \in b.logs : Attr[x].trace \in new}) \in Nat
    BY <2>2, FS_CardinalityType
  <2> DEFINE m == Cardinality({x \in b.spans : Attr[x].trace \in new})
             n == Cardinality({x \in b.logs : Attr[x].trace \in new})
  <2>4. session = [key |-> NoKey, run |-> None, instance |-> None, traces |-> new, complete |-> TRUE,
                   spans |-> m, logs |-> n]
    BY DEF LoadedSession
  <2> HIDE DEF m, n, session
  <2>5. m \in Int /\ n \in Int
    BY <2>3 DEF m, n
  <2>6. /\ session \in SessionRows /\ session.traces = new /\ session.complete /\ session.key = NoKey
        /\ session.spans = m /\ session.logs = n
    BY <1>3, <2>4, <2>5 DEF SessionRows
  <2> QED
    BY <2>6 DEF m, n
<1> HIDE DEF session
<1>5. \A t \in new : /\ LoadedRow(b, id, t) \in TraceRows /\ LoadedRow(b, id, t).session = id
                     /\ LoadedRow(b, id, t).spans = {x \in b.spans : Attr[x].trace = t}
                     /\ LoadedRow(b, id, t).logs = {x \in b.logs : Attr[x].trace = t}
  <2> SUFFICES ASSUME NEW t \in new
               PROVE  /\ LoadedRow(b, id, t) \in TraceRows /\ LoadedRow(b, id, t).session = id
                      /\ LoadedRow(b, id, t).spans = {x \in b.spans : Attr[x].trace = t}
                      /\ LoadedRow(b, id, t).logs = {x \in b.logs : Attr[x].trace = t}
    OBVIOUS
  <2>1. {x \in b.spans : Attr[x].trace = t} \in SUBSET Spans /\ {x \in b.logs : Attr[x].trace = t} \in SUBSET Logs
    BY <1>2
  <2> QED
    BY <2>1 DEF LoadedRow, TraceRows
<1>6. /\ r.traces \in [Traces -> TraceRows]
      /\ \A t \in Traces : r.traces[t] = IF t \in new THEN LoadedRow(b, id, t) ELSE s.traces[t]
  <2> DEFINE g == [t \in Traces |-> IF t \in new THEN LoadedRow(b, id, t) ELSE s.traces[t]]
  <2>1. r.traces = g
    BY DEF Loads
  <2>2. g \in [Traces -> TraceRows]
    BY <1>1, <1>5
  <2>3. \A t \in Traces : g[t] = IF t \in new THEN LoadedRow(b, id, t) ELSE s.traces[t]
    OBVIOUS
  <2> HIDE DEF g
  <2> QED
    BY <2>1, <2>2, <2>3
<1>7. /\ r.sessions \in Tables /\ DOMAIN r.sessions = DOMAIN s.sessions \cup {id} /\ r.sessions[id] = session
      /\ \A i \in DOMAIN s.sessions : i # id /\ r.sessions[i] = s.sessions[i]
  <2> DEFINE f == [i \in DOMAIN s.sessions \cup {id} |-> IF i = id THEN session ELSE s.sessions[i]]
  <2>1. f \in Tables
    BY <1>1, <1>4, RowAdded
  <2>2. DOMAIN f = DOMAIN s.sessions \cup {id} /\ f[id] = session
        /\ \A i \in DOMAIN s.sessions : i # id /\ f[i] = s.sessions[i]
    BY <1>1
  <2>3. r.sessions = f
    BY DEF Loads, session
  <2> HIDE DEF f
  <2> QED
    BY <2>1, <2>2, <2>3
<1>8. Sorted(r.traces)
  <2>1. \A t \in Traces : /\ r.traces[t].spans \subseteq Spans /\ r.traces[t].logs \subseteq Logs
    BY <1>6 DEF TraceRows
  <2>2. \A t \in Traces : \A x \in ItemsIn(r.traces[t]) : Attr[x].trace = t
    <3> SUFFICES ASSUME NEW t \in Traces, NEW x \in ItemsIn(r.traces[t]) PROVE Attr[x].trace = t
      OBVIOUS
    <3>1. CASE t \in new
      BY <1>5, <1>6, <3>1 DEF ItemsIn
    <3>2. CASE t \notin new
      BY <1>1, <1>6, <3>2 DEF Sorted
    <3> QED
      BY <3>1, <3>2
  <2> QED
    BY <2>1, <2>2 DEF Sorted
<1>9. /\ SpansAmong(r.traces, new) = {x \in b.spans : Attr[x].trace \in new}
      /\ LogsAmong(r.traces, new) = {x \in b.logs : Attr[x].trace \in new}
      /\ ItemsAmong(r.traces, new) = LoadedItems(b, new)
  <2>1. \A t \in new : /\ r.traces[t].spans = {x \in b.spans : Attr[x].trace = t}
                       /\ r.traces[t].logs = {x \in b.logs : Attr[x].trace = t}
    BY <1>3, <1>5, <1>6
  <2>2. SpansAmong(r.traces, new) = {x \in b.spans : Attr[x].trace \in new}
    BY <2>1 DEF SpansAmong
  <2>3. LogsAmong(r.traces, new) = {x \in b.logs : Attr[x].trace \in new}
    BY <2>1 DEF LogsAmong
  <2>4. ItemsAmong(r.traces, new) = LoadedItems(b, new)
    BY <2>1 DEF ItemsAmong, LoadedItems, ItemsIn
  <2> QED
    BY <2>2, <2>3, <2>4
<1>10. r.bytes \in Int /\ BytesFit(r.at, r.traces, r.held, r.bytes)
  <2> DEFINE A == ItemsAmong(s.traces, Traces)
             B == LoadedItems(b, new)
             C == ItemsIn(b)
             held == Size(ItemsAmong(s.held, Traces))
  <2>1. Size(ItemsAmong(r.traces, Traces)) = Size(A) - Size(ItemsAmong(s.traces, new)) + Size(B)
    <3>1. \A t \in Traces \ new : SameItems(s.traces, r.traces, t)
      BY <1>6 DEF SameItems
    <3> QED
      BY <1>1, <1>3, <1>8, <1>9, <3>1, SizeChange
  <2>2. Size(ItemsAmong(s.traces, new)) = 0
    <3>1. ItemsAmong(s.traces, new) = {}
      BY <1>3, NothingIsThere DEF ItemsAmong
    <3> QED
      BY <3>1, SizeNone
  <2>3. Size(A) \in Nat /\ Size(B) \in Nat /\ Size(C) \in Nat /\ held \in Nat /\ Size(B) <= Size(C)
    <3>1. A \in SUBSET Items /\ B \in SUBSET C /\ C \in SUBSET Items /\ ItemsAmong(s.held, Traces) \in SUBSET Items
      BY <1>1, <1>2, AmongIsSorted DEF LoadedItems
    <3> HIDE DEF A, B, C
    <3>2. Size(C \ B) = Size(C) - Size(B) /\ Size(C \ B) \in Nat
      BY <3>1, SizeWithout, SizeType
    <3>3. Size(A) \in Nat /\ Size(B) \in Nat /\ Size(C) \in Nat /\ held \in Nat
      BY <3>1, SizeType
    <3> QED
      BY <3>2, <3>3
  <2>4. s.bytes + Size(C) <= Limits[s.at].max_bytes /\ Limits[s.at].max_bytes \in Int
    BY <1>1, StoreAssumption DEF Roomy, Bytes, Limit
  <2>5. s.bytes = Size(A) + held
    BY <1>1 DEF BytesFit
  <2>6. r.bytes = s.bytes + Size(B) /\ r.at = s.at /\ r.held = s.held
    BY DEF Loads
  <2> DEFINE now == Size(ItemsAmong(r.traces, Traces))
             a == Size(A)
             b1 == Size(B)
             c == Size(C)
             limit == Limits[s.at].max_bytes
  <2> HIDE DEF A, B, C, held
  <2>7. r.bytes \in Int /\ r.bytes = now + held /\ r.bytes <= limit
    <3>1. a \in Nat /\ b1 \in Nat /\ c \in Nat /\ held \in Nat /\ b1 <= c /\ now = a + b1
      BY <2>1, <2>2, <2>3
    <3>2. s.bytes = a + held /\ r.bytes = s.bytes + b1 /\ s.bytes + c <= limit /\ limit \in Int
      BY <2>4, <2>5, <2>6
    <3> HIDE DEF now, a, b1, c, limit
    <3> QED
      BY ONLY <3>1, <3>2
  <2> QED
    BY <2>6, <2>7 DEF BytesFit, held
<1>11. MembersFit(r.sessions, r.traces)
  <2>1. ASSUME NEW i \in DOMAIN r.sessions
        PROVE  /\ r.sessions[i].traces = {t \in Traces : r.traces[t].session = i}
               /\ Counted(r.sessions[i], r.traces)
    <3>1. CASE i = id
      <4>1. \A t \in Traces : r.traces[t].session = id <=> t \in new
        BY <1>1, <1>2, <1>5, <1>6 DEF MembersFit
      <4>2. new = {t \in Traces : r.traces[t].session = id}
        BY <1>3, <4>1
      <4>3. Counted(session, r.traces)
        BY <1>4, <1>9 DEF Counted
      <4> QED
        BY <1>4, <1>7, <3>1, <4>2, <4>3
    <3>2. CASE i # id
      <4>1. i \in DOMAIN s.sessions /\ i # NoSession
        BY <1>1, <1>7, <3>2, NothingIsThere DEF Tables
      <4>2. \A t \in Traces : r.traces[t].session = i <=> s.traces[t].session = i
        BY <1>3, <1>5, <1>6, <3>2, <4>1
      <4>3. s.sessions[i].traces = {t \in Traces : s.traces[t].session = i} /\ Counted(s.sessions[i], s.traces)
        BY <1>1, <4>1 DEF MembersFit
      <4>4. {t \in Traces : r.traces[t].session = i} = {t \in Traces : s.traces[t].session = i}
        BY <4>2
      <4>5. \A t \in s.sessions[i].traces : SameItems(s.traces, r.traces, t)
        BY <1>3, <1>6, <4>1, <4>3 DEF SameItems
      <4>6. Counted(s.sessions[i], r.traces)
        BY <4>3, <4>5, CountsStay
      <4> QED
        BY <1>7, <4>1, <4>3, <4>4, <4>6
    <3> QED
      BY <3>1, <3>2
  <2>2. \A t \in Traces : r.traces[t].session # NoSession => r.traces[t].session \in DOMAIN r.sessions
    BY <1>1, <1>5, <1>6, <1>7 DEF MembersFit
  <2>3. \A t \in Traces : r.traces[t].session = NoSession => r.traces[t] = NoTrace
    BY <1>1, <1>2, <1>5, <1>6 DEF MembersFit
  <2> QED
    BY <2>1, <2>2, <2>3 DEF MembersFit
<1>12. StagedFit(r.at, r.traces, r.staged, r.held)
  <2>1. r.at = s.at /\ r.staged = s.staged /\ r.held = s.held
    BY DEF Loads
  <2>2. \A t \in Traces : r.traces[t].session # NoSession /\ t \in ToSet(r.staged) =>
          \E c \in Bundles[r.at] : \E x \in ItemsIn(c) : Attr[x].trace = t
    <3> SUFFICES ASSUME NEW t \in Traces, r.traces[t].session # NoSession, t \in ToSet(r.staged)
                 PROVE  \E c \in Bundles[r.at] : \E x \in ItemsIn(c) : Attr[x].trace = t
      OBVIOUS
    <3>1. CASE t \in new
      BY <1>3, <2>1, <3>1
    <3>2. CASE t \notin new
      BY <1>1, <1>6, <2>1, <3>2 DEF StagedFit
    <3> QED
      BY <3>1, <3>2
  <2> QED
    BY <1>1, <2>1, <2>2 DEF StagedFit
<1>13. r.finished \in Seq(Ids) /\ FinishedFit(r.sessions, r.finished)
  <2>1. id \notin ToSet(s.finished) /\ IsInjective(s.finished)
    BY <1>1 DEF FinishedFit
  <2>2. /\ Append(s.finished, id) \in Seq(Ids) /\ IsInjective(Append(s.finished, id))
        /\ ToSet(Append(s.finished, id)) = ToSet(s.finished) \cup {id}
    BY <1>1, <2>1, Appended
  <2>3. {i \in DOMAIN r.sessions : r.sessions[i].complete}
           = {i \in DOMAIN s.sessions : s.sessions[i].complete} \cup {id}
    BY <1>4, <1>7
  <2>4. r.finished = Append(s.finished, id)
    BY DEF Loads
  <2> QED
    BY <1>1, <2>2, <2>3, <2>4 DEF FinishedFit
<1>14. HeadsFit(r.sessions, r.heads)
  <2>1. r.heads = s.heads
    BY DEF Loads
  <2> QED
    BY <1>1, <1>7, <2>1 DEF HeadsFit
<1>15. FullFit(r.sessions, r.traces, {}, {})
  <2>1. \A t \in Traces \ {} : r.traces[t].session # NoSession => ItemsIn(r.traces[t]) # {}
    <3> SUFFICES ASSUME NEW t \in Traces, r.traces[t].session # NoSession PROVE ItemsIn(r.traces[t]) # {}
      OBVIOUS
    <3>1. CASE t \in new
      BY <1>3, <1>5, <1>6, <3>1 DEF ItemsIn
    <3>2. CASE t \notin new
      BY <1>1, <1>6, <3>2 DEF FullFit
    <3> QED
      BY <3>1, <3>2
  <2>2. \A i \in DOMAIN r.sessions \ {} :
          r.sessions[i].traces = {} => r.sessions[i].complete /\ r.sessions[i].key = NoKey
    BY <1>1, <1>4, <1>7 DEF FullFit
  <2> QED
    BY <2>1, <2>2 DEF FullFit
<1>16. r \in Stores
  <2>1. <<"started", id>> \in Events
    BY DEF Events
  <2>2. r.events \in Seq(Events)
    <3>1. Append(s.events, <<"started", id>>) \in Seq(Events)
      BY <1>1, <2>1, Appended
    <3> QED
      BY <3>1 DEF Loads
  <2>3. r = [s EXCEPT !.sessions = r.sessions, !.traces = r.traces, !.bytes = r.bytes,
                      !.finished = r.finished, !.events = r.events]
    BY DEF Loads
  <2> QED
    BY <1>1, <1>6, <1>7, <1>10, <1>13, <2>2, <2>3 DEF Stores
<1>17. IsFiniteSet(Live(r))
  BY <1>1, <1>7, FS_AddElement DEF Live
<1>18. LogsFit(r.pending) /\ Sorted(r.held)
  BY <1>1 DEF Inv, Loads
<1> QED
  BY <1>8, <1>10, <1>11, <1>12, <1>13, <1>14, <1>15, <1>16, <1>17, <1>18 DEF Inv

-----------------------------------------------------------------------------
(* The steps of the store: each keeps the invariant and loses nothing of a *)
(* session that is not finished.                                           *)

\* Taking the events changes no table.
LEMMA DrainedFits ==
  ASSUME Inv(st, {}, {})
  PROVE  /\ Inv(Drained, {}, {}) /\ SameTables(st, Drained) /\ Live(Drained) = Live(st)
         /\ Drained.due = st.due /\ Saved(st, Drained, {}, {})
<1>1. st \in Stores /\ << >> \in Seq(Events)
  BY DEF Inv
<1>2. Drained \in Stores /\ SameTables(st, Drained) /\ Drained.due = st.due
  BY <1>1 DEF Drained, Stores, SameTables
<1>3. Inv(Drained, {}, {})
  BY <1>2, EventsAside
<1>4. Saved(st, Drained, {}, {})
  BY <1>2, SameSaved DEF SameTables
<1> QED
  BY <1>2, <1>3, <1>4 DEF SameTables, Live

\* What the assumption on the constants says of a batch of spans.
LEMMA SpanUnitsAreSound ==
  ASSUME Inv(st, {}, {}), NEW unit \in SpanUnits[st.at]
  PROVE  /\ unit \in Seq(Spans) /\ OfOneTrace(unit) /\ ToSet(unit) \subseteq Items
         /\ unit[1] \in Items /\ Attr[unit[1]].trace \in Traces
         /\ \A i \in 1..Len(unit) : Attr[unit[i]].trace = Attr[unit[1]].trace
         /\ KeyOf(ToSet(unit)) \in Keys \cup {NoKey}
<1>1. st.at \in Deployments
  BY DEF Inv, Stores
<1>2. unit \in Seq(Spans) /\ OfOneTrace(unit)
  BY <1>1, StoreAssumption
<1>3. /\ unit[1] \in Items /\ ToSet(unit) \subseteq Items
      /\ \A i \in 1..Len(unit) : Attr[unit[i]].trace = Attr[unit[1]].trace
  BY <1>2, Elements DEF OfOneTrace, Items
<1> QED
  BY <1>2, <1>3, ItemsAreSound, KeyOfType

\* What the assumption on the constants says of a batch of logs.
LEMMA LogUnitsAreSound ==
  ASSUME Inv(st, {}, {}), NEW unit \in LogUnits[st.at]
  PROVE  /\ unit \in Seq(Logs) /\ OfOneTrace(unit) /\ ToSet(unit) \subseteq Items
         /\ unit[1] \in Items /\ Attr[unit[1]].trace \in Traces
         /\ \A i \in 1..Len(unit) : Attr[unit[i]].trace = Attr[unit[1]].trace
         /\ KeyOf(ToSet(unit)) \in Keys \cup {NoKey}
<1>1. st.at \in Deployments
  BY DEF Inv, Stores
<1>2. unit \in Seq(Logs) /\ OfOneTrace(unit)
  BY <1>1, StoreAssumption
<1>3. /\ unit[1] \in Items /\ ToSet(unit) \subseteq Items
      /\ \A i \in 1..Len(unit) : Attr[unit[i]].trace = Attr[unit[1]].trace
  BY <1>2, Elements DEF OfOneTrace, Items
<1> QED
  BY <1>2, <1>3, ItemsAreSound, KeyOfType

\* A trace that is known is a member of a live session.
LEMMA KnownFits ==
  ASSUME NEW s, NEW E, NEW T, Inv(s, E, T), NEW t \in Traces, Known(s, t)
  PROVE  s.traces[t].session \in Live(s) /\ t \in s.sessions[s.traces[t].session].traces
<1>1. MembersFit(s.sessions, s.traces) /\ s \in Stores
  BY DEF Inv
<1>2. s.traces[t].session \in DOMAIN s.sessions
  BY <1>1 DEF MembersFit, Known
<1> QED
  BY <1>1, <1>2 DEF MembersFit, Live

\* Storing a batch for a trace that was its session's before.
LEMMA SpansStay ==
  ASSUME NEW s, Inv(s, {}, {}), NEW unit \in Seq(Spans), OfOneTrace(unit), NEW id \in Live(s),
         s.traces[Attr[unit[1]].trace].session = id
  PROVE  LET r == SpansAdded(s, unit, id, FALSE) IN Inv(r, {}, {}) /\ Saved(s, r, {id}, {id})
<1>1. ASSUME NEW b \in BOOLEAN, ~b
      PROVE  LET r == SpansAdded(s, unit, id, b) IN Inv(r, {}, {}) /\ Saved(s, r, {id}, {id})
  <2>1. Inv(s, {}, IF b THEN {Attr[unit[1]].trace} ELSE {})
    BY <1>1
  <2> QED
    BY <2>1, SpansAddedFits
<1> QED
  BY <1>1

\* Storing a batch for a trace that was just attached.
LEMMA SpansCome ==
  ASSUME NEW s, NEW unit \in Seq(Spans), Inv(s, {}, {Attr[unit[1]].trace}), OfOneTrace(unit), NEW id \in Live(s),
         s.traces[Attr[unit[1]].trace].session = id
  PROVE  LET r == SpansAdded(s, unit, id, TRUE) IN Inv(r, {}, {}) /\ Saved(s, r, {id}, {id})
<1>1. ASSUME NEW b \in BOOLEAN, b
      PROVE  LET r == SpansAdded(s, unit, id, b) IN Inv(r, {}, {}) /\ Saved(s, r, {id}, {id})
  <2>1. Inv(s, {}, IF b THEN {Attr[unit[1]].trace} ELSE {})
    BY <1>1
  <2> QED
    BY <2>1, SpansAddedFits
<1> QED
  BY <1>1

\* Spans of a known trace whose session keeps its key keep the invariant.
LEMMA StayStep ==
  ASSUME Inv(st, {}, {}), NEW unit \in SpanUnits[st.at], StayInSession(unit)
  PROVE  Inv(st', {}, {}) /\ NoneLost(st, st')
<1> DEFINE t == Attr[unit[1]].trace
           id == st.traces[t].session
<1>1. unit \in Seq(Spans) /\ OfOneTrace(unit) /\ t \in Traces
  BY SpanUnitsAreSound
<1>2. Known(st, t) /\ st' = SpansAdded(Drained, unit, id, FALSE)
  BY DEF StayInSession
<1>3. id \in Live(Drained) /\ Drained.traces[t].session = id /\ Inv(Drained, {}, {})
  <2>1. id \in Live(st)
    BY <1>1, <1>2, KnownFits
  <2> QED
    BY <2>1, DrainedFits DEF SameTables
<1> HIDE DEF id
<1> DEFINE r == SpansAdded(Drained, unit, id, FALSE)
<1>4. Inv(r, {}, {}) /\ Saved(Drained, r, {id}, {id})
  BY <1>1, <1>3, SpansStay
<1> HIDE DEF r
<1>5. Saved(st, Drained, {}, {}) /\ Saved(Drained, r, {}, {id})
  BY <1>4, DrainedFits, SavedLess
<1>6. NoneLost(st, r)
  BY <1>5, SavedOn, SavedIsNotLost
<1> QED
  BY <1>2, <1>4, <1>6 DEF r

\* The session that a stronger key, or an earlier span, asks for is another one.
Another(s, n, id, t) ==
  /\ n.id # id /\ id \in Live(n.st) /\ n.id \in Live(n.st) /\ Inv(n.st, {n.id}, {})
  /\ n.st.traces[t] = s.traces[t] /\ n.st.sessions[id] = s.sessions[id] /\ Keeps(s, n.st, id)

\* A session found for another key is another session.
LEMMA AnotherSession ==
  ASSUME NEW s, NEW n, NEW key, NEW id, id \in Live(s), s.sessions[id].key # key, Chosen(s, n, key, id),
         NEW t, t \in Traces, s.traces[t].session = id
  PROVE  Another(s, n, id, t)
BY DEF Chosen, Keeps, Another

\* Spans whose key takes over the session of their trace keep the invariant.
LEMMA PromoteStep ==
  ASSUME Inv(st, {}, {}), NEW unit \in SpanUnits[st.at], NEW passed, Promote(unit, passed)
  PROVE  Inv(st', {}, {}) /\ NoneLost(st, st')
<1> DEFINE t == Attr[unit[1]].trace
           key == KeyOf(ToSet(unit))
           id == st.traces[t].session
           session == st.sessions[id]
           for == SessionFor(Drained, key, Attr[unit[1]], passed, id)
           fits == Fits(for.st, for.id, Cardinality(session.traces), session.spans, session.logs)
           merged == Merged(for.st, id, for.id)
<1>1. /\ unit \in Seq(Spans) /\ OfOneTrace(unit) /\ t \in Traces /\ key \in Keys \cup {NoKey}
      /\ unit[1] \in Items
  BY SpanUnitsAreSound
<1>2. Known(st, t) /\ Promotes(t, key)
      /\ st' = IF for.id = NoSession THEN Drained
               ELSE IF fits THEN SpansAdded(merged, unit, for.id, FALSE)
                    ELSE Discarded(for.st, for.id)
  BY DEF Promote
<1>3. id \in Live(st) /\ t \in session.traces
  BY <1>1, <1>2, KnownFits
<1>4. key \in Keys /\ session.key # key
  <2>1. Strength \in [Keys -> Nat] /\ NoKey \notin Keys
    BY StoreAssumption
  <2> QED
    <3>1. key \in Keys /\ Outranks(key, session.key)
      BY <1>1, <1>2 DEF Promotes
    <3> HIDE DEF key, session
    <3>2. session.key # key
      BY <2>1, <3>1 DEF Outranks
    <3> QED
      BY <3>1, <3>2
<1>5. /\ Inv(Drained, {}, {}) /\ id \in Live(Drained) /\ Drained.traces[t].session = id
      /\ Drained.sessions[id] = session /\ Saved(st, Drained, {}, {})
  BY <1>3, DrainedFits DEF SameTables
<1> HIDE DEF key, fits, session
<1>6. (for.id = NoSession /\ for.st = Drained) \/ Chosen(Drained, for, key, id)
  BY <1>1, <1>4, <1>5, SessionForFits
<1> HIDE DEF for, id
<1>7. CASE for.id = NoSession
  BY <1>2, <1>5, <1>7, SavedIsNotLost
<1>8. CASE for.id # NoSession
  <2>1. /\ for.id # id /\ id \in Live(for.st) /\ for.id \in Live(for.st) /\ Inv(for.st, {for.id}, {})
        /\ for.st.traces[t] = Drained.traces[t] /\ for.st.sessions[id] = Drained.sessions[id]
        /\ Keeps(Drained, for.st, id)
    <3>1. /\ key \in Keys /\ id \in Live(Drained) /\ Drained.sessions[id].key # key /\ t \in Traces
          /\ Chosen(Drained, for, key, id) /\ Drained.traces[t].session = id
      BY <1>1, <1>4, <1>5, <1>6, <1>8
    <3> HIDE DEF t
    <3>2. Another(Drained, for, id, t)
      BY <3>1, AnotherSession
    <3> QED
      BY <3>2 DEF Another
  <2>2. for.st.sessions[id].traces # {}
    BY <1>3, <1>5, <2>1
  <2>3. Absorbed(for.st, merged, id, for.id)
    BY <2>1, <2>2, MergedFits
  <2> HIDE DEF merged
  <2>4. /\ Inv(merged, {}, {}) /\ for.id \in Live(merged) /\ merged.traces[t].session = for.id
        /\ Saved(for.st, merged, {}, {for.id})
    BY <1>1, <1>5, <2>1, <2>3 DEF Absorbed
  <2> DEFINE added == SpansAdded(merged, unit, for.id, FALSE)
             given == Discarded(for.st, for.id)
  <2>5. Inv(added, {}, {}) /\ Saved(merged, added, {for.id}, {for.id})
    BY <1>1, <2>4, SpansStay
  <2>6. Inv(given, {}, {}) /\ Still(for.st, given)
    BY <2>1, DiscardedFits
  <2> HIDE DEF added, given
  <2>7. Saved(st, for.st, {}, {})
    <3>1. Saved(Drained, for.st, {}, {})
      BY <1>5, <2>1, KeptIsSaved
    <3> QED
      BY <1>5, <3>1, SavedOn
  <2>8. NoneLost(st, given)
    BY <2>1, <2>6, <2>7, StillSaved, SavedOn, SavedIsNotLost
  <2>9. NoneLost(st, added)
    <3>1. Saved(st, merged, {}, {for.id})
      BY <2>4, <2>7, SavedOn
    <3> QED
      BY <2>5, <3>1, SavedOn, SavedIsNotLost
  <2> QED
    BY <1>2, <1>8, <2>5, <2>6, <2>8, <2>9 DEF added, given
<1> QED
  BY <1>7, <1>8

\* Spans whose key moves their trace to the key's owner keep the invariant.
LEMMA MoveStep ==
  ASSUME Inv(st, {}, {}), NEW unit \in SpanUnits[st.at], NEW passed, MoveToOwner(unit, passed)
  PROVE  Inv(st', {}, {}) /\ NoneLost(st, st')
<1> DEFINE t == Attr[unit[1]].trace
           key == KeyOf(ToSet(unit))
           id == st.traces[t].session
           for == SessionFor(Drained, key, Attr[unit[1]], passed, id)
           fits == Fits(for.st, for.id, 1, Cardinality(st.traces[t].spans), Cardinality(st.traces[t].logs))
           moved == Moved(for.st, t, id, for.id)
<1>1. /\ unit \in Seq(Spans) /\ OfOneTrace(unit) /\ t \in Traces /\ key \in Keys \cup {NoKey}
      /\ unit[1] \in Items
  BY SpanUnitsAreSound
<1>2. Known(st, t) /\ Owns(t, key, unit)
      /\ st' = IF for.id = NoSession THEN Drained
               ELSE IF fits THEN SpansAdded(moved, unit, for.id, FALSE)
                    ELSE Discarded(for.st, for.id)
  BY DEF MoveToOwner
<1>3. id \in Live(st)
  BY <1>1, <1>2, KnownFits
<1>4. key \in Keys /\ st.sessions[id].key # key
  BY <1>1, <1>2 DEF Owns
<1>5. /\ Inv(Drained, {}, {}) /\ id \in Live(Drained) /\ Drained.traces[t].session = id
      /\ Drained.sessions[id] = st.sessions[id] /\ Saved(st, Drained, {}, {})
  BY <1>3, DrainedFits DEF SameTables
<1> HIDE DEF key, fits
<1>6. (for.id = NoSession /\ for.st = Drained) \/ Chosen(Drained, for, key, id)
  BY <1>1, <1>4, <1>5, SessionForFits
<1> HIDE DEF for, id
<1>7. CASE for.id = NoSession
  BY <1>2, <1>5, <1>7, SavedIsNotLost
<1>8. CASE for.id # NoSession
  <2>1. /\ for.id # id /\ id \in Live(for.st) /\ for.id \in Live(for.st) /\ Inv(for.st, {for.id}, {})
        /\ for.st.traces[t] = Drained.traces[t] /\ Keeps(Drained, for.st, id)
    <3>1. /\ key \in Keys /\ id \in Live(Drained) /\ Drained.sessions[id].key # key /\ t \in Traces
          /\ Chosen(Drained, for, key, id) /\ Drained.traces[t].session = id
      BY <1>1, <1>4, <1>5, <1>6, <1>8
    <3> HIDE DEF t
    <3>2. Another(Drained, for, id, t)
      BY <3>1, AnotherSession
    <3> QED
      BY <3>2 DEF Another
  <2>2. MovedWell(for.st, moved, t, id, for.id)
    BY <1>1, <1>5, <2>1, MovedFits
  <2> HIDE DEF moved
  <2>3. Inv(moved, {}, {}) /\ for.id \in Live(moved) /\ moved.traces[t].session = for.id
    BY <2>2 DEF MovedWell
  <2> DEFINE added == SpansAdded(moved, unit, for.id, FALSE)
             given == Discarded(for.st, for.id)
  <2>4. Inv(added, {}, {}) /\ Saved(moved, added, {for.id}, {for.id})
    BY <1>1, <2>3, SpansStay
  <2>5. Inv(given, {}, {}) /\ Still(for.st, given)
    BY <2>1, DiscardedFits
  <2> HIDE DEF added, given
  <2>6. Saved(st, for.st, {}, {})
    <3>1. Saved(Drained, for.st, {}, {})
      BY <1>5, <2>1, KeptIsSaved
    <3> QED
      BY <1>5, <3>1, SavedOn
  <2>7. NoneLost(st, given)
    BY <2>1, <2>5, <2>6, StillSaved, SavedOn, SavedIsNotLost
  <2>8. NoneLost(st, added)
    <3>1. for.id \in Ids
      BY <2>1 DEF Inv, Stores, Tables, Live
    <3>2. Saved(for.st, moved, {}, {} \cup {for.id})
      BY <1>1, <2>2, <3>1, MovedIsSaved
    <3>3. {} \cup {for.id} = {for.id}
      OBVIOUS
    <3>4. Saved(st, moved, {}, {for.id})
      BY <2>6, <3>2, <3>3, SavedOn
    <3> QED
      BY <2>4, <3>4, SavedOn, SavedIsNotLost
  <2> QED
    BY <1>2, <1>8, <2>4, <2>5, <2>7, <2>8 DEF added, given
<1> QED
  BY <1>7, <1>8

\* A trace taken off the staged ones is in hand with what it held.
LEMMA TakenInHand ==
  ASSUME Inv(st, {}, {}), NEW t \in Traces, ~Known(st, t)
  PROVE  LET taken == Unstaged(Drained, t)
         IN  /\ InHand(taken, t, st.held[t]) /\ taken.held[t] = Nothing /\ taken.at = st.at
             /\ taken.sessions = st.sessions /\ taken.traces = st.traces
             /\ ~IsStaged(st, t) => st.held[t] = Nothing
<1> DEFINE taken == Unstaged(Drained, t)
           c == st.held[t]
<1>1. Inv(Drained, {}, {}) /\ SameTables(st, Drained)
  BY DrainedFits
<1>2. Inv(taken, {}, {}) /\ Dropped(Drained, taken, t)
  BY <1>1, UnstagedFits
<1> HIDE DEF taken
<1>3. /\ st \in Stores /\ c \in Contents /\ st.bytes \in Int /\ Sorted(st.held) /\ Drained \in Stores
      /\ st.held \in [Traces -> Contents] /\ StagedFit(st.at, st.traces, st.staged, st.held)
      /\ st.bytes <= Limits[st.at].max_bytes
  BY <1>1 DEF Inv, Stores, BytesFit
<1>4. taken.traces[t].session = NoSession /\ t \notin ToSet(taken.staged) /\ taken.held[t] = Nothing
      /\ taken.at = st.at
  BY <1>1, <1>2, <1>3 DEF Dropped, SameTables, Known
<1>5. \A x \in ItemsIn(c) : Attr[x].trace = t
  BY <1>3 DEF Sorted
<1>6. taken.bytes + Bytes(c) <= Limits[taken.at].max_bytes
  <2>1. taken.bytes = st.bytes - Bytes(c) /\ Bytes(c) \in Nat
    BY <1>1, <1>2 DEF Dropped, SameTables
  <2>2. taken.bytes + Bytes(c) = st.bytes
    BY <1>3, <2>1
  <2> QED
    BY <1>3, <1>4, <2>2
<1>7. InHand(taken, t, c)
  BY <1>2, <1>3, <1>4, <1>5, <1>6 DEF InHand
<1>8. ~IsStaged(st, t) => c = Nothing
  BY <1>3 DEF IsStaged, StagedFit
<1>9. taken.sessions = st.sessions /\ taken.traces = st.traces
  BY <1>1, <1>2 DEF Dropped, SameTables
<1> QED
  BY <1>4, <1>7, <1>8, <1>9 DEF taken

\* What is in hand stays so while a session is found or started.
LEMMA StillInHand ==
  ASSUME NEW s, NEW t \in Traces, NEW c, InHand(s, t, c), NEW r, NEW x, Keeps(s, r, x),
         r \in Stores
  PROVE  /\ r.traces[t].session = NoSession /\ t \notin ToSet(r.staged) /\ r.at = s.at
         /\ r.bytes + Bytes(c) <= Limits[r.at].max_bytes
<1>1. /\ s \in Stores /\ s.bytes \in Int /\ r.bytes \in Int /\ r.bytes <= s.bytes /\ r.at = s.at
      /\ Limits[s.at].max_bytes \in Int
  <2>1. s \in Stores /\ r.bytes <= s.bytes /\ r.at = s.at
    BY DEF InHand, Inv, Keeps
  <2> QED
    BY <2>1, StoreAssumption DEF Stores
<1>2. Bytes(c) \in Nat
  <2>1. ItemsIn(c) \in SUBSET Items
    BY DEF InHand, Contents, ItemsIn, Items
  <2> QED
    BY <2>1, SizeType DEF Bytes
<1>3. r.bytes + Bytes(c) <= Limits[r.at].max_bytes
  BY <1>1, <1>2 DEF InHand
<1> QED
  BY <1>1, <1>3 DEF InHand, Keeps

\* Spans of an unknown trace that join a session, refused ones included, keep the
\* invariant.
LEMMA JoinStep ==
  ASSUME Inv(st, {}, {}), NEW unit \in SpanUnits[st.at], NEW passed, JoinSession(unit, passed)
  PROVE  Inv(st', {}, {}) /\ NoneLost(st, st')
<1> DEFINE t == Attr[unit[1]].trace
           key == KeyOf(ToSet(unit))
           held == st.held[t]
           taken == Unstaged(Drained, t)
           for == IF key # NoKey THEN SessionFor(taken, key, Attr[unit[1]], passed, NoSession)
                  ELSE NewSession(taken, t, NoKey, Attr[unit[1]], NoSession)
           refused == IF IsStaged(st, t) THEN Restaged(for.st, t, held) ELSE for.st
           counted == [for.st EXCEPT !.bytes = @ + Bytes(held)]
           joined == Attached(counted, t, held, for.id)
           full == Cardinality(for.st.sessions[for.id].traces) >= Limit(st).traces_per_session
<1>1. /\ unit \in Seq(Spans) /\ OfOneTrace(unit) /\ t \in Traces /\ key \in Keys \cup {NoKey}
      /\ unit[1] \in Items
  BY SpanUnitsAreSound
<1>2. ~Known(st, t)
      /\ st' = IF for.id = NoSession \/ full THEN refused
               ELSE SpansAdded(Replayed(joined, t, for.id), unit, for.id, TRUE)
  BY DEF JoinSession
<1> HIDE DEF key, t
<1>3. /\ InHand(taken, t, held) /\ taken.at = st.at /\ (~IsStaged(st, t) => held = Nothing)
      /\ taken.sessions = st.sessions /\ taken.traces = st.traces
  BY <1>1, <1>2, TakenInHand
<1>4. Inv(taken, {}, {}) /\ Saved(st, taken, {}, {})
  BY <1>3, SameSaved DEF InHand
<1> HIDE DEF taken, held
<1>5. (for.id = NoSession /\ for.st = taken) \/ Chosen(taken, for, key, NoSession)
  <2>1. CASE key # NoKey
    <3>1. key \in Keys
      BY <1>1, <2>1
    <3>2. for = SessionFor(taken, key, Attr[unit[1]], passed, NoSession)
      BY <2>1
    <3> HIDE DEF for
    <3> QED
      BY <1>1, <1>4, <3>1, <3>2, SessionForFits
  <2>2. CASE key = NoKey
    <3>1. t \in Names /\ NoKey \in Keys \cup {NoKey}
      BY <1>1 DEF Names
    <3>2. for = NewSession(taken, t, NoKey, Attr[unit[1]], NoSession)
      BY <2>2
    <3> HIDE DEF for
    <3>3. (for.id = NoSession /\ for.st = taken) \/ Chosen(taken, for, NoKey, NoSession)
      BY <1>1, <1>4, <3>1, <3>2, NewSessionFits
    <3> QED
      BY <2>2, <3>3
  <2> QED
    BY <2>1, <2>2
<1> HIDE DEF for
<1>6. ASSUME InHand(for.st, t, held), Saved(st, for.st, {}, {})
      PROVE  Inv(refused, {}, {}) /\ NoneLost(st, refused)
  <2> DEFINE back == Restaged(for.st, t, held)
  <2>1. Inv(back, {}, {}) /\ back.sessions = for.st.sessions /\ back.traces = for.st.traces
    BY <1>1, <1>6, RestagedFits
  <2> HIDE DEF back
  <2>2. Inv(for.st, {}, {}) /\ NoneLost(st, for.st)
    BY <1>6, SavedIsNotLost DEF InHand
  <2>3. NoneLost(st, back)
    BY <1>6, <2>1, SameSaved, SavedOn, SavedIsNotLost
  <2> QED
    BY <2>1, <2>2, <2>3 DEF back
<1>7. CASE for.id = NoSession
  <2>1. for.st = taken
    BY <1>5, <1>7, NothingIsThere DEF Chosen
  <2>2. Inv(refused, {}, {}) /\ NoneLost(st, refused)
    BY <1>3, <1>4, <1>6, <2>1
  <2> QED
    BY <1>2, <1>7, <2>2
<1>8. CASE for.id # NoSession
  <2>1. /\ for.id \in Live(for.st) /\ for.id \in Ids /\ Inv(for.st, {for.id}, {}) /\ Keeps(taken, for.st, NoSession)
        /\ Inv(for.st, {}, {}) \/ for.st.sessions[for.id].traces = {}
    BY <1>5, <1>8 DEF Chosen
  <2>2. for.st \in Stores
    BY <2>1 DEF Inv
  <2>3. /\ for.st.traces[t].session = NoSession /\ t \notin ToSet(for.st.staged) /\ for.st.at = st.at
        /\ for.st.bytes + Bytes(held) <= Limits[for.st.at].max_bytes
    BY <1>1, <1>3, <2>1, <2>2, StillInHand
  <2>4. held \in Contents /\ (\A x \in ItemsIn(held) : Attr[x].trace = t)
    BY <1>3 DEF InHand
  <2>5. Saved(st, for.st, {}, {})
    BY <1>4, <2>1, KeptIsSaved, SavedOn
  <2>6. CASE full
    <3>1. for.st.sessions[for.id].traces # {}
      <4>1. Limit(st).traces_per_session \in Nat \ {0}
        <5>1. st.at \in Deployments
          BY DEF Inv, Stores
        <5> QED
          BY <5>1, StoreAssumption DEF Limit
      <4>2. Cardinality({}) = 0
        BY FS_EmptySet
      <4> DEFINE ts == for.st.sessions[for.id].traces
                 n == Limit(st).traces_per_session
      <4>3. Cardinality(ts) >= n
        BY <2>6
      <4> HIDE DEF ts, n
      <4>4. n \in Nat \ {0}
        BY <4>1 DEF n
      <4>5. ts # {}
        BY <4>2, <4>3, <4>4
      <4> QED
        BY <4>5 DEF ts
    <3>2. InHand(for.st, t, held)
      BY <2>1, <2>3, <2>4, <3>1 DEF InHand
    <3> QED
      BY <1>2, <1>6, <2>6, <2>5, <3>2
  <2>7. CASE ~full
    <3>1. held.spans \subseteq Spans /\ held.logs \subseteq Logs
      BY <2>4 DEF Contents
    <3>2. counted = [for.st EXCEPT !.bytes = for.st.bytes + Bytes(held)]
      OBVIOUS
    <3> HIDE DEF counted
    <3>3. Inv(joined, {for.id} \cup {for.id}, {t}) /\ Joins(for.st, joined, t, held, for.id)
      BY <1>1, <2>1, <2>3, <2>4, <3>1, <3>2, AttachFits
    <3> HIDE DEF joined
    <3>4. /\ for.id \in Live(joined) /\ joined.traces[t].session = for.id /\ joined.sessions[for.id].traces # {}
      BY <2>1, <3>3 DEF Joins
    <3>5. Inv(joined, {}, {t})
      BY <3>3, <3>4, Filled
    <3> DEFINE r == Replayed(joined, t, for.id)
    <3>6. /\ Inv(r, {}, {t}) /\ for.id \in Live(r) /\ r.traces[t].session = for.id
          /\ Saved(joined, r, {for.id}, {for.id})
      BY <1>1, <3>4, <3>5, ReplayedFits
    <3> HIDE DEF r
    <3> DEFINE q == SpansAdded(r, unit, for.id, TRUE)
    <3>7. Inv(q, {}, {}) /\ Saved(r, q, {for.id}, {for.id})
      BY <1>1, <3>6, SpansCome DEF t
    <3> HIDE DEF q
    <3>8. Saved(for.st, joined, {}, {})
      BY <2>1, <2>3, <3>3, JoinsStill, StillSaved
    <3>9. Saved(joined, q, {}, {for.id})
      BY <3>6, <3>7, SavedOn, SavedLess
    <3>10. NoneLost(st, q)
      BY <2>5, <3>8, <3>9, SavedOn, SavedIsNotLost
    <3> QED
      BY <1>2, <1>8, <2>7, <3>7, <3>10 DEF q, r
  <2> QED
    BY <2>6, <2>7
<1> QED
  BY <1>7, <1>8

\* Spans of an unknown trace that are staged keep the invariant.
LEMMA StageStep ==
  ASSUME Inv(st, {}, {}), NEW unit \in SpanUnits[st.at], Stage(unit)
  PROVE  Inv(st', {}, {}) /\ NoneLost(st, st')
<1> DEFINE t == Attr[unit[1]].trace
           held == [st |-> Unstaged(Drained, t), h |-> st.held[t]]
           done == Each(SpanStaged, held, unit)
<1>1. unit \in Seq(Spans) /\ t \in Traces /\ \A i \in 1..Len(unit) : Attr[unit[i]].trace = t
  BY SpanUnitsAreSound
<1>2. ~Known(st, t) /\ st' = Restaged(done.st, t, done.h)
  BY DEF Stage
<1> HIDE DEF t
<1>3. InHand(held.st, t, held.h) /\ Saved(st, held.st, {}, {})
  BY <1>1, <1>2, TakenInHand, SameSaved
<1>4. held \in Hands
  <2>1. Unstaged(Drained, t) \in Stores /\ st.held[t] \in Contents
    BY <1>3 DEF InHand, Inv
  <2> QED
    BY <2>1 DEF Hands
<1> HIDE DEF held
<1>5. InHand(done.st, t, done.h) /\ Saved(held.st, done.st, {}, {})
  BY <1>1, <1>3, <1>4, SpansStagedFit
<1> HIDE DEF done
<1> DEFINE r == Restaged(done.st, t, done.h)
<1>6. Inv(r, {}, {}) /\ Saved(done.st, r, {}, {})
  BY <1>1, <1>5, RestagedFits, SameSaved
<1> HIDE DEF r
<1>7. NoneLost(st, r)
  BY <1>3, <1>5, <1>6, SavedOn, SavedIsNotLost
<1> QED
  BY <1>2, <1>6, <1>7 DEF r

\* Logs of a known trace keep the invariant.
LEMMA LogToSessionStep ==
  ASSUME Inv(st, {}, {}), NEW unit \in LogUnits[st.at], LogToSession(unit)
  PROVE  Inv(st', {}, {}) /\ NoneLost(st, st')
<1> DEFINE t == Attr[unit[1]].trace
           id == st.traces[t].session
           stored == LogsAdded(Drained, unit, id)
<1>1. unit \in Seq(Logs) /\ t \in Traces /\ \A i \in 1..Len(unit) : Attr[unit[i]].trace = t
  BY LogUnitsAreSound
<1>2. Known(st, t)
      /\ st' = IF ToSet(unit) \cap stored.traces[t].logs = {} THEN stored ELSE Noted(stored, id)
  BY DEF LogToSession
<1> HIDE DEF t
<1>3. id \in Live(Drained) /\ Drained.traces[t].session = id /\ Inv(Drained, {}, {})
  <2>1. id \in Live(st)
    BY <1>1, <1>2, KnownFits
  <2> QED
    BY <2>1, DrainedFits DEF SameTables
<1> HIDE DEF id
<1>4. Inv(stored, {}, {}) /\ Grew(Drained, stored, t, id)
  BY <1>1, <1>3, LogsAddedFits
<1> HIDE DEF stored
<1> DEFINE noted == Noted(stored, id)
<1>5. Inv(noted, {}, {}) /\ SameTables(stored, noted)
  BY <1>4, NotedFits DEF Grew
<1> HIDE DEF noted
<1>6. Saved(stored, noted, {id}, {id})
  BY <1>5, SameSaved DEF SameTables
<1>7. Saved(st, stored, {}, {id})
  <2>1. Saved(Drained, stored, {id}, {id})
    BY <1>4 DEF Grew
  <2> QED
    BY <2>1, DrainedFits, SavedLess, SavedOn
<1>8. NoneLost(st, stored) /\ NoneLost(st, noted)
  BY <1>6, <1>7, SavedOn, SavedIsNotLost
<1> QED
  BY <1>2, <1>4, <1>5, <1>8 DEF noted

\* Logs of a staged trace keep the invariant.
LEMMA LogToStagedStep ==
  ASSUME Inv(st, {}, {}), NEW unit \in LogUnits[st.at], LogToStaged(unit)
  PROVE  Inv(st', {}, {}) /\ NoneLost(st, st')
<1> DEFINE t == Attr[unit[1]].trace
<1>1. unit \in Seq(Logs) /\ t \in Traces /\ \A i \in 1..Len(unit) : Attr[unit[i]].trace = t
  BY LogUnitsAreSound
<1>2. IsStaged(st, t) /\ st' = Each(StagedLogAdded, Drained, unit)
  BY DEF LogToStaged
<1> HIDE DEF t
<1>3. Inv(Drained, {}, {}) /\ t \in ToSet(Drained.staged)
  BY <1>2, DrainedFits DEF SameTables, IsStaged
<1>4. Inv(st', {}, {}) /\ Saved(Drained, st', {}, {})
  BY <1>1, <1>2, <1>3, StagedLogsFit
<1>5. NoneLost(st, st')
  BY <1>4, DrainedFits, SavedOn, SavedIsNotLost
<1> QED
  BY <1>4, <1>5

\* Logs of an unknown trace that wait keep the invariant.
LEMMA LogToPendingStep ==
  ASSUME Inv(st, {}, {}), NEW unit \in LogUnits[st.at], LogToPending(unit)
  PROVE  Inv(st', {}, {}) /\ NoneLost(st, st')
<1>1. unit \in Seq(Logs) /\ Inv(Drained, {}, {})
  BY LogUnitsAreSound, DrainedFits
<1>2. st' = Each(Buffered, Drained, unit)
  BY DEF LogToPending
<1>3. Inv(st', {}, {}) /\ st'.sessions = Drained.sessions /\ st'.traces = Drained.traces
  BY <1>1, <1>2, BufferedLogsFit
<1>4. NoneLost(st, st')
  BY <1>3, DrainedFits, SameSaved, SavedOn, SavedIsNotLost
<1> QED
  BY <1>3, <1>4

\* Logs that bring a staged or unknown trace to a session keep the invariant.
LEMMA LogJoinsStep ==
  ASSUME Inv(st, {}, {}), NEW unit \in LogUnits[st.at], NEW passed, LogJoinsSession(unit, passed)
  PROVE  Inv(st', {}, {}) /\ NoneLost(st, st')
<1> DEFINE t == Attr[unit[1]].trace
           key == KeyOf(ToSet(unit))
           for == SessionFor(Drained, key, Attr[unit[1]], passed, NoSession)
           joined == Attached(for.st, t, NoTrace, for.id)
           armed == Arm(joined, for.id)
           stored == LogsAdded(armed, unit, for.id)
<1>1. /\ unit \in Seq(Logs) /\ t \in Traces /\ key \in Keys \cup {NoKey} /\ unit[1] \in Items
      /\ \A i \in 1..Len(unit) : Attr[unit[i]].trace = t
  BY LogUnitsAreSound
<1>2. /\ ~Known(st, t) /\ ~IsStaged(st, t) /\ key # NoKey
      /\ st' = IF for.id = NoSession THEN Drained
               ELSE IF stored.traces[t].logs = {} THEN Detached(stored, t, for.id)
               ELSE Noted(stored, for.id)
  BY DEF LogJoinsSession
<1> HIDE DEF key, t
<1>3. /\ Inv(Drained, {}, {}) /\ Drained.traces[t].session = NoSession /\ t \notin ToSet(Drained.staged)
      /\ Drained.at = st.at /\ Saved(st, Drained, {}, {})
  BY <1>2, DrainedFits DEF SameTables, Known, IsStaged
<1>4. (for.id = NoSession /\ for.st = Drained) \/ Chosen(Drained, for, key, NoSession)
  <2>1. key \in Keys
    BY <1>1, <1>2
  <2> QED
    BY <1>1, <1>3, <2>1, SessionForFits
<1> HIDE DEF for
<1>5. CASE for.id = NoSession
  BY <1>2, <1>3, <1>5, SavedIsNotLost
<1>6. CASE for.id # NoSession
  <2>1. /\ for.id \in Live(for.st) /\ for.id \in Ids /\ Inv(for.st, {for.id}, {})
        /\ Keeps(Drained, for.st, NoSession)
    BY <1>4, <1>6 DEF Chosen
  <2>2. /\ for.st \in Stores /\ for.st.traces[t].session = NoSession /\ t \notin ToSet(for.st.staged)
        /\ for.st.bytes <= Limits[for.st.at].max_bytes /\ for.st.bytes \in Int
    BY <1>1, <1>3, <2>1 DEF Inv, Keeps, BytesFit, Stores
  <2>3. /\ NoTrace.spans \subseteq Spans /\ NoTrace.logs \subseteq Logs /\ ItemsIn(NoTrace) = {}
        /\ Bytes(NoTrace) = 0
    BY NothingIsThere, SizeNone DEF Bytes
  <2>4. Inv(joined, {for.id} \cup {for.id}, {t}) /\ Joins(for.st, joined, t, NoTrace, for.id)
    <3>1. for.st.bytes + Bytes(NoTrace) = for.st.bytes
      BY <2>2, <2>3
    <3>2. for.st = [for.st EXCEPT !.bytes = for.st.bytes + Bytes(NoTrace)]
      BY <2>2, <3>1 DEF Stores
    <3>3. for.st.bytes + Bytes(NoTrace) <= Limits[for.st.at].max_bytes
      BY <2>2, <3>1
    <3>4. \A x \in ItemsIn(NoTrace) : Attr[x].trace = t
      BY <2>3
    <3> QED
      BY <1>1, <2>1, <2>2, <2>3, <3>2, <3>3, <3>4, AttachFits
  <2> HIDE DEF joined
  <2>5. /\ for.id \in Live(joined) /\ joined.traces[t].session = for.id
        /\ joined.sessions[for.id].traces # {}
    BY <2>1, <2>4 DEF Joins
  <2>6. Inv(joined, {}, {t})
    BY <2>4, <2>5, Filled
  <2>7. Inv(armed, {}, {t}) /\ SameTables(joined, armed)
    BY <2>1, <2>6, ArmFits
  <2> HIDE DEF armed
  <2>8. for.id \in Live(armed) /\ armed.traces[t].session = for.id
    BY <2>5, <2>7 DEF SameTables, Live
  <2>9. Inv(stored, {}, {t}) /\ Grew(armed, stored, t, for.id)
    BY <1>1, <2>7, <2>8, LogsAddedFits
  <2> HIDE DEF stored
  <2>10. for.id \in Live(stored) /\ stored.traces[t].session = for.id
    BY <2>9 DEF Grew
  <2> DEFINE parted == Detached(stored, t, for.id)
             noted == Noted(stored, for.id)
  <2>11. Saved(st, stored, {}, {for.id})
    <3>1. Saved(st, for.st, {}, {})
      BY <1>3, <2>1, KeptIsSaved, SavedOn
    <3>2. Saved(for.st, joined, {}, {})
      BY <2>1, <2>2, <2>4, JoinsStill, StillSaved
    <3>3. Saved(joined, armed, {}, {})
      BY <2>7, SameSaved DEF SameTables
    <3>4. Saved(armed, stored, {}, {for.id})
      BY <2>9, SavedLess DEF Grew
    <3> QED
      BY <3>1, <3>2, <3>3, <3>4, SavedOn
  <2>12. Inv(parted, {}, {}) /\ NoneLost(st, parted)
    <3>1. Inv(parted, {}, {}) /\ Still(stored, parted)
      BY <1>1, <2>9, <2>10, DetachedFits
    <3> HIDE DEF parted
    <3>2. Saved(stored, parted, {for.id}, {for.id})
      BY <2>9, <3>1, StillSaved
    <3> QED
      BY <2>11, <3>1, <3>2, SavedOn, SavedIsNotLost
  <2>13. ASSUME stored.traces[t].logs # {} PROVE Inv(noted, {}, {}) /\ NoneLost(st, noted)
    <3>1. stored.traces[t].logs # {}
      BY <2>13
    <3>2. ItemsIn(stored.traces[t]) # {}
      BY <3>1 DEF ItemsIn
    <3>3. Inv(stored, {}, {})
      BY <2>9, <3>2, Filled
    <3>4. Inv(noted, {}, {}) /\ SameTables(stored, noted)
      BY <2>10, <3>3, NotedFits
    <3> HIDE DEF noted
    <3>5. Saved(stored, noted, {for.id}, {for.id})
      BY <3>4, SameSaved DEF SameTables
    <3> QED
      BY <2>11, <3>4, <3>5, SavedOn, SavedIsNotLost
  <2> QED
    BY <1>2, <1>6, <2>12, <2>13
<1> QED
  BY <1>5, <1>6

\* A deadline that was armed is taken off.
LEMMA PoppedFits ==
  ASSUME Inv(st, {}, {}), NEW x
  PROVE  LET popped == [Drained EXCEPT !.due = @ \ {x}]
         IN  Inv(popped, {}, {}) /\ SameTables(st, popped) /\ Live(popped) = Live(st)
<1> DEFINE d == Drained.due \ {x}
           popped == [Drained EXCEPT !.due = d]
<1>1. Inv(Drained, {}, {}) /\ SameTables(st, Drained) /\ Drained \in Stores /\ Live(Drained) = Live(st)
  BY DrainedFits DEF Inv
<1>2. d \in SUBSET (Traces \cup Ids)
  BY <1>1 DEF Stores
<1> HIDE DEF d
<1>3. popped \in Stores /\ SameTables(Drained, popped)
  BY <1>1, <1>2 DEF Stores, SameTables
<1>4. [Drained EXCEPT !.due = @ \ {x}] = popped
  BY DEF d
<1> HIDE DEF popped
<1>5. Inv(popped, {}, {})
  BY <1>1, <1>3, EventsAside
<1>6. SameTables(st, popped) /\ Live(popped) = Live(st)
  BY <1>1, <1>3 DEF SameTables, Live
<1> QED
  BY <1>4, <1>5, <1>6

\* A trace whose quiet time ends keeps the invariant.
LEMMA TraceDueStep ==
  ASSUME Inv(st, {}, {}), NEW t \in Traces, TraceDue(t)
  PROVE  Inv(st', {}, {}) /\ NoneLost(st, st')
<1> DEFINE popped == [Drained EXCEPT !.due = @ \ {t}]
           id == st.traces[t].session
           r == [popped EXCEPT !.traces[t].complete = TRUE]
<1>1. st' = IF ~Known(st, t) \/ st.traces[t].complete THEN popped ELSE Finished(r, id)
  BY DEF TraceDue
<1>2. Inv(popped, {}, {}) /\ SameTables(st, popped) /\ Live(popped) = Live(st)
  BY PoppedFits
<1> HIDE DEF popped
<1>3. Saved(st, popped, {}, {}) /\ NoneLost(st, popped)
  BY <1>2, SameSaved, SavedIsNotLost DEF SameTables
<1>4. CASE ~Known(st, t)
  BY <1>1, <1>2, <1>4, <1>3
<1>5. CASE Known(st, t)
  <2>1. id \in Live(popped) /\ popped.traces[t].session = id
    BY <1>2, <1>5, KnownFits DEF SameTables
  <2>2. ASSUME NEW b \in BOOLEAN
        PROVE  LET q == [popped EXCEPT !.traces[t].complete = b]
               IN  Inv(q, {}, {}) /\ Live(q) = Live(popped) /\ Still(popped, q)
    BY <1>2, <2>1, MarkFits
  <2>3. Inv(r, {}, {}) /\ Live(r) = Live(popped) /\ Still(popped, r)
    BY <2>2
  <2> HIDE DEF r
  <2> DEFINE q == Finished(r, id)
  <2>4. Inv(q, {}, {}) /\ Saved(r, q, {}, {id})
    BY <2>1, <2>3, FinishedFits
  <2> HIDE DEF q
  <2>5. Saved(popped, r, {}, {})
    BY <1>2, <2>3, StillSaved
  <2>6. NoneLost(st, q)
    BY <1>3, <2>4, <2>5, SavedOn, SavedIsNotLost
  <2> QED
    BY <1>1, <1>2, <1>3, <2>4, <2>6 DEF q
<1> QED
  BY <1>4, <1>5

\* A session whose idle time ends keeps the invariant.
LEMMA SessionDueStep ==
  ASSUME Inv(st, {}, {}), NEW id, SessionDue(id)
  PROVE  Inv(st', {}, {}) /\ NoneLost(st, st')
<1> DEFINE popped == [Drained EXCEPT !.due = @ \ {id}]
<1>1. st' = IF id \in Live(st) THEN Finished(popped, id) ELSE popped
  BY DEF SessionDue
<1>2. Inv(popped, {}, {}) /\ SameTables(st, popped) /\ Live(popped) = Live(st)
  BY PoppedFits
<1> HIDE DEF popped
<1>3. Saved(st, popped, {}, {}) /\ NoneLost(st, popped)
  BY <1>2, SameSaved, SavedIsNotLost DEF SameTables
<1> DEFINE q == Finished(popped, id)
<1>4. ASSUME id \in Live(st) PROVE Inv(q, {}, {}) /\ NoneLost(st, q)
  <2>1. Inv(q, {}, {}) /\ Saved(popped, q, {}, {id})
    BY <1>2, <1>4, FinishedFits
  <2> HIDE DEF q
  <2> QED
    BY <1>3, <2>1, SavedOn, SavedIsNotLost
<1> QED
  BY <1>1, <1>2, <1>3, <1>4

\* The oldest complete session can be removed.
LEMMA OldestGoes ==
  ASSUME Inv(st, {}, {}), st.finished # << >>
  PROVE  LET r == Removed(Drained, Head(st.finished), NoSession)
         IN  Inv(r, {}, {}) /\ Keeps(Drained, r, NoSession)
<1>1. Inv(Drained, {}, {}) /\ Drained.finished = st.finished /\ st.finished \in Seq(Ids)
  BY DrainedFits DEF SameTables, Inv, Stores
<1>2. NoSession \notin ToSet(st.finished)
  BY <1>1, Elements, NothingIsThere
<1>3. Evictable(Drained, NoSession) = st.finished
  <2>1. RemoveFirst(st.finished, NoSession) = st.finished
    BY <1>1, <1>2, RemovedFirst
  <2> QED
    BY <1>1, <2>1 DEF Evictable
<1>4. Evictable(Drained, NoSession) # << >>
  BY <1>3
<1>5. LET r == Removed(Drained, Head(Evictable(Drained, NoSession)), NoSession)
      IN  Inv(r, {}, {}) /\ Keeps(Drained, r, NoSession)
  BY <1>1, <1>4, EvictionFits
<1> QED
  BY <1>3, <1>5

\* Expiry keeps the invariant.
LEMMA ExpireStep ==
  ASSUME Inv(st, {}, {}), Expire
  PROVE  Inv(st', {}, {}) /\ NoneLost(st, st')
<1>1. /\ Inv(Drained, {}, {}) /\ Drained \in Stores /\ SameTables(st, Drained)
      /\ Saved(st, Drained, {}, {})
  BY DrainedFits DEF Inv
<1>2. CASE ExpireSession
  <2>1. Inv(st', {}, {}) /\ Keeps(Drained, st', NoSession)
    BY <1>2, OldestGoes DEF ExpireSession
  <2> QED
    BY <1>1, <2>1, KeptIsSaved, SavedOn, SavedIsNotLost
<1>3. CASE ExpireStaged
  <2>1. st.staged # << >> /\ st.staged \in Seq(Traces) /\ st' = Unstaged(Drained, Head(st.staged))
    BY <1>3 DEF ExpireStaged, Inv, Stores
  <2>2. Head(st.staged) \in Traces
    BY <2>1
  <2>3. Inv(st', {}, {}) /\ Dropped(Drained, st', Head(st.staged))
    BY <1>1, <2>1, <2>2, UnstagedFits
  <2>4. Saved(Drained, st', {}, {})
    BY <2>3, SameSaved DEF Dropped
  <2> QED
    BY <1>1, <2>3, <2>4, SavedOn, SavedIsNotLost
<1>4. ASSUME NEW t \in Traces, ExpirePending(t) PROVE Inv(st', {}, {}) /\ NoneLost(st, st')
  <2> DEFINE p == Drained.pending[t]
             q == Tail(p)
  <2>1. p # << >> /\ st' = [Drained EXCEPT !.pending[t] = q]
    BY <1>1, <1>4 DEF ExpirePending, SameTables
  <2>2. p \in Seq(Logs) /\ \A i \in 1..Len(p) : Attr[p[i]].trace = t
    BY <1>1 DEF Inv, Stores, LogsFit
  <2> HIDE DEF p
  <2>3. q \in Seq(Logs) /\ Len(q) = Len(p) - 1 /\ \A i \in 1..(Len(p) - 1) : q[i] = p[i + 1] /\ i + 1 \in 1..Len(p)
    BY <2>1, <2>2
  <2>4. \A i \in 1..Len(q) : Attr[q[i]].trace = t
    BY <2>2, <2>3
  <2> HIDE DEF q
  <2>5. Inv(st', {}, {}) /\ Aside(Drained, st')
    BY <1>1, <2>1, <2>3, <2>4, PendingFits
  <2>6. Saved(Drained, st', {}, {})
    BY <2>5, SameSaved DEF Aside
  <2> QED
    BY <1>1, <2>5, <2>6, SavedOn, SavedIsNotLost
<1> QED
  BY <1>2, <1>3, <1>4 DEF Expire

\* Loading a bundle, refused ones included, keeps the invariant.
LEMMA LoadStep ==
  ASSUME Inv(st, {}, {}), NEW b \in Bundles[st.at], LoadSession(b)
  PROVE  Inv(st', {}, {}) /\ NoneLost(st, st')
<1> DEFINE full == Cardinality(Live(st)) >= Limit(st).max_sessions
           evicted == IF full THEN Removed(Drained, Head(st.finished), NoSession) ELSE Drained
           id == FreshId(evicted, b.name)
           room == MadeRoom(evicted, Bytes(b), NoSession, NoSession)
           new == Loadable(room, b)
           sessions == [i \in DOMAIN room.sessions \cup {id} |->
                          IF i = id THEN LoadedSession(b, new) ELSE room.sessions[i]]
           traces == [t \in Traces |-> IF t \in new THEN LoadedRow(b, id, t) ELSE room.traces[t]]
           bytes == room.bytes + Size(LoadedItems(b, new))
           finished == Append(room.finished, id)
           events == Append(room.events, <<"started", id>>)
           r == [room EXCEPT !.sessions = sessions, !.traces = traces, !.bytes = bytes,
                             !.finished = finished, !.events = events]
<1>1. st' = IF full /\ st.finished = << >> THEN Drained
            ELSE IF ~Roomy(room, Bytes(b)) THEN room ELSE r
  BY DEF LoadSession, LoadedSession, LoadedRow, LoadedItems, Live
<1> HIDE DEF r
<1>2. /\ Inv(Drained, {}, {}) /\ Drained \in Stores /\ SameTables(st, Drained)
      /\ Saved(st, Drained, {}, {})
  BY DrainedFits DEF Inv
<1>3. CASE full /\ st.finished = << >>
  BY <1>1, <1>2, <1>3, SavedIsNotLost
<1>4. CASE ~(full /\ st.finished = << >>)
  <2>1. Inv(evicted, {}, {}) /\ Keeps(Drained, evicted, NoSession)
    BY <1>2, <1>4, OldestGoes, KeepsItself
  <2> HIDE DEF evicted
  <2>2. id \in Ids /\ id \notin Live(evicted)
    <3>1. IsFiniteSet(Live(evicted))
      BY <2>1 DEF Inv
    <3>2. b.name \in Traces \cup {Name[k] : k \in Keys} \cup {c.name : c \in UNION {Bundles[d] : d \in Deployments}}
      BY DEF Inv, Stores
    <3> QED
      BY <3>1, <3>2, FreshIdIsFree
  <2> HIDE DEF id
  <2>3. /\ Inv(room, {}, {}) /\ Keeps(evicted, room, NoSession) /\ Live(room) \subseteq Live(evicted)
    BY <2>1, MadeRoomFits
  <2> HIDE DEF room
  <2>4. room \in Stores /\ b \in Bundles[room.at] /\ id \notin Live(room)
    BY <1>2, <2>1, <2>2, <2>3 DEF Inv, Keeps, SameTables
  <2>5. Saved(st, room, {}, {}) /\ NoneLost(st, room)
    <3>1. Saved(Drained, evicted, {}, {}) /\ Saved(evicted, room, {}, {})
      BY <1>2, <2>1, <2>3, KeptIsSaved
    <3> QED
      BY <1>2, <3>1, SavedOn, SavedIsNotLost
  <2>6. ASSUME Roomy(room, Bytes(b)) PROVE Inv(r, {}, {}) /\ NoneLost(st, r)
    <3> HIDE DEF sessions, traces, bytes, finished, events, new
    <3>1. /\ r.at = room.at /\ r.staged = room.staged /\ r.held = room.held /\ r.pending = room.pending
          /\ r.heads = room.heads /\ r.due = room.due
          /\ r.sessions = sessions /\ r.traces = traces /\ r.bytes = bytes
          /\ r.finished = finished /\ r.events = events
          /\ r = [room EXCEPT !.sessions = r.sessions, !.traces = r.traces, !.bytes = r.bytes,
                              !.finished = r.finished, !.events = r.events]
      BY <2>4 DEF Stores, r
    <3>2. Loads(room, r, b, id, new)
      BY <3>1 DEF Loads, sessions, traces, bytes, finished, events
    <3>3. new = Loadable(room, b)
      BY DEF new
    <3>4. Inv(r, {}, {})
      BY <2>2, <2>3, <2>4, <2>6, <3>2, <3>3, LoadedFits
    <3>5. Still(room, r)
      <4>1. \A t \in new : ~Known(room, t)
        BY <3>3 DEF Loadable
      <4>2. \A t \in Traces : Known(room, t) => r.traces[t] = room.traces[t]
        BY <3>2, <4>1 DEF Loads
      <4>3. \A i \in Live(room) : r.sessions[i] = room.sessions[i]
        BY <2>4, <3>2 DEF Loads, Live
      <4> QED
        BY <4>2, <4>3 DEF Still
    <3>6. Saved(room, r, {}, {})
      BY <2>3, <3>4, <3>5, StillSaved
    <3> QED
      BY <2>5, <3>4, <3>6, SavedOn, SavedIsNotLost
  <2> QED
    BY <1>1, <1>4, <2>3, <2>6, <2>5
<1> QED
  BY <1>3, <1>4

\* An empty store satisfies the invariant.
LEMMA InitFits ==
  ASSUME Init
  PROVE  Inv(st, {}, {})
<1>1. PICK d \in Deployments :
        st = [at |-> d, sessions |-> << >>, traces |-> [t \in Traces |-> NoTrace], staged |-> << >>,
              held |-> [t \in Traces |-> Nothing], pending |-> [t \in Traces |-> << >>],
              heads |-> [k \in Keys |-> NoSession], due |-> {}, finished |-> << >>, bytes |-> 0,
              events |-> << >>]
  BY DEF Init
<1>2. /\ st.at = d /\ st.sessions = << >> /\ st.traces = [t \in Traces |-> NoTrace] /\ st.staged = << >>
      /\ st.held = [t \in Traces |-> Nothing] /\ st.pending = [t \in Traces |-> << >>]
      /\ st.heads = [k \in Keys |-> NoSession] /\ st.due = {} /\ st.finished = << >> /\ st.bytes = 0
      /\ st.events = << >>
  BY <1>1
<1>3. st.sessions \in Tables /\ DOMAIN st.sessions = {}
  <2>1. << >> \in [{} -> SessionRows] /\ {} \in SUBSET Ids /\ DOMAIN << >> = {}
    OBVIOUS
  <2> QED
    BY <1>2, <2>1 DEF Tables
<1>4. st \in Stores
  <2>1. /\ st.traces \in [Traces -> TraceRows] /\ st.held \in [Traces -> Contents]
        /\ st.pending \in [Traces -> Seq(Logs)] /\ st.heads \in [Keys -> Ids \cup {NoSession}]
        /\ st.staged \in Seq(Traces) /\ st.due \in SUBSET (Traces \cup Ids) /\ st.finished \in Seq(Ids)
        /\ st.bytes \in Int /\ st.events \in Seq(Events)
    BY <1>2, NothingIsThere
  <2> QED
    BY <1>1, <1>2, <1>3, <2>1 DEF Stores
<1>5. /\ \A t \in Traces : st.traces[t] = NoTrace /\ st.held[t] = Nothing /\ st.pending[t] = << >>
      /\ \A t \in Traces : st.traces[t].session = NoSession
  BY <1>2, NothingIsThere
<1>6. Sorted(st.traces) /\ Sorted(st.held) /\ LogsFit(st.pending)
  BY <1>5, NothingIsThere DEF Sorted, LogsFit
<1>7. BytesFit(st.at, st.traces, st.held, st.bytes)
  <2>1. ItemsAmong(st.traces, Traces) = {} /\ ItemsAmong(st.held, Traces) = {}
    BY <1>5, NothingIsThere DEF ItemsAmong
  <2>2. 0 <= Limits[d].max_bytes
    <3>1. Limits[d].max_bytes \in Nat
      BY StoreAssumption
    <3> QED
      BY <3>1
  <2>3. Size(ItemsAmong(st.traces, Traces)) = 0 /\ Size(ItemsAmong(st.held, Traces)) = 0
    BY <2>1, SizeNone
  <2>4. 0 = Size(ItemsAmong(st.traces, Traces)) + Size(ItemsAmong(st.held, Traces))
    BY <2>3
  <2> QED
    BY <1>2, <2>2, <2>4 DEF BytesFit
<1>8. IsInjective(st.staged) /\ IsInjective(st.finished) /\ ToSet(st.finished) = {}
  BY <1>2 DEF IsInjective, ToSet
<1>9. StagedFit(st.at, st.traces, st.staged, st.held)
  BY <1>5, <1>8 DEF StagedFit
<1>10. MembersFit(st.sessions, st.traces)
  BY <1>3, <1>5 DEF MembersFit
<1>11. FinishedFit(st.sessions, st.finished) /\ HeadsFit(st.sessions, st.heads)
  BY <1>2, <1>3, <1>8 DEF FinishedFit, HeadsFit
<1>12. FullFit(st.sessions, st.traces, {}, {})
  BY <1>3, <1>5 DEF FullFit
<1>13. IsFiniteSet(Live(st))
  BY <1>3, FS_EmptySet DEF Live
<1> QED
  BY <1>4, <1>6, <1>7, <1>9, <1>10, <1>11, <1>12, <1>13 DEF Inv

-----------------------------------------------------------------------------
(* The theorems.                                                           *)

\* The invariant of the store between two methods.
StoreInv == Inv(st, {}, {})

\* Every method of the store keeps the invariant, and loses nothing of a session that is
\* not finished.
LEMMA EveryStep ==
  ASSUME Inv(st, {}, {}), Next
  PROVE  Inv(st', {}, {}) /\ NoneLost(st, st')
<1>1. ASSUME NEW unit \in SpanUnits[st.at], StayInSession(unit) \/ Stage(unit)
      PROVE  Inv(st', {}, {}) /\ NoneLost(st, st')
  BY <1>1, StayStep, StageStep
<1>2. ASSUME NEW unit \in SpanUnits[st.at], NEW passed \in BOOLEAN,
             Promote(unit, passed) \/ MoveToOwner(unit, passed) \/ JoinSession(unit, passed)
      PROVE  Inv(st', {}, {}) /\ NoneLost(st, st')
  BY <1>2, PromoteStep, MoveStep, JoinStep
<1>3. ASSUME NEW unit \in LogUnits[st.at], LogToSession(unit) \/ LogToStaged(unit) \/ LogToPending(unit)
      PROVE  Inv(st', {}, {}) /\ NoneLost(st, st')
  BY <1>3, LogToSessionStep, LogToStagedStep, LogToPendingStep
<1>4. ASSUME NEW unit \in LogUnits[st.at], NEW passed \in BOOLEAN, LogJoinsSession(unit, passed)
      PROVE  Inv(st', {}, {}) /\ NoneLost(st, st')
  BY <1>4, LogJoinsStep
<1>5. CASE Ingest
  BY <1>1, <1>2, <1>3, <1>4, <1>5 DEF Ingest
<1>6. CASE Tick
  BY <1>6, TraceDueStep DEF Tick
<1>7. CASE TickSession
  BY <1>7, SessionDueStep DEF TickSession
<1>8. CASE Expire
  BY <1>8, ExpireStep
<1>9. CASE \E b \in Bundles[st.at] : LoadSession(b)
  BY <1>9, LoadStep
<1> QED
  BY <1>5, <1>6, <1>7, <1>8, <1>9 DEF Next

\* The invariant, with no exemptions, holds between any two methods of the store.
LEMMA StoreInvariant == Spec => []StoreInv
<1>1. Init => StoreInv
  BY InitFits DEF StoreInv
<1>2. StoreInv /\ [Next]_st => StoreInv'
  <2>1. ASSUME StoreInv, Next PROVE Inv(st', {}, {})
    BY <2>1, EveryStep DEF StoreInv
  <2>2. ASSUME StoreInv, UNCHANGED st PROVE Inv(st', {}, {})
    BY <2>2 DEF StoreInv
  <2> QED
    BY <2>1, <2>2 DEF StoreInv
<1> QED
  BY <1>1, <1>2, PTL DEF Spec

\* Whatever is sent, loaded or left to expire, the tables of the store hold what
\* they may: sessions have ids that their names explain, counters are naturals, the
\* bytes are never negative.
THEOREM StoreIsTyped == Spec => []TypeOK
<1>1. StoreInv => TypeOK
  <2> SUFFICES ASSUME StoreInv PROVE TypeOK
    OBVIOUS
  <2>1. st \in Stores /\ Sorted(st.traces) /\ Sorted(st.held) /\ MembersFit(st.sessions, st.traces)
        /\ BytesFit(st.at, st.traces, st.held, st.bytes)
    BY DEF StoreInv, Inv
  <2>2. Live(st) \subseteq Ids /\ \A id \in Live(st) : st.sessions[id] \in SessionRows
    BY <2>1 DEF Stores, Tables, Live
  <2>3. \A id \in Live(st) : st.sessions[id] \in Session
    <3> SUFFICES ASSUME NEW id \in Live(st) PROVE st.sessions[id] \in Session
      OBVIOUS
    <3> DEFINE row == st.sessions[id]
    <3>1. row \in SessionRows /\ Counted(row, st.traces)
      BY <2>1, <2>2 DEF MembersFit, Live
    <3> HIDE DEF row
    <3>2. row.spans \in Nat /\ row.logs \in Nat
      <4>2. SpansAmong(st.traces, row.traces) \in SUBSET Spans /\ LogsAmong(st.traces, row.traces) \in SUBSET Logs
        BY <2>1, <3>1, AmongIsSorted DEF SessionRows
      <4>3. IsFiniteSet(Spans) /\ IsFiniteSet(Logs)
        BY StoreAssumption
      <4>4. IsFiniteSet(SpansAmong(st.traces, row.traces)) /\ IsFiniteSet(LogsAmong(st.traces, row.traces))
        BY <4>2, <4>3, FS_Subset
      <4> QED
        BY <3>1, <4>4, FS_CardinalityType DEF Counted
    <3>3. row \in Session
      BY <3>1, <3>2 DEF SessionRows, Session, Items
    <3> QED
      BY <3>3 DEF row
  <2>4. st.bytes \in Nat
    <3>1. ItemsAmong(st.traces, Traces) \in SUBSET Items /\ ItemsAmong(st.held, Traces) \in SUBSET Items
      BY <2>1, AmongIsSorted
    <3>2. Size(ItemsAmong(st.traces, Traces)) \in Nat /\ Size(ItemsAmong(st.held, Traces)) \in Nat
      BY <3>1, SizeType
    <3> QED
      BY <2>1, <3>2 DEF BytesFit
  <2>5. /\ st.traces \in [Traces -> Trace] /\ st.staged \in Seq(Traces)
        /\ st.held \in [Traces -> [spans: SUBSET Spans, logs: SUBSET Logs]]
        /\ st.pending \in [Traces -> Seq(Logs)] /\ st.heads \in [Keys -> Ids \cup {NoSession}]
        /\ st.due \subseteq Traces \cup Ids /\ st.finished \in Seq(Ids)
    BY <2>1 DEF Stores, TraceRows, Trace, Contents
  <2> QED
    BY <2>2, <2>3, <2>4, <2>5 DEF TypeOK
<1> QED
  BY <1>1, StoreInvariant, PTL

\* The bytes the store counts, in eleven statements spread over it, are at all times
\* those of what sessions and staged traces hold, and within the budget.
THEOREM BytesAreCounted == Spec => []BytesAreOwned
<1>1. StoreInv => BytesAreOwned
  <2> SUFFICES ASSUME StoreInv PROVE BytesAreOwned
    OBVIOUS
  <2>1. /\ st \in Stores /\ StagedFit(st.at, st.traces, st.staged, st.held)
        /\ BytesFit(st.at, st.traces, st.held, st.bytes)
    BY DEF StoreInv, Inv
  <2>2. ItemsOf(st, Traces) = ItemsAmong(st.traces, Traces)
    BY DEF ItemsOf, ItemsAmong
  <2>3. ItemsHeld(st, ToSet(st.staged)) = ItemsAmong(st.held, Traces)
    <3>1. \A t \in ToSet(st.staged) : t \in Traces
      BY <2>1, Elements DEF Stores
    <3>2. \A t \in Traces : t \notin ToSet(st.staged) => ItemsIn(st.held[t]) = {}
      BY <2>1, NothingIsThere DEF StagedFit
    <3> QED
      BY <3>1, <3>2 DEF ItemsHeld, ItemsAmong
  <2> QED
    BY <2>1, <2>2, <2>3 DEF BytesAreOwned, BytesFit, Limit
<1> QED
  BY <1>1, StoreInvariant, PTL

\* Sessions, traces, keys and the eviction queue agree about who belongs to whom
\* after every method of the store, whichever helpers it went through and whatever
\* they evicted, moved, merged or refused on the way.
THEOREM TablesAgree == Spec => []MembersAgree
<1>1. StoreInv => MembersAgree
  <2> SUFFICES ASSUME StoreInv PROVE MembersAgree
    OBVIOUS
  <2>1. /\ st \in Stores /\ StagedFit(st.at, st.traces, st.staged, st.held)
        /\ Sorted(st.traces) /\ Sorted(st.held) /\ MembersFit(st.sessions, st.traces)
        /\ FinishedFit(st.sessions, st.finished) /\ HeadsFit(st.sessions, st.heads)
        /\ FullFit(st.sessions, st.traces, {}, {})
    BY DEF StoreInv, Inv
  <2>2. HeadsAreLive
    BY <2>1 DEF HeadsAreLive, HeadsFit, Live
  <2>3. NoEmptySession
    BY <2>1 DEF NoEmptySession, FullFit, Live, Known
  <2>4. \A id \in Live(st) :
          /\ st.sessions[id].traces = {t \in Traces : st.traces[t].session = id}
          /\ st.sessions[id].spans = Cardinality(UNION {st.traces[t].spans : t \in st.sessions[id].traces})
          /\ st.sessions[id].logs = Cardinality(UNION {st.traces[t].logs : t \in st.sessions[id].traces})
    BY <2>1 DEF MembersFit, Counted, SpansAmong, LogsAmong, Live
  <2>5. \A t \in Traces :
          /\ \A x \in ItemsIn(st.traces[t]) \cup ItemsIn(st.held[t]) : Attr[x].trace = t
          /\ Known(st, t) => st.traces[t].session \in Live(st)
          /\ Known(st, t) /\ IsStaged(st, t) => IsBundled(st, t)
    BY <2>1 DEF Sorted, MembersFit, Live, Known, IsStaged, IsBundled, StagedFit
  <2>6. /\ IsInjective(st.staged) /\ IsInjective(st.finished)
        /\ ToSet(st.finished) = {id \in Live(st) : st.sessions[id].complete}
    BY <2>1 DEF StagedFit, FinishedFit, Live
  <2>7. MembershipAgrees
    BY <2>4, <2>5, <2>6 DEF MembershipAgrees
  <2> QED
    BY <2>2, <2>3, <2>7 DEF MembersAgree
<1> QED
  BY <1>1, StoreInvariant, PTL

\* Whatever arrives, moves between sessions, is merged, evicted or expires: a session
\* that is not finished never loses a span or a log.
THEOREM OpenSessionsLoseNothing == Spec => NothingLiveIsDropped
<1> DEFINE Kept == \A t \in Traces :
                     Known(st, t) /\ ~st.sessions[st.traces[t].session].complete =>
                       /\ st.traces[t].spans \subseteq st'.traces[t].spans
                       /\ st.traces[t].logs \subseteq st'.traces[t].logs
<1>1. StoreInv /\ [Next]_st => [Kept]_st
  <2>1. ASSUME StoreInv, Next PROVE NoneLost(st, st')
    BY <2>1, EveryStep DEF StoreInv
  <2>2. ASSUME NoneLost(st, st') PROVE Kept
    BY <2>2 DEF NoneLost
  <2> QED
    BY <2>1, <2>2
<1>2. [][Kept]_st => NothingLiveIsDropped
  BY DEF NothingLiveIsDropped
<1> HIDE DEF Kept
<1> QED
  BY <1>1, <1>2, StoreInvariant, PTL DEF Spec

=============================================================================
