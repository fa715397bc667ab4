------------------------------ MODULE SdkExport ------------------------------
(***************************************************************************)
(* The SDK in an instrumented application (sdk.py, otel/sdk_export.py):    *)
(* sessions are entered and left in the application's threads and tasks,   *)
(* spans start and end there, and the processors on the tracer provider    *)
(* send each span of a session to the receiver under that session's name.  *)
(*                                                                         *)
(* A context is a thread or a task with its own value of the contextvar.   *)
(* The provider is one; a session may name another endpoint than the one   *)
(* before it.  The traces the registry remembers are a list, oldest first. *)
(***************************************************************************)
EXTENDS Integers, FiniteSets, Sequences, SequencesExt

CONSTANTS
  Sessions,         \* numbered in the order they are opened
  Contexts,         \* numbered, as are endpoints and traces: they differ in
  Endpoints,        \* nothing else, so the first that is used is 1, and so on
  TraceIds,
  SpanIds,          \* numbered in the order they start
  TraceMapSize,     \* TRACE_MAP_SIZE
  NoSession

ASSUME SdkExportAssumption ==
  /\ Sessions \subseteq Nat /\ SpanIds \subseteq Nat /\ TraceIds \subseteq Nat
  /\ Contexts \subseteq Nat \ {0} /\ Endpoints \subseteq Nat
  /\ TraceMapSize \in Nat \ {0}
  /\ NoSession \notin Sessions

VARIABLES
  sdk,         \* each session: its state, endpoint and the token of enter
  current,     \* the contextvar in each context
  known,       \* _traces: the sequence of [trace, session]
  processors,  \* endpoints of the span processors on the provider, in order
  export,      \* index of the processor _exports holds, 0: none
  span,        \* each span: its state, its trace, the session at its start,
               \* and whether that still was the trace's session ever since
  batch,       \* spans each processor holds, with their session
  posted       \* what each endpoint has got

xvars == <<sdk, current, known, processors, export, span, batch, posted>>

Owners == Sessions \union {NoSession}
Opened == {s \in Sessions : sdk[s].at = "open"}

\* The first of some numbered things.
Least(set) == CHOOSE x \in set : \A y \in set : x <= y

SdkExportInit ==
  /\ sdk \in [Sessions -> [at : {"new"}, endpoint : Endpoints, index : {0},
                           context : {0}, before : {NoSession}]]
  /\ sdk[Least(Sessions)].endpoint = Least(Endpoints)
  /\ current = [c \in Contexts |-> NoSession]
  /\ known = <<>>
  /\ processors = <<>> /\ export = 0
  /\ span = [k \in SpanIds |-> [at |-> "new", trace |-> Least(TraceIds),
                                owner |-> NoSession, kept |-> TRUE, left |-> FALSE]]
  /\ batch = <<>>
  /\ posted = [e \in Endpoints |-> {}]

-----------------------------------------------------------------------------
(* session(): _open, enter, leave, flush.                                  *)

IsNext(s) == sdk[s].at = "new" /\ \A r \in Sessions : r < s => sdk[r].at # "new"
Untouched == {c \in Contexts : current[c] = NoSession /\ \A s \in Sessions : sdk[s].context # c}
Installed(s) == export # 0 /\ processors[export] = sdk[s].endpoint

\* install: the provider keeps its processor while the endpoint stays the
\* same, and gets one more when it changes.
OpenSession(s, c) ==
  /\ IsNext(s) /\ (c \in Untouched => c = Least(Untouched))
  /\ IF Installed(s)
       THEN UNCHANGED <<processors, export, batch>>
       ELSE /\ processors' = Append(processors, sdk[s].endpoint)
            /\ export' = Len(processors')
            /\ batch' = Append(batch, {})
  /\ sdk' = [sdk EXCEPT ![s] = [@ EXCEPT !.at = "open", !.context = c,
                                         !.before = current[c], !.index = export']]
  /\ current' = [current EXCEPT ![c] = s]
  /\ UNCHANGED <<known, span, posted>>

\* preflight: without an answer from the receiver the session is not entered.
PreflightFails(s) ==
  /\ IsNext(s)
  /\ sdk' = [sdk EXCEPT ![s].at = "over"]
  /\ UNCHANGED <<current, known, processors, export, span, batch, posted>>

\* A token is good in the context that made it; elsewhere (a generator that
\* another task finalizes) the contextvar is set to None.
LeaveSession(s, c) ==
  /\ sdk[s].at = "open"
  /\ current' = [current EXCEPT ![c] =
       IF c = sdk[s].context THEN sdk[s].before ELSE NoSession]
  /\ sdk' = [sdk EXCEPT ![s].at = "flush"]
  /\ span' = [k \in SpanIds |->
       [span[k] EXCEPT !.left = @ \/ (span[k].at = "ended" /\ span[k].owner = s)]]
  /\ UNCHANGED <<known, processors, export, batch, posted>>

Post(i) ==
  /\ posted' = [posted EXCEPT ![processors[i]] = @ \union batch[i]]
  /\ batch' = [batch EXCEPT ![i] = {}]

\* Mutant: the processor installed last is flushed.
FlushNewest(s) ==
  /\ sdk[s].at = "flush"
  /\ Post(export)
  /\ sdk' = [sdk EXCEPT ![s].at = "over"]
  /\ UNCHANGED <<current, known, processors, export, span>>

FlushSession(s) ==
  /\ sdk[s].at = "flush"
  /\ Post(sdk[s].index)
  /\ sdk' = [sdk EXCEPT ![s].at = "over"]
  /\ UNCHANGED <<current, known, processors, export, span>>

\* A new task takes a copy of the contextvar.
SpawnTask(c, d) ==
  /\ c # d /\ current[c] # NoSession /\ current[d] = NoSession
  /\ current' = [current EXCEPT ![d] = current[c]]
  /\ UNCHANGED <<sdk, known, processors, export, span, batch, posted>>

-----------------------------------------------------------------------------
(* SessionSpanProcessor.                                                   *)

\* Where a map has trace t: once or not at all.
PlaceOf(map, t) == CHOOSE n \in DOMAIN map : map[n].trace = t
Maps(map, t) == \E n \in DOMAIN map : map[n].trace = t
SessionIn(map, t) == IF Maps(map, t) THEN map[PlaceOf(map, t)].session ELSE NoSession
OfTrace(t) == SessionIn(known, t)

\* _Registry.resolve: the contextvar's session, else the trace's, else the
\* only active one.
Resolve(c, t) ==
  CASE current[c] # NoSession       -> current[c]
    [] OfTrace(t) # NoSession       -> OfTrace(t)
    [] Cardinality(Opened) = 1      -> CHOOSE s \in Opened : TRUE
    [] OTHER                        -> NoSession

\* The trace moves to the end of the list.
MovedToEnd(t, s) ==
  Append(IF Maps(known, t) THEN RemoveAt(known, PlaceOf(known, t)) ELSE known,
         [trace |-> t, session |-> s])

\* Mutant: the list of traces is never trimmed.
RememberAll(t, s) == IF s = NoSession THEN known ELSE MovedToEnd(t, s)

Remember(t, s) ==
  LET kept == MovedToEnd(t, s)
  IN  IF s = NoSession THEN known
      ELSE IF Len(kept) > TraceMapSize THEN Tail(kept) ELSE kept

\* Do open spans still have the session they started with?
Tracked(spans, map) ==
  [k \in SpanIds |-> [spans[k] EXCEPT !.kept =
     @ /\ (spans[k].at = "open" => SessionIn(map, spans[k].trace) = spans[k].owner)]]

\* on_start, once the provider has the processors.
StartSpan(k, c, t) ==
  /\ span[k].at = "new" /\ \A j \in SpanIds : j < k => span[j].at # "new"
  /\ \A u \in TraceIds : u < t => \E j \in SpanIds : j < k /\ span[j].trace = u
  /\ LET owner == IF processors = <<>> THEN NoSession ELSE Resolve(c, t)
     IN  /\ known' = Remember(t, owner)
         /\ span' = Tracked([span EXCEPT ![k] = [@ EXCEPT !.at = "open", !.trace = t,
                                                          !.owner = owner]], known')
  /\ UNCHANGED <<sdk, current, processors, export, batch, posted>>

\* on_end: every processor of the provider gets the copy.
EndSpan(k) ==
  /\ span[k].at = "open"
  /\ LET session == OfTrace(span[k].trace)
     IN  batch' = [i \in DOMAIN batch |->
           batch[i] \union IF session = NoSession THEN {} ELSE {[span |-> k, session |-> session]}]
  /\ span' = [span EXCEPT ![k].at = "ended"]
  /\ UNCHANGED <<sdk, current, known, processors, export, posted>>

\* The batch processor's own thread.
PostBatch(i) ==
  /\ batch[i] # {}
  /\ Post(i)
  /\ UNCHANGED <<sdk, current, known, processors, export, span>>

SdkExportNext ==
  \/ \E s \in Sessions, c \in Contexts : OpenSession(s, c) \/ LeaveSession(s, c)
  \/ \E s \in Sessions : PreflightFails(s) \/ FlushSession(s)
  \/ \E c, d \in Contexts : SpawnTask(c, d)
  \/ \E k \in SpanIds, c \in Contexts, t \in TraceIds : StartSpan(k, c, t)
  \/ \E k \in SpanIds : EndSpan(k)
  \/ \E i \in DOMAIN batch : PostBatch(i)

SdkExportSpec == SdkExportInit /\ [][SdkExportNext]_xvars

(***************************************************************************)
(* Properties.                                                             *)
(***************************************************************************)

SdkExportTypeOK ==
  /\ \A s \in Sessions : sdk[s].at \in {"new", "open", "flush", "over"}
  /\ \A c \in Contexts : current[c] \in Owners
  /\ Len(known) <= TraceMapSize
  /\ Len(batch) = Len(processors) /\ export \in 0 .. Len(processors)

\* A span that started in a session, whose trace the registry went on giving
\* to that session until the span ended, is with the session's endpoint, under
\* the session's name, by the time the session's block is over: the session
\* may be left in another context or nested in another one, other sessions may
\* have put other processors on the provider, and the last spans may have
\* ended just before it was left (sdk.py session(), sdk_export.py:187-268).
SessionsAreComplete ==
  \A k \in SpanIds :
    LET s == span[k].owner
    IN  (s # NoSession /\ span[k].left /\ span[k].kept /\ sdk[s].at = "over") =>
          [span |-> k, session |-> s] \in posted[sdk[s].endpoint]
=============================================================================
