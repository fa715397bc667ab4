---------------------------- MODULE SessionRoutes ----------------------------
(***************************************************************************)
(* The routes that work on live sessions (api/streaming_routes.py,         *)
(* api/debug_routes.py): the evaluation of all complete sessions against a *)
(* golden one, files prepared for download, and debug bundles.             *)
(*                                                                         *)
(* A handler is one step from one await to the next.  In between sessions  *)
(* come, go on, complete, are evicted, and their ids are used again; of    *)
(* the store's rules for that (TelemetryStore) this module keeps those on  *)
(* ids, on the number of sessions and on who owns a trace.                 *)
(*                                                                         *)
(* An id is a sequence: <<"s">>, and <<"s", 2>> for "s-2".                 *)
(***************************************************************************)
EXTENDS Integers, FiniteSets, SequencesExt

CONSTANTS
  Bases,        \* ids that telemetry gives its sessions
  LiveTraces,   \* trace ids
  MaxLive,      \* max_sessions
  MaxContent,   \* bound: what a session says grows that often
  MaxBorn,      \* bound: sessions that are created by telemetry
  EvalSlots,    \* sessions evaluated at a time
  MaxBundle,    \* MAX_BUNDLE_SESSIONS
  MaxPrepares   \* bound: requests that write files

ASSUME SessionRoutesAssumption ==
  /\ MaxLive \in Nat \ {0} /\ EvalSlots \in Nat \ {0} /\ MaxBundle \in Nat
  /\ MaxContent \in Nat /\ MaxBorn \in Nat /\ MaxPrepares \in Nat
  /\ Bases \subseteq Seq(STRING \union Nat)

VARIABLES
  caller,    \* which of the routes the one client of a behaviour uses
  live,      \* store.sessions in order: [id, traces, content, complete, serial]
  ended,     \* ids of the complete ones, oldest first
  born,      \* sessions created so far
  request,   \* POST /evaluate-sessions: where it is, what it picked and found
  history,   \* the run that request stores
  files,     \* EXPORT_DIR: what the trace file of each id holds
  promised,  \* what it held when its URL was last given to a client
  prepares,
  bundle,    \* a debug bundle, in a user's hands
  load       \* the answer to a load of it that was the last step, with the sessions
             \* there were before

hvars == <<caller, live, ended, born, request, history, files, promised, prepares, bundle, load>>
store == <<live, ended, born>>

IdsOf(sessions) == {sessions[n].id : n \in DOMAIN sessions}
AtWork(sessions) == {sessions[n].id : n \in {m \in DOMAIN sessions : ~sessions[m].complete}}
OwnedBy(sessions) == UNION {sessions[n].traces : n \in DOMAIN sessions}
Spot(sessions, id) == CHOOSE n \in DOMAIN sessions : sessions[n].id = id
Named(id) == Spot(live, id)

\* snapshot: by id, whoever has it now; nothing when nobody has.
Nothing == [serial |-> 0, content |-> 0]
ReadBy(id) ==
  IF id \in IdsOf(live) /\ live[Named(id)].traces # {}
    THEN [serial |-> live[Named(id)].serial, content |-> live[Named(id)].content]
    ELSE Nothing

NoRequest == [at |-> "idle", golden |-> Nothing, picked |-> <<>>, found |-> <<>>, score |-> <<>>]
NoHistory == [status |-> "none", stored |-> {}, errors |-> {}]
NoLoad == [status |-> 0, ids |-> <<>>, before |-> <<>>]

SessionRoutesInit ==
  /\ caller \in {"evaluates", "downloads", "reports"}
  /\ live = <<>> /\ ended = <<>> /\ born = 0
  /\ request = NoRequest /\ history = NoHistory
  /\ files = <<>> /\ promised = <<>> /\ prepares = 0
  /\ bundle = <<>> /\ load = NoLoad

-----------------------------------------------------------------------------
(* The store.                                                              *)

Without(sessions, id) ==
  IF id \in IdsOf(sessions) THEN RemoveAt(sessions, Spot(sessions, id)) ELSE sessions
Reopened(over, id) ==
  IF id \in Range(over) THEN RemoveAt(over, CHOOSE n \in DOMAIN over : over[n] = id) ELSE over
HasRoom(sessions, over) == Len(sessions) < MaxLive \/ over # <<>>
Evicted(sessions, over) == IF Len(sessions) < MaxLive THEN sessions ELSE Without(sessions, Head(over))
Remaining(sessions, over) == IF Len(sessions) < MaxLive THEN over ELSE Tail(over)

UniqueId(base, taken) ==
  IF base \notin taken THEN base
  ELSE Append(base, CHOOSE n \in 2 .. Cardinality(taken) + 1 :
                      /\ Append(base, n) \notin taken
                      /\ \A m \in 2 .. n - 1 : Append(base, m) \in taken)

Session(id, traces, content, complete, serial) ==
  [id |-> id, traces |-> traces, content |-> content, complete |-> complete, serial |-> serial]

BeginSession(base, t) ==
  /\ born < MaxBorn /\ t \notin OwnedBy(live) /\ HasRoom(live, ended)
  /\ LET rest == Evicted(live, ended)
     IN  live' = Append(rest, Session(UniqueId(base, IdsOf(rest)), {t}, 0, FALSE, born + 1))
  /\ ended' = Remaining(live, ended) /\ born' = born + 1
  /\ UNCHANGED <<request, history, files, promised, prepares, bundle>>
  /\ load' = NoLoad

\* Late spans reopen a session that was complete.
SessionGrows(n) ==
  /\ live[n].content < MaxContent /\ live[n].traces # {}
  /\ live' = [live EXCEPT ![n].content = @ + 1, ![n].complete = FALSE]
  /\ ended' = Reopened(ended, live[n].id)
  /\ UNCHANGED <<born, request, history, files, promised, prepares, bundle>>
  /\ load' = NoLoad

SessionCompletes(n) ==
  /\ ~live[n].complete
  /\ live' = [live EXCEPT ![n].complete = TRUE]
  /\ ended' = Append(ended, live[n].id)
  /\ UNCHANGED <<born, request, history, files, promised, prepares, bundle>>
  /\ load' = NoLoad

\* Its time to live is over.
SessionExpires ==
  /\ ended # <<>>
  /\ live' = Without(live, Head(ended)) /\ ended' = Tail(ended)
  /\ UNCHANGED <<born, request, history, files, promised, prepares, bundle>>
  /\ load' = NoLoad

-----------------------------------------------------------------------------
(* POST /evaluate-sessions.                                                *)

\* _do_create_eval_set: a session without spans, or without turns in them,
\* makes no eval set.
MakesEvalSet(id) == id \in IdsOf(live) /\ ReadBy(id).content > 0

\* The eval set and the choice of sessions are one step, without an await.
EvaluateSessions(golden) ==
  /\ request.at = "idle" /\ MakesEvalSet(golden)
  /\ LET picked == [n \in {m \in DOMAIN live : live[m].complete} |-> live[n]]
     IN  request' = [at |-> "evaluating", golden |-> ReadBy(golden), picked |-> picked,
                     found |-> [n \in DOMAIN picked |-> Nothing],
                     score |-> [n \in DOMAIN picked |-> "waiting"]]
  /\ history' = NoHistory
  /\ UNCHANGED <<store, files, promised, prepares, bundle>>
  /\ load' = NoLoad

HasState(state) == {n \in DOMAIN request.score : request.score[n] = state}

\* eval_one_session got the semaphore, in the order of the sessions: the traces
\* are those of whoever has the id by now.
ReadSession(n) ==
  /\ request.at = "evaluating" /\ request.score[n] = "waiting"
  /\ \A m \in HasState("waiting") : n <= m
  /\ Cardinality(HasState("reading")) < EvalSlots
  /\ request' = [request EXCEPT !.found[n] = ReadBy(request.picked[n].id),
                                !.score[n] = "reading"]
  /\ UNCHANGED <<store, history, files, promised, prepares, bundle>>
  /\ load' = NoLoad

\* Without traces there is no trace result, and anything that is raised is the
\* session's error.
SessionEvaluated(n) ==
  /\ request.at = "evaluating" /\ request.score[n] = "reading"
  /\ \E score \in IF request.found[n] = Nothing THEN {"failed"} ELSE {"scored", "failed"} :
       request' = [request EXCEPT !.score[n] = score]
  /\ UNCHANGED <<store, history, files, promised, prepares, bundle>>
  /\ load' = NoLoad

Answered == request' = [request EXCEPT !.at = "answered"]

\* _persist_sessions_run with record_eval_run: one row for all sessions, when
\* there is a run service and something to store; whatever fails on the way
\* ends it there and the answer is given all the same.
StoreEvaluation ==
  /\ \/ /\ request.at = "evaluating" /\ HasState("waiting") \union HasState("reading") = {}
        /\ \/ Answered /\ UNCHANGED history
           \/ /\ HasState("scored") # {}
              /\ history' = [NoHistory EXCEPT !.status = "queued"]
              /\ request' = [request EXCEPT !.at = "created"]
     \/ /\ request.at = "created"
        /\ \/ Answered /\ UNCHANGED history
           \/ /\ history' = [history EXCEPT !.stored = HasState("scored")]
              /\ request' = [request EXCEPT !.at = "stored"]
     \/ /\ request.at = "stored"
        /\ \/ UNCHANGED history
           \/ history' = [history EXCEPT
                !.status = IF HasState("failed") = {} THEN "succeeded" ELSE "failed",
                !.errors = HasState("failed")]
        /\ Answered
  /\ UNCHANGED <<store, files, promised, prepares, bundle>>
  /\ load' = NoLoad

-----------------------------------------------------------------------------
(* POST /prepare-evaluation and GET /download.                             *)

\* The files of the complete ones of the sessions asked for are written, under
\* names made from their ids, before the URLs are given out.
PrepareEvaluation(golden, ids) ==
  /\ prepares < MaxPrepares /\ MakesEvalSet(golden)
  /\ LET written == {id \in ids \intersect IdsOf(live) : live[Named(id)].complete}
         merged(old) == [id \in written \union DOMAIN old |->
                           IF id \in written THEN ReadBy(id) ELSE old[id]]
     IN  files' = merged(files) /\ promised' = merged(promised)
  /\ prepares' = prepares + 1
  /\ UNCHANGED <<store, request, history, bundle>>
  /\ load' = NoLoad

-----------------------------------------------------------------------------
(* POST /bundle and POST /load.                                            *)

CreateBundle ==
  /\ live # <<>>
  /\ bundle' = live
  /\ load' = NoLoad
  /\ UNCHANGED <<store, request, history, files, promised, prepares>>

\* load_session for one directory: room is made first, then the id is chosen; a
\* trace that the store has stays where it is.
Loading(state, s) ==
  IF ~state.ok \/ ~HasRoom(state.live, state.ended) THEN [state EXCEPT !.ok = FALSE]
  ELSE LET rest == Evicted(state.live, state.ended)
           id == UniqueId(s.id, IdsOf(rest))
           new == Session(id, s.traces \ OwnedBy(rest), s.content, TRUE, state.born + 1)
       IN  [live |-> Append(rest, new), ended |-> Append(Remaining(state.live, state.ended), id),
            born |-> state.born + 1, ids |-> Append(state.ids, id), ok |-> TRUE]

\* One directory after the other.
Loaded(state, directories) ==
  LET after[k \in 0 .. Len(directories)] ==
        IF k = 0 THEN state ELSE Loading(after[k - 1], directories[k])
  IN  after[Len(directories)]

\* The whole load is one step.  A refusal in the middle is answered 503 and
\* leaves what was loaded before it.
LoadBundle ==
  /\ bundle # <<>> /\ born + Len(bundle) <= MaxBorn + MaxLive
  /\ IF Len(bundle) > MaxBundle
       THEN /\ load' = [status |-> 413, ids |-> <<>>, before |-> live]
            /\ UNCHANGED store
       ELSE LET done == Loaded([live |-> live, ended |-> ended, born |-> born,
                                ids |-> <<>>, ok |-> TRUE], bundle)
            IN  /\ live' = done.live /\ ended' = done.ended /\ born' = done.born
                /\ load' = [status |-> IF done.ok THEN 200 ELSE 503,
                            ids |-> IF done.ok THEN done.ids ELSE <<>>, before |-> live]
  /\ UNCHANGED <<request, history, files, promised, prepares, bundle>>

\* The process starts anew: sessions, files and requests are gone.
ServerRestarts ==
  /\ live # <<>>
  /\ live' = <<>> /\ ended' = <<>>
  /\ request' = NoRequest /\ files' = <<>> /\ promised' = <<>>
  /\ UNCHANGED <<born, history, prepares, bundle>>
  /\ load' = NoLoad

EvaluationStep ==
  (\E n \in DOMAIN request.picked : ReadSession(n) \/ SessionEvaluated(n)) \/ StoreEvaluation

SessionRoutesNext ==
  /\ UNCHANGED caller
  /\ \/ \E base \in Bases, t \in LiveTraces : BeginSession(base, t)
     \/ \E n \in DOMAIN live : SessionGrows(n) \/ SessionCompletes(n)
     \/ SessionExpires
     \/ /\ caller = "evaluates"
        /\ EvaluationStep \/ \E golden \in IdsOf(live) : EvaluateSessions(golden)
     \/ /\ caller = "downloads"
        /\ \E golden \in IdsOf(live), ids \in SUBSET IdsOf(live) : PrepareEvaluation(golden, ids)
     \/ caller = "reports" /\ (CreateBundle \/ LoadBundle \/ ServerRestarts)

\* Evaluators answer or time out, and so does the database.
SessionRoutesSpec ==
  SessionRoutesInit /\ [][SessionRoutesNext]_hvars /\ WF_hvars(UNCHANGED caller /\ EvaluationStep)

(***************************************************************************)
(* Properties.                                                             *)
(***************************************************************************)

SessionRoutesTypeOK ==
  /\ Len(live) <= MaxLive /\ born \in 0 .. MaxBorn + MaxLive
  /\ Range(ended) = {live[n].id : n \in {m \in DOMAIN live : live[m].complete}}
  /\ request.at \in {"idle", "evaluating", "created", "stored", "answered"}

\* A session that is now what it was when it was picked, the golden one among
\* them, was scored for just that, however ids and traces went about in
\* between, and the run that was stored says of every picked session whether
\* it was scored (streaming_routes.py:149-238).
PickedAreAccountedFor ==
  /\ \A n \in DOMAIN request.picked, m \in DOMAIN live :
       /\ live[m] = request.picked[n] /\ live[m].traces # {}
       /\ request.score[n] \notin {"waiting"}
       => request.found[n] = [serial |-> live[m].serial, content |-> live[m].content]
  /\ history.status \in {"succeeded", "failed"} /\ request.at = "answered" =>
       /\ history.stored \union history.errors = DOMAIN request.picked
       /\ history.status = "succeeded" => history.stored = DOMAIN request.picked

\* What a URL serves is never older than what it was given out for
\* (streaming_routes.py:242-315, exports.py:32-41).
DownloadsKeepTheirPromise ==
  \A id \in DOMAIN promised :
    /\ id \in DOMAIN files
    /\ \/ files[id].serial > promised[id].serial
       \/ files[id].serial = promised[id].serial /\ files[id].content >= promised[id].content

\* A load takes nothing from a session that is still at work, gives no trace
\* and no id to two sessions, and what it says it loaded is there, as long as
\* the bundle is no larger than the room the complete sessions leave; where it
\* need not displace anything, sessions come back as they were
\* (debug_routes.py:228-270, store.py:903-957).
BundlesLoadBack ==
  /\ \A n, m \in DOMAIN live : n # m =>
       live[n].id # live[m].id /\ live[n].traces \intersect live[m].traces = {}
  /\ load.status # 0 => \A n \in DOMAIN load.before : ~load.before[n].complete => load.before[n] \in Range(live)
  /\ load.status = 503 => live = load.before
  /\ load.status = 200 =>
       /\ Cardinality(AtWork(load.before)) + Len(bundle) <= MaxLive =>
            Range(load.ids) \subseteq IdsOf(live)
       /\ /\ Len(load.before) + Len(bundle) <= MaxLive
          /\ OwnedBy(load.before) \intersect OwnedBy(bundle) = {}
          => \A n \in DOMAIN bundle : \E s \in Range(live) :
               /\ s.id = load.ids[n] /\ s.complete
               /\ s.traces = bundle[n].traces /\ s.content = bundle[n].content

\* An evaluation that was begun is answered.
SessionsAreEvaluated == request.at \in {"idle", "answered"}
=============================================================================
