------------------------------- MODULE Server -------------------------------
(***************************************************************************)
(* One server process, from start to exit: cli.py's _run_servers, the      *)
(* lifespan of api/app.py, the waits for the database of                   *)
(* storage/postgres, and the API's gRPC server.                            *)
(*                                                                         *)
(* Three servers share an event loop.  uvicorn runs the lifespan before it *)
(* listens for the API and, when it is told to exit, waits for open        *)
(* connections before it resumes the lifespan; a lifespan that raises, or  *)
(* an exit asked for before the API listens, ends that server only and     *)
(* without the second half of the lifespan.  The OTLP receivers start on   *)
(* their own, the gRPC one before everything else.                         *)
(***************************************************************************)
EXTENDS Integers

CONSTANTS
  Backends,       \* values of AGENTEVALS_STORAGE_BACKEND
  Timeouts,       \* values of AGENTEVALS_DB_CONNECT_TIMEOUT_S, 0: unusable
  DefaultBudget,  \* CONNECT_RETRY_DEADLINE_S
  MaxDelay,       \* the longest pause between two attempts
  MaxOutages      \* bound: changes of the database's reachability

ASSUME ServerAssumption ==
  /\ Timeouts \subseteq Nat /\ DefaultBudget \in Nat \ {0}
  /\ MaxDelay \in Nat \ {0} /\ MaxOutages \in Nat

VARIABLES
  env,        \* the environment the process was started with
  database,   \* [reachable, state]
  outages,
  dial,       \* the wait for the database: [now, delay]
  life,       \* where the lifespan of the API stands
  running,    \* what runs or is open
  health,     \* what grpc.health.v1 answers
  exiting,    \* "no", "asked", "forced"
  viewers,    \* open responses that end only with their watcher: "sse", "rpc"
  process

nvars == <<env, database, outages, dial, life, running, health, exiting, viewers, process>>
outside == <<env, database, outages>>

LeastOf(a, b) == IF a <= b THEN a ELSE b
Environments == [backend : Backends, url : BOOLEAN, lease : 1 .. 2, heartbeat : {1},
                 timeout : Timeouts, migrate : BOOLEAN, apiGrpc : BOOLEAN]
FreshDial == [now |-> 0, delay |-> 1]

\* A setting that is refused leaves the server without runs, not without an API.
Storage ==
  IF \/ env.backend \notin {"memory", "postgres"}
     \/ env.lease <= env.heartbeat
     \/ env.backend = "postgres" /\ ~env.url
  THEN "none" ELSE env.backend

Deadline == IF env.timeout > 0 THEN env.timeout ELSE DefaultBudget

Databases == [reachable : BOOLEAN, state : {"current", "behind", "dirty"}]

ServerInit ==
  /\ env \in Environments
  /\ database \in IF Storage = "postgres" THEN Databases ELSE {[reachable |-> FALSE, state |-> "current"]}
  /\ outages = 0 /\ dial = FreshDial
  /\ life = "off" /\ running = {} /\ health = "unknown"
  /\ exiting = "no" /\ viewers = {} /\ process = "starting"

Lives(at) == life' = at
Starts(part_) == running' = running \union {part_}
Stops(part_) == running' = running \ {part_}
Quiet == UNCHANGED <<outside, exiting, process>>

-----------------------------------------------------------------------------
(* Start.                                                                  *)

\* The port of the gRPC receiver is bound before anything runs.
StartReceiver ==
  /\ process = "starting"
  /\ \/ process' = "serving" /\ Starts("otlpGrpc") /\ Lives("manager")
     \/ process' = "exited" /\ UNCHANGED <<running, life>>
  /\ UNCHANGED <<outside, dial, health, exiting, viewers>>

\* The OTLP HTTP receiver has a server of its own, without a lifespan.
StartOtlpHttp ==
  /\ process = "serving" /\ exiting = "no" /\ "otlpHttp" \notin running
  /\ Starts("otlpHttp")
  /\ UNCHANGED <<dial, life, health, viewers>> /\ Quiet

StartManager ==
  /\ life = "manager"
  /\ Starts("manager")
  /\ Lives(CASE Storage = "postgres" -> "connect" [] Storage = "memory" -> "worker" [] OTHER -> "rpc")
  /\ UNCHANGED <<dial, health, viewers>> /\ Quiet

\* An attempt that is refused is made again after a pause that doubles, until
\* the first one at or after the deadline.
Dial(next) ==
  IF database.reachable THEN Lives(next) /\ dial' = FreshDial
  ELSE IF dial.now >= Deadline THEN Lives("failed") /\ UNCHANGED dial
  ELSE /\ dial' = [now |-> dial.now + LeastOf(dial.delay, Deadline - dial.now),
                   delay |-> LeastOf(2 * dial.delay, MaxDelay)]
       /\ UNCHANGED life

Connect ==
  /\ life = "connect"
  /\ Dial("schema")
  /\ UNCHANGED <<running, health, viewers>> /\ Quiet

\* up() applies what is pending and may fail half way; without it a schema that
\* is not current is refused.
CheckSchema ==
  /\ life = "schema"
  /\ \/ database.state = "current" /\ Lives("pool") /\ UNCHANGED database
     \/ database.state = "behind" /\ env.migrate
        /\ \/ Lives("pool") /\ database' = [database EXCEPT !.state = "current"]
           \/ Lives("failed") /\ database' = [database EXCEPT !.state = "dirty"]
     \/ database.state = "behind" /\ ~env.migrate /\ Lives("failed") /\ UNCHANGED database
     \/ database.state = "dirty" /\ Lives("failed") /\ UNCHANGED database
  /\ UNCHANGED <<env, outages, dial, running, health, exiting, viewers, process>>

OpenPool ==
  /\ life = "pool"
  /\ Dial("worker")
  /\ running' = IF database.reachable THEN running \union {"pool"} ELSE running
  /\ UNCHANGED <<health, viewers>> /\ Quiet

StartWorker ==
  /\ life = "worker"
  /\ Starts("worker") /\ Lives("rpc")
  /\ UNCHANGED <<dial, health, viewers>> /\ Quiet

\* Every service is SERVING before the port is bound; a port that is taken raises.
ServeRpc == \/ Lives("listen") /\ Starts("rpc") /\ health' = "serving"
            \/ Lives("failed") /\ UNCHANGED <<running, health>>

\* A lifespan that raises leaves what it started before as it is.
StartRpc ==
  /\ life = "rpc"
  /\ IF env.apiGrpc THEN ServeRpc ELSE Lives("listen") /\ UNCHANGED <<running, health>>
  /\ UNCHANGED <<dial, viewers>> /\ Quiet

\* uvicorn listens after the lifespan's first half.  Told to exit by then it
\* returns at once; a port that is taken resumes the lifespan and ends the
\* process.
Listen ==
  /\ life = "listen"
  /\ \/ exiting = "no" /\ Lives("serving") /\ Starts("http")
     \/ exiting # "no" /\ Lives("skipped") /\ UNCHANGED running
     \/ exiting = "no" /\ Lives("closing") /\ UNCHANGED running
  /\ UNCHANGED <<dial, health, viewers>> /\ Quiet

-----------------------------------------------------------------------------
(* Clients and signals.                                                    *)

ReachabilityChanges ==
  /\ outages < MaxOutages /\ outages' = outages + 1
  /\ process # "exited" /\ Storage = "postgres"
  /\ database' = [database EXCEPT !.reachable = ~@]
  /\ UNCHANGED <<env, dial, life, running, health, exiting, viewers, process>>

ViewerComes ==
  /\ \E way \in {"sse", "rpc"} :
       /\ (IF way = "sse" THEN "http" ELSE "rpc") \in running
       /\ viewers' = viewers \union {way}
  /\ UNCHANGED <<dial, life, running, health>> /\ Quiet

ViewerLeaves ==
  /\ \E way \in viewers : viewers' = viewers \ {way}
  /\ UNCHANGED <<dial, life, running, health>> /\ Quiet

\* The shared handler: the first signal asks every server to exit, a second
\* SIGINT forces it.  The gRPC receiver is stopped along with them.  When the
\* API's server has returned, its handlers are gone and the signal is the
\* system's.
Signal(sig) ==
  /\ process = "serving"
  /\ IF life \in {"failed", "skipped", "closed"}
       THEN exiting' = "forced" /\ process' = "exited" /\ running' = {} /\ viewers' = {}
       ELSE /\ exiting' = IF exiting # "no" /\ sig = "SIGINT" THEN "forced"
                          ELSE IF exiting = "no" THEN "asked" ELSE exiting
            /\ UNCHANGED <<running, viewers, process>>
  /\ UNCHANGED <<outside, dial, life, health>>

StopReceivers ==
  /\ exiting # "no" /\ process = "serving"
  /\ \E receiver \in {"otlpGrpc", "otlpHttp"} \intersect running : Stops(receiver)
  /\ UNCHANGED <<dial, life, health, viewers>> /\ Quiet

-----------------------------------------------------------------------------
(* Stop.                                                                   *)

\* The listener is closed first; a response that does not end is waited for,
\* unless the exit is forced, which leaves the lifespan where it is.
StopListening ==
  /\ life = "serving" /\ exiting # "no" /\ "http" \in running
  /\ Stops("http")
  /\ UNCHANGED <<dial, life, health, viewers>> /\ Quiet

ConnectionsEnd ==
  /\ life = "serving" /\ "http" \notin running
  /\ \/ exiting = "forced" /\ Lives("skipped")
     \/ "sse" \notin viewers /\ exiting # "forced" /\ Lives("closing")
  /\ UNCHANGED <<dial, running, health, viewers>> /\ Quiet

\* close_watchers: open watches are told to end; new ones may still come.
CloseWatchers ==
  /\ life = "closing"
  /\ IF "rpc" \in running THEN Lives("rpcStop") /\ viewers' = {} ELSE Lives("workerStop") /\ UNCHANGED viewers
  /\ UNCHANGED <<dial, running, health>> /\ Quiet

\* enter_graceful_shutdown, then stop(grace), which cancels what is left.
StopRpc ==
  /\ life = "rpcStop"
  /\ health' = "notServing" /\ Stops("rpc") /\ viewers' = viewers \ {"rpc"}
  /\ Lives("workerStop")
  /\ UNCHANGED dial /\ Quiet

StopWorker ==
  /\ life = "workerStop" /\ Stops("worker") /\ Lives("poolClose")
  /\ UNCHANGED <<dial, health, viewers>> /\ Quiet

ClosePool ==
  /\ life = "poolClose" /\ Stops("pool") /\ Lives("managerStop")
  /\ UNCHANGED <<dial, health, viewers>> /\ Quiet

StopManager ==
  /\ life = "managerStop" /\ Stops("manager") /\ Lives("closed")
  /\ UNCHANGED <<dial, health, viewers>> /\ Quiet

\* gather returns when every server did; a lifespan that ended because the
\* port was taken ends the process whatever the others do.
Exit ==
  /\ process = "serving"
  /\ \/ life = "closed" /\ exiting = "no"
     \/ life \in {"failed", "skipped", "closed"} /\ "otlpHttp" \notin running /\ exiting # "no"
  /\ process' = "exited" /\ running' = {} /\ viewers' = {}
  /\ UNCHANGED <<outside, dial, life, health, exiting>>

ServerStep ==
  \/ StartReceiver \/ StartOtlpHttp \/ StartManager \/ Connect \/ CheckSchema \/ OpenPool
  \/ StartWorker \/ StartRpc \/ Listen \/ StopReceivers \/ StopListening \/ ConnectionsEnd
  \/ CloseWatchers \/ StopRpc \/ StopWorker \/ ClosePool \/ StopManager \/ Exit

ServerNext ==
  \/ ServerStep \/ ReachabilityChanges \/ ViewerComes \/ ViewerLeaves
  \/ \E sig \in {"SIGINT", "SIGTERM"} : Signal(sig)

ServerSpec == ServerInit /\ [][ServerNext]_nvars /\ WF_nvars(ServerStep)

(***************************************************************************)
(* Properties.                                                             *)
(***************************************************************************)

ServerTypeOK ==
  /\ running \subseteq {"otlpGrpc", "otlpHttp", "manager", "pool", "worker", "rpc", "http"}
  /\ viewers \subseteq {"sse", "rpc"}
  /\ dial.now \in 0 .. Deadline /\ dial.delay \in 1 .. MaxDelay
  /\ process \in {"starting", "serving", "exited"}

\* A gRPC API that answers SERVING has what its services need, at start, under
\* way and while the process stops: sessions, and runs on a migrated database
\* when storage is configured.  The worker never runs without its pool.
ServingMeansReady ==
  /\ health = "serving" /\ "rpc" \in running =>
       /\ "manager" \in running
       /\ Storage # "none" => "worker" \in running
  /\ Storage = "postgres" /\ "worker" \in running =>
       "pool" \in running /\ database.state = "current"

\* In the end the wait for the database has led to a server that serves or to one
\* that failed, and a process that was asked to exit has done so unless a browser
\* holds it.
ServerHasSettled ==
  \/ process = "exited"
  \/ /\ life \in {"serving", "failed", "skipped", "closed"}
     /\ exiting # "no" => "sse" \in viewers
=============================================================================
