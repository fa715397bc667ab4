------------------------------ MODULE Services ------------------------------
(***************************************************************************)
(* The parts of the server and of the SDK that share no state with one     *)
(* another: schema migrations, remote evaluators, streamed evaluations,    *)
(* sinks, run watches, paged lists, the SDK's sessions, the life of the    *)
(* server process, runs without a database, and the routes on live         *)
(* sessions.  A behaviour is a behaviour of one of them, which Init        *)
(* chooses; the others stand still, so that the run has the sum of their   *)
(* states and not the product.                                             *)
(***************************************************************************)
EXTENDS Migrator, Evaluators, EvalStream, Sinks, RunWatch, Paging, SdkExport, Server, MemoryRuns,
        SessionRoutes

CONSTANT Parts    \* the parts a run looks at

VARIABLE part

vars == <<part, mvars, evars, svars, kvars, rvars, gvars, xvars, nvars, yvars, hvars>>

AllParts == {"migrator", "evaluators", "stream", "sinks", "watch", "paging", "sdk", "server", "memory", "sessions"}
ASSUME ServicesAssumption == Parts \subseteq AllParts

OneServer == CHOOSE state \in Environments \X Databases :
               state[1].backend = "memory" /\ state[2] = [reachable |-> FALSE, state |-> "current"]

\* A part that is not looked at has one initial state.
Still(p, state, initial) == part = p \/ state = initial

ServicesInit ==
  /\ part \in Parts
  /\ MigratorInit /\ EvaluatorsInit /\ EvalStreamInit /\ SinksInit /\ RunWatchInit
  /\ PagingInit /\ SdkExportInit /\ ServerInit /\ MemoryInit /\ SessionRoutesInit
  /\ Still("evaluators", eval, [e \in Evals |-> [at |-> "new", ref |-> CHOOSE r \in Refs : TRUE]])
  /\ Still("paging", <<listed, stamp>>, <<"sessions", [i \in ListIds |-> 0]>>)
  /\ Still("sdk", [s \in Sessions |-> sdk[s].endpoint],
           [s \in Sessions |-> Least(Endpoints)])
  /\ Still("server", <<env, database>>, OneServer)
  /\ Still("sessions", caller, "evaluates")

ServicesNext ==
  /\ UNCHANGED part
  /\ \/ /\ part = "migrator" /\ MigratorNext
        /\ UNCHANGED <<evars, svars, kvars, rvars, gvars, xvars, nvars, yvars, hvars>>
     \/ /\ part = "evaluators" /\ EvaluatorsNext
        /\ UNCHANGED <<mvars, svars, kvars, rvars, gvars, xvars, nvars, yvars, hvars>>
     \/ /\ part = "stream" /\ EvalStreamNext
        /\ UNCHANGED <<mvars, evars, kvars, rvars, gvars, xvars, nvars, yvars, hvars>>
     \/ /\ part = "sinks" /\ SinksNext
        /\ UNCHANGED <<mvars, evars, svars, rvars, gvars, xvars, nvars, yvars, hvars>>
     \/ /\ part = "watch" /\ RunWatchNext
        /\ UNCHANGED <<mvars, evars, svars, kvars, gvars, xvars, nvars, yvars, hvars>>
     \/ /\ part = "paging" /\ PagingNext
        /\ UNCHANGED <<mvars, evars, svars, kvars, rvars, xvars, nvars, yvars, hvars>>
     \/ /\ part = "sdk" /\ SdkExportNext
        /\ UNCHANGED <<mvars, evars, svars, kvars, rvars, gvars, nvars, yvars, hvars>>
     \/ /\ part = "server" /\ ServerNext
        /\ UNCHANGED <<mvars, evars, svars, kvars, rvars, gvars, xvars, yvars, hvars>>
     \/ /\ part = "memory" /\ MemoryNext
        /\ UNCHANGED <<mvars, evars, svars, kvars, rvars, gvars, xvars, nvars, hvars>>
     \/ /\ part = "sessions" /\ SessionRoutesNext
        /\ UNCHANGED <<mvars, evars, svars, kvars, rvars, gvars, xvars, nvars, yvars>>

\* The fairness of the parts, each for the behaviours that are its own.
ServicesFairness ==
  /\ WF_evars(part = "evaluators" /\ EvaluatorsStep)
  /\ WF_svars(part = "stream" /\ ConsumerStep)
  /\ WF_svars(part = "stream" /\ ProducerStep)
  /\ WF_svars(part = "stream" /\ UnitStep)
  /\ WF_kvars(part = "sinks" /\ SinkStep)
  /\ WF_rvars(part = "watch" /\ WatchStep)
  /\ WF_nvars(part = "server" /\ ServerStep)
  /\ WF_yvars(part = "memory" /\ MemoryStep)
  /\ WF_hvars(part = "sessions" /\ UNCHANGED caller /\ EvaluationStep)

ServicesSpec == ServicesInit /\ [][ServicesNext]_vars /\ ServicesFairness

(***************************************************************************)
(* Properties.                                                             *)
(***************************************************************************)

\* Every part's variables have their types.
ServicesTypeOK ==
  /\ part \in Parts
  /\ MigratorTypeOK /\ EvaluatorsTypeOK /\ EvalStreamTypeOK /\ SinksTypeOK
  /\ RunWatchTypeOK /\ PagingTypeOK /\ SdkExportTypeOK /\ ServerTypeOK /\ MemoryTypeOK
  /\ SessionRoutesTypeOK

\* What a marker says is so: a clean migration row tells the schema, an environment
\* with its hash file is built, a healthy API has what it needs, and the row of an
\* accepted or succeeded run has what was promised (Migrator, Evaluators, Server,
\* MemoryRuns).
MarkersTellTheTruth ==
  CleanRowTellsSchema /\ MarkedMeansBuilt /\ ServingMeansReady /\ RowsKeepTheirWord

\* A streamed evaluation shows no result its final answer takes back, and leaves
\* nothing at work but what a failed group strands (EvalStream).
StreamsAreTrue == PartialsAreConfirmed /\ OnlyStraysOutliveTheStream

\* A client that follows a run to its end, or a list to its last page, has what
\* there was to see, once, and one that has sessions evaluated, downloads them or
\* carries them in a debug bundle has those it asked for, as they were (RunWatch,
\* Paging, SessionRoutes).
ReadersMissNothing ==
  /\ WatchEndsWithEverything /\ EachRowOnce
  /\ PickedAreAccountedFor /\ DownloadsKeepTheirPromise /\ BundlesLoadBack

\* What must come to an end does, and for good: evaluations that wait for an environment,
\* a stream somebody reads, an event that is being sent, a watch of a run that is
\* over, the start and the exit of the server, the runs it keeps in memory, and the
\* evaluation of its sessions.
WorkEnds ==
  <>[](/\ part = "evaluators" => EvaluationsAreOver
       /\ part = "stream" => NobodyIsLeftReading
       /\ part = "sinks" => NothingIsBeingSent
       /\ part = "watch" => EndIsTold
       /\ part = "server" => ServerHasSettled
       /\ part = "memory" => MemoryRunsHaveEnded
       /\ part = "sessions" => SessionsAreEvaluated)
=============================================================================
