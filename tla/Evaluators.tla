----------------------------- MODULE Evaluators -----------------------------
(***************************************************************************)
(* Evaluation with a remote custom evaluator, in one server process        *)
(* (custom_evaluators.py, evaluator/resolver.py, evaluator/sources.py,     *)
(* evaluator/venv.py): the evaluator's file and its requirements.txt are   *)
(* downloaded into a cache, a virtual environment is built from the        *)
(* requirements, and a child process is run in it.                         *)
(*                                                                         *)
(* The refs of this model lie in one directory of their source, so they    *)
(* share the requirements file and the environment, as the cache key       *)
(* (_venv_key) has it.  An environment is built by a thread: cancelling    *)
(* the evaluation that waits for it gives the asyncio lock back and leaves *)
(* the thread at work.                                                     *)
(***************************************************************************)
EXTENDS Integers, FiniteSets

CONSTANTS
  Evals,         \* evaluations, each of which calls one evaluator once
  Refs,          \* evaluators of one directory of the source
  MaxPublished,  \* bound: versions of requirements.txt at the source
  MaxCancels,    \* bound: evaluations cancelled
  MaxDeaths,     \* bound: server processes killed
  Nobody

ASSUME EvaluatorsAssumption ==
  /\ MaxPublished \in Nat \ {0} /\ MaxCancels \in Nat /\ MaxDeaths \in Nat
  /\ Nobody \notin Evals

VARIABLES
  published,     \* version of requirements.txt at the source
  indexed,       \* the source's index is in the resolver's cache
  script,        \* refs whose file is in the cache directory
  requirements,  \* version of the cached requirements.txt, 0: there is none
  venv,          \* the environment's directory
  venvLock,      \* the evaluation that holds _venv_locks[key]
  eval,          \* where each evaluation is
  thread,        \* the thread that runs ensure_venv for it
  child,         \* its child process
  cancels, deaths,
  astray         \* a builder has worked without the lock

evars == <<published, indexed, script, requirements, venv, venvLock,
           eval, thread, child, cancels, deaths, astray>>
cache == <<published, indexed, script, requirements>>
bounds == <<cancels, deaths>>

Absent == [python |-> FALSE, deps |-> 0, mark |-> 0]
NoThread == [at |-> "none", want |-> 0, python |-> "server"]
NoChild == [alive |-> FALSE, python |-> "server", deps |-> 0]

EvaluatorsInit ==
  /\ published = 1 /\ indexed = FALSE /\ script = {} /\ requirements = 0
  /\ venv = Absent /\ venvLock = Nobody
  /\ eval \in [Evals -> {[at |-> "new", ref |-> r] : r \in Refs}]
  /\ thread = [e \in Evals |-> NoThread]
  /\ child = [e \in Evals |-> NoChild]
  /\ cancels = 0 /\ deaths = 0 /\ astray = FALSE

At(e) == eval[e].at
GoOn(e, at) == eval' = [eval EXCEPT ![e].at = at]
Building == {e \in Evals : thread[e].at \in {"create", "install", "mark"}}

\* Every step notes whether somebody builds without holding the lock.
Noted == astray' = (astray \/ \E e \in Building' : venvLock' # e)

-----------------------------------------------------------------------------
(* resolve: the index of the source, then the cached file or a download.   *)

Lookup(e) == IF eval[e].ref \in script THEN "environment" ELSE "download"

StartEval(e) ==
  /\ At(e) = "new"
  /\ GoOn(e, IF indexed THEN Lookup(e) ELSE "index")
  /\ UNCHANGED <<cache, venv, venvLock, thread, child, bounds>>
  /\ Noted

\* A failed or empty index is not cached; a ref it does not list is refused.
IndexAnswers(e) ==
  /\ At(e) = "index"
  /\ indexed' \in {indexed, TRUE}
  /\ \/ indexed' /\ GoOn(e, Lookup(e))
     \/ GoOn(e, "over")
  /\ UNCHANGED <<published, script, requirements, venv, venvLock, thread, child, bounds>>
  /\ Noted

IndexExpires ==
  /\ indexed
  /\ indexed' = FALSE
  /\ UNCHANGED <<published, script, requirements, venv, venvLock, eval, thread, child, bounds>>
  /\ Noted

Publish ==
  /\ published < MaxPublished
  /\ published' = published + 1
  /\ UNCHANGED <<indexed, script, requirements, venv, venvLock, eval, thread, child, bounds>>
  /\ Noted

\* fetch_evaluator writes the file as soon as it has it.
FileArrives(e) ==
  /\ At(e) = "download"
  /\ \/ script' = script \union {eval[e].ref} /\ GoOn(e, "requirements")
     \/ script' = script /\ GoOn(e, "over")
  /\ UNCHANGED <<published, indexed, requirements, venv, venvLock, thread, child, bounds>>
  /\ Noted

\* A request that fails or is not answered 200 leaves what is there; an answer
\* from another path is refused, with the evaluation.
RequirementsArrive(e) ==
  /\ At(e) = "requirements"
  /\ requirements' \in {requirements, published}
  /\ \/ GoOn(e, "environment")
     \/ requirements' = requirements /\ GoOn(e, "over")
  /\ UNCHANGED <<published, indexed, script, venv, venvLock, thread, child, bounds>>
  /\ Noted

-----------------------------------------------------------------------------
(* ensure_venv_async and, in its thread, ensure_venv.                      *)

EnsureVenv(e) ==
  /\ At(e) = "environment" /\ venvLock = Nobody
  /\ venvLock' = e
  /\ thread' = [thread EXCEPT ![e] = [NoThread EXCEPT !.at = "check"]]
  /\ GoOn(e, "waiting")
  /\ UNCHANGED <<cache, venv, child, bounds>>
  /\ Noted

IsVenvValid == venv.python /\ venv.mark = requirements

\* Without requirements the server's own interpreter is used; check_requirements
\* may refuse the file.
CheckVenv(e) ==
  /\ thread[e].at = "check"
  /\ \/ thread' = [thread EXCEPT ![e] =
          IF requirements = 0 THEN [NoThread EXCEPT !.at = "done"]
          ELSE IF IsVenvValid THEN [NoThread EXCEPT !.at = "done", !.python = "venv"]
          ELSE [at |-> "create", want |-> requirements, python |-> "venv"]]
     \/ requirements # 0 /\ thread' = [thread EXCEPT ![e].at = "failed"]
  /\ UNCHANGED <<cache, venv, venvLock, eval, child, bounds>>
  /\ Noted

\* The old directory is removed first, marker and all.
CreateVenv(e) ==
  /\ thread[e].at = "create"
  /\ \/ /\ venv' = [Absent EXCEPT !.python = TRUE]
        /\ thread' = [thread EXCEPT ![e].at = "install"]
     \/ /\ venv' = Absent
        /\ thread' = [thread EXCEPT ![e].at = "failed"]
  /\ UNCHANGED <<cache, venvLock, eval, child, bounds>>
  /\ Noted

InstallDeps(e) ==
  /\ thread[e].at = "install"
  /\ \/ /\ venv.python
        /\ venv' = [venv EXCEPT !.deps = requirements]
        /\ thread' = [thread EXCEPT ![e].at = "mark"]
     \/ /\ thread' = [thread EXCEPT ![e].at = "failed"]
        /\ UNCHANGED venv
  /\ UNCHANGED <<cache, venvLock, eval, child, bounds>>
  /\ Noted

\* The hash of the requirements is written last.
MarkVenv(e) ==
  /\ thread[e].at = "mark"
  /\ venv' = [venv EXCEPT !.mark = thread[e].want]
  /\ thread' = [thread EXCEPT ![e].at = "done"]
  /\ UNCHANGED <<cache, venvLock, eval, child, bounds>>
  /\ Noted

\* The evaluation gets the interpreter, gives the lock back and starts the
\* child; a failed build is the metric's error.
UseVenv(e) ==
  /\ At(e) = "waiting" /\ thread[e].at \in {"done", "failed"}
  /\ venvLock' = Nobody
  /\ thread' = [thread EXCEPT ![e] = NoThread]
  /\ IF thread[e].at = "done"
       THEN /\ GoOn(e, "running")
            /\ child' = [child EXCEPT ![e] =
                 [alive |-> TRUE, python |-> thread[e].python, deps |-> venv.deps]]
       ELSE GoOn(e, "over") /\ UNCHANGED child
  /\ UNCHANGED <<cache, venv, bounds>>
  /\ Noted

-----------------------------------------------------------------------------
(* _run_subprocess, cancellation, death of the server.                     *)

\* The child answers or fails, or it is killed at its deadline and reaped.
ChildEnds(e) ==
  /\ At(e) = "running"
  /\ child' = [child EXCEPT ![e].alive = FALSE]
  /\ GoOn(e, "over")
  /\ UNCHANGED <<cache, venv, venvLock, thread, bounds>>
  /\ Noted

\* Only TimeoutError kills the child: after a cancellation it runs on.
OrphanEnds(e) ==
  /\ child[e].alive /\ At(e) # "running"
  /\ child' = [child EXCEPT ![e].alive = FALSE]
  /\ UNCHANGED <<cache, venv, venvLock, eval, thread, bounds>>
  /\ Noted

\* A worker that lost its lease or was told to cancel, a client that left.  A
\* thread that has not begun is taken back, any other one works on.
CancelEval(e) ==
  /\ At(e) \notin {"new", "over"} /\ cancels < MaxCancels
  /\ cancels' = cancels + 1
  /\ venvLock' = IF venvLock = e THEN Nobody ELSE venvLock
  /\ GoOn(e, "over")
  /\ thread' \in {thread, IF thread[e].at = "check" THEN [thread EXCEPT ![e] = NoThread]
                          ELSE thread}
  /\ UNCHANGED <<cache, venv, child, deaths>>
  /\ Noted

ServerDies ==
  /\ deaths < MaxDeaths
  /\ deaths' = deaths + 1
  /\ indexed' = FALSE /\ venvLock' = Nobody
  /\ eval' = [e \in Evals |-> IF At(e) = "new" THEN eval[e] ELSE [eval[e] EXCEPT !.at = "over"]]
  /\ thread' = [e \in Evals |-> NoThread]
  /\ UNCHANGED <<published, script, requirements, venv, child, cancels>>
  /\ Noted

ThreadStep(e) == CheckVenv(e) \/ CreateVenv(e) \/ InstallDeps(e) \/ MarkVenv(e)
EvalStep(e) ==
  \/ StartEval(e) \/ IndexAnswers(e) \/ FileArrives(e) \/ RequirementsArrive(e)
  \/ EnsureVenv(e) \/ UseVenv(e) \/ ChildEnds(e)

EvaluatorsStep == \E e \in Evals : EvalStep(e) \/ ThreadStep(e)
EvaluatorsNext ==
  \/ EvaluatorsStep \/ \E e \in Evals : OrphanEnds(e) \/ CancelEval(e)
  \/ IndexExpires \/ Publish \/ ServerDies

\* Requests are answered or time out, builders and children end or are
\* stopped, and the event loop resumes what can go on: while an
\* evaluation can go on, some evaluation does.
EvaluatorsFairness == WF_evars(EvaluatorsStep)

EvaluatorsSpec == EvaluatorsInit /\ [][EvaluatorsNext]_evars /\ EvaluatorsFairness

(***************************************************************************)
(* Properties.                                                             *)
(***************************************************************************)

EvaluatorsTypeOK ==
  /\ published \in 1 .. MaxPublished /\ requirements \in 0 .. published
  /\ script \subseteq Refs /\ venvLock \in Evals \union {Nobody}
  /\ venv \in [python : BOOLEAN, deps : 0 .. published, mark : 0 .. published]

\* While no builder has worked without the lock, a directory that carries a
\* marker is a finished environment, and a child that runs in the environment
\* was started in one: builds that fail, are killed with the server or start
\* over for new requirements never leave a half-built directory that
\* _is_venv_valid accepts (venv.py:45-51, 141-165).
MarkedMeansBuilt ==
  ~astray =>
    /\ venv.mark # 0 => venv.python /\ venv.deps >= venv.mark
    /\ \A e \in Evals : child[e].alive /\ child[e].python = "venv" => child[e].deps # 0

\* In the end every evaluation is over: neither a failed download or build, a cancelled
\* waiter nor a cancelled builder keeps the environment's lock from the
\* evaluations that wait for it (venv.py:168-175).
EvaluationsAreOver == \A e \in Evals : At(e) = "over"
=============================================================================
