------------------------------- MODULE DataPath -------------------------------
(***************************************************************************)
(* What telemetry goes through, from an export or a file to a score: the   *)
(* receivers, the loaders, traces and turns, the evaluation of what they   *)
(* say, and the secrets it needs.  A behaviour is a behaviour of one part, *)
(* which Init chooses; the others stand still, so that a run has the sum   *)
(* of their states and not the product.                                    *)
(***************************************************************************)
EXTENDS Conversations, Receiver, TraceFiles, Bridge, Credentials

CONSTANT Parts    \* the parts a run looks at

VARIABLE part

vars == <<part, cvars, ovars, fvars, jvars, bvars, crvars>>

AllParts == {"conversations", "receiver", "files", "scoring", "bridge", "credentials"}
ASSUME DataPathAssumption == Parts \subseteq AllParts

\* A part that is not looked at has one initial state.
OneOf(inputs) == {CHOOSE i \in inputs : TRUE}

DataPathInit ==
  \E scenarios \in {OneOf(Scenarios)}, exports \in {OneOf(Exports)}, files \in {OneOf(Files)},
     formats \in {OneOf(Formats)}, jobs \in {OneOf(Jobs)},
     recordings \in {OneOf(Recordings)}, cases \in {OneOf(CredentialCases)} :
    /\ part \in Parts
    /\ IF part = "conversations" THEN ConversationsInit(Scenarios) ELSE ConversationsInit(scenarios)
    /\ IF part = "receiver" THEN ReceiverInit(Exports) ELSE ReceiverInit(exports)
    /\ IF part = "files" THEN TraceFilesInit(Files, Formats) ELSE TraceFilesInit(files, formats)
    /\ IF part = "scoring" THEN ScoringInit(Jobs) ELSE ScoringInit(jobs)
    /\ IF part = "bridge" THEN BridgeInit(Recordings) ELSE BridgeInit(recordings)
    /\ IF part = "credentials" THEN CredentialsInit(CredentialCases) ELSE CredentialsInit(cases)

DataPathNext ==
  /\ UNCHANGED part
  /\ \/ part = "conversations" /\ ConversationsNext /\ UNCHANGED <<ovars, fvars, jvars, bvars, crvars>>
     \/ part = "receiver" /\ ReceiverNext /\ UNCHANGED <<cvars, fvars, jvars, bvars, crvars>>
     \/ part = "files" /\ TraceFilesNext /\ UNCHANGED <<cvars, ovars, jvars, bvars, crvars>>
     \/ part = "scoring" /\ ScoringNext /\ UNCHANGED <<cvars, ovars, fvars, bvars, crvars>>
     \/ part = "bridge" /\ BridgeNext /\ UNCHANGED <<cvars, ovars, fvars, jvars, crvars>>
     \/ part = "credentials" /\ CredentialsNext /\ UNCHANGED <<cvars, ovars, fvars, jvars, bvars>>

DataPathSpec == DataPathInit /\ [][DataPathNext]_vars

(***************************************************************************)
(* Properties.                                                             *)
(***************************************************************************)

\* What a run says of its traces: every trace, evaluator and golden case is
\* accounted for (runner.py:102-315, result_builder.py:32-165), and what is
\* derived from the turns says what they say (adk_bridge.py:45-313,
\* trace_metrics.py:20-127), and judges use the secrets their own run named
\* (resolvers/__init__.py:86-167).
ScoresAreWhole == ResultsAreWhole /\ DerivedFormsAgree /\ SecretsStayWithTheirRun
=============================================================================
