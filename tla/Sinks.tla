-------------------------------- MODULE Sinks --------------------------------
(***************************************************************************)
(* The events one attempt of a run sends to its sinks (run/sinks.py), as   *)
(* run/worker.py emits them: a partial whenever an evaluator of a group    *)
(* has a result, several at a time, then the final summary or an error.    *)
(* An event goes to every sink at once and its emitter waits for all of    *)
(* them; a webhook is posted to again until it answers below 500 or its    *)
(* attempts are used up.                                                   *)
(*                                                                         *)
(* An evaluator of a group that another one brought down is a stray: the   *)
(* run no longer waits for it, and it emits when it gets there.            *)
(*                                                                         *)
(* A post has no number and no acknowledgement beyond its answer: one the  *)
(* client gave up on, for its timeout or because the run was cut short,    *)
(* may still be on its way, and the receiver then handles it later.        *)
(***************************************************************************)
EXTENDS Integers, Sequences, FiniteSets, SequencesExt

CONSTANTS
  Webhooks, Writers,   \* sinks that post, sinks that write in one step
  Partials,            \* partial results of the run
  MaxPosts,            \* max_attempts of a webhook
  MaxLate              \* bound: posts whose answer the client did not wait for

ASSUME SinksAssumption ==
  /\ Partials \in Nat /\ MaxPosts \in Nat \ {0} /\ MaxLate \in Nat
  /\ Webhooks \intersect Writers = {}

VARIABLES
  phase,       \* "running", "final", "cut", "error", "over"
  strays,      \* partials of failed groups
  delivery,    \* each sink's share of each event: where it is, posts made
  inbox,       \* what each receiver has handled, in its order
  late,        \* posts given up that are still on their way
  lates        \* how many there have been of each sink

kvars == <<phase, strays, delivery, inbox, late, lates>>

SinkSet == Webhooks \union Writers
PartialEvents == 1 .. Partials
FinalEvent == Partials + 1
ErrorEvent == Partials + 2
Events == 1 .. ErrorEvent

Share(s, e) == delivery[s][e].at
Open(e) == \E s \in SinkSet : Share(s, e) \in {"write", "post", "pause"}
Begun(e) == \A s \in SinkSet : Share(s, e) # "none"
Awaited == {e \in Events \ strays : Open(e)}

SinksInit ==
  /\ phase = "running" /\ strays = {}
  /\ delivery = [s \in SinkSet |-> [e \in Events |-> [at |-> "none", posts |-> 0]]]
  /\ inbox = [s \in SinkSet |-> <<>>]
  /\ late = [s \in SinkSet |-> {}]
  /\ lates = [s \in SinkSet |-> 0]

-----------------------------------------------------------------------------
(* The run: worker._run_evaluation and _execute.                           *)

Emit(e) ==
  /\ ~Begun(e)
  /\ delivery' = [s \in SinkSet |-> [delivery[s] EXCEPT ![e].at =
                    IF s \in Webhooks THEN "post" ELSE "write"]]
  /\ UNCHANGED <<inbox, late, lates>>

EmitPartial(e) ==
  /\ phase = "running" \/ e \in strays
  /\ Emit(e)
  /\ UNCHANGED <<phase, strays>>

\* An evaluator raises, or the write of its rows does: its siblings stray.
GroupFails(e) ==
  /\ phase = "running" /\ e \notin strays /\ ~(Begun(e) /\ ~Open(e))
  /\ strays' = strays \union {e}
  /\ UNCHANGED <<phase, delivery, inbox, late, lates>>

\* Mutant: the final event does not wait for the partials.
EmitFinalAtOnce ==
  /\ phase = "running"
  /\ phase' = "final"
  /\ Emit(FinalEvent)
  /\ UNCHANGED strays

EmitFinal ==
  /\ phase = "running" /\ Awaited = {}
  /\ phase' = "final"
  /\ Emit(FinalEvent)
  /\ UNCHANGED strays

\* The run failed outside of its groups, or it was cut short, or its outcome
\* could not be stored after the final event.
EmitError ==
  /\ phase = "cut" \/ (phase \in {"running", "final"} /\ Awaited = {})
  /\ phase' = "error"
  /\ Emit(ErrorEvent)
  /\ UNCHANGED strays

\* A failure to store the error ends the run without that event.
EndRun ==
  /\ phase # "over" /\ Awaited = {}
  /\ phase' = "over"
  /\ UNCHANGED <<strays, delivery, inbox, late, lates>>

GoesLate(s, e) ==
  /\ lates[s] < MaxLate
  /\ late' = [late EXCEPT ![s] = @ \union {e}]
  /\ lates' = [lates EXCEPT ![s] = @ + 1]

\* The deadline passes or the worker is stopped: every share the run waits for
\* is cancelled, and the error is reported unless it was that already.
CutShort ==
  /\ Awaited # {}
  /\ phase' = IF phase = "error" THEN "over" ELSE "cut"
  /\ delivery' = [s \in SinkSet |-> [e \in Events |->
       IF e \in Awaited /\ Share(s, e) \in {"write", "post", "pause"}
         THEN [at |-> "cut", posts |-> 0] ELSE delivery[s][e]]]
  /\ \/ UNCHANGED <<late, lates>>
     \/ \E s \in Webhooks, e \in Awaited : Share(s, e) = "post" /\ GoesLate(s, e)
  /\ UNCHANGED <<strays, inbox>>

-----------------------------------------------------------------------------
(* A sink's share of an event; _guard ends it whatever became of it.       *)

EndShare(s, e, how) == delivery' = [delivery EXCEPT ![s][e] = [at |-> how, posts |-> 0]]

\* A local sink writes its line or raises, which _guard logs.
Write(s, e) ==
  /\ Share(s, e) = "write"
  /\ \/ inbox' = [inbox EXCEPT ![s] = Append(@, e)] /\ EndShare(s, e, "taken")
     \/ inbox' = inbox /\ EndShare(s, e, "gave up")
  /\ UNCHANGED <<phase, strays, late, lates>>

PostTaken(s, e) ==
  /\ Share(s, e) = "post"
  /\ inbox' = [inbox EXCEPT ![s] = Append(@, e)]
  /\ EndShare(s, e, "taken")
  /\ UNCHANGED <<phase, strays, late, lates>>

\* 4xx: the event is dropped with a warning.
PostRefused(s, e) ==
  /\ Share(s, e) = "post"
  /\ EndShare(s, e, "refused")
  /\ UNCHANGED <<phase, strays, inbox, late, lates>>

\* Mutant: posts are not counted.
TryAgainAlways(s, e) == delivery' = [delivery EXCEPT ![s][e].at = "pause"]

TryAgain(s, e) ==
  IF delivery[s][e].posts + 1 < MaxPosts
    THEN delivery' = [delivery EXCEPT ![s][e] = [at |-> "pause", posts |-> @.posts + 1]]
    ELSE EndShare(s, e, "gave up")

\* 5xx, or no connection.
PostFails(s, e) ==
  /\ Share(s, e) = "post"
  /\ TryAgain(s, e)
  /\ UNCHANGED <<phase, strays, inbox, late, lates>>

PostTimesOut(s, e) ==
  /\ Share(s, e) = "post"
  /\ GoesLate(s, e)
  /\ TryAgain(s, e)
  /\ UNCHANGED <<phase, strays, inbox>>

PauseEnds(s, e) ==
  /\ Share(s, e) = "pause"
  /\ delivery' = [delivery EXCEPT ![s][e].at = "post"]
  /\ UNCHANGED <<phase, strays, inbox, late, lates>>

LatePostArrives(s, e) ==
  /\ e \in late[s]
  /\ late' = [late EXCEPT ![s] = @ \ {e}]
  /\ inbox' = [inbox EXCEPT ![s] = Append(@, e)]
  /\ UNCHANGED <<phase, strays, delivery, lates>>

ShareStep(s, e) ==
  \/ Write(s, e) \/ PostTaken(s, e) \/ PostRefused(s, e) \/ PostFails(s, e)
  \/ PostTimesOut(s, e) \/ PauseEnds(s, e)

SinkStep == \E s \in SinkSet, e \in Events : ShareStep(s, e)
SinksNext ==
  \/ \E e \in PartialEvents : EmitPartial(e) \/ GroupFails(e)
  \/ EmitFinal \/ EmitError \/ EndRun \/ CutShort
  \/ SinkStep
  \/ \E s \in Webhooks, e \in Events : LatePostArrives(s, e)

\* A post ends by its answer, an error or its timeout, and a pause by its
\* timer: while a share is open, some share goes on.  Nothing is assumed of the
\* receivers, nor of the run between events.
SinksFairness == WF_kvars(SinkStep)

SinksSpec == SinksInit /\ [][SinksNext]_kvars /\ SinksFairness

(***************************************************************************)
(* Properties.                                                             *)
(***************************************************************************)

SinksTypeOK ==
  /\ phase \in {"running", "final", "cut", "error", "over"}
  /\ strays \subseteq PartialEvents
  /\ \A s \in SinkSet, e \in Events :
       /\ Share(s, e) \in {"none", "write", "post", "pause", "taken", "refused", "gave up", "cut"}
       /\ delivery[s][e].posts \in 0 .. MaxPosts - 1

\* What a sink has taken is in the receiver's hands, and a receiver whose
\* answers all came in time has each event once and no partial after the final
\* or the error, unless its group had failed.  Retries after 5xx and refused
\* connections, other sinks that fail and a run that is cut short cost it
\* events, never this (sinks.py:134-162, 181-210, runner.py:178-181, 302).
ReceiversSeeTheRun ==
  \A s \in SinkSet :
    /\ \A e \in Events : Share(s, e) = "taken" => e \in ToSet(inbox[s])
    /\ lates[s] = 0 =>
         /\ IsInjective(inbox[s])
         /\ \A i, j \in DOMAIN inbox[s] :
              i < j /\ inbox[s][j] \in PartialEvents \ strays => inbox[s][i] \in PartialEvents

\* In the end, whatever the receivers do, no event is still being sent: a run
\* emits so many of them and no more.
NothingIsBeingSent == \A e \in Events : ~Open(e)
=============================================================================
