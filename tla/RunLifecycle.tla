---------------------------- MODULE RunLifecycle ----------------------------
(***************************************************************************)
(* What a client of /api/runs may rely on whatever happens to workers,     *)
(* leases, the database and the network: how the status, the attempt and   *)
(* the cancel flag of a run can change.  RunWorker implements it.          *)
(*                                                                         *)
(* A finished run stays finished, but update_status names no attempt, so   *)
(* which of the terminal statuses it shows may still change.               *)
(***************************************************************************)
EXTENDS Integers

CONSTANTS Runs, Uploaded, MaxAttempts

VARIABLES status,  \* RunStatus, "absent" before the INSERT
          attempt, \* how often the run was started
          cancel   \* cancel_requested

lifecycle == <<status, attempt, cancel>>

Finished == {"succeeded", "failed", "cancelled"}

Init == /\ status = [r \in Runs |-> "absent"]
        /\ attempt = [r \in Runs |-> 0]
        /\ cancel = [r \in Runs |-> FALSE]

Appear(r) == /\ status[r] = "absent"
             /\ status' = [status EXCEPT ![r] = "queued"]
             /\ attempt' = IF r \in Uploaded THEN [attempt EXCEPT ![r] = 1] ELSE attempt
             /\ UNCHANGED cancel

Overdue(r) == status[r] = "running" /\ (cancel[r] \/ attempt[r] >= MaxAttempts)

GivenUp(swept) ==
  [r \in Runs |-> IF r \notin swept THEN status[r]
                  ELSE IF cancel[r] THEN "cancelled" ELSE "failed"]

\* Starting a run also gives up some that may not be started again.
Start(r) == /\ status[r] \in {"queued", "running"}
            /\ ~cancel[r]
            /\ attempt[r] < MaxAttempts
            /\ \E swept \in SUBSET {q \in Runs : Overdue(q)} :
                 status' = [GivenUp(swept) EXCEPT ![r] = "running"]
            /\ attempt' = [attempt EXCEPT ![r] = @ + 1]
            /\ UNCHANGED cancel

GiveUp == /\ \E swept \in SUBSET {q \in Runs : Overdue(q)} : status' = GivenUp(swept)
          /\ UNCHANGED <<attempt, cancel>>

\* Only a run that was started can end; an uploaded run counts as started.
Finish(r, outcome) == /\ attempt[r] > 0
                      /\ status' = [status EXCEPT ![r] = outcome]
                      /\ UNCHANGED <<attempt, cancel>>

Cancel(r) == /\ status[r] \in {"queued", "running"}
             /\ cancel' = [cancel EXCEPT ![r] = TRUE]
             /\ status' = [status EXCEPT ![r] = IF @ = "queued" THEN "cancelled" ELSE @]
             /\ UNCHANGED attempt

Next == \/ \E r \in Runs : Appear(r) \/ Start(r) \/ Cancel(r)
        \/ \E r \in Runs, outcome \in Finished : Finish(r, outcome)
        \/ GiveUp

Spec == Init /\ [][Next]_lifecycle
=============================================================================
