------------------------------ MODULE RunTable ------------------------------
(***************************************************************************)
(* The run row and its step log, and what each store operation makes of    *)
(* them, as operators on rows.  The state machines that own a run apply    *)
(* these operators.                                                        *)
(***************************************************************************)
EXTENDS Naturals, Sequences

Terminal == {"done", "failed", "canceled"}
Active == {"pending", "running", "sleeping", "awaiting_signal", "awaiting_child",
           "retrying", "parked"}

(* A reconciler that forgets the runs nobody has started. *)
ReconcilableOnceStarted == Active \ {"pending", "awaiting_signal", "awaiting_child"}

(* The live states that wait on nobody but the engine itself. *)
Reconcilable == Active \ {"awaiting_signal", "awaiting_child"}

RunRow == [status : Active \cup Terminal \cup {"absent"}, attempts : Nat]

NoRun == [status |-> "absent", attempts |-> 0]

Fresh == [status |-> "pending", attempts |-> 0]

(* A claim that counts only the first dispatch of a running run. *)
MarkedOnce(run) ==
  IF run.status \in Terminal \cup {"running"} THEN run
  ELSE [status |-> "running", attempts |-> run.attempts + 1]

(* Every dispatch of a live run is one attempt; a terminal run is left as it is. *)
MarkedRunning(run) ==
  IF run.status \in Terminal THEN run
  ELSE [status |-> "running", attempts |-> run.attempts + 1]

(* A suspend that does not look at the row first. *)
SuspendedBlindly(run, status) ==
  [status |-> status, attempts |-> IF status = "retrying" THEN run.attempts ELSE 0]

(* Parking a live run; only a back-off keeps the attempts it has spent. *)
Suspended(run, status) ==
  IF run.status \in Terminal THEN run
  ELSE [status |-> status, attempts |-> IF status = "retrying" THEN run.attempts ELSE 0]

(* An outcome is final. *)
Terminated(run, status) ==
  IF run.status \in Terminal THEN run ELSE [run EXCEPT !.status = status]

-----------------------------------------------------------------------------

(* The step log: position i holds the outcome of the i-th call of the flow body.    *)
(* A log that takes the last writer's outcome.                                      *)
LastWriterLogged(log, i, entry) ==
  IF i <= Len(log) THEN [log EXCEPT ![i] = entry] ELSE Append(log, entry)

(* The first writer of a position wins; every writer is told what is stored there.  *)
Logged(log, i, entry) == IF i <= Len(log) THEN log ELSE Append(log, entry)

Stored(log, i, entry) == IF i <= Len(log) THEN log[i] ELSE entry
=============================================================================
