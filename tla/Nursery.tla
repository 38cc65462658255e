------------------------------ MODULE Nursery -------------------------------
(***************************************************************************)
(* What ctx.invoke promises, without queues, joins, leases or workers: a   *)
(* parent whose flow invokes some children.  A child is born once.  The    *)
(* parent is done only on outcomes its children reached: each of them was  *)
(* done, or, where failures are tolerated, each of them ended somehow.     *)
(***************************************************************************)
CONSTANT Kids

Outcomes == {"done", "failed", "canceled"}

VARIABLES tolerant,  \* whether onChildFailure is "settle"
          parent,    \* "live", an outcome, or "gone"
          kid,       \* child -> "unborn", "live", an outcome, "gone" or "twins"
          ended      \* child -> the outcomes it has had

vars == <<tolerant, parent, kid, ended>>

Init ==
  /\ tolerant \in BOOLEAN /\ parent = "live"
  /\ kid = [k \in Kids |-> "unborn"] /\ ended = [k \in Kids |-> {}]

(* Children are born together; a worker may be slow to learn that the parent is over. *)
Spawn(S) ==
  /\ S # {} /\ \A k \in S : kid[k] = "unborn"
  /\ kid' = [k \in Kids |-> IF k \in S THEN "live" ELSE kid[k]]
  /\ UNCHANGED <<tolerant, parent, ended>>

Ends(k, outcome) ==
  /\ kid[k] = "live"
  /\ kid' = [kid EXCEPT ![k] = outcome] /\ ended' = [ended EXCEPT ![k] = @ \cup {outcome}]
  /\ UNCHANGED <<tolerant, parent>>

(* A failed run, and no other, is made live again by hand. *)
Revive(k) ==
  /\ kid[k] = "failed" /\ kid' = [kid EXCEPT ![k] = "live"]
  /\ UNCHANGED <<tolerant, parent, ended>>

Forget(k) ==
  /\ kid[k] \in Outcomes /\ kid' = [kid EXCEPT ![k] = "gone"]
  /\ UNCHANGED <<tolerant, parent, ended>>

Earned == \A k \in Kids : "done" \in ended[k] \/ (tolerant /\ ended[k] # {})

Close(outcome) ==
  /\ parent = "live" /\ (outcome = "done" => Earned)
  /\ parent' = outcome
  /\ UNCHANGED <<tolerant, kid, ended>>

Reopen == parent = "failed" /\ parent' = "live" /\ UNCHANGED <<tolerant, kid, ended>>

ForgetParent == parent \in Outcomes /\ parent' = "gone" /\ UNCHANGED <<tolerant, kid, ended>>

Next ==
  \/ \E S \in SUBSET Kids : Spawn(S)
  \/ \E k \in Kids : Revive(k) \/ Forget(k) \/ \E o \in Outcomes : Ends(k, o)
  \/ Reopen \/ ForgetParent \/ \E o \in Outcomes : Close(o)

Spec == Init /\ [][Next]_vars
=============================================================================
