---------------------------- MODULE WakeDelivery ----------------------------
(***************************************************************************)
(* What the dispatch queue promises, without leases, tokens, versions or a *)
(* clock.  A wake asked of a run is pending until somebody is given the    *)
(* run to serve.  At most one dispatch of a run is in service at a time.   *)
(* A dispatch that ends without completing is given out again.             *)
(***************************************************************************)
CONSTANT Runs

VARIABLES pending,   \* runs owed a dispatch
          serving    \* runs with a dispatch in service

vars == <<pending, serving>>

Init == pending = {} /\ serving = {}

(* Wakes are asked of some runs; asking twice before a dispatch is asking once. *)
Request(S) == pending' = pending \cup S /\ UNCHANGED serving

(* Some runs that are owed a dispatch and are not being served get one. *)
Dispatch(S) ==
  /\ S \subseteq pending
  /\ S \cap serving = {}
  /\ pending' = pending \ S
  /\ serving' = serving \cup S

(* A dispatch completes; a wake asked while it ran stays owed. *)
Complete(r) ==
  /\ r \in serving
  /\ serving' = serving \ {r}
  /\ UNCHANGED pending

(* Dispatches are given up on, and their runs are owed another one. *)
Redeliver(S) ==
  /\ S \subseteq serving
  /\ serving' = serving \ S
  /\ pending' = pending \cup S

Next == \/ \E S \in SUBSET Runs : Request(S) \/ Dispatch(S) \/ Redeliver(S)
        \/ \E r \in Runs : Complete(r)

Spec == Init /\ [][Next]_vars
=============================================================================
