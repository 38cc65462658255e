------------------------------ MODULE MCFanOut -------------------------------
(* Instances of FanOut for TLC: what the parent's flow does, and what goes wrong. *)
EXTENDS FanOut, TLC

Invokes(mode, settle) == [mode |-> mode, settle |-> settle, naps |-> FALSE, waits |-> {}]
Naps(mode) == [Invokes(mode, FALSE) EXCEPT !.naps = TRUE]
Waits(f, S) == [f EXCEPT !.waits = S]
With(f, T) == [flow |-> f, troubles |-> T]

List == Invokes("many", FALSE)

(* Safety: one trouble, or two that meet, to each way of invoking. *)
Troubled ==
  {With(List, {t}) : t \in {"crash", "bulk", "retry", "purge", "spent"}} \cup
  {With(Waits(List, {1}), {}), With(Invokes("many", TRUE), {"retry", "purge"}),
   With(Invokes("each", TRUE), {"stall"}), With(Invokes("each", FALSE), {"cancel"}),
   With(Naps("together"), {})}

(* Liveness: what a crash, a bulk cancel or a retry leaves behind. *)
Interrupted ==
  {With(Waits(List, {1}), {"crash"}), With(Waits(List, {1}), {"cancel"}),
   With(Waits(List, {2}), {"bulk", "crash"}), With(Invokes("each", TRUE), {"crash", "retry"}),
   With(Invokes("each", FALSE), {"cancel"}), With(Naps("together"), {"crash"})}

(* A list whose first child waits for a signal that may not come. *)
FirstWaits == {With(Waits(List, {1}), {})}

(* Workers are alike: of several idle ones the first takes what there is to take. *)
InTurn == \A w, u \in Workers :
  u < w /\ at[u].pc = "idle" /\ at[w].pc = "idle" => at'[w].pc = "idle"
=============================================================================
