---------------------------- MODULE MCRunEngine -----------------------------
(***************************************************************************)
(* The flows and deployments the run-engine configurations choose from.    *)
(***************************************************************************)
EXTENDS RunEngine, TLC

Call(op, name) == [op |-> op, name |-> name]
Has(calls) == [known |-> TRUE, calls |-> calls, drift |-> "park"]
HasStrict(calls) == [Has(calls) EXCEPT !.drift = "fail"]
HasNot == [known |-> FALSE, calls |-> <<>>, drift |-> "park"]
Everywhere(d) == [w \in Workers |-> d]

Step == Call("step", "a")
LongStep == Call("timed", "b")
Sleep == Call("sleep", "")
Signal == Call("signal", "go")
BoundedSignal == <<Call("pin", "go"), Call("decide", "go")>>

(* One flow: a step, then a wait for a signal. *)
StepThenSignal == {Everywhere(Has(<<Step, Signal>>))}

(* One flow: a wait for a signal with a deadline. *)
TimedWait == {Everywhere(Has(BoundedSignal))}

(* The second worker runs code that makes another call, or has no such flow. *)
Skewed ==
  { 1 :> Has(<<Signal>>) @@ 2 :> Has(<<Step>>),
    1 :> Has(<<Step>>) @@ 2 :> HasStrict(<<Signal>>) }
TimedWaitOrSkewed ==
  TimedWait \cup Skewed \cup { 1 :> Has(<<Signal>>) @@ 2 :> HasNot }

(* A step long enough to renew its lease and then a wait; a sleep. *)
ShortFlows == {Everywhere(Has(<<LongStep, Signal>>)), Everywhere(Has(<<Sleep>>))}

OneName == [k \in Signals |-> "go"]
=============================================================================
