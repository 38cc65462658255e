----------------------------- MODULE MCJobQueue -----------------------------
(***************************************************************************)
(* Two runs of different priority.  One worker claims both in one batch,   *)
(* the other one run at a time, so that it has to choose.                  *)
(***************************************************************************)
EXTENDS JobQueue, TLC

CONSTANTS r1, r2, w1, w2

MCServes == w1 :> {r1, r2} @@ w2 :> {r1, r2}
MCPriority == r1 :> 1 @@ r2 :> 0
MCBatchMax == w1 :> 2 @@ w2 :> 1
=============================================================================
