-------------------------- MODULE WorkerLoopProofs --------------------------
(***************************************************************************)
(* WorkerLoop for every batch size and every number of jobs and of polls   *)
(* that hang: its types, and the two promises its comments make, that no   *)
(* wake is slept on while the listener is connected, and that a flip of    *)
(* the gate takes effect on the next claim.                                *)
(*                                                                         *)
(* Neither promise is inductive.  Attentive says what NoStall needs of the *)
(* time before a wait: from the poll on, an enqueue is on its way or is    *)
(* remembered.  Gated says what GateHolds needs: the poll that was under   *)
(* way at a pause has not claimed yet.                                     *)
(***************************************************************************)
EXTENDS WorkerLoop, TLAPS

(* Jobs are never made, only moved. *)
Kept == queue.tocome + queue.ready + queue.stuck <= Arrivals

Sleeps == Waiting /\ ~gate.paused

Attentive ==
  push.conn = "listening" /\ unseen /\ (loop.pc \in {"poll", "ran"} \/ Sleeps)
    => "wake" \in push.flight \/ push.latch

Gated ==
  /\ Halted => gate.claims <= 1 /\ (loop.pc = "poll" => gate.claims = 0)
  /\ loop.pc \in {"poll", "ran"} \/ Sleeps => gate.polled

IInv == TypeOK /\ Kept /\ Attentive /\ Gated

-----------------------------------------------------------------------------

LEMMA Constants ==
  /\ Batch \in Nat /\ Batch > 0 /\ Arrivals \in Nat /\ Hangs \in Nat
  /\ 0 \in 0..Batch /\ 0 \in 0..Arrivals /\ 0 \in 0..Hangs /\ Arrivals \in 0..Arrivals
BY LoopConstants

LEMMA InitHolds == Init => IInv
<1> SUFFICES ASSUME Init PROVE IInv
  OBVIOUS
<1>1. TypeOK
  BY Constants DEF Init, TypeOK, Waiting
<1>2. Kept
  BY Constants DEF Init, Kept
<1>3. Attentive /\ Gated
  BY DEF Init, Attentive, Gated, Sleeps, Waiting, Halted
<1> QED BY <1>1, <1>2, <1>3 DEF IInv

(* The parts of TypeOK. *)
LoopRecord == [pc : {"top", "poll", "ran", "waiting", "ended"}, n : 0..Batch, late : BOOLEAN, hangs : 0..Hangs]
PushRecord ==
  [conn : {"idle", "connecting", "opening", "listening"}, closing : BOOLEAN, latch : BOOLEAN,
   flight : SUBSET {"wake", "done"}]
QueueRecord == [tocome : 0..Arrivals, ready : 0..Arrivals, stuck : 0..Arrivals]
OtherTypes ==
  /\ queue \in QueueRecord /\ unseen \in BOOLEAN
  /\ gate \in [paused : BOOLEAN, stopping : BOOLEAN, claims : Nat, polled : BOOLEAN]
  /\ caller \in [pc : {"read", "look", "wait", "answered", "threw"}, saw : BOOLEAN, settled : BOOLEAN]

(* What a record of the loop and of the queue is after a step: a record of the kind. *)
LEMMA LoopMoved ==
  ASSUME NEW l \in LoopRecord, NEW pc \in {"top", "poll", "ran", "waiting", "ended"}, NEW n \in 0..Batch,
         NEW late \in BOOLEAN, NEW h \in 0..Hangs
  PROVE  /\ [l EXCEPT !.pc = pc, !.n = n] \in LoopRecord
         /\ [l EXCEPT !.pc = pc, !.n = n, !.late = late, !.hangs = h] \in LoopRecord
         /\ [l EXCEPT !.n = n] \in LoopRecord /\ [l EXCEPT !.pc = pc] \in LoopRecord
BY DEF LoopRecord

LEMMA PushMoved ==
  ASSUME NEW p \in PushRecord, NEW f \in SUBSET {"wake", "done"}
  PROVE  /\ [p EXCEPT !.flight = f] \in PushRecord /\ [p EXCEPT !.latch = TRUE] \in PushRecord
BY DEF PushRecord

(* Jobs that move from one part of the queue to another leave its total. *)
LEMMA QueueMoved ==
  ASSUME queue \in QueueRecord, Kept, NEW t \in Nat, NEW a \in Nat, NEW b \in Nat,
         t + a + b <= queue.tocome + queue.ready + queue.stuck,
         queue' = [queue EXCEPT !.tocome = t, !.ready = a, !.stuck = b]
  PROVE  queue' \in QueueRecord /\ Kept'
<1>1. t \in 0..Arrivals /\ a \in 0..Arrivals /\ b \in 0..Arrivals /\ t + a + b <= Arrivals
  BY Constants DEF QueueRecord, Kept
<1>2. queue'.tocome = t /\ queue'.ready = a /\ queue'.stuck = b
  BY DEF QueueRecord
<1> QED BY <1>1, <1>2, Zenon DEF QueueRecord, Kept

(* Every step keeps the types, and the number of jobs. *)
LEMMA TypeStep ==
  ASSUME TypeOK, Kept, [Next]_vars
  PROVE  TypeOK' /\ Kept'
<1>1. CASE Start
  <2>1. loop' \in LoopRecord BY <1>1, Constants DEF Start, TypeOK, LoopRecord
  <2>2. push' \in PushRecord BY <1>1 DEF Start, TypeOK, PushRecord
  <2>3. OtherTypes' /\ Kept' BY <1>1, Constants DEF Start, TypeOK, OtherTypes, QueueRecord, Kept
  <2>4. (push.latch => ~Waiting)' BY <1>1 DEF Start, Waiting, TypeOK
  <2> QED BY <2>1, <2>2, <2>3, <2>4 DEF TypeOK, LoopRecord, PushRecord, OtherTypes, QueueRecord
<1>2. CASE Connect
  <2>1. loop' \in LoopRecord BY <1>2, Constants DEF Connect, TypeOK, LoopRecord
  <2>2. push' \in PushRecord BY <1>2 DEF Connect, TypeOK, PushRecord
  <2>3. OtherTypes' /\ Kept' BY <1>2, Constants DEF Connect, TypeOK, OtherTypes, QueueRecord, Kept
  <2>4. (push.latch => ~Waiting)' BY <1>2 DEF Connect, Waiting, TypeOK
  <2> QED BY <2>1, <2>2, <2>3, <2>4 DEF TypeOK, LoopRecord, PushRecord, OtherTypes, QueueRecord
<1>3. CASE Listening
  <2>1. loop' \in LoopRecord BY <1>3, Constants DEF Listening, FireWork, Waiting, TypeOK, LoopRecord
  <2>2. push' \in PushRecord BY <1>3 DEF Listening, FireWork, Waiting, TypeOK, PushRecord
  <2>3. OtherTypes' /\ Kept' BY <1>3, Constants DEF Listening, FireWork, Waiting, TypeOK, OtherTypes, QueueRecord, Kept
  <2>4. (push.latch => ~Waiting)' BY <1>3 DEF Listening, FireWork, Waiting, TypeOK
  <2> QED BY <2>1, <2>2, <2>3, <2>4 DEF TypeOK, LoopRecord, PushRecord, OtherTypes, QueueRecord
<1>4. CASE Drop
  <2>1. loop' \in LoopRecord BY <1>4, Constants DEF Drop, TypeOK, LoopRecord
  <2>2. push' \in PushRecord BY <1>4 DEF Drop, TypeOK, PushRecord
  <2>3. OtherTypes' /\ Kept' BY <1>4, Constants DEF Drop, TypeOK, OtherTypes, QueueRecord, Kept
  <2>4. (push.latch => ~Waiting)' BY <1>4 DEF Drop, Waiting, TypeOK
  <2> QED BY <2>1, <2>2, <2>3, <2>4 DEF TypeOK, LoopRecord, PushRecord, OtherTypes, QueueRecord
<1>5. CASE Close
  <2>1. loop' \in LoopRecord BY <1>5, Constants DEF Close, TypeOK, LoopRecord
  <2>2. push' \in PushRecord BY <1>5 DEF Close, TypeOK, PushRecord
  <2>3. OtherTypes' /\ Kept' BY <1>5, Constants DEF Close, TypeOK, OtherTypes, QueueRecord, Kept
  <2>4. (push.latch => ~Waiting)' BY <1>5 DEF Close, Waiting, TypeOK
  <2> QED BY <2>1, <2>2, <2>3, <2>4 DEF TypeOK, LoopRecord, PushRecord, OtherTypes, QueueRecord
<1>6. CASE Closed
  <2>1. loop' \in LoopRecord BY <1>6, Constants DEF Closed, FireWork, Waiting, TypeOK, LoopRecord
  <2>2. push' \in PushRecord BY <1>6 DEF Closed, FireWork, Waiting, TypeOK, PushRecord
  <2>3. OtherTypes' /\ Kept' BY <1>6, Constants DEF Closed, FireWork, Waiting, TypeOK, OtherTypes, QueueRecord, Kept
  <2>4. (push.latch => ~Waiting)' BY <1>6 DEF Closed, FireWork, Waiting, TypeOK
  <2> QED BY <2>1, <2>2, <2>3, <2>4 DEF TypeOK, LoopRecord, PushRecord, OtherTypes, QueueRecord
<1>7. CASE NotifyWake
  <2>1. loop' \in LoopRecord BY <1>7, Constants DEF NotifyWake, FireWork, Waiting, TypeOK, LoopRecord
  <2>2. push' \in PushRecord
    <3>1. push \in PushRecord /\ push.flight \ {"wake"} \in SUBSET {"wake", "done"}
      BY DEF TypeOK, PushRecord
    <3>2. [push EXCEPT !.flight = @ \ {"wake"}] \in PushRecord
      BY <3>1, PushMoved
    <3> QED BY <1>7, <3>2, PushMoved DEF NotifyWake, FireWork
  <2>3. OtherTypes' /\ Kept' BY <1>7, Constants DEF NotifyWake, FireWork, Waiting, TypeOK, OtherTypes, QueueRecord, Kept
  <2>4. (push.latch => ~Waiting)' BY <1>7 DEF NotifyWake, FireWork, Waiting, TypeOK
  <2> QED BY <2>1, <2>2, <2>3, <2>4 DEF TypeOK, LoopRecord, PushRecord, OtherTypes, QueueRecord
<1>8. CASE NotifyDone
  <2>1. loop' \in LoopRecord BY <1>8, Constants DEF NotifyDone, TypeOK, LoopRecord
  <2>2. push' \in PushRecord BY <1>8 DEF NotifyDone, TypeOK, PushRecord
  <2>3. OtherTypes' /\ Kept' BY <1>8, Constants DEF NotifyDone, TypeOK, OtherTypes, QueueRecord, Kept
  <2>4. (push.latch => ~Waiting)' BY <1>8 DEF NotifyDone, Waiting, TypeOK
  <2> QED BY <2>1, <2>2, <2>3, <2>4 DEF TypeOK, LoopRecord, PushRecord, OtherTypes, QueueRecord
<1>9. CASE Enqueue
  <2>1. loop' \in LoopRecord BY <1>9, Constants DEF Enqueue, Sends, TypeOK, LoopRecord
  <2>2. push' \in PushRecord BY <1>9 DEF Enqueue, Sends, TypeOK, PushRecord
  <2>3. OtherTypes' /\ Kept'
    <3> DEFINE t == queue.tocome - 1
               a == queue.ready + 1
               b == queue.stuck
    <3>1. queue \in QueueRecord
      BY DEF TypeOK, QueueRecord
    <3>2. t \in Nat /\ a \in Nat /\ b \in Nat /\ t + a + b <= queue.tocome + queue.ready + queue.stuck
      BY <1>9, <3>1, Constants DEF Enqueue, QueueRecord
    <3>3. queue' = [queue EXCEPT !.tocome = t, !.ready = a, !.stuck = b]
      BY <1>9, <3>1 DEF Enqueue, QueueRecord
    <3> HIDE DEF t, a, b
    <3>4. queue' \in QueueRecord /\ Kept'
      BY <3>1, <3>2, <3>3, QueueMoved
    <3> QED BY <1>9, <3>4 DEF Enqueue, TypeOK, OtherTypes
  <2>4. (push.latch => ~Waiting)' BY <1>9 DEF Enqueue, Sends, Waiting, TypeOK
  <2> QED BY <2>1, <2>2, <2>3, <2>4 DEF TypeOK, LoopRecord, PushRecord, OtherTypes, QueueRecord
<1>10. CASE PeerClaims
  <2>1. loop' \in LoopRecord BY <1>10, Constants DEF PeerClaims, TypeOK, LoopRecord
  <2>2. push' \in PushRecord BY <1>10 DEF PeerClaims, TypeOK, PushRecord
  <2>3. OtherTypes' /\ Kept' BY <1>10, Constants DEF PeerClaims, TypeOK, OtherTypes, QueueRecord, Kept
  <2>4. (push.latch => ~Waiting)' BY <1>10 DEF PeerClaims, Waiting, TypeOK
  <2> QED BY <2>1, <2>2, <2>3, <2>4 DEF TypeOK, LoopRecord, PushRecord, OtherTypes, QueueRecord
<1>11. CASE LateClaim
  <2>1. loop' \in LoopRecord BY <1>11, Constants DEF LateClaim, Least, TypeOK, LoopRecord
  <2>2. push' \in PushRecord BY <1>11 DEF LateClaim, Least, TypeOK, PushRecord
  <2>3. OtherTypes' /\ Kept'
    <3> DEFINE t == queue.tocome
               a == queue.ready - Least(Batch, queue.ready)
               b == queue.stuck + Least(Batch, queue.ready)
    <3>1. queue \in QueueRecord
      BY DEF TypeOK, QueueRecord
    <3>2. t \in Nat /\ a \in Nat /\ b \in Nat /\ t + a + b <= queue.tocome + queue.ready + queue.stuck
      BY <1>11, <3>1, Constants DEF LateClaim, QueueRecord, Least
    <3>3. queue' = [queue EXCEPT !.tocome = t, !.ready = a, !.stuck = b]
      BY <1>11, <3>1 DEF LateClaim, QueueRecord, Least
    <3> HIDE DEF t, a, b
    <3>4. queue' \in QueueRecord /\ Kept'
      BY <3>1, <3>2, <3>3, QueueMoved
    <3> QED BY <1>11, <3>4 DEF LateClaim, TypeOK, OtherTypes
  <2>4. (push.latch => ~Waiting)' BY <1>11 DEF LateClaim, Least, Waiting, TypeOK
  <2> QED BY <2>1, <2>2, <2>3, <2>4 DEF TypeOK, LoopRecord, PushRecord, OtherTypes, QueueRecord
<1>12. CASE Expire
  <2>1. loop' \in LoopRecord BY <1>12, Constants DEF Expire, TypeOK, LoopRecord
  <2>2. push' \in PushRecord BY <1>12 DEF Expire, TypeOK, PushRecord
  <2>3. OtherTypes' /\ Kept'
    <3> DEFINE t == queue.tocome
               a == queue.ready + queue.stuck
               b == 0
    <3>1. queue \in QueueRecord
      BY DEF TypeOK, QueueRecord
    <3>2. t \in Nat /\ a \in Nat /\ b \in Nat /\ t + a + b <= queue.tocome + queue.ready + queue.stuck
      BY <1>12, <3>1, Constants DEF Expire, QueueRecord
    <3>3. queue' = [queue EXCEPT !.tocome = t, !.ready = a, !.stuck = b]
      BY <1>12, <3>1 DEF Expire, QueueRecord
    <3> HIDE DEF t, a, b
    <3>4. queue' \in QueueRecord /\ Kept'
      BY <3>1, <3>2, <3>3, QueueMoved
    <3> QED BY <1>12, <3>4 DEF Expire, TypeOK, OtherTypes
  <2>4. (push.latch => ~Waiting)' BY <1>12 DEF Expire, Waiting, TypeOK
  <2> QED BY <2>1, <2>2, <2>3, <2>4 DEF TypeOK, LoopRecord, PushRecord, OtherTypes, QueueRecord
<1>13. CASE BeginPaused
  <2>1. loop' \in LoopRecord BY <1>13, Constants DEF BeginPaused, Idles, TypeOK, LoopRecord
  <2>2. push' \in PushRecord BY <1>13 DEF BeginPaused, Idles, TypeOK, PushRecord
  <2>3. OtherTypes' /\ Kept' BY <1>13, Constants DEF BeginPaused, Idles, TypeOK, OtherTypes, QueueRecord, Kept
  <2>4. (push.latch => ~Waiting)' BY <1>13 DEF BeginPaused, Idles, Waiting, TypeOK
  <2> QED BY <2>1, <2>2, <2>3, <2>4 DEF TypeOK, LoopRecord, PushRecord, OtherTypes, QueueRecord
<1>14. CASE Begin
  <2>1. loop' \in LoopRecord BY <1>14, Constants DEF Begin, Poll, Halted, TypeOK, LoopRecord
  <2>2. push' \in PushRecord BY <1>14 DEF Begin, Poll, Halted, TypeOK, PushRecord
  <2>3. OtherTypes' /\ Kept' BY <1>14, Constants DEF Begin, Poll, Halted, TypeOK, OtherTypes, QueueRecord, Kept
  <2>4. (push.latch => ~Waiting)' BY <1>14 DEF Begin, Poll, Halted, Waiting, TypeOK
  <2> QED BY <2>1, <2>2, <2>3, <2>4 DEF TypeOK, LoopRecord, PushRecord, OtherTypes, QueueRecord
<1>15. CASE Claim
  <2>1. loop' \in LoopRecord
    <3>1. Least(Batch, queue.ready) \in 0..Batch
      BY Constants DEF Least, TypeOK
    <3>2. loop \in LoopRecord /\ "ran" \in {"top", "poll", "ran", "waiting", "ended"}
      BY DEF TypeOK, LoopRecord
    <3> QED BY <1>15, <3>1, <3>2, LoopMoved, Constants DEF Claim
  <2>2. push' \in PushRecord BY <1>15 DEF Claim, Least, Halted, TypeOK, PushRecord
  <2>3. OtherTypes' /\ Kept' BY <1>15, Constants DEF Claim, Least, Halted, TypeOK, OtherTypes, QueueRecord, Kept
  <2>4. (push.latch => ~Waiting)' BY <1>15 DEF Claim, Least, Halted, Waiting, TypeOK
  <2> QED BY <2>1, <2>2, <2>3, <2>4 DEF TypeOK, LoopRecord, PushRecord, OtherTypes, QueueRecord
<1>16. CASE PollFails
  <2>1. loop' \in LoopRecord
    <3>1. loop \in LoopRecord BY DEF TypeOK, LoopRecord
    <3> QED BY <1>16, <3>1, LoopMoved, Constants DEF PollFails
  <2>2. push' \in PushRecord BY <1>16 DEF PollFails, TypeOK, PushRecord
  <2>3. OtherTypes' /\ Kept' BY <1>16, Constants DEF PollFails, TypeOK, OtherTypes, QueueRecord, Kept
  <2>4. (push.latch => ~Waiting)' BY <1>16 DEF PollFails, Waiting, TypeOK
  <2> QED BY <2>1, <2>2, <2>3, <2>4 DEF TypeOK, LoopRecord, PushRecord, OtherTypes, QueueRecord
<1>17. CASE PollHangs
  <2>1. loop' \in LoopRecord
    <3>1. loop.hangs + 1 \in 0..Hangs
      BY <1>17, Constants DEF PollHangs, TypeOK
    <3>2. loop \in LoopRecord BY DEF TypeOK, LoopRecord
    <3> QED BY <1>17, <3>1, <3>2, LoopMoved, Constants DEF PollHangs
  <2>2. push' \in PushRecord BY <1>17 DEF PollHangs, TypeOK, PushRecord
  <2>3. OtherTypes' /\ Kept' BY <1>17, Constants DEF PollHangs, TypeOK, OtherTypes, QueueRecord, Kept
  <2>4. (push.latch => ~Waiting)' BY <1>17 DEF PollHangs, Waiting, TypeOK
  <2> QED BY <2>1, <2>2, <2>3, <2>4 DEF TypeOK, LoopRecord, PushRecord, OtherTypes, QueueRecord
<1>18. CASE EndTick
  <2>1. loop' \in LoopRecord
    <3>1. loop \in LoopRecord BY DEF TypeOK, LoopRecord
    <3>2. [loop EXCEPT !.n = 0] \in LoopRecord BY <3>1, LoopMoved, Constants
    <3> QED BY <1>18, <3>2, LoopMoved, Constants DEF EndTick, Idles
  <2>2. push' \in PushRecord BY <1>18 DEF EndTick, Idles, TypeOK, PushRecord
  <2>3. OtherTypes' /\ Kept' BY <1>18, Constants DEF EndTick, Idles, TypeOK, OtherTypes, QueueRecord, Kept
  <2>4. (push.latch => ~Waiting)' BY <1>18 DEF EndTick, Idles, Waiting, TypeOK
  <2> QED BY <2>1, <2>2, <2>3, <2>4 DEF TypeOK, LoopRecord, PushRecord, OtherTypes, QueueRecord
<1>19. CASE End
  <2>1. loop' \in LoopRecord
    <3>1. loop \in LoopRecord BY DEF TypeOK, LoopRecord
    <3> QED BY <1>19, <3>1, LoopMoved, Constants DEF End
  <2>2. push' \in PushRecord BY <1>19 DEF End, TypeOK, PushRecord
  <2>3. OtherTypes' /\ Kept' BY <1>19, Constants DEF End, TypeOK, OtherTypes, QueueRecord, Kept
  <2>4. (push.latch => ~Waiting)' BY <1>19 DEF End, Waiting, TypeOK
  <2> QED BY <2>1, <2>2, <2>3, <2>4 DEF TypeOK, LoopRecord, PushRecord, OtherTypes, QueueRecord
<1>20. CASE TimeOut
  <2>1. loop' \in LoopRecord BY <1>20, Constants DEF TimeOut, Waiting, TypeOK, LoopRecord
  <2>2. push' \in PushRecord BY <1>20 DEF TimeOut, Waiting, TypeOK, PushRecord
  <2>3. OtherTypes' /\ Kept' BY <1>20, Constants DEF TimeOut, Waiting, TypeOK, OtherTypes, QueueRecord, Kept
  <2>4. (push.latch => ~Waiting)' BY <1>20 DEF TimeOut, Waiting, TypeOK
  <2> QED BY <2>1, <2>2, <2>3, <2>4 DEF TypeOK, LoopRecord, PushRecord, OtherTypes, QueueRecord
<1>21. CASE Pause
  <2>1. loop' \in LoopRecord BY <1>21, Constants DEF Pause, Wakes, Waiting, Halted, TypeOK, LoopRecord
  <2>2. push' \in PushRecord BY <1>21 DEF Pause, Wakes, Waiting, Halted, TypeOK, PushRecord
  <2>3. OtherTypes' /\ Kept' BY <1>21, Constants DEF Pause, Wakes, Waiting, Halted, TypeOK, OtherTypes, QueueRecord, Kept
  <2>4. (push.latch => ~Waiting)' BY <1>21 DEF Pause, Wakes, Waiting, Halted, TypeOK
  <2> QED BY <2>1, <2>2, <2>3, <2>4 DEF TypeOK, LoopRecord, PushRecord, OtherTypes, QueueRecord
<1>22. CASE Resume
  <2>1. loop' \in LoopRecord BY <1>22, Constants DEF Resume, Wakes, Waiting, TypeOK, LoopRecord
  <2>2. push' \in PushRecord BY <1>22 DEF Resume, Wakes, Waiting, TypeOK, PushRecord
  <2>3. OtherTypes' /\ Kept'
    <3>1. gate' \in [paused : BOOLEAN, stopping : BOOLEAN, claims : Nat, polled : BOOLEAN]
      <4> DEFINE p == loop.pc \in {"poll", "ran", "ended"}
      <4>1. p \in BOOLEAN /\ gate' = [gate EXCEPT !.paused = FALSE, !.polled = p]
        BY <1>22 DEF Resume
      <4> HIDE DEF p
      <4> QED BY <4>1 DEF TypeOK
    <3> QED BY <1>22, <3>1 DEF Resume, TypeOK, OtherTypes, QueueRecord, Kept
  <2>4. (push.latch => ~Waiting)' BY <1>22 DEF Resume, Wakes, Waiting, TypeOK
  <2> QED BY <2>1, <2>2, <2>3, <2>4 DEF TypeOK, LoopRecord, PushRecord, OtherTypes, QueueRecord
<1>23. CASE Stop
  <2>1. loop' \in LoopRecord BY <1>23, Constants DEF Stop, Wakes, Waiting, Halted, TypeOK, LoopRecord
  <2>2. push' \in PushRecord BY <1>23 DEF Stop, Wakes, Waiting, Halted, TypeOK, PushRecord
  <2>3. OtherTypes' /\ Kept' BY <1>23, Constants DEF Stop, Wakes, Waiting, Halted, TypeOK, OtherTypes, QueueRecord, Kept
  <2>4. (push.latch => ~Waiting)' BY <1>23 DEF Stop, Wakes, Waiting, Halted, TypeOK
  <2> QED BY <2>1, <2>2, <2>3, <2>4 DEF TypeOK, LoopRecord, PushRecord, OtherTypes, QueueRecord
<1>24. CASE Settle
  <2>1. loop' \in LoopRecord BY <1>24, Constants DEF Settle, Sends, TypeOK, LoopRecord
  <2>2. push' \in PushRecord BY <1>24 DEF Settle, Sends, TypeOK, PushRecord
  <2>3. OtherTypes' /\ Kept' BY <1>24, Constants DEF Settle, Sends, TypeOK, OtherTypes, QueueRecord, Kept
  <2>4. (push.latch => ~Waiting)' BY <1>24 DEF Settle, Sends, Waiting, TypeOK
  <2> QED BY <2>1, <2>2, <2>3, <2>4 DEF TypeOK, LoopRecord, PushRecord, OtherTypes, QueueRecord
<1>25. CASE Read
  <2>1. loop' \in LoopRecord BY <1>25, Constants DEF Read, TypeOK, LoopRecord
  <2>2. push' \in PushRecord BY <1>25 DEF Read, TypeOK, PushRecord
  <2>3. OtherTypes' /\ Kept' BY <1>25, Constants DEF Read, TypeOK, OtherTypes, QueueRecord, Kept
  <2>4. (push.latch => ~Waiting)' BY <1>25 DEF Read, Waiting, TypeOK
  <2> QED BY <2>1, <2>2, <2>3, <2>4 DEF TypeOK, LoopRecord, PushRecord, OtherTypes, QueueRecord
<1>26. CASE Look
  <2>1. loop' \in LoopRecord BY <1>26, Constants DEF Look, TypeOK, LoopRecord
  <2>2. push' \in PushRecord BY <1>26 DEF Look, TypeOK, PushRecord
  <2>3. OtherTypes' /\ Kept' BY <1>26, Constants DEF Look, TypeOK, OtherTypes, QueueRecord, Kept
  <2>4. (push.latch => ~Waiting)' BY <1>26 DEF Look, Waiting, TypeOK
  <2> QED BY <2>1, <2>2, <2>3, <2>4 DEF TypeOK, LoopRecord, PushRecord, OtherTypes, QueueRecord
<1>27. CASE StopWaiting
  <2>1. loop' \in LoopRecord BY <1>27, Constants DEF StopWaiting, TypeOK, LoopRecord
  <2>2. push' \in PushRecord BY <1>27 DEF StopWaiting, Waiting, TypeOK, PushRecord
  <2>3. OtherTypes' /\ Kept' BY <1>27, Constants DEF StopWaiting, TypeOK, OtherTypes, QueueRecord, Kept
  <2>4. (push.latch => ~Waiting)' BY <1>27 DEF StopWaiting, Waiting, TypeOK
  <2> QED BY <2>1, <2>2, <2>3, <2>4 DEF TypeOK, LoopRecord, PushRecord, OtherTypes, QueueRecord
<1>28. CASE UNCHANGED vars
  BY <1>28 DEF vars, TypeOK, Kept, Waiting
<1> QED BY <1>1, <1>2, <1>3, <1>4, <1>5, <1>6, <1>7, <1>8, <1>9, <1>10, <1>11, <1>12, <1>13, <1>14, <1>15, <1>16, <1>17, <1>18, <1>19, <1>20, <1>21, <1>22, <1>23, <1>24, <1>25, <1>26, <1>27, <1>28 DEF Next

(* Every step leaves an enqueue on its way, or remembered, or about to be polled for. *)
LEMMA AttentiveStep ==
  ASSUME TypeOK, Attentive, [Next]_vars
  PROVE  Attentive'
<1>1. CASE Start
  BY <1>1, LoopConstants DEF Start, TypeOK, Attentive, Sleeps, Waiting
<1>2. CASE Connect
  BY <1>2, LoopConstants DEF Connect, TypeOK, Attentive, Sleeps, Waiting
<1>3. CASE Listening
  BY <1>3, LoopConstants DEF Listening, FireWork, Waiting, TypeOK, Attentive, Sleeps
<1>4. CASE Drop
  BY <1>4, LoopConstants DEF Drop, TypeOK, Attentive, Sleeps, Waiting
<1>5. CASE Close
  BY <1>5, LoopConstants DEF Close, TypeOK, Attentive, Sleeps, Waiting
<1>6. CASE Closed
  BY <1>6, LoopConstants DEF Closed, FireWork, Waiting, TypeOK, Attentive, Sleeps
<1>7. CASE NotifyWake
  BY <1>7, LoopConstants DEF NotifyWake, FireWork, Waiting, TypeOK, Attentive, Sleeps
<1>8. CASE NotifyDone
  BY <1>8, LoopConstants DEF NotifyDone, TypeOK, Attentive, Sleeps, Waiting
<1>9. CASE Enqueue
  BY <1>9, LoopConstants DEF Enqueue, Sends, TypeOK, Attentive, Sleeps, Waiting
<1>10. CASE PeerClaims
  BY <1>10, LoopConstants DEF PeerClaims, TypeOK, Attentive, Sleeps, Waiting
<1>11. CASE LateClaim
  BY <1>11, LoopConstants DEF LateClaim, Least, TypeOK, Attentive, Sleeps, Waiting
<1>12. CASE Expire
  BY <1>12, LoopConstants DEF Expire, TypeOK, Attentive, Sleeps, Waiting
<1>13. CASE BeginPaused
  BY <1>13, LoopConstants DEF BeginPaused, Idles, TypeOK, Attentive, Sleeps, Waiting
<1>14. CASE Begin
  BY <1>14, LoopConstants DEF Begin, Poll, Halted, TypeOK, Attentive, Sleeps, Waiting
<1>15. CASE Claim
  BY <1>15, LoopConstants DEF Claim, Least, Halted, TypeOK, Attentive, Sleeps, Waiting
<1>16. CASE PollFails
  BY <1>16, LoopConstants DEF PollFails, TypeOK, Attentive, Sleeps, Waiting
<1>17. CASE PollHangs
  BY <1>17, LoopConstants DEF PollHangs, TypeOK, Attentive, Sleeps, Waiting
<1>18. CASE EndTick
  BY <1>18, LoopConstants DEF EndTick, Idles, TypeOK, Attentive, Sleeps, Waiting
<1>19. CASE End
  BY <1>19, LoopConstants DEF End, TypeOK, Attentive, Sleeps, Waiting
<1>20. CASE TimeOut
  BY <1>20, LoopConstants DEF TimeOut, Waiting, TypeOK, Attentive, Sleeps
<1>21. CASE Pause
  BY <1>21, LoopConstants DEF Pause, Wakes, Waiting, Halted, TypeOK, Attentive, Sleeps
<1>22. CASE Resume
  BY <1>22, LoopConstants DEF Resume, Wakes, Waiting, TypeOK, Attentive, Sleeps
<1>23. CASE Stop
  BY <1>23, LoopConstants DEF Stop, Wakes, Waiting, Halted, TypeOK, Attentive, Sleeps
<1>24. CASE Settle
  BY <1>24, LoopConstants DEF Settle, Sends, TypeOK, Attentive, Sleeps, Waiting
<1>25. CASE Read
  BY <1>25, LoopConstants DEF Read, TypeOK, Attentive, Sleeps, Waiting
<1>26. CASE Look
  BY <1>26, LoopConstants DEF Look, TypeOK, Attentive, Sleeps, Waiting
<1>27. CASE StopWaiting
  BY <1>27, LoopConstants DEF StopWaiting, TypeOK, Attentive, Sleeps, Waiting
<1>28. CASE UNCHANGED vars
  BY <1>28 DEF vars, TypeOK, Attentive, Sleeps, Waiting
<1> QED BY <1>1, <1>2, <1>3, <1>4, <1>5, <1>6, <1>7, <1>8, <1>9, <1>10, <1>11, <1>12, <1>13, <1>14, <1>15, <1>16, <1>17, <1>18, <1>19, <1>20, <1>21, <1>22, <1>23, <1>24, <1>25, <1>26, <1>27, <1>28 DEF Next

(* Every step leaves at most the poll under way to a halted loop. *)
LEMMA GatedStep ==
  ASSUME TypeOK, Gated, [Next]_vars
  PROVE  Gated'
<1>1. CASE Start
  BY <1>1, LoopConstants DEF Start, TypeOK, Gated, Sleeps, Waiting, Halted
<1>2. CASE Connect
  BY <1>2, LoopConstants DEF Connect, TypeOK, Gated, Sleeps, Waiting, Halted
<1>3. CASE Listening
  BY <1>3, LoopConstants DEF Listening, FireWork, Waiting, TypeOK, Gated, Sleeps, Halted
<1>4. CASE Drop
  BY <1>4, LoopConstants DEF Drop, TypeOK, Gated, Sleeps, Waiting, Halted
<1>5. CASE Close
  BY <1>5, LoopConstants DEF Close, TypeOK, Gated, Sleeps, Waiting, Halted
<1>6. CASE Closed
  BY <1>6, LoopConstants DEF Closed, FireWork, Waiting, TypeOK, Gated, Sleeps, Halted
<1>7. CASE NotifyWake
  BY <1>7, LoopConstants DEF NotifyWake, FireWork, Waiting, TypeOK, Gated, Sleeps, Halted
<1>8. CASE NotifyDone
  BY <1>8, LoopConstants DEF NotifyDone, TypeOK, Gated, Sleeps, Waiting, Halted
<1>9. CASE Enqueue
  BY <1>9, LoopConstants DEF Enqueue, Sends, TypeOK, Gated, Sleeps, Waiting, Halted
<1>10. CASE PeerClaims
  BY <1>10, LoopConstants DEF PeerClaims, TypeOK, Gated, Sleeps, Waiting, Halted
<1>11. CASE LateClaim
  BY <1>11, LoopConstants DEF LateClaim, Least, TypeOK, Gated, Sleeps, Waiting, Halted
<1>12. CASE Expire
  BY <1>12, LoopConstants DEF Expire, TypeOK, Gated, Sleeps, Waiting, Halted
<1>13. CASE BeginPaused
  BY <1>13, LoopConstants DEF BeginPaused, Idles, TypeOK, Gated, Sleeps, Waiting, Halted
<1>14. CASE Begin
  BY <1>14, LoopConstants DEF Begin, Poll, Halted, TypeOK, Gated, Sleeps, Waiting
<1>15. CASE Claim
  BY <1>15, LoopConstants DEF Claim, Least, Halted, TypeOK, Gated, Sleeps, Waiting
<1>16. CASE PollFails
  BY <1>16, LoopConstants DEF PollFails, TypeOK, Gated, Sleeps, Waiting, Halted
<1>17. CASE PollHangs
  BY <1>17, LoopConstants DEF PollHangs, TypeOK, Gated, Sleeps, Waiting, Halted
<1>18. CASE EndTick
  BY <1>18, LoopConstants DEF EndTick, Idles, TypeOK, Gated, Sleeps, Waiting, Halted
<1>19. CASE End
  BY <1>19, LoopConstants DEF End, TypeOK, Gated, Sleeps, Waiting, Halted
<1>20. CASE TimeOut
  BY <1>20, LoopConstants DEF TimeOut, Waiting, TypeOK, Gated, Sleeps, Halted
<1>21. CASE Pause
  BY <1>21, LoopConstants DEF Pause, Wakes, Waiting, Halted, TypeOK, Gated, Sleeps
<1>22. CASE Resume
  BY <1>22, LoopConstants DEF Resume, Wakes, Waiting, TypeOK, Gated, Sleeps, Halted
<1>23. CASE Stop
  BY <1>23, LoopConstants DEF Stop, Wakes, Waiting, Halted, TypeOK, Gated, Sleeps
<1>24. CASE Settle
  BY <1>24, LoopConstants DEF Settle, Sends, TypeOK, Gated, Sleeps, Waiting, Halted
<1>25. CASE Read
  BY <1>25, LoopConstants DEF Read, TypeOK, Gated, Sleeps, Waiting, Halted
<1>26. CASE Look
  BY <1>26, LoopConstants DEF Look, TypeOK, Gated, Sleeps, Waiting, Halted
<1>27. CASE StopWaiting
  BY <1>27, LoopConstants DEF StopWaiting, TypeOK, Gated, Sleeps, Waiting, Halted
<1>28. CASE UNCHANGED vars
  BY <1>28 DEF vars, TypeOK, Gated, Sleeps, Waiting, Halted
<1> QED BY <1>1, <1>2, <1>3, <1>4, <1>5, <1>6, <1>7, <1>8, <1>9, <1>10, <1>11, <1>12, <1>13, <1>14, <1>15, <1>16, <1>17, <1>18, <1>19, <1>20, <1>21, <1>22, <1>23, <1>24, <1>25, <1>26, <1>27, <1>28 DEF Next

(* The inductive invariant of the loop, its gate and its listener. *)
THEOREM LoopInductive == Spec => []IInv
<1>1. IInv /\ [Next]_vars => IInv'
  BY TypeStep, AttentiveStep, GatedStep DEF IInv
<1> QED BY InitHolds, <1>1, PTL DEF Spec

(* Loop, gate, listener and caller keep their types, and no wake is latched under a wait. *)
THEOREM LoopTypeCorrect == Spec => []TypeOK
<1>1. IInv => TypeOK
  BY DEF IInv
<1> QED BY LoopInductive, <1>1, PTL

(* The push of notify.ts misses nothing: a connected loop that sleeps past an enqueue has *)
(* its notification coming.                                                              *)
THEOREM NeverStalls == Spec => []NoStall
<1>1. IInv => NoStall
  BY DEF IInv, TypeOK, Attentive, Sleeps, NoStall
<1> QED BY LoopInductive, <1>1, PTL

(* pause(), resume() and stop() of engine.ts land on the next claim. *)
THEOREM GateAlwaysHolds == Spec => []GateHolds
<1>1. IInv => GateHolds
  BY DEF IInv, Gated, Sleeps, GateHolds
<1> QED BY LoopInductive, <1>1, PTL
=============================================================================
