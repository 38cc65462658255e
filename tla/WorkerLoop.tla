----------------------------- MODULE WorkerLoop -----------------------------
(***************************************************************************)
(* A resident worker: the loop of engine.run, the gate and the stop signal *)
(* that end its waits, the Postgres listener that ends them early, and a   *)
(* caller of result().  One process runs them on one thread, so what is    *)
(* between two awaits is one step.                                         *)
(*                                                                         *)
(* The queue is a number of jobs, which other processes add to and take    *)
(* from.  A process without a listener is one that never starts it.  Time  *)
(* is left out: a wait of any length may end at any moment, which covers   *)
(* every tickMs, maxIdleMs and pollMs, so the idle back-off is no state.   *)
(***************************************************************************)
EXTENDS Naturals

CONSTANTS Batch,     \* batchMax
          Arrivals,  \* bound: how many jobs are ever enqueued
          Hangs      \* bound: how many polls ever exceed their deadline

ASSUME LoopConstants == Batch \in Nat \ {0} /\ {Arrivals, Hangs} \subseteq Nat

VARIABLES queue,   \* the jobs: to come, claimable, and leased by a poll nobody waits for
          unseen,  \* history: a job was enqueued since the loop's last poll began
          loop,    \* where the loop is, what it claimed, its late poll
          gate,    \* paused, stopping; history: claims since then, a poll since the resume
          push,    \* the listener's connection, pendingWake, the notifications on their way
          caller   \* result(): where it is, what it read, and whether the run settled

vars == <<queue, unseen, loop, gate, push, caller>>

Least(m, n) == IF m < n THEN m ELSE n
Waiting == loop.pc = "waiting"
Halted == gate.paused \/ gate.stopping

Init ==
  /\ queue = [tocome |-> Arrivals, ready |-> 0, stuck |-> 0] /\ unseen = FALSE
  /\ loop = [pc |-> "top", n |-> 0, late |-> FALSE, hangs |-> 0]
  /\ gate = [paused |-> FALSE, stopping |-> FALSE, claims |-> 0, polled |-> TRUE]
  /\ push = [conn |-> "idle", closing |-> FALSE, latch |-> FALSE, flight |-> {}]
  /\ caller = [pc |-> "read", saw |-> FALSE, settled |-> FALSE]

-----------------------------------------------------------------------------
(* The listener *)

(* What is handed to a waiter is not remembered; what finds no waiter is. *)
FireEdge(p) == push' = p /\ loop' = [loop EXCEPT !.pc = IF Waiting THEN "top" ELSE @]
FireWork(p) ==
  IF Waiting THEN loop' = [loop EXCEPT !.pc = "top"] /\ push' = p
  ELSE push' = [p EXCEPT !.latch = TRUE] /\ UNCHANGED loop

Sends(channel) == IF push.conn = "listening" \/ (push.conn = "opening" /\ channel = "wake")
                  THEN [push EXCEPT !.flight = @ \cup {channel}] ELSE push

Start ==
  /\ push.conn = "idle" /\ push' = [push EXCEPT !.conn = "connecting"]
  /\ UNCHANGED <<queue, unseen, loop, gate, caller>>

(* LISTEN on the wake channel, and then on the others; a wake may have been missed. *)
Connect ==
  /\ push.conn = "connecting" /\ ~push.closing /\ push' = [push EXCEPT !.conn = "opening"]
  /\ UNCHANGED <<queue, unseen, loop, gate, caller>>
Listening ==
  /\ push.conn = "opening" /\ FireWork([push EXCEPT !.conn = "listening"])
  /\ UNCHANGED <<queue, unseen, gate, caller>>

(* The connection is lost, and what was on its way; after a back-off it is opened again. *)
Drop ==
  /\ push.conn \in {"opening", "listening"}
  /\ push' = [push EXCEPT !.conn = "connecting", !.flight = {}]
  /\ UNCHANGED <<queue, unseen, loop, gate, caller>>

(* close() releases a connection that listens; one that is still being opened learns of  *)
(* it only while it connects, and else listens until it is lost.                         *)
Close ==
  /\ push.conn # "idle" /\ ~push.closing
  /\ push' = IF push.conn = "listening" THEN [push EXCEPT !.closing = TRUE, !.conn = "connecting", !.flight = {}]
             ELSE [push EXCEPT !.closing = TRUE]
  /\ UNCHANGED <<queue, unseen, loop, gate, caller>>
Closed ==
  /\ push.closing /\ push.conn = "connecting"
  /\ FireWork([push EXCEPT !.conn = "idle", !.closing = FALSE])
  /\ UNCHANGED <<queue, unseen, gate, caller>>

NotifyWake ==
  /\ "wake" \in push.flight /\ FireWork([push EXCEPT !.flight = @ \ {"wake"}])
  /\ UNCHANGED <<queue, unseen, gate, caller>>

NotifyDone ==
  /\ "done" \in push.flight /\ push' = [push EXCEPT !.flight = @ \ {"done"}]
  /\ caller' = [caller EXCEPT !.pc = IF @ = "wait" THEN "read" ELSE @]
  /\ UNCHANGED <<queue, unseen, loop, gate>>

-----------------------------------------------------------------------------
(* The queue, and who else uses it *)

Enqueue ==
  /\ queue.tocome > 0 /\ queue' = [queue EXCEPT !.tocome = @ - 1, !.ready = @ + 1]
  /\ unseen' = TRUE /\ push' = Sends("wake") /\ UNCHANGED <<loop, gate, caller>>

PeerClaims ==
  /\ queue.ready > 0 /\ queue' = [queue EXCEPT !.ready = @ - 1]
  /\ UNCHANGED <<unseen, loop, gate, push, caller>>

(* A poll that outlived its deadline claims all the same: its leases have to expire. *)
LateClaim ==
  LET n == Least(Batch, queue.ready)
  IN  /\ loop.late /\ loop' = [loop EXCEPT !.late = FALSE]
      /\ queue' = [queue EXCEPT !.ready = @ - n, !.stuck = @ + n]
      /\ UNCHANGED <<unseen, gate, push, caller>>

(* A lease that expires notifies nobody. *)
Expire ==
  /\ queue.stuck > 0 /\ queue' = [queue EXCEPT !.ready = @ + queue.stuck, !.stuck = 0]
  /\ UNCHANGED <<unseen, loop, gate, push, caller>>

-----------------------------------------------------------------------------
(* The loop *)

(* A wait: over at once if a wake was latched, or the engine is stopping. *)
IdlesRegardless(l) == loop' = [l EXCEPT !.pc = IF gate.stopping THEN "top" ELSE "waiting"] /\ UNCHANGED push
Idles(l) ==
  IF push.latch THEN push' = [push EXCEPT !.latch = FALSE] /\ loop' = [l EXCEPT !.pc = "top"]
  ELSE loop' = [l EXCEPT !.pc = IF gate.stopping THEN "top" ELSE "waiting"] /\ UNCHANGED push

BeginPaused ==
  /\ loop.pc = "top" /\ ~gate.stopping /\ gate.paused /\ Idles(loop)
  /\ UNCHANGED <<queue, unseen, gate, caller>>

Poll ==
  /\ loop' = [loop EXCEPT !.pc = "poll"] /\ unseen' = FALSE
  /\ gate' = [gate EXCEPT !.polled = TRUE] /\ UNCHANGED <<queue, push, caller>>
BeginRegardless == loop.pc = "top" /\ ~gate.stopping /\ Poll
Begin == loop.pc = "top" /\ ~Halted /\ Poll

Claim ==
  LET n == Least(Batch, queue.ready)
  IN  /\ loop.pc = "poll" /\ loop' = [loop EXCEPT !.pc = "ran", !.n = n]
      /\ queue' = [queue EXCEPT !.ready = @ - n]
      /\ gate' = [gate EXCEPT !.claims = IF Halted THEN @ + 1 ELSE 0]
      /\ UNCHANGED <<unseen, push, caller>>

(* The poll fails, or exceeds its deadline and goes on behind the loop's back. *)
PollFails ==
  /\ loop.pc = "poll" /\ loop' = [loop EXCEPT !.pc = "ran", !.n = 0]
  /\ UNCHANGED <<queue, unseen, gate, push, caller>>
PollHangs ==
  /\ loop.pc = "poll" /\ ~loop.late /\ loop.hangs < Hangs
  /\ loop' = [loop EXCEPT !.pc = "ran", !.n = 0, !.late = TRUE, !.hangs = @ + 1]
  /\ UNCHANGED <<queue, unseen, gate, push, caller>>

(* The batch has run: claim again at once after a full one, wait after any other. *)
EndTick ==
  LET l == [loop EXCEPT !.n = 0]
  IN  /\ loop.pc = "ran" /\ ~gate.stopping
      /\ IF loop.n >= Batch THEN loop' = [l EXCEPT !.pc = "top"] /\ UNCHANGED push ELSE Idles(l)
      /\ UNCHANGED <<queue, unseen, gate, caller>>

EndAfterTick ==
  /\ loop.pc = "ran" /\ gate.stopping /\ loop' = [loop EXCEPT !.pc = "ended", !.n = 0]
  /\ UNCHANGED <<queue, unseen, gate, push, caller>>
End ==
  /\ loop.pc \in {"top", "ran"} /\ gate.stopping /\ loop' = [loop EXCEPT !.pc = "ended", !.n = 0]
  /\ UNCHANGED <<queue, unseen, gate, push, caller>>

TimeOutUnlessPushed ==
  /\ Waiting /\ push.conn = "idle" /\ loop' = [loop EXCEPT !.pc = "top"]
  /\ UNCHANGED <<queue, unseen, gate, push, caller>>
TimeOut ==
  /\ Waiting /\ loop' = [loop EXCEPT !.pc = "top"]
  /\ UNCHANGED <<queue, unseen, gate, push, caller>>

(* Every flip of the gate, and the stop signal, ends the wait that is under way. *)
StaysAsleep == UNCHANGED loop
Wakes == loop' = [loop EXCEPT !.pc = IF Waiting THEN "top" ELSE @]

Pause ==
  /\ ~gate.paused /\ Wakes
  /\ gate' = [gate EXCEPT !.paused = TRUE, !.claims = IF Halted THEN @ ELSE 0]
  /\ UNCHANGED <<queue, unseen, push, caller>>

Resume ==
  /\ gate.paused /\ Wakes
  /\ gate' = [gate EXCEPT !.paused = FALSE, !.polled = loop.pc \in {"poll", "ran", "ended"}]
  /\ UNCHANGED <<queue, unseen, push, caller>>

Stop ==
  /\ ~gate.stopping /\ Wakes
  /\ gate' = [gate EXCEPT !.stopping = TRUE, !.claims = IF Halted THEN @ ELSE 0]
  /\ UNCHANGED <<queue, unseen, push, caller>>

-----------------------------------------------------------------------------
(* A caller of result() *)

Settle ==
  /\ ~caller.settled /\ caller' = [caller EXCEPT !.settled = TRUE] /\ push' = Sends("done")
  /\ UNCHANGED <<queue, unseen, loop, gate>>

Read ==
  /\ caller.pc = "read" /\ caller' = [caller EXCEPT !.pc = "look", !.saw = caller.settled]
  /\ UNCHANGED <<queue, unseen, loop, gate, push>>

(* Its deadline may have passed whenever it looks at what it read. *)
Look ==
  /\ caller.pc = "look"
  /\ \E pc \in IF caller.saw THEN {"answered"} ELSE {"threw", "wait"} :
       caller' = [caller EXCEPT !.pc = pc, !.saw = FALSE]
  /\ UNCHANGED <<queue, unseen, loop, gate, push>>

(* A nudge of this process, or the end of the poll tick. *)
StopWaiting ==
  /\ caller.pc = "wait" /\ caller' = [caller EXCEPT !.pc = "read"]
  /\ UNCHANGED <<queue, unseen, loop, gate, push>>

-----------------------------------------------------------------------------

Next ==
  \/ Start \/ Connect \/ Listening \/ Drop \/ Close \/ Closed \/ NotifyWake \/ NotifyDone
  \/ Enqueue \/ PeerClaims \/ LateClaim \/ Expire
  \/ BeginPaused \/ Begin \/ Claim \/ PollFails \/ PollHangs \/ EndTick \/ End \/ TimeOut
  \/ Pause \/ Resume \/ Stop
  \/ Settle \/ Read \/ Look \/ StopWaiting

(* The thread runs and its timers fire; leases expire; a poll that is made again and     *)
(* again succeeds at times.  Nothing is asked of the listener.                           *)
Fairness ==
  /\ WF_vars(BeginPaused) /\ WF_vars(Begin) /\ WF_vars(EndTick) /\ WF_vars(End) /\ WF_vars(TimeOut)
  /\ WF_vars(Claim \/ PollFails \/ PollHangs) /\ SF_vars(Claim) /\ WF_vars(LateClaim) /\ WF_vars(Expire)
  /\ WF_vars(Read) /\ WF_vars(Look) /\ WF_vars(StopWaiting)

Spec == Init /\ [][Next]_vars /\ Fairness

-----------------------------------------------------------------------------

(* The kinds of values; a wake is latched for nobody but a loop that is not waiting. *)
TypeOK ==
  /\ queue \in [tocome : 0..Arrivals, ready : 0..Arrivals, stuck : 0..Arrivals] /\ unseen \in BOOLEAN
  /\ loop \in [pc : {"top", "poll", "ran", "waiting", "ended"}, n : 0..Batch, late : BOOLEAN, hangs : 0..Hangs]
  /\ gate \in [paused : BOOLEAN, stopping : BOOLEAN, claims : Nat, polled : BOOLEAN]
  /\ push \in [conn : {"idle", "connecting", "opening", "listening"}, closing : BOOLEAN, latch : BOOLEAN,
               flight : SUBSET {"wake", "done"}]
  /\ caller \in [pc : {"read", "look", "wait", "answered", "threw"}, saw : BOOLEAN, settled : BOOLEAN]
  /\ push.latch => ~Waiting

(* While the listener is connected, no job that was enqueued since the last poll began   *)
(* is slept on: the notification is on its way, or it ended the wait, or it was          *)
(* remembered for the next one (notify.ts: a missed wake costs a tick at most, and none  *)
(* is missed while listening).                                                           *)
NoStall ==
  Waiting /\ unseen /\ ~gate.paused /\ push.conn = "listening" => "wake" \in push.flight

(* A pause and a stop take effect on the next claim: at most the poll that was under way *)
(* still claims.  A resume takes effect at once: the loop does not sleep on a wait that  *)
(* began before it (engine.ts, pause and resume).                                        *)
GateHolds ==
  /\ Halted => gate.claims <= 1
  /\ Waiting /\ ~gate.paused => gate.polled

(* Pushed or not, whatever is enqueued is taken, by this worker or by a peer, unless the *)
(* worker is paused or stopped: polls that fail, polls that claim too late, and leases   *)
(* that nobody announces the end of, included.                                           *)
Drains == (queue.ready + queue.stuck > 0) ~> (queue.ready + queue.stuck = 0 \/ Halted)

(* Whoever waits is answered: stop() sees the loop end, paused or not, and result()      *)
(* returns once its run has settled, though the notification came before it waited.      *)
Attends ==
  /\ gate.stopping ~> (loop.pc = "ended")
  /\ caller.settled ~> (caller.pc \in {"answered", "threw"})
=============================================================================
