-------------------------- MODULE RunEngineProofs ---------------------------
(***************************************************************************)
(* RunEngine for any workers, deployments, signals and delays: an outcome  *)
(* is final, executions between two parks are bounded, and, where the      *)
(* codes the workers run agree on the calls they share, every execution is *)
(* told the one history the log holds.                                     *)
(*                                                                         *)
(* What becomes of signals is left to RunSignalsProofs.                    *)
(***************************************************************************)
EXTENDS RunEngine, SequenceTheorems, TLAPS

(* A tick's record, as far as the steps rely on it: a tick that is to park or to finish *)
(* has decided on a status of the right kind, and only a body has been told answers.    *)
IsTick(x) ==
  /\ DOMAIN x = {"pc", "lease", "attempt", "seen", "inbox", "got", "out", "wake"}
  /\ x.pc = "suspend" => x.out \in Active
  /\ x.pc = "finish" => x.out \in Terminal
  /\ x.pc \notin {"body", "renew"} => x.got = <<>>

Ticks == wk = [w \in Workers |-> wk[w]] /\ \A w \in Workers : IsTick(wk[w])

(* Nothing but an enqueue makes a run runnable, and nobody enqueues one before it is made. *)
Unborn ==
  caller = "new" =>
    /\ run = NoRun /\ ~job.queued /\ timer = {} /\ sweep = "idle" /\ starts = 0
    /\ \A w \in Workers : wk[w].pc = "idle"

Row ==
  /\ run \in RunRow /\ (run.status = "absent" => run = NoRun)
  /\ run.attempts <= MaxAttempts + 1

(* Each execution since the last park was counted in the row's attempts. *)
Paid ==
  /\ starts \in Nat /\ starts <= MaxAttempts
  /\ run.status \in Active => starts <= run.attempts

Sound == job \in Job /\ Ticks /\ Unborn /\ Row /\ Paid

-----------------------------------------------------------------------------

LEMMA Constants ==
  /\ MaxAttempts \in Nat \ {0} /\ Workers \subseteq Nat \ {0} /\ StartDelay \in Nat
  /\ LeaseMs \in Nat /\ MaxVersion \in Nat
BY EngineConstants

(* What a tick turns into once its end is decided. *)
LEMMA Ends ==
  ASSUME NEW x
  PROVE  /\ IsTick(Idle) /\ Idle.pc = "idle" /\ IsTick(Acking(x)) /\ Acking(x).pc = "ack"
         /\ \A s \in Active : \A t : /\ IsTick(Suspending(x, s, t))
                                   /\ Suspending(x, s, t).pc = "suspend"
         /\ \A s \in Terminal : /\ IsTick(Finishing(x, s))
                                /\ Finishing(x, s).pc = "finish"
         /\ IsTick(ParkForRedeploy(x)) /\ ParkForRedeploy(x).pc = "suspend"
<1>1. IsTick(Idle) /\ Idle.pc = "idle"
  BY DEF IsTick, Idle
<1>2. IsTick(Acking(x)) /\ Acking(x).pc = "ack"
  BY DEF IsTick, Idle, Acking
<1>3. ASSUME NEW s \in Active, NEW t
      PROVE  IsTick(Suspending(x, s, t)) /\ Suspending(x, s, t).pc = "suspend"
  BY <1>3 DEF IsTick, Idle, Suspending
<1>4. ASSUME NEW s \in Terminal
      PROVE  IsTick(Finishing(x, s)) /\ Finishing(x, s).pc = "finish"
  BY <1>4 DEF IsTick, Idle, Finishing
<1>5. "parked" \in Active
  BY DEF Active
<1> QED BY <1>1, <1>2, <1>3, <1>4, <1>5 DEF ParkForRedeploy

LEMMA Answered ==
  ASSUME NEW x, IsTick(x), NEW val, x.pc \in {"body", "renew"}
  PROVE  /\ IsTick(Returned(x, val)) /\ Returned(x, val).pc = x.pc
         /\ Returned(x, val).seen = x.seen /\ Returned(x, val).got = Append(x.got, val)
BY DEF IsTick, Returned

LEMMA AnsweredAnd ==
  ASSUME NEW x, IsTick(x), x.pc \in {"body", "renew"}, NEW val
  PROVE  /\ IsTick([x EXCEPT !.pc = "renew"]) /\ [x EXCEPT !.pc = "renew"].pc = "renew"
         /\ [x EXCEPT !.pc = "renew"].seen = x.seen /\ [x EXCEPT !.pc = "renew"].got = x.got
         /\ IsTick([x EXCEPT !.inbox = val]) /\ [x EXCEPT !.inbox = val].pc = x.pc
         /\ [x EXCEPT !.inbox = val].seen = x.seen /\ [x EXCEPT !.inbox = val].got = x.got
BY DEF IsTick

(* A step of worker w moves its own record only. *)
LEMMA Moved ==
  ASSUME Ticks, NEW w \in Workers, NEW x, IsTick(x), wk' = [wk EXCEPT ![w] = x]
  PROVE  Ticks' /\ wk'[w] = x /\ \A v \in Workers : v # w => wk'[v] = wk[v]
<1>1. \A v \in Workers : wk'[v] = IF v = w THEN x ELSE wk[v]
  BY DEF Ticks
<1>2. wk' = [v \in Workers |-> wk'[v]]
  BY DEF Ticks
<1>3. \A v \in Workers : IsTick(wk'[v])
  BY <1>1 DEF Ticks
<1> QED BY <1>1, <1>2, <1>3 DEF Ticks

-----------------------------------------------------------------------------
(* What a step of worker w does to its tick and to the log.                             *)

(* A tick that has read the log and is not yet decided. *)
Reading == {"mark", "body", "renew"}

(* The worker logs the outcome of the call it stands at. *)
Logs(w) == Calling(w, Ops) /\ \E val : Checkpoint(w, val)

(* An answer from the snapshot, or the log's answer to a call, or a deadline. *)
Answer(w, val) ==
  \/ Replaying(w) /\ ~Drifted(w) /\ log' = log /\ val = wk[w].seen[Cursor(w)].val
  \/ Logs(w) /\ NextCall(w).op \in {"sleep", "pin"}
  \/ Calling(w, Ops) /\ \E own : Checkpoint(w, own) /\ val = CheckpointAnswer(w, own)

Course(w, x) ==
  \/ x.pc \notin Reading /\ (log' = log \/ Logs(w))
  \/ x.pc = "mark" /\ x.seen = log /\ log' = log /\ run # NoRun
  \/ /\ wk[w].pc \in Reading /\ x.pc \in {"body", "renew"}
     /\ x.seen = wk[w].seen /\ x.got = wk[w].got /\ log' = log
  \/ /\ wk[w].pc = "body" /\ x.pc \in {"body", "renew"} /\ x.seen = wk[w].seen
     /\ \E val : x.got = Append(wk[w].got, val) /\ Answer(w, val)

Goes(w) == \E x : IsTick(x) /\ wk' = [wk EXCEPT ![w] = x] /\ Course(w, x)

LEMMA GoesOn ==
  ASSUME NEW w, NEW x, IsTick(x), wk' = [wk EXCEPT ![w] = x], Course(w, x)
  PROVE  Goes(w)
BY DEF Goes

LEMMA LetsGo ==
  ASSUME Ticks, NEW w \in Workers,
         EnqueueDrained(w) \/ StartTooLate(w) \/ Ack(w) \/ RunGone(w) \/ Crash(w)
  PROVE  Goes(w)
<1>1. wk' = [wk EXCEPT ![w] = Idle] /\ log' = log
  BY DEF EnqueueDrained, StartTooLate, Ack, RunGone, Crash, stored
<1>2. IsTick(Idle) /\ Idle.pc = "idle"
  BY Ends
<1> QED BY <1>1, <1>2, GoesOn DEF Course, Reading

LEMMA Begins ==
  ASSUME Ticks, NEW w \in Workers, DrainTimer(w) \/ Claim(w) \/ StartRenewed(w)
  PROVE  Goes(w)
<1>1. IsTick(wk[w]) /\ log' = log
  BY DEF Ticks, DrainTimer, Claim, StartRenewed
<1>2. CASE DrainTimer(w)
  <2> DEFINE x == [wk[w] EXCEPT !.pc = "drain"]
  <2>1. wk' = [wk EXCEPT ![w] = x]
    BY <1>2 DEF DrainTimer
  <2>2. IsTick(x) /\ x.pc = "drain"
    BY <1>1, <1>2 DEF IsTick, DrainTimer
  <2> HIDE DEF x
  <2> QED BY <1>1, <2>1, <2>2, GoesOn DEF Course, Reading
<1>3. CASE Claim(w)
  <2> DEFINE x == [wk[w] EXCEPT !.pc = "start", !.lease = LeaseOn(job')]
  <2>1. wk' = [wk EXCEPT ![w] = x]
    BY <1>3 DEF Claim
  <2>2. IsTick(x) /\ x.pc = "start"
    BY <1>1, <1>3 DEF IsTick, Claim
  <2> HIDE DEF x
  <2> QED BY <1>1, <2>1, <2>2, GoesOn DEF Course, Reading
<1>4. CASE StartRenewed(w)
  <2> DEFINE x == [wk[w] EXCEPT !.pc = "load", !.lease = Extended(@, LeaseMs)]
  <2>1. wk' = [wk EXCEPT ![w] = x]
    BY <1>4 DEF StartRenewed
  <2>2. IsTick(x) /\ x.pc = "load"
    BY <1>1, <1>4 DEF IsTick, StartRenewed
  <2> HIDE DEF x
  <2> QED BY <1>1, <2>1, <2>2, GoesOn DEF Course, Reading
<1> QED BY <1>2, <1>3, <1>4

(* A tick that is decided, whatever it decided. *)
LEMMA Decides ==
  ASSUME NEW w, NEW x,
         \/ x = Acking(wk[w]) \/ x = ParkForRedeploy(wk[w])
         \/ \E s \in Terminal : x = Finishing(wk[w], s)
         \/ \E s \in Active : \E t : x = Suspending(wk[w], s, t),
         wk' = [wk EXCEPT ![w] = x], log' = log \/ Logs(w)
  PROVE  Goes(w)
<1>1. IsTick(x) /\ x.pc \in {"ack", "suspend", "finish"}
  BY Ends
<1>2. Course(w, x)
  BY <1>1 DEF Course, Reading
<1> QED BY <1>1, <1>2, GoesOn

LEMMA Decided ==
  ASSUME Ticks, NEW w \in Workers,
         \/ Drift(w) \/ RejectSignal(w) \/ AwaitSignal(w) \/ Suspend(w) \/ Finish(w)
         \/ \E permanent \in BOOLEAN : StepThrows(w, permanent)
  PROVE  Goes(w)
<1> USE DEF Active, Terminal
<1>1. log' = log
  BY DEF Drift, RejectSignal, AwaitSignal, Suspend, Finish, StepThrows, stored
<1>2. CASE Drift(w)
  BY <1>1, <1>2, Decides DEF Drift
<1>3. CASE RejectSignal(w)
  BY <1>1, <1>3, Decides DEF RejectSignal
<1>4. CASE AwaitSignal(w)
  BY <1>1, <1>4, Decides DEF AwaitSignal
<1>5. CASE Suspend(w) \/ Finish(w)
  BY <1>1, <1>5, Decides DEF Suspend, Finish
<1>6. ASSUME NEW permanent \in BOOLEAN, StepThrows(w, permanent) PROVE Goes(w)
  BY <1>1, <1>6, Decides DEF StepThrows
<1> QED BY <1>2, <1>3, <1>4, <1>5, <1>6

LEMMA Loads ==
  ASSUME Ticks, Row, NEW w \in Workers, Load(w)
  PROVE  Goes(w)
<1> DEFINE x == [wk[w] EXCEPT !.pc = "mark", !.seen = log, !.inbox = inbox]
<1>1. IsTick(wk[w]) /\ log' = log
  BY DEF Ticks, Load, stored
<1>2. CASE wk' = [wk EXCEPT ![w] = x] /\ run # NoRun
  <2>1. IsTick(x) /\ x.pc = "mark" /\ x.seen = log
    BY <1>1 DEF IsTick, Load
  <2> HIDE DEF x
  <2> QED BY <1>1, <1>2, <2>1, GoesOn DEF Course
<1>3. CASE wk' = [wk EXCEPT ![w] = Acking(wk[w])] \/ wk' = [wk EXCEPT ![w] = ParkForRedeploy(wk[w])]
  BY <1>1, <1>3, Decides
<1> QED BY <1>2, <1>3 DEF Load

LEMMA Marks ==
  ASSUME Ticks, NEW w \in Workers, MarkRunning(w)
  PROVE  Goes(w)
<1> DEFINE x == [wk[w] EXCEPT !.pc = "body", !.attempt = run'.attempts]
<1>1. IsTick(wk[w]) /\ log' = log
  BY DEF Ticks, MarkRunning
<1>2. CASE wk' = [wk EXCEPT ![w] = x]
  <2>1. IsTick(x) /\ x.pc = "body" /\ x.seen = wk[w].seen /\ x.got = wk[w].got
    BY <1>1 DEF IsTick, MarkRunning
  <2> HIDE DEF x
  <2> QED BY <1>1, <1>2, <2>1, GoesOn DEF Course, Reading, MarkRunning
<1>3. CASE wk' = [wk EXCEPT ![w] = Finishing(wk[w], "failed")]
  BY <1>1, <1>3, Decides DEF Terminal
<1> QED BY <1>2, <1>3 DEF MarkRunning

LEMMA Renews ==
  ASSUME Ticks, NEW w \in Workers, Renew(w)
  PROVE  Goes(w)
<1> DEFINE x == [wk[w] EXCEPT !.pc = "body"]
           y == [wk[w] EXCEPT !.pc = "body", !.lease = Extended(@, LeaseMs)]
<1>1. IsTick(wk[w]) /\ log' = log /\ wk[w].pc \in {"body", "renew"}
  BY DEF Ticks, Renew, Calling, InBody
<1>2. wk' = [wk EXCEPT ![w] = x] \/ wk' = [wk EXCEPT ![w] = y]
  BY DEF Renew, Renewed
<1>3. /\ IsTick(x) /\ x.pc = "body" /\ x.seen = wk[w].seen /\ x.got = wk[w].got
      /\ IsTick(y) /\ y.pc = "body" /\ y.seen = wk[w].seen /\ y.got = wk[w].got
  BY <1>1 DEF IsTick
<1> HIDE DEF x, y
<1> QED BY <1>1, <1>2, <1>3, GoesOn DEF Course, Reading

(* A call that is answered, and the body goes on. *)
LEMMA GoesOnWith ==
  ASSUME Ticks, NEW w \in Workers, wk[w].pc = "body", NEW val, Answer(w, val), NEW x, IsTick(x),
         x.pc \in {"body", "renew"}, x.seen = wk[w].seen, x.got = Append(wk[w].got, val),
         wk' = [wk EXCEPT ![w] = x]
  PROVE  Goes(w)
<1>1. Course(w, x)
  BY DEF Course
<1> QED BY <1>1, GoesOn

LEMMA Returns ==
  ASSUME Ticks, NEW w \in Workers, wk[w].pc = "body", NEW val, Answer(w, val),
         wk' = [wk EXCEPT ![w] = Returned(wk[w], val)]
  PROVE  Goes(w)
<1> DEFINE x == Returned(wk[w], val)
<1>1. IsTick(wk[w])
  BY DEF Ticks
<1>2. IsTick(x) /\ x.pc = "body" /\ x.seen = wk[w].seen /\ x.got = Append(wk[w].got, val)
  BY <1>1, Answered
<1>3. wk' = [wk EXCEPT ![w] = x]
  OBVIOUS
<1> HIDE DEF x
<1> QED BY <1>2, <1>3, GoesOnWith

LEMMA SleepsOrReturns ==
  ASSUME Ticks, NEW w \in Workers, wk[w].pc = "body", NEW at, Answer(w, at),
         wk' = [wk EXCEPT ![w] = SleptUntil(wk[w], at)], log' = log \/ Logs(w)
  PROVE  Goes(w)
<1>1. CASE wk' = [wk EXCEPT ![w] = Returned(wk[w], at)]
  BY <1>1, Returns
<1>2. CASE wk' = [wk EXCEPT ![w] = Suspending(wk[w], "sleeping", {at})]
  BY <1>2, Decides DEF Active
<1> QED BY <1>1, <1>2 DEF SleptUntil

LEMMA Replays ==
  ASSUME Ticks, NEW w \in Workers, Replay(w)
  PROVE  Goes(w)
<1> DEFINE val == wk[w].seen[Cursor(w)].val
<1>1. wk[w].pc = "body" /\ Answer(w, val) /\ log' = log
  BY DEF Replay, Replaying, InBody, Answer, stored
<1>2. \/ wk' = [wk EXCEPT ![w] = SleptUntil(wk[w], val)]
      \/ wk' = [wk EXCEPT ![w] = Returned(wk[w], val)]
  BY DEF Replay
<1> HIDE DEF val
<1> QED BY <1>1, <1>2, SleepsOrReturns, Returns

LEMMA Pins ==
  ASSUME Ticks, NEW w \in Workers, Pin(w)
  PROVE  Goes(w)
<1>1. PICK at : /\ Checkpoint(w, at)
                /\ \/ wk' = [wk EXCEPT ![w] = SleptUntil(wk[w], at)]
                   \/ wk' = [wk EXCEPT ![w] = Returned(wk[w], at)]
  BY DEF Pin
<1>2. wk[w].pc = "body" /\ Logs(w) /\ Answer(w, at)
  BY <1>1 DEF Pin, Calling, InBody, Logs, Answer, Ops
<1> QED BY <1>1, <1>2, SleepsOrReturns, Returns

LEMMA Takes ==
  ASSUME Ticks, NEW w \in Workers, RunStep(w) \/ TakeSignal(w) \/ TimeOut(w)
  PROVE  Goes(w)
<1>1. IsTick(wk[w]) /\ wk[w].pc = "body" /\ Calling(w, Ops)
  BY DEF Ticks, RunStep, TakeSignal, TimeOut, Calling, InBody, Ops
<1>2. ASSUME NEW own, Checkpoint(w, own) PROVE Answer(w, CheckpointAnswer(w, own))
  BY <1>1, <1>2 DEF Answer
<1>3. CASE RunStep(w)
  <2> DEFINE val == CheckpointAnswer(w, w)
             x == [Returned(wk[w], val) EXCEPT !.pc = "renew"]
  <2>1. wk' = [wk EXCEPT ![w] = x] /\ Answer(w, val)
    BY <1>2, <1>3 DEF RunStep
  <2> HIDE DEF val
  <2>2. IsTick(x) /\ x.pc = "renew" /\ x.seen = wk[w].seen /\ x.got = Append(wk[w].got, val)
    <3> DEFINE y == Returned(wk[w], val)
    <3>1. IsTick(y) /\ y.pc = "body" /\ y.seen = wk[w].seen /\ y.got = Append(wk[w].got, val)
      BY <1>1, Answered
    <3>2. x = [y EXCEPT !.pc = "renew"]
      OBVIOUS
    <3> HIDE DEF x, y
    <3> QED BY <3>1, <3>2, AnsweredAnd
  <2> HIDE DEF x
  <2> QED BY <1>1, <2>1, <2>2, GoesOnWith
<1>4. CASE TakeSignal(w)
  <2>1. PICK k : /\ Checkpoint(w, k)
                 /\ wk' = [wk EXCEPT ![w] = [Returned(wk[w], CheckpointAnswer(w, k)) EXCEPT
                                               !.inbox = Without(wk[w].inbox, k)]]
    BY <1>4 DEF TakeSignal
  <2> DEFINE val == CheckpointAnswer(w, k)
             x == [Returned(wk[w], val) EXCEPT !.inbox = Without(wk[w].inbox, k)]
  <2>2. wk' = [wk EXCEPT ![w] = x] /\ Answer(w, val)
    BY <1>2, <2>1
  <2> HIDE DEF val
  <2>3. IsTick(x) /\ x.pc = "body" /\ x.seen = wk[w].seen /\ x.got = Append(wk[w].got, val)
    <3> DEFINE y == Returned(wk[w], val)
    <3>1. IsTick(y) /\ y.pc = "body" /\ y.seen = wk[w].seen /\ y.got = Append(wk[w].got, val)
      BY <1>1, Answered
    <3>2. x = [y EXCEPT !.inbox = Without(wk[w].inbox, k)]
      OBVIOUS
    <3> HIDE DEF x, y
    <3> QED BY <3>1, <3>2, AnsweredAnd
  <2> HIDE DEF x
  <2> QED BY <1>1, <2>2, <2>3, GoesOnWith
<1>5. CASE TimeOut(w)
  <2>1. CASE log' = log /\ wk' = [wk EXCEPT ![w] = Suspending(wk[w], "awaiting_signal", {0})]
    BY <2>1, Decides DEF Active
  <2>2. CASE Checkpoint(w, 0) /\ wk' = [wk EXCEPT ![w] = Returned(wk[w], CheckpointAnswer(w, 0))]
    BY <1>1, <1>2, <2>2, Returns
  <2> QED BY <1>5, <2>1, <2>2 DEF TimeOut
<1> QED BY <1>3, <1>4, <1>5

(* Every step of a worker is one of these. *)
Steps(w) == DrainTimer(w) \/ Claim(w) \/ Work(w) \/ Crash(w)

LEMMA WorkerGoes ==
  ASSUME Ticks, Row, NEW w \in Workers, Steps(w)
  PROVE  Goes(w)
BY LetsGo, Begins, Decided, Loads, Marks, Renews, Replays, Pins, Takes DEF Steps, Work, StepEnds

-----------------------------------------------------------------------------

LEMMA Aged ==
  ASSUME NEW w, NEW x, IsTick(x)
  PROVE  /\ IsTick(AgedTick(w, x)) /\ AgedTick(w, x).pc = x.pc
         /\ AgedTick(w, x).seen = AgedLog(x.seen)
         /\ AgedTick(w, x).got = [i \in DOMAIN x.got |->
              IF deploy[w].calls[i].op \in {"sleep", "pin"} THEN Nearer(x.got[i]) ELSE x.got[i]]
<1> DEFINE got == [i \in DOMAIN x.got |->
              IF deploy[w].calls[i].op \in {"sleep", "pin"} THEN Nearer(x.got[i]) ELSE x.got[i]]
           wake == {Nearer(t) : t \in x.wake}
           seen == AgedLog(x.seen)
           y == [x EXCEPT !.lease.expires = Nearer(@), !.seen = seen, !.wake = wake, !.got = got]
<1>1. AgedTick(w, x) = y
  BY DEF AgedTick
<1>2. x.got = <<>> => got = <<>>
  OBVIOUS
<1> HIDE DEF got, wake, seen
<1>3. /\ DOMAIN y = DOMAIN x /\ y.pc = x.pc /\ y.out = x.out
      /\ y.seen = seen /\ y.got = got
  BY DEF IsTick
<1>4. IsTick(y)
  BY <1>2, <1>3 DEF IsTick
<1> QED BY <1>1, <1>3, <1>4 DEF got, seen

LEMMA TicksStep == Ticks /\ Row /\ [Next]_vars => Ticks'
<1> SUFFICES ASSUME Ticks, Row, [Next]_vars PROVE Ticks'
  OBVIOUS
<1>1. ASSUME NEW w \in Workers, Steps(w) PROVE Ticks'
  BY <1>1, WorkerGoes, Moved DEF Goes
<1>2. CASE wk' = wk
  BY <1>2 DEF Ticks
<1>3. CASE Tick
  <2>1. wk' = [w \in Workers |-> AgedTick(w, wk[w])]
    BY <1>3 DEF Tick
  <2>2. \A w \in Workers : wk'[w] = AgedTick(w, wk[w]) /\ IsTick(AgedTick(w, wk[w]))
    BY <2>1, Aged DEF Ticks
  <2>3. wk' = [w \in Workers |-> wk'[w]]
    BY <2>1
  <2> QED BY <2>2, <2>3 DEF Ticks
<1>4. CASE SubmitEnqueue \/ ReconcileScan \/ ReconcileEnqueue \/ SubmitDies \/ ReconcileDies \/ Callers
  BY <1>2, <1>4 DEF SubmitEnqueue, ReconcileScan, ReconcileEnqueue, SubmitDies, ReconcileDies, Callers,
                    SubmitStart, Cancel, Retry, Purge, PostSignal
<1>5. CASE UNCHANGED vars
  BY <1>2, <1>5 DEF vars
<1> QED BY <1>1, <1>3, <1>4, <1>5 DEF Next, Dies, Steps

LEMMA EnqueueTypes ==
  ASSUME job \in Job, NEW delay \in Nat, Enqueue(delay)
  PROVE  job' \in Job /\ job'.queued
<1> DEFINE j == Enqueued(job, delay)
<1>1. j \in Job /\ j.queued
  BY DEF Enqueued, Job
<1>2. job' = j \/ job' = [j EXCEPT !.version = MaxVersion]
  BY DEF Enqueue
<1> HIDE DEF j
<1> QED BY <1>1, <1>2, Constants DEF Job

LEMMA JobAged ==
  ASSUME NEW j \in Job
  PROVE  [j EXCEPT !.runAt = Nearer(@), !.expires = Nearer(@)] \in Job
<1>1. j.runAt \in Nat /\ j.expires \in Nat
  BY DEF Job
<1>2. Nearer(j.runAt) \in Nat /\ Nearer(j.expires) \in Nat
  BY <1>1 DEF Nearer
<1> QED BY <1>2 DEF Job

LEMMA RowTypes ==
  ASSUME NEW j \in Job
  PROVE  /\ NoJob \in Job /\ Extended(j, LeaseMs) \in Job
         /\ \A w \in Workers : Claimed(j, w, LeaseMs) \in Job
         /\ \A l : Acked(j, l, 0) \in Job
<1>1. NoJob \in Job /\ Extended(j, LeaseMs) \in Job /\ Released(j) \in Job
  BY Constants DEF NoJob, Extended, Released, Job
<1>2. \A w \in Workers : Claimed(j, w, LeaseMs) \in Job
  BY Constants DEF Claimed, Job
<1> QED BY <1>1, <1>2 DEF Acked

LEMMA JobStep == job \in Job /\ [Next]_vars => job' \in Job
<1> SUFFICES ASSUME job \in Job, [Next]_vars PROVE job' \in Job
  OBVIOUS
<1>1. CASE job' = job
  BY <1>1
<1>2. CASE \/ SubmitEnqueue \/ ReconcileEnqueue \/ Retry
           \/ (\E k \in Signals : PostSignal(k)) \/ (\E w \in Workers : EnqueueDrained(w))
  BY <1>2, EnqueueTypes, Constants
     DEF SubmitEnqueue, ReconcileEnqueue, Retry, PostSignal, EnqueueDrained
<1>3. CASE Purge
  BY <1>3, RowTypes DEF Purge
<1>4. CASE Tick
  BY <1>4, JobAged DEF Tick
<1>5. ASSUME NEW w \in Workers, Claim(w) \/ StartRenewed(w) \/ Renew(w) \/ Ack(w) PROVE job' \in Job
  BY <1>5, RowTypes DEF Claim, StartRenewed, Renew, Renewed, Ack
<1>6. ASSUME NEW w \in Workers, Steps(w) PROVE job' \in Job
  <2>1. \/ Claim(w) \/ StartRenewed(w) \/ Renew(w) \/ Ack(w) \/ EnqueueDrained(w) \/ job' = job
    BY <1>6 DEF Steps, Work, StepEnds, DrainTimer, StartTooLate, Load, MarkRunning, Replay, Drift, RunStep,
         StepThrows, Pin, TakeSignal, RejectSignal, AwaitSignal, TimeOut, Suspend, Finish, RunGone, Crash,
         stored
  <2> QED BY <2>1, <1>1, <1>2, <1>5
<1>7. CASE SubmitStart \/ Cancel \/ ReconcileScan \/ SubmitDies \/ ReconcileDies \/ UNCHANGED vars
  BY <1>1, <1>7 DEF SubmitStart, Cancel, ReconcileScan, SubmitDies, ReconcileDies, vars, stored
<1> QED BY <1>2, <1>3, <1>4, <1>6, <1>7 DEF Next, Dies, Steps, Callers

-----------------------------------------------------------------------------

LEMMA Rows ==
  ASSUME Row, NEW s \in Active \cup Terminal
  PROVE  /\ Fresh \in RunRow /\ NoRun \in RunRow /\ Fresh.attempts = 0 /\ NoRun.attempts = 0
         /\ Fresh.status = "pending" /\ NoRun.status = "absent"
         /\ Terminated(run, s) \in RunRow /\ Terminated(run, s).attempts = run.attempts
         /\ Terminated(run, s) = run \/ Terminated(run, s).status = s
         /\ Counted(MarkedRunning(run)) \in RunRow
         /\ Counted(MarkedRunning(run)).attempts <= MaxAttempts + 1
         /\ IF run.status \in Terminal THEN Counted(MarkedRunning(run)) = run
            ELSE /\ Counted(MarkedRunning(run)).status = "running"
                 /\ \/ Counted(MarkedRunning(run)).attempts = run.attempts + 1
                    \/ Counted(MarkedRunning(run)).attempts = MaxAttempts + 1
         /\ Suspended(run, s) \in RunRow
         /\ IF run.status \in Terminal THEN Suspended(run, s) = run
            ELSE /\ Suspended(run, s).status = s
                 /\ Suspended(run, s).attempts = IF s = "retrying" THEN run.attempts ELSE 0
<1>1. run \in RunRow /\ run.attempts \in Nat /\ run.attempts <= MaxAttempts + 1 /\ MaxAttempts \in Nat
  BY Constants DEF Row, RunRow
<1>2. /\ Fresh \in RunRow /\ NoRun \in RunRow /\ Fresh.attempts = 0 /\ NoRun.attempts = 0
      /\ Fresh.status = "pending" /\ NoRun.status = "absent"
  BY DEF Fresh, NoRun, RunRow, Active
<1>3. /\ Terminated(run, s) \in RunRow /\ Terminated(run, s).attempts = run.attempts
      /\ Terminated(run, s) = run \/ Terminated(run, s).status = s
  BY <1>1 DEF Terminated, RunRow
<1>4. /\ Suspended(run, s) \in RunRow
      /\ IF run.status \in Terminal THEN Suspended(run, s) = run
         ELSE /\ Suspended(run, s).status = s
              /\ Suspended(run, s).attempts = IF s = "retrying" THEN run.attempts ELSE 0
  BY <1>1 DEF Suspended, RunRow
<1>5. CASE run.status \in Terminal
  <2>1. MarkedRunning(run) = run
    BY <1>5 DEF MarkedRunning
  <2>2. Counted(run) = run
    BY <1>1 DEF Counted, RunRow
  <2> QED BY <1>1, <1>2, <1>3, <1>4, <1>5, <2>1, <2>2
<1>6. CASE run.status \notin Terminal
  <2>1. MarkedRunning(run) = [status |-> "running", attempts |-> run.attempts + 1]
    BY <1>6 DEF MarkedRunning
  <2> DEFINE r == MarkedRunning(run)
  <2>2. r \in RunRow /\ r.status = "running" /\ r.attempts = run.attempts + 1
    BY <1>1, <2>1 DEF RunRow, Active
  <2> HIDE DEF r
  <2>3. /\ Counted(r) \in RunRow /\ Counted(r).status = "running"
        /\ Counted(r).attempts = IF r.attempts > MaxAttempts THEN MaxAttempts + 1 ELSE r.attempts
    BY <1>1, <2>2 DEF Counted, RunRow
  <2> QED BY <1>1, <1>2, <1>3, <1>4, <1>6, <2>2, <2>3 DEF r
<1> QED BY <1>5, <1>6

(* The steps that touch the run row. *)
LEMMA RunMoves ==
  ASSUME [Next]_vars
  PROVE  \/ run' = run /\ starts' = starts
         \/ SubmitStart \/ Cancel \/ Retry \/ Purge
         \/ \E w \in Workers : MarkRunning(w) \/ Suspend(w) \/ Finish(w)
<1>1. ASSUME NEW w \in Workers, Steps(w)
      PROVE  (run' = run /\ starts' = starts) \/ MarkRunning(w) \/ Suspend(w) \/ Finish(w)
  BY <1>1 DEF Steps, Work, StepEnds, DrainTimer, Claim, EnqueueDrained, StartRenewed, StartTooLate, Load,
       Replay, Drift, RunStep, StepThrows, Pin, TakeSignal, RejectSignal, AwaitSignal, TimeOut, Ack, RunGone,
       Renew, Crash, stored
<1>2. CASE SubmitEnqueue \/ ReconcileScan \/ ReconcileEnqueue \/ SubmitDies \/ ReconcileDies \/ Tick
           \/ UNCHANGED vars \/ \E k \in Signals : PostSignal(k)
  BY <1>2 DEF SubmitEnqueue, ReconcileScan, ReconcileEnqueue, SubmitDies, ReconcileDies, Tick, PostSignal,
       vars, stored
<1> QED BY <1>1, <1>2 DEF Next, Dies, Steps, Callers

LEMMA RowStep == Sound /\ [Next]_vars => Row' /\ Paid'
<1> SUFFICES ASSUME Sound, [Next]_vars PROVE Row' /\ Paid'
  OBVIOUS
<1>1. /\ run \in RunRow /\ run.attempts \in Nat /\ run.status \in Active \cup Terminal \cup {"absent"}
      /\ MaxAttempts \in Nat /\ "absent" \notin Active \cup Terminal /\ Active \cap Terminal = {}
  BY Constants DEF Sound, Row, RunRow, Active, Terminal
<1>2. Row /\ Paid
  BY DEF Sound
<1>3. CASE run' = run /\ starts' = starts
  BY <1>2, <1>3 DEF Row, Paid
<1>4. CASE SubmitStart \/ Retry
  <2>1. run' = Fresh /\ starts' = 0
    BY <1>4 DEF SubmitStart, Retry, Sound, Unborn
  <2> QED BY <1>1, <1>2, <2>1, Rows DEF Row, Paid, Active
<1>5. CASE Purge
  <2>1. run' = NoRun /\ starts' = starts
    BY <1>5 DEF Purge
  <2> QED BY <1>1, <1>2, <2>1, Rows DEF Row, Paid, Active
<1>6. ASSUME NEW s \in Terminal, run # NoRun, run' = Terminated(run, s), starts' = starts
      PROVE  Row' /\ Paid'
  <2>1. run.status # "absent"
    BY <1>2, <1>6 DEF Row
  <2> QED BY <1>1, <1>2, <1>6, <2>1, Rows DEF Row, Paid
<1>7. CASE Cancel
  BY <1>6, <1>7 DEF Cancel, Terminal
<1>8. ASSUME NEW w \in Workers, Finish(w) PROVE Row' /\ Paid'
  <2>1. wk[w].pc = "finish" => wk[w].out \in Terminal
    BY DEF Sound, Ticks, IsTick
  <2> QED BY <1>6, <1>8, <2>1 DEF Finish, Terminal
<1>9. ASSUME NEW w \in Workers, MarkRunning(w) PROVE Row' /\ Paid'
  <2>1. run' = Counted(MarkedRunning(run)) /\ run # NoRun
    BY <1>9 DEF MarkRunning
  <2>2. run.status # "absent"
    BY <1>2, <2>1 DEF Row
  <2>3. starts' = IF run.status \in Terminal \/ run'.attempts > MaxAttempts THEN starts ELSE starts + 1
    BY <1>9 DEF MarkRunning
  <2>4. CASE run.status \in Terminal
    BY <1>1, <1>2, <2>1, <2>3, <2>4, Rows DEF Row, Paid
  <2>5. CASE run.status \in Active
    <3>1. /\ run' \in RunRow /\ run'.status = "running" /\ run'.attempts <= MaxAttempts + 1
          /\ run'.attempts = run.attempts + 1 \/ run'.attempts = MaxAttempts + 1
      BY <1>1, <1>2, <2>1, <2>5, Rows
    <3>2. starts \in Nat /\ starts <= MaxAttempts /\ starts <= run.attempts
      BY <1>2, <2>5 DEF Paid
    <3>3. run'.attempts \in Nat
      BY <3>1 DEF RunRow
    <3>4. starts' \in Nat /\ starts' <= MaxAttempts /\ starts' <= run'.attempts
      BY <1>1, <2>3, <2>5, <3>1, <3>2, <3>3
    <3> QED BY <3>1, <3>4 DEF Row, Paid
  <2> QED BY <1>1, <2>2, <2>4, <2>5
<1>10. ASSUME NEW w \in Workers, Suspend(w) PROVE Row' /\ Paid'
  <2>1. wk[w].out \in Active /\ run' = Suspended(run, wk[w].out) /\ run # NoRun
    BY <1>10 DEF Suspend, Sound, Ticks, IsTick
  <2>2. run.status # "absent"
    BY <1>2, <2>1 DEF Row
  <2>3. starts' = IF run.status \in Terminal \/ wk[w].out = "retrying" THEN starts ELSE 0
    BY <1>10 DEF Suspend
  <2>4. CASE run.status \in Terminal
    BY <1>1, <1>2, <2>1, <2>3, <2>4, Rows DEF Row, Paid
  <2>5. CASE run.status \in Active
    <3>1. /\ run' \in RunRow /\ run'.status = wk[w].out
          /\ run'.attempts = IF wk[w].out = "retrying" THEN run.attempts ELSE 0
      BY <1>1, <1>2, <2>1, <2>5, Rows
    <3> QED BY <1>1, <1>2, <2>1, <2>3, <2>5, <3>1 DEF Row, Paid
  <2> QED BY <1>1, <2>2, <2>4, <2>5
<1> QED BY <1>3, <1>4, <1>5, <1>7, <1>8, <1>9, <1>10, RunMoves

LEMMA UnbornStep == Sound /\ [Next]_vars => Unborn'
<1> SUFFICES ASSUME Sound, [Next]_vars, caller' = "new" PROVE Unborn'
  BY DEF Unborn
<1>1. caller = "new"
  <2>1. ASSUME NEW w \in Workers, Steps(w) PROVE caller' = caller
    BY <2>1 DEF Steps, Work, StepEnds, DrainTimer, Claim, EnqueueDrained, StartRenewed, StartTooLate, Load,
         MarkRunning, Replay, Drift, RunStep, StepThrows, Pin, TakeSignal, RejectSignal, AwaitSignal, TimeOut,
         Suspend, Finish, Ack, RunGone, Renew, Crash, others
  <2>2. CASE SubmitStart \/ SubmitEnqueue \/ SubmitDies
    BY <2>2 DEF SubmitStart, SubmitEnqueue, SubmitDies
  <2>3. CASE ReconcileScan \/ ReconcileEnqueue \/ ReconcileDies \/ Tick \/ Cancel \/ Retry \/ Purge
             \/ UNCHANGED vars \/ \E k \in Signals : PostSignal(k)
    BY <2>3 DEF ReconcileScan, ReconcileEnqueue, ReconcileDies, Tick, Cancel, Retry, Purge, PostSignal,
         vars, others
  <2> QED BY <2>1, <2>2, <2>3 DEF Next, Dies, Steps, Callers
<1>2. /\ run = NoRun /\ ~job.queued /\ timer = {} /\ sweep = "idle" /\ starts = 0
      /\ \A w \in Workers : wk[w].pc = "idle"
  BY <1>1 DEF Sound, Unborn
<1>3. run.status = "absent"
  BY <1>2 DEF NoRun
<1>4. ASSUME NEW w \in Workers, Steps(w) PROVE FALSE
  BY <1>2, <1>4 DEF Steps, Work, StepEnds, DrainTimer, Claim, Claimable, EnqueueDrained, StartRenewed,
       StartTooLate, Load, MarkRunning, Replay, Replaying, Drift, RunStep, StepThrows, Pin, TakeSignal,
       RejectSignal, AwaitSignal, TimeOut, Calling, InBody, Suspend, Finish, Returning, Ack, RunGone, Renew,
       Crash
<1>5. UNCHANGED vars \/ Tick
  BY <1>1, <1>2, <1>3, <1>4 DEF Next, Dies, Steps, Callers, SubmitStart, SubmitEnqueue, SubmitDies,
       ReconcileScan, ReconcileEnqueue, ReconcileDies, Stranded, Reconcilable, Active, Terminal, Cancel, Retry,
       Purge, PostSignal
<1>6. CASE UNCHANGED vars
  BY <1>1, <1>2, <1>6 DEF vars, Unborn
<1>7. CASE Tick
  <2>1. run' = run /\ starts' = starts /\ sweep' = sweep /\ timer' = {}
    BY <1>2, <1>7 DEF Tick, others
  <2>2. job'.queued = job.queued
    BY <1>7 DEF Tick, Sound, Job
  <2>3. \A w \in Workers : wk'[w].pc = wk[w].pc
    <3> TAKE w \in Workers
    <3>1. IsTick(wk[w]) /\ wk' = [v \in Workers |-> AgedTick(v, wk[v])]
      BY <1>7 DEF Tick, Sound, Ticks
    <3>2. AgedTick(w, wk[w]).pc = wk[w].pc
      BY <3>1, Aged
    <3> QED BY <3>1, <3>2
  <2> QED BY <1>2, <2>1, <2>2, <2>3 DEF Unborn
<1> QED BY <1>5, <1>6, <1>7

LEMMA InitSound == Init => Sound
<1> SUFFICES ASSUME Init PROVE Sound
  OBVIOUS
<1>1. Ticks /\ \A w \in Workers : wk[w].pc = "idle"
  BY Ends DEF Init, Ticks
<1>2. Row /\ Paid
  BY Constants DEF Init, Row, Paid, NoRun, RunRow, Active
<1>3. job \in Job /\ ~job.queued
  BY DEF Init, NoJob, Job
<1> QED BY <1>1, <1>2, <1>3 DEF Init, Unborn, Sound

-----------------------------------------------------------------------------

(* Rows, counters and ticks stay what the steps take them for. *)
THEOREM EngineInductive == Spec => []Sound
<1>1. Sound /\ [Next]_vars => Sound'
  BY TicksStep, JobStep, RowStep, UnbornStep DEF Sound
<1> QED BY InitSound, <1>1, PTL DEF Spec

(* An execution is counted before its body runs: between two parks other than back-offs *)
(* a run is executed MaxAttempts times at most, if no catch block ever runs.             *)
THEOREM ExecutionsAreBounded == Spec => []AttemptsBounded
<1>1. Sound => AttemptsBounded
  BY DEF Sound, Paid, AttemptsBounded
<1> QED BY EngineInductive, <1>1, PTL

(* Whatever a stale worker, a cancel or a retry does to it, a settled run stays as it    *)
(* settled until it is purged or, failed, retried, and then it is in the queue.          *)
THEOREM OutcomesAreFinal == Spec => Finality
<1> DEFINE Stays == \/ run' \in {run, NoRun}
                    \/ run.status = "failed" /\ run' = Fresh /\ job'.queued
<1>1. ASSUME Sound, [Next]_vars, run.status \in Terminal PROVE Stays
  <2>1. Row /\ job \in Job
    BY <1>1 DEF Sound
  <2>2. CASE Retry
    BY <2>1, <2>2, EnqueueTypes, Constants DEF Retry
  <2>3. ~SubmitStart
    BY <1>1 DEF SubmitStart, Sound, Unborn, NoRun, Terminal
  <2>4. CASE Cancel \/ Purge
    BY <1>1, <2>4 DEF Cancel, Purge
  <2>5. ASSUME NEW w \in Workers, MarkRunning(w) \/ Suspend(w) \/ Finish(w) PROVE run' = run
    <3>1. CASE MarkRunning(w)
      <4>1. run.status \in Active \cup Terminal
        BY <1>1
      <4>2. Counted(MarkedRunning(run)) = run
        BY <1>1, <2>1, <4>1, Rows
      <4> QED BY <3>1, <4>2 DEF MarkRunning
    <3>2. CASE Suspend(w)
      BY <1>1, <3>2 DEF Suspend, Suspended
    <3>3. CASE Finish(w)
      BY <1>1, <3>3 DEF Finish, Terminated
    <3> QED BY <2>5, <3>1, <3>2, <3>3
  <2> QED BY <1>1, <2>2, <2>3, <2>4, <2>5, RunMoves
<1>2. Sound /\ [Next]_vars => [run.status \in Terminal => Stays]_vars
  BY <1>1
<1> QED BY EngineInductive, <1>2, PTL DEF Spec, Finality

-----------------------------------------------------------------------------
(* One history.                                                                          *)

(* During a deploy, the codes make the same calls as far as both of them go. *)
Compatible ==
  \A d \in Deployments : \A v, w \in Workers : \A i \in DOMAIN d[v].calls \cap DOMAIN d[w].calls :
     Label(d[v].calls[i]) = Label(d[w].calls[i])

IsSeq(s) == s \in Seq({s[i] : i \in DOMAIN s})

(* The log has, at each position, the call that every code makes there. *)
Entries(l) ==
  /\ IsSeq(l)
  /\ \A i \in DOMAIN l : /\ DOMAIN l[i] = {"call", "val"}
                         /\ \A w \in Workers : i \in DOMAIN deploy[w].calls =>
                                                  l[i].call = Label(deploy[w].calls[i])

(* What a tick has read is the log's beginning, and what its body was told agrees with it. *)
HasRead(x, l) ==
  x.pc \in Reading =>
    IsSeq(x.seen) /\ Len(x.seen) <= Len(l) /\ \A i \in DOMAIN x.seen : x.seen[i] = l[i]

WasTold(x, l, calls) ==
  x.pc \in {"body", "renew"} =>
    /\ IsSeq(x.got) /\ Len(x.got) <= Len(l) /\ Len(x.got) <= Len(calls)
    /\ \A i \in DOMAIN x.got : l[i].call[1] \in {"step", "signal"} => x.got[i] = l[i].val

Remembers(w) == HasRead(wk[w], log) /\ WasTold(wk[w], log, deploy[w].calls)

History ==
  /\ deploy \in Deployments /\ Entries(log)
  /\ run # NoRun => \A w \in Workers : Remembers(w)

LEMMA SeqFacts ==
  ASSUME NEW s, IsSeq(s)
  PROVE  Len(s) \in Nat /\ DOMAIN s = 1..Len(s)
BY LenProperties DEF IsSeq

LEMMA IsSeqOf ==
  ASSUME NEW n \in Nat, NEW s, DOMAIN s = 1..n, s = [i \in 1..n |-> s[i]]
  PROVE  IsSeq(s) /\ Len(s) = n
<1> DEFINE S == {s[i] : i \in DOMAIN s}
<1>1. s \in [1..n -> S]
  OBVIOUS
<1>2. s \in Seq(S)
  BY <1>1, SeqDef
<1> QED BY <1>2, LenProperties DEF IsSeq

LEMMA Grown ==
  ASSUME NEW s, IsSeq(s), NEW e
  PROVE  /\ IsSeq(Append(s, e)) /\ Len(Append(s, e)) = Len(s) + 1
         /\ Append(s, e)[Len(s) + 1] = e
         /\ \A i \in DOMAIN s : Append(s, e)[i] = s[i]
<1> DEFINE S == {s[i] : i \in DOMAIN s} \cup {e}
           a == Append(s, e)
<1>1. s \in Seq(S) /\ e \in S /\ Len(s) \in Nat /\ DOMAIN s = 1..Len(s)
  BY SeqMonotonic, SeqFacts DEF IsSeq
<1>2. /\ a \in Seq(S) /\ Len(a) = Len(s) + 1 /\ a[Len(s) + 1] = e
      /\ \A i \in 1..Len(s) : a[i] = s[i]
  BY <1>1, AppendProperties
<1> HIDE DEF a
<1>3. a \in [1..Len(s) + 1 -> S]
  BY <1>1, <1>2, LenProperties
<1>4. IsSeq(a)
  BY <1>1, <1>3, IsSeqOf
<1> QED BY <1>1, <1>2, <1>4 DEF a

Extends(l, m) == IsSeq(m) /\ Len(l) <= Len(m) /\ \A i \in DOMAIN l : m[i] = l[i]

(* A log that grows takes nothing back. *)
LEMMA StillTrue ==
  ASSUME NEW x, NEW l, NEW m, NEW calls, IsSeq(l), Extends(l, m)
  PROVE  /\ HasRead(x, l) => HasRead(x, m)
         /\ Len(calls) \in Nat /\ WasTold(x, l, calls) => WasTold(x, m, calls)
<1>1. Len(l) \in Nat /\ Len(m) \in Nat /\ DOMAIN l = 1..Len(l) /\ Len(l) <= Len(m)
  BY SeqFacts DEF Extends
<1>2. ASSUME HasRead(x, l), x.pc \in Reading
      PROVE  Len(x.seen) <= Len(m) /\ \A i \in DOMAIN x.seen : x.seen[i] = m[i]
  <2>1. IsSeq(x.seen) /\ Len(x.seen) <= Len(l) /\ \A i \in DOMAIN x.seen : x.seen[i] = l[i]
    BY <1>2 DEF HasRead
  <2>2. Len(x.seen) \in Nat /\ DOMAIN x.seen = 1..Len(x.seen)
    BY <2>1, SeqFacts
  <2> QED BY <1>1, <2>1, <2>2 DEF Extends
<1>3. ASSUME WasTold(x, l, calls), x.pc \in {"body", "renew"}
      PROVE  /\ Len(x.got) <= Len(m)
             /\ \A i \in DOMAIN x.got : m[i].call[1] \in {"step", "signal"} => x.got[i] = m[i].val
  <2>1. /\ IsSeq(x.got) /\ Len(x.got) <= Len(l)
        /\ \A i \in DOMAIN x.got : l[i].call[1] \in {"step", "signal"} => x.got[i] = l[i].val
    BY <1>3 DEF WasTold
  <2>2. Len(x.got) \in Nat /\ DOMAIN x.got = 1..Len(x.got)
    BY <2>1, SeqFacts
  <2>3. \A i \in DOMAIN x.got : m[i] = l[i]
    BY <1>1, <2>1, <2>2 DEF Extends
  <2> QED BY <1>1, <2>1, <2>2, <2>3
<1> QED BY <1>2, <1>3 DEF HasRead, WasTold

LEMMA Calls ==
  ASSUME deploy \in Deployments, NEW w \in Workers
  PROVE  Len(deploy[w].calls) \in Nat /\ DOMAIN deploy[w].calls = 1..Len(deploy[w].calls)
<1>1. deploy[w].calls \in Seq([op : Ops, name : STRING])
  BY EngineConstants
<1> QED BY <1>1, LenProperties

(* Where a body stands: one past what it was told, inside its code. *)
LEMMA Stands ==
  ASSUME History, NEW w \in Workers, InBody(w)
  PROVE  /\ Remembers(w) /\ IsSeq(wk[w].got) /\ Len(wk[w].got) \in Nat /\ Cursor(w) = Len(wk[w].got) + 1
         /\ Cursor(w) \in 1..Len(log) + 1 /\ Cursor(w) \in DOMAIN deploy[w].calls
         /\ Len(log) \in Nat /\ DOMAIN log = 1..Len(log) /\ DOMAIN wk[w].got = 1..Len(wk[w].got)
<1>1. Remembers(w) /\ wk[w].pc = "body" /\ Cursor(w) <= Len(deploy[w].calls) /\ Cursor(w) = Len(wk[w].got) + 1
  BY DEF History, InBody, Cursor
<1>2. IsSeq(wk[w].got) /\ Len(wk[w].got) <= Len(log)
  BY <1>1 DEF Remembers, WasTold
<1>3. Len(log) \in Nat /\ DOMAIN log = 1..Len(log)
  BY SeqFacts DEF History, Entries
<1>4. Len(wk[w].got) \in Nat /\ DOMAIN wk[w].got = 1..Len(wk[w].got)
  BY <1>2, SeqFacts
<1>5. Len(deploy[w].calls) \in Nat /\ DOMAIN deploy[w].calls = 1..Len(deploy[w].calls)
  BY Calls DEF History
<1> QED BY <1>1, <1>2, <1>3, <1>4, <1>5

(* A checkpoint lengthens the log by the call its worker stands at, or leaves it alone. *)
LEMMA Checkpointed ==
  ASSUME Compatible, History, NEW w \in Workers, InBody(w), NEW val, Checkpoint(w, val), deploy' = deploy
  PROVE  /\ Entries(log)' /\ Extends(log, log')
         /\ Cursor(w) <= Len(log') /\ log'[Cursor(w)].val = CheckpointAnswer(w, val)
         /\ log'[Cursor(w)].call = Label(NextCall(w))
<1> DEFINE e == Entry(w, val)
           c == Cursor(w)
<1>1. /\ c \in 1..Len(log) + 1 /\ c \in DOMAIN deploy[w].calls
      /\ Len(log) \in Nat /\ DOMAIN log = 1..Len(log)
  BY Stands
<1>2. Entries(log) /\ IsSeq(log) /\ deploy \in Deployments
  BY DEF History, Entries
<1>3. /\ log' = IF c <= Len(log) THEN log ELSE Append(log, e)
      /\ CheckpointAnswer(w, val) = (IF c <= Len(log) THEN log[c] ELSE e).val
  BY DEF Checkpoint, CheckpointAnswer, Logged, Stored
<1>4. /\ DOMAIN e = {"call", "val"} /\ e.call = Label(NextCall(w)) /\ NextCall(w) = deploy[w].calls[c]
  BY DEF Entry, NextCall
<1> HIDE DEF e, c
<1>5. CASE c <= Len(log)
  <2>1. log' = log /\ c \in DOMAIN log
    BY <1>1, <1>3, <1>5
  <2>2. log[c].call = Label(NextCall(w))
    BY <1>1, <1>2, <1>4, <2>1 DEF Entries
  <2>3. Entries(log)'
    BY <1>2, <2>1 DEF Entries
  <2> QED BY <1>1, <1>2, <1>3, <1>5, <2>1, <2>2, <2>3 DEF Extends, c
<1>6. CASE ~(c <= Len(log))
  <2>1. log' = Append(log, e) /\ c = Len(log) + 1 /\ CheckpointAnswer(w, val) = e.val
    BY <1>1, <1>3, <1>6
  <2>2. IsSeq(log') /\ Len(log') = Len(log) + 1 /\ log'[c] = e /\ \A i \in DOMAIN log : log'[i] = log[i]
    BY <1>2, <2>1, Grown
  <2>3. DOMAIN log' = 1..c
    BY <2>1, <2>2, SeqFacts
  <2>4. ASSUME NEW i \in DOMAIN log'
        PROVE  /\ DOMAIN log'[i] = {"call", "val"}
               /\ \A v \in Workers : i \in DOMAIN deploy[v].calls =>
                                        log'[i].call = Label(deploy[v].calls[i])
    <3>1. CASE i \in DOMAIN log
      BY <1>2, <2>2, <3>1 DEF Entries
    <3>2. CASE i = c
      <4>1. \A v \in Workers : c \in DOMAIN deploy[v].calls =>
                                  Label(deploy[w].calls[c]) = Label(deploy[v].calls[c])
        BY <1>1, <1>2 DEF Compatible
      <4> QED BY <1>4, <2>2, <3>2, <4>1
    <3> QED BY <1>1, <2>1, <2>3, <3>1, <3>2
  <2>5. Entries(log)'
    BY <2>2, <2>4 DEF Entries
  <2> QED BY <1>1, <1>4, <2>1, <2>2, <2>5 DEF Extends, c
<1> QED BY <1>5, <1>6

LEMMA LogsOrLeaves ==
  ASSUME Compatible, History, deploy' = deploy, NEW w \in Workers, log' = log \/ Logs(w)
  PROVE  Entries(log)' /\ Extends(log, log')
<1>1. CASE log' = log
  <2>1. Entries(log)' /\ IsSeq(log) /\ Len(log) \in Nat
    BY <1>1, SeqFacts DEF History, Entries
  <2> QED BY <1>1, <2>1 DEF Extends
<1>2. CASE Logs(w)
  BY <1>2, Checkpointed DEF Logs, Calling
<1> QED BY <1>1, <1>2

(* An answered call: the body has been told one thing more, and the log says so. *)
LEMMA ToldOneMore ==
  ASSUME Compatible, History, deploy' = deploy, NEW w \in Workers, Ticks, wk[w].pc = "body", run # NoRun,
         NEW x, x.pc \in {"body", "renew"}, x.seen = wk[w].seen,
         NEW val, x.got = Append(wk[w].got, val), Answer(w, val)
  PROVE  Entries(log)' /\ Extends(log, log') /\ HasRead(x, log') /\ WasTold(x, log', deploy[w].calls)
<1> DEFINE c == Cursor(w)
           got == wk[w].got
<1>1. InBody(w) /\ (log' = log \/ Logs(w))
  BY DEF Answer, Replaying, Logs, Calling
<1>2. Entries(log)' /\ Extends(log, log')
  BY <1>1, LogsOrLeaves
<1>3. /\ Remembers(w) /\ IsSeq(got) /\ Len(got) \in Nat /\ c = Len(got) + 1
      /\ c \in 1..Len(log) + 1 /\ c \in DOMAIN deploy[w].calls
      /\ Len(log) \in Nat /\ DOMAIN log = 1..Len(log) /\ DOMAIN got = 1..Len(got)
  BY <1>1, Stands
<1>4. /\ c <= Len(log')
      /\ log'[c].call[1] \in {"step", "signal"} => val = log'[c].val
  <2>1. CASE Replaying(w) /\ ~Drifted(w) /\ log' = log /\ val = wk[w].seen[c].val
    <3>1. /\ IsSeq(wk[w].seen) /\ Len(wk[w].seen) <= Len(log) /\ c <= Len(wk[w].seen)
          /\ \A i \in DOMAIN wk[w].seen : wk[w].seen[i] = log[i]
      BY <1>3, <2>1 DEF Remembers, HasRead, Reading, Replaying
    <3>2. Len(wk[w].seen) \in Nat /\ DOMAIN wk[w].seen = 1..Len(wk[w].seen)
      BY <3>1, SeqFacts
    <3>3. wk[w].seen[c] = log[c] /\ c <= Len(log)
      BY <1>3, <3>1, <3>2
    <3> QED BY <2>1, <3>3
  <2>2. CASE Logs(w) /\ NextCall(w).op \in {"sleep", "pin"}
    <3>1. c <= Len(log') /\ log'[c].call = Label(NextCall(w))
      BY <1>1, <2>2, Checkpointed DEF Logs
    <3>2. Label(NextCall(w))[1] \notin {"step", "signal"}
      BY <2>2 DEF Label
    <3> QED BY <3>1, <3>2
  <2>3. ASSUME NEW own, Checkpoint(w, own), val = CheckpointAnswer(w, own)
        PROVE  c <= Len(log') /\ val = log'[c].val
    BY <1>1, <2>3, Checkpointed
  <2> QED BY <2>1, <2>2, <2>3 DEF Answer
<1>5. HasRead(wk[w], log') /\ WasTold(wk[w], log', deploy[w].calls)
  <2>1. IsSeq(log) /\ Len(deploy[w].calls) \in Nat
    BY Calls DEF History, Entries
  <2> QED BY <1>2, <1>3, <2>1, StillTrue DEF Remembers
<1>6. /\ IsSeq(x.got) /\ Len(x.got) = c /\ x.got[c] = val /\ \A i \in DOMAIN got : x.got[i] = got[i]
  BY <1>3, Grown
<1>7. DOMAIN x.got = 1..c /\ c <= Len(deploy[w].calls)
  <2>1. DOMAIN deploy[w].calls = 1..Len(deploy[w].calls) /\ Len(deploy[w].calls) \in Nat
    BY Calls DEF History
  <2> QED BY <1>3, <1>6, <2>1, SeqFacts
<1>8. ASSUME NEW i \in DOMAIN x.got, log'[i].call[1] \in {"step", "signal"} PROVE x.got[i] = log'[i].val
  <2>1. CASE i = c
    BY <1>4, <1>6, <1>8, <2>1
  <2>2. CASE i \in DOMAIN got
    BY <1>5, <1>6, <1>8, <2>2 DEF WasTold
  <2> QED BY <1>3, <1>7, <2>1, <2>2
<1>9. HasRead(x, log')
  BY <1>5 DEF HasRead, Reading
<1> QED BY <1>2, <1>4, <1>6, <1>7, <1>8, <1>9 DEF WasTold

LEMMA HistoryGoes ==
  ASSUME Compatible, Sound, History, deploy' = deploy, NEW w \in Workers, Goes(w),
         run' # NoRun => run # NoRun
  PROVE  History'
<1>1. PICK x : IsTick(x) /\ wk' = [wk EXCEPT ![w] = x] /\ Course(w, x)
  BY DEF Goes
<1>2. wk'[w] = x /\ (\A v \in Workers : v # w => wk'[v] = wk[v])
  BY <1>1, Moved DEF Sound
<1>3. Entries(log)' /\ Extends(log, log')
  <2>1. log' = log \/ Logs(w)
    BY <1>1 DEF Course, Answer, Logs, Replaying
  <2> QED BY <2>1, LogsOrLeaves
<1>4. IsSeq(log) /\ Len(log) \in Nat /\ DOMAIN log = 1..Len(log)
  BY SeqFacts DEF History, Entries
<1>5. ASSUME run' # NoRun, NEW v \in Workers, v # w
      PROVE  HasRead(wk'[v], log') /\ WasTold(wk'[v], log', deploy[v].calls)
  <2>1. Remembers(v) /\ wk'[v] = wk[v] /\ Len(deploy[v].calls) \in Nat
    BY <1>2, <1>5, Calls DEF History
  <2> QED BY <1>3, <1>4, <2>1, StillTrue DEF Remembers
<1>6. ASSUME run' # NoRun
      PROVE  HasRead(x, log') /\ WasTold(x, log', deploy[w].calls)
  <2>1. Remembers(w) /\ Len(deploy[w].calls) \in Nat /\ run # NoRun
    BY <1>6, Calls DEF History
  <2>2. CASE x.pc \notin Reading
    BY <2>2 DEF HasRead, WasTold, Reading
  <2>3. CASE x.pc = "mark" /\ x.seen = log /\ log' = log
    BY <1>4, <2>3 DEF HasRead, WasTold, History, Entries
  <2>4. CASE /\ wk[w].pc \in Reading /\ x.pc \in {"body", "renew"}
             /\ x.seen = wk[w].seen /\ x.got = wk[w].got /\ log' = log
    <3>1. HasRead(x, log)
      BY <2>1, <2>4 DEF Remembers, HasRead, Reading
    <3>2. CASE wk[w].pc = "mark"
      <4>1. x.got = <<>>
        BY <2>4, <3>2 DEF Sound, Ticks, IsTick
      <4>2. IsSeq(x.got) /\ Len(x.got) = 0 /\ DOMAIN x.got = {}
        BY <4>1, EmptySeq DEF IsSeq
      <4> QED BY <1>4, <2>1, <2>4, <3>1, <4>2 DEF WasTold
    <3>3. CASE wk[w].pc \in {"body", "renew"}
      BY <2>1, <2>4, <3>1, <3>3 DEF Remembers, WasTold
    <3> QED BY <2>4, <3>2, <3>3 DEF Reading
  <2>5. CASE /\ wk[w].pc = "body" /\ x.pc \in {"body", "renew"} /\ x.seen = wk[w].seen
             /\ \E val : x.got = Append(wk[w].got, val) /\ Answer(w, val)
    BY <2>1, <2>5, ToldOneMore DEF Sound
  <2> QED BY <1>1, <2>2, <2>3, <2>4, <2>5 DEF Course
<1>7. run' # NoRun => \A v \in Workers : Remembers(v)'
  BY <1>2, <1>5, <1>6 DEF Remembers
<1> QED BY <1>3, <1>7 DEF History

(* Time brings every instant nearer, in the log as in what was read of it. *)
LEMMA AgedEntries ==
  ASSUME NEW l, IsSeq(l)
  PROVE  /\ IsSeq(AgedLog(l)) /\ Len(AgedLog(l)) = Len(l) /\ DOMAIN AgedLog(l) = DOMAIN l
         /\ \A i \in DOMAIN l :
              /\ AgedLog(l)[i] = AgedEntry(l[i])
              /\ DOMAIN l[i] = {"call", "val"} =>
                   /\ DOMAIN AgedLog(l)[i] = {"call", "val"} /\ AgedLog(l)[i].call = l[i].call
                   /\ l[i].call[1] \in {"step", "signal"} => AgedLog(l)[i].val = l[i].val
<1> DEFINE a == AgedLog(l)
<1>1. Len(l) \in Nat /\ DOMAIN l = 1..Len(l)
  BY SeqFacts
<1>2. a = [i \in 1..Len(l) |-> AgedEntry(l[i])]
  BY <1>1 DEF AgedLog
<1>3. DOMAIN a = 1..Len(l) /\ a = [i \in 1..Len(l) |-> a[i]]
  BY <1>2
<1>4. \A i \in DOMAIN l : a[i] = AgedEntry(l[i])
  BY <1>1, <1>2
<1> HIDE DEF a
<1>5. IsSeq(a) /\ Len(a) = Len(l)
  BY <1>1, <1>3, IsSeqOf
<1>6. ASSUME NEW e, DOMAIN e = {"call", "val"}
      PROVE  /\ DOMAIN AgedEntry(e) = {"call", "val"} /\ AgedEntry(e).call = e.call
             /\ e.call[1] \in {"step", "signal"} => AgedEntry(e).val = e.val
  BY <1>6 DEF AgedEntry
<1> QED BY <1>1, <1>3, <1>4, <1>5, <1>6 DEF a

LEMMA HistoryAged ==
  ASSUME Sound, History, Tick
  PROVE  History'
<1>1. /\ deploy' = deploy /\ run' = run /\ log' = AgedLog(log)
      /\ wk' = [w \in Workers |-> AgedTick(w, wk[w])]
  BY DEF Tick, others
<1>2. /\ IsSeq(log) /\ deploy \in Deployments
      /\ \A i \in DOMAIN log : /\ DOMAIN log[i] = {"call", "val"}
                               /\ \A w \in Workers : i \in DOMAIN deploy[w].calls =>
                                                        log[i].call = Label(deploy[w].calls[i])
  BY DEF History, Entries
<1>3. /\ IsSeq(log') /\ Len(log') = Len(log) /\ DOMAIN log' = DOMAIN log
      /\ \A i \in DOMAIN log : /\ log'[i] = AgedEntry(log[i]) /\ DOMAIN log'[i] = {"call", "val"}
                               /\ log'[i].call = log[i].call
                               /\ log[i].call[1] \in {"step", "signal"} => log'[i].val = log[i].val
  BY <1>1, <1>2, AgedEntries
<1>4. Entries(log)'
  BY <1>1, <1>2, <1>3 DEF Entries
<1>5. Len(log) \in Nat /\ DOMAIN log = 1..Len(log)
  BY <1>2, SeqFacts
<1>6. ASSUME NEW w \in Workers, Remembers(w) PROVE Remembers(w)'
  <2> DEFINE x == wk[w]
             y == AgedTick(w, x)
  <2>1. /\ wk'[w] = y /\ y.pc = x.pc /\ y.seen = AgedLog(x.seen)
        /\ y.got = [i \in DOMAIN x.got |->
             IF deploy[w].calls[i].op \in {"sleep", "pin"} THEN Nearer(x.got[i]) ELSE x.got[i]]
    <3>1. IsTick(x) /\ wk'[w] = y
      BY <1>1 DEF Sound, Ticks
    <3> QED BY <3>1, Aged
  <2> HIDE DEF y
  <2>2. HasRead(x, log) /\ WasTold(x, log, deploy[w].calls)
    BY <1>6 DEF Remembers
  <2> HIDE DEF x
  <2>3. HasRead(y, log')
    <3> SUFFICES ASSUME y.pc \in Reading
                 PROVE  IsSeq(y.seen) /\ Len(y.seen) <= Len(log') /\ \A i \in DOMAIN y.seen : y.seen[i] = log'[i]
      BY DEF HasRead
    <3>1. IsSeq(x.seen) /\ Len(x.seen) <= Len(log) /\ \A i \in DOMAIN x.seen : x.seen[i] = log[i]
      BY <2>1, <2>2 DEF HasRead
    <3>2. Len(x.seen) \in Nat /\ DOMAIN x.seen = 1..Len(x.seen)
      BY <3>1, SeqFacts
    <3>3. /\ IsSeq(y.seen) /\ Len(y.seen) = Len(x.seen) /\ DOMAIN y.seen = DOMAIN x.seen
          /\ \A i \in DOMAIN x.seen : y.seen[i] = AgedEntry(x.seen[i])
      BY <2>1, <3>1, AgedEntries
    <3> QED BY <1>3, <1>5, <3>1, <3>2, <3>3
  <2>4. WasTold(y, log', deploy[w].calls)
    <3> SUFFICES ASSUME y.pc \in {"body", "renew"}
                 PROVE  /\ IsSeq(y.got) /\ Len(y.got) <= Len(log') /\ Len(y.got) <= Len(deploy[w].calls)
                        /\ \A i \in DOMAIN y.got :
                             log'[i].call[1] \in {"step", "signal"} => y.got[i] = log'[i].val
      BY DEF WasTold
    <3>1. /\ IsSeq(x.got) /\ Len(x.got) <= Len(log) /\ Len(x.got) <= Len(deploy[w].calls)
          /\ \A i \in DOMAIN x.got : log[i].call[1] \in {"step", "signal"} => x.got[i] = log[i].val
      BY <2>1, <2>2 DEF WasTold
    <3>2. /\ Len(x.got) \in Nat /\ DOMAIN x.got = 1..Len(x.got)
          /\ Len(deploy[w].calls) \in Nat /\ DOMAIN deploy[w].calls = 1..Len(deploy[w].calls)
      BY <1>2, <3>1, SeqFacts, Calls
    <3>3. DOMAIN y.got = 1..Len(x.got) /\ y.got = [i \in 1..Len(x.got) |-> y.got[i]]
      BY <2>1, <3>2
    <3>4. IsSeq(y.got) /\ Len(y.got) = Len(x.got)
      BY <3>2, <3>3, IsSeqOf
    <3>5. ASSUME NEW i \in DOMAIN y.got, log'[i].call[1] \in {"step", "signal"} PROVE y.got[i] = log'[i].val
      <4>1. i \in DOMAIN x.got /\ i \in DOMAIN log /\ i \in DOMAIN deploy[w].calls
        BY <1>5, <3>1, <3>2, <3>3
      <4>2. log[i].call = Label(deploy[w].calls[i]) /\ log[i].call[1] \in {"step", "signal"}
        BY <1>2, <1>3, <3>5, <4>1
      <4>3. deploy[w].calls[i].op \notin {"sleep", "pin"}
        BY <4>2 DEF Label
      <4> QED BY <1>3, <2>1, <3>1, <4>1, <4>2, <4>3
    <3> QED BY <1>3, <3>1, <3>4, <3>5
  <2> QED BY <1>1, <2>1, <2>3, <2>4 DEF Remembers
<1> QED BY <1>1, <1>2, <1>4, <1>6 DEF History

LEMMA HistoryStep ==
  ASSUME Compatible
  PROVE  Sound /\ History /\ [Next]_vars => History'
<1> SUFFICES ASSUME Sound, History, [Next]_vars PROVE History'
  OBVIOUS
<1>1. CASE deploy' = deploy /\ log' = log /\ wk' = wk /\ (run' # NoRun => run # NoRun)
  BY <1>1 DEF History, Entries, Remembers
<1>2. ASSUME NEW w \in Workers, Steps(w) PROVE History'
  <2>1. Goes(w)
    BY <1>2, WorkerGoes DEF Sound
  <2>2. deploy' = deploy
    BY <1>2 DEF Steps, Work, StepEnds, DrainTimer, Claim, EnqueueDrained, StartRenewed, StartTooLate, Load,
         MarkRunning, Replay, Drift, RunStep, StepThrows, Pin, TakeSignal, RejectSignal, AwaitSignal, TimeOut,
         Suspend, Finish, Ack, RunGone, Renew, Crash, others
  <2>3. run' # NoRun => run # NoRun
    <3>1. run' = run \/ MarkRunning(w) \/ Suspend(w) \/ Finish(w)
      BY <1>2 DEF Steps, Work, StepEnds, DrainTimer, Claim, EnqueueDrained, StartRenewed, StartTooLate, Load,
           Replay, Drift, RunStep, StepThrows, Pin, TakeSignal, RejectSignal, AwaitSignal, TimeOut,
           Ack, RunGone, Renew, Crash, stored
    <3> QED BY <3>1 DEF MarkRunning, Suspend, Finish
  <2> QED BY <2>1, <2>2, <2>3, HistoryGoes
<1>3. CASE SubmitStart
  <2>1. deploy' = deploy /\ log' = log /\ wk' = wk /\ \A w \in Workers : wk[w].pc = "idle"
    BY <1>3 DEF SubmitStart, Sound, Unborn
  <2> QED BY <2>1 DEF History, Entries, Remembers, HasRead, WasTold, Reading
<1>4. CASE Purge
  <2>1. deploy' = deploy /\ log' = <<>> /\ run' = NoRun
    BY <1>4 DEF Purge
  <2>2. IsSeq(<<>>) /\ DOMAIN <<>> = {}
    BY EmptySeq DEF IsSeq
  <2> QED BY <2>1, <2>2 DEF History, Entries
<1>5. CASE Cancel \/ Retry
  BY <1>1, <1>5 DEF Cancel, Retry, NoRun
<1>6. CASE SubmitEnqueue \/ SubmitDies \/ ReconcileScan \/ ReconcileEnqueue \/ ReconcileDies
           \/ UNCHANGED vars \/ \E k \in Signals : PostSignal(k)
  BY <1>1, <1>6 DEF SubmitEnqueue, SubmitDies, ReconcileScan, ReconcileEnqueue, ReconcileDies, PostSignal,
       vars, stored
<1> QED BY <1>2, <1>3, <1>4, <1>5, <1>6, HistoryAged DEF Next, Dies, Steps, Callers

LEMMA InitHistory == Init => History
<1> SUFFICES ASSUME Init PROVE History
  OBVIOUS
<1>1. log = <<>> /\ run = NoRun /\ deploy \in Deployments
  BY DEF Init
<1>2. IsSeq(log) /\ DOMAIN log = {}
  BY <1>1, EmptySeq DEF IsSeq
<1> QED BY <1>1, <1>2 DEF History, Entries

(* The log holds the calls every code makes, what a tick read is its beginning, and what  *)
(* a body was told agrees with it, where the codes that are deployed are compatible.      *)
THEOREM OneHistory == ASSUME Compatible PROVE Spec => []History
<1>1. Sound /\ History /\ [Next]_vars => History'
  BY HistoryStep
<1> QED BY EngineInductive, InitHistory, <1>1, PTL DEF Spec

(* However many workers execute the run at once, on leases they still have or have lost   *)
(* (checkpointStep: first write wins), all are told what the log holds.                    *)
THEOREM ReplaysAreSafe == ASSUME Compatible PROVE Spec => []ReplaySafe
<1>1. History => ReplaySafe
  BY DEF History, Remembers, WasTold, ReplaySafe
<1> QED BY OneHistory, <1>1, PTL

(* And by the calls they made. *)
THEOREM AnswersAreTheCalls == ASSUME Compatible PROVE Spec => []AnswersMatchCalls
<1>1. History => AnswersMatchCalls
  <2> SUFFICES ASSUME History, NEW w \in Workers, wk[w].pc \in {"body", "renew"}, run.status \in Active,
                      NEW i \in DOMAIN wk[w].got
               PROVE  log[i].call = Label(deploy[w].calls[i])
    BY DEF AnswersMatchCalls
  <2>1. run # NoRun
    BY DEF NoRun, Active
  <2>2. /\ IsSeq(wk[w].got) /\ Len(wk[w].got) <= Len(log) /\ Len(wk[w].got) <= Len(deploy[w].calls)
        /\ IsSeq(log) /\ deploy \in Deployments
    BY <2>1 DEF History, Remembers, WasTold, Entries
  <2>3. /\ Len(wk[w].got) \in Nat /\ DOMAIN wk[w].got = 1..Len(wk[w].got)
        /\ Len(log) \in Nat /\ DOMAIN log = 1..Len(log)
        /\ Len(deploy[w].calls) \in Nat /\ DOMAIN deploy[w].calls = 1..Len(deploy[w].calls)
    BY <2>2, SeqFacts, Calls
  <2>4. i \in DOMAIN log /\ i \in DOMAIN deploy[w].calls
    BY <2>2, <2>3
  <2> QED BY <2>4 DEF History, Entries
<1> QED BY OneHistory, <1>1, PTL
=============================================================================
