-------------------------- MODULE RunSignalsProofs --------------------------
(***************************************************************************)
(* What RunEngine promises about signals, for any workers, deployments,    *)
(* deliveries and delays.  The types come first (Typed).  Where no lease   *)
(* runs out under a tick, one worker at a time works on the run (Alone), a *)
(* timeout never beats a delivery and no delivery is lost or consumed      *)
(* twice (Mail).  Where leases do run out, several executions go on at     *)
(* once, each on the inbox it loaded: the order of delivery keeps them     *)
(* from consuming what another consumed (InTurn).  The last two parts are  *)
(* about who goes on with a run: a dispatch that is acknowledged leaves it *)
(* at rest (Attentive), and a run that awaits a signal stands at the wait  *)
(* for it (Parked).                                                        *)
(***************************************************************************)
EXTENDS RunEngineProofs, WellFoundedInduction

(* A pending deadline, of the run or of a tick that is to park it. *)
Wakes == {{}} \cup {{t} : t \in Instants(Longest)}

(* A deadline in the log is no further than the longest delay there is. *)
Near(e) == e.call[1] \in {"sleep", "pin"} => e.val \in Instants(Longest)
Readable(l) == l \in Seq(LogEntries) /\ \A i \in DOMAIN l : Near(l[i])

(* What a tick holds of the tables, as worker w's code reads it. *)
Fits(w, x) ==
  /\ x.lease \in Lease /\ (x.pc \in {"idle", "drain"} => x.lease = NoLease)
  /\ x.wake \in Wakes /\ Readable(x.seen)
  /\ x.inbox \subseteq Signals /\ (x.pc \notin Reading => x.inbox = {})
  /\ x.got \in Seq(Nat) /\ Len(x.got) <= Len(deploy[w].calls)
  /\ \A i \in DOMAIN x.got : deploy[w].calls[i].op \in {"sleep", "pin"} =>
                               x.got[i] \in Instants(Longest)

Typed ==
  /\ deploy \in Deployments /\ Readable(log) /\ WellFormed(job) /\ timer \in Wakes
  /\ posted \in Seq(Signals) /\ inbox \subseteq Posted
  /\ run = NoRun => log = <<>> /\ timer = {}
  /\ \A w \in Workers : Fits(w, wk[w])
  /\ run # NoRun => \A w \in Workers : wk[w].inbox \subseteq Posted

-----------------------------------------------------------------------------

Working(w) == wk[w].pc \notin {"idle", "drain"}

(* The job is leased to the worker, and an enqueue since its claim has raised the version. *)
HeldBy(w, x, j) ==
  /\ j.queued /\ j.token = w /\ j.expires > 0
  /\ x.lease.token = w /\ x.lease.expires = j.expires /\ x.lease.version <= j.version

(* Its snapshot lacks nothing but what a delivery since its claim has put there, and the   *)
(* log is as long as what it read or, if that is more, as what its body was told.          *)
UpToDate(x, j, box, l) ==
  x.pc \in Reading =>
    /\ x.inbox \subseteq box
    /\ x.lease.version = j.version => box \subseteq x.inbox
    /\ Len(x.seen) <= Len(l) /\ Len(x.got) <= Len(l) /\ Len(l) \in {Len(x.seen), Len(x.got)}

Owns(w) == HeldBy(w, wk[w], job) /\ UpToDate(wk[w], job, inbox, log)

(* Who works on a run that exists holds its job, so nobody else does. *)
Alone == run # NoRun => \A w \in Workers : Working(w) => Owns(w)

-----------------------------------------------------------------------------

(* No key is delivered twice; a signal in the log was delivered under the name it is logged *)
(* for; and every delivery is in the inbox or once in the log.                              *)
Ordered == \A i, j \in DOMAIN posted : posted[i] = posted[j] => i = j

Delivered ==
  \A i \in DOMAIN log : log[i].call[1] = "signal" /\ log[i].val # 0 =>
    log[i].val \in Posted /\ log[i].call = <<"signal", Name[log[i].val]>>

Mail == Ordered /\ Delivered /\ SignalsConserved

-----------------------------------------------------------------------------

Before(u, v) == \E i, j \in DOMAIN posted : i < j /\ posted[i] = u /\ posted[j] = v

Rivals(u, v) == Before(u, v) /\ Name[u] = Name[v]

(* Deliveries under one name are consumed in the order they came. *)
Fifo == \A u, v \in Posted : Rivals(u, v) => \A j \in LoggedAs(v) : \E i \in LoggedAs(u) : i < j

(* Only a bounded wait is logged as timed out. *)
TimedOut ==
  \A i \in DOMAIN log : log[i].call[1] = "signal" /\ log[i].val = 0 =>
    \A w \in Workers : i \in DOMAIN deploy[w].calls => deploy[w].calls[i].op = "decide"

Waiting == {"signal", "decide"}

(* The code of worker w has a wait for this name ahead of what its body was told. *)
Waits(w, x, name) ==
  \E i \in DOMAIN deploy[w].calls : /\ i > Len(x.got) /\ deploy[w].calls[i].op \in Waiting
                                    /\ deploy[w].calls[i].name = name

(* The tick has read this position of the log, or been told what it holds. *)
Passed(x, i) == i <= Len(x.seen) \/ i <= Len(x.got)

(* A delivery left in a tick's snapshot is not in the log as far as the tick knows it; and a *)
(* rival that came before it, if the code still waits for their name, is left in the         *)
(* snapshot too, or is in that part of the log.                                              *)
Keeps(w, x) ==
  \A v \in x.inbox :
    /\ \A i \in LoggedAs(v) : ~Passed(x, i)
    /\ \A u \in Posted : Rivals(u, v) /\ Waits(w, x, Name[v]) =>
         u \in x.inbox \/ \E i \in LoggedAs(u) : Passed(x, i)

InTurn ==
  /\ Fifo /\ TimedOut
  /\ run # NoRun => \A w \in Workers : wk[w].pc \in Reading => Keeps(w, wk[w])

(* No flow waits for a name again once it has let a bounded wait for that name pass. *)
LastWait ==
  \A d \in Deployments : \A w \in Workers : \A i, j \in DOMAIN d[w].calls :
    i < j /\ d[w].calls[i].op = "decide" /\ d[w].calls[j].op \in Waiting =>
      d[w].calls[i].name # d[w].calls[j].name

-----------------------------------------------------------------------------
(* Sequences and delays *)

LEMMA ReadableFacts ==
  ASSUME NEW l, Readable(l)
  PROVE  /\ Len(l) \in Nat /\ DOMAIN l = 1..Len(l) /\ IsSeq(l)
         /\ \A i \in DOMAIN l : l[i] \in LogEntries /\ Near(l[i])
<1>1. l \in Seq(LogEntries) BY DEF Readable
<1>2. Len(l) \in Nat /\ DOMAIN l = 1..Len(l) /\ l \in [1..Len(l) -> LogEntries]
  BY <1>1, LenProperties
<1>3. l = [i \in 1..Len(l) |-> l[i]] BY <1>2
<1>4. IsSeq(l) BY <1>2, <1>3, IsSeqOf
<1> QED BY <1>1, <1>2, <1>4 DEF Readable

LEMMA ReadableGrown ==
  ASSUME NEW l, Readable(l), NEW e \in LogEntries, Near(e)
  PROVE  Readable(Append(l, e))
<1> DEFINE a == Append(l, e)
<1>1. l \in Seq(LogEntries) /\ Len(l) \in Nat /\ DOMAIN l = 1..Len(l) BY ReadableFacts DEF Readable
<1>2. /\ a \in Seq(LogEntries) /\ Len(a) = Len(l) + 1 /\ a[Len(l) + 1] = e
      /\ \A i \in 1..Len(l) : a[i] = l[i]
  BY <1>1, AppendProperties
<1>3. DOMAIN a = 1..Len(l) + 1 BY <1>2, LenProperties
<1> HIDE DEF a
<1>4. ASSUME NEW i \in DOMAIN a PROVE Near(a[i])
  <2>1. i = Len(l) + 1 \/ i \in 1..Len(l) BY <1>1, <1>3
  <2>2. CASE i = Len(l) + 1 BY <1>2, <2>2
  <2>3. CASE i \in 1..Len(l) BY <1>1, <1>2, <2>3 DEF Readable
  <2> QED BY <2>1, <2>2, <2>3
<1> QED BY <1>2, <1>4 DEF Readable, a

LEMMA NothingRead == Readable(<<>>)
BY EmptySeq DEF Readable

Delays == {LeaseMs, SleepMs, WaitMs, BackoffMs, RecheckMs, StartDelay}

LEMMA LongestDelay == Longest \in Nat /\ \A n \in Delays : n \in Instants(Longest)
<1>1. /\ LeaseMs \in Nat /\ SleepMs \in Nat /\ WaitMs \in Nat /\ BackoffMs \in Nat /\ RecheckMs \in Nat
      /\ StartDelay \in Nat
  BY EngineConstants
<1>2. Delays \subseteq Nat BY <1>1 DEF Delays
<1> DEFINE Max2(a, b) == IF a <= b THEN b ELSE a
           n == Max2(LeaseMs, Max2(SleepMs, Max2(WaitMs, Max2(BackoffMs, Max2(RecheckMs, StartDelay)))))
<1>3. \E m \in Delays : \A k \in Delays : k <= m
  <2>1. n \in Delays BY DEF Delays
  <2>2. \A k \in Delays : k <= n BY <1>1 DEF Delays
  <2> QED BY <2>1, <2>2
<1>4. Longest \in Delays /\ \A k \in Delays : k <= Longest
  <2>1. Longest = CHOOSE m \in Delays : \A k \in Delays : k <= m BY DEF Longest, Delays
  <2> QED BY <1>3, <2>1
<1> QED BY <1>2, <1>4 DEF Instants

LEMMA DelaysWait ==
  /\ {} \in Wakes /\ {SleepMs} \in Wakes /\ {WaitMs} \in Wakes /\ {BackoffMs} \in Wakes
  /\ {RecheckMs} \in Wakes /\ {0} \in Wakes
  /\ SleepMs \in Instants(Longest) /\ WaitMs \in Instants(Longest) /\ 0 \in Instants(Longest)
  /\ Instants(Longest) \subseteq Nat
  /\ \A t \in Instants(Longest) : {t} \in Wakes /\ Nearer(t) \in Instants(Longest)
<1>1. Longest \in Nat /\ SleepMs \in Instants(Longest) /\ WaitMs \in Instants(Longest)
      /\ BackoffMs \in Instants(Longest) /\ RecheckMs \in Instants(Longest)
  BY LongestDelay DEF Delays
<1>2. 0 \in Instants(Longest) /\ Instants(Longest) \subseteq Nat BY <1>1 DEF Instants
<1>3. \A t \in Instants(Longest) : Nearer(t) \in Instants(Longest) BY <1>1 DEF Instants, Nearer
<1> QED BY <1>1, <1>2, <1>3 DEF Wakes

LEMMA WakesAged ==
  ASSUME NEW wake \in Wakes
  PROVE  {Nearer(t) : t \in wake} \in Wakes
<1>1. CASE wake = {}
  <2>1. {Nearer(t) : t \in wake} = {} BY <1>1
  <2> QED BY <2>1 DEF Wakes
<1>2. ASSUME NEW u \in Instants(Longest), wake = {u} PROVE {Nearer(t) : t \in wake} \in Wakes
  <2>1. {Nearer(t) : t \in wake} = {Nearer(u)} BY <1>2
  <2> QED BY <2>1, DelaysWait
<1> QED BY <1>1, <1>2 DEF Wakes

-----------------------------------------------------------------------------
(* A tick's record *)

LEMMA EndsFit ==
  ASSUME NEW w \in Workers, deploy \in Deployments, NEW x, x.lease \in Lease
  PROVE  /\ Fits(w, Idle) /\ Fits(w, Acking(x)) /\ \A s : Fits(w, Finishing(x, s))
         /\ \A s : \A wake \in Wakes : Fits(w, Suspending(x, s, wake))
         /\ Fits(w, ParkForRedeploy(x))
<1>1. NoLease \in Lease BY DEF NoLease, Lease
<1>2. <<>> \in Seq(Nat) /\ Len(<<>>) = 0 /\ DOMAIN <<>> = {} BY EmptySeq
<1>3. Len(deploy[w].calls) \in Nat BY Calls
<1>4. ASSUME NEW y, y.lease \in Lease, y.pc \in {"idle", "drain"} => y.lease = NoLease,
             y.wake \in Wakes, y.seen = <<>>, y.inbox = {}, y.got = <<>>
      PROVE  Fits(w, y)
  BY <1>2, <1>3, <1>4, NothingRead DEF Fits
<1>5. /\ Idle.lease = NoLease /\ Idle.wake = {} /\ Idle.seen = <<>> /\ Idle.inbox = {} /\ Idle.got = <<>>
      /\ Acking(x).lease = x.lease /\ Acking(x).wake = {} /\ Acking(x).seen = <<>>
      /\ Acking(x).inbox = {} /\ Acking(x).got = <<>> /\ Acking(x).pc = "ack"
  BY DEF Idle, Acking
<1>6. ASSUME NEW s
      PROVE  /\ Finishing(x, s).lease = x.lease /\ Finishing(x, s).wake = {}
             /\ Finishing(x, s).seen = <<>> /\ Finishing(x, s).inbox = {}
             /\ Finishing(x, s).got = <<>> /\ Finishing(x, s).pc = "finish"
  BY DEF Idle, Finishing
<1>7. ASSUME NEW s, NEW wake
      PROVE  /\ Suspending(x, s, wake).lease = x.lease /\ Suspending(x, s, wake).wake = wake
             /\ Suspending(x, s, wake).seen = <<>> /\ Suspending(x, s, wake).inbox = {}
             /\ Suspending(x, s, wake).got = <<>> /\ Suspending(x, s, wake).pc = "suspend"
  BY DEF Idle, Suspending
<1>8. Fits(w, Idle) /\ Fits(w, Acking(x)) BY <1>1, <1>4, <1>5, DelaysWait
<1>9. ASSUME NEW s PROVE Fits(w, Finishing(x, s)) BY <1>4, <1>6, DelaysWait
<1>10. ASSUME NEW s, NEW wake \in Wakes PROVE Fits(w, Suspending(x, s, wake)) BY <1>4, <1>7
<1> QED BY <1>8, <1>9, <1>10, DelaysWait DEF ParkForRedeploy

(* A body is told the outcome of the call it stands at. *)
LEMMA ReturnedFits ==
  ASSUME Typed, NEW w \in Workers, Ticks, InBody(w), NEW val \in Nat,
         NextCall(w).op \in {"sleep", "pin"} => val \in Instants(Longest)
  PROVE  Fits(w, Returned(wk[w], val))
<1> DEFINE x == wk[w]
           y == Returned(x, val)
           calls == deploy[w].calls
<1>1. Fits(w, x) /\ x.got \in Seq(Nat) /\ x.pc = "body" /\ IsTick(x) /\ deploy \in Deployments
  BY DEF Typed, Fits, Ticks, InBody
<1>2. Len(x.got) \in Nat /\ DOMAIN x.got = 1..Len(x.got) BY <1>1, LenProperties
<1>3. /\ y.lease = x.lease /\ y.pc = x.pc /\ y.wake = x.wake /\ y.seen = x.seen /\ y.inbox = x.inbox
      /\ y.got = Append(x.got, val)
  BY <1>1 DEF Returned, IsTick
<1> HIDE DEF y
<1>4. /\ y.got \in Seq(Nat) /\ Len(y.got) = Len(x.got) + 1 /\ y.got[Len(x.got) + 1] = val
      /\ \A i \in 1..Len(x.got) : y.got[i] = x.got[i]
  BY <1>1, <1>2, <1>3, AppendProperties
<1>5. DOMAIN y.got = 1..Len(x.got) + 1 BY <1>4, LenProperties
<1>6. Len(x.got) + 1 <= Len(calls) /\ NextCall(w) = calls[Len(x.got) + 1] BY DEF InBody, NextCall, Cursor
<1>7. ASSUME NEW i \in DOMAIN y.got, calls[i].op \in {"sleep", "pin"} PROVE y.got[i] \in Instants(Longest)
  <2>1. CASE i = Len(x.got) + 1 BY <1>4, <1>6, <1>7, <2>1
  <2>2. CASE i \in 1..Len(x.got) BY <1>1, <1>2, <1>4, <1>7, <2>2 DEF Fits
  <2> QED BY <1>2, <1>5, <2>1, <2>2
<1> QED BY <1>1, <1>3, <1>4, <1>6, <1>7 DEF Fits, y

(* Fits looks at these fields. *)
LEMMA AlikeFits ==
  ASSUME NEW w, NEW x, Fits(w, x), NEW y, y.lease \in Lease, y.pc \in {"idle", "drain"} => y.lease = NoLease,
         y.wake = x.wake, y.seen = x.seen, y.got = x.got,
         y.inbox \subseteq x.inbox, y.pc \notin Reading => x.pc \notin Reading
  PROVE  Fits(w, y)
BY DEF Fits

LEMMA SleptFits ==
  ASSUME Typed, NEW w \in Workers, Ticks, InBody(w), NEW at \in Instants(Longest)
  PROVE  Fits(w, SleptUntil(wk[w], at)) /\ Fits(w, Returned(wk[w], at))
<1>1. at \in Nat /\ {at} \in Wakes BY DelaysWait
<1>2. Fits(w, Returned(wk[w], at)) BY <1>1, ReturnedFits
<1>3. Fits(w, Suspending(wk[w], "sleeping", {at})) BY <1>1, EndsFit DEF Typed, Fits
<1> QED BY <1>2, <1>3 DEF SleptUntil

(* The tick of a worker, and what its step does to the rest. *)
LEMMA TypedGoes ==
  ASSUME Typed, Ticks, NEW w \in Workers, NEW x, IsTick(x), Fits(w, x), wk' = [wk EXCEPT ![w] = x],
         deploy' = deploy, posted' = posted, inbox' \subseteq inbox,
         Readable(log'), WellFormed(job'), timer' \in Wakes,
         run' # NoRun => run # NoRun, run' = NoRun => log' = <<>> /\ timer' = {},
         run # NoRun => x.inbox \subseteq Posted
  PROVE  Typed'
<1>1. wk'[w] = x /\ \A v \in Workers : v # w => wk'[v] = wk[v] BY Moved
<1>2. \A v \in Workers : Fits(v, wk'[v]) BY <1>1 DEF Typed
<1>3. \A v \in Workers : Fits(v, wk[v])' BY <1>2 DEF Fits
<1>4. run' # NoRun => \A v \in Workers : wk'[v].inbox \subseteq Posted BY <1>1 DEF Typed
<1>5. Posted' = Posted BY DEF Posted
<1> QED BY <1>3, <1>4, <1>5 DEF Typed, Readable

(* No worker makes the run or unmakes it. *)
LEMMA WorkerKeepsRun ==
  ASSUME Sound, NEW w \in Workers, Steps(w)
  PROVE  run' = NoRun <=> run = NoRun
<1>1. /\ Row /\ "absent" \notin Active \cup Terminal /\ NoRun.status = "absent"
      /\ (run # NoRun => run.status \in Active \cup Terminal)
  BY DEF Sound, Row, RunRow, Active, Terminal, NoRun
<1>2. CASE run' = run BY <1>2
<1>3. CASE MarkRunning(w)
  <2>1. run # NoRun /\ run' = Counted(MarkedRunning(run)) BY <1>3 DEF MarkRunning
  <2>2. "running" \in Active BY DEF Active
  <2> QED BY <1>1, <2>1, <2>2, Rows
<1>4. CASE Suspend(w)
  <2>1. run # NoRun /\ run' = Suspended(run, wk[w].out) /\ wk[w].out \in Active
    BY <1>4 DEF Suspend, Sound, Ticks, IsTick
  <2> QED BY <1>1, <2>1, Rows
<1>5. CASE Finish(w)
  <2>1. run # NoRun /\ \E s \in Terminal : run' = Terminated(run, s)
    BY <1>5 DEF Finish, Sound, Ticks, IsTick, Terminal
  <2> QED BY <1>1, <2>1, Rows
<1>6. run' = run \/ MarkRunning(w) \/ Suspend(w) \/ Finish(w)
  BY DEF Steps, Work, StepEnds, DrainTimer, Claim, EnqueueDrained, StartRenewed, StartTooLate, Load,
       Replay, Drift, RunStep, StepThrows, Pin, TakeSignal, RejectSignal, AwaitSignal, TimeOut,
       Ack, RunGone, Renew, Crash, stored
<1> QED BY <1>2, <1>3, <1>4, <1>5, <1>6

(* A job that is gone leaves nothing behind. *)
LEMMA JobFormed ==
  ASSUME job \in Job, WellFormed(job), [Next]_vars
  PROVE  WellFormed(job')
<1>1. CASE job' = job BY <1>1
<1>2. ASSUME NEW delay \in Nat, Enqueue(delay) PROVE WellFormed(job')
  <2> DEFINE j == Enqueued(job, delay)
  <2>1. j \in Job /\ j.queued /\ j.version > 0 BY DEF Enqueued, Job
  <2>2. job' = j \/ job' = [j EXCEPT !.version = MaxVersion] BY <1>2 DEF Enqueue
  <2>3. MaxVersion > 0 BY EngineConstants
  <2> HIDE DEF j
  <2> QED BY <2>1, <2>2, <2>3 DEF WellFormed, Job
<1>3. CASE \/ SubmitEnqueue \/ ReconcileEnqueue \/ Retry
           \/ (\E k \in Signals : PostSignal(k)) \/ (\E w \in Workers : EnqueueDrained(w))
  BY <1>2, <1>3, Constants DEF SubmitEnqueue, ReconcileEnqueue, Retry, PostSignal, EnqueueDrained
<1>4. CASE Purge BY <1>4 DEF Purge, WellFormed, NoJob
<1>5. CASE Tick
  <2>1. job' = [job EXCEPT !.runAt = Nearer(@), !.expires = Nearer(@)] BY <1>5 DEF Tick
  <2>2. CASE job.queued
    <3>1. job'.queued = job.queued /\ job'.version = job.version BY <2>1 DEF Job
    <3> QED BY <2>2, <3>1 DEF WellFormed
  <2>3. CASE ~job.queued
    <3>1. job = NoJob /\ Nearer(0) = 0 BY <2>3 DEF WellFormed, Nearer
    <3>2. NoJob.runAt = 0 /\ NoJob.expires = 0 BY DEF NoJob
    <3>3. job' = NoJob BY <2>1, <3>1, <3>2 DEF NoJob
    <3> QED BY <3>3 DEF WellFormed, NoJob
  <2> QED BY <2>2, <2>3
<1>6. ASSUME NEW w \in Workers, Claim(w) \/ StartRenewed(w) \/ Renew(w) PROVE WellFormed(job')
  <2>1. \/ job' = job
        \/ job.queued /\ \E expires : job' = Extended(job, expires)
        \/ job.queued /\ \E expires : job' = Claimed(job, w, expires)
    BY <1>6 DEF Claim, Claimable, StartRenewed, Renew, Renewed, Holds
  <2> QED BY <2>1 DEF Extended, Claimed, WellFormed, Job
<1>7. ASSUME NEW w \in Workers, Ack(w) PROVE WellFormed(job')
  <2>1. job' = Acked(job, wk[w].lease, 0) BY <1>7 DEF Ack
  <2>2. CASE ~Holds(job, wk[w].lease, 0) BY <2>1, <2>2 DEF Acked
  <2>3. CASE Holds(job, wk[w].lease, 0) /\ job.version # wk[w].lease.version
    <3>1. job' = Released(job) /\ job.queued BY <2>1, <2>3 DEF Acked, Holds
    <3> QED BY <3>1 DEF Released, WellFormed, Job
  <2>4. CASE Holds(job, wk[w].lease, 0) /\ ~(job.version # wk[w].lease.version)
    <3>1. job' = NoJob BY <2>1, <2>4 DEF Acked
    <3> QED BY <3>1 DEF WellFormed, NoJob
  <2> QED BY <2>2, <2>3, <2>4
<1>8. ASSUME NEW w \in Workers, Steps(w) PROVE WellFormed(job')
  <2>1. \/ Claim(w) \/ StartRenewed(w) \/ Renew(w) \/ Ack(w) \/ EnqueueDrained(w) \/ job' = job
    BY <1>8 DEF Steps, Work, StepEnds, DrainTimer, StartTooLate, Load, MarkRunning, Replay, Drift, RunStep,
         StepThrows, Pin, TakeSignal, RejectSignal, AwaitSignal, TimeOut, Suspend, Finish, RunGone, Crash,
         stored
  <2> QED BY <2>1, <1>1, <1>3, <1>6, <1>7
<1>9. CASE SubmitStart \/ Cancel \/ ReconcileScan \/ SubmitDies \/ ReconcileDies \/ UNCHANGED vars
  BY <1>1, <1>9 DEF SubmitStart, Cancel, ReconcileScan, SubmitDies, ReconcileDies, vars, stored
<1> QED BY <1>3, <1>4, <1>5, <1>8, <1>9 DEF Next, Dies, Steps, Callers

(* The delivery that comes first is one of those asked for. *)
LEMMA FirstIsFirst ==
  ASSUME posted \in Seq(Signals), NEW S, S # {}, S \subseteq Posted
  PROVE  /\ First(S) \in S
         /\ \E i \in DOMAIN posted : posted[i] = First(S) /\ \A j \in 1..i - 1 : posted[j] \notin S
<1> DEFINE T == {i \in DOMAIN posted : posted[i] \in S}
<1>1. DOMAIN posted = 1..Len(posted) /\ Len(posted) \in Nat BY LenProperties
<1>2. T # {} /\ T \subseteq Nat BY <1>1 DEF Posted
<1>3. PICK i \in T : \A j \in T : ~(<<j, i>> \in OpToRel(<, Nat))
  BY <1>2, WFMin, NatLessThanWellFounded
<1>4. \A j \in T : ~(j < i) BY <1>2, <1>3 DEF OpToRel
<1>5. i \in DOMAIN posted /\ posted[i] \in S /\ \A j \in 1..i - 1 : posted[j] \notin S
  <2>1. i \in 1..Len(posted) /\ posted[i] \in S BY <1>1
  <2>2. ASSUME NEW j \in 1..i - 1, posted[j] \in S PROVE FALSE
    <3>1. j \in T /\ j < i BY <1>1, <2>1, <2>2
    <3> QED BY <1>4, <3>1
  <2> QED BY <1>1, <2>1, <2>2
<1> HIDE DEF T
<1> QED BY <1>5 DEF First

(* What a checkpoint writes and answers. *)
LEMMA CheckpointFits ==
  ASSUME Typed, NEW w \in Workers, Calling(w, Ops), NEW val \in Nat, Checkpoint(w, val),
         NextCall(w).op \in {"sleep", "pin"} => val \in Instants(Longest)
  PROVE  Readable(log') /\ CheckpointAnswer(w, val) \in Nat
<1> DEFINE e == Entry(w, val)
           c == Cursor(w)
<1>1. /\ c \in Nat \ {0} /\ c \in DOMAIN deploy[w].calls /\ NextCall(w) = deploy[w].calls[c]
      /\ deploy \in Deployments
  <2>1. wk[w].got \in Seq(Nat) /\ deploy \in Deployments BY DEF Typed, Fits
  <2>2. Len(wk[w].got) \in Nat BY <2>1, LenProperties
  <2>3. c = Len(wk[w].got) + 1 /\ c <= Len(deploy[w].calls) BY DEF Calling, InBody, Cursor
  <2>4. c \in DOMAIN deploy[w].calls BY <2>1, <2>2, <2>3, Calls
  <2> QED BY <2>1, <2>2, <2>3, <2>4 DEF NextCall
<1>2. /\ log' = IF c <= Len(log) THEN log ELSE Append(log, e)
      /\ CheckpointAnswer(w, val) = (IF c <= Len(log) THEN log[c] ELSE e).val
  BY DEF Checkpoint, CheckpointAnswer, Logged, Stored
<1>3. e = [call |-> Label(NextCall(w)), val |-> val] BY DEF Entry
<1>4. e \in LogEntries
  <2>1. deploy[w].calls[c] \in CallsOf(deploy) BY <1>1 DEF CallsOf
  <2>2. deploy[w].calls[c] \in UNION {CallsOf(d) : d \in Deployments} BY <1>1, <2>1
  <2>3. e.call = Label(deploy[w].calls[c]) BY <1>1, <1>3
  <2> QED BY <1>3, <2>2, <2>3 DEF LogEntries
<1>5. Near(e)
  <2>1. Label(NextCall(w))[1] \in {"sleep", "pin"} => NextCall(w).op \in {"sleep", "pin"} BY DEF Label
  <2> QED BY <1>3, <2>1 DEF Near
<1> HIDE DEF c
<1>6. Readable(log) /\ Len(log) \in Nat /\ DOMAIN log = 1..Len(log) BY ReadableFacts DEF Typed
<1>7. Readable(log') BY <1>2, <1>4, <1>5, <1>6, ReadableGrown
<1>8. CASE c <= Len(log)
  <2>1. log[c] \in LogEntries BY <1>1, <1>6, <1>8, ReadableFacts
  <2> QED BY <1>2, <1>7, <1>8, <2>1 DEF LogEntries
<1>9. CASE ~(c <= Len(log)) BY <1>2, <1>3, <1>7, <1>9
<1> QED BY <1>8, <1>9

-----------------------------------------------------------------------------
(* The types hold at every step. *)

LEMMA WorkerTables ==
  ASSUME Typed, Sound, NEW w \in Workers, Steps(w)
  PROVE  /\ deploy' = deploy /\ posted' = posted /\ inbox' \subseteq inbox /\ WellFormed(job') /\ timer' \in Wakes
         /\ run' # NoRun => run # NoRun
         /\ run' = NoRun => log' = <<>> /\ timer' = {}
<1>1. deploy' = deploy /\ posted' = posted
  BY DEF Steps, Work, StepEnds, DrainTimer, Claim, EnqueueDrained, StartRenewed, StartTooLate, Load,
       MarkRunning, Replay, Drift, RunStep, StepThrows, Pin, TakeSignal, RejectSignal, AwaitSignal, TimeOut,
       Suspend, Finish, Ack, RunGone, Renew, Crash, others, stored
<1>2. inbox' \subseteq inbox
  BY DEF Steps, Work, StepEnds, DrainTimer, Claim, EnqueueDrained, StartRenewed, StartTooLate, Load,
       MarkRunning, Replay, Drift, RunStep, StepThrows, Pin, TakeSignal, RejectSignal, AwaitSignal, TimeOut,
       Suspend, Finish, Ack, RunGone, Renew, Crash, stored, Without
<1>3. WellFormed(job')
  <2>1. Next BY DEF Next, Steps, Dies
  <2> QED BY <2>1, JobFormed DEF Typed, Sound
<1>4. timer' \in {timer, {}, wk[w].wake} /\ (run = NoRun => log' = log /\ timer' \in {timer, {}})
  BY DEF Steps, Work, StepEnds, DrainTimer, Claim, EnqueueDrained, StartRenewed, StartTooLate, Load,
       MarkRunning, Replay, Drift, RunStep, StepThrows, Pin, TakeSignal, RejectSignal, AwaitSignal, TimeOut,
       Suspend, Finish, Ack, RunGone, Renew, Crash, stored, Calling, InBody
<1>5. timer' \in Wakes BY <1>4, DelaysWait DEF Typed, Fits
<1> QED BY <1>1, <1>2, <1>3, <1>4, <1>5, WorkerKeepsRun DEF Typed

LEMMA WorkerTyped ==
  ASSUME Typed, Sound, NEW w \in Workers, Steps(w), Readable(log'),
         NEW x, IsTick(x), Fits(w, x), wk' = [wk EXCEPT ![w] = x], run # NoRun => x.inbox \subseteq Posted
  PROVE  Typed'
BY WorkerTables, TypedGoes DEF Sound

LEMMA TypedLetsGo ==
  ASSUME Typed, Sound, NEW w \in Workers, Steps(w),
         EnqueueDrained(w) \/ StartTooLate(w) \/ Ack(w) \/ RunGone(w) \/ Crash(w)
  PROVE  Typed'
<1>1. wk' = [wk EXCEPT ![w] = Idle] /\ log' = log
  BY DEF EnqueueDrained, StartTooLate, Ack, RunGone, Crash, stored
<1>2. IsTick(Idle) /\ Idle.inbox = {} BY Ends DEF Idle
<1>3. Fits(w, Idle) /\ Readable(log') BY <1>1, EndsFit DEF Typed, Fits
<1> QED BY <1>1, <1>2, <1>3, WorkerTyped

LEMMA TypedDecides ==
  ASSUME Typed, Sound, NEW w \in Workers, Steps(w), log' = log, NEW x,
         \/ x = Acking(wk[w]) \/ x = ParkForRedeploy(wk[w])
         \/ \E s \in Terminal : x = Finishing(wk[w], s)
         \/ \E s \in Active : \E t \in Wakes : x = Suspending(wk[w], s, t),
         wk' = [wk EXCEPT ![w] = x]
  PROVE  Typed'
<1>1. deploy \in Deployments /\ wk[w].lease \in Lease BY DEF Typed, Fits
<1>2. IsTick(x) BY Ends
<1>3. Fits(w, x) BY <1>1, EndsFit
<1>4. x.inbox = {} BY DEF Acking, ParkForRedeploy, Finishing, Suspending, Idle
<1> QED BY <1>2, <1>3, <1>4, WorkerTyped DEF Typed

LEMMA TypedBegins ==
  ASSUME Typed, Sound, NEW w \in Workers, Steps(w),
         DrainTimer(w) \/ Claim(w) \/ StartRenewed(w) \/ Load(w) \/ MarkRunning(w) \/ Renew(w)
  PROVE  Typed'
<1>1. /\ IsTick(wk[w]) /\ Fits(w, wk[w]) /\ Readable(log) /\ wk[w].lease \in Lease
      /\ run # NoRun => wk[w].inbox \subseteq Posted
  BY DEF Typed, Sound, Ticks, Fits
<1>2. log' = log BY DEF DrainTimer, Claim, StartRenewed, Load, MarkRunning, Renew, stored
<1>3. ASSUME NEW x, IsTick(x), x.lease \in Lease, x.pc \in {"idle", "drain"} => x.lease = NoLease,
             x.wake = wk[w].wake, x.seen = wk[w].seen, x.got = wk[w].got, x.inbox = wk[w].inbox,
             x.pc \notin Reading => wk[w].pc \notin Reading, wk' = [wk EXCEPT ![w] = x]
      PROVE  Typed'
  BY <1>1, <1>2, <1>3, AlikeFits, WorkerTyped
<1>4. CASE DrainTimer(w)
  <2> DEFINE x == [wk[w] EXCEPT !.pc = "drain"]
  <2>1. wk' = [wk EXCEPT ![w] = x] /\ wk[w].pc = "idle" BY <1>4 DEF DrainTimer
  <2>2. /\ IsTick(x) /\ x.lease = wk[w].lease /\ x.pc = "drain" /\ x.wake = wk[w].wake
        /\ x.seen = wk[w].seen /\ x.got = wk[w].got /\ x.inbox = wk[w].inbox
    BY <1>1, <2>1 DEF IsTick
  <2> HIDE DEF x
  <2> QED BY <1>1, <1>3, <2>1, <2>2 DEF Fits, Reading
<1>5. CASE Claim(w)
  <2> DEFINE x == [wk[w] EXCEPT !.pc = "start", !.lease = LeaseOn(job')]
  <2>1. wk' = [wk EXCEPT ![w] = x] /\ wk[w].pc = "idle" BY <1>5 DEF Claim
  <2>2. LeaseOn(job') \in Lease
    <3>1. job' \in Job BY <1>5, RowTypes DEF Claim, Sound
    <3> QED BY <3>1 DEF LeaseOn, Lease, Job
  <2>3. /\ IsTick(x) /\ x.lease = LeaseOn(job') /\ x.pc = "start" /\ x.wake = wk[w].wake
        /\ x.seen = wk[w].seen /\ x.got = wk[w].got /\ x.inbox = wk[w].inbox
    BY <1>1, <2>1 DEF IsTick
  <2> HIDE DEF x
  <2> QED BY <1>3, <2>1, <2>2, <2>3 DEF Reading
<1>6. Extended(wk[w].lease, LeaseMs) \in Lease BY <1>1, Constants DEF Extended, Lease
<1>7. CASE StartRenewed(w)
  <2> DEFINE x == [wk[w] EXCEPT !.pc = "load", !.lease = Extended(@, LeaseMs)]
  <2>1. wk' = [wk EXCEPT ![w] = x] /\ wk[w].pc = "start" BY <1>7 DEF StartRenewed
  <2>2. /\ IsTick(x) /\ x.lease = Extended(wk[w].lease, LeaseMs) /\ x.pc = "load" /\ x.wake = wk[w].wake
        /\ x.seen = wk[w].seen /\ x.got = wk[w].got /\ x.inbox = wk[w].inbox
    BY <1>1, <2>1 DEF IsTick
  <2> HIDE DEF x
  <2> QED BY <1>3, <1>6, <2>1, <2>2 DEF Reading
<1>8. CASE Load(w)
  <2> DEFINE x == [wk[w] EXCEPT !.pc = "mark", !.seen = log, !.inbox = inbox]
  <2>1. CASE wk' = [wk EXCEPT ![w] = x]
    <3>1. /\ IsTick(x) /\ x.lease = wk[w].lease /\ x.pc = "mark" /\ x.wake = wk[w].wake
          /\ x.seen = log /\ x.got = wk[w].got /\ x.inbox = inbox
      BY <1>1, <1>8 DEF IsTick, Load
    <3>2. Posted \subseteq Signals /\ inbox \subseteq Posted
      <4>1. DOMAIN posted = 1..Len(posted) /\ posted \in [1..Len(posted) -> Signals] BY LenProperties DEF Typed
      <4> QED BY <4>1 DEF Posted, Typed
    <3> HIDE DEF x
    <3>3. Fits(w, x) BY <1>1, <3>1, <3>2 DEF Fits, Reading
    <3> QED BY <1>1, <1>2, <2>1, <3>1, <3>2, <3>3, WorkerTyped
  <2>2. CASE wk' = [wk EXCEPT ![w] = Acking(wk[w])] \/ wk' = [wk EXCEPT ![w] = ParkForRedeploy(wk[w])]
    BY <1>2, <2>2, TypedDecides
  <2> QED BY <1>8, <2>1, <2>2 DEF Load
<1>9. CASE MarkRunning(w)
  <2> DEFINE x == [wk[w] EXCEPT !.pc = "body", !.attempt = run'.attempts]
  <2>1. CASE wk' = [wk EXCEPT ![w] = x]
    <3>1. /\ IsTick(x) /\ x.lease = wk[w].lease /\ x.pc = "body" /\ x.wake = wk[w].wake
          /\ x.seen = wk[w].seen /\ x.got = wk[w].got /\ x.inbox = wk[w].inbox
      BY <1>1, <1>9 DEF IsTick, MarkRunning
    <3> HIDE DEF x
    <3> QED BY <1>1, <1>3, <2>1, <3>1 DEF Reading
  <2>2. CASE wk' = [wk EXCEPT ![w] = Finishing(wk[w], "failed")]
    BY <1>2, <2>2, TypedDecides DEF Terminal
  <2> QED BY <1>9, <2>1, <2>2 DEF MarkRunning
<1>10. CASE Renew(w)
  <2> DEFINE x == [wk[w] EXCEPT !.pc = "body"]
             y == [wk[w] EXCEPT !.pc = "body", !.lease = Extended(@, LeaseMs)]
  <2>1. wk' = [wk EXCEPT ![w] = x] \/ wk' = [wk EXCEPT ![w] = y] BY <1>10 DEF Renew, Renewed
  <2>2. wk[w].pc \in {"body", "renew"} BY <1>10 DEF Renew, Calling, InBody
  <2>3. /\ IsTick(x) /\ x.lease = wk[w].lease /\ x.pc = "body" /\ x.wake = wk[w].wake
        /\ x.seen = wk[w].seen /\ x.got = wk[w].got /\ x.inbox = wk[w].inbox
        /\ IsTick(y) /\ y.lease = Extended(wk[w].lease, LeaseMs) /\ y.pc = "body" /\ y.wake = wk[w].wake
        /\ y.seen = wk[w].seen /\ y.got = wk[w].got /\ y.inbox = wk[w].inbox
    BY <1>1, <2>2 DEF IsTick
  <2> HIDE DEF x, y
  <2> QED BY <1>1, <1>3, <1>6, <2>1, <2>3 DEF Reading
<1> QED BY <1>4, <1>5, <1>7, <1>8, <1>9, <1>10

(* The deadline a bounded wait is decided on was pinned by the call before it. *)
LEMMA DeadlineNear ==
  ASSUME Typed, NEW w \in Workers, Calling(w, Ops), NextCall(w).op = "decide"
  PROVE  Deadline(w) \in Instants(Longest)
<1> DEFINE n == Len(wk[w].got)
           calls == deploy[w].calls
<1>1. /\ Fits(w, wk[w]) /\ wk[w].got \in Seq(Nat) /\ deploy \in Deployments BY DEF Typed, Fits
<1>2. n \in Nat /\ DOMAIN wk[w].got = 1..n BY <1>1, LenProperties
<1>3. n + 1 \in DOMAIN calls /\ calls[n + 1].op = "decide"
  <2>1. n + 1 <= Len(calls) /\ NextCall(w) = calls[n + 1] BY DEF Calling, InBody, NextCall, Cursor
  <2>2. Len(calls) \in Nat /\ DOMAIN calls = 1..Len(calls) BY <1>1, Calls
  <2> QED BY <1>2, <2>1, <2>2
<1>4. n + 1 > 1 /\ calls[(n + 1) - 1].op = "pin" BY <1>1, <1>3, EngineConstants
<1>5. n \in DOMAIN wk[w].got /\ calls[n].op = "pin"
  <2>1. (n + 1) - 1 = n /\ n \in 1..n BY <1>2, <1>4
  <2> QED BY <1>2, <1>4, <2>1
<1> QED BY <1>1, <1>5 DEF Fits, Deadline

LEMMA TypedDecided ==
  ASSUME Typed, Sound, NEW w \in Workers, Steps(w),
         \/ Drift(w) \/ RejectSignal(w) \/ AwaitSignal(w) \/ Suspend(w) \/ Finish(w)
         \/ \E permanent \in BOOLEAN : StepThrows(w, permanent)
  PROVE  Typed'
<1>1. log' = log BY DEF Drift, RejectSignal, AwaitSignal, Suspend, Finish, StepThrows, stored
<1>2. /\ "failed" \in Terminal /\ "retrying" \in Active /\ "awaiting_signal" \in Active BY DEF Terminal, Active
<1>3. CASE Drift(w) BY <1>1, <1>2, <1>3, TypedDecides DEF Drift
<1>4. CASE RejectSignal(w) BY <1>1, <1>2, <1>4, TypedDecides DEF RejectSignal
<1>5. CASE Suspend(w) \/ Finish(w) BY <1>1, <1>5, TypedDecides DEF Suspend, Finish
<1>6. ASSUME NEW permanent \in BOOLEAN, StepThrows(w, permanent) PROVE Typed'
  <2>1. {BackoffMs} \in Wakes BY DelaysWait
  <2> QED BY <1>1, <1>2, <1>6, <2>1, TypedDecides DEF StepThrows
<1>7. CASE AwaitSignal(w)
  <2> DEFINE wake == IF NextCall(w).op = "decide" THEN {Deadline(w)} ELSE {}
  <2>1. wk' = [wk EXCEPT ![w] = Suspending(wk[w], "awaiting_signal", wake)] BY <1>7 DEF AwaitSignal
  <2>2. Calling(w, Ops) BY <1>7 DEF AwaitSignal, Calling, Ops
  <2>3. wake \in Wakes BY <2>2, DeadlineNear, DelaysWait
  <2> HIDE DEF wake
  <2> QED BY <1>1, <1>2, <2>1, <2>3, TypedDecides
<1> QED BY <1>3, <1>4, <1>5, <1>6, <1>7

(* What a replayed call is told is what a call of its kind may be told. *)
LEMMA ReplayedNear ==
  ASSUME Typed, NEW w \in Workers, Replay(w)
  PROVE  /\ InBody(w) /\ wk[w].seen[Cursor(w)].val \in Nat
         /\ NextCall(w).op \in {"sleep", "pin"} => wk[w].seen[Cursor(w)].val \in Instants(Longest)
<1> DEFINE c == Cursor(w)
           seen == wk[w].seen
<1>1. InBody(w) /\ c <= Len(seen) /\ seen[c].call = Label(NextCall(w)) BY DEF Replay, Replaying, Drifted
<1>2. Readable(seen) /\ wk[w].got \in Seq(Nat) BY DEF Typed, Fits
<1>3. c \in DOMAIN seen
  <2>1. Len(wk[w].got) \in Nat BY <1>2, LenProperties
  <2>2. Len(seen) \in Nat /\ DOMAIN seen = 1..Len(seen) BY <1>2, ReadableFacts
  <2> QED BY <1>1, <2>1, <2>2 DEF Cursor
<1>4. seen[c] \in LogEntries /\ Near(seen[c]) BY <1>2, <1>3, ReadableFacts
<1>5. NextCall(w).op \in {"sleep", "pin"} => Label(NextCall(w))[1] \in {"sleep", "pin"} BY DEF Label
<1> QED BY <1>1, <1>4, <1>5 DEF LogEntries, Near

LEMMA TypedReturns ==
  ASSUME Typed, Sound, NEW w \in Workers, Steps(w), Readable(log'), InBody(w), NEW val \in Nat,
         NextCall(w).op \in {"sleep", "pin"} => val \in Instants(Longest),
         \/ wk' = [wk EXCEPT ![w] = Returned(wk[w], val)]
         \/ NextCall(w).op = "sleep" /\ wk' = [wk EXCEPT ![w] = SleptUntil(wk[w], val)]
  PROVE  Typed'
<1>1. Ticks /\ IsTick(wk[w]) /\ wk[w].pc = "body" /\ run # NoRun /\ wk[w].inbox \subseteq Posted
      /\ deploy \in Deployments /\ wk[w].lease \in Lease
  BY DEF Sound, Ticks, InBody, Typed, Fits
<1>2. CASE wk' = [wk EXCEPT ![w] = Returned(wk[w], val)]
  <2> DEFINE x == Returned(wk[w], val)
  <2>1. IsTick(x) BY <1>1, Answered
  <2>2. Fits(w, x) BY <1>1, ReturnedFits
  <2>3. x.inbox = wk[w].inbox BY <1>1 DEF Returned, IsTick
  <2>4. wk' = [wk EXCEPT ![w] = x] BY <1>2
  <2> HIDE DEF x
  <2> QED BY <1>1, <2>1, <2>2, <2>3, <2>4, WorkerTyped
<1>3. CASE NextCall(w).op = "sleep" /\ wk' = [wk EXCEPT ![w] = Suspending(wk[w], "sleeping", {val})]
  <2> DEFINE x == Suspending(wk[w], "sleeping", {val})
  <2>1. {val} \in Wakes BY <1>3, DelaysWait
  <2>2. IsTick(x) /\ Fits(w, x) BY <1>1, <2>1, Ends, EndsFit DEF Active
  <2>3. x.inbox = {} BY DEF Suspending, Idle
  <2>4. wk' = [wk EXCEPT ![w] = x] BY <1>3
  <2> HIDE DEF x
  <2> QED BY <2>2, <2>3, <2>4, WorkerTyped
<1> QED BY <1>2, <1>3 DEF SleptUntil

(* What a body is to take is in its snapshot, and was delivered. *)
LEMMA PendingFits ==
  ASSUME Typed, NEW w \in Workers, Pending(w) # {}, run # NoRun
  PROVE  /\ First(Pending(w)) \in Pending(w) /\ Pending(w) \subseteq wk[w].inbox
         /\ First(Pending(w)) \in wk[w].inbox /\ First(Pending(w)) \in Nat \ {0}
         /\ Name[First(Pending(w))] = NextCall(w).name
         /\ \E i \in DOMAIN posted : /\ posted[i] = First(Pending(w))
                                     /\ \A j \in 1..i - 1 : posted[j] \notin Pending(w)
<1>1. Pending(w) \subseteq wk[w].inbox /\ wk[w].inbox \subseteq Posted /\ wk[w].inbox \subseteq Signals
      /\ posted \in Seq(Signals)
  BY DEF Pending, Typed, Fits
<1>2. /\ First(Pending(w)) \in Pending(w)
      /\ \E i \in DOMAIN posted : /\ posted[i] = First(Pending(w))
                                  /\ \A j \in 1..i - 1 : posted[j] \notin Pending(w)
  BY <1>1, FirstIsFirst
<1>3. Signals \subseteq Nat \ {0} BY EngineConstants
<1>4. \A k \in Pending(w) : Name[k] = NextCall(w).name BY DEF Pending
<1> HIDE DEF Pending
<1> QED BY <1>1, <1>2, <1>3, <1>4

LEMMA TypedAnswers ==
  ASSUME Typed, Sound, NEW w \in Workers, Steps(w),
         Replay(w) \/ Pin(w) \/ RunStep(w) \/ TakeSignal(w) \/ TimeOut(w)
  PROVE  Typed'
<1>1. /\ Ticks /\ IsTick(wk[w]) /\ Fits(w, wk[w]) /\ Readable(log) /\ wk[w].lease \in Lease
      /\ run # NoRun => wk[w].inbox \subseteq Posted
  BY DEF Typed, Sound, Ticks, Fits
<1>2. CASE Replay(w)
  <2>1. log' = log BY <1>2 DEF Replay, stored
  <2> DEFINE val == wk[w].seen[Cursor(w)].val
  <2>2. \/ wk' = [wk EXCEPT ![w] = Returned(wk[w], val)]
        \/ NextCall(w).op = "sleep" /\ wk' = [wk EXCEPT ![w] = SleptUntil(wk[w], val)]
    BY <1>2 DEF Replay
  <2>3. InBody(w) /\ val \in Nat /\ (NextCall(w).op \in {"sleep", "pin"} => val \in Instants(Longest))
    BY <1>2, ReplayedNear
  <2> HIDE DEF val
  <2> QED BY <1>1, <2>1, <2>2, <2>3, TypedReturns
<1>3. CASE Pin(w)
  <2>1. PICK at \in {SleepMs, WaitMs} :
          /\ Checkpoint(w, at)
          /\ \/ wk' = [wk EXCEPT ![w] = Returned(wk[w], at)]
             \/ NextCall(w).op = "sleep" /\ wk' = [wk EXCEPT ![w] = SleptUntil(wk[w], at)]
    BY <1>3 DEF Pin
  <2>2. InBody(w) /\ Calling(w, Ops) BY <1>3 DEF Pin, Calling, Ops
  <2>3. at \in Nat /\ at \in Instants(Longest) BY DelaysWait
  <2>4. Readable(log') BY <2>1, <2>2, <2>3, CheckpointFits
  <2> QED BY <2>1, <2>2, <2>3, <2>4, TypedReturns
<1>4. CASE RunStep(w)
  <2> DEFINE val == CheckpointAnswer(w, w)
             y == Returned(wk[w], val)
             x == [y EXCEPT !.pc = "renew"]
  <2>1. wk' = [wk EXCEPT ![w] = x] /\ Checkpoint(w, w) /\ Calling(w, Ops) /\ InBody(w)
        /\ NextCall(w).op \notin {"sleep", "pin"}
    BY <1>4 DEF RunStep, Calling, Ops
  <2>2. w \in Nat BY Constants
  <2>3. Readable(log') /\ val \in Nat BY <2>1, <2>2, CheckpointFits
  <2> HIDE DEF val
  <2>4. Fits(w, y) BY <1>1, <2>1, <2>3, ReturnedFits
  <2>5. IsTick(y) /\ y.pc = "body" /\ y.inbox = wk[w].inbox BY <1>1, <2>1, Answered DEF InBody, Returned, IsTick
  <2> HIDE DEF y
  <2>6. /\ x.lease = y.lease /\ x.pc = "renew" /\ x.wake = y.wake /\ x.seen = y.seen /\ x.got = y.got
        /\ x.inbox = y.inbox
    BY <2>5 DEF IsTick
  <2>7. IsTick(x) BY <2>5, AnsweredAnd
  <2> HIDE DEF x
  <2>8. Fits(w, x)
    <3>1. y.lease \in Lease BY <2>4 DEF Fits
    <3> QED BY <2>4, <2>6, <3>1, AlikeFits DEF Reading
  <2> QED BY <1>1, <2>1, <2>3, <2>5, <2>6, <2>7, <2>8, WorkerTyped DEF InBody
<1>5. CASE TakeSignal(w)
  <2> DEFINE k == First(Pending(w))
             val == CheckpointAnswer(w, k)
             y == Returned(wk[w], val)
             x == [y EXCEPT !.inbox = Without(wk[w].inbox, k)]
  <2>1. wk' = [wk EXCEPT ![w] = x] /\ Checkpoint(w, k) /\ Calling(w, Ops) /\ InBody(w)
        /\ NextCall(w).op \notin {"sleep", "pin"} /\ Pending(w) # {}
    BY <1>5 DEF TakeSignal, Calling, Ops
  <2>2. k \in Nat BY <2>1, PendingFits DEF InBody
  <2> HIDE DEF k
  <2>3. Readable(log') /\ val \in Nat BY <2>1, <2>2, CheckpointFits
  <2> HIDE DEF val
  <2>4. Fits(w, y) BY <1>1, <2>1, <2>3, ReturnedFits
  <2>5. IsTick(y) /\ y.pc = "body" /\ y.inbox = wk[w].inbox BY <1>1, <2>1, Answered DEF InBody, Returned, IsTick
  <2> HIDE DEF y
  <2>6. /\ x.lease = y.lease /\ x.pc = "body" /\ x.wake = y.wake /\ x.seen = y.seen /\ x.got = y.got
        /\ x.inbox = Without(wk[w].inbox, k)
    BY <2>5 DEF IsTick
  <2>7. IsTick(x) BY <2>5, AnsweredAnd
  <2> HIDE DEF x
  <2>8. x.inbox \subseteq wk[w].inbox BY <2>6 DEF Without
  <2>9. Fits(w, x)
    <3>1. y.lease \in Lease BY <2>4 DEF Fits
    <3> QED BY <2>4, <2>5, <2>6, <2>8, <3>1, AlikeFits DEF Reading
  <2> QED BY <1>1, <2>1, <2>3, <2>7, <2>8, <2>9, WorkerTyped DEF InBody
<1>6. CASE TimeOut(w)
  <2>1. InBody(w) /\ Calling(w, Ops) /\ NextCall(w).op \notin {"sleep", "pin"} BY <1>6 DEF TimeOut, Calling, Ops
  <2>2. CASE log' = log /\ wk' = [wk EXCEPT ![w] = Suspending(wk[w], "awaiting_signal", {0})]
    <3>1. {0} \in Wakes /\ "awaiting_signal" \in Active BY DelaysWait DEF Active
    <3> QED BY <2>2, <3>1, TypedDecides
  <2>3. CASE Checkpoint(w, 0) /\ wk' = [wk EXCEPT ![w] = Returned(wk[w], CheckpointAnswer(w, 0))]
    <3>1. Readable(log') /\ CheckpointAnswer(w, 0) \in Nat BY <2>1, <2>3, CheckpointFits
    <3> QED BY <2>1, <2>3, <3>1, TypedReturns
  <2> QED BY <1>6, <2>2, <2>3 DEF TimeOut
<1> QED BY <1>2, <1>3, <1>4, <1>5, <1>6

LEMMA ReadableAged ==
  ASSUME NEW l, Readable(l)
  PROVE  /\ Readable(AgedLog(l)) /\ Len(AgedLog(l)) = Len(l) /\ DOMAIN AgedLog(l) = DOMAIN l
         /\ \A i \in DOMAIN l : AgedLog(l)[i] = AgedEntry(l[i])
<1> DEFINE a == AgedLog(l)
<1>1. Len(l) \in Nat /\ DOMAIN l = 1..Len(l) /\ \A i \in DOMAIN l : l[i] \in LogEntries /\ Near(l[i])
  BY ReadableFacts
<1>2. a = [i \in 1..Len(l) |-> AgedEntry(l[i])] BY <1>1 DEF AgedLog
<1>3. DOMAIN a = 1..Len(l) /\ \A i \in DOMAIN a : a[i] = AgedEntry(l[i]) BY <1>2
<1>4. ASSUME NEW i \in DOMAIN l PROVE AgedEntry(l[i]) \in LogEntries /\ Near(AgedEntry(l[i]))
  <2>1. l[i] \in LogEntries /\ Near(l[i]) /\ l[i].val \in Nat BY <1>1, <1>4 DEF LogEntries
  <2>2. Nearer(l[i].val) \in Nat BY <2>1 DEF Nearer
  <2>3. l[i].val \in Instants(Longest) => Nearer(l[i].val) \in Instants(Longest) BY DelaysWait
  <2> QED BY <2>1, <2>2, <2>3 DEF AgedEntry, LogEntries, Near
<1>5. a \in [1..Len(l) -> LogEntries] BY <1>1, <1>2, <1>4
<1>6. a \in Seq(LogEntries) /\ Len(a) = Len(l)
  <2>1. a \in Seq(LogEntries) BY <1>1, <1>5, SeqDef
  <2> QED BY <1>1, <1>3, <2>1, LenProperties
<1> HIDE DEF a
<1>7. \A i \in DOMAIN a : Near(a[i]) BY <1>1, <1>3, <1>4
<1> QED BY <1>1, <1>3, <1>6, <1>7 DEF Readable, a

LEMMA LeaseAged ==
  ASSUME NEW w, NEW x, IsTick(x)
  PROVE  /\ AgedTick(w, x).lease = [x.lease EXCEPT !.expires = Nearer(@)]
         /\ AgedTick(w, x).wake = {Nearer(t) : t \in x.wake} /\ AgedTick(w, x).inbox = x.inbox
         /\ AgedTick(w, x).out = x.out /\ AgedTick(w, x).attempt = x.attempt
<1> DEFINE y == AgedTick(w, x)
           lease == [x.lease EXCEPT !.expires = Nearer(@)]
           wake == {Nearer(t) : t \in x.wake}
           got == y.got
           seen == AgedLog(x.seen)
<1>1. y = [[[[x EXCEPT !.lease = lease] EXCEPT !.seen = seen] EXCEPT !.wake = wake] EXCEPT !.got = got]
  <2>1. got = [i \in DOMAIN x.got |->
           IF deploy[w].calls[i].op \in {"sleep", "pin"} THEN Nearer(x.got[i]) ELSE x.got[i]]
    BY Aged
  <2>2. DOMAIN x = {"pc", "lease", "attempt", "seen", "inbox", "got", "out", "wake"} BY DEF IsTick
  <2> QED BY <2>1, <2>2, Zenon DEF AgedTick
<1> HIDE DEF y, lease, wake, got, seen
<1>2. DOMAIN x = {"pc", "lease", "attempt", "seen", "inbox", "got", "out", "wake"} BY DEF IsTick
<1>3. y.lease = lease /\ y.wake = wake /\ y.inbox = x.inbox /\ y.out = x.out /\ y.attempt = x.attempt BY <1>1, <1>2
<1> QED BY <1>3 DEF y, lease, wake

LEMMA FitsAged ==
  ASSUME NEW w \in Workers, NEW x, IsTick(x), Fits(w, x)
  PROVE  /\ Fits(w, AgedTick(w, x)) /\ AgedTick(w, x).inbox = x.inbox
         /\ Len(AgedTick(w, x).seen) = Len(x.seen) /\ Len(AgedTick(w, x).got) = Len(x.got)
<1> DEFINE y == AgedTick(w, x)
           lease == [x.lease EXCEPT !.expires = Nearer(@)]
           wake == {Nearer(t) : t \in x.wake}
           calls == deploy[w].calls
<1>1. /\ y.seen = AgedLog(x.seen) /\ y.pc = x.pc
      /\ y.got = [i \in DOMAIN x.got |-> IF calls[i].op \in {"sleep", "pin"} THEN Nearer(x.got[i]) ELSE x.got[i]]
  BY Aged
<1>2. y.lease = lease /\ y.wake = wake /\ y.inbox = x.inbox BY LeaseAged
<1> HIDE DEF y
<1>3. lease \in Lease /\ (x.lease = NoLease => lease = NoLease)
  <2>1. x.lease \in Lease BY DEF Fits
  <2>2. Nearer(x.lease.expires) \in Nat /\ Nearer(0) = 0 BY <2>1 DEF Nearer, Lease
  <2>3. lease \in Lease BY <2>1, <2>2 DEF Lease
  <2>4. x.lease = NoLease => lease = NoLease BY <2>2 DEF NoLease
  <2> QED BY <2>3, <2>4
<1>4. wake \in Wakes BY WakesAged DEF Fits
<1>5. Readable(y.seen) /\ Len(y.seen) = Len(x.seen) BY <1>1, ReadableAged DEF Fits
<1>6. /\ y.got \in Seq(Nat) /\ Len(y.got) = Len(x.got)
      /\ \A i \in DOMAIN y.got : calls[i].op \in {"sleep", "pin"} => y.got[i] \in Instants(Longest)
  <2>1. /\ x.got \in Seq(Nat) /\ Len(x.got) \in Nat /\ DOMAIN x.got = 1..Len(x.got)
        /\ \A i \in DOMAIN x.got : x.got[i] \in Nat
    <3>1. x.got \in Seq(Nat) BY DEF Fits
    <3> QED BY <3>1, LenProperties
  <2>2. DOMAIN y.got = 1..Len(x.got) BY <1>1, <2>1
  <2>3. ASSUME NEW i \in DOMAIN x.got
        PROVE  y.got[i] \in Nat /\ (calls[i].op \in {"sleep", "pin"} => y.got[i] \in Instants(Longest))
    <3>1. x.got[i] \in Nat /\ (calls[i].op \in {"sleep", "pin"} => x.got[i] \in Instants(Longest))
      BY <2>1, <2>3 DEF Fits
    <3>2. y.got[i] = IF calls[i].op \in {"sleep", "pin"} THEN Nearer(x.got[i]) ELSE x.got[i] BY <1>1, <2>3
    <3>3. Nearer(x.got[i]) \in Nat BY <3>1 DEF Nearer
    <3> QED BY <3>1, <3>2, <3>3, DelaysWait
  <2>4. y.got \in [1..Len(x.got) -> Nat]
    <3>1. y.got = [i \in 1..Len(x.got) |-> y.got[i]] BY <1>1, <2>1
    <3> QED BY <2>1, <2>3, <3>1
  <2>5. y.got \in Seq(Nat)
    <3>1. ASSUME NEW n \in Nat, NEW s \in [1..n -> Nat] PROVE s \in Seq(Nat) BY SeqDef
    <3> QED BY <2>1, <2>4, <3>1
  <2>6. Len(y.got) = Len(x.got) BY <2>1, <2>2, <2>5, LenProperties
  <2> QED BY <2>1, <2>2, <2>3, <2>5, <2>6
<1> QED BY <1>1, <1>2, <1>3, <1>4, <1>5, <1>6 DEF Fits, y

(* A tick ages with the tables, and forgets nothing of how far it has come. *)
LEMMA TicksAged ==
  ASSUME Typed, Sound, Tick, NEW w \in Workers
  PROVE  /\ wk'[w].pc = wk[w].pc /\ wk'[w].inbox = wk[w].inbox /\ wk'[w].out = wk[w].out
         /\ wk'[w].attempt = wk[w].attempt /\ wk'[w].lease.token = wk[w].lease.token
         /\ wk'[w].lease.version = wk[w].lease.version /\ wk'[w].lease.expires = Nearer(wk[w].lease.expires)
         /\ Len(wk'[w].seen) = Len(wk[w].seen) /\ Len(wk'[w].got) = Len(wk[w].got)
<1> DEFINE x == wk[w]
           y == AgedTick(w, x)
<1>1. IsTick(x) /\ Fits(w, x) /\ wk'[w] = y /\ x.lease \in Lease BY DEF Tick, Typed, Sound, Ticks, Fits
<1>2. y.pc = x.pc BY <1>1, Aged
<1>3. /\ y.inbox = x.inbox /\ y.out = x.out /\ y.attempt = x.attempt
      /\ y.lease = [x.lease EXCEPT !.expires = Nearer(@)]
  BY <1>1, LeaseAged
<1>4. Len(y.seen) = Len(x.seen) /\ Len(y.got) = Len(x.got) BY <1>1, FitsAged
<1> HIDE DEF y
<1>5. /\ y.lease.token = x.lease.token /\ y.lease.version = x.lease.version
      /\ y.lease.expires = Nearer(x.lease.expires)
  BY <1>1, <1>3 DEF Lease
<1> QED BY <1>1, <1>2, <1>3, <1>4, <1>5

LEMMA TypedTick ==
  ASSUME Typed, Sound, Tick
  PROVE  Typed'
<1>1. /\ deploy' = deploy /\ run' = run /\ posted' = posted /\ inbox' = inbox /\ log' = AgedLog(log)
      /\ timer' = {Nearer(t) : t \in timer} /\ wk' = [w \in Workers |-> AgedTick(w, wk[w])]
  BY DEF Tick, others
<1>2. Readable(log') /\ timer' \in Wakes BY <1>1, ReadableAged, WakesAged DEF Typed
<1>3. WellFormed(job')
  <2>1. Next BY DEF Next
  <2> QED BY <2>1, JobFormed DEF Typed, Sound
<1>4. run' = NoRun => log' = <<>> /\ timer' = {}
  <2>1. ASSUME run = NoRun PROVE log' = <<>> /\ timer' = {}
    <3>1. log = <<>> /\ timer = {} BY <2>1 DEF Typed
    <3>2. log' = <<>> BY <1>1, <3>1, EmptySeq DEF AgedLog
    <3>3. timer' = {} BY <1>1, <3>1
    <3> QED BY <3>2, <3>3
  <2> QED BY <1>1, <2>1
<1>5. ASSUME NEW w \in Workers PROVE Fits(w, wk[w])' /\ wk'[w].inbox = wk[w].inbox
  <2>1. Fits(w, wk[w]) /\ IsTick(wk[w]) BY <1>5 DEF Typed, Sound, Ticks
  <2>2. wk'[w] = AgedTick(w, wk[w]) BY <1>1, <1>5
  <2>3. Fits(w, wk'[w]) /\ wk'[w].inbox = wk[w].inbox BY <2>1, <2>2, FitsAged
  <2> QED BY <1>1, <2>3 DEF Fits
<1>6. Posted' = Posted BY <1>1 DEF Posted
<1> QED BY <1>1, <1>2, <1>3, <1>4, <1>5, <1>6 DEF Typed, Readable

LEMMA PostedGrown ==
  ASSUME posted \in Seq(Signals), NEW k \in Signals, posted' = Append(posted, k)
  PROVE  posted' \in Seq(Signals) /\ Posted' = Posted \cup {k}
<1>1. Len(posted) \in Nat /\ DOMAIN posted = 1..Len(posted) BY LenProperties
<1>2. /\ posted' \in Seq(Signals) /\ Len(posted') = Len(posted) + 1 /\ posted'[Len(posted) + 1] = k
      /\ \A i \in 1..Len(posted) : posted'[i] = posted[i]
  BY <1>1, AppendProperties
<1>3. DOMAIN posted' = 1..Len(posted) + 1 BY <1>2, LenProperties
<1>4. ASSUME NEW v \in Posted' PROVE v \in Posted \cup {k}
  <2>1. PICK i \in DOMAIN posted' : v = posted'[i] BY <1>4 DEF Posted
  <2>2. i = Len(posted) + 1 \/ i \in 1..Len(posted) BY <1>1, <1>3, <2>1
  <2> QED BY <1>1, <1>2, <2>1, <2>2 DEF Posted
<1>5. ASSUME NEW v \in Posted \cup {k} PROVE v \in Posted'
  <2>1. CASE v = k
    <3>1. Len(posted) + 1 \in DOMAIN posted' BY <1>1, <1>3
    <3> QED BY <1>2, <2>1, <3>1 DEF Posted
  <2>2. CASE v \in Posted
    <3>1. PICK i \in DOMAIN posted : v = posted[i] BY <2>2 DEF Posted
    <3>2. i \in DOMAIN posted' BY <1>1, <1>3, <3>1
    <3> QED BY <1>1, <1>2, <3>1, <3>2 DEF Posted
  <2> QED BY <1>5, <2>1, <2>2
<1> QED BY <1>2, <1>4, <1>5

LEMMA TypedCalled ==
  ASSUME Typed, Sound, [Next]_vars,
         \/ Callers \/ SubmitEnqueue \/ ReconcileScan \/ ReconcileEnqueue \/ SubmitDies \/ ReconcileDies
         \/ UNCHANGED vars
  PROVE  Typed'
<1>1. WellFormed(job') BY JobFormed DEF Typed, Sound
<1>2. deploy' = deploy /\ wk' = wk
  BY DEF Callers, SubmitStart, Cancel, Retry, Purge, PostSignal, SubmitEnqueue, ReconcileScan, ReconcileEnqueue,
         SubmitDies, ReconcileDies, vars
<1>3. \A w \in Workers : Fits(w, wk[w])' BY <1>2 DEF Typed, Fits
<1>4. CASE \E k \in Signals : PostSignal(k)
  <2>1. PICK k \in Signals : PostSignal(k) BY <1>4
  <2>2. /\ posted' = Append(posted, k) /\ inbox' = inbox \cup {k} /\ run' = run /\ log' = log /\ timer' = timer
    BY <2>1 DEF PostSignal
  <2>3. posted' \in Seq(Signals) /\ Posted' = Posted \cup {k} BY <2>2, PostedGrown DEF Typed
  <2> QED BY <1>1, <1>2, <1>3, <2>2, <2>3 DEF Typed, Readable
<1>5. CASE Purge
  <2>1. run' = NoRun /\ log' = <<>> /\ inbox' = {} /\ posted' = <<>> /\ timer' = {} BY <1>5 DEF Purge
  <2>2. Readable(log)' /\ timer' \in Wakes BY <2>1, NothingRead, DelaysWait DEF Readable
  <2> QED BY <1>1, <1>2, <1>3, <2>1, <2>2, EmptySeq DEF Typed
<1>6. CASE SubmitStart
  <2>1. log' = log /\ inbox' = inbox /\ posted' = posted /\ timer' = timer /\ run' = Fresh
        /\ \A w \in Workers : wk[w].pc = "idle"
    BY <1>6 DEF SubmitStart, Sound, Unborn
  <2>2. \A w \in Workers : wk[w].inbox = {} BY <2>1 DEF Typed, Fits, Reading
  <2>3. run' # NoRun BY <2>1 DEF Fresh, NoRun
  <2> QED BY <1>1, <1>2, <1>3, <2>1, <2>2, <2>3 DEF Typed, Readable, Posted
<1>7. CASE ~Purge /\ ~SubmitStart /\ ~\E k \in Signals : PostSignal(k)
  <2>1. log' = log /\ inbox' = inbox /\ posted' = posted /\ timer' \in {timer, {}}
    BY <1>7 DEF Callers, Cancel, Retry, SubmitEnqueue, ReconcileScan, ReconcileEnqueue, SubmitDies,
         ReconcileDies, vars, stored
  <2>2. run' # NoRun => run # NoRun
    BY <1>7 DEF Callers, Cancel, Retry, NoRun, SubmitEnqueue, ReconcileScan, ReconcileEnqueue, SubmitDies,
         ReconcileDies, vars, stored
  <2>3. run' = NoRun => log' = <<>> /\ timer' = {}
    <3>1. CASE run' = run BY <2>1, <3>1 DEF Typed
    <3>2. CASE Cancel
      <4>1. Row /\ run.status \in Active \cup Terminal /\ run # NoRun
        BY <3>2 DEF Sound, Row, RunRow, Cancel
      <4>2. run' = Terminated(run, "canceled") BY <3>2 DEF Cancel
      <4>3. run' # NoRun
        <5>1. run' = run \/ run'.status = "canceled" BY <4>1, <4>2, Rows DEF Terminal
        <5> QED BY <4>1, <5>1 DEF NoRun
      <4> QED BY <4>3
    <3>3. CASE Retry
      <4>1. run' = Fresh BY <3>3 DEF Retry
      <4> QED BY <4>1 DEF Fresh, NoRun
    <3>4. run' = run \/ Cancel \/ Retry
      BY <1>7 DEF Callers, SubmitEnqueue, ReconcileScan, ReconcileEnqueue, SubmitDies,
         ReconcileDies, vars, stored
    <3> QED BY <3>1, <3>2, <3>3, <3>4
  <2>4. timer' \in Wakes BY <2>1, DelaysWait DEF Typed
  <2> QED BY <1>1, <1>2, <1>3, <2>1, <2>2, <2>3, <2>4 DEF Typed, Readable, Posted
<1> QED BY <1>4, <1>5, <1>6, <1>7

LEMMA TypedStep == Typed /\ Sound /\ [Next]_vars => Typed'
<1> SUFFICES ASSUME Typed, Sound, [Next]_vars PROVE Typed'
  OBVIOUS
<1>1. ASSUME NEW w \in Workers, Steps(w) PROVE Typed'
  BY <1>1, TypedLetsGo, TypedBegins, TypedDecided, TypedAnswers DEF Steps, Work, StepEnds
<1> QED BY <1>1, TypedTick, TypedCalled DEF Next, Dies, Steps

LEMMA InitTyped == Init => Typed
<1> SUFFICES ASSUME Init PROVE Typed
  OBVIOUS
<1>1. Readable(log) /\ timer \in Wakes /\ WellFormed(job) BY NothingRead, DelaysWait DEF Init, WellFormed, NoJob
<1>2. posted \in Seq(Signals) /\ inbox \subseteq Posted BY EmptySeq DEF Init
<1>3. ASSUME NEW w \in Workers PROVE Fits(w, wk[w]) /\ wk[w].inbox = {}
  <2>1. wk[w] = Idle /\ deploy \in Deployments /\ Idle.inbox = {} BY <1>3 DEF Init, Idle
  <2>2. NoLease \in Lease /\ Idle.lease = NoLease BY DEF NoLease, Lease, Idle
  <2> QED BY <2>1, <2>2, EndsFit
<1> QED BY <1>1, <1>2, <1>3 DEF Init, Typed

(* What a worker holds in memory and what the stores hold fit the code they are used by. *)
THEOREM TypedInductive == Spec => [](Sound /\ Typed)
<1>1. Sound /\ [Next]_vars => Sound'
  BY TicksStep, JobStep, RowStep, UnbornStep DEF Sound
<1> QED BY InitSound, InitTyped, <1>1, TypedStep, PTL DEF Spec

(* A run that does not exist has no log and no timer, a deleted job row leaves nothing   *)
(* behind, a wait is never longer than the longest delay, and a worker that has not        *)
(* claimed carries no lease.                                                               *)
THEOREM EngineTypes == Spec => []TypeOK
<1>1. Sound /\ Typed => TypeOK
  <2> SUFFICES ASSUME Sound, Typed PROVE TypeOK
    OBVIOUS
  <2>1. \A w \in Workers : /\ wk[w].lease \in Lease
                           /\ wk[w].pc \in {"idle", "drain"} => wk[w].lease = NoLease
                           /\ wk[w].pc # "body" /\ wk[w].pc # "renew" => wk[w].got = <<>>
    BY DEF Sound, Ticks, IsTick, Typed, Fits
  <2> QED BY <2>1 DEF Sound, Row, Typed, Readable, Wakes, TypeOK
<1> QED BY TypedInductive, <1>1, PTL

-----------------------------------------------------------------------------
(* Leases that do not run out under the tick that holds them. *)

(* Nobody else works on the run meanwhile. *)
LEMMA OnlyOne ==
  ASSUME Alone, run # NoRun, NEW v \in Workers, NEW w \in Workers, Working(v), Working(w)
  PROVE  v = w
BY DEF Alone, Owns, HeldBy

(* An enqueue keeps the lease, and moves the version away from the one it was taken at. *)
LEMMA EnqueueKeeps ==
  ASSUME job \in Job, NEW delay, Enqueue(delay), NEW w \in Workers, wk[w].lease \in Lease, HeldBy(w, wk[w], job)
  PROVE  HeldBy(w, wk[w], job') /\ wk[w].lease.version # job'.version
<1> DEFINE j == Enqueued(job, delay)
<1>1. job.version \in Nat /\ wk[w].lease.version \in Nat /\ MaxVersion \in Nat BY Constants DEF Job, Lease
<1>2. /\ j.queued /\ j.token = job.token /\ j.expires = job.expires /\ j.version = job.version + 1
      /\ DOMAIN j = {"queued", "runAt", "version", "token", "expires"}
  BY DEF Enqueued
<1>3. CASE job.version < MaxVersion /\ job' = j BY <1>1, <1>2, <1>3 DEF HeldBy
<1>4. CASE job.version = MaxVersion /\ wk[w].lease.version # MaxVersion /\ job' = [j EXCEPT !.version = MaxVersion]
  <2> HIDE DEF j
  <2>1. job'.queued /\ job'.token = job.token /\ job'.expires = job.expires /\ job'.version = MaxVersion
    BY <1>2, <1>4
  <2> QED BY <1>1, <1>4, <2>1 DEF HeldBy
<1> QED BY <1>3, <1>4 DEF Enqueue

(* A step of w, when nobody else works on the run. *)
LEMMA AloneGoes ==
  ASSUME Ticks, NEW w \in Workers, NEW x, IsTick(x), wk' = [wk EXCEPT ![w] = x],
         \A v \in Workers : v # w => ~Working(v),
         x.pc \in {"idle", "drain"} \/ (HeldBy(w, x, job') /\ UpToDate(x, job', inbox', log'))
  PROVE  Alone'
<1>1. wk'[w] = x /\ \A v \in Workers : v # w => wk'[v] = wk[v] BY Moved
<1>2. ASSUME NEW v \in Workers, Working(v)' PROVE Owns(v)'
  <2>1. v = w /\ x.pc \notin {"idle", "drain"} BY <1>1, <1>2 DEF Working
  <2> QED BY <1>1, <2>1 DEF Owns
<1> QED BY <1>2 DEF Alone

(* A step that looks at no job row and decides how the tick ends. *)
LEMMA AloneDecides ==
  ASSUME Alone, Ticks, run # NoRun, NEW w \in Workers, Working(w), NEW x, IsTick(x), x.pc \notin Reading,
         x.lease = wk[w].lease, wk' = [wk EXCEPT ![w] = x], job' = job
  PROVE  Alone'
<1>1. \A v \in Workers : v # w => ~Working(v) BY OnlyOne
<1>2. HeldBy(w, x, job') BY DEF Alone, Owns, HeldBy
<1>3. UpToDate(x, job', inbox', log') BY DEF UpToDate
<1> QED BY <1>1, <1>2, <1>3, AloneGoes

LEMMA AloneReads ==
  ASSUME Alone, Ticks, run # NoRun, NEW w \in Workers, Working(w), NEW x, IsTick(x),
         x.lease = wk[w].lease, wk' = [wk EXCEPT ![w] = x], job' = job,
         UpToDate(x, job, inbox', log')
  PROVE  Alone'
<1>1. \A v \in Workers : v # w => ~Working(v) BY OnlyOne
<1>2. HeldBy(w, x, job') BY DEF Alone, Owns, HeldBy
<1> QED BY <1>1, <1>2, AloneGoes

(* Who stops leaves nobody at work. *)
LEMMA AloneStops ==
  ASSUME Alone, Ticks, run # NoRun, NEW w \in Workers, Working(w),
         wk' = [wk EXCEPT ![w] = Idle]
  PROVE  Alone'
<1>1. \A v \in Workers : v # w => ~Working(v) BY OnlyOne
<1>2. IsTick(Idle) /\ Idle.pc = "idle" BY Ends
<1> QED BY <1>1, <1>2, AloneGoes

(* Where the call a body makes is not in its snapshot, its checkpoint is the first. *)
LEMMA FirstToLog ==
  ASSUME Alone, Typed, run # NoRun, NEW w \in Workers, Calling(w, Ops)
  PROVE  /\ Len(wk[w].got) = Len(log) /\ Len(wk[w].seen) <= Len(log)
         /\ Cursor(w) = Len(log) + 1 /\ Len(log) \in Nat
         /\ Owns(w) /\ Working(w) /\ wk[w].pc = "body"
<1>1. wk[w].pc = "body" /\ Cursor(w) > Len(wk[w].seen) /\ Cursor(w) = Len(wk[w].got) + 1
  BY DEF Calling, InBody, Cursor
<1>2. Working(w) /\ Owns(w) BY <1>1 DEF Working, Alone
<1>3. /\ Len(wk[w].seen) <= Len(log) /\ Len(wk[w].got) <= Len(log)
      /\ Len(log) \in {Len(wk[w].seen), Len(wk[w].got)}
  BY <1>1, <1>2 DEF Owns, UpToDate, Reading
<1>4. Len(wk[w].seen) \in Nat /\ Len(wk[w].got) \in Nat /\ Len(log) \in Nat
  <2>1. Readable(log) /\ Readable(wk[w].seen) /\ wk[w].got \in Seq(Nat) BY DEF Typed, Fits
  <2> QED BY <2>1, ReadableFacts, LenProperties
<1> QED BY <1>1, <1>2, <1>3, <1>4

(* A checkpoint that is the first, and the body that goes on. *)
LEMMA AloneLogs ==
  ASSUME Alone, Typed, Sound, run # NoRun, NEW w \in Workers, Calling(w, Ops), NEW val, Checkpoint(w, val),
         NEW x, IsTick(x), x.lease = wk[w].lease, x.pc \in Reading, x.seen = wk[w].seen,
         NEW told \in Nat, x.got = Append(wk[w].got, told),
         NEW out, inbox' = inbox \ out, x.inbox = wk[w].inbox \ out,
         wk' = [wk EXCEPT ![w] = x], job' = job
  PROVE  Alone'
<1>1. /\ Len(wk[w].got) = Len(log) /\ Len(wk[w].seen) <= Len(log) /\ Cursor(w) = Len(log) + 1
      /\ Len(log) \in Nat /\ Owns(w) /\ Working(w) /\ wk[w].pc = "body"
  BY FirstToLog
<1>2. log' = Append(log, Entry(w, val)) BY <1>1 DEF Checkpoint, Logged
<1>3. Len(log') = Len(log) + 1
  <2>1. IsSeq(log) BY ReadableFacts DEF Typed
  <2> QED BY <1>2, <2>1, Grown
<1>4. Len(x.got) = Len(log) + 1
  <2>1. wk[w].got \in Seq(Nat) BY DEF Typed, Fits
  <2> QED BY <1>1, <2>1, AppendProperties
<1>5. /\ wk[w].inbox \subseteq inbox /\ (wk[w].lease.version = job.version => inbox \subseteq wk[w].inbox)
  BY <1>1 DEF Owns, UpToDate, Reading
<1>6. Len(wk[w].seen) \in Nat
  <2>1. Readable(wk[w].seen) BY DEF Typed, Fits
  <2> QED BY <2>1, ReadableFacts
<1>7. UpToDate(x, job, inbox', log') BY <1>1, <1>3, <1>4, <1>5, <1>6 DEF UpToDate
<1> QED BY <1>1, <1>7, AloneReads DEF Sound

(* A tick begins: it claims a run that nobody works on. *)
LEMMA AloneBegins ==
  ASSUME Alone, Typed, Sound, run # NoRun, NEW w \in Workers,
         DrainTimer(w) \/ EnqueueDrained(w) \/ Claim(w) \/ StartRenewed(w) \/ Load(w) \/ MarkRunning(w) \/ Renew(w)
  PROVE  Alone'
<1>1. /\ Ticks /\ IsTick(wk[w]) /\ wk[w].lease \in Lease /\ job \in Job
      /\ \A v \in Workers : wk[v].lease \in Lease
  BY DEF Typed, Sound, Ticks, Fits
<1>2. LeaseMs \in Nat \ {0} BY EngineConstants
<1>3. ASSUME wk[w].pc \in {"idle", "drain"}, NEW x, IsTick(x), x.pc \in {"idle", "drain"},
             wk' = [wk EXCEPT ![w] = x], inbox' = inbox, log' = log,
             job' = job \/ Enqueue(0)
      PROVE  Alone'
  <2>1. wk'[w] = x /\ \A v \in Workers : v # w => wk'[v] = wk[v] BY <1>1, <1>3, Moved
  <2>2. ASSUME NEW v \in Workers, Working(v)' PROVE Owns(v)'
    <3>1. v # w /\ wk'[v] = wk[v] BY <1>3, <2>1, <2>2 DEF Working
    <3>2. Owns(v) BY <2>2, <3>1 DEF Alone, Working
    <3>3. CASE job' = job BY <1>3, <3>1, <3>2, <3>3 DEF Owns
    <3>4. CASE Enqueue(0)
      <4>1. HeldBy(v, wk[v], job') /\ wk[v].lease.version # job'.version
        BY <1>1, <3>2, <3>4, EnqueueKeeps DEF Owns
      <4>2. UpToDate(wk[v], job', inbox, log) BY <3>2, <4>1 DEF Owns, UpToDate
      <4> QED BY <1>3, <3>1, <4>1, <4>2 DEF Owns
    <3> QED BY <1>3, <3>3, <3>4
  <2> QED BY <2>2 DEF Alone
<1>4. CASE DrainTimer(w)
  <2> DEFINE x == [wk[w] EXCEPT !.pc = "drain"]
  <2>1. wk' = [wk EXCEPT ![w] = x] /\ wk[w].pc = "idle" /\ inbox' = inbox /\ log' = log /\ job' = job
    BY <1>4 DEF DrainTimer
  <2>2. IsTick(x) /\ x.pc = "drain" BY <1>1, <2>1 DEF IsTick
  <2> HIDE DEF x
  <2> QED BY <1>3, <2>1, <2>2
<1>5. CASE EnqueueDrained(w) BY <1>3, <1>5, Ends DEF EnqueueDrained
<1>6. CASE Claim(w)
  <2> DEFINE x == [wk[w] EXCEPT !.pc = "start", !.lease = LeaseOn(job')]
  <2>1. /\ wk' = [wk EXCEPT ![w] = x] /\ wk[w].pc = "idle" /\ job.queued /\ job.expires <= 0
        /\ job' = Claimed(job, w, LeaseMs)
    BY <1>6 DEF Claim, Claimable
  <2>2. \A v \in Workers : ~Working(v)
    <3> SUFFICES ASSUME NEW v \in Workers, Working(v) PROVE FALSE
      OBVIOUS
    <3>1. job.expires > 0 BY DEF Alone, Owns, HeldBy
    <3> QED BY <1>1, <2>1, <3>1 DEF Job
  <2>3. IsTick(x) /\ x.pc = "start" /\ x.lease = LeaseOn(job') BY <1>1, <2>1 DEF IsTick
  <2>4. job'.queued /\ job'.token = w /\ job'.expires = LeaseMs /\ job'.version = job.version /\ job.version \in Nat
    BY <1>1, <2>1 DEF Claimed, Job
  <2>5. /\ LeaseOn(job').token = w /\ LeaseOn(job').expires = job'.expires
        /\ LeaseOn(job').version = job'.version
    BY <2>4 DEF LeaseOn
  <2> HIDE DEF x
  <2>6. HeldBy(w, x, job') BY <1>2, <2>3, <2>4, <2>5 DEF HeldBy
  <2>7. UpToDate(x, job', inbox', log') BY <2>3 DEF UpToDate, Reading
  <2> QED BY <1>1, <2>1, <2>2, <2>3, <2>6, <2>7, AloneGoes
<1>7. ASSUME Working(w), NEW x, IsTick(x), wk' = [wk EXCEPT ![w] = x], x.lease = Extended(wk[w].lease, LeaseMs),
             job' = Extended(job, LeaseMs), UpToDate(x, job', inbox', log')
      PROVE  Alone'
  <2>1. \A v \in Workers : v # w => ~Working(v) BY <1>7, OnlyOne
  <2>2. HeldBy(w, wk[w], job) BY <1>7 DEF Alone, Owns
  <2>3. /\ job'.queued = job.queued /\ job'.token = job.token /\ job'.expires = LeaseMs
        /\ job'.version = job.version
    BY <1>1, <1>7 DEF Extended, Job
  <2>4. x.lease.token = wk[w].lease.token /\ x.lease.version = wk[w].lease.version /\ x.lease.expires = LeaseMs
    BY <1>1, <1>7 DEF Extended, Lease
  <2>5. HeldBy(w, x, job') BY <1>2, <2>2, <2>3, <2>4 DEF HeldBy
  <2> QED BY <1>1, <1>7, <2>1, <2>5, AloneGoes
<1>8. CASE StartRenewed(w)
  <2> DEFINE x == [wk[w] EXCEPT !.pc = "load", !.lease = Extended(@, LeaseMs)]
  <2>1. wk' = [wk EXCEPT ![w] = x] /\ wk[w].pc = "start" /\ job' = Extended(job, LeaseMs) BY <1>8 DEF StartRenewed
  <2>2. IsTick(x) /\ x.pc = "load" /\ x.lease = Extended(wk[w].lease, LeaseMs) BY <1>1, <2>1 DEF IsTick
  <2> HIDE DEF x
  <2>3. UpToDate(x, job', inbox', log') BY <2>2 DEF UpToDate, Reading
  <2> QED BY <1>7, <2>1, <2>2, <2>3 DEF Working
<1>9. CASE Load(w)
  <2>1. Working(w) /\ job' = job /\ inbox' = inbox /\ log' = log BY <1>9 DEF Load, Working, stored
  <2> DEFINE x == [wk[w] EXCEPT !.pc = "mark", !.seen = log, !.inbox = inbox]
  <2>2. CASE wk' = [wk EXCEPT ![w] = x]
    <3>1. /\ IsTick(x) /\ x.lease = wk[w].lease /\ x.seen = log /\ x.inbox = inbox /\ x.got = wk[w].got
          /\ wk[w].got = <<>>
      BY <1>1, <1>9 DEF IsTick, Load
    <3>2. Len(log) \in Nat /\ Len(<<>>) = 0 BY ReadableFacts, EmptySeq DEF Typed
    <3> HIDE DEF x
    <3>3. UpToDate(x, job, inbox', log') BY <2>1, <3>1, <3>2 DEF UpToDate
    <3> QED BY <1>1, <2>1, <2>2, <3>1, <3>3, AloneReads
  <2>3. ASSUME NEW y, y \in {Acking(wk[w]), ParkForRedeploy(wk[w])}, wk' = [wk EXCEPT ![w] = y] PROVE Alone'
    <3>1. IsTick(y) /\ y.pc \notin Reading BY <2>3, Ends DEF Reading
    <3>2. y.lease = wk[w].lease BY <2>3 DEF Acking, ParkForRedeploy, Suspending, Idle
    <3> QED BY <1>1, <2>1, <2>3, <3>1, <3>2, AloneDecides
  <2> QED BY <1>9, <2>2, <2>3 DEF Load
<1>10. CASE MarkRunning(w)
  <2>1. Working(w) /\ job' = job /\ inbox' = inbox /\ log' = log /\ wk[w].pc = "mark"
    BY <1>10 DEF MarkRunning, Working
  <2> DEFINE x == [wk[w] EXCEPT !.pc = "body", !.attempt = run'.attempts]
             y == Finishing(wk[w], "failed")
  <2>2. CASE wk' = [wk EXCEPT ![w] = x]
    <3>1. /\ IsTick(x) /\ x.lease = wk[w].lease /\ x.seen = wk[w].seen /\ x.inbox = wk[w].inbox
          /\ x.got = wk[w].got
      BY <1>1, <2>1 DEF IsTick
    <3> HIDE DEF x
    <3>2. UpToDate(wk[w], job, inbox, log) BY <2>1 DEF Alone, Owns
    <3>3. UpToDate(x, job, inbox', log') BY <2>1, <3>1, <3>2 DEF UpToDate, Reading
    <3> QED BY <1>1, <2>1, <2>2, <3>1, <3>3, AloneReads
  <2>3. CASE wk' = [wk EXCEPT ![w] = y]
    <3>1. IsTick(y) /\ y.pc \notin Reading BY Ends DEF Reading, Terminal
    <3>2. y.lease = wk[w].lease BY DEF Finishing, Idle
    <3> HIDE DEF y
    <3> QED BY <1>1, <2>1, <2>3, <3>1, <3>2, AloneDecides
  <2> QED BY <1>10, <2>2, <2>3 DEF MarkRunning
<1>11. CASE Renew(w)
  <2>1. wk[w].pc \in {"body", "renew"} /\ inbox' = inbox /\ log' = log BY <1>11 DEF Renew, Calling, InBody
  <2>2. Working(w) /\ UpToDate(wk[w], job, inbox, log) BY <2>1 DEF Working, Alone, Owns
  <2> DEFINE x == [wk[w] EXCEPT !.pc = "body"]
             y == [wk[w] EXCEPT !.pc = "body", !.lease = Extended(@, LeaseMs)]
  <2>3. /\ IsTick(x) /\ x.lease = wk[w].lease /\ x.seen = wk[w].seen /\ x.inbox = wk[w].inbox
        /\ x.got = wk[w].got
        /\ IsTick(y) /\ y.lease = Extended(wk[w].lease, LeaseMs) /\ y.seen = wk[w].seen
        /\ y.inbox = wk[w].inbox /\ y.got = wk[w].got
    BY <1>1, <2>1 DEF IsTick
  <2>4. \/ wk' = [wk EXCEPT ![w] = x] /\ job' = job
        \/ wk' = [wk EXCEPT ![w] = y] /\ job' = Extended(job, LeaseMs)
    BY <1>11 DEF Renew, Renewed
  <2> HIDE DEF x, y
  <2>5. CASE wk' = [wk EXCEPT ![w] = x] /\ job' = job
    <3>1. UpToDate(x, job, inbox', log') BY <2>1, <2>2, <2>3 DEF UpToDate, Reading
    <3> QED BY <1>1, <2>2, <2>3, <2>5, <3>1, AloneReads
  <2>6. CASE wk' = [wk EXCEPT ![w] = y] /\ job' = Extended(job, LeaseMs)
    <3>1. job'.version = job.version BY <1>1, <2>6 DEF Extended, Job
    <3>2. y.lease.version = wk[w].lease.version BY <1>1, <2>3 DEF Extended, Lease
    <3>3. UpToDate(y, job', inbox', log') BY <2>1, <2>2, <2>3, <3>1, <3>2 DEF UpToDate, Reading
    <3> QED BY <1>7, <2>2, <2>3, <2>6, <3>3
  <2> QED BY <2>4, <2>5, <2>6
<1> QED BY <1>4, <1>5, <1>6, <1>8, <1>9, <1>10, <1>11

LEMMA AloneEnds ==
  ASSUME Alone, Typed, Sound, run # NoRun, NEW w \in Workers,
         \/ StartTooLate(w) \/ Ack(w) \/ RunGone(w) \/ Drift(w) \/ RejectSignal(w) \/ AwaitSignal(w)
         \/ Suspend(w) \/ Finish(w) \/ Crash(w) \/ \E permanent \in BOOLEAN : StepThrows(w, permanent)
  PROVE  Alone'
<1>1. Ticks BY DEF Sound
<1>2. CASE StartTooLate(w) \/ Ack(w)
  BY <1>1, <1>2, AloneStops DEF StartTooLate, Ack, Working
<1>3. CASE RunGone(w) BY <1>3 DEF RunGone
<1>4. CASE Crash(w)
  <2>1. CASE wk[w].pc = "drain"
    <3>1. IsTick(Idle) /\ Idle.pc = "idle" BY Ends
    <3>2. wk' = [wk EXCEPT ![w] = Idle] /\ job' = job /\ inbox' = inbox /\ log' = log BY <1>4 DEF Crash, stored
    <3>3. wk'[w] = Idle /\ \A v \in Workers : v # w => wk'[v] = wk[v] BY <1>1, <3>1, <3>2, Moved
    <3>4. ASSUME NEW v \in Workers, Working(v)' PROVE Owns(v)'
      <4>1. v # w /\ wk'[v] = wk[v] BY <3>1, <3>3, <3>4 DEF Working
      <4>2. Owns(v) BY <3>4, <4>1 DEF Alone, Working
      <4> QED BY <3>2, <4>1, <4>2 DEF Owns
    <3> QED BY <3>4 DEF Alone
  <2>2. CASE wk[w].pc # "drain" BY <1>1, <1>4, <2>2, AloneStops DEF Crash, Working
  <2> QED BY <2>1, <2>2
<1>5. ASSUME Working(w), job' = job, NEW x, wk' = [wk EXCEPT ![w] = x],
             \/ x = Acking(wk[w]) \/ x = ParkForRedeploy(wk[w])
             \/ \E s \in Terminal : x = Finishing(wk[w], s)
             \/ \E s \in Active : \E t : x = Suspending(wk[w], s, t)
      PROVE  Alone'
  <2>1. IsTick(x) /\ x.pc \notin Reading BY <1>5, Ends DEF Reading
  <2>2. x.lease = wk[w].lease BY <1>5 DEF Acking, ParkForRedeploy, Finishing, Suspending, Idle
  <2> QED BY <1>1, <1>5, <2>1, <2>2, AloneDecides
<1> USE DEF Active, Terminal
<1>6. CASE Drift(w) BY <1>5, <1>6 DEF Drift, Replaying, InBody, Working, stored
<1>7. CASE RejectSignal(w) BY <1>5, <1>7 DEF RejectSignal, Calling, InBody, Working, stored
<1>8. CASE AwaitSignal(w) BY <1>5, <1>8 DEF AwaitSignal, Calling, InBody, Working, stored
<1>9. CASE Suspend(w) BY <1>5, <1>9 DEF Suspend, Working
<1>10. CASE Finish(w) BY <1>5, <1>10 DEF Finish, Returning, Working
<1>11. ASSUME NEW permanent \in BOOLEAN, StepThrows(w, permanent) PROVE Alone'
  BY <1>5, <1>11 DEF StepThrows, Calling, InBody, Working, stored
<1> QED BY <1>2, <1>3, <1>4, <1>6, <1>7, <1>8, <1>9, <1>10, <1>11

LEMMA AloneAnswers ==
  ASSUME Alone, Typed, Sound, NEW w \in Workers,
         Replay(w) \/ Pin(w) \/ RunStep(w) \/ TakeSignal(w) \/ TimeOut(w)
  PROVE  Alone'
<1>1. /\ Ticks /\ IsTick(wk[w]) /\ wk[w].pc = "body" /\ run # NoRun /\ Working(w) /\ job' = job
  BY DEF Sound, Ticks, Replay, Pin, RunStep, TakeSignal, TimeOut, Replaying, Calling, InBody, Working, stored
<1>2. UpToDate(wk[w], job, inbox, log) /\ wk[w].got \in Seq(Nat) BY <1>1 DEF Alone, Owns, Typed, Fits
<1>3. ASSUME NEW val
      PROVE  /\ IsTick(Returned(wk[w], val)) /\ Returned(wk[w], val).pc = "body"
             /\ Returned(wk[w], val).lease = wk[w].lease /\ Returned(wk[w], val).inbox = wk[w].inbox
             /\ Returned(wk[w], val).seen = wk[w].seen /\ Returned(wk[w], val).got = Append(wk[w].got, val)
  <2>1. Returned(wk[w], val).lease = wk[w].lease /\ Returned(wk[w], val).inbox = wk[w].inbox
    BY <1>1 DEF Returned, IsTick
  <2> QED BY <1>1, <2>1, Answered
<1>4. ASSUME NEW at, wk' = [wk EXCEPT ![w] = Suspending(wk[w], "sleeping", {at})] PROVE Alone'
  <2> DEFINE x == Suspending(wk[w], "sleeping", {at})
  <2>1. IsTick(x) /\ x.pc \notin Reading BY Ends DEF Reading, Active
  <2>2. x.lease = wk[w].lease BY DEF Suspending, Idle
  <2>3. wk' = [wk EXCEPT ![w] = x] BY <1>4
  <2> HIDE DEF x
  <2> QED BY <1>1, <2>1, <2>2, <2>3, AloneDecides
<1>5. CASE Replay(w)
  <2>1. inbox' = inbox /\ log' = log BY <1>5 DEF Replay, stored
  <2> DEFINE val == wk[w].seen[Cursor(w)].val
             x == Returned(wk[w], val)
  <2>2. CASE wk' = [wk EXCEPT ![w] = x]
    <3>1. val \in Nat /\ Len(wk[w].got) + 1 <= Len(wk[w].seen)
      BY <1>5, ReplayedNear DEF Replay, Replaying, Cursor
    <3>2. Len(x.got) = Len(wk[w].got) + 1 /\ Len(wk[w].got) \in Nat
      BY <1>2, <1>3, <3>1, AppendProperties, LenProperties
    <3>3. Len(log) \in Nat /\ Len(wk[w].seen) \in Nat BY ReadableFacts DEF Typed, Fits
    <3>4. /\ IsTick(x) /\ x.lease = wk[w].lease /\ x.inbox = wk[w].inbox /\ x.seen = wk[w].seen BY <1>3
    <3> HIDE DEF x, val
    <3>5. UpToDate(x, job, inbox', log')
      BY <1>1, <1>2, <2>1, <3>1, <3>2, <3>3, <3>4 DEF UpToDate, Reading
    <3> QED BY <1>1, <2>2, <3>4, <3>5, AloneReads
  <2>3. CASE wk' = [wk EXCEPT ![w] = Suspending(wk[w], "sleeping", {val})] BY <1>4, <2>3
  <2> QED BY <1>5, <2>2, <2>3 DEF Replay, SleptUntil
<1>6. CASE Pin(w)
  <2>1. PICK at \in {SleepMs, WaitMs} :
          /\ Checkpoint(w, at)
          /\ \/ wk' = [wk EXCEPT ![w] = Returned(wk[w], at)]
             \/ wk' = [wk EXCEPT ![w] = Suspending(wk[w], "sleeping", {at})]
    BY <1>6 DEF Pin, SleptUntil
  <2>2. at \in Nat /\ Calling(w, Ops) /\ inbox' = inbox BY <1>6, DelaysWait DEF Pin, Calling, Ops
  <2>3. CASE wk' = [wk EXCEPT ![w] = Returned(wk[w], at)]
    <3> DEFINE x == Returned(wk[w], at)
    <3>1. /\ IsTick(x) /\ x.pc \in Reading /\ x.lease = wk[w].lease /\ x.seen = wk[w].seen
          /\ x.got = Append(wk[w].got, at) /\ x.inbox = wk[w].inbox \ {} /\ inbox' = inbox \ {}
          /\ wk' = [wk EXCEPT ![w] = x]
      BY <1>3, <2>2, <2>3 DEF Reading
    <3> HIDE DEF x
    <3> QED BY <1>1, <2>1, <2>2, <3>1, AloneLogs
  <2> QED BY <1>4, <2>1, <2>3
<1>7. CASE RunStep(w)
  <2> DEFINE val == CheckpointAnswer(w, w)
             y == Returned(wk[w], val)
             x == [y EXCEPT !.pc = "renew"]
  <2>1. /\ wk' = [wk EXCEPT ![w] = x] /\ Checkpoint(w, w) /\ Calling(w, Ops) /\ inbox' = inbox \ {}
        /\ NextCall(w).op \notin {"sleep", "pin"}
    BY <1>7 DEF RunStep, Calling, Ops
  <2>2. w \in Nat BY Constants
  <2>3. val \in Nat BY <2>1, <2>2, CheckpointFits
  <2> HIDE DEF val
  <2>4. /\ IsTick(y) /\ y.pc = "body" /\ y.lease = wk[w].lease /\ y.inbox = wk[w].inbox
        /\ y.seen = wk[w].seen /\ y.got = Append(wk[w].got, val)
    BY <1>3
  <2> HIDE DEF y
  <2>5. /\ IsTick(x) /\ x.pc = "renew" /\ x.lease = wk[w].lease /\ x.inbox = wk[w].inbox \ {}
        /\ x.seen = wk[w].seen /\ x.got = Append(wk[w].got, val)
    <3>1. IsTick(x) BY <2>4, AnsweredAnd
    <3> QED BY <2>4, <3>1 DEF IsTick
  <2> HIDE DEF x
  <2> QED BY <1>1, <2>1, <2>3, <2>5, AloneLogs DEF Reading
<1>8. CASE TakeSignal(w)
  <2> DEFINE k == First(Pending(w))
             val == CheckpointAnswer(w, k)
             y == Returned(wk[w], val)
             x == [y EXCEPT !.inbox = Without(wk[w].inbox, k)]
  <2>1. /\ wk' = [wk EXCEPT ![w] = x] /\ Checkpoint(w, k) /\ Calling(w, Ops) /\ Pending(w) # {}
        /\ NextCall(w).op \notin {"sleep", "pin"}
    BY <1>8 DEF TakeSignal, Calling, Ops
  <2>2. inbox' = inbox \ {k}
    <3>1. Cursor(w) > Len(log) BY <1>1, <2>1, FirstToLog
    <3> QED BY <1>8, <3>1 DEF TakeSignal, Without
  <2>3. k \in Nat BY <1>1, <2>1, PendingFits
  <2> HIDE DEF k
  <2>4. val \in Nat BY <2>1, <2>3, CheckpointFits
  <2> HIDE DEF val
  <2>5. /\ IsTick(y) /\ y.pc = "body" /\ y.lease = wk[w].lease /\ y.inbox = wk[w].inbox
        /\ y.seen = wk[w].seen /\ y.got = Append(wk[w].got, val)
    BY <1>3
  <2> HIDE DEF y
  <2>6. /\ IsTick(x) /\ x.pc = "body" /\ x.lease = wk[w].lease /\ x.inbox = wk[w].inbox \ {k}
        /\ x.seen = wk[w].seen /\ x.got = Append(wk[w].got, val)
    <3>1. IsTick(x) BY <2>5, AnsweredAnd
    <3> QED BY <2>5, <3>1 DEF IsTick, Without
  <2> HIDE DEF x
  <2> QED BY <1>1, <2>1, <2>2, <2>4, <2>6, AloneLogs DEF Reading
<1>9. CASE TimeOut(w)
  <2>1. Calling(w, Ops) /\ inbox' = inbox /\ NextCall(w).op \notin {"sleep", "pin"}
    BY <1>9 DEF TimeOut, Calling, Ops
  <2>2. CASE wk' = [wk EXCEPT ![w] = Suspending(wk[w], "awaiting_signal", {0})]
    <3> DEFINE x == Suspending(wk[w], "awaiting_signal", {0})
    <3>1. IsTick(x) /\ x.pc \notin Reading BY Ends DEF Reading, Active
    <3>2. x.lease = wk[w].lease BY DEF Suspending, Idle
    <3>3. wk' = [wk EXCEPT ![w] = x] BY <2>2
    <3> HIDE DEF x
    <3> QED BY <1>1, <3>1, <3>2, <3>3, AloneDecides
  <2>3. CASE Checkpoint(w, 0) /\ wk' = [wk EXCEPT ![w] = Returned(wk[w], CheckpointAnswer(w, 0))]
    <3> DEFINE val == CheckpointAnswer(w, 0)
               x == Returned(wk[w], val)
    <3>1. val \in Nat BY <2>1, <2>3, CheckpointFits
    <3>2. /\ IsTick(x) /\ x.pc \in Reading /\ x.lease = wk[w].lease /\ x.seen = wk[w].seen
          /\ x.got = Append(wk[w].got, val) /\ x.inbox = wk[w].inbox \ {} /\ inbox' = inbox \ {}
          /\ wk' = [wk EXCEPT ![w] = x]
      BY <1>3, <2>1, <2>3 DEF Reading
    <3> HIDE DEF x, val
    <3> QED BY <1>1, <2>1, <2>3, <3>1, <3>2, AloneLogs
  <2> QED BY <1>9, <2>2, <2>3 DEF TimeOut
<1> QED BY <1>5, <1>6, <1>7, <1>8, <1>9

(* Time passes only while every lease in hand has some left. *)
LEMMA AloneTick ==
  ASSUME Timely, Alone, Typed, Sound, Tick
  PROVE  Alone'
<1>1. /\ run' = run /\ inbox' = inbox /\ log' = AgedLog(log) /\ wk' = [w \in Workers |-> AgedTick(w, wk[w])]
      /\ job' = [job EXCEPT !.runAt = Nearer(@), !.expires = Nearer(@)]
      /\ \A w \in Workers : wk[w].lease # NoLease => wk[w].lease.expires > 1
  BY DEF Tick, others
<1>2. /\ job'.queued = job.queued /\ job'.token = job.token /\ job'.version = job.version
      /\ job'.expires = Nearer(job.expires)
  <2> DEFINE at == Nearer(job.runAt)
             expires == Nearer(job.expires)
  <2>1. job' = [[job EXCEPT !.runAt = at] EXCEPT !.expires = expires] BY <1>1, Zenon DEF Sound, Job
  <2>2. DOMAIN job = {"queued", "runAt", "version", "token", "expires"} BY DEF Sound, Job
  <2> HIDE DEF at
  <2>3. /\ job'.queued = job.queued /\ job'.token = job.token /\ job'.version = job.version
        /\ job'.expires = expires
    <3> HIDE DEF expires
    <3> QED BY <2>1, <2>2, Zenon
  <2> QED BY <2>3
<1>3. ASSUME run # NoRun, NEW w \in Workers, Working(w)' PROVE Owns(w)'
  <2> DEFINE x == wk[w]
             y == wk'[w]
  <2>1. /\ y.pc = x.pc /\ y.inbox = x.inbox /\ Len(y.seen) = Len(x.seen) /\ Len(y.got) = Len(x.got)
        /\ y.lease.token = x.lease.token /\ y.lease.version = x.lease.version
        /\ y.lease.expires = Nearer(x.lease.expires) /\ x.lease \in Lease
    BY TicksAged DEF Typed, Fits
  <2>2. Owns(w) BY <1>3, <2>1 DEF Alone, Working
  <2>3. Len(log') = Len(log) BY <1>1, ReadableAged DEF Typed
  <2> HIDE DEF y
  <2>4. HeldBy(w, y, job')
    <3>1. HeldBy(w, x, job) /\ w # 0 BY <2>2, Constants DEF Owns
    <3>2. x.lease # NoLease BY <3>1 DEF HeldBy, NoLease
    <3>3. x.lease.expires > 1 /\ x.lease.expires \in Nat BY <1>1, <2>1, <3>2 DEF Lease
    <3>4. Nearer(x.lease.expires) > 0 BY <3>3 DEF Nearer
    <3> QED BY <1>2, <2>1, <3>1, <3>4 DEF HeldBy
  <2>5. UpToDate(y, job', inbox', log') BY <1>1, <1>2, <2>1, <2>2, <2>3 DEF Owns, UpToDate
  <2> QED BY <2>4, <2>5 DEF Owns, y
<1> QED BY <1>1, <1>3 DEF Alone

LEMMA AloneCalled ==
  ASSUME Alone, Typed, Sound, [Next]_vars,
         \/ Callers \/ SubmitEnqueue \/ ReconcileScan \/ ReconcileEnqueue \/ SubmitDies \/ ReconcileDies
         \/ UNCHANGED vars
  PROVE  Alone'
<1>1. wk' = wk /\ job \in Job /\ \A w \in Workers : wk[w].lease \in Lease
  BY DEF Callers, SubmitStart, Cancel, Retry, Purge, PostSignal, SubmitEnqueue, ReconcileScan, ReconcileEnqueue,
         SubmitDies, ReconcileDies, vars, Sound, Typed, Fits
<1>2. CASE SubmitStart BY <1>1, <1>2 DEF SubmitStart, Sound, Unborn, Alone, Working
<1>3. CASE Purge BY <1>3 DEF Purge, Alone
<1>4. ASSUME run # NoRun, log' = log, inbox \subseteq inbox',
             (job' = job /\ inbox' = inbox) \/ \E delay \in Nat : Enqueue(delay)
      PROVE  Alone'
  <2>1. ASSUME NEW w \in Workers, Working(w)' PROVE Owns(w)'
    <3>1. Owns(w) /\ wk'[w] = wk[w] BY <1>1, <1>4, <2>1 DEF Alone, Working
    <3>2. CASE job' = job /\ inbox' = inbox BY <1>4, <3>1, <3>2 DEF Owns
    <3>3. ASSUME NEW delay \in Nat, Enqueue(delay) PROVE Owns(w)'
      <4>1. HeldBy(w, wk[w], job') /\ wk[w].lease.version # job'.version
        BY <1>1, <3>1, <3>3, EnqueueKeeps DEF Owns
      <4>2. UpToDate(wk[w], job', inbox', log) BY <1>4, <3>1, <4>1 DEF Owns, UpToDate
      <4> QED BY <1>4, <3>1, <4>1, <4>2 DEF Owns
    <3> QED BY <1>4, <3>2, <3>3
  <2> QED BY <2>1 DEF Alone
<1>5. CASE ~SubmitStart /\ ~Purge
  <2>1. log' = log /\ inbox \subseteq inbox' /\ ((job' = job /\ inbox' = inbox) \/ \E delay \in Nat : Enqueue(delay))
    BY <1>5, Constants DEF Callers, Cancel, Retry, PostSignal, SubmitEnqueue, ReconcileScan, ReconcileEnqueue,
                SubmitDies, ReconcileDies, vars, stored
  <2>2. run' # NoRun => run # NoRun
    BY <1>5 DEF Callers, Cancel, Retry, PostSignal, NoRun, SubmitEnqueue, ReconcileScan, ReconcileEnqueue,
                SubmitDies, ReconcileDies, vars, stored
  <2>3. CASE run' = NoRun BY <2>3 DEF Alone
  <2> QED BY <1>4, <2>1, <2>2, <2>3
<1> QED BY <1>2, <1>3, <1>5

LEMMA AloneStep == ASSUME Timely PROVE Alone /\ Typed /\ Sound /\ [Next]_vars => Alone'
<1> SUFFICES ASSUME Alone, Typed, Sound, [Next]_vars PROVE Alone'
  OBVIOUS
<1>1. ASSUME NEW w \in Workers, Steps(w) PROVE Alone'
  <2>1. CASE run = NoRun
    <3>1. run' = NoRun BY <1>1, <2>1, WorkerKeepsRun
    <3> QED BY <3>1 DEF Alone
  <2>2. CASE run # NoRun
    BY <1>1, <2>2, AloneBegins, AloneEnds, AloneAnswers DEF Steps, Work, StepEnds
  <2> QED BY <2>1, <2>2
<1> QED BY <1>1, AloneTick, AloneCalled DEF Next, Dies, Steps

(* Where no lease runs out under a tick, at most one worker works on the run, with the     *)
(* log as it left it and the inbox as it loaded it but for later deliveries.               *)
THEOREM OneWorkerAtATime == ASSUME Timely PROVE Spec => []Alone
<1>1. Init => Alone BY DEF Init, Alone
<1>2. Alone /\ Typed /\ Sound /\ [Next]_vars => Alone' BY AloneStep
<1> QED BY <1>1, <1>2, TypedInductive, PTL DEF Spec

-----------------------------------------------------------------------------
(* What becomes of a delivery. *)

(* The worker is the first to log the call it stands at. *)
Lengthens(w, val) == Calling(w, Ops) /\ Cursor(w) = Len(log) + 1 /\ log' = Append(log, Entry(w, val))

LEMMA Lengthened ==
  ASSUME Typed, NEW w \in Workers, Calling(w, Ops), Cursor(w) <= Len(log) + 1, NEW val, Checkpoint(w, val)
  PROVE  /\ Cursor(w) \in Nat
         /\ \/ log' = log /\ ~(Cursor(w) > Len(log))
            \/ Lengthens(w, val) /\ Cursor(w) > Len(log)
<1>1. Len(log) \in Nat /\ Len(wk[w].got) \in Nat
  <2>1. Readable(log) /\ wk[w].got \in Seq(Nat) BY DEF Typed, Fits
  <2> QED BY <2>1, ReadableFacts, LenProperties
<1>2. Cursor(w) \in Nat BY <1>1 DEF Cursor
<1>3. CASE Cursor(w) <= Len(log)
  BY <1>1, <1>2, <1>3 DEF Checkpoint, Logged
<1>4. CASE ~(Cursor(w) <= Len(log)) BY <1>1, <1>2, <1>4 DEF Checkpoint, Logged, Lengthens
<1> QED BY <1>2, <1>3, <1>4

(* A log that grew by one entry. *)
LEMMA GrownByOne ==
  ASSUME Typed, NEW w \in Workers, NEW val, Lengthens(w, val)
  PROVE  LET n == Len(log) + 1
         IN  /\ Len(log) \in Nat /\ DOMAIN log = 1..Len(log) /\ n \notin DOMAIN log
             /\ Len(log') = n /\ DOMAIN log' = DOMAIN log \cup {n}
             /\ \A i \in DOMAIN log : log'[i] = log[i]
             /\ log'[n].call = Label(NextCall(w)) /\ log'[n].val = val
<1>1. IsSeq(log) /\ Len(log) \in Nat /\ DOMAIN log = 1..Len(log) BY ReadableFacts DEF Typed
<1>2. /\ IsSeq(log') /\ Len(log') = Len(log) + 1 /\ log'[Len(log) + 1] = Entry(w, val)
      /\ \A i \in DOMAIN log : log'[i] = log[i]
  BY <1>1, Grown DEF Lengthens
<1>3. DOMAIN log' = 1..Len(log) + 1 BY <1>1, <1>2, SeqFacts
<1> QED BY <1>1, <1>2, <1>3 DEF Entry

LEMMA PostedSigned == posted \in Seq(Signals) => Posted \subseteq Signals
<1>1. posted \in Seq(Signals) => DOMAIN posted = 1..Len(posted) /\ posted \in [1..Len(posted) -> Signals]
  BY LenProperties
<1> QED BY <1>1 DEF Posted

(* The steps of a worker that touch the log, where it stands not beyond its end. *)
LEMMA WorkerLogs ==
  ASSUME Typed, NEW w \in Workers, Steps(w), Calling(w, Ops) => Cursor(w) <= Len(log) + 1
  PROVE  /\ posted' = posted
         /\ \/ log' = log /\ inbox' = inbox
            \/ RunStep(w) /\ Lengthens(w, w)
            \/ Pin(w) /\ NextCall(w).op \in {"sleep", "pin"} /\ \E at : Lengthens(w, at)
            \/ TakeSignal(w) /\ Lengthens(w, First(Pending(w)))
            \/ TimeOut(w) /\ Lengthens(w, 0)
<1>1. \/ log' = log /\ inbox' = inbox /\ posted' = posted
      \/ RunStep(w) \/ Pin(w) \/ TakeSignal(w) \/ TimeOut(w)
  BY DEF Steps, Work, StepEnds, DrainTimer, Claim, EnqueueDrained, StartRenewed, StartTooLate, Load,
       MarkRunning, Replay, Drift, StepThrows, RejectSignal, AwaitSignal, Suspend, Finish, Ack, RunGone, Renew,
       Crash, stored
<1>2. ASSUME RunStep(w) \/ Pin(w) \/ TakeSignal(w) \/ TimeOut(w)
      PROVE  Calling(w, Ops) /\ Cursor(w) <= Len(log) + 1 /\ posted' = posted
  BY <1>2 DEF RunStep, Pin, TakeSignal, TimeOut, Calling, InBody, Ops
<1>3. CASE RunStep(w) BY <1>2, <1>3, Lengthened DEF RunStep
<1>4. CASE Pin(w)
  <2>1. PICK at : Checkpoint(w, at) BY <1>4 DEF Pin
  <2>2. inbox' = inbox /\ NextCall(w).op \in {"sleep", "pin"} BY <1>4 DEF Pin, Calling
  <2> QED BY <1>2, <1>4, <2>1, <2>2, Lengthened
<1>5. CASE TakeSignal(w)
  <2>1. Checkpoint(w, First(Pending(w))) BY <1>5 DEF TakeSignal
  <2>2. Cursor(w) > Len(log) \/ inbox' = inbox BY <1>5 DEF TakeSignal
  <2> QED BY <1>2, <1>5, <2>1, <2>2, Lengthened
<1>6. CASE TimeOut(w)
  <2>1. inbox' = inbox /\ (log' = log \/ Checkpoint(w, 0)) BY <1>6 DEF TimeOut
  <2> QED BY <1>2, <1>6, <2>1, Lengthened
<1> QED BY <1>1, <1>3, <1>4, <1>5, <1>6

(* The steps that touch the log, where no worker stands beyond its end. *)
LEMMA LogMoves ==
  ASSUME Typed, [Next]_vars, run # NoRun => \A w \in Workers : Calling(w, Ops) => Cursor(w) <= Len(log) + 1
  PROVE  \/ log' = log /\ inbox' = inbox /\ posted' = posted
         \/ \E k \in Signals : PostSignal(k)
         \/ Tick \/ Purge
         \/ \E w \in Workers :
              \/ RunStep(w) /\ Lengthens(w, w)
              \/ Pin(w) /\ NextCall(w).op \in {"sleep", "pin"} /\ \E at : Lengthens(w, at)
              \/ TakeSignal(w) /\ Lengthens(w, First(Pending(w)))
              \/ TimeOut(w) /\ Lengthens(w, 0)
<1>1. ASSUME NEW w \in Workers, Steps(w)
      PROVE  \/ log' = log /\ inbox' = inbox /\ posted' = posted
             \/ RunStep(w) /\ Lengthens(w, w)
             \/ Pin(w) /\ NextCall(w).op \in {"sleep", "pin"} /\ \E at : Lengthens(w, at)
             \/ TakeSignal(w) /\ Lengthens(w, First(Pending(w)))
             \/ TimeOut(w) /\ Lengthens(w, 0)
  <2>1. Calling(w, Ops) => run # NoRun BY DEF Calling, InBody
  <2> QED BY <1>1, <2>1, WorkerLogs
<1>2. CASE SubmitStart \/ Cancel \/ Retry \/ SubmitEnqueue \/ ReconcileScan \/ ReconcileEnqueue \/ SubmitDies
           \/ ReconcileDies \/ UNCHANGED vars
  BY <1>2 DEF SubmitStart, Cancel, Retry, SubmitEnqueue, ReconcileScan, ReconcileEnqueue, SubmitDies,
              ReconcileDies, vars, stored
<1> QED BY <1>1, <1>2 DEF Next, Dies, Steps, Callers

(* Where no lease runs out under a tick, the version tells every delivery a timeout must   *)
(* not overlook: a timeout is logged only when the inbox holds nothing for the wait.       *)
THEOREM SignalsWin == ASSUME Timely PROVE Spec => SignalWins
<1> DEFINE Wins == \A i \in DOMAIN log' \ DOMAIN log :
              run.status \in Active /\ log'[i].call[1] = "signal" /\ log'[i].val = 0
              => \A k \in inbox : Name[k] # log'[i].call[2]
<1>1. ASSUME Alone, Typed, [Next]_vars PROVE Wins
  <2>1. run # NoRun => \A w \in Workers : Calling(w, Ops) => Cursor(w) <= Len(log) + 1
    <3> SUFFICES ASSUME run # NoRun, NEW w \in Workers, Calling(w, Ops) PROVE Cursor(w) <= Len(log) + 1
      OBVIOUS
    <3> QED BY <1>1, FirstToLog
  <2>2. CASE DOMAIN log' \ DOMAIN log = {} BY <2>2
  <2>3. CASE log' = log \/ Tick \/ Purge
    <3>1. DOMAIN log' \ DOMAIN log = {}
      <4>1. CASE Tick BY <4>1 DEF Tick, AgedLog
      <4>2. CASE Purge BY <4>2, EmptySeq DEF Purge
      <4> QED BY <2>3, <4>1, <4>2
    <3> QED BY <2>2, <3>1
  <2>4. ASSUME NEW w \in Workers, NEW val, Lengthens(w, val)
        PROVE  \A i \in DOMAIN log' \ DOMAIN log : log'[i].call = Label(NextCall(w)) /\ log'[i].val = val
    BY <1>1, <2>4, GrownByOne
  <2>5. ASSUME NEW w \in Workers, RunStep(w) \/ Pin(w), NEW val, Lengthens(w, val) PROVE Wins
    <3>1. NextCall(w).op \in {"step", "timed", "sleep", "pin"} BY <2>5 DEF RunStep, Pin, Calling
    <3>2. Label(NextCall(w))[1] # "signal" BY <3>1 DEF Label
    <3> QED BY <2>4, <2>5, <3>2
  <2>6. ASSUME NEW w \in Workers, TakeSignal(w), Lengthens(w, First(Pending(w))) PROVE Wins
    <3>1. First(Pending(w)) # 0 BY <1>1, <2>6, PendingFits DEF TakeSignal, Calling, InBody
    <3> QED BY <2>4, <2>6, <3>1
  <2>7. ASSUME NEW w \in Workers, TimeOut(w), Lengthens(w, 0) PROVE Wins
    <3>1. /\ Pending(w) = {} /\ run # NoRun /\ Owns(w) /\ wk[w].pc = "body" /\ Cursor(w) > Len(log)
      BY <1>1, <2>7, FirstToLog DEF TimeOut, Lengthens, Calling, InBody
    <3>2. ~VersionMoved(w)
      <4> SUFFICES ASSUME VersionMoved(w) PROVE FALSE
        OBVIOUS
      <4>1. log' = log BY <2>7, <3>1 DEF TimeOut
      <4>2. DOMAIN log' \ DOMAIN log # {} BY <1>1, <2>7, GrownByOne
      <4> QED BY <4>1, <4>2
    <3>3. inbox \subseteq wk[w].inbox BY <3>1, <3>2 DEF VersionMoved, Owns, UpToDate, Reading
    <3>4. \A k \in inbox : Name[k] # NextCall(w).name BY <3>1, <3>3 DEF Pending
    <3>5. NextCall(w).op = "decide" BY <2>7 DEF TimeOut, Calling
    <3>6. Label(NextCall(w))[2] = NextCall(w).name BY <3>5 DEF Label
    <3> QED BY <2>4, <2>7, <3>4, <3>6
  <2>8. CASE \E k \in Signals : PostSignal(k)
    <3>1. log' = log BY <2>8 DEF PostSignal
    <3> QED BY <2>3, <3>1
  <2> HIDE DEF Wins
  <2> QED BY <1>1, <2>1, <2>3, <2>5, <2>6, <2>7, <2>8, LogMoves
<1>2. Alone /\ Typed /\ [Next]_vars => [Wins]_vars BY <1>1
<1> QED BY OneWorkerAtATime, TypedInductive, <1>2, PTL DEF Spec, SignalWins

LEMMA LoggedMore ==
  ASSUME Typed, NEW w \in Workers, NEW val, Lengthens(w, val), NEW k
  PROVE  LoggedAs(k)' = LoggedAs(k) \cup
           (IF Label(NextCall(w)) = <<"signal", Name[k]>> /\ val = k THEN {Len(log) + 1} ELSE {})
<1> DEFINE n == Len(log) + 1
<1>1. /\ DOMAIN log' = DOMAIN log \cup {n} /\ n \notin DOMAIN log /\ \A i \in DOMAIN log : log'[i] = log[i]
      /\ log'[n].call = Label(NextCall(w)) /\ log'[n].val = val
  BY GrownByOne
<1> HIDE DEF n
<1>2. LoggedAs(k)' = {i \in DOMAIN log' : log'[i].call = <<"signal", Name[k]>> /\ log'[i].val = k} BY DEF LoggedAs
<1>3. LoggedAs(k)' = LoggedAs(k) \cup
        (IF Label(NextCall(w)) = <<"signal", Name[k]>> /\ val = k THEN {n} ELSE {})
  BY <1>1, <1>2 DEF LoggedAs
<1> QED BY <1>3 DEF n

(* Nothing a body logs but a signal looks like one. *)
LEMMA MailKept ==
  ASSUME Mail, Typed, NEW w \in Workers, NEW val, Lengthens(w, val), inbox' = inbox, posted' = posted,
         Label(NextCall(w))[1] # "signal" \/ val = 0
  PROVE  Mail'
<1>1. Signals \subseteq Nat \ {0} BY EngineConstants
<1>2. Posted \subseteq Signals /\ Posted' = Posted BY PostedSigned DEF Typed, Posted
<1>3. \A k \in Posted : LoggedAs(k)' = LoggedAs(k)
  <2> TAKE k \in Posted
  <2>1. ~(Label(NextCall(w)) = <<"signal", Name[k]>> /\ val = k)
    BY <1>1, <1>2
  <2> QED BY <2>1, LoggedMore
<1>4. Delivered'
  <2> SUFFICES ASSUME NEW i \in DOMAIN log', log'[i].call[1] = "signal" /\ log'[i].val # 0
               PROVE  log'[i].val \in Posted' /\ log'[i].call = <<"signal", Name[log'[i].val]>>
    BY DEF Delivered
  <2>1. i \in DOMAIN log /\ log'[i] = log[i] BY GrownByOne
  <2> QED BY <1>2, <1>3, <2>1 DEF Mail, Delivered
<1>5. SignalsConserved'
  <2> SUFFICES ASSUME NEW k \in Posted'
               PROVE  IF k \in inbox' THEN LoggedAs(k)' = {} ELSE \E i \in DOMAIN log' : LoggedAs(k)' = {i}
    BY DEF SignalsConserved
  <2>1. DOMAIN log \subseteq DOMAIN log' BY GrownByOne
  <2> QED BY <1>2, <1>3, <2>1 DEF Mail, SignalsConserved
<1> QED BY <1>4, <1>5 DEF Mail, Ordered

(* A signal that is consumed goes from the inbox to the log. *)
LEMMA MailTaken ==
  ASSUME Mail, Typed, NEW w \in Workers, TakeSignal(w), NEW k, k = First(Pending(w)), Lengthens(w, k), k \in inbox
  PROVE  Mail'
<1>1. Calling(w, {"signal", "decide"}) /\ Pending(w) # {} /\ run # NoRun /\ posted' = posted
  BY DEF TakeSignal, Calling, InBody
<1>2. Name[k] = NextCall(w).name /\ k \in Posted /\ k # 0 BY <1>1, PendingFits DEF Typed
<1>3. Label(NextCall(w)) = <<"signal", Name[k]>> BY <1>1, <1>2 DEF Calling, Label
<1>4. inbox' = inbox \ {k}
  <2>1. Cursor(w) > Len(log)
    <3>1. Len(log) \in Nat BY ReadableFacts DEF Typed
    <3> QED BY <3>1 DEF Lengthens
  <2> QED BY <2>1 DEF TakeSignal, Without
<1>5. Posted' = Posted BY <1>1 DEF Posted
<1> DEFINE n == Len(log) + 1
<1>6. /\ DOMAIN log' = DOMAIN log \cup {n} /\ n \notin DOMAIN log /\ \A i \in DOMAIN log : log'[i] = log[i]
      /\ log'[n].val = k /\ log'[n].call = Label(NextCall(w))
  BY GrownByOne
<1>7. LoggedAs(k)' = LoggedAs(k) \cup {n} /\ \A h : h # k => LoggedAs(h)' = LoggedAs(h)
  <2>1. LoggedAs(k)' = LoggedAs(k) \cup {n} BY <1>3, LoggedMore
  <2>2. ASSUME NEW h, h # k PROVE LoggedAs(h)' = LoggedAs(h) BY <2>2, LoggedMore
  <2> QED BY <2>1, <2>2
<1> HIDE DEF n
<1>8. Delivered'
  <2> SUFFICES ASSUME NEW i \in DOMAIN log', log'[i].call[1] = "signal" /\ log'[i].val # 0
               PROVE  log'[i].val \in Posted' /\ log'[i].call = <<"signal", Name[log'[i].val]>>
    BY DEF Delivered
  <2>1. CASE i \in DOMAIN log BY <1>5, <1>6, <2>1 DEF Mail, Delivered
  <2>2. CASE i = n BY <1>2, <1>3, <1>5, <1>6, <2>2
  <2> QED BY <1>6, <2>1, <2>2
<1>9. SignalsConserved'
  <2> SUFFICES ASSUME NEW h \in Posted'
               PROVE  IF h \in inbox' THEN LoggedAs(h)' = {} ELSE \E i \in DOMAIN log' : LoggedAs(h)' = {i}
    BY DEF SignalsConserved
  <2>1. IF h \in inbox THEN LoggedAs(h) = {} ELSE \E i \in DOMAIN log : LoggedAs(h) = {i}
    BY <1>5 DEF Mail, SignalsConserved
  <2>2. CASE h = k
    <3>1. h \notin inbox' /\ LoggedAs(h)' = {n} /\ n \in DOMAIN log' BY <1>4, <1>6, <1>7, <2>1, <2>2
    <3> QED BY <3>1
  <2>3. CASE h # k
    <3>1. LoggedAs(h)' = LoggedAs(h) /\ (h \in inbox' <=> h \in inbox) BY <1>4, <1>7, <2>3
    <3> QED BY <1>6, <2>1, <3>1
  <2> QED BY <2>2, <2>3
<1> QED BY <1>1, <1>8, <1>9 DEF Mail, Ordered

LEMMA MailPosted ==
  ASSUME Mail, Typed, NEW k \in Signals, PostSignal(k)
  PROVE  Mail'
<1>1. k \notin Posted /\ inbox' = inbox \cup {k} /\ posted' = Append(posted, k) /\ log' = log BY DEF PostSignal
<1>2. Posted' = Posted \cup {k} BY <1>1, PostedGrown DEF Typed
<1>3. \A h : LoggedAs(h)' = LoggedAs(h) BY <1>1 DEF LoggedAs
<1>4. k # 0 BY EngineConstants
<1>5. LoggedAs(k) = {}
  <2> SUFFICES ASSUME NEW i \in LoggedAs(k) PROVE FALSE
    OBVIOUS
  <2>1. i \in DOMAIN log /\ log[i].call[1] = "signal" /\ log[i].val = k BY DEF LoggedAs
  <2> QED BY <1>1, <1>4, <2>1 DEF Mail, Delivered
<1>6. Delivered' BY <1>1, <1>2, <1>3 DEF Mail, Delivered
<1>7. SignalsConserved'
  <2> SUFFICES ASSUME NEW h \in Posted'
               PROVE  IF h \in inbox' THEN LoggedAs(h)' = {} ELSE \E i \in DOMAIN log' : LoggedAs(h)' = {i}
    BY DEF SignalsConserved
  <2>1. CASE h = k BY <1>1, <1>3, <1>5, <2>1
  <2>2. CASE h # k
    <3>1. h \in Posted BY <1>2, <2>2
    <3>2. IF h \in inbox THEN LoggedAs(h) = {} ELSE \E i \in DOMAIN log : LoggedAs(h) = {i}
      BY <3>1 DEF Mail, SignalsConserved
    <3> QED BY <1>1, <1>3, <2>2, <3>2
  <2> QED BY <2>1, <2>2
<1>8. Ordered'
  <2>1. posted \in Seq(Signals) /\ Len(posted) \in Nat /\ DOMAIN posted = 1..Len(posted) BY LenProperties DEF Typed
  <2>2. /\ posted' \in Seq(Signals) /\ Len(posted') = Len(posted) + 1 /\ posted'[Len(posted) + 1] = k
        /\ \A i \in 1..Len(posted) : posted'[i] = posted[i]
    BY <1>1, <2>1, AppendProperties
  <2>3. DOMAIN posted' = 1..Len(posted) + 1 BY <2>2, LenProperties
  <2>4. \A i \in DOMAIN posted : posted[i] # k BY <1>1 DEF Posted
  <2> SUFFICES ASSUME NEW i \in DOMAIN posted', NEW j \in DOMAIN posted', posted'[i] = posted'[j] PROVE i = j
    BY DEF Ordered
  <2>5. \A m \in DOMAIN posted' : m \in DOMAIN posted \/ m = Len(posted) + 1 BY <2>1, <2>3
  <2>6. CASE i \in DOMAIN posted /\ j \in DOMAIN posted BY <2>1, <2>2, <2>6 DEF Mail, Ordered
  <2>7. CASE i = Len(posted) + 1 \/ j = Len(posted) + 1 BY <2>1, <2>2, <2>4, <2>5, <2>7
  <2> QED BY <2>5, <2>6, <2>7
<1> QED BY <1>6, <1>7, <1>8 DEF Mail

(* Time leaves what is in the log of a signal alone. *)
LEMMA LoggedAged ==
  ASSUME Typed, Tick
  PROVE  /\ DOMAIN log' = DOMAIN log
         /\ \A i \in DOMAIN log : /\ log'[i].call = log[i].call
                                  /\ log[i].call[1] = "signal" => log'[i].val = log[i].val
         /\ \A k : LoggedAs(k)' = LoggedAs(k)
<1>1. log' = AgedLog(log) /\ Readable(log) BY DEF Tick, Typed
<1>2. DOMAIN log' = DOMAIN log /\ \A i \in DOMAIN log : log'[i] = AgedEntry(log[i]) BY <1>1, ReadableAged
<1>3. \A i \in DOMAIN log : DOMAIN log[i] = {"call", "val"} BY <1>1, ReadableFacts DEF LogEntries
<1>4. \A e : DOMAIN e = {"call", "val"} =>
        AgedEntry(e).call = e.call /\ (e.call[1] = "signal" => AgedEntry(e).val = e.val)
  BY DEF AgedEntry
<1>5. \A i \in DOMAIN log : /\ log'[i].call = log[i].call
                            /\ log[i].call[1] = "signal" => log'[i].val = log[i].val
  BY <1>2, <1>3, <1>4
<1>6. ASSUME NEW k PROVE LoggedAs(k)' = LoggedAs(k)
  <2>1. \A i \in DOMAIN log : log[i].call = <<"signal", Name[k]>> => log[i].call[1] = "signal" OBVIOUS
  <2>2. LoggedAs(k)' = {i \in DOMAIN log' : log'[i].call = <<"signal", Name[k]>> /\ log'[i].val = k}
    BY DEF LoggedAs
  <2> QED BY <1>2, <1>5, <2>1, <2>2 DEF LoggedAs
<1> QED BY <1>2, <1>5, <1>6

LEMMA MailAged ==
  ASSUME Mail, Typed, Tick
  PROVE  Mail'
<1>1. posted' = posted /\ inbox' = inbox /\ Posted' = Posted BY DEF Tick, Posted
<1>2. /\ DOMAIN log' = DOMAIN log /\ \A k : LoggedAs(k)' = LoggedAs(k)
      /\ \A i \in DOMAIN log : /\ log'[i].call = log[i].call
                               /\ log[i].call[1] = "signal" => log'[i].val = log[i].val
  BY LoggedAged
<1>3. Delivered' BY <1>1, <1>2 DEF Mail, Delivered
<1>4. SignalsConserved' BY <1>1, <1>2 DEF Mail, SignalsConserved
<1> QED BY <1>1, <1>3, <1>4 DEF Mail, Ordered

LEMMA MailEmpty ==
  ASSUME posted = <<>>, log = <<>>
  PROVE  Mail
<1>1. DOMAIN posted = {} /\ DOMAIN log = {} BY EmptySeq
<1> QED BY <1>1 DEF Mail, Ordered, Delivered, SignalsConserved, Posted

(* Who logs a signal takes it out of the inbox. *)
Takeable == \A w \in Workers : TakeSignal(w) /\ Lengthens(w, First(Pending(w))) => First(Pending(w)) \in inbox

LEMMA MailStep ==
  ASSUME Mail, Typed, [Next]_vars, Takeable,
         run # NoRun => \A w \in Workers : Calling(w, Ops) => Cursor(w) <= Len(log) + 1
  PROVE  Mail'
<1>1. CASE log' = log /\ inbox' = inbox /\ posted' = posted
  <2>1. Posted' = Posted /\ \A k : LoggedAs(k)' = LoggedAs(k) BY <1>1 DEF Posted, LoggedAs
  <2>2. Ordered' /\ Delivered' BY <1>1, <2>1 DEF Mail, Ordered, Delivered
  <2>3. SignalsConserved' BY <1>1, <2>1 DEF Mail, SignalsConserved
  <2> QED BY <2>2, <2>3 DEF Mail
<1>2. CASE Purge
  <2>1. posted' = <<>> /\ log' = <<>> BY <1>2 DEF Purge
  <2>2. DOMAIN posted' = {} /\ DOMAIN log' = {} BY <2>1, EmptySeq
  <2> QED BY <2>2 DEF Mail, Ordered, Delivered, SignalsConserved, Posted
<1>3. ASSUME NEW w \in Workers, RunStep(w) \/ Pin(w), NEW val, Lengthens(w, val) PROVE Mail'
  <2>1. NextCall(w).op \in {"step", "timed", "sleep", "pin"} /\ inbox' = inbox /\ posted' = posted
    BY <1>3 DEF RunStep, Pin, Calling
  <2>2. Label(NextCall(w))[1] # "signal" BY <2>1 DEF Label
  <2> QED BY <1>3, <2>1, <2>2, MailKept
<1>4. ASSUME NEW w \in Workers, TakeSignal(w), Lengthens(w, First(Pending(w))) PROVE Mail'
  BY <1>4, MailTaken DEF Takeable
<1>5. ASSUME NEW w \in Workers, TimeOut(w), Lengthens(w, 0) PROVE Mail'
  BY <1>5, MailKept DEF TimeOut
<1> QED BY <1>1, <1>2, <1>3, <1>4, <1>5, MailPosted, MailAged, LogMoves

(* Where no lease runs out under a tick, every delivery is in the inbox, or in the log at  *)
(* one position, and never in both.                                                        *)
THEOREM SignalsConservedInTime == ASSUME Timely PROVE Spec => []SignalsConserved
<1>1. Init => Mail BY MailEmpty DEF Init
<1>2. ASSUME Mail, Alone, Typed, [Next]_vars PROVE Mail'
  <2>1. run # NoRun => \A w \in Workers : Calling(w, Ops) => Cursor(w) <= Len(log) + 1
    <3> SUFFICES ASSUME run # NoRun, NEW w \in Workers, Calling(w, Ops) PROVE Cursor(w) <= Len(log) + 1
      OBVIOUS
    <3> QED BY <1>2, FirstToLog
  <2>2. Takeable
    <3> SUFFICES ASSUME NEW w \in Workers, TakeSignal(w), Lengthens(w, First(Pending(w)))
                 PROVE  First(Pending(w)) \in inbox
      BY DEF Takeable
    <3>1. Owns(w) /\ wk[w].pc = "body" /\ run # NoRun
      BY <1>2, FirstToLog DEF Lengthens, Calling, InBody
    <3>2. First(Pending(w)) \in wk[w].inbox BY <1>2, <3>1, PendingFits DEF TakeSignal
    <3> QED BY <3>1, <3>2 DEF Owns, UpToDate, Reading
  <2> QED BY <1>2, <2>1, <2>2, MailStep
<1>3. Mail /\ Alone /\ Typed /\ [Next]_vars => Mail' BY <1>2
<1>4. Mail => SignalsConserved BY DEF Mail
<1> QED BY <1>1, <1>3, <1>4, OneWorkerAtATime, TypedInductive, PTL DEF Spec

-----------------------------------------------------------------------------
(* Leases that may run out: several workers execute the run at once. *)

(* A tick has read, and been told, no more than the log holds. *)
LEMMA ReadLengths ==
  ASSUME Typed, Sound, History, run # NoRun, NEW w \in Workers, wk[w].pc \in Reading
  PROVE  /\ Len(log) \in Nat /\ DOMAIN log = 1..Len(log)
         /\ Len(wk[w].seen) \in Nat /\ Len(wk[w].seen) <= Len(log)
         /\ Len(wk[w].got) \in Nat /\ Len(wk[w].got) <= Len(log)
         /\ DOMAIN deploy[w].calls = 1..Len(deploy[w].calls) /\ Len(deploy[w].calls) \in Nat
<1>1. Readable(log) /\ Readable(wk[w].seen) /\ wk[w].got \in Seq(Nat) /\ deploy \in Deployments
  BY DEF Typed, Fits
<1>2. Len(log) \in Nat /\ DOMAIN log = 1..Len(log) /\ Len(wk[w].seen) \in Nat /\ Len(wk[w].got) \in Nat
  BY <1>1, ReadableFacts, LenProperties
<1>3. HasRead(wk[w], log) /\ WasTold(wk[w], log, deploy[w].calls) BY DEF History, Remembers
<1>4. Len(wk[w].seen) <= Len(log) BY <1>3 DEF HasRead
<1>5. Len(wk[w].got) <= Len(log)
  <2>1. CASE wk[w].pc = "mark"
    <3>1. wk[w].got = <<>> BY <2>1 DEF Sound, Ticks, IsTick
    <3>2. Len(wk[w].got) = 0 BY <3>1, EmptySeq
    <3> QED BY <1>2, <3>2
  <2>2. CASE wk[w].pc \in {"body", "renew"} BY <1>3, <2>2 DEF WasTold
  <2> QED BY <2>1, <2>2 DEF Reading
<1> QED BY <1>1, <1>2, <1>4, <1>5, Calls

(* Of two deliveries, one comes first. *)
LEMMA OneComesFirst ==
  ASSUME Ordered, posted \in Seq(Signals), NEW u \in Posted, NEW v \in Posted, u # v
  PROVE  Before(u, v) \/ Before(v, u)
<1>1. PICK i \in DOMAIN posted : posted[i] = u BY DEF Posted
<1>2. PICK j \in DOMAIN posted : posted[j] = v BY DEF Posted
<1>3. i \in Nat /\ j \in Nat BY LenProperties
<1>4. i # j BY <1>1, <1>2
<1>5. i < j \/ j < i BY <1>3, <1>4
<1> QED BY <1>1, <1>2, <1>5 DEF Before

(* Nothing that is pending was delivered before the one that is taken. *)
LEMMA NoneBefore ==
  ASSUME Typed, Ordered, run # NoRun, NEW w \in Workers, Pending(w) # {}, NEW u \in Pending(w)
  PROVE  ~Before(u, First(Pending(w)))
<1> SUFFICES ASSUME Before(u, First(Pending(w))) PROVE FALSE
  OBVIOUS
<1>1. PICK i \in DOMAIN posted : posted[i] = First(Pending(w)) /\ \A j \in 1..i - 1 : posted[j] \notin Pending(w)
  BY PendingFits
<1>2. PICK j \in DOMAIN posted, m \in DOMAIN posted : j < m /\ posted[j] = u /\ posted[m] = First(Pending(w))
  BY DEF Before
<1>3. m = i BY <1>1, <1>2 DEF Ordered
<1>4. DOMAIN posted = 1..Len(posted) /\ Len(posted) \in Nat BY LenProperties DEF Typed
<1>5. j \in 1..i - 1 BY <1>2, <1>3, <1>4
<1> QED BY <1>1, <1>2, <1>5

LEMMA KeepsOn ==
  ASSUME NEW w \in Workers, Keeps(w, wk[w]), deploy' = deploy, posted' = posted,
         wk'[w].inbox = wk[w].inbox,
         \A i \in DOMAIN log : Passed(wk[w], i) => Passed(wk'[w], i),
         \A i \in DOMAIN deploy[w].calls : i > Len(wk'[w].got) => i > Len(wk[w].got),
         \A v \in Posted : LoggedAs(v) \subseteq LoggedAs(v)',
         \A v \in wk'[w].inbox : \A i \in LoggedAs(v)' : ~Passed(wk'[w], i)
  PROVE  Keeps(w, wk[w])'
<1>1. Posted' = Posted BY DEF Posted
<1>2. \A u, v : Rivals(u, v)' <=> Rivals(u, v) BY DEF Rivals, Before
<1>3. \A name : Waits(w, wk[w], name)' => Waits(w, wk[w], name) BY DEF Waits
<1> SUFFICES ASSUME NEW v \in wk'[w].inbox, NEW u \in Posted, Rivals(u, v), Waits(w, wk[w], Name[v])
             PROVE  u \in wk'[w].inbox \/ \E i \in LoggedAs(u)' : Passed(wk'[w], i)
  BY <1>1, <1>2, <1>3 DEF Keeps
<1>4. u \in wk[w].inbox \/ \E i \in LoggedAs(u) : Passed(wk[w], i) BY DEF Keeps
<1>5. LoggedAs(u) \subseteq DOMAIN log BY DEF LoggedAs
<1> QED BY <1>4, <1>5

LEMMA LoggedGrows ==
  ASSUME Typed, NEW w \in Workers, log' = log \/ \E val : Lengthens(w, val), NEW k
  PROVE  LoggedAs(k) \subseteq LoggedAs(k)' /\ \A i \in LoggedAs(k)' : i \in LoggedAs(k) \/ i = Len(log) + 1
<1>1. CASE log' = log
  <2>1. LoggedAs(k)' = LoggedAs(k) BY <1>1 DEF LoggedAs
  <2> QED BY <2>1
<1>2. ASSUME NEW val, Lengthens(w, val)
      PROVE  LoggedAs(k) \subseteq LoggedAs(k)' /\ \A i \in LoggedAs(k)' : i \in LoggedAs(k) \/ i = Len(log) + 1
  <2>1. LoggedAs(k)' = LoggedAs(k) \cup
          (IF Label(NextCall(w)) = <<"signal", Name[k]>> /\ val = k THEN {Len(log) + 1} ELSE {})
    BY <1>2, LoggedMore
  <2> QED BY <2>1
<1> QED BY <1>1, <1>2

LEMMA LoggedWithin == ASSUME NEW k, NEW i \in LoggedAs(k) PROVE i \in DOMAIN log
BY DEF LoggedAs

(* A step of w takes nothing from what the others' snapshots say. *)
LEMMA OthersKeep ==
  ASSUME Typed, Sound, History, run # NoRun, NEW w \in Workers, NEW v \in Workers,
         wk[v].pc \in Reading, Keeps(v, wk[v]), wk'[v] = wk[v], deploy' = deploy, posted' = posted,
         log' = log \/ \E val : Lengthens(w, val)
  PROVE  Keeps(v, wk[v])'
<1>1. /\ Len(log) \in Nat /\ Len(wk[v].seen) \in Nat /\ Len(wk[v].seen) <= Len(log)
      /\ Len(wk[v].got) \in Nat /\ Len(wk[v].got) <= Len(log)
  BY ReadLengths
<1>2. \A k : LoggedAs(k) \subseteq LoggedAs(k)' /\ \A i \in LoggedAs(k)' : i \in LoggedAs(k) \/ i = Len(log) + 1
  BY LoggedGrows
<1>3. ~Passed(wk[v], Len(log) + 1) BY <1>1 DEF Passed
<1>4. \A k \in wk[v].inbox : \A i \in LoggedAs(k)' : ~Passed(wk[v], i) BY <1>2, <1>3 DEF Keeps
<1> QED BY <1>2, <1>4, KeepsOn

(* A body that goes on without taking a delivery. *)
LEMMA BodyKeeps ==
  ASSUME Typed, Sound, History, run # NoRun, NEW w \in Workers, wk[w].pc \in Reading, Keeps(w, wk[w]),
         wk'[w].seen = wk[w].seen, wk'[w].inbox = wk[w].inbox, deploy' = deploy, posted' = posted,
         log' = log \/ \E val : Lengthens(w, val),
         \/ wk'[w].got = wk[w].got
         \/ /\ \E val \in Nat : wk'[w].got = Append(wk[w].got, val)
            /\ Cursor(w) <= Len(wk[w].seen) \/ \A k \in wk[w].inbox : Cursor(w) \notin LoggedAs(k)'
  PROVE  Keeps(w, wk[w])'
<1> DEFINE c == Cursor(w)
<1>1. /\ Len(log) \in Nat /\ Len(wk[w].seen) \in Nat /\ Len(wk[w].seen) <= Len(log)
      /\ Len(wk[w].got) \in Nat /\ Len(wk[w].got) <= Len(log) /\ c = Len(wk[w].got) + 1
      /\ DOMAIN deploy[w].calls = 1..Len(deploy[w].calls) /\ Len(deploy[w].calls) \in Nat
      /\ DOMAIN log = 1..Len(log)
  BY ReadLengths DEF Cursor
<1> HIDE DEF c
<1>2. \A k : LoggedAs(k) \subseteq LoggedAs(k)' /\ \A i \in LoggedAs(k)' : i \in LoggedAs(k) \/ i = Len(log) + 1
  BY LoggedGrows
<1>3. /\ Len(wk'[w].got) \in {Len(wk[w].got), c}
      /\ Len(wk'[w].got) = c => c <= Len(wk[w].seen) \/ \A k \in wk[w].inbox : c \notin LoggedAs(k)'
  <2>1. CASE wk'[w].got = wk[w].got BY <1>1, <2>1
  <2>2. ASSUME NEW val \in Nat, wk'[w].got = Append(wk[w].got, val) PROVE Len(wk'[w].got) = c
    <3>1. wk[w].got \in Seq(Nat) BY DEF Typed, Fits
    <3> QED BY <1>1, <2>2, <3>1, AppendProperties
  <2> QED BY <1>1, <2>1, <2>2 DEF c
<1>4. ASSUME NEW i \in DOMAIN log, Passed(wk[w], i) PROVE Passed(wk'[w], i)
  BY <1>1, <1>3, <1>4 DEF Passed
<1>5. ASSUME NEW k \in wk'[w].inbox, NEW i \in LoggedAs(k)' PROVE ~Passed(wk'[w], i)
  <2>1. i \in LoggedAs(k) \/ i = Len(log) + 1 BY <1>2, <1>5
  <2>2. i \in Nat /\ ~Passed(wk[w], i)
    <3>1. CASE i \in LoggedAs(k)
      <4>1. i \in DOMAIN log BY <3>1, LoggedWithin
      <4> QED BY <1>1, <1>5, <3>1, <4>1 DEF Keeps
    <3>2. CASE i = Len(log) + 1 BY <1>1, <3>2 DEF Passed
    <3> QED BY <2>1, <3>1, <3>2
  <2>3. i # c \/ c <= Len(wk[w].seen) \/ Len(wk'[w].got) = Len(wk[w].got)
    BY <1>1, <1>3, <1>5
  <2> QED BY <1>1, <1>3, <2>2, <2>3 DEF Passed
<1>6. \A i \in DOMAIN deploy[w].calls : i > Len(wk'[w].got) => i > Len(wk[w].got)
  BY <1>1, <1>3
<1>7. \A v \in Posted : LoggedAs(v) \subseteq LoggedAs(v)' BY <1>2
<1> QED BY <1>4, <1>5, <1>6, <1>7, KeepsOn

(* A bounded wait is one in every code that makes a call there. *)
LEMMA DecideEverywhere ==
  ASSUME Compatible, deploy \in Deployments, NEW w \in Workers, NEW v \in Workers,
         NEW c \in DOMAIN deploy[w].calls, c \in DOMAIN deploy[v].calls, deploy[w].calls[c].op = "decide"
  PROVE  deploy[v].calls[c].op = "decide"
<1>1. /\ DOMAIN deploy[w].calls = 1..Len(deploy[w].calls) /\ Len(deploy[w].calls) \in Nat
      /\ DOMAIN deploy[v].calls = 1..Len(deploy[v].calls) /\ Len(deploy[v].calls) \in Nat
  BY Calls
<1>2. c > 1 /\ deploy[w].calls[c - 1].op = "pin" BY EngineConstants
<1>3. c - 1 \in DOMAIN deploy[w].calls /\ c - 1 \in DOMAIN deploy[v].calls /\ c - 1 < Len(deploy[v].calls)
  BY <1>1, <1>2
<1>4. Label(deploy[w].calls[c - 1]) = Label(deploy[v].calls[c - 1]) BY <1>3 DEF Compatible
<1>5. deploy[v].calls[c - 1].op = "pin"
  <2>1. Label(deploy[w].calls[c - 1])[1] = "pin" BY <1>2 DEF Label
  <2>2. Label(deploy[v].calls[c - 1])[1] = "pin" BY <1>4, <2>1
  <2> QED BY <2>2 DEF Label
<1>6. deploy[v].calls[(c - 1) + 1].op = "decide" BY <1>3, <1>5, EngineConstants
<1>7. (c - 1) + 1 = c BY <1>1
<1> QED BY <1>6, <1>7

(* Nothing that is logged but a signal changes their order. *)
LEMMA FifoKept ==
  ASSUME Fifo, posted' = posted, \A k \in Posted : LoggedAs(k)' = LoggedAs(k)
  PROVE  Fifo'
<1>1. Posted' = Posted BY DEF Posted
<1>2. \A u, v : Rivals(u, v)' <=> Rivals(u, v) BY DEF Rivals, Before
<1> QED BY <1>1, <1>2 DEF Fifo

LEMMA TimedOutKept ==
  ASSUME Typed, TimedOut, deploy' = deploy, NEW w \in Workers, NEW val, Lengthens(w, val),
         Label(NextCall(w))[1] = "signal" /\ val = 0 =>
           \A v \in Workers : Len(log) + 1 \in DOMAIN deploy[v].calls => deploy[v].calls[Len(log) + 1].op = "decide"
  PROVE  TimedOut'
<1> DEFINE n == Len(log) + 1
<1>1. /\ DOMAIN log' = DOMAIN log \cup {n} /\ \A i \in DOMAIN log : log'[i] = log[i]
      /\ log'[n].call = Label(NextCall(w)) /\ log'[n].val = val
  BY GrownByOne
<1> HIDE DEF n
<1> SUFFICES ASSUME NEW i \in DOMAIN log', log'[i].call[1] = "signal" /\ log'[i].val = 0,
                    NEW v \in Workers, i \in DOMAIN deploy[v].calls
             PROVE  deploy[v].calls[i].op = "decide"
  BY DEF TimedOut
<1>2. CASE i \in DOMAIN log BY <1>1, <1>2 DEF TimedOut
<1>3. CASE i = n BY <1>1, <1>3 DEF n
<1> QED BY <1>1, <1>2, <1>3

(* A step of worker w. *)
LEMMA InTurnGoes ==
  ASSUME Typed, Sound, History, InTurn, run # NoRun, NEW w \in Workers, NEW x, IsTick(x),
         wk' = [wk EXCEPT ![w] = x], deploy' = deploy, posted' = posted,
         log' = log \/ \E val : Lengthens(w, val),
         Fifo', TimedOut', x.pc \in Reading => Keeps(w, wk[w])'
  PROVE  InTurn'
<1>1. wk'[w] = x /\ \A v \in Workers : v # w => wk'[v] = wk[v] BY Moved DEF Sound
<1>2. ASSUME NEW v \in Workers, wk'[v].pc \in Reading PROVE Keeps(v, wk[v])'
  <2>1. CASE v = w BY <1>1, <1>2, <2>1
  <2>2. CASE v # w
    <3>1. wk'[v] = wk[v] /\ Keeps(v, wk[v]) BY <1>1, <1>2, <2>2 DEF InTurn
    <3> QED BY <1>1, <1>2, <2>2, <3>1, OthersKeep
  <2> QED BY <2>1, <2>2
<1> QED BY <1>2 DEF InTurn

LEMMA InTurnQuiet ==
  ASSUME Typed, Sound, History, InTurn, run # NoRun, NEW w \in Workers, NEW x, IsTick(x),
         wk' = [wk EXCEPT ![w] = x], deploy' = deploy, posted' = posted, log' = log,
         x.pc \in Reading => Keeps(w, wk[w])'
  PROVE  InTurn'
<1>1. \A k : LoggedAs(k)' = LoggedAs(k) BY DEF LoggedAs
<1>2. Fifo' BY <1>1, FifoKept DEF InTurn
<1>3. TimedOut' BY DEF InTurn, TimedOut
<1> QED BY <1>2, <1>3, InTurnGoes

LEMMA ReadsNothing ==
  ASSUME Ticks, NEW w \in Workers,
         \/ EnqueueDrained(w) \/ StartTooLate(w) \/ Ack(w) \/ RunGone(w) \/ Crash(w) \/ DrainTimer(w) \/ Claim(w)
         \/ StartRenewed(w) \/ Drift(w) \/ RejectSignal(w) \/ AwaitSignal(w) \/ Suspend(w) \/ Finish(w)
         \/ \E permanent \in BOOLEAN : StepThrows(w, permanent)
  PROVE  log' = log /\ \E x : IsTick(x) /\ x.pc \notin Reading /\ wk' = [wk EXCEPT ![w] = x]
<1>1. log' = log
  BY DEF EnqueueDrained, StartTooLate, Ack, RunGone, Crash, DrainTimer, Claim, StartRenewed, Drift, RejectSignal,
         AwaitSignal, Suspend, Finish, StepThrows, stored
<1>2. IsTick(wk[w]) BY DEF Ticks
<1>3. ASSUME NEW x, wk' = [wk EXCEPT ![w] = x],
             \/ x = Idle \/ x = Acking(wk[w]) \/ x = ParkForRedeploy(wk[w])
             \/ \E s \in Terminal : x = Finishing(wk[w], s)
             \/ \E s \in Active : \E t : x = Suspending(wk[w], s, t)
      PROVE  \E y : IsTick(y) /\ y.pc \notin Reading /\ wk' = [wk EXCEPT ![w] = y]
  <2>1. IsTick(x) /\ x.pc \notin Reading BY <1>3, Ends DEF Reading
  <2> QED BY <1>3, <2>1
<1> USE DEF Active, Terminal
<1>4. CASE EnqueueDrained(w) \/ StartTooLate(w) \/ Ack(w) \/ RunGone(w) \/ Crash(w)
  BY <1>1, <1>3, <1>4 DEF EnqueueDrained, StartTooLate, Ack, RunGone, Crash
<1>5. CASE DrainTimer(w)
  <2> DEFINE x == [wk[w] EXCEPT !.pc = "drain"]
  <2>1. wk' = [wk EXCEPT ![w] = x] /\ wk[w].pc = "idle" BY <1>5 DEF DrainTimer
  <2>2. IsTick(x) /\ x.pc \notin Reading BY <1>2, <2>1 DEF IsTick, Reading
  <2> HIDE DEF x
  <2> QED BY <1>1, <2>1, <2>2
<1>6. CASE Claim(w)
  <2> DEFINE x == [wk[w] EXCEPT !.pc = "start", !.lease = LeaseOn(job')]
  <2>1. wk' = [wk EXCEPT ![w] = x] /\ wk[w].pc = "idle" BY <1>6 DEF Claim
  <2>2. IsTick(x) /\ x.pc \notin Reading BY <1>2, <2>1 DEF IsTick, Reading
  <2> HIDE DEF x
  <2> QED BY <1>1, <2>1, <2>2
<1>7. CASE StartRenewed(w)
  <2> DEFINE x == [wk[w] EXCEPT !.pc = "load", !.lease = Extended(@, LeaseMs)]
  <2>1. wk' = [wk EXCEPT ![w] = x] /\ wk[w].pc = "start" BY <1>7 DEF StartRenewed
  <2>2. IsTick(x) /\ x.pc \notin Reading BY <1>2, <2>1 DEF IsTick, Reading
  <2> HIDE DEF x
  <2> QED BY <1>1, <2>1, <2>2
<1>8. CASE Drift(w) BY <1>1, <1>3, <1>8 DEF Drift
<1>9. CASE RejectSignal(w) BY <1>1, <1>3, <1>9 DEF RejectSignal
<1>10. CASE AwaitSignal(w) BY <1>1, <1>3, <1>10 DEF AwaitSignal
<1>11. CASE Suspend(w) \/ Finish(w) BY <1>1, <1>3, <1>11 DEF Suspend, Finish
<1>12. ASSUME NEW permanent \in BOOLEAN, StepThrows(w, permanent)
       PROVE  \E x : IsTick(x) /\ x.pc \notin Reading /\ wk' = [wk EXCEPT ![w] = x]
  BY <1>3, <1>12 DEF StepThrows
<1> QED BY <1>1, <1>4, <1>5, <1>6, <1>7, <1>8, <1>9, <1>10, <1>11, <1>12

LEMMA InTurnEnds ==
  ASSUME Typed, Sound, History, InTurn, run # NoRun, NEW w \in Workers, deploy' = deploy, posted' = posted,
         \/ EnqueueDrained(w) \/ StartTooLate(w) \/ Ack(w) \/ RunGone(w) \/ Crash(w) \/ DrainTimer(w) \/ Claim(w)
         \/ StartRenewed(w) \/ Drift(w) \/ RejectSignal(w) \/ AwaitSignal(w) \/ Suspend(w) \/ Finish(w)
         \/ \E permanent \in BOOLEAN : StepThrows(w, permanent)
  PROVE  InTurn'
<1>1. PICK x : log' = log /\ IsTick(x) /\ x.pc \notin Reading /\ wk' = [wk EXCEPT ![w] = x]
  BY ReadsNothing DEF Sound
<1> QED BY <1>1, InTurnQuiet

(* A snapshot that was just taken. *)
LEMMA FreshKeeps ==
  ASSUME Mail, NEW w \in Workers, wk'[w].inbox = inbox, wk'[w].seen = log, posted' = posted, log' = log,
         Readable(log), inbox \subseteq Posted
  PROVE  Keeps(w, wk[w])'
<1>1. Posted' = Posted /\ \A k : LoggedAs(k)' = LoggedAs(k) BY DEF Posted, LoggedAs
<1>2. \A i \in DOMAIN log : i <= Len(log) BY ReadableFacts
<1>3. \A k \in inbox : LoggedAs(k) = {} BY DEF Mail, SignalsConserved
<1>4. \A u \in Posted : u \in inbox \/ \E i \in LoggedAs(u) : i <= Len(log)
  <2> SUFFICES ASSUME NEW u \in Posted, u \notin inbox PROVE \E i \in LoggedAs(u) : i <= Len(log)
    OBVIOUS
  <2>1. PICK i \in DOMAIN log : LoggedAs(u) = {i} BY DEF Mail, SignalsConserved
  <2> QED BY <1>2, <2>1
<1>5. \A u \in Posted : u \in wk'[w].inbox \/ \E i \in LoggedAs(u)' : Passed(wk'[w], i)
  BY <1>1, <1>4 DEF Passed
<1> SUFFICES ASSUME NEW v \in wk'[w].inbox
             PROVE  /\ \A i \in LoggedAs(v)' : ~Passed(wk'[w], i)
                    /\ \A u \in Posted' : u \in wk'[w].inbox \/ \E i \in LoggedAs(u)' : Passed(wk'[w], i)
  BY DEF Keeps
<1>6. LoggedAs(v)' = {} BY <1>1, <1>3
<1> QED BY <1>1, <1>5, <1>6

LEMMA InTurnLoads ==
  ASSUME Typed, Sound, History, Mail, InTurn, run # NoRun, NEW w \in Workers, Load(w)
  PROVE  InTurn'
<1>1. /\ IsTick(wk[w]) /\ log' = log /\ posted' = posted /\ deploy' = deploy /\ Readable(log)
      /\ inbox \subseteq Posted
  BY DEF Sound, Ticks, Load, stored, others, Typed
<1>2. CASE wk' = [wk EXCEPT ![w] = [wk[w] EXCEPT !.pc = "mark", !.seen = log, !.inbox = inbox]]
  <2> DEFINE x == [wk[w] EXCEPT !.pc = "mark", !.seen = log, !.inbox = inbox]
  <2>1. IsTick(x) /\ x.seen = log /\ x.inbox = inbox BY <1>1 DEF IsTick, Load
  <2>2. wk' = [wk EXCEPT ![w] = x] BY <1>2
  <2> HIDE DEF x
  <2>3. wk'[w] = x BY <2>1, <2>2, Moved DEF Sound
  <2>4. Keeps(w, wk[w])' BY <1>1, <2>1, <2>3, FreshKeeps
  <2> QED BY <1>1, <2>1, <2>2, <2>4, InTurnQuiet
<1>3. ASSUME NEW x \in {Acking(wk[w]), ParkForRedeploy(wk[w])}, wk' = [wk EXCEPT ![w] = x] PROVE InTurn'
  <2>1. IsTick(x) /\ x.pc \notin Reading BY <1>3, Ends DEF Reading
  <2> QED BY <1>1, <1>3, <2>1, InTurnQuiet
<1> QED BY <1>2, <1>3 DEF Load

(* A checkpoint that takes no delivery: a step's, a deadline's, or a timeout's that found    *)
(* nothing to take.                                                                          *)
LEMMA QuietCheckpoint ==
  ASSUME Compatible, Typed, Sound, History, InTurn, run # NoRun, NEW w \in Workers, Calling(w, Ops),
         deploy' = deploy, posted' = posted, NEW val, Checkpoint(w, val),
         \/ Label(NextCall(w))[1] # "signal"
         \/ val = 0 /\ NextCall(w).op = "decide" /\ Pending(w) = {}
  PROVE  /\ log' = log \/ \E new : Lengthens(w, new)
         /\ Fifo' /\ TimedOut' /\ \A k \in wk[w].inbox : Cursor(w) \notin LoggedAs(k)'
<1>1. /\ Cursor(w) \in 1..Len(log) + 1 /\ Cursor(w) \in DOMAIN deploy[w].calls /\ Len(log) \in Nat
      /\ InBody(w) /\ deploy \in Deployments /\ NextCall(w) = deploy[w].calls[Cursor(w)]
  BY Stands DEF Calling, NextCall, Typed
<1>2. log' = log \/ Lengthens(w, val) BY <1>1, Lengthened
<1>3. \A k \in Posted : LoggedAs(k)' = LoggedAs(k)
  <2> SUFFICES ASSUME NEW k \in Posted, Lengthens(w, val) PROVE LoggedAs(k)' = LoggedAs(k)
    BY <1>2 DEF LoggedAs
  <2>1. k # 0 BY PostedSigned, EngineConstants DEF Typed
  <2>2. ~(Label(NextCall(w)) = <<"signal", Name[k]>> /\ val = k) BY <2>1
  <2> QED BY <2>2, LoggedMore
<1>4. Fifo' BY <1>3, FifoKept DEF InTurn
<1>5. TimedOut'
  <2>1. CASE log' = log BY <2>1 DEF InTurn, TimedOut
  <2>2. CASE Lengthens(w, val)
    <3>1. Cursor(w) = Len(log) + 1 BY <2>2 DEF Lengthens
    <3>2. Label(NextCall(w))[1] = "signal" /\ val = 0 =>
            \A v \in Workers : Len(log) + 1 \in DOMAIN deploy[v].calls =>
              deploy[v].calls[Len(log) + 1].op = "decide"
      BY <1>1, <3>1, DecideEverywhere
    <3> QED BY <2>2, <3>2, TimedOutKept DEF InTurn
  <2> QED BY <1>2, <2>1, <2>2
<1>6. ASSUME NEW k \in wk[w].inbox, Cursor(w) \in LoggedAs(k)' PROVE FALSE
  <2>1. log'[Cursor(w)].call = Label(NextCall(w)) BY <1>1, Checkpointed
  <2>2. log'[Cursor(w)].call = <<"signal", Name[k]>> BY <1>6 DEF LoggedAs
  <2>3. NextCall(w).op = "decide" /\ Pending(w) = {} BY <2>1, <2>2
  <2>4. Label(NextCall(w)) = <<"signal", NextCall(w).name>> BY <2>3 DEF Label
  <2>5. \A a, b : <<"signal", a>> = <<"signal", b>> => a = b OBVIOUS
  <2>6. <<"signal", Name[k]>> = <<"signal", NextCall(w).name>> BY <2>1, <2>2, <2>4
  <2>7. Name[k] = NextCall(w).name BY <2>5, <2>6
  <2> QED BY <2>3, <2>7 DEF Pending
<1> QED BY <1>2, <1>4, <1>5, <1>6

(* A body that is told something and takes no delivery goes on as it was. *)
LEMMA InTurnTold ==
  ASSUME Compatible, Typed, Sound, History, InTurn, run # NoRun, NEW w \in Workers,
         RunStep(w) \/ Pin(w) \/ TimeOut(w)
  PROVE  InTurn'
<1>1. /\ Ticks /\ IsTick(wk[w]) /\ wk[w].pc = "body" /\ deploy' = deploy /\ posted' = posted /\ Keeps(w, wk[w])
      /\ Calling(w, Ops)
  BY DEF Sound, Ticks, InTurn, Reading, RunStep, Pin, TimeOut, Calling, InBody, Ops, others
<1>2. ASSUME NEW at, wk' = [wk EXCEPT ![w] = at], IsTick(at), at.pc \in Reading, at.seen = wk[w].seen,
             at.inbox = wk[w].inbox, \E told \in Nat : at.got = Append(wk[w].got, told),
             NEW val, Checkpoint(w, val),
             \/ Label(NextCall(w))[1] # "signal"
             \/ val = 0 /\ NextCall(w).op = "decide" /\ Pending(w) = {}
      PROVE  InTurn'
  <2>1. /\ log' = log \/ \E new : Lengthens(w, new)
        /\ Fifo' /\ TimedOut' /\ \A k \in wk[w].inbox : Cursor(w) \notin LoggedAs(k)'
    BY <1>1, <1>2, QuietCheckpoint
  <2>2. wk'[w] = at BY <1>1, <1>2, Moved
  <2>3. Keeps(w, wk[w])' BY <1>1, <1>2, <2>1, <2>2, BodyKeeps DEF Reading
  <2> QED BY <1>1, <1>2, <2>1, <2>3, InTurnGoes
<1>3. ASSUME NEW at, wk' = [wk EXCEPT ![w] = at], IsTick(at), at.pc \notin Reading,
             \/ log' = log
             \/ \E val : Checkpoint(w, val) /\ Label(NextCall(w))[1] # "signal"
      PROVE  InTurn'
  <2>1. CASE log' = log BY <1>1, <1>3, <2>1, InTurnQuiet
  <2>2. CASE \E val : Checkpoint(w, val) /\ Label(NextCall(w))[1] # "signal"
    <3>1. (log' = log \/ \E new : Lengthens(w, new)) /\ Fifo' /\ TimedOut'
      BY <1>1, <2>2, QuietCheckpoint
    <3> QED BY <1>1, <1>3, <3>1, InTurnGoes
  <2> QED BY <1>3, <2>1, <2>2
<1>4. ASSUME NEW val
      PROVE  /\ IsTick(Returned(wk[w], val)) /\ Returned(wk[w], val).pc = "body"
             /\ Returned(wk[w], val).inbox = wk[w].inbox /\ Returned(wk[w], val).seen = wk[w].seen
             /\ Returned(wk[w], val).got = Append(wk[w].got, val)
  <2>1. Returned(wk[w], val).inbox = wk[w].inbox BY <1>1 DEF Returned, IsTick
  <2> QED BY <1>1, <2>1, Answered
<1>5. CASE RunStep(w)
  <2> DEFINE val == CheckpointAnswer(w, w)
             y == Returned(wk[w], val)
             x == [y EXCEPT !.pc = "renew"]
  <2>1. wk' = [wk EXCEPT ![w] = x] /\ Checkpoint(w, w) /\ NextCall(w).op \in {"step", "timed"}
    BY <1>5 DEF RunStep, Calling
  <2>2. w \in Nat /\ NextCall(w).op \notin {"sleep", "pin"} /\ Label(NextCall(w))[1] # "signal"
    BY <2>1, Constants DEF Label
  <2>3. val \in Nat BY <1>1, <2>1, <2>2, CheckpointFits
  <2> HIDE DEF val
  <2>4. IsTick(y) /\ y.pc = "body" /\ y.inbox = wk[w].inbox /\ y.seen = wk[w].seen /\ y.got = Append(wk[w].got, val)
    BY <1>4
  <2> HIDE DEF y
  <2>5. /\ IsTick(x) /\ x.pc \in Reading /\ x.inbox = wk[w].inbox /\ x.seen = wk[w].seen
        /\ x.got = Append(wk[w].got, val)
    <3>1. IsTick(x) BY <2>4, AnsweredAnd
    <3> QED BY <2>4, <3>1 DEF IsTick, Reading
  <2> HIDE DEF x
  <2> QED BY <1>2, <2>1, <2>2, <2>3, <2>5
<1>6. CASE Pin(w)
  <2>1. PICK at \in {SleepMs, WaitMs} :
          /\ Checkpoint(w, at)
          /\ \/ wk' = [wk EXCEPT ![w] = Returned(wk[w], at)]
             \/ wk' = [wk EXCEPT ![w] = Suspending(wk[w], "sleeping", {at})]
    BY <1>6 DEF Pin, SleptUntil
  <2>2. at \in Nat /\ NextCall(w).op \in {"sleep", "pin"} BY <1>6, DelaysWait DEF Pin, Calling
  <2>3. Label(NextCall(w))[1] # "signal" BY <2>2 DEF Label
  <2>4. CASE wk' = [wk EXCEPT ![w] = Returned(wk[w], at)]
    <3> DEFINE x == Returned(wk[w], at)
    <3>1. /\ IsTick(x) /\ x.pc \in Reading /\ x.seen = wk[w].seen /\ x.got = Append(wk[w].got, at)
          /\ x.inbox = wk[w].inbox /\ wk' = [wk EXCEPT ![w] = x]
      BY <1>4, <2>4 DEF Reading
    <3> HIDE DEF x
    <3> QED BY <1>2, <2>1, <2>2, <2>3, <3>1
  <2>5. CASE wk' = [wk EXCEPT ![w] = Suspending(wk[w], "sleeping", {at})]
    <3> DEFINE x == Suspending(wk[w], "sleeping", {at})
    <3>1. IsTick(x) /\ x.pc \notin Reading BY Ends DEF Reading, Active
    <3>2. wk' = [wk EXCEPT ![w] = x] BY <2>5
    <3> HIDE DEF x
    <3> QED BY <1>3, <2>1, <2>3, <3>1, <3>2
  <2> QED BY <2>1, <2>4, <2>5
<1>7. CASE TimeOut(w)
  <2>1. NextCall(w).op = "decide" /\ Pending(w) = {} BY <1>7 DEF TimeOut, Calling
  <2>2. CASE log' = log /\ wk' = [wk EXCEPT ![w] = Suspending(wk[w], "awaiting_signal", {0})]
    <3> DEFINE x == Suspending(wk[w], "awaiting_signal", {0})
    <3>1. IsTick(x) /\ x.pc \notin Reading BY Ends DEF Reading, Active
    <3>2. wk' = [wk EXCEPT ![w] = x] BY <2>2
    <3> HIDE DEF x
    <3> QED BY <1>3, <2>2, <3>1, <3>2
  <2>3. CASE Checkpoint(w, 0) /\ wk' = [wk EXCEPT ![w] = Returned(wk[w], CheckpointAnswer(w, 0))]
    <3> DEFINE val == CheckpointAnswer(w, 0)
               x == Returned(wk[w], val)
    <3>1. val \in Nat BY <1>1, <2>1, <2>3, CheckpointFits
    <3>2. /\ IsTick(x) /\ x.pc \in Reading /\ x.seen = wk[w].seen /\ x.got = Append(wk[w].got, val)
          /\ x.inbox = wk[w].inbox /\ wk' = [wk EXCEPT ![w] = x]
      BY <1>4, <2>3 DEF Reading
    <3> HIDE DEF x, val
    <3> QED BY <1>2, <2>1, <2>3, <3>1, <3>2
  <2> QED BY <1>7, <2>2, <2>3 DEF TimeOut
<1> QED BY <1>5, <1>6, <1>7

(* The body goes on without being told anything, or is told what it had read. *)
LEMMA InTurnReplays ==
  ASSUME Typed, Sound, History, InTurn, run # NoRun, NEW w \in Workers,
         MarkRunning(w) \/ Renew(w) \/ Replay(w)
  PROVE  InTurn'
<1>1. /\ Ticks /\ IsTick(wk[w]) /\ wk[w].pc \in Reading /\ deploy' = deploy /\ posted' = posted /\ log' = log
      /\ Keeps(w, wk[w])
  BY DEF Sound, Ticks, InTurn, Reading, MarkRunning, Renew, Replay, Replaying, Calling, InBody, others, stored
<1>2. ASSUME NEW x, wk' = [wk EXCEPT ![w] = x], IsTick(x), x.seen = wk[w].seen, x.inbox = wk[w].inbox,
             \/ x.got = wk[w].got
             \/ (\E told \in Nat : x.got = Append(wk[w].got, told)) /\ Cursor(w) <= Len(wk[w].seen)
      PROVE  InTurn'
  <2>1. wk'[w] = x BY <1>1, <1>2, Moved
  <2>2. Keeps(w, wk[w])' BY <1>1, <1>2, <2>1, BodyKeeps
  <2> QED BY <1>1, <1>2, <2>2, InTurnQuiet
<1>3. ASSUME NEW x, wk' = [wk EXCEPT ![w] = x], IsTick(x), x.pc \notin Reading PROVE InTurn'
  BY <1>1, <1>3, InTurnQuiet
<1>4. CASE MarkRunning(w)
  <2> DEFINE x == [wk[w] EXCEPT !.pc = "body", !.attempt = run'.attempts]
             y == Finishing(wk[w], "failed")
  <2>1. CASE wk' = [wk EXCEPT ![w] = x]
    <3>1. wk[w].pc = "mark" BY <1>4 DEF MarkRunning
    <3>2. IsTick(x) /\ x.seen = wk[w].seen /\ x.inbox = wk[w].inbox /\ x.got = wk[w].got
      BY <1>1, <3>1 DEF IsTick
    <3> HIDE DEF x
    <3> QED BY <1>2, <2>1, <3>2
  <2>2. CASE wk' = [wk EXCEPT ![w] = y]
    <3>1. IsTick(y) /\ y.pc \notin Reading BY Ends DEF Reading, Terminal
    <3> HIDE DEF y
    <3> QED BY <1>3, <2>2, <3>1
  <2> QED BY <1>4, <2>1, <2>2 DEF MarkRunning
<1>5. CASE Renew(w)
  <2> DEFINE x == [wk[w] EXCEPT !.pc = "body"]
             y == [wk[w] EXCEPT !.pc = "body", !.lease = Extended(@, LeaseMs)]
  <2>1. wk[w].pc \in {"body", "renew"} BY <1>5 DEF Renew, Calling, InBody
  <2>2. /\ IsTick(x) /\ x.seen = wk[w].seen /\ x.inbox = wk[w].inbox /\ x.got = wk[w].got
        /\ IsTick(y) /\ y.seen = wk[w].seen /\ y.inbox = wk[w].inbox /\ y.got = wk[w].got
    BY <1>1, <2>1 DEF IsTick
  <2>3. wk' = [wk EXCEPT ![w] = x] \/ wk' = [wk EXCEPT ![w] = y] BY <1>5 DEF Renew, Renewed
  <2> HIDE DEF x, y
  <2> QED BY <1>2, <2>2, <2>3
<1>6. CASE Replay(w)
  <2> DEFINE val == wk[w].seen[Cursor(w)].val
             x == Returned(wk[w], val)
             y == Suspending(wk[w], "sleeping", {val})
  <2>1. CASE wk' = [wk EXCEPT ![w] = x]
    <3>1. val \in Nat /\ Cursor(w) <= Len(wk[w].seen) BY <1>6, ReplayedNear DEF Replay, Replaying
    <3>2. IsTick(x) /\ x.seen = wk[w].seen /\ x.inbox = wk[w].inbox /\ x.got = Append(wk[w].got, val)
      <4>1. x.inbox = wk[w].inbox BY <1>1 DEF Returned, IsTick
      <4>2. wk[w].pc = "body" BY <1>6 DEF Replay, Replaying, InBody
      <4> QED BY <1>1, <4>1, <4>2, Answered
    <3> HIDE DEF x, val
    <3> QED BY <1>2, <2>1, <3>1, <3>2
  <2>2. CASE wk' = [wk EXCEPT ![w] = y]
    <3>1. IsTick(y) /\ y.pc \notin Reading BY Ends DEF Reading, Active
    <3> HIDE DEF y
    <3> QED BY <1>3, <2>2, <3>1
  <2> QED BY <1>6, <2>1, <2>2 DEF Replay, SleptUntil
<1> QED BY <1>4, <1>5, <1>6

(* Who takes a delivery and is the first to log the call takes it out of the inbox, and in   *)
(* its turn.                                                                                 *)
LEMMA TakenInTurn ==
  ASSUME Compatible, Typed, Sound, History, Mail, InTurn, NEW w \in Workers, TakeSignal(w),
         NEW k, k = First(Pending(w)), Lengthens(w, k)
  PROVE  k \in inbox /\ InTurn'
<1> DEFINE n == Len(log) + 1
<1>1. /\ Ticks /\ IsTick(wk[w]) /\ wk[w].pc = "body" /\ deploy' = deploy /\ posted' = posted /\ Keeps(w, wk[w])
      /\ Calling(w, {"signal", "decide"}) /\ Calling(w, Ops) /\ run # NoRun /\ Pending(w) # {}
  BY DEF Sound, Ticks, InTurn, Reading, TakeSignal, Calling, InBody, Ops, others
<1>2. /\ k \in wk[w].inbox /\ k \in Posted /\ k # 0 /\ Name[k] = NextCall(w).name /\ k \in Pending(w)
  BY <1>1, PendingFits DEF Typed
<1>3. /\ Len(log) \in Nat /\ DOMAIN log = 1..Len(log) /\ Len(wk[w].got) = Len(log) /\ Cursor(w) = n
      /\ n \in DOMAIN deploy[w].calls /\ NextCall(w) = deploy[w].calls[n]
  <2>1. Cursor(w) = n BY DEF Lengthens
  <2> QED BY <1>1, <2>1, Stands DEF Calling, NextCall
<1>4. /\ \A h : h # k => LoggedAs(h)' = LoggedAs(h)
      /\ LoggedAs(k)' = LoggedAs(k) \cup {n}
  <2>1. Label(NextCall(w)) = <<"signal", Name[k]>> BY <1>1, <1>2 DEF Calling, Label
  <2>2. LoggedAs(k)' = LoggedAs(k) \cup {n} BY <2>1, LoggedMore
  <2>3. ASSUME NEW h, h # k PROVE LoggedAs(h)' = LoggedAs(h) BY <2>3, LoggedMore
  <2> QED BY <2>2, <2>3
<1>5. wk' = [wk EXCEPT ![w] = [Returned(wk[w], CheckpointAnswer(w, k)) EXCEPT !.inbox = Without(wk[w].inbox, k)]]
  BY DEF TakeSignal
<1> HIDE DEF n
<1>6. \A h : \A i \in LoggedAs(h) : i \in DOMAIN log /\ i < n /\ Passed(wk[w], i)
  <2> TAKE h
  <2> TAKE i \in LoggedAs(h)
  <2>1. i \in DOMAIN log BY LoggedWithin
  <2> QED BY <1>3, <2>1 DEF Passed, n
<1>7. \A v \in wk[w].inbox : LoggedAs(v) = {} BY <1>1, <1>6 DEF Keeps
<1>8. k \in inbox BY <1>2, <1>7 DEF Mail, SignalsConserved
<1>9. Posted' = Posted /\ \A u, v : Rivals(u, v)' <=> Rivals(u, v) BY <1>1 DEF Posted, Rivals, Before
<1>10. Fifo'
  <2> SUFFICES ASSUME NEW u \in Posted, NEW v \in Posted, Rivals(u, v), NEW j \in LoggedAs(v)'
               PROVE  \E i \in LoggedAs(u)' : i < j
    BY <1>9 DEF Fifo
  <2>1. \A h : LoggedAs(h) \subseteq LoggedAs(h)' BY <1>4
  <2>2. CASE j \in LoggedAs(v) BY <2>1, <2>2 DEF InTurn, Fifo
  <2>3. CASE v = k /\ j = n
    <3>1. Waits(w, wk[w], Name[k]) BY <1>1, <1>2, <1>3 DEF Waits, Waiting, Calling, n
    <3>2. u \in wk[w].inbox \/ \E i \in LoggedAs(u) : Passed(wk[w], i) BY <1>1, <1>2, <2>3, <3>1 DEF Keeps
    <3>3. CASE u \in wk[w].inbox
      <4>1. u \in Pending(w) BY <1>2, <2>3, <3>3 DEF Pending, Rivals
      <4> QED BY <1>1, <2>3, <4>1, NoneBefore DEF Mail, Rivals
    <3> QED BY <1>6, <2>1, <2>3, <3>2, <3>3
  <2> QED BY <1>4, <2>2, <2>3
<1>11. TimedOut' BY <1>1, <1>2, TimedOutKept DEF InTurn
<1> DEFINE val == CheckpointAnswer(w, k)
           y == Returned(wk[w], val)
           x == [y EXCEPT !.inbox = Without(wk[w].inbox, k)]
<1>12. wk' = [wk EXCEPT ![w] = x] BY <1>5
<1>13. val \in Nat
  <2>1. k \in Nat /\ NextCall(w).op \notin {"sleep", "pin"} /\ Checkpoint(w, k)
    BY <1>1, PendingFits DEF Calling, TakeSignal
  <2> QED BY <1>1, <2>1, CheckpointFits
<1> HIDE DEF val
<1>14. IsTick(y) /\ y.pc = "body" /\ y.seen = wk[w].seen /\ y.got = Append(wk[w].got, val)
  BY <1>1, Answered
<1> HIDE DEF y
<1>15. IsTick(x) /\ x.seen = wk[w].seen /\ x.got = Append(wk[w].got, val) /\ x.inbox = wk[w].inbox \ {k}
  <2>1. IsTick(x) /\ x.seen = y.seen /\ x.got = y.got BY <1>14, AnsweredAnd
  <2> QED BY <1>14, <2>1 DEF IsTick, Without
<1> HIDE DEF x
<1>16. PICK a : a = x OBVIOUS
<1>17. Len(a.got) = n /\ DOMAIN deploy[w].calls \subseteq Nat
  <2>1. wk[w].got \in Seq(Nat) /\ deploy \in Deployments BY DEF Typed, Fits
  <2>2. Len(a.got) = n BY <1>3, <1>13, <1>15, <1>16, <2>1, AppendProperties DEF n
  <2> QED BY <2>1, <2>2, Calls
<1>18. Keeps(w, wk[w])'
  <2>0. wk'[w] = a BY <1>1, <1>12, <1>15, <1>16, Moved
  <2> SUFFICES ASSUME NEW v \in a.inbox
               PROVE  /\ LoggedAs(v)' = {}
                      /\ \A u \in Posted : Rivals(u, v) /\ Waits(w, a, Name[v])' =>
                           u \in a.inbox \/ \E i \in LoggedAs(u)' : Passed(a, i)
    BY <1>9, <2>0 DEF Keeps
  <2>1. v \in wk[w].inbox /\ v # k /\ LoggedAs(v)' = {} BY <1>4, <1>7, <1>15, <1>16
  <2>2. ASSUME NEW u \in Posted, Rivals(u, v), Waits(w, a, Name[v])', u \notin a.inbox
        PROVE  \E i \in LoggedAs(u)' : Passed(a, i)
    <3>1. CASE u = k
      <4>1. n \in LoggedAs(u)' BY <1>4, <3>1
      <4> QED BY <1>3, <1>17, <4>1 DEF Passed, n
    <3>2. CASE u # k
      <4>1. Waits(w, wk[w], Name[v]) BY <1>1, <1>3, <1>17, <2>2 DEF Waits, n
      <4>2. \E i \in LoggedAs(u) : Passed(wk[w], i) BY <1>1, <1>15, <1>16, <2>1, <2>2, <3>2, <4>1 DEF Keeps
      <4>3. PICK i \in LoggedAs(u) : Passed(wk[w], i) BY <4>2
      <4>4. i \in DOMAIN log BY LoggedWithin
      <4>5. Passed(a, i) BY <1>3, <1>17, <4>4 DEF Passed, n
      <4> QED BY <1>4, <3>2, <4>3, <4>5
    <3> QED BY <3>1, <3>2
  <2> QED BY <2>1, <2>2
<1>19. log' = log \/ \E new : Lengthens(w, new) OBVIOUS
<1>20. InTurn' BY <1>1, <1>10, <1>11, <1>12, <1>15, <1>18, <1>19, InTurnGoes
<1> QED BY <1>8, <1>20

(* Who takes a delivery where the log has an answer already is told that answer: it is the   *)
(* very delivery, for no earlier one is left and no later one can have been logged first, or *)
(* a timeout.                                                                                *)
LEMMA AlreadyTold ==
  ASSUME Typed, Sound, History, Mail, InTurn, NEW w \in Workers, TakeSignal(w),
         NEW k, k = First(Pending(w)), Cursor(w) <= Len(log)
  PROVE  /\ log[Cursor(w)].call = <<"signal", Name[k]>> /\ log[Cursor(w)].val \in Nat
         /\ log[Cursor(w)].val = 0 \/ Cursor(w) \in LoggedAs(k)
         /\ \A u \in Posted : Rivals(u, k) => u # k /\ u \notin wk[w].inbox
         /\ \A v \in Posted : Rivals(k, v) => Cursor(w) \notin LoggedAs(v)
<1> DEFINE c == Cursor(w)
           m == log[c].val
<1>1. /\ Ticks /\ IsTick(wk[w]) /\ wk[w].pc = "body" /\ Keeps(w, wk[w])
      /\ Calling(w, {"signal", "decide"}) /\ run # NoRun /\ Pending(w) # {} /\ deploy \in Deployments
      /\ InBody(w) /\ c > Len(wk[w].seen)
  BY DEF Sound, Ticks, InTurn, Reading, TakeSignal, Calling, InBody, others, Typed
<1>2. /\ k \in wk[w].inbox /\ k \in Posted /\ Name[k] = NextCall(w).name /\ k \in Pending(w)
  BY <1>1, PendingFits DEF Typed
<1>3. /\ Len(log) \in Nat /\ DOMAIN log = 1..Len(log) /\ c = Len(wk[w].got) + 1 /\ c \in DOMAIN log
      /\ Len(wk[w].got) \in Nat /\ c \in DOMAIN deploy[w].calls /\ NextCall(w) = deploy[w].calls[c]
      /\ deploy[w].calls[c].op \in Waiting /\ DOMAIN deploy[w].calls \subseteq Nat
  BY <1>1, Stands, Calls DEF Calling, NextCall, Waiting
<1>4. log[c].call = <<"signal", Name[k]>> /\ log[c].call[1] = "signal"
  <2>1. log[c].call = Label(NextCall(w)) BY <1>3 DEF History, Entries
  <2> QED BY <1>1, <1>2, <2>1 DEF Calling, Label
<1>5. m \in Nat BY <1>3, ReadableFacts DEF Typed, LogEntries
<1>6. \A v : c \in LoggedAs(v) <=> (Name[v] = Name[k] /\ m = v)
  <2>1. \A a, b : <<"signal", a>> = <<"signal", b>> => a = b OBVIOUS
  <2> QED BY <1>3, <1>4, <2>1 DEF LoggedAs
<1> HIDE DEF m, c
<1>7. ~Passed(wk[w], c) /\ \A i \in DOMAIN log : i < c => Passed(wk[w], i)
  <2>1. Len(wk[w].seen) \in Nat BY ReadableFacts DEF Typed, Fits
  <2> QED BY <1>1, <1>3, <2>1 DEF Passed
<1>8. Waits(w, wk[w], Name[k]) BY <1>2, <1>3 DEF Waits
<1>9. \A u \in Posted : Rivals(u, k) => u # k /\ u \notin wk[w].inbox
  <2> SUFFICES ASSUME NEW u \in Posted, Rivals(u, k), u \in wk[w].inbox PROVE FALSE
    <3>1. ASSUME Rivals(k, k) PROVE FALSE BY <1>1, <1>2, <3>1, NoneBefore DEF Rivals, Mail
    <3> QED BY <3>1
  <2>1. u \in Pending(w) BY <1>2 DEF Pending, Rivals
  <2> QED BY <1>1, <2>1, NoneBefore DEF Rivals, Mail
<1>10. \A v \in Posted : Rivals(k, v) => c \notin LoggedAs(v)
  <2> SUFFICES ASSUME NEW v \in Posted, Rivals(k, v), c \in LoggedAs(v) PROVE FALSE
    OBVIOUS
  <2>1. PICK i \in LoggedAs(k) : i < c BY <1>2 DEF InTurn, Fifo
  <2>2. Passed(wk[w], i) BY <1>7, <2>1, LoggedWithin
  <2> QED BY <1>1, <1>2, <2>1, <2>2 DEF Keeps
<1>11. m = 0 \/ c \in LoggedAs(k)
  <2> SUFFICES ASSUME m # 0, m # k PROVE FALSE
    BY <1>6
  <2>1. m \in Posted /\ Name[m] = Name[k]
    <3>1. m \in Posted /\ log[c].call = <<"signal", Name[m]>> BY <1>3, <1>4 DEF Mail, Delivered, m
    <3>2. \A p, q : <<"signal", p>> = <<"signal", q>> => p = q OBVIOUS
    <3>3. <<"signal", Name[m]>> = <<"signal", Name[k]>> BY <1>4, <3>1
    <3> QED BY <3>1, <3>2, <3>3
  <2>2. c \in LoggedAs(m) BY <1>6, <2>1
  <2>3. Before(k, m) \/ Before(m, k) BY <1>2, <2>1, OneComesFirst DEF Mail, Typed
  <2>4. ~Before(k, m) BY <1>10, <2>1, <2>2 DEF Rivals
  <2>5. Rivals(m, k) BY <2>1, <2>3, <2>4 DEF Rivals
  <2>6. PICK i \in LoggedAs(m) : Passed(wk[w], i) BY <1>1, <1>2, <1>8, <1>9, <2>1, <2>5 DEF Keeps
  <2>7. i = c
    <3>1. \E j \in DOMAIN log : LoggedAs(m) = {j} BY <2>1, <2>2 DEF Mail, SignalsConserved
    <3> QED BY <2>2, <3>1
  <2> QED BY <1>7, <2>6, <2>7
<1> QED BY <1>4, <1>5, <1>9, <1>10, <1>11 DEF c, m

(* After a timeout its code waits no more for that name.                                     *)
LEMMA ToldInTurn ==
  ASSUME LastWait, Typed, Sound, History, Mail, InTurn, NEW w \in Workers, TakeSignal(w),
         NEW k, k = First(Pending(w)), log' = log, Cursor(w) <= Len(log)
  PROVE  InTurn'
<1> DEFINE c == Cursor(w)
           m == log[c].val
<1>1. /\ Ticks /\ IsTick(wk[w]) /\ wk[w].pc = "body" /\ deploy' = deploy /\ posted' = posted /\ Keeps(w, wk[w])
      /\ Calling(w, {"signal", "decide"}) /\ run # NoRun /\ Pending(w) # {} /\ deploy \in Deployments
      /\ InBody(w) /\ c > Len(wk[w].seen)
  BY DEF Sound, Ticks, InTurn, Reading, TakeSignal, Calling, InBody, others, Typed
<1>2. /\ k \in wk[w].inbox /\ k \in Posted /\ Name[k] = NextCall(w).name /\ k \in Pending(w)
  BY <1>1, PendingFits DEF Typed
<1>3. /\ Len(log) \in Nat /\ DOMAIN log = 1..Len(log) /\ c = Len(wk[w].got) + 1 /\ c \in DOMAIN log
      /\ Len(wk[w].got) \in Nat /\ c \in DOMAIN deploy[w].calls /\ NextCall(w) = deploy[w].calls[c]
      /\ deploy[w].calls[c].op \in Waiting /\ DOMAIN deploy[w].calls \subseteq Nat
  BY <1>1, Stands, Calls DEF Calling, NextCall, Waiting
<1>4. log[c].call = <<"signal", Name[k]>> /\ m \in Nat BY AlreadyTold
<1> DEFINE y == Returned(wk[w], m)
           x == [y EXCEPT !.inbox = Without(wk[w].inbox, k)]
<1>5. wk' = [wk EXCEPT ![w] = x]
  <2>1. CheckpointAnswer(w, k) = m BY DEF CheckpointAnswer, Stored
  <2>2. wk' = [wk EXCEPT ![w] = [Returned(wk[w], CheckpointAnswer(w, k)) EXCEPT !.inbox = Without(wk[w].inbox, k)]]
    BY DEF TakeSignal
  <2> QED BY <2>1, <2>2
<1>6. \A v : c \in LoggedAs(v) <=> (Name[v] = Name[k] /\ m = v)
  <2>1. \A a, b : <<"signal", a>> = <<"signal", b>> => a = b OBVIOUS
  <2> QED BY <1>3, <1>4, <2>1 DEF LoggedAs
<1> HIDE DEF m, c
<1>7. IsTick(y) /\ y.pc = "body" /\ y.seen = wk[w].seen /\ y.got = Append(wk[w].got, m)
  BY <1>1, Answered
<1> HIDE DEF y
<1>8. IsTick(x) /\ x.seen = wk[w].seen /\ x.got = Append(wk[w].got, m) /\ x.inbox = wk[w].inbox \ {k}
  <2>1. IsTick(x) /\ x.seen = y.seen /\ x.got = y.got BY <1>7, AnsweredAnd
  <2> QED BY <1>7, <2>1 DEF IsTick, Without
<1> HIDE DEF x
<1>9. PICK a : a = x OBVIOUS
<1>10. Len(a.got) = c
  <2>1. wk[w].got \in Seq(Nat) BY DEF Typed, Fits
  <2> QED BY <1>3, <1>4, <1>8, <1>9, <2>1, AppendProperties
<1>11. \A i \in DOMAIN log : Passed(a, i) <=> (Passed(wk[w], i) \/ i = c)
  BY <1>3, <1>8, <1>9, <1>10 DEF Passed
<1>12. ~Passed(wk[w], c) /\ \A i \in DOMAIN log : i < c => Passed(wk[w], i)
  <2>1. Len(wk[w].seen) \in Nat BY ReadableFacts DEF Typed, Fits
  <2> QED BY <1>1, <1>3, <2>1 DEF Passed
<1>13. \A u \in Posted : Rivals(u, k) => u # k /\ u \notin wk[w].inbox BY AlreadyTold
<1>14. \A v \in Posted : Rivals(k, v) => c \notin LoggedAs(v) BY AlreadyTold DEF c
<1>15. m = 0 \/ c \in LoggedAs(k) BY AlreadyTold DEF c, m
<1>16. \A h : LoggedAs(h)' = LoggedAs(h) BY DEF LoggedAs
<1>17. Posted' = Posted /\ \A u, v : Rivals(u, v)' <=> Rivals(u, v) BY <1>1 DEF Posted, Rivals, Before
<1>18. ASSUME NEW v \in a.inbox
       PROVE  /\ v \in wk[w].inbox /\ v # k /\ v \in Posted
              /\ Name[v] = Name[k] => Rivals(k, v)
  <2>1. v \in wk[w].inbox /\ v # k /\ v \in Posted BY <1>1, <1>8, <1>9 DEF Typed
  <2>2. ASSUME Name[v] = Name[k] PROVE Rivals(k, v)
    <3>1. Before(k, v) \/ Before(v, k) BY <1>2, <2>1, OneComesFirst DEF Mail, Typed
    <3> QED BY <1>13, <2>1, <2>2, <3>1 DEF Rivals
  <2> QED BY <2>1, <2>2
<1>19. ASSUME NEW v \in a.inbox, NEW i \in LoggedAs(v) PROVE ~Passed(a, i)
  <2>1. ~Passed(wk[w], i) BY <1>1, <1>18 DEF Keeps
  <2>2. i # c BY <1>6, <1>14, <1>18
  <2> QED BY <1>11, <2>1, <2>2, LoggedWithin
<1>20. ASSUME NEW v \in a.inbox, NEW u \in Posted, Rivals(u, v), Waits(w, a, Name[v])
       PROVE  u \in a.inbox \/ \E i \in LoggedAs(u) : Passed(a, i)
  <2>1. Waits(w, wk[w], Name[v])
    <3>1. PICK i \in DOMAIN deploy[w].calls :
            i > Len(a.got) /\ deploy[w].calls[i].op \in Waiting /\ deploy[w].calls[i].name = Name[v]
      BY <1>20 DEF Waits
    <3>2. i > Len(wk[w].got) BY <1>3, <1>10, <3>1
    <3> QED BY <3>1, <3>2 DEF Waits
  <2>2. u \in wk[w].inbox \/ \E i \in LoggedAs(u) : Passed(wk[w], i) BY <1>1, <1>18, <1>20, <2>1 DEF Keeps
  <2>3. ASSUME NEW i \in LoggedAs(u), Passed(wk[w], i) PROVE \E j \in LoggedAs(u) : Passed(a, j)
    BY <1>11, <2>3, LoggedWithin
  <2>4. CASE u = k
    <3>1. Name[v] = Name[k] BY <1>20, <2>4 DEF Rivals
    <3>2. m # 0
      <4> SUFFICES ASSUME m = 0 PROVE FALSE
        OBVIOUS
      <4>1. deploy[w].calls[c].op = "decide" BY <1>3, <1>4 DEF InTurn, TimedOut, m
      <4>2. PICK i \in DOMAIN deploy[w].calls :
              i > c /\ deploy[w].calls[i].op \in Waiting /\ deploy[w].calls[i].name = Name[v]
        BY <1>10, <1>20 DEF Waits
      <4>3. c < i BY <1>3, <4>2
      <4>4. deploy[w].calls[c].name # deploy[w].calls[i].name BY <1>1, <1>3, <4>1, <4>2, <4>3 DEF LastWait
      <4> QED BY <1>2, <1>3, <3>1, <4>2, <4>4
    <3>3. c \in LoggedAs(u) BY <1>15, <2>4, <3>2
    <3> QED BY <1>3, <1>11, <3>3
  <2>5. CASE u # k BY <1>8, <1>9, <2>2, <2>3, <2>5
  <2> QED BY <2>4, <2>5
<1>21. Keeps(w, wk[w])'
  <2>1. wk'[w] = a BY <1>1, <1>5, <1>8, <1>9, Moved
  <2>2. \A name : Waits(w, wk[w], name)' => Waits(w, a, name) BY <1>1, <2>1 DEF Waits
  <2> QED BY <1>16, <1>17, <1>19, <1>20, <2>1, <2>2 DEF Keeps
<1> QED BY <1>1, <1>5, <1>8, <1>21, InTurnQuiet

LEMMA InTurnTakes ==
  ASSUME Compatible, LastWait, Typed, Sound, History, Mail, InTurn, NEW w \in Workers, TakeSignal(w)
  PROVE  InTurn'
<1>1. PICK k : k = First(Pending(w)) OBVIOUS
<1>2. InBody(w) /\ Calling(w, Ops) /\ Checkpoint(w, k) BY <1>1 DEF TakeSignal, Calling, Ops
<1>3. Cursor(w) \in 1..Len(log) + 1 /\ Len(log) \in Nat BY <1>2, Stands
<1>4. CASE log' = log /\ ~(Cursor(w) > Len(log)) BY <1>1, <1>3, <1>4, ToldInTurn
<1>5. CASE Lengthens(w, k) BY <1>1, <1>5, TakenInTurn
<1> QED BY <1>2, <1>3, <1>4, <1>5, Lengthened

LEMMA InTurnWorks ==
  ASSUME Compatible, LastWait, Typed, Sound, History, Mail, InTurn, run # NoRun, NEW w \in Workers, Steps(w)
  PROVE  InTurn'
<1>1. deploy' = deploy /\ posted' = posted BY WorkerTables
<1> QED BY <1>1, InTurnEnds, InTurnLoads, InTurnReplays, InTurnTold, InTurnTakes DEF Steps, Work, StepEnds

LEMMA InTurnAged ==
  ASSUME Typed, Sound, History, InTurn, Tick
  PROVE  InTurn'
<1>1. posted' = posted /\ deploy' = deploy /\ run' = run /\ Posted' = Posted
  BY DEF Tick, others, Posted
<1>2. /\ DOMAIN log' = DOMAIN log /\ \A k : LoggedAs(k)' = LoggedAs(k)
      /\ \A i \in DOMAIN log : /\ log'[i].call = log[i].call
                               /\ log[i].call[1] = "signal" => log'[i].val = log[i].val
  BY LoggedAged
<1>3. Fifo' BY <1>1, <1>2, FifoKept DEF InTurn
<1>4. TimedOut' BY <1>1, <1>2 DEF InTurn, TimedOut
<1>5. ASSUME run # NoRun, NEW w \in Workers, wk'[w].pc \in Reading PROVE Keeps(w, wk[w])'
  <2>1. /\ wk'[w].pc = wk[w].pc /\ wk'[w].inbox = wk[w].inbox
        /\ Len(wk'[w].seen) = Len(wk[w].seen) /\ Len(wk'[w].got) = Len(wk[w].got)
    BY TicksAged
  <2>2. Keeps(w, wk[w]) BY <1>5, <2>1 DEF InTurn
  <2>3. \A i : Passed(wk[w], i) <=> Passed(wk'[w], i) BY <2>1 DEF Passed
  <2>4. \A v \in wk'[w].inbox : \A i \in LoggedAs(v)' : ~Passed(wk'[w], i)
    BY <1>2, <2>1, <2>2, <2>3 DEF Keeps
  <2> QED BY <1>1, <1>2, <2>1, <2>2, <2>3, <2>4, KeepsOn
<1> QED BY <1>1, <1>3, <1>4, <1>5 DEF InTurn

(* A new delivery comes after all the others. *)
LEMMA InTurnPosted ==
  ASSUME Typed, Mail, InTurn, NEW k \in Signals, PostSignal(k)
  PROVE  InTurn'
<1>1. /\ k \notin Posted /\ posted' = Append(posted, k) /\ log' = log /\ wk' = wk /\ deploy' = deploy /\ run' = run
  BY DEF PostSignal
<1>2. Posted' = Posted \cup {k} /\ k # 0 BY <1>1, PostedGrown, EngineConstants DEF Typed
<1>3. \A h : LoggedAs(h)' = LoggedAs(h) BY <1>1 DEF LoggedAs
<1>4. LoggedAs(k) = {}
  <2> SUFFICES ASSUME NEW i \in LoggedAs(k) PROVE FALSE
    OBVIOUS
  <2>1. i \in DOMAIN log /\ log[i].call[1] = "signal" /\ log[i].val = k BY DEF LoggedAs
  <2> QED BY <1>1, <1>2, <2>1 DEF Mail, Delivered
<1>5. ASSUME NEW u, NEW v \in Posted, Rivals(u, v)' PROVE Rivals(u, v) /\ u \in Posted
  <2>1. posted \in Seq(Signals) /\ Len(posted) \in Nat /\ DOMAIN posted = 1..Len(posted) BY LenProperties DEF Typed
  <2>2. /\ posted' \in Seq(Signals) /\ Len(posted') = Len(posted) + 1 /\ posted'[Len(posted) + 1] = k
        /\ \A i \in 1..Len(posted) : posted'[i] = posted[i]
    BY <1>1, <2>1, AppendProperties
  <2>3. DOMAIN posted' = 1..Len(posted) + 1 BY <2>2, LenProperties
  <2>4. PICK i \in DOMAIN posted', j \in DOMAIN posted' : i < j /\ posted'[i] = u /\ posted'[j] = v
    BY <1>5 DEF Rivals, Before
  <2>5. j # Len(posted) + 1 BY <1>1, <2>2, <2>4
  <2>6. i \in DOMAIN posted /\ j \in DOMAIN posted /\ posted[i] = u /\ posted[j] = v
    BY <2>1, <2>2, <2>3, <2>4, <2>5
  <2>7. Before(u, v) BY <2>4, <2>6 DEF Before
  <2> QED BY <1>5, <2>6, <2>7 DEF Rivals, Posted
<1>6. Fifo'
  <2> SUFFICES ASSUME NEW u \in Posted', NEW v \in Posted', Rivals(u, v)', NEW j \in LoggedAs(v)
               PROVE  \E i \in LoggedAs(u) : i < j
    BY <1>3 DEF Fifo
  <2>1. v \in Posted BY <1>2, <1>4
  <2> QED BY <1>5, <2>1 DEF InTurn, Fifo
<1>7. TimedOut' BY <1>1 DEF InTurn, TimedOut
<1>8. ASSUME run # NoRun, NEW w \in Workers, wk[w].pc \in Reading PROVE Keeps(w, wk[w])'
  <2>1. Keeps(w, wk[w]) /\ wk[w].inbox \subseteq Posted BY <1>8 DEF InTurn, Typed
  <2> SUFFICES ASSUME NEW v \in wk[w].inbox
               PROVE  /\ \A i \in LoggedAs(v) : ~Passed(wk[w], i)
                      /\ \A u \in Posted' : Rivals(u, v)' /\ Waits(w, wk[w], Name[v]) =>
                           u \in wk[w].inbox \/ \E i \in LoggedAs(u) : Passed(wk[w], i)
    BY <1>1, <1>3 DEF Keeps, Waits
  <2>2. \A u : Rivals(u, v)' => Rivals(u, v) /\ u \in Posted BY <1>5, <2>1
  <2> QED BY <2>1, <2>2 DEF Keeps
<1> QED BY <1>1, <1>6, <1>7, <1>8 DEF InTurn

(* A run that is just made, or gone. *)
LEMMA InTurnEmpty ==
  ASSUME log = <<>>, run # NoRun => \A w \in Workers : wk[w].pc = "idle"
  PROVE  InTurn
<1>1. DOMAIN log = {} BY EmptySeq
<1>2. \A k : LoggedAs(k) = {} BY <1>1 DEF LoggedAs
<1> QED BY <1>1, <1>2 DEF InTurn, Fifo, TimedOut, Reading

LEMMA InTurnCalled ==
  ASSUME Typed, Sound, Mail, InTurn,
         \/ Callers \/ SubmitEnqueue \/ ReconcileScan \/ ReconcileEnqueue \/ SubmitDies \/ ReconcileDies
         \/ UNCHANGED vars
  PROVE  InTurn'
<1>1. CASE SubmitStart
  <2>1. log' = log /\ wk' = wk /\ run = NoRun /\ \A w \in Workers : wk[w].pc = "idle"
    BY <1>1 DEF SubmitStart, Sound, Unborn
  <2>2. DOMAIN log' = {} BY <2>1, EmptySeq DEF Typed
  <2>3. \A k : LoggedAs(k)' = {} BY <2>2 DEF LoggedAs
  <2> QED BY <2>1, <2>2, <2>3 DEF InTurn, Fifo, TimedOut, Reading
<1>2. CASE Purge
  <2>1. log' = <<>> /\ run' = NoRun BY <1>2 DEF Purge
  <2>2. DOMAIN log' = {} BY <2>1, EmptySeq
  <2>3. \A k : LoggedAs(k)' = {} BY <2>2 DEF LoggedAs
  <2> QED BY <2>1, <2>2, <2>3 DEF InTurn, Fifo, TimedOut
<1>3. ASSUME NEW k \in Signals, PostSignal(k) PROVE InTurn' BY <1>3, InTurnPosted
<1>4. CASE \/ Cancel \/ Retry \/ SubmitEnqueue \/ ReconcileScan \/ ReconcileEnqueue \/ SubmitDies \/ ReconcileDies
           \/ UNCHANGED vars
  <2>1. log' = log /\ wk' = wk /\ posted' = posted /\ deploy' = deploy /\ (run = NoRun => run' = NoRun)
    BY <1>4 DEF Cancel, Retry, SubmitEnqueue, ReconcileScan, ReconcileEnqueue, SubmitDies, ReconcileDies, vars,
                stored, NoRun
  <2>2. Posted' = Posted /\ (\A k : LoggedAs(k)' = LoggedAs(k)) /\ \A u, v : Rivals(u, v)' <=> Rivals(u, v)
    BY <2>1 DEF Posted, LoggedAs, Rivals, Before
  <2>3. Fifo' BY <2>1, <2>2, FifoKept DEF InTurn
  <2>4. TimedOut' BY <2>1 DEF InTurn, TimedOut
  <2>5. ASSUME run # NoRun, NEW w \in Workers, wk[w].pc \in Reading PROVE Keeps(w, wk[w])'
    <3>1. Keeps(w, wk[w]) BY <2>5 DEF InTurn
    <3> QED BY <2>1, <2>2, <3>1 DEF Keeps, Waits
  <2> QED BY <2>1, <2>3, <2>4, <2>5 DEF InTurn
<1> QED BY <1>1, <1>2, <1>3, <1>4 DEF Callers

LEMMA InTurnStep ==
  ASSUME Compatible, LastWait
  PROVE  InTurn /\ Mail /\ History /\ Typed /\ Sound /\ [Next]_vars => InTurn' /\ Mail'
<1> SUFFICES ASSUME InTurn, Mail, History, Typed, Sound, [Next]_vars PROVE InTurn' /\ Mail'
  OBVIOUS
<1>1. InTurn'
  <2>1. ASSUME NEW w \in Workers, Steps(w) PROVE InTurn'
    <3>1. CASE run = NoRun
      <4>1. run' = NoRun /\ log' = <<>> BY <2>1, <3>1, WorkerKeepsRun, WorkerTables
      <4>2. DOMAIN log' = {} BY <4>1, EmptySeq
      <4>3. \A k : LoggedAs(k)' = {} BY <4>2 DEF LoggedAs
      <4> QED BY <4>1, <4>2, <4>3 DEF InTurn, Fifo, TimedOut
    <3>2. CASE run # NoRun BY <2>1, <3>2, InTurnWorks
    <3> QED BY <3>1, <3>2
  <2> QED BY <2>1, InTurnAged, InTurnCalled DEF Next, Dies, Steps
<1>2. Mail'
  <2>1. run # NoRun => \A w \in Workers : Calling(w, Ops) => Cursor(w) <= Len(log) + 1
    <3> SUFFICES ASSUME NEW w \in Workers, Calling(w, Ops) PROVE Cursor(w) <= Len(log) + 1
      OBVIOUS
    <3>1. Cursor(w) \in 1..Len(log) + 1 /\ Len(log) \in Nat BY Stands DEF Calling
    <3> QED BY <3>1
  <2>2. Takeable
    <3> SUFFICES ASSUME NEW w \in Workers, TakeSignal(w), NEW k, k = First(Pending(w)), Lengthens(w, k)
                 PROVE  k \in inbox
      BY DEF Takeable
    <3> QED BY TakenInTurn
  <2> QED BY <2>1, <2>2, MailStep
<1> QED BY <1>1, <1>2

(* Even where leases run out under ticks and several workers execute the run at once, each   *)
(* on its own snapshot, no delivery is lost and none is consumed twice - where the codes     *)
(* agree on the calls they share and no flow waits again for a name whose bounded wait it    *)
(* has passed.                                                                               *)
THEOREM SignalsAreConserved == ASSUME Compatible, LastWait PROVE Spec => []SignalsConserved
<1>1. Init => InTurn /\ Mail
  <2> SUFFICES ASSUME Init PROVE InTurn /\ Mail
    OBVIOUS
  <2>1. log = <<>> /\ posted = <<>> /\ run = NoRun BY DEF Init
  <2> QED BY <2>1, InTurnEmpty, MailEmpty
<1>2. InTurn /\ Mail /\ History /\ Typed /\ Sound /\ [Next]_vars => InTurn' /\ Mail' BY InTurnStep
<1>3. Mail => SignalsConserved BY DEF Mail
<1> QED BY <1>1, <1>2, <1>3, OneHistory, TypedInductive, PTL DEF Spec

-----------------------------------------------------------------------------
(* A run at rest.  A dispatch acknowledged at the version it was claimed at leaves nothing   *)
(* unheard: no delivery came since the claim, for each one enqueues the run, and the worker  *)
(* saw every earlier one.                                                                    *)

(* No flow ever sets a deadline: its waits are unbounded, and its steps are not retried.     *)
Plain ==
  \A d \in Deployments : \A w \in Workers :
    /\ d[w].known
    /\ \A i \in DOMAIN d[w].calls : \/ d[w].calls[i].op = "signal"
                                    \/ d[w].calls[i].op \in {"step", "timed"} /\ MaxAttempts = 1

(* A flow sets none ahead of a wait but that of the wait itself. *)
WaitsFirst ==
  \A d \in Deployments : \A w \in Workers :
    /\ d[w].known \/ d[w].calls = <<>>
    /\ \A i, j \in DOMAIN d[w].calls : i < j /\ d[w].calls[j].op \in Waiting =>
         \/ d[w].calls[i].op \in {"signal", "pin"}
         \/ d[w].calls[i].op \in {"step", "timed"} /\ MaxAttempts = 1

(* Some code has no wait left once n of its calls are logged. *)
NoneFrom(n) ==
  ~Plain /\ \E w \in Workers : \A i \in DOMAIN deploy[w].calls : i > n => deploy[w].calls[i].op \notin Waiting

PastWaits == NoneFrom(Len(log))

(* The run stands at a wait, and the inbox holds nothing for it. *)
Unheard ==
  \E w \in Workers : /\ StandsAt(w, Waiting)
                     /\ \A k \in inbox : Name[k] # deploy[w].calls[Len(log) + 1].name

AtRest == PastWaits \/ Unheard

(* Nothing has happened to the run yet. *)
Untouched == inbox = {} /\ run.status = "pending" /\ \A w \in Workers : ~Working(w)

(* Nothing was enqueued, and nobody else took the run, since the worker's claim. *)
Current(w) == Working(w) /\ job.token = w /\ job.version = wk[w].lease.version

(* The tick has every delivery in its snapshot, or knows the position it is logged at. *)
Complete(x) == \A v \in Posted : v \in x.inbox \/ \E i \in LoggedAs(v) : Passed(x, i)

(* What a tick whose claim is current knows: a job acknowledged by it is of a run at rest. *)
Heeds(x) ==
  /\ x.pc \in Reading => PastWaits \/ Complete(x)
  /\ x.pc \in {"body", "renew"} => x.attempt >= 1
  /\ x.pc \in {"suspend", "ack"} => AtRest

(* A worker at work holds the lease of its own claim, which the row has not run ahead of. *)
Leased ==
  \A w \in Workers : Working(w) =>
    wk[w].lease.token = w /\ (job.token = w => wk[w].lease.version <= job.version)

(* The flows of the model start no child, so none is waited for. *)
Childless == run.status # "awaiting_child" /\ \A w \in Workers : wk[w].out # "awaiting_child"

(* A live run is queued, at rest or untouched, and who holds its row unmoved heeds the inbox. *)
Watched ==
  run.status \in Active =>
    /\ \A w \in Workers : Current(w) => Heeds(wk[w])
    /\ ~job.queued => AtRest \/ Untouched

(* The inductive invariant, on top of what the other parts have shown. *)
Attentive == (caller = "new" => inbox = {}) /\ Childless /\ Leased /\ Watched

Faithful == Typed /\ Sound /\ History /\ Mail /\ InTurn

-----------------------------------------------------------------------------

(* Past the waits once, past them for good. *)
LEMMA NoneFurther ==
  ASSUME NEW m \in Nat, NEW n \in Nat, m <= n, NoneFrom(m), deploy \in Deployments
  PROVE  NoneFrom(n)
<1>1. \A w \in Workers : DOMAIN deploy[w].calls \subseteq Nat BY Calls
<1> QED BY <1>1 DEF NoneFrom

(* A call that may set a deadline, other than that of a wait, has no wait after it. *)
LEMMA NoneBeyond ==
  ASSUME WaitsFirst, deploy \in Deployments, NEW w \in Workers, NEW c \in DOMAIN deploy[w].calls, NEW n \in Nat,
         \/ /\ c <= n + 1
            /\ \/ deploy[w].calls[c].op = "sleep"
               \/ deploy[w].calls[c].op \in {"step", "timed"} /\ MaxAttempts # 1
         \/ c <= n /\ deploy[w].calls[c].op = "decide"
  PROVE  NoneFrom(n)
<1>1. DOMAIN deploy[w].calls \subseteq Nat BY Calls
<1>2. ~Plain BY DEF Plain
<1>3. ASSUME NEW i \in DOMAIN deploy[w].calls, i > n, deploy[w].calls[i].op \in Waiting PROVE FALSE
  <2>1. i # c BY <1>1, <1>3 DEF Waiting
  <2>2. c < i BY <1>1, <1>3, <2>1
  <2> QED BY <1>3, <2>2 DEF WaitsFirst
<1> QED BY <1>2, <1>3 DEF NoneFrom

(* The log grew, if at all, by a call that leaves a run at rest at rest. *)
LEMMA RestKept ==
  ASSUME Compatible, WaitsFirst, Faithful, [Next]_vars, run # NoRun, run' # NoRun, posted' = posted, deploy' = deploy
  PROVE  /\ inbox' \subseteq inbox /\ \A k : LoggedAs(k) \subseteq LoggedAs(k)'
         /\ Len(log) \in Nat /\ Len(log') \in Nat /\ Len(log) <= Len(log')
         /\ (PastWaits => PastWaits') /\ (AtRest => AtRest')
<1> USE DEF Faithful
<1>1. Len(log) \in Nat /\ deploy \in Deployments /\ Readable(log) BY ReadableFacts DEF Typed
<1>2. \A w \in Workers : Calling(w, Ops) => Cursor(w) <= Len(log) + 1
  <2> SUFFICES ASSUME NEW w \in Workers, Calling(w, Ops) PROVE Cursor(w) <= Len(log) + 1
    OBVIOUS
  <2>1. Cursor(w) \in 1..Len(log) + 1 BY Stands DEF Calling
  <2> QED BY <1>1, <2>1
<1>3. ASSUME Len(log') = Len(log), inbox' = inbox, \A k : LoggedAs(k)' = LoggedAs(k)
      PROVE  /\ inbox' \subseteq inbox /\ \A k : LoggedAs(k) \subseteq LoggedAs(k)'
             /\ Len(log') \in Nat /\ Len(log) <= Len(log')
             /\ (PastWaits => PastWaits') /\ (AtRest => AtRest')
  BY <1>1, <1>3 DEF PastWaits, NoneFrom, AtRest, Unheard, StandsAt
<1>4. CASE log' = log /\ inbox' = inbox
  <2>1. \A k : LoggedAs(k)' = LoggedAs(k) BY <1>4 DEF LoggedAs
  <2> QED BY <1>1, <1>3, <1>4, <2>1
<1>5. CASE Tick
  <2>1. log' = AgedLog(log) /\ inbox' = inbox BY <1>5 DEF Tick
  <2>2. Len(log') = Len(log) BY <1>1, <2>1, ReadableAged
  <2>3. \A k : LoggedAs(k)' = LoggedAs(k) BY <1>5, LoggedAged
  <2> QED BY <1>1, <1>3, <2>1, <2>2, <2>3
<1>6. ~Purge BY DEF Purge
<1>7. ASSUME NEW k \in Signals, PostSignal(k) PROVE FALSE
  <2>1. posted' = Append(posted, k) /\ posted \in Seq(Signals) BY <1>7 DEF PostSignal, Typed
  <2>2. Len(posted') = Len(posted) + 1 /\ Len(posted) \in Nat BY <2>1, AppendProperties, LenProperties
  <2> QED BY <2>2
<1>8. ASSUME NEW w \in Workers, NEW val, Lengthens(w, val), inbox' \subseteq inbox,
             \/ Label(NextCall(w))[1] # "signal"
             \/ \E k \in inbox : Label(NextCall(w)) = <<"signal", Name[k]>>
             \/ NextCall(w).op = "decide"
      PROVE  /\ \A k : LoggedAs(k) \subseteq LoggedAs(k)'
             /\ Len(log') \in Nat /\ Len(log) <= Len(log')
             /\ (PastWaits => PastWaits') /\ (AtRest => AtRest')
  <2>1. Len(log') = Len(log) + 1 BY <1>8, GrownByOne
  <2>2. \A k : LoggedAs(k) \subseteq LoggedAs(k)' BY <1>8, LoggedGrows
  <2>3. \A n : NoneFrom(n)' <=> NoneFrom(n) BY DEF NoneFrom
  <2>4. PastWaits => PastWaits' BY <1>1, <2>1, <2>3, NoneFurther DEF PastWaits
  <2>5. ASSUME Unheard PROVE PastWaits'
    <3>1. PICK u \in Workers : /\ StandsAt(u, Waiting)
                               /\ \A k \in inbox : Name[k] # deploy[u].calls[Len(log) + 1].name
      BY <2>5 DEF Unheard
    <3> DEFINE c == Len(log) + 1
    <3>2. /\ c \in DOMAIN deploy[u].calls /\ c \in DOMAIN deploy[w].calls /\ NextCall(w) = deploy[w].calls[c]
          /\ deploy[u].calls[c].op \in Waiting
      <4>1. c <= Len(deploy[w].calls) /\ NextCall(w) = deploy[w].calls[c]
        BY <1>8 DEF Lengthens, Calling, InBody, NextCall
      <4>2. c <= Len(deploy[u].calls) /\ deploy[u].calls[c].op \in Waiting
        BY <1>1, <3>1, Calls DEF StandsAt
      <4> QED BY <1>1, <4>1, <4>2, Calls
    <3>3. Label(NextCall(w)) = Label(deploy[u].calls[c]) BY <1>1, <3>2 DEF Compatible
    <3>4. Label(deploy[u].calls[c]) = <<"signal", deploy[u].calls[c].name>> BY <3>2 DEF Label, Waiting
    <3>5. NextCall(w).op = "decide"
      <4>1. ASSUME NEW k \in inbox, Label(NextCall(w)) = <<"signal", Name[k]>> PROVE FALSE
        <5>1. \A a, b : <<"signal", a>> = <<"signal", b>> => a = b OBVIOUS
        <5>2. <<"signal", Name[k]>> = <<"signal", deploy[u].calls[c].name>> BY <3>3, <3>4, <4>1
        <5> QED BY <3>1, <5>1, <5>2
      <4>2. Label(NextCall(w))[1] = "signal" BY <3>3, <3>4
      <4> QED BY <1>8, <4>1, <4>2
    <3>6. NoneFrom(c) BY <1>1, <3>2, <3>5, NoneBeyond
    <3> QED BY <2>1, <2>3, <3>6 DEF PastWaits
  <2> QED BY <1>1, <2>1, <2>2, <2>4, <2>5 DEF AtRest
<1>9. ASSUME NEW w \in Workers, RunStep(w) \/ Pin(w), NEW val, Lengthens(w, val)
      PROVE  inbox' \subseteq inbox /\ Label(NextCall(w))[1] # "signal"
  <2>1. NextCall(w).op \in {"step", "timed", "sleep", "pin"} /\ inbox' = inbox BY <1>9 DEF RunStep, Pin, Calling
  <2> QED BY <2>1 DEF Label
<1>10. ASSUME NEW w \in Workers, TakeSignal(w), Lengthens(w, First(Pending(w)))
       PROVE  inbox' \subseteq inbox /\ \E k \in inbox : Label(NextCall(w)) = <<"signal", Name[k]>>
  <2>1. PICK k : k = First(Pending(w)) OBVIOUS
  <2>2. k \in inbox BY <1>10, <2>1, TakenInTurn
  <2>3. Name[k] = NextCall(w).name BY <1>10, <2>1, PendingFits DEF TakeSignal
  <2>4. NextCall(w).op \in {"signal", "decide"} /\ inbox' \in {inbox, Without(inbox, k)}
    BY <1>10, <2>1 DEF TakeSignal, Calling
  <2> QED BY <2>2, <2>3, <2>4 DEF Label, Without
<1>11. ASSUME NEW w \in Workers, TimeOut(w) PROVE inbox' = inbox /\ NextCall(w).op = "decide"
  BY <1>11 DEF TimeOut, Calling
<1> QED BY <1>1, <1>2, <1>4, <1>5, <1>6, <1>7, <1>8, <1>9, <1>10, <1>11, LogMoves

(* A row that is enqueued is current for no claim made before. *)
LEMMA EnqueueMoves ==
  ASSUME Typed, Sound, Leased, NEW delay, Enqueue(delay)
  PROVE  /\ job'.queued /\ job'.token = job.token
         /\ \A w \in Workers : Working(w) /\ job.token = w =>
              wk[w].lease.version <= job'.version /\ wk[w].lease.version # job'.version
<1> DEFINE j == Enqueued(job, delay)
<1>1. job.version \in Nat /\ MaxVersion \in Nat /\ \A w \in Workers : wk[w].lease.version \in Nat
  BY Constants DEF Job, Lease, Typed, Sound, Fits
<1>2. /\ j.queued /\ j.token = job.token /\ j.version = job.version + 1
      /\ DOMAIN j = {"queued", "runAt", "version", "token", "expires"}
  BY DEF Enqueued
<1> HIDE DEF j
<1>3. CASE job' = j BY <1>1, <1>2, <1>3 DEF Leased
<1>4. CASE /\ job.version = MaxVersion /\ \A w \in Workers : wk[w].lease.version # MaxVersion
           /\ job' = [j EXCEPT !.version = MaxVersion]
  <2>1. job'.queued /\ job'.token = job.token /\ job'.version = MaxVersion BY <1>2, <1>4
  <2> QED BY <1>1, <1>4, <2>1 DEF Leased
<1> QED BY <1>3, <1>4 DEF Enqueue, j

(* What a step of worker w makes of its tick. *)
SameRow == job'.queued = job.queued /\ job'.token = job.token /\ job'.version = job.version

Outcome(w, x) ==
  /\ IsTick(x) /\ wk' = [wk EXCEPT ![w] = x] /\ x.out # "awaiting_child"
  /\ \/ x.pc \in {"idle", "drain"} /\ (job' = job \/ EnqueueDrained(w) \/ Ack(w))
     \/ Claim(w) /\ x.pc = "start" /\ x.lease = LeaseOn(job')
     \/ /\ Working(w) /\ SameRow
        /\ x.lease.token = wk[w].lease.token /\ x.lease.version = wk[w].lease.version
        /\ Current(w) /\ run.status \in Active /\ run'.status \in Active => Heeds(x)'

(* A tick that stops, and one that begins. *)
LEMMA OutcomeStops ==
  ASSUME Sound, Childless, NEW w \in Workers,
         EnqueueDrained(w) \/ StartTooLate(w) \/ Ack(w) \/ RunGone(w) \/ Crash(w) \/ DrainTimer(w) \/ Claim(w)
  PROVE  \E x : Outcome(w, x)
<1>1. IsTick(wk[w]) /\ wk[w].out # "awaiting_child" BY DEF Sound, Ticks, Childless
<1>2. IsTick(Idle) /\ Idle.pc = "idle" /\ Idle.out = "none" BY Ends DEF Idle
<1>3. CASE EnqueueDrained(w) \/ StartTooLate(w) \/ Ack(w) \/ RunGone(w) \/ Crash(w)
  <2>1. wk' = [wk EXCEPT ![w] = Idle] BY <1>3 DEF EnqueueDrained, StartTooLate, Ack, RunGone, Crash
  <2>2. job' = job \/ EnqueueDrained(w) \/ Ack(w) BY <1>3 DEF StartTooLate, RunGone, Crash, stored
  <2> PICK x : x = Idle OBVIOUS
  <2>3. Outcome(w, x) BY <1>2, <2>1, <2>2 DEF Outcome
  <2> QED BY <2>3
<1>4. CASE DrainTimer(w)
  <2> PICK x : x = [wk[w] EXCEPT !.pc = "drain"] OBVIOUS
  <2>1. wk' = [wk EXCEPT ![w] = x] /\ wk[w].pc = "idle" /\ job' = job BY <1>4 DEF DrainTimer
  <2>2. IsTick(x) /\ x.pc = "drain" /\ x.out = wk[w].out BY <1>1, <2>1 DEF IsTick
  <2>3. Outcome(w, x) BY <1>1, <2>1, <2>2 DEF Outcome
  <2> QED BY <2>3
<1>5. CASE Claim(w)
  <2> PICK x : x = [wk[w] EXCEPT !.pc = "start", !.lease = LeaseOn(job')] OBVIOUS
  <2>1. wk' = [wk EXCEPT ![w] = x] /\ wk[w].pc = "idle" BY <1>5 DEF Claim
  <2>2. IsTick(x) /\ x.pc = "start" /\ x.lease = LeaseOn(job') /\ x.out = wk[w].out BY <1>1, <2>1 DEF IsTick
  <2>3. Outcome(w, x) BY <1>1, <1>5, <2>1, <2>2 DEF Outcome
  <2> QED BY <2>3
<1> QED BY <1>3, <1>4, <1>5

(* A tick that is decided: one that is to park, or to acknowledge, leaves the run at rest. *)
LEMMA OutcomeDecides ==
  ASSUME NEW w \in Workers, Working(w), job' = job, NEW x, wk' = [wk EXCEPT ![w] = x],
         \/ x = Acking(wk[w]) \/ x = ParkForRedeploy(wk[w])
         \/ \E s \in Terminal : x = Finishing(wk[w], s)
         \/ \E s \in Active \ {"awaiting_child"} : \E t : x = Suspending(wk[w], s, t),
         Current(w) /\ run.status \in Active /\ run'.status \in Active => x.pc = "finish" \/ AtRest'
  PROVE  \E y : Outcome(w, y)
<1>1. IsTick(x) /\ x.pc \in {"ack", "suspend", "finish"} BY Ends
<1>2. x.lease = wk[w].lease /\ x.out # "awaiting_child"
  <2>1. CASE x = Acking(wk[w]) BY <2>1 DEF Acking, Idle
  <2>2. ASSUME NEW s \in Active \ {"awaiting_child"}, NEW t, x = Suspending(wk[w], s, t)
        PROVE  x.lease = wk[w].lease /\ x.out # "awaiting_child"
    BY <2>2 DEF Suspending, Idle
  <2>3. ASSUME NEW s \in Terminal, x = Finishing(wk[w], s) PROVE x.lease = wk[w].lease /\ x.out # "awaiting_child"
    BY <2>3 DEF Finishing, Idle, Terminal
  <2> QED BY <2>1, <2>2, <2>3 DEF ParkForRedeploy, Active
<1>3. Current(w) /\ run.status \in Active /\ run'.status \in Active => Heeds(x)' BY <1>1 DEF Heeds, Reading
<1>4. Outcome(w, x) BY <1>1, <1>2, <1>3 DEF Outcome, SameRow
<1> QED BY <1>4

(* A body that goes on knows no less than before. *)
LEMMA StillComplete ==
  ASSUME NEW x, NEW y, Complete(x), posted' = posted,
         \A v \in x.inbox : v \in y.inbox \/ \E i \in LoggedAs(v)' : Passed(y, i),
         Len(x.seen) \in Nat, Len(x.got) \in Nat, Len(y.seen) \in Nat, Len(y.got) \in Nat,
         Len(x.seen) <= Len(y.seen), Len(x.got) <= Len(y.got), Readable(log),
         \A k : LoggedAs(k) \subseteq LoggedAs(k)'
  PROVE  Complete(y)'
<1>1. Posted' = Posted BY DEF Posted
<1>2. DOMAIN log \subseteq Nat BY ReadableFacts
<1>3. \A i \in DOMAIN log : Passed(x, i) => Passed(y, i) BY <1>2 DEF Passed
<1> SUFFICES ASSUME NEW v \in Posted PROVE v \in y.inbox \/ \E i \in LoggedAs(v)' : Passed(y, i)
  BY <1>1 DEF Complete
<1> QED BY <1>3, LoggedWithin DEF Complete

(* A snapshot that was just taken has every delivery. *)
LEMMA FreshComplete ==
  ASSUME Mail, NEW x, x.inbox = inbox, x.seen = log, posted' = posted, log' = log, Readable(log)
  PROVE  Complete(x)'
<1>1. Posted' = Posted /\ \A k : LoggedAs(k)' = LoggedAs(k) BY DEF Posted, LoggedAs
<1>2. \A i \in DOMAIN log : i <= Len(log) BY ReadableFacts
<1> SUFFICES ASSUME NEW v \in Posted, v \notin inbox PROVE \E i \in LoggedAs(v) : i <= Len(log)
  BY <1>1 DEF Complete, Passed
<1>3. PICK i \in DOMAIN log : LoggedAs(v) = {i} BY DEF Mail, SignalsConserved
<1> QED BY <1>2, <1>3

(* Who finds nothing to take, and knows of every delivery, leaves the run at rest: what stands *)
(* in the log there already is a timeout.                                                      *)
LEMMA AwaitRests ==
  ASSUME WaitsFirst, Faithful, run # NoRun, NEW w \in Workers, Calling(w, Waiting), Pending(w) = {},
         PastWaits \/ Complete(wk[w])
  PROVE  AtRest
<1> SUFFICES ASSUME ~PastWaits, Complete(wk[w]) PROVE AtRest
  BY DEF AtRest
<1> USE DEF Faithful
<1> DEFINE c == Cursor(w)
           n == Len(log)
<1>1. /\ n \in Nat /\ DOMAIN log = 1..n /\ c \in 1..n + 1 /\ c = Len(wk[w].got) + 1 /\ Len(wk[w].got) \in Nat
      /\ c \in DOMAIN deploy[w].calls /\ NextCall(w) = deploy[w].calls[c] /\ deploy \in Deployments
      /\ deploy[w].calls[c].op \in Waiting /\ DOMAIN deploy[w].calls = 1..Len(deploy[w].calls)
      /\ Len(deploy[w].calls) \in Nat /\ c > Len(wk[w].seen) /\ Len(wk[w].seen) \in Nat
  <2>1. InBody(w) /\ wk[w].pc \in Reading BY DEF Calling, InBody, Reading
  <2> QED BY <2>1, Stands, ReadLengths DEF Calling, NextCall, Typed
<1>2. \A v \in wk[w].inbox : Name[v] # NextCall(w).name BY DEF Pending
<1>3. CASE c = n + 1
  <2>1. StandsAt(w, Waiting) BY <1>1, <1>3 DEF StandsAt
  <2>2. ASSUME NEW k \in inbox PROVE Name[k] # deploy[w].calls[n + 1].name
    <3>1. k \in Posted /\ LoggedAs(k) = {} BY DEF Typed, Mail, SignalsConserved
    <3> QED BY <1>1, <1>2, <1>3, <3>1 DEF Complete
  <2> QED BY <2>1, <2>2 DEF AtRest, Unheard
<1>4. CASE c \in DOMAIN log
  <2> DEFINE m == log[c].val
  <2>1. log[c].call = <<"signal", NextCall(w).name>>
    <3>1. log[c].call = Label(NextCall(w)) BY <1>1, <1>4 DEF History, Entries
    <3> QED BY <1>1, <3>1 DEF Label, Waiting
  <2>2. CASE m = 0
    <3>1. deploy[w].calls[c].op = "decide" BY <1>1, <1>4, <2>1, <2>2 DEF InTurn, TimedOut
    <3>2. c <= n BY <1>1, <1>4
    <3>3. NoneFrom(n) BY <1>1, <3>1, <3>2, NoneBeyond
    <3> QED BY <3>3 DEF PastWaits
  <2>3. CASE m # 0
    <3>1. m \in Posted /\ log[c].call = <<"signal", Name[m]>> BY <1>4, <2>1, <2>3 DEF Mail, Delivered
    <3>2. Name[m] = NextCall(w).name
      <4>1. \A a, b : <<"signal", a>> = <<"signal", b>> => a = b OBVIOUS
      <4> QED BY <2>1, <3>1, <4>1
    <3>3. c \in LoggedAs(m) BY <1>4, <3>1 DEF LoggedAs
    <3>4. LoggedAs(m) = {c} BY <3>1, <3>3 DEF Mail, SignalsConserved
    <3>5. ~Passed(wk[w], c) BY <1>1 DEF Passed
    <3> HIDE DEF m, c
    <3> QED BY <1>2, <3>1, <3>2, <3>4, <3>5 DEF Complete
  <2> QED BY <2>2, <2>3
<1> QED BY <1>1, <1>3, <1>4

(* Nothing that was replayed from the log is another call. *)
LEMMA NoDrift ==
  ASSUME Faithful, run # NoRun, NEW w \in Workers, Replaying(w)
  PROVE  ~Drifted(w)
<1> USE DEF Faithful
<1>1. /\ InBody(w) /\ wk[w].pc \in Reading /\ Cursor(w) <= Len(wk[w].seen)
  BY DEF Replaying, InBody, Reading
<1>2. /\ Cursor(w) \in Nat \ {0} /\ Cursor(w) \in DOMAIN deploy[w].calls /\ Len(log) \in Nat
      /\ DOMAIN log = 1..Len(log) /\ Len(wk[w].seen) <= Len(log) /\ Len(wk[w].seen) \in Nat
  BY <1>1, Stands, ReadLengths
<1>3. IsSeq(wk[w].seen) /\ \A i \in DOMAIN wk[w].seen : wk[w].seen[i] = log[i]
  BY <1>1 DEF History, Remembers, HasRead
<1>4. Cursor(w) \in DOMAIN wk[w].seen /\ Cursor(w) \in DOMAIN log BY <1>1, <1>2, <1>3, SeqFacts
<1>5. log[Cursor(w)].call = Label(NextCall(w)) BY <1>2, <1>4 DEF History, Entries, NextCall
<1> QED BY <1>3, <1>4, <1>5 DEF Drifted

(* The calls of a body that end it, and what follows them. *)
LEMMA OutcomeDecided ==
  ASSUME WaitsFirst, Faithful, Attentive, NEW w \in Workers,
         \/ Drift(w) \/ RejectSignal(w) \/ AwaitSignal(w) \/ Suspend(w) \/ Finish(w)
         \/ \E permanent \in BOOLEAN : StepThrows(w, permanent)
  PROVE  \E x : Outcome(w, x)
<1> USE DEF Faithful
<1>1. /\ log' = log /\ inbox' = inbox /\ deploy' = deploy /\ job' = job /\ Working(w)
      /\ deploy \in Deployments /\ Row /\ IsTick(wk[w]) /\ Len(log) \in Nat
  <2>1. log' = log /\ inbox' = inbox /\ deploy' = deploy /\ job' = job
    BY DEF Drift, RejectSignal, AwaitSignal, Suspend, Finish, StepThrows, stored, others
  <2>2. Working(w)
    BY DEF Drift, RejectSignal, AwaitSignal, Suspend, Finish, StepThrows, Working, Replaying, Calling, InBody,
           Returning
  <2>3. Len(log) \in Nat BY ReadableFacts DEF Typed
  <2> QED BY <2>1, <2>2, <2>3 DEF Typed, Sound, Ticks
<1>2. AtRest => AtRest' BY <1>1 DEF AtRest, PastWaits, NoneFrom, Unheard, StandsAt
<1>3. Current(w) /\ run.status \in Active => Heeds(wk[w]) /\ run # NoRun
  BY DEF Attentive, Watched, Active, NoRun
<1>4. CASE Drift(w)
  <2>1. run # NoRun => FALSE BY <1>4, NoDrift DEF Drift
  <2>2. run # NoRun BY <1>4 DEF Drift, Replaying, InBody
  <2> QED BY <2>1, <2>2
<1>5. CASE RejectSignal(w)
  <2> DEFINE x == Finishing(wk[w], "failed")
  <2>1. wk' = [wk EXCEPT ![w] = x] /\ "failed" \in Terminal BY <1>5 DEF RejectSignal, Terminal
  <2>2. x.pc = "finish" BY <2>1, Ends
  <2> QED BY <1>1, <2>1, <2>2, OutcomeDecides
<1>6. CASE AwaitSignal(w)
  <2>1. PICK t : wk' = [wk EXCEPT ![w] = Suspending(wk[w], "awaiting_signal", t)] BY <1>6 DEF AwaitSignal
  <2>2. "awaiting_signal" \in Active \ {"awaiting_child"} BY DEF Active
  <2>3. Calling(w, Waiting) /\ Pending(w) = {} /\ wk[w].pc \in Reading
    BY <1>6 DEF AwaitSignal, Waiting, Calling, InBody, Reading
  <2>4. Current(w) /\ run.status \in Active => AtRest BY <1>3, <2>3, AwaitRests DEF Heeds
  <2> QED BY <1>1, <1>2, <2>1, <2>2, <2>4, OutcomeDecides
<1>7. CASE Suspend(w)
  <2>1. wk' = [wk EXCEPT ![w] = Acking(wk[w])] /\ wk[w].pc = "suspend" BY <1>7 DEF Suspend
  <2>2. Current(w) /\ run.status \in Active => AtRest BY <1>3, <2>1 DEF Heeds
  <2> QED BY <1>1, <1>2, <2>1, <2>2, OutcomeDecides
<1>8. CASE Finish(w)
  <2>1. wk' = [wk EXCEPT ![w] = Acking(wk[w])] /\ \E s \in Terminal : run' = Terminated(run, s)
    BY <1>1, <1>8 DEF Finish, IsTick, Terminal
  <2>2. run'.status \in Terminal BY <1>1, <2>1, <1>8 DEF Terminated, Row, RunRow
  <2>3. ~(run'.status \in Active) BY <2>2 DEF Terminal, Active
  <2> QED BY <1>1, <2>1, <2>3, OutcomeDecides
<1>9. ASSUME NEW permanent \in BOOLEAN, StepThrows(w, permanent) PROVE \E x : Outcome(w, x)
  <2>1. CASE wk' = [wk EXCEPT ![w] = Finishing(wk[w], "failed")]
    <3> DEFINE x == Finishing(wk[w], "failed")
    <3>1. wk' = [wk EXCEPT ![w] = x] /\ "failed" \in Terminal BY <2>1 DEF Terminal
    <3>2. x.pc = "finish" BY <3>1, Ends
    <3> QED BY <1>1, <3>1, <3>2, OutcomeDecides
  <2>2. CASE /\ wk' = [wk EXCEPT ![w] = Suspending(wk[w], "retrying", {BackoffMs})]
             /\ ~(permanent \/ wk[w].attempt >= MaxAttempts)
    <3>1. "retrying" \in Active \ {"awaiting_child"} BY DEF Active
    <3>2. ASSUME Current(w), run.status \in Active PROVE AtRest
      <4>1. wk[w].pc = "body" /\ wk[w].attempt >= 1 /\ run # NoRun
        BY <1>3, <1>9, <3>2 DEF Heeds, StepThrows, Calling, InBody
      <4>2. MaxAttempts # 1 BY <2>2, <4>1
      <4>3. /\ Cursor(w) \in 1..Len(log) + 1 /\ Cursor(w) \in DOMAIN deploy[w].calls
            /\ deploy[w].calls[Cursor(w)].op \in {"step", "timed"}
        BY <1>9, Stands DEF StepThrows, Calling, NextCall
      <4>4. NoneFrom(Len(log)) BY <1>1, <4>2, <4>3, NoneBeyond
      <4> QED BY <4>4 DEF AtRest, PastWaits
    <3> QED BY <1>1, <1>2, <2>2, <3>1, <3>2, OutcomeDecides
  <2> QED BY <1>9, <2>1, <2>2 DEF StepThrows
<1> QED BY <1>4, <1>5, <1>6, <1>7, <1>8, <1>9

(* What a tick does on the way to the body, and the renewal inside it. *)
LEMMA OutcomeBegins ==
  ASSUME WaitsFirst, Faithful, Attentive, NEW w \in Workers,
         StartRenewed(w) \/ Load(w) \/ MarkRunning(w) \/ Renew(w)
  PROVE  \E x : Outcome(w, x)
<1> USE DEF Faithful
<1>1. /\ log' = log /\ inbox' = inbox /\ posted' = posted /\ deploy' = deploy /\ Working(w) /\ deploy \in Deployments
      /\ IsTick(wk[w]) /\ wk[w].out # "awaiting_child" /\ job \in Job /\ wk[w].lease \in Lease
      /\ Len(log) \in Nat /\ Readable(log)
  <2>1. log' = log /\ inbox' = inbox /\ posted' = posted /\ deploy' = deploy /\ Working(w)
    BY DEF StartRenewed, Load, MarkRunning, Renew, Renewed, stored, others, Calling, InBody, Working
  <2>2. Readable(log) /\ Len(log) \in Nat BY ReadableFacts DEF Typed
  <2> QED BY <2>1, <2>2 DEF Typed, Sound, Ticks, Attentive, Childless, Fits
<1>2. PastWaits => PastWaits' BY <1>1 DEF PastWaits, NoneFrom
<1>3. Current(w) /\ run.status \in Active => Heeds(wk[w]) /\ run # NoRun
  BY DEF Attentive, Watched, Active, NoRun
<1>5. ASSUME NEW y, y.seen = wk[w].seen, y.got = wk[w].got, y.inbox = wk[w].inbox, Complete(wk[w])
      PROVE  Complete(y)'
  <2>1. Posted' = Posted /\ \A v : LoggedAs(v)' = LoggedAs(v) BY <1>1 DEF Posted, LoggedAs
  <2> QED BY <1>5, <2>1 DEF Complete, Passed
<1>6. /\ Extended(wk[w].lease, LeaseMs).token = wk[w].lease.token
      /\ Extended(wk[w].lease, LeaseMs).version = wk[w].lease.version
      /\ Extended(job, LeaseMs).queued = job.queued /\ Extended(job, LeaseMs).token = job.token
      /\ Extended(job, LeaseMs).version = job.version
  BY <1>1 DEF Extended, Lease, Job
<1>7. CASE StartRenewed(w)
  <2> PICK x : x = [wk[w] EXCEPT !.pc = "load", !.lease = Extended(@, LeaseMs)] OBVIOUS
  <2>1. wk' = [wk EXCEPT ![w] = x] /\ job' = Extended(job, LeaseMs) /\ wk[w].pc = "start" BY <1>7 DEF StartRenewed
  <2>2. IsTick(x) /\ x.pc = "load" /\ x.out = wk[w].out /\ x.lease = Extended(wk[w].lease, LeaseMs)
    BY <1>1, <2>1 DEF IsTick
  <2>3. Heeds(x)' BY <2>2 DEF Heeds, Reading
  <2>4. Outcome(w, x) BY <1>1, <1>6, <2>1, <2>2, <2>3 DEF Outcome, SameRow
  <2> QED BY <2>4
<1>8. CASE Load(w)
  <2>1. job' = job /\ run' = run BY <1>8 DEF Load, stored
  <2>2. CASE wk' = [wk EXCEPT ![w] = Acking(wk[w])] /\ (run = NoRun \/ run.status \in Terminal)
    <3>1. ~(run.status \in Active) BY <2>2 DEF NoRun, Terminal, Active
    <3> QED BY <1>1, <2>1, <2>2, <3>1, OutcomeDecides
  <2>3. CASE wk' = [wk EXCEPT ![w] = ParkForRedeploy(wk[w])] /\ ~deploy[w].known
    <3>1. DOMAIN deploy[w].calls = {} /\ ~Plain
      <4>1. deploy[w].calls = <<>> BY <1>1, <2>3 DEF WaitsFirst
      <4> QED BY <1>1, <2>3, <4>1, EmptySeq DEF Plain
    <3>2. PastWaits BY <3>1 DEF PastWaits, NoneFrom
    <3> QED BY <1>1, <1>2, <2>1, <2>3, <3>2, OutcomeDecides DEF AtRest
  <2>4. CASE wk' = [wk EXCEPT ![w] = [wk[w] EXCEPT !.pc = "mark", !.seen = log, !.inbox = inbox]]
    <3> PICK x : x = [wk[w] EXCEPT !.pc = "mark", !.seen = log, !.inbox = inbox] OBVIOUS
    <3>1. wk' = [wk EXCEPT ![w] = x] BY <2>4
    <3>2. IsTick(x) /\ x.pc = "mark" /\ x.seen = log /\ x.inbox = inbox /\ x.out = wk[w].out /\ x.lease = wk[w].lease
      BY <1>1, <1>8 DEF IsTick, Load
    <3>3. Complete(x)' BY <1>1, <3>2, FreshComplete
    <3>4. Heeds(x)' BY <3>2, <3>3 DEF Heeds
    <3>5. Outcome(w, x) BY <1>1, <2>1, <3>1, <3>2, <3>4 DEF Outcome, SameRow
    <3> QED BY <3>5
  <2> QED BY <1>8, <2>2, <2>3, <2>4 DEF Load
<1>9. CASE MarkRunning(w)
  <2>1. job' = job /\ wk[w].pc = "mark" /\ run' = Counted(MarkedRunning(run)) BY <1>9 DEF MarkRunning
  <2>2. CASE wk' = [wk EXCEPT ![w] = Finishing(wk[w], "failed")]
    <3> DEFINE x == Finishing(wk[w], "failed")
    <3>1. wk' = [wk EXCEPT ![w] = x] /\ "failed" \in Terminal BY <2>2 DEF Terminal
    <3>2. x.pc = "finish" BY <3>1, Ends
    <3> QED BY <1>1, <2>1, <3>1, <3>2, OutcomeDecides
  <2>3. CASE wk' = [wk EXCEPT ![w] = [wk[w] EXCEPT !.pc = "body", !.attempt = run'.attempts]]
    <3> PICK x : x = [wk[w] EXCEPT !.pc = "body", !.attempt = run'.attempts] OBVIOUS
    <3>1. wk' = [wk EXCEPT ![w] = x] BY <2>3
    <3>2. /\ IsTick(x) /\ x.pc = "body" /\ x.seen = wk[w].seen /\ x.inbox = wk[w].inbox /\ x.got = wk[w].got
          /\ x.out = wk[w].out /\ x.lease = wk[w].lease /\ x.attempt = run'.attempts
      BY <1>1, <2>1 DEF IsTick
    <3>3. ASSUME run.status \in Active PROVE run'.attempts >= 1
      <4>1. Row /\ run.status \in Active \cup Terminal /\ ~(run.status \in Terminal) /\ run.attempts \in Nat
        BY <3>3 DEF Sound, Row, RunRow, Active, Terminal
      <4>2. run'.attempts = run.attempts + 1 \/ run'.attempts = MaxAttempts + 1 BY <2>1, <4>1, Rows
      <4> QED BY <4>1, <4>2, Constants
    <3>4. ASSUME Current(w), run.status \in Active PROVE PastWaits' \/ Complete(x)'
      <4>1. PastWaits \/ Complete(wk[w]) BY <1>3, <2>1, <3>4 DEF Heeds, Reading
      <4> QED BY <1>2, <1>5, <3>2, <4>1
    <3>5. Current(w) /\ run.status \in Active => Heeds(x)' BY <3>2, <3>3, <3>4 DEF Heeds
    <3>6. Outcome(w, x) BY <1>1, <2>1, <3>1, <3>2, <3>5 DEF Outcome, SameRow
    <3> QED BY <3>6
  <2> QED BY <1>9, <2>2, <2>3 DEF MarkRunning
<1>10. CASE Renew(w)
  <2> PICK x : x = [wk[w] EXCEPT !.pc = "body"] OBVIOUS
  <2> PICK y : y = [wk[w] EXCEPT !.pc = "body", !.lease = Extended(@, LeaseMs)] OBVIOUS
  <2>1. /\ wk[w].pc \in {"body", "renew"}
        /\ \/ wk' = [wk EXCEPT ![w] = x] /\ job' = job
           \/ wk' = [wk EXCEPT ![w] = y] /\ job' = Extended(job, LeaseMs)
    BY <1>10 DEF Renew, Renewed, Calling, InBody
  <2>2. ASSUME NEW a \in {x, y}
        PROVE  /\ IsTick(a) /\ a.pc = "body" /\ a.seen = wk[w].seen /\ a.inbox = wk[w].inbox /\ a.got = wk[w].got
               /\ a.out = wk[w].out /\ a.attempt = wk[w].attempt /\ a.lease.token = wk[w].lease.token
               /\ a.lease.version = wk[w].lease.version
    BY <1>1, <1>6, <2>1 DEF IsTick
  <2>3. SameRow BY <1>6, <2>1 DEF SameRow
  <2>4. PICK a \in {x, y} : wk' = [wk EXCEPT ![w] = a] BY <2>1
  <2>5. ASSUME Current(w), run.status \in Active PROVE Heeds(a)'
    <3>1. (PastWaits \/ Complete(wk[w])) /\ wk[w].attempt >= 1 BY <1>3, <2>1, <2>5 DEF Heeds, Reading
    <3>2. PastWaits' \/ Complete(a)' BY <1>2, <1>5, <2>2, <3>1
    <3> QED BY <2>2, <3>1, <3>2 DEF Heeds
  <2>6. Outcome(w, a) BY <1>1, <2>2, <2>3, <2>4, <2>5 DEF Outcome
  <2> QED BY <2>6
<1> QED BY <1>7, <1>8, <1>9, <1>10

(* A body that is told its next answer. *)
LEMMA OutcomeTold ==
  ASSUME Compatible, WaitsFirst, Faithful, Attentive, NEW w \in Workers, Steps(w), wk[w].pc = "body", run # NoRun,
         NEW val \in Nat, NEW x, IsTick(x), wk' = [wk EXCEPT ![w] = x], job' = job,
         x.pc \in {"body", "renew"}, x.got = Append(wk[w].got, val), x.seen = wk[w].seen,
         x.lease = wk[w].lease, x.out = wk[w].out, x.attempt = wk[w].attempt,
         \A v \in wk[w].inbox : \/ v \in x.inbox \/ PastWaits'
                                \/ \E i \in LoggedAs(v)' : Passed(x, i)
  PROVE  \E y : Outcome(w, y)
<1> USE DEF Faithful
<1>1. deploy' = deploy /\ posted' = posted /\ run' # NoRun /\ [Next]_vars
  <2>1. [Next]_vars BY DEF Next, Steps, Dies
  <2> QED BY <2>1, WorkerTables, WorkerKeepsRun
<1>2. /\ \A k : LoggedAs(k) \subseteq LoggedAs(k)'
      /\ PastWaits => PastWaits'
  BY <1>1, RestKept
<1>3. Len(x.got) = Len(wk[w].got) + 1 /\ Len(wk[w].got) \in Nat /\ Len(wk[w].seen) \in Nat /\ Readable(log)
  <2>1. wk[w].got \in Seq(Nat) /\ Readable(wk[w].seen) /\ Readable(log) BY DEF Typed, Fits
  <2> QED BY <2>1, AppendProperties, LenProperties, ReadableFacts
<1>4. Current(w) /\ run.status \in Active => (PastWaits \/ Complete(wk[w])) /\ wk[w].attempt >= 1
  BY DEF Attentive, Watched, Heeds, Reading
<1>5. ASSUME Complete(wk[w]) PROVE PastWaits' \/ Complete(x)'
  <2>1. CASE PastWaits' BY <2>1
  <2>2. CASE ~PastWaits'
    <3>1. PICK y : y = wk[w] OBVIOUS
    <3> QED BY <1>1, <1>2, <1>3, <1>5, <2>2, <3>1, StillComplete
  <2> QED BY <2>1, <2>2
<1>6. Current(w) /\ run.status \in Active => Heeds(x)' BY <1>2, <1>4, <1>5 DEF Heeds
<1>7. Outcome(w, x) BY <1>6 DEF Outcome, SameRow, Working, Attentive, Childless
<1> QED BY <1>7

(* A body that is told an answer and keeps its inbox. *)
LEMMA OutcomeReturns ==
  ASSUME Compatible, WaitsFirst, Faithful, Attentive, NEW w \in Workers, Steps(w), wk[w].pc = "body", run # NoRun,
         NEW val \in Nat, wk' = [wk EXCEPT ![w] = Returned(wk[w], val)], job' = job
  PROVE  \E y : Outcome(w, y)
<1> PICK x : x = Returned(wk[w], val) OBVIOUS
<1>1. IsTick(wk[w]) BY DEF Faithful, Sound, Ticks
<1>2. IsTick(x) /\ x.pc = "body" /\ x.seen = wk[w].seen /\ x.got = Append(wk[w].got, val) BY <1>1, Answered
<1>3. /\ x.inbox = wk[w].inbox /\ x.lease = wk[w].lease /\ x.out = wk[w].out /\ x.attempt = wk[w].attempt
  BY <1>1 DEF Returned, IsTick
<1>4. wk' = [wk EXCEPT ![w] = x] OBVIOUS
<1> QED BY <1>2, <1>3, <1>4, OutcomeTold

(* A run parked at a sleep is past its waits. *)
LEMMA OutcomeSleeps ==
  ASSUME Compatible, WaitsFirst, Faithful, Attentive, NEW w \in Workers, Steps(w), InBody(w), job' = job,
         NextCall(w).op = "sleep", NEW at \in Nat, wk' = [wk EXCEPT ![w] = SleptUntil(wk[w], at)]
  PROVE  \E y : Outcome(w, y)
<1> USE DEF Faithful
<1>1. wk[w].pc = "body" /\ run # NoRun BY DEF InBody
<1>2. CASE wk' = [wk EXCEPT ![w] = Returned(wk[w], at)] BY <1>1, <1>2, OutcomeReturns
<1>3. CASE wk' = [wk EXCEPT ![w] = Suspending(wk[w], "sleeping", {at})]
  <2>1. deploy' = deploy /\ posted' = posted /\ run' # NoRun /\ [Next]_vars
    <3>1. [Next]_vars BY DEF Next, Steps, Dies
    <3> QED BY <1>1, <3>1, WorkerTables, WorkerKeepsRun
  <2>2. /\ Cursor(w) \in 1..Len(log) + 1 /\ Cursor(w) \in DOMAIN deploy[w].calls /\ Len(log) \in Nat
        /\ deploy[w].calls[Cursor(w)].op = "sleep" /\ deploy \in Deployments
    BY Stands DEF NextCall, Typed
  <2>3. NoneFrom(Len(log)) BY <2>2, NoneBeyond
  <2>4. AtRest' BY <1>1, <2>1, <2>3, RestKept DEF AtRest, PastWaits
  <2>5. Working(w) /\ "sleeping" \in Active \ {"awaiting_child"} BY <1>1 DEF Working, Active
  <2> QED BY <1>3, <2>4, <2>5, OutcomeDecides
<1> QED BY <1>2, <1>3 DEF SleptUntil

(* The calls that answer, whichever they are. *)
LEMMA OutcomeAnswers ==
  ASSUME Compatible, WaitsFirst, Faithful, Attentive, NEW w \in Workers, Steps(w),
         Replay(w) \/ Pin(w) \/ RunStep(w) \/ TakeSignal(w) \/ TimeOut(w)
  PROVE  \E x : Outcome(w, x)
<1> USE DEF Faithful
<1>1. /\ wk[w].pc = "body" /\ InBody(w) /\ run # NoRun /\ job' = job /\ IsTick(wk[w]) /\ w \in Nat
      /\ wk[w].inbox \subseteq Posted
  <2>1. InBody(w) /\ job' = job
    BY DEF Replay, Pin, RunStep, TakeSignal, TimeOut, Replaying, Calling, stored
  <2> QED BY <2>1, Constants DEF InBody, Sound, Ticks, Typed
<1>2. CASE Replay(w)
  <2> DEFINE val == wk[w].seen[Cursor(w)].val
  <2>1. val \in Nat BY <1>2, ReplayedNear
  <2>2. \/ NextCall(w).op = "sleep" /\ wk' = [wk EXCEPT ![w] = SleptUntil(wk[w], val)]
        \/ wk' = [wk EXCEPT ![w] = Returned(wk[w], val)]
    BY <1>2 DEF Replay
  <2> HIDE DEF val
  <2> QED BY <1>1, <2>1, <2>2, OutcomeReturns, OutcomeSleeps
<1>3. CASE Pin(w)
  <2>1. PICK at \in {SleepMs, WaitMs} :
          \/ NextCall(w).op = "sleep" /\ wk' = [wk EXCEPT ![w] = SleptUntil(wk[w], at)]
          \/ wk' = [wk EXCEPT ![w] = Returned(wk[w], at)]
    BY <1>3 DEF Pin
  <2>2. at \in Nat BY EngineConstants
  <2> QED BY <1>1, <2>1, <2>2, OutcomeReturns, OutcomeSleeps
<1>4. CASE RunStep(w)
  <2> DEFINE val == CheckpointAnswer(w, w)
             y == Returned(wk[w], val)
             x == [y EXCEPT !.pc = "renew"]
  <2>1. wk' = [wk EXCEPT ![w] = x] /\ Checkpoint(w, w) /\ Calling(w, Ops) /\ NextCall(w).op \notin {"sleep", "pin"}
    BY <1>4 DEF RunStep, Calling, Ops
  <2>2. val \in Nat BY <1>1, <2>1, CheckpointFits
  <2> HIDE DEF val
  <2>3. /\ IsTick(y) /\ y.pc = "body" /\ y.seen = wk[w].seen /\ y.got = Append(wk[w].got, val)
        /\ y.inbox = wk[w].inbox /\ y.lease = wk[w].lease /\ y.out = wk[w].out /\ y.attempt = wk[w].attempt
    BY <1>1, Answered DEF Returned, IsTick
  <2> HIDE DEF y
  <2>4. /\ IsTick(x) /\ x.pc = "renew" /\ x.seen = y.seen /\ x.got = y.got
        /\ x.inbox = y.inbox /\ x.lease = y.lease /\ x.out = y.out /\ x.attempt = y.attempt
    BY <2>3 DEF IsTick
  <2> HIDE DEF x
  <2> QED BY <1>1, <2>1, <2>2, <2>3, <2>4, OutcomeTold
<1>5. CASE TakeSignal(w)
  <2>1. PICK k : k = First(Pending(w)) OBVIOUS
  <2> DEFINE val == CheckpointAnswer(w, k)
             y == Returned(wk[w], val)
             x == [y EXCEPT !.inbox = Without(wk[w].inbox, k)]
             c == Cursor(w)
  <2>2. /\ wk' = [wk EXCEPT ![w] = x] /\ Checkpoint(w, k) /\ Calling(w, Ops) /\ Pending(w) # {}
        /\ NextCall(w).op \in {"signal", "decide"}
    BY <1>5, <2>1 DEF TakeSignal, Calling, Ops
  <2>3. k \in Nat /\ k \in wk[w].inbox /\ Name[k] = NextCall(w).name BY <1>1, <2>1, <2>2, PendingFits
  <2>4. val \in Nat BY <2>2, <2>3, CheckpointFits
  <2> HIDE DEF val
  <2>5. /\ IsTick(y) /\ y.pc = "body" /\ y.seen = wk[w].seen /\ y.got = Append(wk[w].got, val)
        /\ y.inbox = wk[w].inbox /\ y.lease = wk[w].lease /\ y.out = wk[w].out /\ y.attempt = wk[w].attempt
    BY <1>1, Answered DEF Returned, IsTick
  <2> HIDE DEF y
  <2>6. /\ IsTick(x) /\ x.pc = "body" /\ x.seen = y.seen /\ x.got = y.got
        /\ x.inbox = wk[w].inbox \ {k} /\ x.lease = y.lease /\ x.out = y.out /\ x.attempt = y.attempt
    BY <2>5 DEF IsTick, Without
  <2> HIDE DEF x
  <2>7. PICK a : a = x OBVIOUS
  <2>8. /\ c \in 1..Len(log) + 1 /\ c \in DOMAIN deploy[w].calls /\ Len(log) \in Nat /\ DOMAIN log = 1..Len(log)
        /\ NextCall(w) = deploy[w].calls[c] /\ deploy \in Deployments /\ c = Len(wk[w].got) + 1
    BY <1>1, Stands DEF NextCall, Typed
  <2>9. Len(a.got) = c
    <3>1. wk[w].got \in Seq(Nat) BY DEF Typed, Fits
    <3> QED BY <2>4, <2>5, <2>6, <2>7, <2>8, <3>1, AppendProperties
  <2>10. Passed(a, c) BY <2>8, <2>9 DEF Passed
  <2> HIDE DEF c
  <2>11. PastWaits' \/ c \in LoggedAs(k)'
    <3>1. deploy' = deploy /\ posted' = posted /\ run' # NoRun /\ [Next]_vars
      <4>1. [Next]_vars BY DEF Next, Steps, Dies
      <4> QED BY <1>1, <4>1, WorkerTables, WorkerKeepsRun
    <3>2. CASE Lengthens(w, k)
      <4>1. Label(NextCall(w)) = <<"signal", Name[k]>> BY <2>2, <2>3 DEF Label
      <4>2. c = Len(log) + 1 BY <3>2 DEF Lengthens, c
      <4> QED BY <3>2, <4>1, <4>2, LoggedMore
    <3>3. CASE log' = log /\ ~(Cursor(w) > Len(log))
      <4>1. c <= Len(log) /\ c \in DOMAIN log BY <2>8, <3>3 DEF c
      <4>2. log[c].call = <<"signal", Name[k]>> /\ (log[c].val = 0 \/ c \in LoggedAs(k))
        BY <1>5, <2>1, <4>1, AlreadyTold DEF c
      <4>3. CASE c \in LoggedAs(k) BY <3>3, <4>3 DEF LoggedAs
      <4>4. CASE log[c].val = 0
        <5>1. deploy[w].calls[c].op = "decide" BY <2>8, <4>1, <4>2, <4>4 DEF InTurn, TimedOut
        <5>2. NoneFrom(Len(log)) BY <2>8, <4>1, <5>1, NoneBeyond
        <5> QED BY <1>1, <3>1, <5>2, RestKept DEF PastWaits
      <4> QED BY <4>2, <4>3, <4>4
    <3> QED BY <2>2, <2>8, <3>2, <3>3, Lengthened DEF c
  <2>12. \A v \in wk[w].inbox : \/ v \in a.inbox \/ PastWaits' \/ \E i \in LoggedAs(v)' : Passed(a, i)
    BY <2>6, <2>7, <2>10, <2>11
  <2>13. /\ wk' = [wk EXCEPT ![w] = a] /\ IsTick(a) /\ a.pc = "body" /\ a.got = Append(wk[w].got, val)
         /\ a.seen = wk[w].seen /\ a.lease = wk[w].lease /\ a.out = wk[w].out /\ a.attempt = wk[w].attempt
    BY <2>2, <2>5, <2>6, <2>7
  <2> QED BY <1>1, <2>4, <2>12, <2>13, OutcomeTold
<1>6. CASE TimeOut(w)
  <2>1. Calling(w, Ops) /\ NextCall(w).op \notin {"sleep", "pin"} /\ Working(w)
    BY <1>1, <1>6 DEF TimeOut, Calling, Ops, Working
  <2>2. CASE VersionMoved(w) /\ wk' = [wk EXCEPT ![w] = Suspending(wk[w], "awaiting_signal", {0})]
    <3>1. ~Current(w)
      <4>1. WellFormed(job) /\ w # 0 BY Constants DEF Typed
      <4> QED BY <2>2, <4>1 DEF VersionMoved, Current, WellFormed, NoJob
    <3>2. "awaiting_signal" \in Active \ {"awaiting_child"} BY DEF Active
    <3> QED BY <1>1, <2>1, <2>2, <3>1, <3>2, OutcomeDecides
  <2>3. CASE Checkpoint(w, 0) /\ wk' = [wk EXCEPT ![w] = Returned(wk[w], CheckpointAnswer(w, 0))]
    <3>1. CheckpointAnswer(w, 0) \in Nat BY <2>1, <2>3, CheckpointFits
    <3> QED BY <1>1, <2>3, <3>1, OutcomeReturns
  <2> QED BY <1>6, <2>2, <2>3 DEF TimeOut
<1> QED BY <1>2, <1>3, <1>4, <1>5, <1>6

LEMMA AnyOutcome ==
  ASSUME Compatible, WaitsFirst, Faithful, Attentive, NEW w \in Workers, Steps(w)
  PROVE  \E x : Outcome(w, x)
BY OutcomeStops, OutcomeBegins, OutcomeDecided, OutcomeAnswers DEF Steps, Work, StepEnds, Faithful, Attentive

(* A worker's step settles a live run, or leaves it live, and never revives one. *)
LEMMA StatusMoves ==
  ASSUME Sound, Childless, NEW w \in Workers, Steps(w)
  PROVE  /\ run'.status \in Active => run.status \in Active
         /\ run'.status # "awaiting_child"
<1>1. Row /\ run.status \in Active \cup Terminal \cup {"absent"} /\ Active \cap Terminal = {} /\ "absent" \notin Active
      /\ run.status # "awaiting_child" /\ IsTick(wk[w]) /\ wk[w].out # "awaiting_child"
  BY DEF Sound, Row, RunRow, Active, Terminal, Childless, Ticks
<1>2. run' = run => (run'.status \in Active => run.status \in Active) /\ run'.status # "awaiting_child" BY <1>1
<1>3. CASE MarkRunning(w)
  <2>1. run # NoRun /\ run' = Counted(MarkedRunning(run)) BY <1>3 DEF MarkRunning
  <2>2. "running" \in Active BY DEF Active
  <2>3. CASE run.status \in Terminal
    <3>1. run' = run BY <1>1, <2>1, <2>2, <2>3, Rows
    <3> QED BY <1>2, <3>1
  <2>4. CASE run.status \notin Terminal
    <3>1. run'.status = "running" BY <1>1, <2>1, <2>2, <2>4, Rows
    <3>2. run.status \in Active BY <1>1, <2>1, <2>4 DEF Row
    <3> QED BY <3>1, <3>2
  <2> QED BY <2>3, <2>4
<1>4. CASE Suspend(w)
  <2>1. run # NoRun /\ run' = Suspended(run, wk[w].out) /\ wk[w].out \in Active /\ wk[w].pc = "suspend"
    BY <1>1, <1>4 DEF Suspend, IsTick
  <2>2. CASE run.status \in Terminal
    <3>1. run' = run BY <2>1, <2>2 DEF Suspended
    <3> QED BY <1>2, <3>1
  <2>3. CASE run.status \notin Terminal
    <3>1. run'.status = wk[w].out BY <2>1, <2>3 DEF Suspended
    <3>2. run.status \in Active BY <1>1, <2>1, <2>3 DEF Row
    <3> QED BY <1>1, <3>1, <3>2
  <2> QED BY <2>2, <2>3
<1>5. CASE Finish(w)
  <2>1. PICK s \in Terminal : run' = Terminated(run, s) BY <1>1, <1>5 DEF Finish, IsTick, Terminal
  <2>2. run' = run \/ run'.status = s BY <1>1, <2>1, Rows
  <2>3. s \notin Active /\ s # "awaiting_child" BY <1>1 DEF Terminal, Active
  <2> QED BY <1>2, <2>2, <2>3
<1>6. run' = run \/ MarkRunning(w) \/ Suspend(w) \/ Finish(w)
  BY DEF Steps, Work, StepEnds, DrainTimer, Claim, EnqueueDrained, StartRenewed, StartTooLate, Load,
       Replay, Drift, RunStep, StepThrows, Pin, TakeSignal, RejectSignal, AwaitSignal, TimeOut,
       Ack, RunGone, Renew, Crash, stored
<1> QED BY <1>2, <1>3, <1>4, <1>5, <1>6

(* What an idle or draining worker does leaves the run row alone. *)
LEMMA RowLeftAlone ==
  ASSUME NEW w \in Workers, Steps(w), ~Working(w)
  PROVE  run' = run
BY DEF Steps, Work, StepEnds, Working, DrainTimer, Claim, EnqueueDrained, StartRenewed, StartTooLate, Load,
       MarkRunning, Replay, Drift, RunStep, StepThrows, Pin, TakeSignal, RejectSignal, AwaitSignal, TimeOut,
       Suspend, Finish, Ack, RunGone, Renew, Crash, stored, Replaying, Calling, InBody, Returning

(* What an acknowledgement makes of the row. *)
LEMMA AckMoves ==
  ASSUME Sound, Leased, NEW w \in Workers, Ack(w)
  PROVE  /\ Working(w)
         /\ \/ job' = job
            \/ job'.token = 0 /\ job'.queued = job.queued
            \/ job'.token = 0 /\ Current(w)
<1>1. wk[w].pc = "ack" /\ job' = Acked(job, wk[w].lease, 0) /\ Working(w) BY DEF Ack, Working
<1>2. Released(job).token = 0 /\ Released(job).queued = job.queued /\ NoJob.token = 0
  BY DEF Sound, Job, Released, NoJob
<1>3. Holds(job, wk[w].lease, 0) /\ job.version = wk[w].lease.version => Current(w)
  BY <1>1 DEF Leased, Holds, Current
<1> QED BY <1>1, <1>2, <1>3 DEF Acked

(* No worker but the one that steps becomes current by its step. *)
LEMMA CurrentKept ==
  ASSUME Typed, Sound, Leased, NEW w \in Workers, NEW x, Outcome(w, x), NEW v \in Workers, Current(v)'
  PROVE  \/ v # w /\ wk'[v] = wk[v] /\ Current(v)
         \/ v = w /\ wk'[v] = x /\ x.pc = "start"
         \/ v = w /\ wk'[v] = x /\ Current(v) /\ (run.status \in Active /\ run'.status \in Active => Heeds(x)')
<1>1. wk'[w] = x /\ (v # w => wk'[v] = wk[v]) BY DEF Outcome, Sound, Ticks
<1>2. v # 0 /\ w # 0 BY Constants
<1>3. CASE Claim(w) /\ x.pc = "start"
  <2>1. job'.token = w BY <1>3 DEF Claim, Claimed, Sound, Job
  <2> QED BY <1>1, <1>3, <2>1 DEF Current
<1>4. CASE x.pc \in {"idle", "drain"} /\ (job' = job \/ EnqueueDrained(w) \/ Ack(w))
  <2>1. v # w BY <1>1, <1>4 DEF Current, Working
  <2>2. CASE EnqueueDrained(w)
    <3>1. Enqueue(0) BY <2>2 DEF EnqueueDrained
    <3> QED BY <1>1, <2>1, <3>1, EnqueueMoves DEF Current, Working
  <2>3. CASE Ack(w) BY <1>1, <1>2, <2>1, <2>3, AckMoves DEF Current, Working
  <2>4. CASE job' = job BY <1>1, <2>1, <2>4 DEF Current, Working
  <2> QED BY <1>4, <2>2, <2>3, <2>4
<1>5. CASE /\ Working(w) /\ SameRow
           /\ x.lease.token = wk[w].lease.token /\ x.lease.version = wk[w].lease.version
           /\ Current(w) /\ run.status \in Active /\ run'.status \in Active => Heeds(x)'
  BY <1>1, <1>5 DEF Current, Working, SameRow
<1> QED BY <1>3, <1>4, <1>5 DEF Outcome

(* Every step keeps the parts of the invariant. *)
LEMMA LeasedWorks ==
  ASSUME Typed, Sound, Leased, NEW w \in Workers, NEW x, Outcome(w, x)
  PROVE  Leased'
<1>1. wk'[w] = x /\ \A v \in Workers : v # w => wk'[v] = wk[v] BY DEF Outcome, Sound, Ticks
<1>2. w # 0 /\ (\A v \in Workers : v # 0) /\ job.version \in Nat BY Constants DEF Sound, Job
<1>3. CASE Claim(w) /\ x.pc = "start" /\ x.lease = LeaseOn(job')
  <2>1. job'.token = w /\ job'.version = job.version BY <1>3 DEF Claim, Claimed, Sound, Job
  <2>2. x.lease.token = w /\ x.lease.version = job'.version BY <1>3, <2>1 DEF LeaseOn
  <2> QED BY <1>1, <1>2, <2>1, <2>2 DEF Leased, Working
<1>4. CASE x.pc \in {"idle", "drain"} /\ (job' = job \/ EnqueueDrained(w) \/ Ack(w))
  <2>1. CASE EnqueueDrained(w)
    <3>1. Enqueue(0) BY <2>1 DEF EnqueueDrained
    <3> QED BY <1>1, <1>4, <3>1, EnqueueMoves DEF Leased, Working
  <2>2. CASE Ack(w) BY <1>1, <1>2, <1>4, <2>2, AckMoves DEF Leased, Working
  <2>3. CASE job' = job BY <1>1, <1>4, <2>3 DEF Leased, Working
  <2> QED BY <1>4, <2>1, <2>2, <2>3
<1>5. CASE /\ Working(w) /\ SameRow
           /\ x.lease.token = wk[w].lease.token /\ x.lease.version = wk[w].lease.version
  BY <1>1, <1>5 DEF Leased, Working, SameRow
<1> QED BY <1>3, <1>4, <1>5 DEF Outcome

LEMMA AttentiveWorks ==
  ASSUME Compatible, WaitsFirst, Faithful, Attentive, NEW w \in Workers, Steps(w)
  PROVE  Attentive'
<1> USE DEF Faithful
<1>1. PICK x : Outcome(w, x) BY AnyOutcome
<1>2. /\ wk' = [wk EXCEPT ![w] = x] /\ x.out # "awaiting_child" /\ wk'[w] = x
      /\ \A v \in Workers : v # w => wk'[v] = wk[v]
  BY <1>1 DEF Outcome, Sound, Ticks
<1>3. [Next]_vars /\ deploy' = deploy /\ posted' = posted /\ inbox' \subseteq inbox
  <2>1. [Next]_vars BY DEF Next, Steps, Dies
  <2> QED BY <2>1, WorkerTables
<1>4. Leased' BY <1>1, LeasedWorks DEF Attentive
<1>5. Childless' BY <1>2, StatusMoves DEF Attentive, Childless
<1>6. caller' = caller
  BY DEF Steps, Work, StepEnds, DrainTimer, Claim, EnqueueDrained, StartRenewed, StartTooLate, Load,
       MarkRunning, Replay, Drift, RunStep, StepThrows, Pin, TakeSignal, RejectSignal, AwaitSignal, TimeOut,
       Suspend, Finish, Ack, RunGone, Renew, Crash, others, stored
<1>7. ASSUME run'.status \in Active
      PROVE  /\ \A v \in Workers : Current(v)' => Heeds(wk[v])'
             /\ ~job'.queued => (AtRest \/ Untouched)'
  <2>1. run.status \in Active /\ run # NoRun /\ run' # NoRun
    <3>1. "absent" \notin Active BY DEF Active
    <3> QED BY <1>7, <3>1, StatusMoves DEF NoRun, Attentive
  <2>2. /\ \A k : LoggedAs(k) \subseteq LoggedAs(k)'
        /\ PastWaits => PastWaits'
        /\ AtRest => AtRest'
    BY <1>3, <2>1, RestKept
  <2>3. ASSUME NEW v \in Workers, Current(v)' PROVE Heeds(wk[v])'
    <3>1. CASE v # w /\ wk'[v] = wk[v] /\ Current(v)
      <4> PICK y : y = wk[v] OBVIOUS
      <4>1. Heeds(y) BY <2>1, <3>1 DEF Attentive, Watched
      <4>2. Len(y.seen) \in Nat /\ Len(y.got) \in Nat /\ Readable(log)
        <5>1. y.got \in Seq(Nat) /\ Readable(y.seen) /\ Readable(log) BY DEF Typed, Fits
        <5> QED BY <5>1, LenProperties, ReadableFacts
      <4>3. Complete(y) => Complete(y)' BY <1>3, <2>2, <4>2, StillComplete
      <4>4. Heeds(y)' BY <2>2, <4>1, <4>3 DEF Heeds
      <4> QED BY <3>1, <4>4 DEF Heeds, Complete, Passed
    <3>2. CASE v = w /\ wk'[v] = x /\ x.pc = "start"
      <4>1. Heeds(x)' BY <3>2 DEF Heeds, Reading
      <4> QED BY <3>2, <4>1 DEF Heeds, Complete, Passed
    <3>3. CASE v = w /\ wk'[v] = x /\ Heeds(x)' BY <3>3 DEF Heeds, Complete, Passed
    <3> QED BY <1>1, <1>7, <2>1, <2>3, <3>1, <3>2, <3>3, CurrentKept DEF Attentive
  <2>4. ASSUME ~job'.queued PROVE AtRest' \/ Untouched'
    <3>2. CASE ~job.queued
      <4>1. AtRest \/ Untouched BY <2>1, <3>2 DEF Attentive, Watched
      <4>2. CASE Untouched
        <5>1. ~Working(w) /\ run' = run BY <4>2, RowLeftAlone DEF Untouched
        <5>2. ~Claim(w) BY <3>2 DEF Claim, Claimable
        <5>3. x.pc \in {"idle", "drain"} BY <1>1, <5>1, <5>2 DEF Outcome
        <5> QED BY <1>2, <1>3, <4>2, <5>1, <5>3 DEF Untouched, Working
      <4> QED BY <2>2, <4>1, <4>2
    <3>3. CASE job.queued
      <4>1. ~Claim(w) /\ ~SameRow /\ job' # job
        <5>1. Claim(w) => job'.queued = job.queued BY DEF Claim, Claimed, Sound, Job
        <5> QED BY <2>4, <3>3, <5>1 DEF SameRow
      <4>2. ~EnqueueDrained(w)
        <5>1. EnqueueDrained(w) => Enqueue(0) BY DEF EnqueueDrained
        <5> QED BY <2>4, <5>1, EnqueueMoves DEF Attentive
      <4>3. Ack(w) BY <1>1, <4>1, <4>2 DEF Outcome
      <4>4. Current(w) /\ wk[w].pc = "ack" BY <2>4, <3>3, <4>1, <4>3, AckMoves DEF Attentive, Ack
      <4>5. AtRest BY <2>1, <4>4 DEF Attentive, Watched, Heeds
      <4> QED BY <2>2, <4>5
    <3> QED BY <3>2, <3>3 DEF Sound, Job
  <2> QED BY <2>3, <2>4
<1>8. Watched' BY <1>7 DEF Watched
<1> QED BY <1>3, <1>4, <1>5, <1>6, <1>8 DEF Attentive

LEMMA AttentiveTick ==
  ASSUME Compatible, WaitsFirst, Faithful, Attentive, Tick
  PROVE  Attentive'
<1> USE DEF Faithful
<1>1. /\ deploy' = deploy /\ posted' = posted /\ inbox' = inbox /\ run' = run /\ caller' = caller
      /\ job'.queued = job.queued /\ job'.token = job.token /\ job'.version = job.version
  BY DEF Tick, others, Sound, Job
<1>2. \A w \in Workers :
        /\ wk'[w].pc = wk[w].pc /\ wk'[w].inbox = wk[w].inbox /\ wk'[w].out = wk[w].out
        /\ wk'[w].attempt = wk[w].attempt /\ wk'[w].lease.token = wk[w].lease.token
        /\ wk'[w].lease.version = wk[w].lease.version
        /\ Len(wk'[w].seen) = Len(wk[w].seen) /\ Len(wk'[w].got) = Len(wk[w].got)
  BY TicksAged
<1>3. Childless' /\ Leased' BY <1>1, <1>2 DEF Attentive, Childless, Leased, Working
<1>4. ASSUME run.status \in Active
      PROVE  /\ \A v \in Workers : Current(v)' => Heeds(wk[v])'
             /\ ~job.queued => (AtRest \/ Untouched)'
  <2>1. run # NoRun BY <1>4 DEF NoRun, Active
  <2>2. /\ \A k : LoggedAs(k) \subseteq LoggedAs(k)'
        /\ PastWaits => PastWaits'
        /\ AtRest => AtRest'
    BY <1>1, <2>1, RestKept DEF Next
  <2>3. ASSUME NEW v \in Workers, Current(v)' PROVE Heeds(wk[v])'
    <3> PICK x : x = wk[v] OBVIOUS
    <3> PICK y : y = wk'[v] OBVIOUS
    <3>1. Current(v) BY <1>1, <1>2, <2>3 DEF Current, Working
    <3>2. Heeds(x) BY <1>4, <3>1 DEF Attentive, Watched
    <3>3. Len(x.seen) \in Nat /\ Len(x.got) \in Nat /\ Readable(log)
      <4>1. x.got \in Seq(Nat) /\ Readable(x.seen) /\ Readable(log) BY DEF Typed, Fits
      <4> QED BY <4>1, LenProperties, ReadableFacts
    <3>4. Complete(x) => Complete(y)' BY <1>1, <1>2, <2>2, <3>3, StillComplete
    <3>5. Heeds(y)' BY <1>2, <2>2, <3>2, <3>4 DEF Heeds
    <3> QED BY <3>5 DEF Heeds, Complete, Passed
  <2>4. Untouched => Untouched' BY <1>1, <1>2 DEF Untouched, Working
  <2> QED BY <1>4, <2>2, <2>3, <2>4 DEF Attentive, Watched
<1>5. Watched' BY <1>1, <1>4 DEF Watched
<1> QED BY <1>1, <1>3, <1>5 DEF Attentive

(* Whoever enqueues the run leaves its row with no current claim, whatever else it writes. *)
LEMMA AttentiveEnqueued ==
  ASSUME Typed, Sound, Attentive, NEW delay, Enqueue(delay), wk' = wk, run'.status # "awaiting_child",
         caller' = "new" => inbox' = {}
  PROVE  Attentive'
<1>1. /\ job'.queued /\ job'.token = job.token
      /\ \A w \in Workers : Working(w) /\ job.token = w =>
           wk[w].lease.version <= job'.version /\ wk[w].lease.version # job'.version
  BY EnqueueMoves DEF Attentive
<1>2. Leased' /\ Childless' BY <1>1 DEF Attentive, Leased, Childless, Working
<1>3. \A w \in Workers : ~Current(w)' BY <1>1 DEF Current, Working
<1>4. Watched' BY <1>1, <1>3 DEF Watched
<1> QED BY <1>2, <1>4 DEF Attentive

LEMMA AttentiveCalled ==
  ASSUME Typed, Sound, Attentive,
         \/ Callers \/ SubmitEnqueue \/ ReconcileScan \/ ReconcileEnqueue \/ SubmitDies \/ ReconcileDies
         \/ UNCHANGED vars
  PROVE  Attentive'
<1>1. Row /\ run.status \in Active \cup Terminal \cup {"absent"} /\ run.status # "awaiting_child"
  BY DEF Sound, Row, RunRow, Attentive, Childless
<1>2. Fresh.status = "pending" /\ NoRun.status = "absent" BY DEF Fresh, NoRun
<1>3. CASE SubmitStart
  <2>1. /\ run' = Fresh /\ caller' = "created" /\ inbox' = {} /\ job' = job /\ wk' = wk
        /\ \A w \in Workers : wk[w].pc = "idle"
    BY <1>3 DEF SubmitStart, Sound, Unborn, Attentive
  <2>2. Untouched' /\ \A w \in Workers : ~Current(w)' BY <1>2, <2>1 DEF Untouched, Current, Working
  <2>3. Leased' /\ Childless' BY <1>2, <2>1 DEF Attentive, Leased, Childless, Working
  <2> QED BY <2>1, <2>2, <2>3 DEF Attentive, Watched
<1>4. CASE Purge
  <2>1. run' = NoRun /\ inbox' = {} /\ job' = NoJob /\ wk' = wk BY <1>4 DEF Purge
  <2>2. NoJob.token = 0 /\ \A w \in Workers : w # 0 BY Constants DEF NoJob
  <2>3. Leased' /\ Childless' BY <1>2, <2>1, <2>2 DEF Attentive, Leased, Childless, Working
  <2>4. run'.status \notin Active BY <1>2, <2>1 DEF Active
  <2> QED BY <2>1, <2>3, <2>4 DEF Attentive, Watched
<1>5. CASE Cancel
  <2>1. /\ run.status \notin Terminal /\ run' = Terminated(run, "canceled")
        /\ inbox' = inbox /\ job' = job /\ wk' = wk /\ caller' = caller
    BY <1>5 DEF Cancel
  <2>2. run'.status = "canceled" BY <1>1, <2>1 DEF Terminated, Row, RunRow
  <2>3. run'.status \notin Active /\ run'.status # "awaiting_child" BY <2>2 DEF Active
  <2> QED BY <2>1, <2>3 DEF Attentive, Watched, Childless, Leased, Working
<1>6. CASE Retry \/ SubmitEnqueue \/ ReconcileEnqueue \/ \E k \in Signals : PostSignal(k)
  <2>1. /\ wk' = wk /\ run' \in {run, Fresh} /\ \E delay : Enqueue(delay)
        /\ caller' = "new" => caller = "new" /\ inbox' = inbox
    BY <1>6 DEF Retry, SubmitEnqueue, ReconcileEnqueue, PostSignal
  <2> QED BY <1>1, <1>2, <2>1, AttentiveEnqueued DEF Attentive
<1>7. CASE SubmitDies \/ ReconcileScan \/ ReconcileDies \/ UNCHANGED vars
  <2>1. /\ wk' = wk /\ run' = run /\ job' = job /\ inbox' = inbox /\ log' = log /\ posted' = posted
        /\ deploy' = deploy /\ (caller' = "new" => caller = "new")
    BY <1>7 DEF SubmitDies, ReconcileScan, ReconcileDies, vars, stored
  <2>2. /\ Posted' = Posted /\ (\A k : LoggedAs(k)' = LoggedAs(k))
        /\ (AtRest' <=> AtRest) /\ (PastWaits' <=> PastWaits)
        /\ (Untouched' <=> Untouched) /\ \A w \in Workers : Current(w)' <=> Current(w)
    BY <2>1 DEF Posted, LoggedAs, AtRest, PastWaits, NoneFrom, Unheard, StandsAt, Untouched, Current, Working
  <2>3. \A w \in Workers : Heeds(wk[w])' <=> Heeds(wk[w]) BY <2>1, <2>2 DEF Heeds, Complete, Passed
  <2>4. Watched' BY <2>1, <2>2, <2>3 DEF Attentive, Watched
  <2> QED BY <2>1, <2>4 DEF Attentive, Childless, Leased, Working
<1> QED BY <1>3, <1>4, <1>5, <1>6, <1>7 DEF Callers

LEMMA AttentiveStep ==
  ASSUME Compatible, WaitsFirst
  PROVE  Attentive /\ Faithful /\ [Next]_vars => Attentive'
<1> SUFFICES ASSUME Attentive, Faithful, [Next]_vars PROVE Attentive'
  OBVIOUS
<1>1. ASSUME NEW w \in Workers, Steps(w) PROVE Attentive' BY <1>1, AttentiveWorks
<1> QED BY <1>1, AttentiveTick, AttentiveCalled DEF Next, Dies, Steps, Faithful

LEMMA AttentiveInductive == ASSUME Compatible, WaitsFirst PROVE Spec => [](Faithful /\ Attentive)
<1>1. LastWait BY DEF LastWait, WaitsFirst, Waiting
<1>2. Init => InTurn /\ Mail /\ Attentive
  <2> SUFFICES ASSUME Init PROVE InTurn /\ Mail /\ Attentive
    OBVIOUS
  <2>1. log = <<>> /\ posted = <<>> /\ run = NoRun /\ inbox = {} /\ \A w \in Workers : wk[w] = Idle BY DEF Init
  <2>2. Idle.pc = "idle" /\ Idle.out = "none" BY DEF Idle
  <2>3. run.status \notin Active /\ run.status # "awaiting_child" BY <2>1 DEF NoRun, Active
  <2>4. Attentive BY <2>1, <2>2, <2>3 DEF Attentive, Childless, Leased, Watched, Working
  <2> QED BY <2>1, <2>4, InTurnEmpty, MailEmpty
<1>3. InTurn /\ Mail /\ History /\ Typed /\ Sound /\ [Next]_vars => InTurn' /\ Mail' BY <1>1, InTurnStep
<1>4. Attentive /\ Faithful /\ [Next]_vars => Attentive' BY AttentiveStep
<1>5. Faithful <=> Typed /\ Sound /\ History /\ Mail /\ InTurn BY DEF Faithful
<1> QED BY <1>2, <1>3, <1>4, <1>5, OneHistory, TypedInductive, PTL DEF Spec

(* A live run never stands at a wait with the signal it waits for delivered and no row in    *)
(* the queue to dispatch it.                                                                 *)
THEOREM SignalsWake == ASSUME Compatible, WaitsFirst PROVE Spec => []SignalWakes
<1>1. Faithful /\ Attentive => SignalWakes
  <2> SUFFICES ASSUME Faithful, Attentive, NEW k \in inbox, run.status \in Active, ~job.queued,
                      \A w \in Workers : /\ StandsAt(w, {"signal", "decide"})
                                         /\ deploy[w].calls[Len(log) + 1].name = Name[k]
               PROVE  FALSE
    BY DEF SignalWakes
  <2>1. AtRest \/ Untouched BY DEF Attentive, Watched
  <2>2. ~Untouched BY DEF Untouched
  <2>3. ~Unheard BY DEF Unheard
  <2>4. ~PastWaits
    <3> SUFFICES ASSUME NEW w \in Workers,
                        \A i \in DOMAIN deploy[w].calls : i > Len(log) => deploy[w].calls[i].op \notin Waiting
                 PROVE  FALSE
      BY DEF PastWaits, NoneFrom
    <3>1. Len(log) \in Nat /\ deploy \in Deployments BY ReadableFacts DEF Faithful, Typed
    <3>2. Len(log) + 1 \in DOMAIN deploy[w].calls BY <3>1, Calls DEF StandsAt
    <3> QED BY <3>1, <3>2 DEF StandsAt, Waiting
  <2> QED BY <2>1, <2>2, <2>3, <2>4 DEF AtRest
<1> QED BY <1>1, AttentiveInductive, PTL

(* Where no flow sets a deadline, a live run always has somebody to go on with it, whoever   *)
(* died: its row in the queue, the reconciler, or the caller whose signal it waits for.      *)
THEOREM RunsAreRecoverable == ASSUME Compatible, Plain PROVE Spec => []Recoverable
<1>1. WaitsFirst BY DEF WaitsFirst, Plain
<1>2. Faithful /\ Attentive => Recoverable
  <2> SUFFICES ASSUME Faithful, Attentive, run.status \in Active, ~job.queued, run.status \notin Reconcilable
               PROVE  AwaitsCaller
    BY DEF Recoverable
  <2>1. run.status = "awaiting_signal" BY DEF Active, Reconcilable, Attentive, Childless
  <2>2. AtRest BY <2>1 DEF Attentive, Watched, Untouched
  <2>3. PICK w \in Workers : StandsAt(w, Waiting) BY <2>2 DEF AtRest, PastWaits, NoneFrom, Unheard
  <2>4. Len(log) \in Nat /\ deploy \in Deployments BY ReadableFacts DEF Faithful, Typed
  <2>5. Len(log) + 1 \in DOMAIN deploy[w].calls BY <2>3, <2>4, Calls DEF StandsAt
  <2>6. deploy[w].calls[Len(log) + 1].op = "signal" BY <2>3, <2>4, <2>5 DEF Plain, StandsAt, Waiting
  <2>7. StandsAt(w, {"signal"}) BY <2>3, <2>6 DEF StandsAt
  <2> QED BY <2>1, <2>7 DEF AwaitsCaller
<1> QED BY <1>1, <1>2, AttentiveInductive, PTL

-----------------------------------------------------------------------------
(* Where one worker at a time works on the run, and no wait is bounded, what is written when *)
(* a run is parked at a wait is still so when the run row says it.                           *)

(* The statuses a run is suspended with but for a wait. *)
Pauses == {"parked", "sleeping", "retrying"}

(* What a step can make of a tick: who reads a body has marked the run as running, and who   *)
(* parks it as awaiting a signal has found none.                                             *)
LEMMA OutMoves ==
  ASSUME Ticks, NEW w \in Workers, Steps(w)
  PROVE  /\ wk'[w].out \in {wk[w].out, "none", "failed", "awaiting_signal"} \cup Pauses
         /\ wk'[w].pc \in {"body", "renew"} => wk[w].pc \in {"body", "renew"} \/ MarkRunning(w)
         /\ wk'[w].pc = "suspend" => wk'[w].out \in Pauses \/ AwaitSignal(w) \/ TimeOut(w)
<1> DEFINE Goal(y) ==
             /\ y.out \in {wk[w].out, "none", "failed", "awaiting_signal"} \cup Pauses
             /\ y.pc \in {"body", "renew"} => wk[w].pc \in {"body", "renew"} \/ MarkRunning(w)
             /\ y.pc = "suspend" => y.out \in Pauses \/ AwaitSignal(w) \/ TimeOut(w)
<1>1. IsTick(wk[w]) /\ \A y : wk' = [wk EXCEPT ![w] = y] => wk'[w] = y BY DEF Ticks
<1>2. Goal(Idle) /\ Goal(Acking(wk[w])) /\ Goal(Finishing(wk[w], "failed")) /\ Goal(ParkForRedeploy(wk[w]))
  BY DEF Idle, Acking, Finishing, ParkForRedeploy, Suspending, Pauses
<1>3. ASSUME NEW s \in Pauses \cup {"awaiting_signal"}, NEW t,
             s \in Pauses \/ AwaitSignal(w) \/ TimeOut(w)
      PROVE  Goal(Suspending(wk[w], s, t))
  BY <1>3 DEF Idle, Suspending, Pauses
<1>4. ASSUME NEW y, y.pc \notin {"body", "renew", "suspend"} \/ (y.pc = wk[w].pc /\ wk[w].pc \in {"body", "renew"}),
             y.out = wk[w].out
      PROVE  Goal(y)
  BY <1>4
<1>5. ASSUME NEW val, wk[w].pc = "body"
      PROVE  /\ Returned(wk[w], val).pc = "body" /\ Returned(wk[w], val).out = wk[w].out
             /\ IsTick(Returned(wk[w], val))
  BY <1>1, <1>5 DEF IsTick, Returned
<1> HIDE DEF Goal
<1>6. CASE EnqueueDrained(w) \/ StartTooLate(w) \/ Ack(w) \/ RunGone(w) \/ Crash(w)
  BY <1>1, <1>2, <1>6 DEF Goal, EnqueueDrained, StartTooLate, Ack, RunGone, Crash
<1>7. CASE DrainTimer(w)
  <2>1. PICK y : y = [wk[w] EXCEPT !.pc = "drain"] OBVIOUS
  <2>2. wk'[w] = y /\ y.pc = "drain" /\ y.out = wk[w].out BY <1>1, <1>7, <2>1 DEF DrainTimer, IsTick
  <2> QED BY <1>4, <2>2 DEF Goal
<1>8. CASE Claim(w)
  <2>1. PICK y : y = [wk[w] EXCEPT !.pc = "start", !.lease = LeaseOn(job')] OBVIOUS
  <2>2. wk' = [wk EXCEPT ![w] = y] BY <1>8, <2>1 DEF Claim
  <2>3. y.pc = "start" /\ y.out = wk[w].out BY <1>1, <2>1 DEF IsTick
  <2> QED BY <1>1, <1>4, <2>2, <2>3 DEF Goal
<1>9. CASE StartRenewed(w)
  <2>1. PICK y : y = [wk[w] EXCEPT !.pc = "load", !.lease = Extended(@, LeaseMs)] OBVIOUS
  <2>2. wk' = [wk EXCEPT ![w] = y] BY <1>9, <2>1 DEF StartRenewed
  <2>3. y.pc = "load" /\ y.out = wk[w].out BY <1>1, <2>1 DEF IsTick
  <2> QED BY <1>1, <1>4, <2>2, <2>3 DEF Goal
<1>10. CASE Load(w)
  <2>1. PICK y : y = [wk[w] EXCEPT !.pc = "mark", !.seen = log, !.inbox = inbox] OBVIOUS
  <2>2. y.pc = "mark" /\ y.out = wk[w].out BY <1>1, <2>1 DEF IsTick
  <2>3. wk'[w] \in {y, Acking(wk[w]), ParkForRedeploy(wk[w])} BY <1>1, <1>10, <2>1 DEF Load
  <2> QED BY <1>2, <1>4, <2>2, <2>3 DEF Goal
<1>11. CASE MarkRunning(w)
  <2>1. PICK y : y = [wk[w] EXCEPT !.pc = "body", !.attempt = run'.attempts] OBVIOUS
  <2>2. y.pc = "body" /\ y.out = wk[w].out BY <1>1, <2>1 DEF IsTick
  <2>3. wk'[w] \in {y, Finishing(wk[w], "failed")} BY <1>1, <1>11, <2>1 DEF MarkRunning
  <2> QED BY <1>2, <1>11, <2>2, <2>3 DEF Goal
<1>12. CASE Renew(w)
  <2> PICK x : x = [wk[w] EXCEPT !.pc = "body"] OBVIOUS
  <2> PICK y : y = [wk[w] EXCEPT !.pc = "body", !.lease = Extended(@, LeaseMs)] OBVIOUS
  <2>1. wk'[w] \in {x, y} /\ wk[w].pc \in {"body", "renew"} BY <1>1, <1>12 DEF Renew, Renewed, Calling, InBody
  <2>2. x.pc = "body" /\ x.out = wk[w].out /\ y.pc = "body" /\ y.out = wk[w].out BY <1>1 DEF IsTick
  <2> QED BY <2>1, <2>2 DEF Goal
<1>13. CASE Suspend(w) \/ Finish(w) \/ Drift(w) \/ RejectSignal(w) \/ \E permanent \in BOOLEAN : StepThrows(w, permanent)
  <2>1. PICK t : t = {BackoffMs} OBVIOUS
  <2>2. wk'[w] \in {Acking(wk[w]), Finishing(wk[w], "failed"), ParkForRedeploy(wk[w]), Suspending(wk[w], "retrying", t)}
    BY <1>1, <1>13, <2>1 DEF Suspend, Finish, Drift, RejectSignal, StepThrows
  <2> QED BY <1>2, <1>3, <2>2 DEF Goal, Pauses
<1>14. CASE AwaitSignal(w)
  <2>1. \E t : wk'[w] = Suspending(wk[w], "awaiting_signal", t) BY <1>1, <1>14 DEF AwaitSignal
  <2> QED BY <1>3, <1>14, <2>1 DEF Goal
<1>15. ASSUME InBody(w), \/ \E val : wk'[w] = Returned(wk[w], val)
                        \/ \E t : wk'[w] = Suspending(wk[w], "sleeping", t)
       PROVE  Goal(wk'[w])
  <2>1. ASSUME NEW val, wk'[w] = Returned(wk[w], val) PROVE Goal(wk'[w])
    <3>1. PICK y : y = Returned(wk[w], val) OBVIOUS
    <3> QED BY <1>4, <1>5, <1>15, <2>1, <3>1 DEF InBody
  <2>2. ASSUME NEW t, wk'[w] = Suspending(wk[w], "sleeping", t) PROVE Goal(wk'[w])
    <3>1. "sleeping" \in Pauses BY DEF Pauses
    <3> QED BY <1>3, <2>2, <3>1
  <2> QED BY <1>15, <2>1, <2>2
<1>16. CASE Replay(w) \/ Pin(w) BY <1>1, <1>15, <1>16 DEF Goal, Replay, Replaying, Pin, Calling, SleptUntil
<1>17. CASE RunStep(w)
  <2> PICK x : x = Returned(wk[w], CheckpointAnswer(w, w)) OBVIOUS
  <2> PICK y : y = [x EXCEPT !.pc = "renew"] OBVIOUS
  <2>1. wk'[w] = y /\ wk[w].pc = "body" BY <1>1, <1>17 DEF RunStep, Calling, InBody
  <2>2. y.pc = "renew" /\ y.out = wk[w].out BY <1>5, <2>1 DEF IsTick
  <2> QED BY <2>1, <2>2 DEF Goal
<1>18. CASE TakeSignal(w)
  <2> PICK k : k = First(Pending(w)) OBVIOUS
  <2> PICK x : x = Returned(wk[w], CheckpointAnswer(w, k)) OBVIOUS
  <2> PICK y : y = [x EXCEPT !.inbox = Without(wk[w].inbox, k)] OBVIOUS
  <2>1. wk'[w] = y /\ wk[w].pc = "body" BY <1>1, <1>18 DEF TakeSignal, Calling, InBody
  <2>2. y.pc = "body" /\ y.out = wk[w].out BY <1>5, <2>1 DEF IsTick
  <2> QED BY <2>1, <2>2 DEF Goal
<1>19. CASE TimeOut(w)
  <2>1. CASE wk' = [wk EXCEPT ![w] = Suspending(wk[w], "awaiting_signal", {0})] BY <1>1, <1>3, <1>19, <2>1 DEF Goal
  <2>2. CASE wk' = [wk EXCEPT ![w] = Returned(wk[w], CheckpointAnswer(w, 0))]
    BY <1>1, <1>15, <1>19, <2>2 DEF Goal, TimeOut, Calling
  <2> QED BY <1>19, <2>1, <2>2 DEF TimeOut
<1> QED
  BY <1>6, <1>7, <1>8, <1>9, <1>10, <1>11, <1>12, <1>13, <1>14, <1>16, <1>17, <1>18, <1>19 DEF Steps, Work, StepEnds

-----------------------------------------------------------------------------

(* No flow bounds its waits for a signal. *)
Unbounded == \A d \in Deployments : \A w \in Workers : \A i \in DOMAIN d[w].calls : d[w].calls[i].op # "decide"

(* A run that awaits a signal, or is to be parked so, stands at the wait, and nobody is in   *)
(* its body.                                                                                 *)
Parked ==
  /\ run.status = "awaiting_signal" =>
       AwaitsCaller /\ \A w \in Workers : wk[w].pc \notin {"body", "renew"}
  /\ run # NoRun => \A w \in Workers :
       wk[w].pc = "suspend" /\ wk[w].out = "awaiting_signal" => StandsAt(w, {"signal"})

(* Where a body stands, and the call it stands at. *)
LEMMA CallAt ==
  ASSUME Typed, NEW w \in Workers, InBody(w)
  PROVE  /\ Cursor(w) \in DOMAIN deploy[w].calls /\ NextCall(w) = deploy[w].calls[Cursor(w)]
         /\ Cursor(w) \in Nat \ {0} /\ Cursor(w) <= Len(deploy[w].calls)
<1>1. wk[w].got \in Seq(Nat) /\ deploy \in Deployments BY DEF Typed, Fits
<1>2. Len(wk[w].got) \in Nat BY <1>1, LenProperties
<1>3. Len(deploy[w].calls) \in Nat /\ DOMAIN deploy[w].calls = 1..Len(deploy[w].calls) BY <1>1, Calls
<1> QED BY <1>2, <1>3 DEF InBody, Cursor, NextCall

LEMMA ParkedWorks ==
  ASSUME Unbounded, Alone, Typed, Sound, Parked, Childless, NEW w \in Workers, Steps(w), run # NoRun
  PROVE  Parked'
<1>1. /\ deploy' = deploy /\ deploy \in Deployments /\ Ticks /\ Len(log) \in Nat
      /\ \A v \in Workers : v # w => wk'[v] = wk[v]
  <2>1. \A v \in Workers : v # w => wk'[v] = wk[v] BY WorkerGoes, Moved DEF Sound, Goes
  <2>2. Len(log) \in Nat BY ReadableFacts DEF Typed
  <2> QED BY <2>1, <2>2, WorkerTables DEF Typed, Sound
<1>2. ~TimeOut(w)
  <2> SUFFICES ASSUME TimeOut(w) PROVE FALSE
    OBVIOUS
  <2>1. Cursor(w) \in DOMAIN deploy[w].calls /\ deploy[w].calls[Cursor(w)].op = "decide"
    BY CallAt DEF TimeOut, Calling
  <2> QED BY <1>1, <2>1 DEF Unbounded
<1>3. CASE log' = log
  <2>1. \A v \in Workers : StandsAt(v, {"signal"})' <=> StandsAt(v, {"signal"}) BY <1>1, <1>3 DEF StandsAt
  <2>2. AwaitSignal(w) => StandsAt(w, {"signal"})
    <3> SUFFICES ASSUME AwaitSignal(w) PROVE StandsAt(w, {"signal"})
      OBVIOUS
    <3>1. Calling(w, Ops) /\ Calling(w, Waiting) BY DEF AwaitSignal, Calling, Ops, Waiting
    <3>2. Cursor(w) = Len(log) + 1 BY <3>1, FirstToLog
    <3>3. Cursor(w) \in DOMAIN deploy[w].calls /\ NextCall(w) = deploy[w].calls[Cursor(w)]
      BY <3>1, CallAt DEF Calling
    <3>4. NextCall(w).op = "signal" BY <1>1, <3>1, <3>3 DEF Calling, Unbounded, Waiting
    <3>5. Cursor(w) <= Len(deploy[w].calls) BY <3>1 DEF Calling, InBody
    <3>6. Len(deploy[w].calls) \in Nat BY <1>1, Calls
    <3> QED BY <1>1, <3>2, <3>3, <3>4, <3>5, <3>6 DEF StandsAt
  <2>3. ASSUME NEW v \in Workers, wk'[v].pc = "suspend", wk'[v].out = "awaiting_signal" PROVE StandsAt(v, {"signal"})
    <3>1. CASE v # w BY <1>1, <2>3, <3>1 DEF Parked
    <3>2. CASE v = w BY <1>1, <1>2, <2>2, <2>3, <3>2, OutMoves DEF Pauses
    <3> QED BY <3>1, <3>2
  <2>4. ASSUME run'.status = "awaiting_signal"
        PROVE  /\ \E v \in Workers : StandsAt(v, {"signal"})
               /\ \A v \in Workers : wk'[v].pc \notin {"body", "renew"}
    <3>1. Row /\ "awaiting_signal" \notin Terminal BY DEF Sound, Terminal
    <3>2. ~MarkRunning(w)
      <4> SUFFICES ASSUME MarkRunning(w) PROVE FALSE
        OBVIOUS
      <4>1. run' = Counted(MarkedRunning(run)) /\ "running" \in Active BY DEF MarkRunning, Active
      <4>2. (run.status \in Terminal /\ run' = run) \/ run'.status = "running" BY <3>1, <4>1, Rows
      <4> QED BY <2>4, <3>1, <4>2
    <3>3. CASE run' = run BY <1>1, <2>4, <3>2, <3>3, OutMoves DEF Parked, AwaitsCaller
    <3>4. CASE Suspend(w)
      <4>1. wk[w].pc = "suspend" /\ run' = Suspended(run, wk[w].out) BY <3>4 DEF Suspend
      <4>2. wk[w].out = "awaiting_signal" BY <2>4, <3>1, <4>1 DEF Suspended
      <4>3. \A v \in Workers : v # w => ~Working(v) BY <4>1, OnlyOne DEF Working
      <4>4. \A v \in Workers : wk'[v].pc \notin {"body", "renew"}
        BY <1>1, <3>2, <4>1, <4>3, OutMoves DEF Working
      <4> QED BY <4>1, <4>2, <4>4 DEF Parked
    <3>5. CASE Finish(w)
      <4>1. PICK s \in Terminal : run' = Terminated(run, s) BY <3>5 DEF Finish, Sound, Ticks, IsTick, Terminal
      <4>2. run' = run BY <2>4, <3>1, <4>1, Rows
      <4> QED BY <3>3, <4>2
    <3>6. run' = run \/ MarkRunning(w) \/ Suspend(w) \/ Finish(w)
      BY DEF Steps, Work, StepEnds, DrainTimer, Claim, EnqueueDrained, StartRenewed, StartTooLate, Load,
           Replay, Drift, RunStep, StepThrows, Pin, TakeSignal, RejectSignal, AwaitSignal, TimeOut,
           Ack, RunGone, Renew, Crash, stored
    <3> QED BY <3>2, <3>3, <3>4, <3>5, <3>6
  <2> QED BY <2>1, <2>3, <2>4 DEF Parked, AwaitsCaller
<1>4. ASSUME NEW val, Lengthens(w, val), run' = run PROVE Parked'
  <2>1. wk[w].pc = "body" /\ Working(w) BY <1>4 DEF Lengthens, Calling, InBody, Working
  <2>2. \A v \in Workers : v # w => ~Working(v) BY <2>1, OnlyOne
  <2>3. Len(log') = Len(log) + 1 BY <1>4, GrownByOne
  <2>4. ~AwaitSignal(w)
    <3>1. AwaitSignal(w) => log' = log BY DEF AwaitSignal, stored
    <3> QED BY <1>1, <2>3, <3>1
  <2>5. wk'[w].pc = "suspend" => wk'[w].out \in Pauses BY <1>1, <1>2, <2>4, OutMoves
  <2>6. run.status # "awaiting_signal" BY <2>1 DEF Parked
  <2> QED BY <1>1, <1>4, <2>1, <2>2, <2>5, <2>6 DEF Parked, Working, Pauses
<1>5. Calling(w, Ops) => Cursor(w) <= Len(log) + 1 BY <1>1, FirstToLog
<1>6. RunStep(w) \/ Pin(w) \/ TakeSignal(w) \/ TimeOut(w) => run' = run BY DEF RunStep, Pin, TakeSignal, TimeOut
<1> QED BY <1>3, <1>4, <1>5, <1>6, WorkerLogs

LEMMA ParkedTick ==
  ASSUME Parked, Typed, Sound, Tick
  PROVE  Parked'
<1>1. deploy' = deploy /\ run' = run /\ log' = AgedLog(log) BY DEF Tick, others
<1>2. Len(log') = Len(log) BY <1>1, ReadableAged DEF Typed
<1>3. \A w \in Workers : wk'[w].pc = wk[w].pc /\ wk'[w].out = wk[w].out BY TicksAged
<1>4. \A w \in Workers : StandsAt(w, {"signal"})' <=> StandsAt(w, {"signal"}) BY <1>1, <1>2 DEF StandsAt
<1> QED BY <1>1, <1>3, <1>4 DEF Parked, AwaitsCaller

LEMMA ParkedCalled ==
  ASSUME Parked, Typed, Sound,
         \/ Callers \/ SubmitEnqueue \/ ReconcileScan \/ ReconcileEnqueue \/ SubmitDies \/ ReconcileDies
         \/ UNCHANGED vars
  PROVE  Parked'
<1>1. Row /\ Fresh.status = "pending" /\ NoRun.status = "absent" BY DEF Sound, Fresh, NoRun
<1>2. CASE SubmitStart
  <2>1. run' = Fresh /\ wk' = wk /\ \A w \in Workers : wk[w].pc = "idle"
    BY <1>2 DEF SubmitStart, Sound, Unborn
  <2> QED BY <1>1, <2>1 DEF Parked
<1>3. CASE Purge
  <2>1. run' = NoRun BY <1>3 DEF Purge
  <2> QED BY <1>1, <2>1 DEF Parked
<1>4. ASSUME log' = log, deploy' = deploy, wk' = wk,
             \/ run' = run
             \/ run # NoRun /\ run'.status # "awaiting_signal"
      PROVE  Parked'
  <2>1. \A w \in Workers : StandsAt(w, {"signal"})' <=> StandsAt(w, {"signal"}) BY <1>4 DEF StandsAt
  <2> QED BY <1>4, <2>1 DEF Parked, AwaitsCaller
<1>5. CASE Cancel
  <2>1. run # NoRun /\ run.status \notin Terminal /\ run' = Terminated(run, "canceled") BY <1>5 DEF Cancel
  <2>2. run'.status = "canceled" BY <1>1, <2>1 DEF Terminated, Row, RunRow
  <2> QED BY <1>4, <1>5, <2>1, <2>2 DEF Cancel
<1>6. CASE Retry
  <2>1. run # NoRun /\ run' = Fresh BY <1>1, <1>6 DEF Retry
  <2> QED BY <1>1, <1>4, <1>6, <2>1 DEF Retry
<1>7. CASE \/ SubmitEnqueue \/ ReconcileScan \/ ReconcileEnqueue \/ SubmitDies \/ ReconcileDies
           \/ UNCHANGED vars \/ \E k \in Signals : PostSignal(k)
  <2>1. log' = log /\ deploy' = deploy /\ wk' = wk /\ run' = run
    BY <1>7 DEF SubmitEnqueue, ReconcileScan, ReconcileEnqueue, SubmitDies, ReconcileDies, vars, PostSignal, stored
  <2> QED BY <1>4, <2>1
<1> QED BY <1>2, <1>3, <1>5, <1>6, <1>7 DEF Callers

(* Nothing in these flows waits for a child. *)
LEMMA ChildlessStep == Childless /\ Typed /\ Sound /\ [Next]_vars => Childless'
<1> SUFFICES ASSUME Childless, Typed, Sound, [Next]_vars PROVE Childless'
  OBVIOUS
<1>1. ASSUME NEW w \in Workers, Steps(w) PROVE Childless'
  <2>1. \A v \in Workers : v # w => wk'[v] = wk[v] BY <1>1, WorkerGoes, Moved DEF Sound, Goes
  <2>2. wk'[w].out # "awaiting_child" BY <1>1, OutMoves DEF Sound, Childless, Pauses
  <2> QED BY <1>1, <2>1, <2>2, StatusMoves DEF Childless
<1>2. CASE Tick
  <2>1. run' = run /\ \A w \in Workers : wk'[w].out = wk[w].out BY <1>2, TicksAged DEF Tick, others
  <2> QED BY <2>1 DEF Childless
<1>3. CASE \/ Callers \/ SubmitEnqueue \/ ReconcileScan \/ ReconcileEnqueue \/ SubmitDies \/ ReconcileDies
           \/ UNCHANGED vars
  <2>1. wk' = wk /\ run' \in {run, Fresh, NoRun, Terminated(run, "canceled")}
    BY <1>3 DEF Callers, SubmitStart, PostSignal, Cancel, Retry, Purge, SubmitEnqueue, ReconcileScan,
         ReconcileEnqueue, SubmitDies, ReconcileDies, vars, stored
  <2>2. /\ Fresh.status = "pending" /\ NoRun.status = "absent"
        /\ Terminated(run, "canceled").status \in {run.status, "canceled"}
    BY DEF Fresh, NoRun, Terminated, Sound, Row, RunRow
  <2> QED BY <2>1, <2>2 DEF Childless
<1> QED BY <1>1, <1>2, <1>3 DEF Next, Dies, Steps

LEMMA ParkedStep ==
  ASSUME Unbounded
  PROVE  Parked /\ Childless /\ Alone /\ Typed /\ Sound /\ [Next]_vars => Parked'
<1> SUFFICES ASSUME Parked, Childless, Alone, Typed, Sound, [Next]_vars PROVE Parked'
  OBVIOUS
<1>1. ASSUME NEW w \in Workers, Steps(w) PROVE Parked'
  <2>1. CASE run = NoRun
    <3>1. run' = NoRun BY <1>1, <2>1, WorkerKeepsRun
    <3>2. NoRun.status = "absent" BY DEF NoRun
    <3> QED BY <3>1, <3>2 DEF Parked
  <2> QED BY <1>1, <2>1, ParkedWorks
<1> QED BY <1>1, ParkedTick, ParkedCalled DEF Next, Dies, Steps

(* Where no lease runs out and no wait is bounded, neither sleeps, retries nor code that     *)
(* moved on leave a live run with nobody to go on with it: who parks it at a wait has        *)
(* reached that wait.                                                                        *)
THEOREM RecoverableInTime == ASSUME Timely, Unbounded PROVE Spec => []Recoverable
<1>1. Init => Parked /\ Childless
  <2> SUFFICES ASSUME Init PROVE Parked /\ Childless
    OBVIOUS
  <2>1. run = NoRun /\ \A w \in Workers : wk[w] = Idle BY DEF Init
  <2>2. NoRun.status = "absent" /\ Idle.out = "none" BY DEF NoRun, Idle
  <2> QED BY <2>1, <2>2 DEF Parked, Childless
<1>2. Parked /\ Childless /\ Alone /\ Typed /\ Sound /\ [Next]_vars => Parked' BY ParkedStep
<1>3. Childless /\ Typed /\ Sound /\ [Next]_vars => Childless' BY ChildlessStep
<1>4. Parked /\ Childless => Recoverable BY DEF Parked, Childless, Recoverable, Active, Reconcilable
<1> QED BY <1>1, <1>2, <1>3, <1>4, OneWorkerAtATime, TypedInductive, PTL DEF Spec
=============================================================================
