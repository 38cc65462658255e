----------------------------- MODULE RunEngine ------------------------------
(***************************************************************************)
(* One root run and everything that drives it: the workers that claim and  *)
(* execute it, the timer drain at the head of every poll, the reconciler,  *)
(* and the callers that submit, signal, cancel, retry and purge it.        *)
(*                                                                         *)
(* A worker's tick is cut at every await: a step of this model is what     *)
(* happens between two of them, so callers, other workers and crashes land *)
(* in between.  What a tick read before an await is kept in the worker's   *)
(* own record and used after it, stale or not.                             *)
(*                                                                         *)
(* Time is counted down: every stored instant is the distance to it, 0     *)
(* once it is reached, and Tick moves them all one nearer.  A worker's     *)
(* number serves as the token of its latest lease.                         *)
(***************************************************************************)
EXTENDS JobTable, RunTable

CONSTANTS Workers,       \* the worker processes, numbered from 1
          Deployments,   \* what code the workers may be running: worker -> deployment
          Signals,       \* the deliveries callers may make, each with its idempotency key
          Name,          \* the name a delivery is addressed to
          Invalid,       \* the deliveries whose payload fails the declared schema
          MaxAttempts,   \* RetryPolicy.maxAttempts
          LeaseMs, SleepMs, WaitMs, BackoffMs, RecheckMs, StartDelay,
          Timely,        \* TRUE: no lease runs out under the tick that holds it
          MaxVersion     \* bound of the job row's version

(* A call of a flow body takes one position of the log.  A timed signal wait is two *)
(* calls: "pin" records the deadline, "decide" the outcome.                         *)
Ops == {"step", "timed", "sleep", "signal", "pin", "decide"}

ASSUME EngineConstants ==
  /\ Workers \subseteq Nat \ {0}
  /\ Signals \subseteq Nat \ {0} /\ Invalid \subseteq Signals
  /\ \A d \in Deployments, w \in Workers :
       /\ d[w].known \in BOOLEAN /\ d[w].drift \in {"park", "fail"}
       /\ d[w].calls \in Seq([op : Ops, name : STRING])
       /\ \A i \in DOMAIN d[w].calls :
            /\ d[w].calls[i].op = "decide" => i > 1 /\ d[w].calls[i - 1].op = "pin"
            /\ d[w].calls[i].op = "pin" /\ i < Len(d[w].calls) => d[w].calls[i + 1].op = "decide"
  /\ {MaxAttempts, LeaseMs, SleepMs, WaitMs, BackoffMs, RecheckMs} \subseteq Nat \ {0}
  /\ StartDelay \in Nat /\ MaxVersion \in Nat \ {0} /\ Timely \in BOOLEAN

VARIABLES deploy,    \* worker -> [known, calls, drift]: whether its code has the flow, the
                     \* calls of the flow's body there, and its driftPolicy
          run,       \* the run row
          log,       \* its step log
          posted,    \* the idempotency keys postSignal has seen, as they were delivered
          inbox,     \* those of them that nobody has consumed
          job,       \* its row in the dispatch queue
          timer,     \* its pending deadline: {} or one instant
          wk,        \* worker -> what its tick holds in memory
          caller,    \* the submitting caller: "new", "created" or "over"
          sweep,     \* the reconciler: "idle", or "found" between its scan and its enqueue
          starts     \* history: executions of the live run since it last parked

stored == <<run, log, inbox, posted, job, timer>>
others == <<deploy, caller, sweep>>
vars == <<deploy, run, log, inbox, posted, job, timer, wk, caller, sweep, starts>>

Idle == [pc |-> "idle", lease |-> NoLease, attempt |-> 0, seen |-> <<>>, inbox |-> {},
         got |-> <<>>, out |-> "none", wake |-> {}]

Init ==
  /\ deploy \in Deployments
  /\ run = NoRun /\ log = <<>> /\ inbox = {} /\ posted = <<>>
  /\ job = NoJob /\ timer = {}
  /\ wk = [w \in Workers |-> Idle]
  /\ caller = "new" /\ sweep = "idle" /\ starts = 0

(* An enqueue of the run.  A version is only ever compared with those of the leases *)
(* in hand: at the bound of the model, one that no lease carries serves again.      *)
Enqueue(delay) ==
  \/ job.version < MaxVersion /\ job' = Enqueued(job, delay)
  \/ /\ job.version = MaxVersion /\ \A w \in Workers : wk[w].lease.version # MaxVersion
     /\ job' = [Enqueued(job, delay) EXCEPT !.version = MaxVersion]

-----------------------------------------------------------------------------
(* Callers *)

(* submit creates the run, and enqueues it in a second call. *)
SubmitStart ==
  /\ caller = "new"
  /\ run' = Fresh /\ caller' = "created"
  /\ UNCHANGED <<deploy, log, inbox, posted, job, timer, wk, sweep, starts>>

SubmitEnqueue ==
  /\ caller = "created"
  /\ Enqueue(StartDelay) /\ caller' = "over"
  /\ UNCHANGED <<deploy, run, log, inbox, posted, timer, wk, sweep, starts>>

SubmitDies ==
  /\ caller = "created" /\ caller' = "over"
  /\ UNCHANGED <<deploy, run, log, inbox, posted, job, timer, wk, sweep, starts>>

Posted == {posted[i] : i \in DOMAIN posted}

(* Delivery and wake are one write.  A key seen before delivers nothing; a run that *)
(* is terminal or purged is not looked at.                                          *)
PostSignal(k) ==
  /\ caller # "new" /\ k \notin Posted
  /\ inbox' = inbox \cup {k} /\ posted' = Append(posted, k)
  /\ Enqueue(0)
  /\ UNCHANGED <<deploy, run, log, timer, wk, caller, sweep, starts>>

(* cancelRun of a run without parent or children, and the bulk cancelRuns: the      *)
(* status and the timer go together.                                                *)
Cancel ==
  /\ run # NoRun /\ run.status \notin Terminal
  /\ run' = Terminated(run, "canceled") /\ timer' = {}
  /\ UNCHANGED <<deploy, log, inbox, posted, job, wk, caller, sweep, starts>>

(* retryRun: a failed run is pending again with its log, and is enqueued.           *)
Retry ==
  /\ run.status = "failed"
  /\ run' = Fresh /\ Enqueue(0) /\ starts' = 0
  /\ UNCHANGED <<deploy, log, inbox, posted, timer, wk, caller, sweep>>

(* deleteRuns: a terminal run goes with all that is stored about it. *)
Purge ==
  /\ run.status \in Terminal
  /\ run' = NoRun /\ log' = <<>> /\ inbox' = {} /\ posted' = <<>>
  /\ job' = NoJob /\ timer' = {}
  /\ UNCHANGED <<deploy, wk, caller, sweep, starts>>

-----------------------------------------------------------------------------
(* Timers and reconciliation *)

(* A poll drains due timers, consuming them, and then puts their runs on the queue. *)
DrainTimer(w) ==
  /\ wk[w].pc = "idle" /\ 0 \in timer
  /\ timer' = {} /\ wk' = [wk EXCEPT ![w].pc = "drain"]
  /\ UNCHANGED <<others, run, log, inbox, posted, job, starts>>

EnqueueDrained(w) ==
  /\ wk[w].pc = "drain"
  /\ Enqueue(0) /\ wk' = [wk EXCEPT ![w] = Idle]
  /\ UNCHANGED <<others, run, log, inbox, posted, timer, starts>>

(* isOrphaned, for a run without parent or children. *)
Stranded == run.status \in Reconcilable /\ ~job.queued /\ timer = {}

ReconcileScan ==
  /\ sweep = "idle" /\ Stranded /\ sweep' = "found"
  /\ UNCHANGED <<deploy, stored, wk, caller, starts>>

ReconcileEnqueue ==
  /\ sweep = "found"
  /\ Enqueue(0) /\ sweep' = "idle"
  /\ UNCHANGED <<deploy, run, log, inbox, posted, timer, wk, caller, starts>>

ReconcileDies ==
  /\ sweep = "found" /\ sweep' = "idle"
  /\ UNCHANGED <<deploy, stored, wk, caller, starts>>

-----------------------------------------------------------------------------
(* A worker's tick, up to the flow body *)

Claim(w) ==
  /\ wk[w].pc = "idle" /\ Claimable(job, 0)
  /\ job' = Claimed(job, w, LeaseMs)
  /\ wk' = [wk EXCEPT ![w].pc = "start", ![w].lease = LeaseOn(job')]
  /\ UNCHANGED <<others, run, log, inbox, posted, timer, starts>>

(* A lease is renewed once no more than half of it is left. *)
NeedsRenewal(l) == 2 * l.expires <= LeaseMs

(* A lease half spent while its run waited in the batch is renewed before the run   *)
(* is loaded; one that expired, or was taken over, is dropped.                      *)
StartRenewed(w) ==
  /\ wk[w].pc = "start" /\ wk[w].lease.expires > 0 /\ NeedsRenewal(wk[w].lease)
  /\ Holds(job, wk[w].lease, 0)
  /\ job' = Extended(job, LeaseMs)
  /\ wk' = [wk EXCEPT ![w].pc = "load", ![w].lease = Extended(@, LeaseMs)]
  /\ UNCHANGED <<others, run, log, inbox, posted, timer, starts>>

StartTooLate(w) ==
  /\ wk[w].pc = "start"
  /\ \/ wk[w].lease.expires = 0
     \/ NeedsRenewal(wk[w].lease) /\ ~Holds(job, wk[w].lease, 0)
  /\ wk' = [wk EXCEPT ![w] = Idle]
  /\ UNCHANGED <<others, stored, starts>>

(* What a tick becomes once it is decided how it ends. *)
Acking(x) == [Idle EXCEPT !.pc = "ack", !.lease = x.lease]
Suspending(x, status, wake) ==
  [Idle EXCEPT !.pc = "suspend", !.lease = x.lease, !.out = status, !.wake = wake]
ParkForRedeploy(x) == Suspending(x, "parked", {RecheckMs})
Finishing(x, status) == [Idle EXCEPT !.pc = "finish", !.lease = x.lease, !.out = status]

(* A run that is gone or terminal is acknowledged.  One this worker's code has no   *)
(* flow for is parked; any other is executed from this snapshot.                    *)
Load(w) ==
  /\ \/ wk[w].pc = "load"
     \/ wk[w].pc = "start" /\ ~NeedsRenewal(wk[w].lease)
  /\ wk' = [wk EXCEPT ![w] =
       IF run = NoRun \/ run.status \in Terminal THEN Acking(@)
       ELSE IF ~deploy[w].known THEN ParkForRedeploy(@)
       ELSE [@ EXCEPT !.pc = "mark", !.seen = log, !.inbox = inbox]]
  /\ UNCHANGED <<others, stored, starts>>

(* Attempts past the first one too many are not told apart. *)
Counted(r) == [r EXCEPT !.attempts = IF @ > MaxAttempts THEN MaxAttempts + 1 ELSE @]

(* The status is not looked at again: a run settled since it was loaded is executed,*)
(* on the attempt count it settled with.                                            *)
MarkRunning(w) ==
  /\ wk[w].pc = "mark" /\ run # NoRun
  /\ run' = Counted(MarkedRunning(run))
  /\ wk' = [wk EXCEPT ![w] = IF run'.attempts > MaxAttempts THEN Finishing(@, "failed")
                             ELSE [@ EXCEPT !.pc = "body", !.attempt = run'.attempts]]
  /\ starts' = IF run.status \in Terminal \/ run'.attempts > MaxAttempts THEN starts
               ELSE starts + 1
  /\ UNCHANGED <<others, log, inbox, posted, job, timer>>

-----------------------------------------------------------------------------
(* The flow body: one call after another, each answered from the snapshot if the    *)
(* log held it there, and made, logged and answered by the log if not.              *)

Label(c) == IF c.op = "decide" THEN <<"signal", c.name>>
            ELSE IF c.op = "timed" THEN <<"step", c.name>> ELSE <<c.op, c.name>>

Cursor(w) == Len(wk[w].got) + 1

NextCall(w) == deploy[w].calls[Cursor(w)]

InBody(w) == wk[w].pc = "body" /\ run # NoRun /\ Cursor(w) <= Len(deploy[w].calls)

Replaying(w) == InBody(w) /\ Cursor(w) <= Len(wk[w].seen)

Calling(w, ops) == InBody(w) /\ Cursor(w) > Len(wk[w].seen) /\ NextCall(w).op \in ops

Returned(x, val) == [x EXCEPT !.got = Append(@, val)]

(* A sleep goes on to its deadline, then returns it. *)
SleptUntil(x, at) == IF at > 0 THEN Suspending(x, "sleeping", {at}) ELSE Returned(x, at)

(* A replay that trusts the position alone. *)
DriftIgnored(w) == FALSE

(* The snapshot holds another call at this position: the code changed under the run. *)
Drifted(w) == wk[w].seen[Cursor(w)].call # Label(NextCall(w))

Replay(w) ==
  /\ Replaying(w) /\ ~Drifted(w)
  /\ LET val == wk[w].seen[Cursor(w)].val
     IN  wk' = [wk EXCEPT ![w] = IF NextCall(w).op = "sleep" THEN SleptUntil(@, val)
                                 ELSE Returned(@, val)]
  /\ UNCHANGED <<others, stored, starts>>

Drift(w) ==
  /\ Replaying(w) /\ Drifted(w)
  /\ wk' = [wk EXCEPT ![w] = IF deploy[w].drift = "fail" THEN Finishing(@, "failed")
                             ELSE ParkForRedeploy(@)]
  /\ UNCHANGED <<others, stored, starts>>

Entry(w, val) == [call |-> Label(NextCall(w)), val |-> val]

Checkpoint(w, val) == log' = Logged(log, Cursor(w), Entry(w, val))
CheckpointAnswer(w, val) == Stored(log, Cursor(w), Entry(w, val)).val

(* A step's result is told apart by the worker that computed it. *)
RunStep(w) ==
  /\ Calling(w, {"step", "timed"})
  /\ Checkpoint(w, w)
  /\ wk' = [wk EXCEPT ![w] = [Returned(@, CheckpointAnswer(w, w)) EXCEPT !.pc = "renew"]]
  /\ UNCHANGED <<others, run, inbox, posted, job, timer, starts>>

(* A step that throws: a permanent error fails the run, a transient one backs off   *)
(* while there are attempts left.                                                   *)
StepThrows(w, permanent) ==
  /\ Calling(w, {"step", "timed"})
  /\ wk' = [wk EXCEPT ![w] = IF permanent \/ @.attempt >= MaxAttempts
                             THEN Finishing(@, "failed")
                             ELSE Suspending(@, "retrying", {BackoffMs})]
  /\ UNCHANGED <<others, stored, starts>>

(* The renewal after a checkpoint, and the one a step with a declared timeout makes *)
(* on an interval.  A renewal that fails is ignored.                                *)
Renewed(w) ==
  IF NeedsRenewal(wk[w].lease) /\ Holds(job, wk[w].lease, 0)
  THEN /\ job' = Extended(job, LeaseMs)
       /\ wk' = [wk EXCEPT ![w].pc = "body", ![w].lease = Extended(@, LeaseMs)]
  ELSE job' = job /\ wk' = [wk EXCEPT ![w].pc = "body"]

Renew(w) ==
  /\ wk[w].pc = "renew" \/ Calling(w, {"timed"})
  /\ Renewed(w)
  /\ UNCHANGED <<others, run, log, inbox, posted, timer, starts>>

(* pinDeadline: the worker goes on with the deadline it computed, whoever's is in   *)
(* the log.                                                                         *)
Pin(w) ==
  /\ Calling(w, {"sleep", "pin"})
  /\ LET at == IF NextCall(w).op = "sleep" THEN SleepMs ELSE WaitMs
     IN  /\ Checkpoint(w, at)
         /\ wk' = [wk EXCEPT ![w] = IF NextCall(w).op = "sleep" THEN SleptUntil(@, at)
                                    ELSE Returned(@, at)]
  /\ UNCHANGED <<others, run, inbox, posted, job, timer, starts>>

(* A consumption that leaves the signal where it is. *)
Kept(S, k) == S

Without(S, k) == S \ {k}

(* What the snapshot's inbox still holds for the signal call at the cursor. *)
Pending(w) == {k \in wk[w].inbox : Name[k] = NextCall(w).name}

(* The one of them that was delivered first. *)
First(S) == posted[CHOOSE i \in DOMAIN posted :
                     posted[i] \in S /\ \A j \in 1..i - 1 : posted[j] \notin S]

(* Consumption is part of the write that logs the signal, and of no other. *)
TakeSignal(w) ==
  /\ Calling(w, {"signal", "decide"}) /\ Pending(w) # {}
  /\ LET k == First(Pending(w))
         first == Cursor(w) > Len(log)
     IN  /\ k \notin Invalid
         /\ Checkpoint(w, k)
         /\ inbox' = IF first THEN Without(inbox, k) ELSE inbox
         /\ timer' = IF first /\ NextCall(w).op = "decide" THEN {} ELSE timer
         /\ wk' = [wk EXCEPT ![w] = [Returned(@, CheckpointAnswer(w, k)) EXCEPT
                                       !.inbox = Without(wk[w].inbox, k)]]
  /\ UNCHANGED <<others, run, posted, job, starts>>

(* A payload its schema rejects fails the run and stays in the inbox. *)
RejectSignal(w) ==
  /\ Calling(w, {"signal", "decide"}) /\ Pending(w) # {} /\ First(Pending(w)) \in Invalid
  /\ wk' = [wk EXCEPT ![w] = Finishing(@, "failed")]
  /\ UNCHANGED <<others, stored, starts>>

Deadline(w) == wk[w].got[Len(wk[w].got)]

AwaitSignal(w) ==
  /\ Calling(w, {"signal", "decide"}) /\ Pending(w) = {}
  /\ NextCall(w).op = "decide" => Deadline(w) > 0
  /\ wk' = [wk EXCEPT ![w] = Suspending(@, "awaiting_signal",
                               IF NextCall(w).op = "decide" THEN {Deadline(w)} ELSE {})]
  /\ UNCHANGED <<others, stored, starts>>

(* A timeout decided without looking at the row's version. *)
VersionMovedIgnored(w) == FALSE

(* Whether the job row is no longer at the version this tick claimed. *)
VersionMoved(w) == ~job.queued \/ job.version # wk[w].lease.version

(* The deadline has passed and the snapshot holds no signal: the timeout is logged, *)
(* unless the row's version says something was delivered since the claim.           *)
TimeOut(w) ==
  /\ Calling(w, {"decide"}) /\ Pending(w) = {} /\ Deadline(w) = 0
  /\ IF Cursor(w) > Len(log) /\ VersionMoved(w)
     THEN log' = log /\ wk' = [wk EXCEPT ![w] = Suspending(@, "awaiting_signal", {0})]
     ELSE /\ Checkpoint(w, 0)
          /\ wk' = [wk EXCEPT ![w] = Returned(@, CheckpointAnswer(w, 0))]
  /\ UNCHANGED <<others, run, inbox, posted, job, timer, starts>>

-----------------------------------------------------------------------------
(* The end of a tick *)

(* The park and the timer that ends it are one write; neither touches a run that    *)
(* settled meanwhile.                                                               *)
Suspend(w) ==
  /\ wk[w].pc = "suspend" /\ run # NoRun
  /\ run' = Suspended(run, wk[w].out)
  /\ timer' = IF run.status \in Terminal \/ wk[w].wake = {} THEN timer ELSE wk[w].wake
  /\ starts' = IF run.status \in Terminal \/ wk[w].out = "retrying" THEN starts ELSE 0
  /\ wk' = [wk EXCEPT ![w] = Acking(@)]
  /\ UNCHANGED <<others, log, inbox, posted, job>>

(* finish of a run without parent or children, when its body has returned or the    *)
(* tick has decided it failed: its timer, if any, stays.                            *)
Returning(w) == wk[w].pc = "body" /\ Cursor(w) > Len(deploy[w].calls)

Finish(w) ==
  /\ run # NoRun
  /\ \/ wk[w].pc = "finish" /\ run' = Terminated(run, wk[w].out)
     \/ Returning(w) /\ run' = Terminated(run, "done")
  /\ wk' = [wk EXCEPT ![w] = Acking(@)]
  /\ UNCHANGED <<others, log, inbox, posted, job, timer, starts>>

Ack(w) ==
  /\ wk[w].pc = "ack"
  /\ job' = Acked(job, wk[w].lease, 0)
  /\ wk' = [wk EXCEPT ![w] = Idle]
  /\ UNCHANGED <<others, run, log, inbox, posted, timer, starts>>

(* The run was purged under the tick: every store call throws, and the error of the *)
(* last one escapes the tick without an acknowledgement.                            *)
RunGone(w) ==
  /\ wk[w].pc \in {"mark", "body", "suspend", "finish"} /\ run = NoRun
  /\ wk' = [wk EXCEPT ![w] = Idle]
  /\ UNCHANGED <<others, stored, starts>>

(* The process dies, or abandons a poll whose claim had landed. *)
Crash(w) ==
  /\ wk[w].pc # "idle"
  /\ wk' = [wk EXCEPT ![w] = Idle]
  /\ UNCHANGED <<others, stored, starts>>

-----------------------------------------------------------------------------

Nearer(t) == IF t = 0 THEN 0 ELSE t - 1

AgedEntry(e) == IF e.call[1] \in {"sleep", "pin"} THEN [e EXCEPT !.val = Nearer(@)] ELSE e
AgedLog(l) == [i \in DOMAIN l |-> AgedEntry(l[i])]

AgedTick(w, x) ==
  [x EXCEPT !.lease.expires = Nearer(@), !.seen = AgedLog(@), !.wake = {Nearer(t) : t \in @},
            !.got = [i \in DOMAIN @ |-> IF deploy[w].calls[i].op \in {"sleep", "pin"}
                                        THEN Nearer(@[i]) ELSE @[i]]]

(* Every instant comes one nearer. *)
Tick ==
  /\ Timely => \A w \in Workers : wk[w].lease # NoLease => wk[w].lease.expires > 1
  /\ job' = [job EXCEPT !.runAt = Nearer(@), !.expires = Nearer(@)]
  /\ timer' = {Nearer(t) : t \in timer}
  /\ log' = AgedLog(log)
  /\ wk' = [w \in Workers |-> AgedTick(w, wk[w])]
  /\ UNCHANGED <<others, run, inbox, posted, starts>>

StepEnds(w) == RunStep(w) \/ \E permanent \in BOOLEAN : StepThrows(w, permanent)

Work(w) ==
  \/ EnqueueDrained(w) \/ StartRenewed(w) \/ StartTooLate(w)
  \/ Load(w) \/ MarkRunning(w) \/ Replay(w) \/ Drift(w) \/ StepEnds(w)
  \/ Pin(w) \/ TakeSignal(w) \/ RejectSignal(w) \/ AwaitSignal(w) \/ TimeOut(w)
  \/ Suspend(w) \/ Finish(w) \/ Ack(w) \/ RunGone(w) \/ Renew(w)

Callers ==
  \/ SubmitStart \/ Cancel \/ Retry \/ Purge
  \/ \E k \in Signals : PostSignal(k)

Dies == SubmitDies \/ ReconcileDies \/ \E w \in Workers : Crash(w)

Next ==
  \/ Callers \/ SubmitEnqueue \/ ReconcileScan \/ ReconcileEnqueue \/ Dies \/ Tick
  \/ \E w \in Workers : DrainTimer(w) \/ Claim(w) \/ Work(w)

Spec == Init /\ [][Next]_vars

(* Every worker goes on with what it began, and no step runs for ever; as long as    *)
(* timers fall due and rows come due, somebody's polls drain and claim them; time    *)
(* passes; the reconciler and a submit go on.  Processes die, and failed runs are    *)
(* retried by hand, finitely often; a worker that ends its tick with nothing left to *)
(* write takes the step a death would be, and is not counted as one.                 *)
Fairness ==
  /\ \A w \in Workers : WF_vars(Work(w)) /\ WF_vars(StepEnds(w))
  /\ SF_vars(\E w \in Workers : DrainTimer(w)) /\ SF_vars(\E w \in Workers : Claim(w))
  /\ WF_vars(Tick) /\ WF_vars(SubmitEnqueue)
  /\ WF_vars(ReconcileScan) /\ WF_vars(ReconcileEnqueue)
  /\ <>[][~Retry /\ (Dies => \E w \in Workers : Work(w))]_vars

LiveSpec == Spec /\ Fairness

-----------------------------------------------------------------------------

Instants(n) == 0..n
Longest == LET D == {LeaseMs, SleepMs, WaitMs, BackoffMs, RecheckMs, StartDelay}
           IN  CHOOSE n \in D : \A m \in D : m <= n

(* The calls some deployment's code makes. *)
CallsOf(d) == UNION {{d[w].calls[i] : i \in DOMAIN d[w].calls} : w \in Workers}

LogEntries == [call : {"step", "sleep", "signal", "pin"} \X {Name[k] : k \in Signals} \cup
                      {Label(c) : c \in UNION {CallsOf(d) : d \in Deployments}},
               val : Nat]

(* Types, and: a run that does not exist has no log, a deleted job row leaves nothing *)
(* behind, and a tick that has decided how it ends remembers nothing else.            *)
TypeOK ==
  /\ run \in RunRow /\ log \in Seq(LogEntries)
  /\ posted \in Seq(Signals) /\ inbox \subseteq Posted
  /\ job \in Job /\ WellFormed(job)
  /\ timer \in {{}} \cup {{t} : t \in Instants(Longest)}
  /\ run = NoRun => log = <<>> /\ timer = {}
  /\ \A w \in Workers :
       /\ wk[w].lease \in Lease
       /\ wk[w].pc \in {"idle", "drain"} => wk[w].lease = NoLease
       /\ wk[w].pc # "body" /\ wk[w].pc # "renew" => wk[w].got = <<>>

(* Two workers executing the run, one on an expired lease, never see different       *)
(* histories: whatever each was answered so far, computed, replayed or lost to the   *)
(* other, is what the log holds.                                                     *)
ReplaySafe ==
  \A w \in Workers :
    wk[w].pc \in {"body", "renew"} /\ run # NoRun =>
      /\ Len(wk[w].got) <= Len(log)
      /\ \A i \in DOMAIN wk[w].got :
           log[i].call[1] \in {"step", "signal"} => wk[w].got[i] = log[i].val

(* Whatever code the workers run, an answer the body of a live run was given came    *)
(* from the very call it made: memos are never mapped onto the wrong calls.          *)
AnswersMatchCalls ==
  \A w \in Workers :
    wk[w].pc \in {"body", "renew"} /\ run.status \in Active =>
      \A i \in DOMAIN wk[w].got : log[i].call = Label(deploy[w].calls[i])

(* A delivered signal is in the inbox or in the log, and there exactly once, whoever *)
(* raced to consume it.                                                              *)
LoggedAs(k) == {i \in DOMAIN log : log[i].call = <<"signal", Name[k]>> /\ log[i].val = k}

SignalsConserved ==
  \A k \in Posted : IF k \in inbox THEN LoggedAs(k) = {} ELSE \E i \in DOMAIN log : LoggedAs(k) = {i}

(* The run stands at a call of one of these kinds, as its log says and the code of   *)
(* worker w has it.                                                                  *)
StandsAt(w, ops) == /\ Len(log) < Len(deploy[w].calls)
                    /\ deploy[w].calls[Len(log) + 1].op \in ops

(* A live run never stands at a signal wait with the signal delivered and nothing    *)
(* left to dispatch it.                                                              *)
SignalWakes ==
  \A k \in inbox :
    /\ run.status \in Active
    /\ \A w \in Workers : /\ StandsAt(w, {"signal", "decide"})
                          /\ deploy[w].calls[Len(log) + 1].name = Name[k]
    => job.queued

(* A timeout of a live run's bounded wait is logged only if no signal the wait would *)
(* have taken is in the inbox: a signal that beats the decision is never dropped.    *)
SignalWins ==
  [][\A i \in DOMAIN log' \ DOMAIN log :
       run.status \in Active /\ log'[i].call[1] = "signal" /\ log'[i].val = 0
       => \A k \in inbox : Name[k] # log'[i].call[2]]_vars

(* Whatever died or stalled, a live run has a row in the queue, a timer or a process *)
(* about to enqueue it, or the reconciler looks for it, or it waits on its caller.   *)
AwaitsCaller == run.status = "awaiting_signal" /\ \E w \in Workers : StandsAt(w, {"signal"})

Recoverable ==
  run.status \in Active =>
    \/ job.queued \/ timer # {} \/ run.status \in Reconcilable \/ AwaitsCaller
    \/ \E w \in Workers : wk[w].pc = "drain"

(* An outcome is final: a settled run stays as it settled, is purged, or, failed,    *)
(* is retried by hand and then stands in the queue.                                  *)
Finality ==
  [][run.status \in Terminal =>
       \/ run' \in {run, NoRun}
       \/ run.status = "failed" /\ run' = Fresh /\ job'.queued]_vars

(* A run whose process keeps dying is executed at most MaxAttempts times between two *)
(* parks that show progress.                                                         *)
AttemptsBounded == starts <= MaxAttempts

(* A run that is not waiting for its caller settles, whatever crashed before. *)
Settled == run = NoRun \/ run.status \in Terminal

AlwaysAdvances == []<>(Settled \/ AwaitsCaller)

(* A signal delivered to a run whose flow waits for it once is in the end acted on,  *)
(* however early it came and whoever died holding it: the run settles.               *)
SignalResolves == inbox # {} ~> Settled

=============================================================================
