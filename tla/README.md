# iterativeflow: a TLA+ model of the durable workflow engine

iterativeflow runs workflow functions durably. A flow body is replayed from a log on
every dispatch; each call it makes through `ctx` (a step, a sleep, a wait for a signal, a
child flow) is logged once it has an outcome and answered from the log ever after. One
engine drives four storage ports. Workers lease runs, execute them to their next durable
boundary, and let go; timers, signals and a reconciler put them back on the queue.

This directory holds the modules that model it, the configurations TLC checks, and the
theorems TLAPS proves. Source paths below are relative to the repository; `memory`
stands for `packages/memory/src/backend.ts`, the backend the repository calls the oracle
every other backend must match, and the one the store operations are translated from.

## 1. Inventory

| Component | State it keeps | Operations | Modelled by |
| --- | --- | --- | --- |
| Dispatch queue (`core/src/ports/queue.ts`, memory `queue`) | one row per run: due instant, priority, version, lease token, lease expiry | enqueue, enqueueMany, claim, heartbeat, ack, depth | JobTable, JobQueue; Backends |
| Run store (`ports/store.ts`, `ports/outbox.ts`) | run row (status, attempts), step log, signal inbox, idempotency keys, join countdowns, cron rows | startRun, markRunning, checkpointStep, suspendRun, markTerminal, postSignal, retryRun, cancelRuns, deleteRuns, arriveAtJoin, orphanedRuns, crons, listings | RunTable, RunEngine (root runs), FanOut (families); Backends |
| Timers (`ports/timer.ts`) | one deadline per run | schedule, dueBatch, cancel, dueCount, nextDueAt | RunEngine, FanOut; Backends |
| Executor (`engine/executor.ts`) | in memory, per tick: lease, snapshot, attempt | runTick: check the lease, load, look at the parent, mark, run the body, finish or suspend, arrive at the join, ack | RunEngine, FanOut |
| Flow context (`engine/context.ts`) | in memory, per tick: cursor, consumed signals, armed suspend | step, sleep, signal, bounded signal, invoke | RunEngine (call after call), FanOut (invoke, calls made together) |
| Worker cycle (`engine/worker.ts`) | none | submit, signalRun, drainTimers, tickOnce, reconcile, prune, result | RunEngine, FanOut, WorkerLoop |
| Fan-out and cancel cascade (`context.ts`, `cancel.ts`, `orphan.ts`) | the join countdown, parent links | invokeMany, arriveAtJoin, wakeParent, cancelDescendants | Nursery, FanOut |
| Crons (`engine/schedule.ts`, `engine/cron.ts`) | cron row with its next instant | registerCron, removeCron, runDueCrons, advanceCron, nextCronAfter | CronFields, CronFleet |
| Worker loop, push wake-ups (`engine/engine.ts`, `local-wakeup.ts`, `postgres/src/notify.ts`) | idle back-off, pause gate, stop signal, a remembered notification | run, pause, resume, stop, waitForWork, the listener's connection | WorkerLoop |
| Storage backends (memory, Postgres, MySQL, SQLite, Redis, MongoDB, DynamoDB, Durable Objects) | the tables behind the ports | every call of the ports | BackendTables, BackendReads, a module for each but the last, RunBook, Backends |
| Observability, typed contracts, webhooks, dashboard, conformance suites | nothing a run depends on | | not modelled, see 7 |

How they interact. A worker polls: it drains due timers (consume them, then enqueue
their runs), claims a batch of rows, and for each leased row runs a tick, which talks to
the store call by call. Everybody else (a caller's submit, signal, cancel, retry or
purge, another worker, the reconciler) reaches the run only through the same store and
queue. There is no lock besides the lease. A lease is held by the clock: a worker that
stalls keeps going after its lease is somebody else's.

What is hard here, and the property that makes each component correct:

* Queue. Acknowledgement against wake: the row is deleted only if nothing was enqueued
  since the claim. Stalled holders, batches claimed at once and run one by one, polls
  abandoned after their claim landed. Correct if no wake is lost, no run is given to two
  workers whose leases both stand, and what is not completed is given out again.
* Log and inbox. Two workers executing one run must see one history; a signal must be
  consumed once, in the write that logs it. Correct if answers agree with the log and
  each delivery is in the log or in the inbox exactly once.
* Park and wake. The park and its timer are one write; the drain, the submit and the
  reconciler are two calls each and may stop between them. Correct if a live run always
  has somebody who will come back to it.
* Outcomes. Stale workers finish, park and mark after a cancel or a purge. Correct if an
  outcome stays as it was settled.
* Families. A child's outcome, its arrival at the join, the parent's wake and the parent's
  park are four writes of two workers; a cascade reads the children while they are still
  being spawned. Correct if a child is born once, a join is never left waiting, and no child
  outlives a fallen parent for good.
* Crons. Sweeps of a fleet work on rows they read earlier, while deployments replace them.
  Correct if an occurrence starts one run, none is dropped, and the cron fires at the minutes
  its present expression means.
* Backends. A call of a port is one script here, two statements or a scan and many writes
  there. Correct if the callers cannot tell: the same promise holds on each.
* The loop. Notifications, a pause, a stop and a poll's deadline meet a loop that waits on
  whichever comes first. Correct if no wake is slept on and every flip takes effect.
* Dead letters. A step that kills its process is never caught. Correct if executions
  between two parks are bounded by `maxAttempts`.

The list of hazards, each at its line, with the properties that cover it, is in
`PROJECT.json`.

## 2. Modules

| Module | What it is |
| --- | --- |
| `JobTable` | the job row and the row operators: `Enqueued`, `Claimed`, `Extended`, `Acked`, `Holds` |
| `WakeDelivery` | the abstract promise of the queue: requests, dispatches, completions, redeliveries |
| `JobQueue` | the queue: runs, workers with batches, priorities, leases, stalls, crashes, a clock |
| `JobQueueProofs` | theorems about `JobQueue` |
| `RunTable` | the run row and the step log, and what the store operations make of them |
| `RunEngine` | one root run with everything that drives it, over `JobTable` and `RunTable` |
| `RunEngineProofs` | theorems about `RunEngine` |
| `RunSignalsProofs` | theorems about the signals of `RunEngine`, its types, and who goes on with a run |
| `Nursery` | the abstract promise of `ctx.invoke`: births, outcomes, and what a parent may be done on |
| `FanOut` | a parent and its children on several workers, with joins, cascades, cancels, retries, purges |
| `FanOutProofs` | theorems about `FanOut`: the refinement of `Nursery`, and that no join is left waiting |
| `CronFields` | five-field cron expressions and the minutes they match |
| `CronFleet` | cron rows, deployments that change them, and the sweeps of several workers |
| `CronFleetProofs` | theorems about `CronFleet` |
| `WorkerLoop` | the resident loop, its listener, its gate, and a caller of `result()` |
| `WorkerLoopProofs` | theorems about `WorkerLoop` |
| `RunBook` | the abstract promise of a store: outcomes, logs, signals |
| `BackendTables` | tables, clients, and what a statement makes of the tables |
| `BackendReads` | reads as sets of facts, and claims by flow name |
| `MemoryBackend`, `PostgresBackend`, `MySqlBackend`, `SqliteBackend`, `RedisBackend`, `MongoBackend`, `DynamoBackend` | how each cuts the calls of the ports |
| `Backends` | the seven side by side, and the properties they share |
| `BackendsProofs` | theorems about `Backends`: types, jobs, leases, timers and crons |
| `BackendsDeedsProofs` | theorems about `Backends`: races that are won once, the refinement of `RunBook`, claims |
| `MCJobQueue`, `MCRunEngine`, `MCFanOut`, `MCCronFleet`, `MCBackends` | instances for TLC |

### JobQueue

`jobs[r]` is the row; `held[w][r]` is worker w's own copy of a lease. They are separate
because the code's are: `Holds` (the test `heartbeat` and `ack` share) compares one with
the other. `NoJob` has version 0 and token 0, so that `(prior?.version ?? 0) + 1` and
"keep the prior lease" are the plain field copies they look like. One action per queue
operation; `LoseLease` is the worker that walks away from a lease (`leaseForStart`
returns undefined, or a heartbeat throws), `Crash` a dead process or a poll whose
deadline passed after the claim landed. `wanted` is a history variable, the runs enqueued
since they were last claimed: nothing reads it but properties.

### RunEngine

A tick is cut at every await. A worker's record `wk[w]` holds what the tick holds in
memory: where it is (`pc`), its copy of the lease, the attempt number, the snapshot
(`seen`, `inbox`), the answers given to the body so far (`got`), and how it has decided to
end (`out`, `wake`). What was read before an await is used after it as it was read.

| `pc` | the tick stands before | actions |
| --- | --- | --- |
| `drain` | the enqueueMany of drainTimers | EnqueueDrained |
| `start` | leaseForStart, then loadRun | StartRenewed, StartTooLate, Load |
| `load` | loadRun, after a renewal | Load |
| `mark` | markRunning | MarkRunning |
| `body` | the next ctx call, or the return of the body | Replay, Drift, RunStep, StepThrows, Renew, Pin, TakeSignal, RejectSignal, AwaitSignal, TimeOut, Finish |
| `renew` | keepalive.renew after a checkpoint | Renew |
| `suspend`, `finish` | suspendRun, markTerminal | Suspend, Finish |
| `ack` | queue.ack | Ack |

Any tick may end by `Crash`, and by `RunGone` if its run is purged. Callers are
`SubmitStart`/`SubmitEnqueue` (two calls), `PostSignal`, `Cancel`, `Retry`, `Purge`; the
reconciler is `ReconcileScan`/`ReconcileEnqueue` (two calls).

A flow body is a sequence of calls. Position i of the log is the memo `s(i-1)`; a bounded
wait takes two positions (`pin` for the deadline, `decide` for the outcome), as
`awaitSignalUntil` does. A step's value is the number of the worker that computed it, so
that two executions can be told apart; a signal's value is its delivery; 0 is a timeout. The inbox
is the set of deliveries not consumed, `posted` all of them in the order they came: a wait takes
the `First` of its name that its snapshot still holds.
`deploy[w]` is the flow as worker w's code has it, or that it has none, with the
`driftPolicy` in force there: during a deploy the workers differ.

Abstractions. Time is counted down: every stored instant is the distance to it and stops
at 0, "reached". This loses nothing the code looks at, since it compares instants with
the present only, apart from `dueBatch`'s order over several runs. A worker's number is
the token of its latest lease: a worker holds one lease on the run at a time, and every
claim overwrites the row's token. A job version is compared only with those of leases in
hand; at the bound of the model a version that no lease carries serves again. Attempts
are counted up to one past `maxAttempts`. Wording, events, metrics, spans and the output
are left out.

### FanOut

Run 0 is the parent, its children are numbered as its flow invokes them. A tick is cut at
every await, as in RunEngine, whose renewals, back-offs and code versions are left out: what
is added is everything that goes on between runs. `flow` is how the parent invokes (`many`:
one list, in chunks, with a logged join; `each`: one after another; `together`: in one
`Promise.all`, where the first call to suspend decides the status and `Sets` keeps it),
whether failures are tolerated, whether it sleeps beside that, and which children wait for a
signal. `Spawned` is the checkpoint with its outbox (children, enqueues, `joinTarget`) in one
write; `Finish`, `Arrival`, `Wake` and `Ack` are the four writes at the end of a child's tick;
`CancelRun` to `CancelKid` is the cascade, run by a caller, by the worker of a failed parent,
or by that of a child that finds its parent fallen (`Pull`). `Orphans` is `isOrphaned` with all
its cases. `trouble` is what may still go wrong: each scenario allows one trouble, or two
that meet, at any point.

`KeepKids` says that a retention window is longer than a run: a child is purged once its
parent is over. Without it, a parent whose child was purged finds no row and waits for ever
(section 7). `left` stops at 0, since the code asks only whether it is below 1.

`Nursery` is the promise, free of queues and workers; `KeepsPromise` maps a family onto it.
A child that was spawned twice would be `twins`, which `Nursery` never makes.

### CronFields, CronFleet

A schedule is an expression: five sets of parts, each a range and a step (`CronFields`, from
`cron.ts`; the splitting of the text is left out). `Calendar` is the minutes the clock of an
instance goes through, with the fields `Date` gives them. `FireTimes` are the minutes an
expression matches, `NextAfter` the search of `nextCronAfter`, `Parses` what `parseCron` lets
through. `Meant` says independently which minutes whoever wrote the expression means, as the
author of an instance reads it, and is what the properties compare with.

An occurrence is a cron and a minute. `RegisterCron`
computes the first fire time and `UpsertCron` writes the row later, as `registerCron` does;
`RemoveCron` deletes it. A worker's sweep (`runDueCrons`) keeps the rows it read and is cut at
every store call: `DueCrons` reads them, `Plan` computes the next fire time, `Look` asks for
live runs if overlaps are skipped, `Start` creates the run under its idempotency key,
`Enqueue` queues it, `Advance` is the compare-and-set of `advanceCron`. `Abandon` is a crash or
a call that throws, which gives up the rest of the sweep. `Reconcile` and `Finish` stand for
the engine, which RunEngine details. The run rows stay: a purge frees an idempotency key, and a
sweep stalled for longer than the retention would start its occurrence again.

### WorkerLoop

One process: the loop of `engine.run` (`loop.pc`: at its `top`, in a `poll`, after it, `waiting`,
`ended`), the listener (`push`: its connection, `pendingWake` as `latch`, notifications on their
way), the gate, the stop signal, and a caller of `result()`. What is between two awaits is one
step. A wait of any length may end at any moment (`TimeOut`), so neither `tickMs` nor the idle
back-off is state. A poll may fail, or hang past `pollTimeoutMs` and claim all the same when
nobody waits for it (`PollHangs`, `LateClaim`); its jobs come back when the lease ends (`Expire`).

### Backends

A client's program is a list of port calls; `at[c]` is how far its present call is. A backend's
module says what each call is made of, in actions with its name (`PostgresAck`). Which programs
and starting tables an instance may have is `CasesAssumption`: calls that the ports allow
(`Request`), tables that such calls leave (`LegalTables`). `BackendTables` has the forms several share:
`StartAtOnce` and `StartOrFind`, `AckInTwo` and `AckOrRelease`, `LoadAtOnce`, `LoadLogFirst` and
`LoadMailFirst`, `Scans` and `Visits`, `DeleteInParts`. A Lua script, one conditional write, one
`TransactWriteItems` and a transaction that runs alone, or whose reads are locked or conflict with
whoever changes what they read, are atomic; what is not inside one is a step of its own, at which
other clients come in.
The checkpoints of MySQL and MongoDB read the run, and MongoDB's the version of its gate, with
nothing that conflicts: they are cut in two, the look and the write. On MongoDB a transaction has the
tables of its first statement and starts again where both it and another wrote (`MongoConflicts`). An
update that leaves a document as it was writes nothing, which is so of the gate
(`mongodb/src/store.ts:282`) and of a park that finds its status in the row (`MongoSuspendRun`).
A crash is a client that takes no more steps. Durable Objects runs the SQLite statements one
request at a time, so that `SqliteBackend` covers it.

The tables are the union of what the backends keep: `queue` and `ripe` are the sorted sets of a
Redis server, `key` is a column in SQL and an item of its own in DynamoDB. `owed` and `alarms`
are history. `RunBook` is what a store promises whoever calls it; `Book` maps the tables onto it.

A read answers with facts, pairs of a run and what is said of it. `watch` collects, while a
read is under way, the facts that held all along (`always`) and those that held at any moment
(`ever`); `AnswersTrue` puts the answer between the two. Orphans and counts by name are put
together from several tables, and may say too much: a run reported as stranded that meanwhile
got its job is enqueued once too often, which is harmless. They may not say too little: each
reason for being an orphan that stands all along brings its run into the answer. (A parent
whose children change under the read may have had a different reason at each moment, and be
missed until the next sweep: a reason is therefore kept with the child that is its witness.)

`ClaimFinds` is about claims for some flows: one that comes back empty has left no job of
theirs. Two backends break it, and `Overlooked` says how: MongoDB cuts the batch before it asks
for the flows, and Redis looks at the first `limit * 10` entries, held ones included (`Window`).
That MySQL's `SKIP LOCKED` hides rows another claim has locked for the moment is not seen here,
as a claim of an SQL backend is one step.

`MCBackends` has the programs (`Scenes`): two or three clients in a race about one thing, each
played on every backend, and `Races`, played where they hold. The differences are the known
limits of section 7: on MongoDB no bounded wait meets a delivery (`Mailed` and `Unsent` are `Waits` and
`Shift` with the signal delivered before, or never), and no late checkpoint a purge, nor on MySQL.

## 3. Runs

| Run | Question | Result |
| --- | --- | --- |
| `job_queue` | does the queue lose a wake, double a lease, or break its promise? | no; 586,056 states |
| `run_engine` | does a run lose history, a signal, a wake, an outcome, or itself, however workers stall and die? | no; about 2,040,000 states |
| `signal_wait` | is a bounded wait decided right, and are memos kept from the wrong calls, while leases last? | yes; about 930,000 states |
| `run_live` | does every run get somewhere under fair scheduling? | yes; about 287,000 states |
| `deadline_lost` | is everything stranded by a crash re-driven? | not a bounded wait whose drained deadline is lost |
| `fan_out` | is a child born once, is the parent done on its children's outcomes only, is no join left waiting? | yes; about 1,100,000 states |
| `fan_live` | do parents end, and their children with them? | yes; about 302,000 states |
| `fast_fail` | does a parent fail as soon as a child does? | not behind an earlier child that is still running |
| `cron_fleet` | is an occurrence fired once, none dropped, and a changed schedule obeyed, by two stalling workers? | yes; about 1,191,000 states |
| `cron_alone` | does every due cron move on, and every run it created end? | yes; about 48,000 states |
| `worker_loop` | is a wake slept on, a pause or a stop missed, a job or a caller left? | no; about 411,000 states |
| `backends` | can a caller tell the backends apart by what they promise? | not in these programs; about 990,000 states |

`deadline_lost` and `fast_fail` check one property each, stated by a document or a comment of the
repository; `PROJECT.json` quotes it next to the finding.

Properties. `TypeOK` is the type invariant of each module. `WakeNotLost`, `SingleHolder`
and `KeepsPromise` (the refinement) are about the queue. `ReplaySafe`: whatever a body was
answered is what the log holds, for both of two workers that execute at once.
`AnswersMatchCalls`: and it was logged by the call that was made. `SignalsConserved`: each
delivery is in the inbox or the log, once. `SignalWakes`: a run that stands at a wait with
its signal delivered has a job. `SignalWins`: no timeout is logged over a delivered
signal. `Recoverable`: a live run has a job, a timer, a process about to enqueue it, a
status the reconciler looks for, or a caller it waits on. `AttemptsBounded` counts the
executions of a live run between two parks other than back-offs. `Finality`: a settled
run only ever is purged or, failed, retried. `AlwaysAdvances` and `SignalResolves` are the
liveness of a run. `JoinWakes`: while no process has died and no bulk cancel was made,
a parent that awaits its children and is not queued has a live child or somebody on the way to
wake it. `KeepsPromise` (FanOut): the refinement of `Nursery`. `ChildrenEnd` and `Completes` are
the liveness of a family. `FiredOnce`: an occurrence starts one run. `NoneDropped`: a schedule moves
past an occurrence only if it was started, or passed over for a live run.
`ScheduleFollowed`: the stored fire time is one the stored expression means, and not past the
first of them that is to come. `MovesOn` and `FiredRunsEnd` are the liveness of crons. `NoStall`:
while the listener is connected, a job enqueued since the last poll is not slept on. `GateHolds`:
a pause or stop lets at most the poll under way claim, and a resume ends the wait that began
before it. `Drains` and `Attends`: what is enqueued is taken, `stop()` and `result()` come back.
`KeepsBook` is the refinement of `RunBook`; `WakeKept`, `SingleHolder` (of a run that has not
been purged), `TimerKept`: what `JobQueue` and `RunEngine` rely on, on every backend. `WonOnce`:
what can be won is won by one caller, starts with one key by all of them the same way.
`CronTimes`: a cron's next time is one of its own schedule's, and a Redis server's score is the
row's time. `AnswersTrue` and `ClaimFinds`: see section 2.

Bounds. Two workers are enough for one to stall and the other to take over; a third adds
a second stalled one, no new kind of step. Two runs let a batch pass one over. In
`job_queue` four ticks with leases of two let a lease be taken, renewed, expire and be
taken again; three claims and two enqueues of a row cover a wake before, during and after
a lease. In `run_engine` a lease of one tick is lost at the next tick, the shortest stall
there is, and `maxAttempts` 1 makes the dead-letter cap bite. `signal_wait` and `run_live`
take leases of two, so that half of one is left and renewed, before the start and during
a step; `run_live` allows two attempts, so that back-off happens.
`cron_fleet` has one cron in four definitions, one of which does not parse, over two schedules
with no fire time in common but the last, and a clock of four minutes out of a June: enough for
a sweep to hold a row while peers fire it, a deployment replaces it and another occurrence
comes due. `ScheduleFollowed` needs the schedules to be disjoint (`Apart`): where the first fire
time of the new schedule is the one a sweep expects, the compare-and-set cannot tell the rows
apart. `cron_alone` has two crons due together, so that a
sweep treats a list. Crons are bounded by the clock alone; registrations, removals and
abandoned sweeps are not counted.
`fan_out` and `fan_live` have two children, the fewest with an order and a last one, and chunks of
one, so that a list takes two checkpoints; `fan_out` has two workers, idle ones taken in turn
(an action constraint, safety only, as workers are alike), `fan_live` has one, and its callers
interfere. `backends` has three clients, for a race of two with a third who changes the tables
under both, one key, one signal, one cron, and a page of one run, so that a listing has turns.
`worker_loop` bounds jobs and hung polls.
`CHECK_DEADLOCK FALSE`: in `job_queue` the clock and the counters stop at their bounds; in
RunEngine and FanOut runs that are over, with nobody left to call, are the end of a behaviour,
and in `backends` programs that were played to their end; a worker loop may be stopped.

`Timely` is the one assumption a configuration of RunEngine makes about processes: no lease runs
out under the tick that holds it, though time passes during the tick and the lease may need
renewing. It describes a deployment whose leases are long against its steps, and is set in
`signal_wait`, `run_live` and `deadline_lost`. `run_engine` goes without it. `SignalWins` needs
it: without it, a timeout may be logged over a signal (section 7). So does `AnswersMatchCalls` where
codes differ in more than how far they go: a peer with other code may write the position a stalled
worker checked.

## 4. Fairness

`run_live` assumes: a worker that began something goes on with it (its awaits resolve or
the process is one that dies) and a step ends, in time or by its timeout (a hung step
without a timeout holds its worker for good, as `withLeaseHeld` says); time passes; while timers keep falling due somebody drains
them and while rows keep being claimable somebody claims (`engine.run` polls for ever and
every poll drains, then claims); a reconcile sweep that keeps finding the run takes place
(`maintenance` runs it on an interval) and goes on to its enqueue; a submit goes on to
its own. Fairness of claiming and draining is strong, as a poll may fail or find the row
leased again and again, and is asked of the workers together, not of each. Crashes, and
retries by hand, happen finitely often: with a crash in every tick nothing could
advance. A worker that ends its tick with nothing left to write (its run is gone, its
acknowledgement comes too late) takes the same step as a death; such steps are not counted as
deaths and may occur for ever. Nothing is assumed of the callers: a signal may never be sent.

`cron_alone` assumes that a sweep starts as long as rows are due and goes on unless it is
abandoned (`maintenance` starts one on an interval), that abandonment happens finitely often,
and that the reconciler and the engine go on. Time need not pass, and nobody need deploy.

`fan_live` assumes what `run_live` does of workers, claims (strong, for each run, by whichever
worker), drains, time and the reconciler, and that a caller that began to cancel a family goes on
to its children. Of the troubles a scenario allows, each happens at most once, so that no fairness
has to rule them out: a death is one step, after which its process serves again, as a restart.

`worker_loop` states its fairness in `Spec`: the loop's thread runs and its timers fire; a poll
that is made again and again succeeds at times (strong, as any one may fail or hang); a claim
nobody waits for lands in the end, and the lease of what it took expires; a caller of `result()`
goes on. Nothing is asked of the listener, which may never connect: `Drains` and `Attends` rest on
the idle wait, the push only makes it shorter. The number of hung polls is bounded (`Hangs`).

## 5. Proofs

`JobQueueProofs` proves, for every set of runs and workers, every batch size, lease length,
delay and bound (assumption `QueueConstants`):

* `TypeCorrect`: `Spec => []TypeOK`, by one case per action, from lemmas on what each row
  operator returns (`EnqueuedRow`, `ClaimedRow`, `ExtendedRow`, `LeaseOnRow`, `AckedRow`).
* `Inductive`: `Spec => []IInv`. `WakeNotLost` is not inductive: an acknowledgement
  deletes the row, and nothing in `WakeNotLost` says that it does so only when no wake is
  owed. `IInv` adds what a copy of a lease knows of its row: its token was issued; while
  it has not expired it is the row's lease; and while the row carries its token, the run
  is wanted exactly if the row's version is past the copy's. Two workers' copies never
  share a token, which is why a claim must take a fresh one.
* `WakesAreNotLost` and `OneHolder` follow from `IInv`.
* `ImplementsPromise`: `Spec => KeepsPromise`. Under the mapping (`InService`: the row's
  lease has not expired; `Owed`: the row has no such lease, or an enqueue since its claim)
  an enqueue is a `Request`, a claim a `Dispatch` of the batch, an acknowledgement by a
  holder a `Complete`, the tick at which leases expire a `Redeliver`, and everything else
  a stutter. `IInv` is what makes the acknowledgement of a wanted run leave it owed.

`WorkerLoopProofs` proves, for every batch size and number of jobs and of hung polls (assumption
`LoopConstants`):

* `LoopInductive`: `Spec => []IInv`. Neither `NoStall` nor `GateHolds` is inductive: both speak of a
  loop that waits, and whether it may is decided before it does. `Attentive` therefore says from
  the poll on that an enqueue is on its way or remembered, and `Gated` that a poll under way at a
  pause has not claimed yet, so that the one claim allowed is still to come. `Kept` says that
  jobs are only moved, never made, which the types need.
* `LoopTypeCorrect`, `NeverStalls` and `GateAlwaysHolds` follow from it.

`CronFleetProofs` proves, for every fleet, every finite set of crons and of flows, every set of
schedules and every calendar (assumption `CronConstants`):

* `FleetInductive`: `Spec => []IInv`. Neither `FiredOnce` nor `NoneDropped` is inductive: the first
  says nothing of the table that makes a second start find the run, the second nothing of how a
  sweep came to advance a row. `Counted` says that what was counted as started are the runs in the
  table, so that the idempotency key is what keeps the count down; `Marked` that a sweep past its
  start has left a run, or an occurrence passed over, for the row it is about to advance, and
  that this stays so while peers fire, replace and remove the row.
* `FollowsItsSchedule`: `Spec => []ScheduleFollowed`, for evaluators that find what an expression
  means (`Understood`, which TLC evaluates for the expressions of an instance) and schedules of
  which no two fire at the same minute (`Apart`). A row says nothing of a sweep that read it
  under another schedule: `Punctual` adds that every row a sweep holds was a row of its schedule,
  and that the time it computed is the first of that schedule after now. That the compare fails
  when the schedule was replaced is where `Apart` is needed: equal times then mean equal schedules.
* `FleetTypeCorrect` and `NoneIsDropped` follow. `OncePerFlow` bounds the starts of an
  occurrence by the number of flow versions; `FiresOnce` is `FiredOnce` where there is one, since a
  deployment that raises the version has a key of its own.

`RunEngineProofs` proves, for any workers, signals, delays and flows (assumption
`EngineConstants`), in two layers:

* `EngineInductive`: `Spec => []Sound`. `Sound` says what the steps take for granted: that a tick
  about to park or to finish has decided on a status of that kind, that nothing touches a run
  before it is submitted, and (`Paid`) that the executions since the last park are in the row's
  attempts. `ExecutionsAreBounded` and `OutcomesAreFinal` follow: a stale worker's park, mark
  or finish leaves a settled row alone because the row operators look at it, and the cap on
  attempts holds because `markRunning` counts before the body runs.
* `OneHistory`: `Spec => []History`, where the codes of a deployment are `Compatible`: they make
  the same calls as far as both go. `ReplaySafe` is not inductive: it speaks of answers, and an
  answer to come is read from a snapshot taken long before. `History` adds that a snapshot is
  the log's beginning, and that each position of the log holds the call that every code makes there,
  without which an instant that is counted down could not be told from a value that is not.
  A body's cursor is then never past the end of the log by more than one, so that a checkpoint
  appends its own outcome or is given another's. `ReplaysAreSafe` and `AnswersAreTheCalls`
  follow. `Compatible` is needed: with other code, `pinDeadline` goes on with its own deadline where
  the log has a step (`context.ts:461`), and memos may be mapped onto the wrong calls under a
  stalled worker (run `signal_wait` says when not). It is not needed that leases last.

  The proofs go through `Goes`: each of a worker's steps ends its tick, loads a snapshot, leaves
  what its body knows alone, or adds one answer of a right kind.

`FanOutProofs` proves, for any number of children and workers, any chunk size, flows and troubles
(assumption `FanOutConstants`), whether or not children are kept (`KeepKids`):

* `FanOutInductive`: `Spec => []IInv`. `KeepsPromise` says nothing of the log, and it is the log that
  keeps a child from being born twice: `Logs` says that, while the parent is there, a position that
  is not written has spawned nobody, whoever stands at it, and `Ticks` that whatever a worker goes by
  (a call it counts as answered, a join it saw logged or is about to log) rests on outcomes the
  children have had, which a retry or a purge does not take back.
* `FanOutKeepsPromise`: `Spec => KeepsPromise`, the refinement of `Nursery`, action by action: an
  invoke that writes its position is a birth, of a chunk at once; a finish, a cancellation and a
  retry are what `Nursery` calls so; everything else stutters.
* `FanOutTypes`: `Spec => []TypeOK`. That a version is left for the next enqueue is by counting
  (`VersionThereIs`): there are more versions to choose from than leases in hand.

Its second part proves `JoinNeverStrands`: `Spec => []JoinWakes`, for any number of children and
workers, any chunk size and any flow, under `Orderly`: children are kept while their parent lives
(`KeepKids`), no failed run is retried by hand, and where the parent sleeps beside its invokes no lease
runs out under its holder. Stalls of all other flows, cancellations, purges and spent runs are in;
crashes and bulk cancels are what `clean` excepts. Each of the three is needed. A child that is gone
has no outcome to arrive with. A `cancelRun` that looked at a failed child strikes it after its retry
and tells nobody, as it was over when it was looked at; the reconciler has to find that parent. And
of two workers of one parent, one may decide to wait and the other to sleep, so that the status of
the last to park says nothing of what the other read.

`JoinWakes` speaks of a parent that has let go of its queue row; whether it may is settled long
before. The invariant (`JInv`) therefore has:

* `HopeInv`: a worker that has decided to wait, or stands before its acknowledgement, and whose lease
  is still as it was claimed, leaves somebody to wake the parent (`Hope`): a child that lives, or
  a process on its way. A wake that comes in between enqueues the parent, whose version then
  differs from the lease's (`VersionThereIs`), so that the acknowledgement keeps the row.
* `LeftInv`: the join counts no more than the children that are not over and the arrivals under way.
  An arrival that wakes nobody has found 2 or more, so another is still to come.
* `Hope` also says that, when a list waits, all its children are born: a join whose children are not
  all there would count children that nobody runs.
* `Minds`: what a process knows of the children at the positions it passed, of the run it is about
  to strike, and that a worker on a live parent does nothing but execute it.
* `ExclInv`: where the parent sleeps too, one worker executes it.

`RunSignalsProofs` proves what RunEngine says of types, of signals and of who goes on with a run, for
any workers, signals, delays and flows, in five parts:

* `TypedInductive`: `Spec => [](Sound /\ Typed)`, from which `EngineTypes`: `Spec => []TypeOK`. `Typed`
  adds to the types what they rest on: an instant in the log is no further off than the longest
  delay, what a tick read and answered has the types its code asks for, and what is in a snapshot
  of the inbox was delivered.
* Under `Timely`, for any codes. `Alone` says that who works on a run holds its job, hence is the
  only one; that the log is as long as what it read or told its body; and that its snapshot
  lacks a delivery only if the job's version has moved since its claim. `OneWorkerAtATime` is its
  invariance. `SignalsWin` follows: a timeout is logged at the version of the claim, so its
  snapshot was the inbox. For `SignalsConservedInTime`, `Mail` adds that no key is delivered twice
  and that a logged signal was delivered under that name.
* Without `Timely`, for codes that are `Compatible`. Several workers then execute on snapshots of
  different age, and a checkpoint takes its signal out of an inbox that may no longer have it.
  What keeps a delivery from being logged at two positions is the order of deliveries. `InTurn`
  says that deliveries under one name are consumed in the order they came (`Fifo`), and of each
  snapshot (`Keeps`) that a delivery left in it is not in the part of the log its tick knows, while
  an earlier delivery under that name is left in it too or is in that part. A tick at the end
  of the log that takes the first of a name thus takes one that the log has not, as otherwise
  the log would be longer. `SignalsAreConserved` is the theorem. It needs `LastWait`: no flow waits
  for a name again after a bounded wait for it. A timeout that was logged over a signal
  (section 7) breaks the order, and TLC shows a delivery consumed twice by a flow that waits again.
* `SignalsWake`: `Spec => []SignalWakes`, also without `Timely`, for codes that are `Compatible`.
  `SignalWakes` speaks of a run without a job, and a job goes at an acknowledgement, long after the
  worker decided to wait. `Attentive` follows it there: while the row's version is still the one a
  tick claimed, nothing was delivered since, so that the snapshot the tick loads has every delivery
  that is not in the part of the log it knows (`Complete`); a tick that finds nothing to take then
  leaves the run `AtRest`, at a wait that no signal in the inbox is for; and it stays so up to the
  acknowledgement, whatever stalled peers write to log and inbox. An acknowledgement at another
  version keeps the job. The theorem is for flows that set no deadline ahead of a wait
  (`WaitsFirst`: no sleep, no retried step, no bounded wait): a run that sleeps ahead of its wait
  has no job while it sleeps, and may have its signal. `RunsAreRecoverable`: `Spec => []Recoverable`
  follows for flows that set no deadline at all (`Plain`).
* `RecoverableInTime`: `Spec => []Recoverable` under `Timely`, for any codes, with sleeps, retries and
  flows a worker does not know, but no bounded wait (`Unbounded`). `Parked` says that a tick about to
  park its run as awaiting a signal stands at an unbounded wait at the end of the log, and that
  once it has parked it so nobody is in the body, who would log more. Both `Plain` and `Unbounded`
  leave out what is lost otherwise: a bounded wait, run `deadline_lost`; and, where leases run out, the
  sleep of section 7.

`BackendsProofs` proves, for any clients, programs of port calls and starting tables that
`CasesAssumption` allows, on all seven backends (assumptions `BackendConstants`, `CasesAssumption`):

* `BackendsInductive`: `Spec => []Inv`, in three layers. What one statement makes of the tables is
  `Sane`: it keeps each group of columns legal, raises the version of a job whose lease it leaves
  where it makes a wake owed, and ends no live lease but its own client's. Calls that several
  backends share keep `Inv` because their statements are sane. Each backend keeps it because each
  of its calls does (`MemoryKeeps` to `DynamoKeeps`).
* `BackendsTypes` is `TypeOK`. `NoWakeLost` is `WakeKept`, which is not inductive: an acknowledgement
  deletes a job. `Leases` adds that a job that still carries a client's lease owes nothing unless its
  version has moved since that client's claim, also between the two statements in which four
  backends acknowledge.
* `OneHolderEach` is `SingleHolder` for programs without a purge (`Purges`), which takes the lease with
  the job. `Firm` says that a lease its holder counts on, and is not letting go of, is on the job
  with that holder's token.
* `TimersHandedOutOnce` is `TimerKept` on all backends but MongoDB, whose `dueBatch` hands out what it
  found and another poller may have taken; `Counted` says that each timer that is set counts once.
* `CronsKeepTheirTimes` is `CronTimes` on all backends but Redis, where a removal is two commands and
  a registration in between leaves row and score apart (section 7).

`BackendsDeedsProofs` goes on to what the calls are for. Seven backends cut some thirty calls into
steps of their own; a `Deed` is what such a step comes to: it leaves row, log, inbox, join, key and
cron alone and wins nothing, or it starts, commits, rewrites a row, reopens, arrives, delivers,
clears, or moves the cron, and says so. That each step of each backend is a deed (`MemoryDeeds` to
`DynamoDeeds`) is proved once, with no assumption on the programs; the theorems speak of deeds. What
they assume of the programs (`Cases`) is what the engine keeps to, or what the code does not
give without it:

* `OneRunPerKey`, `OneDeliveryWins`, `OneRetryWins`, `OneSweepFires`, `OneChildIsLast`, and
  `EachWonOnce`: `Spec => []WonOnce`. The property compares answers and says nothing of tables. The
  invariants tie them: whoever was told of a run was told of the one under the key; a delivery
  that won left its mark; a retry that won, or a child that was the last, leaves no failure and
  no open join unless a call yet to be made brings one (`OneOfEach`, `NoMoreFailures`, `NoMoreJoins`);
  a time that was won is behind the time to come. The first two assume that nobody purges
  (`Purges`), which frees the key and the inbox. A retry is won once per failure, hence `FailsOnce`:
  one call fails a run. A join is resolved once each time it is armed, hence `JoinsOnce`. A cron that
  is registered anew starts from a time that may have been fired (`Registers`).
* `EachBackendKeepsBook`: `Spec => KeepsBook`, the refinement of `RunBook`. Each deed is, for each run, a
  step of the book or a stutter. The invariant (`Shelf`) has the rest: a delivery in an inbox was sent;
  no client has a start or spawn ahead for a run that is there; the checkpoint of MySQL or MongoDB,
  past its first statement, is of a run that is there. It is assumed that nobody purges; that runs are
  created under ids of their own (`NewIds`), as Redis writes a child over one that is there; that
  nobody waits for a signal for a time (`NoWaits`), as the timeout of such a wait rests on the
  job's version, which a job that was acknowledged away and enqueued again has once more, so that it
  holds in time and not by the tables alone; and that MongoDB is asked nothing in bulk
  (`NoBulk`), where it writes by id what it has read (section 7).
* `EmptyClaimsLeaveNothing`: `Spec => ClaimFinds`, with no such assumption. `Mind` says, while a claim of
  two statements is under way, that what was there to be taken all along is among what it holds; a
  claim at its last candidate that ends empty-handed has seen that one taken, so that the
  premise, that nothing changed, is false of it.

The cases of run `backends` show what this takes in. `EachWonOnce` covers twelve of those that TLC runs on
all or most backends (`Keyed`, `Waits`, `Hands`, `Joins`, `Drains`, `Fires`, `Quiet`, `Waiters`, `Shift`, `Sets`,
`Timers`, `Parks`), and `EachBackendKeepsBook` ten (`Keyed`, `Steps`, `Hands`, `Joins`, `Drains`, `Fires`,
`Registers`, `Timers`, `Crons`, `Parks`).

Each strengthened invariant was checked by TLC before it was proved, on the instance of its run
and, for `History`, `InTurn`, `Attentive`, `Parked` and `JInv`, on flows of its own (bounded waits and
sleeps; two deliveries under one name; stalls, purges and cancels beside each way of invoking), and
for `Shelf` and `Mind` on the quiet cases, shards and waiters of run `backends`. For `InTurn` that
search was stopped after 8,900,000 states.

Only model-checked:

* `AlwaysAdvances` and `SignalResolves` of `RunEngine`, and whatever else is liveness: it rests on
  fairness and ENABLED, which are out of the proof system's reach here.
* Of `Backends`: what the theorems leave out by their assumptions, for the programs of the run.
  These are `SingleHolder` where a run is purged, `TimerKept` on MongoDB, `CronTimes` on Redis, `WonOnce`
  beside a purge or a registration, `KeepsBook` with bounded waits, purges and MongoDB's bulk calls.
* `AnswersTrue`, which compares the answer of a read with the history of the whole of it.

## 6. Plan

Done: the queue, the run engine and its signals, families, crons with their evaluator, the worker
loop and the backends, each with its proofs. Left:

1. CronFleet: two versions of a flow under one cron (`Flows` with two members), retry and purge of
   a cron's runs.
2. RunEngine: retries inside a step, and the step timeout that abandons a running body.
3. FanOut: grandchildren; a child purged under a live parent, as a run of its own.
4. Proofs: `AnswersTrue`, read by read; `KeepsBook` with bounded waits while leases last;
   `JoinWakes` with a retry, where no cancellation is under way.
5. Backends: a third client in the races of two, and the event log.

## 7. Not modelled, and why

* Durable Objects: no module of its own. It runs the SQLite statements, one request at a time, of
  which `SqliteBackend` has more interleavings than it.
* Retries inside a step, and the step timeout: they happen within one await of the tick, whose
  outcome (a value, a failure) is what RunEngine has. What an abandoned body goes on to do
  outside the engine is the user's code.
* Typed contracts, observability, webhooks, dashboard, serialisation: they keep no state a
  run depends on. A schema is modelled by its verdict (`Invalid`).
* Conformance suites and lint rules: tests and developer tooling. The suites were read as
  evidence of what the ports promise.
* Encodings, migrations, limits past what there is to find, and the event log of a backend.
* A worker's clock is the shared one: skew between workers' clocks is not modelled.
* The text of a cron expression and the bound of the search for its next fire time.

### Known limits

What the code does and the properties do not cover, met while modelling. They are left out of
a run's programs, or kept in the model with no property that asks for more; `PROJECT.json` has
those that are hazards, with their lines.

Engine:

* A deadline drained before a crash is lost to a bounded wait: the reconciler does not look for
  the status (run `deadline_lost`).
* The timeout of a bounded wait is guarded by the version of the job row at the claim
  (`context.ts:662`), and a row that was deleted and created anew counts from 1 again
  (`memory:101`). A worker claims the run at version 1 and stalls past its lease; a second one
  claims it at version 1 too, parks it and deletes the row; the signal is delivered and creates the
  row at version 1; the first worker goes on, and its timeout is logged with the signal in the inbox,
  although `context.ts:151-153` has the signal win. TLC finds it in seconds if `deadline_lost` is
  given `Timely = FALSE`, two attempts and `SignalWins`. Where the flow waits for that name again
  afterwards, one delivery may then be logged at two positions, by workers that execute at once.
* A stalled worker parks its run by what it saw (`executor.ts:237`, `memory:235`). A worker that found
  no signal stalls past its lease; a peer takes the signal, goes on and parks the run at a sleep; the
  sleep's deadline is drained, and the process that drained it dies before the enqueue. Of a
  sleeping run the reconciler would make up for that; but then the first worker writes
  `awaiting_signal`, and the run is left with nothing that dispatches it until another signal
  comes. TLC finds it in a second for a wait and a sleep, one attempt, leases of one tick and
  `Recoverable`.
* `invokeMany` fails fast only once the children before the failed one are done (run `fast_fail`).
* A run canceled between its load and `markRunning` has its body executed once more
  (`executor.ts:275`); its writes are refused where they matter.
* A worker that loses the race for a deadline's position parks on its own deadline, not on the
  logged one (`context.ts:461`): a wake too early or too late, then the right one.
* A timer may survive the end of its run (`executor.ts:205`), although `outbox.ts:44-46` has it
  cleared; the wake it makes finds a terminal run and is acknowledged.
* A signal whose payload the schema rejects stays in the inbox, and fails each retry of the run
  (`context.ts:394`). A failed child that is retried under a failed parent is canceled again by its
  first dispatch (`executor.ts:266`).
* A child purged under a live parent leaves the parent waiting for a row that never comes.
* The orphans of a join that fails while its children change may be missed by one sweep.
* Skipping crons may overlap (`schedule.ts:57`): the check for a live run and the start are two
  calls, and two workers, or two occurrences, come in between.
* A cron of February 29 has no fire time within the bound of the search between 2096 and 2104
  (`cron.ts:83`); the sweep that meets it throws and leaves those behind it for the next one.
* `nextWakeAt` does not count crons: a host that sleeps until it may sleep past one
  (`worker.ts:362-379`).
* `close()` of the listener does not come back while a connection attempt hangs
  (`postgres/src/notify.ts:221`); one listener shared by two loops serves the one that waits
  first; a second `return()` of a watch may drop another subscriber's set.

Backends:

* Postgres, MySQL and MongoDB load the run, its log and its inbox in several statements: a worker
  whose lease is lost may be handed a log and an inbox of two moments.
* MySQL and MongoDB: a checkpoint looks for its run with a read that locks nothing
  (`mysql/src/store.ts:218`, `mongodb/src/store.ts:277`), and a purge in between leaves a step, or a
  child, of a run that is gone. `Late`, the program of a worker that comes late, is played on them
  without its steps (`LateCalls`).
* MongoDB: the gate of a timeout sets the version it matched, which writes nothing and conflicts with no
  delivery (`mongodb/src/store.ts:282`): the timeout of a bounded wait may be recorded over a signal
  that came between the gate and the commit, on a lease that is held too. `ports/outbox.ts:61-63` asks
  for a write conflict, "never a bare read", and `core/CHANGELOG.md:598-599` claims one for MongoDB. `Waits`
  and `Shift` are not played on it; TLC finds `KeepsBook` violated in seconds if they are, or if
  `LateSteps` is.
* MongoDB: a park that changes nothing of its row conflicts with no cancellation. It may set its timer
  for a run that is over; the wake it makes finds a terminal run.
* MongoDB: `cancelRuns` and `dueBatch` write by id what they found before, and may overwrite an
  outcome settled in between, against `ports/store.ts:140-141`. The programs `Sets` and `Timers`
  are not played on it.
* DynamoDB: `upsertCron` reads, then writes, and may undo an `advanceCron`; `Crons` is not played on
  it. The marker of an idempotency key may survive the purge of its run, and a later start under
  that key throws. Its secondary indexes are taken as up to date.
* Redis: a removal of a cron racing its registration leaves a row and no score, or the reverse;
  children of a purged parent are found no more; an entry of the queue may outlive its job until a
  claim meets it; a claim by name looks at `limit * 10` entries.
* MongoDB's claim by name cuts the batch before it asks for the names.
* A purge and a retry of one run: the purge that listed it as terminal deletes it although it is
  live again, on Postgres, MySQL, MongoDB, Redis and DynamoDB, against `ports/store.ts:163`.
* SQLite on one connection shared by two transactions (op-sqlite) is not modelled.
