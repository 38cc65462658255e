------------------------------- MODULE FanOut -------------------------------
(***************************************************************************)
(* A parent run and the children it spawns with ctx.invoke: how they are   *)
(* spawned, how they arrive at the parent's join, how the parent is woken, *)
(* and how a cancellation or a failure goes down from parent to children.  *)
(*                                                                         *)
(* Run 0 is the parent; its children are numbered in the order its flow    *)
(* invokes them.  A tick is cut at every await, as in RunEngine, whose     *)
(* renewals, retries, back-offs and drifting code are left out here: a run *)
(* past its attempts is one that "may be spent".  The children's bodies    *)
(* return, throw, or wait for a signal.  A lease is live or expired.       *)
(***************************************************************************)
EXTENDS JobTable, RunTable, FiniteSets

CONSTANTS Kids,        \* the children, numbered from 1
          Scenarios,   \* what a behaviour is about: the parent's flow (how it invokes, on
                       \* what terms, whether it sleeps beside that, and which of its
                       \* children wait for a signal) and the troubles it may meet
          ChunkSize,   \* FAN_OUT_CHUNK
          Workers,     \* numbered from 1
          User,        \* the caller of cancelRun: a process beside the workers
          KeepKids     \* TRUE: retention never takes a child whose parent is not over

Modes == {"many",       \* one invoke of a list, in chunks and with a logged join
          "each",       \* one invoke after another
          "together"}   \* several invokes in one Promise.all

(* Each trouble comes at most once, at any point: a caller cancels a run, or a bulk     *)
(* cancel strikes one; a failed run is retried by hand; a run is purged; a run is found *)
(* past its attempts; a process dies; a lease expires under the tick that holds it.     *)
Troubles == {"cancel", "bulk", "retry", "purge", "spent", "crash", "stall"}

ASSUME FanOutConstants ==
  /\ IsFiniteSet(Kids) /\ Kids = 1..Cardinality(Kids)
  /\ IsFiniteSet(Workers) /\ Workers \subseteq Nat \ {0} /\ User \notin Workers
  /\ \A s \in Scenarios :
       /\ s.flow.mode \in Modes /\ {s.flow.settle, s.flow.naps} \subseteq BOOLEAN
       /\ s.flow.waits \subseteq Kids /\ s.troubles \subseteq Troubles
  /\ ChunkSize \in Nat \ {0} /\ KeepKids \in BOOLEAN

Runs == {0} \cup Kids
Procs == Workers \cup {User}

VARIABLES flow,      \* the parent's flow
          trouble,   \* what may still go wrong
          row,       \* run -> its run row
          log,       \* the positions of the parent's log that are written
          left,      \* the parent's joinRemaining; 0 stands for any number below 1
          nap,       \* the deadline of the parent's sleep: "unset", "ahead" or "past"
          timer,     \* whether the parent has a timer
          told,      \* children whose signal was delivered
          job,       \* run -> its row in the dispatch queue
          at,        \* process -> what it holds in memory
          sweep,     \* runs the reconciler has found and not yet enqueued
          births,    \* history: child -> times it was spawned
          ended,     \* history: child -> the outcomes it has had
          clean      \* history: no process died, and no bulk cancel was made

store == <<row, log, left, nap, timer, told>>
vars == <<flow, trouble, store, job, at, sweep, births, ended, clean>>

(* The positions at which the flow spawns, and the one that logs the join of a list. *)
Per == IF flow.mode = "many" THEN ChunkSize ELSE 1
SpawnedAt(p) == {k \in Kids : (p - 1) * Per < k /\ k <= p * Per}
Positions == {p \in Kids : SpawnedAt(p) # {}}
JoinAt == Cardinality(Kids) + 1
NapAt == 0
Calls == Positions \cup IF flow.naps THEN {NapAt} ELSE {}

(* What a process holds: where it is, the run it works for and its lease, the log (or  *)
(* the signal) it has seen, how far each of the parent's calls is, the first of them   *)
(* that was not answered, whether a deadline was armed; and, of a cancellation, the    *)
(* run to strike, whether that was live when looked at, and the children to come.      *)
Idle == [pc |-> "idle", run |-> 0, lease |-> NoLease, seen |-> {}, call |-> <<>>,
         first |-> "none", wake |-> FALSE, out |-> "none", target |-> 0, todo |-> {},
         live |-> FALSE]

Init ==
  /\ \E s \in Scenarios : flow = s.flow /\ trouble = s.troubles
  /\ row = [r \in Runs |-> IF r = 0 THEN Fresh ELSE NoRun]
  /\ log = {} /\ left = 0 /\ nap = "unset" /\ timer = FALSE /\ told = {}
  /\ job = [r \in Runs |-> IF r = 0 THEN Enqueued(NoJob, 0) ELSE NoJob]
  /\ at = [p \in Procs |-> Idle] /\ sweep = {}
  /\ births = [k \in Kids |-> 0] /\ ended = [k \in Kids |-> {}] /\ clean = TRUE

Meets(t) == t \in trouble /\ trouble' = trouble \ {t}

Live(r) == row[r].status \in Active
Over(r) == row[r].status \in Terminal
Fallen(r) == row[r].status \in {"failed", "canceled"}
Lost(r) == row[r] = NoRun

(* Versions are only compared with those of leases in hand, so one that none of them *)
(* carries serves for the next.                                                      *)
NextVersion(r) ==
  CHOOSE v \in 1..Cardinality(Workers) + 1 :
    /\ \A w \in Workers : at[w].run = r => at[w].lease.version # v
    /\ \A u \in 1..v - 1 : \E w \in Workers : at[w].run = r /\ at[w].lease.version = u
Queued(r) == [Enqueued(job[r], 0) EXCEPT !.version = NextVersion(r)]

Enqueue(r) == job' = [job EXCEPT ![r] = Queued(r)]

(* Attempts are not counted here: a row is its status. *)
Put(r, rec) ==
  /\ row' = [row EXCEPT ![r] = [rec EXCEPT !.attempts = 0]]
  /\ ended' = [k \in Kids |-> IF k = r /\ rec.status \in Terminal THEN ended[k] \cup {rec.status}
                              ELSE ended[k]]

Goes(p, x) == at' = [at EXCEPT ![p] = x]

-----------------------------------------------------------------------------
(* A tick up to the flow body *)

Claim(w, r) ==
  /\ at[w].pc = "idle" /\ Claimable(job[r], 0)
  /\ job' = [job EXCEPT ![r] = Claimed(@, w, 1)]
  /\ Goes(w, [Idle EXCEPT !.pc = "load", !.run = r, !.lease = LeaseOn(job'[r])])
  /\ UNCHANGED <<flow, trouble, store, sweep, births, ended, clean>>

Kept(x) == [Idle EXCEPT !.run = x.run, !.lease = x.lease]
Acking(x) == [Kept(x) EXCEPT !.pc = "ack"]

(* A child looks at its parent before anything else. *)
Load(w) ==
  /\ at[w].pc = "load"
  /\ LET r == at[w].run
     IN  Goes(w, IF Lost(r) \/ Over(r) THEN Acking(at[w])
                 ELSE [Kept(at[w]) EXCEPT !.pc = IF r = 0 THEN "mark" ELSE "pull",
                                          !.seen = IF r = 0 THEN log ELSE told \cap {r}])
  /\ UNCHANGED <<flow, trouble, store, job, sweep, births, ended, clean>>

(* A pull check that trusts the cascade to reach every child. *)
Trusting(w) == at[w].pc = "pull" /\ Goes(w, [at[w] EXCEPT !.pc = "mark"])

Pull(w) ==
  /\ at[w].pc = "pull"
  /\ Goes(w, IF Fallen(0) THEN [Kept(at[w]) EXCEPT !.pc = "fallen"]
             ELSE [at[w] EXCEPT !.pc = "mark"])

PullCheck(w) == Pull(w) /\ UNCHANGED <<flow, trouble, store, job, sweep, births, ended, clean>>

(* markRunning: the status read at load is not read again. *)
MarkRunning(w, spent) ==
  /\ at[w].pc = "mark" /\ ~Lost(at[w].run)
  /\ IF spent THEN Meets("spent") ELSE UNCHANGED trouble
  /\ Put(at[w].run, MarkedRunning(row[at[w].run]))
  /\ Goes(w, IF spent THEN [Kept(at[w]) EXCEPT !.pc = "spent"]
             ELSE [at[w] EXCEPT !.pc = "body",
                     !.call = IF at[w].run = 0 THEN [p \in Calls |-> "due"] ELSE <<>>])
  /\ UNCHANGED <<flow, log, left, nap, timer, told, job, sweep, births, clean>>

(* The outcome is written; a failed parent goes on to its descendants, and a child   *)
(* to its arrival at the join.                                                       *)
Finish(w, out) ==
  /\ Put(at[w].run, Terminated(row[at[w].run], out))
  /\ Goes(w, [Kept(at[w]) EXCEPT !.out = IF at[w].run = 0 THEN "none" ELSE out,
                 !.pc = IF at[w].run # 0 THEN "arrive"
                        ELSE IF out = "failed" THEN "kids" ELSE "ack"])
  /\ UNCHANGED <<flow, trouble, log, left, nap, timer, told, job, sweep, births, clean>>

Suspend(w, status) ==
  /\ Put(at[w].run, Suspended(row[at[w].run], status))
  /\ timer' = (timer \/ (at[w].wake /\ ~Over(at[w].run)))
  /\ Goes(w, Acking(at[w]))
  /\ UNCHANGED <<flow, trouble, log, left, nap, told, job, sweep, births, clean>>

FinishSpent(w) == at[w].pc = "spent" /\ ~Lost(at[w].run) /\ Finish(w, "failed")

(* A child's body.  The one that waits for its signal parks until it has seen it. *)
InChild(w) == at[w].pc = "body" /\ at[w].run \in Kids /\ ~Lost(at[w].run)

ChildParks(w) ==
  /\ InChild(w) /\ at[w].run \in flow.waits \ at[w].seen
  /\ Suspend(w, "awaiting_signal")

ChildEnds(w, out) ==
  /\ InChild(w)
  /\ out = "done" => at[w].run \notin flow.waits \ at[w].seen
  /\ Finish(w, out)

-----------------------------------------------------------------------------
(* The parent's body.  A call is due, then written, then its child's row is read; it *)
(* is answered, or suspends, or throws.                                              *)

InParent(w) == at[w].pc = "body" /\ at[w].run = 0 /\ ~Lost(0)
Turn(w, p) == flow.mode = "together" \/ \A q \in Calls : q < p => at[w].call[q] = "ok"
Doing(w, p, phase) == InParent(w) /\ at[w].call[p] = phase /\ Turn(w, p)

Sets(x, p, phase) ==
  [x EXCEPT !.call[p] = phase,
            !.first = IF @ = "none" /\ phase \notin {"ok", "read"} THEN phase ELSE @]

(* Once written: a chunk of a list needs nothing more, an invoke reads its child. *)
Written == IF flow.mode = "many" THEN "ok" ELSE "read"

(* A spawn that runs ahead of the checkpoint that owns it. *)
SpawnAlways(w, p) ==
  /\ log' = log \cup {p}
  /\ births' = [k \in Kids |-> IF k \in SpawnedAt(p) /\ births[k] < 2 THEN births[k] + 1 ELSE births[k]]
  /\ row' = [r \in Runs |-> IF r \in SpawnedAt(p) THEN Fresh ELSE row[r]]
  /\ job' = [r \in Runs |-> IF r \in SpawnedAt(p) THEN Queued(r) ELSE job[r]]
  /\ left' = IF flow.mode # "many" THEN 1 ELSE IF p = 1 THEN Cardinality(Kids) ELSE left

(* The join counts this chunk alone. *)
SpawnCountsChunk(w, p) ==
  IF p \in log THEN UNCHANGED <<log, births, row, job, left>>
  ELSE /\ log' = log \cup {p}
       /\ births' = [k \in Kids |-> IF k \in SpawnedAt(p) THEN births[k] + 1 ELSE births[k]]
       /\ row' = [r \in Runs |-> IF r \in SpawnedAt(p) THEN Fresh ELSE row[r]]
       /\ job' = [r \in Runs |-> IF r \in SpawnedAt(p) THEN Queued(r) ELSE job[r]]
       /\ left' = left + Cardinality(SpawnedAt(p)) + 1

(* The checkpoint, its children, their enqueues and the join's target are one write, *)
(* made by the first worker at this position alone.                                  *)
Spawned(w, p) ==
  IF p \in log THEN UNCHANGED <<log, births, row, job, left>>
  ELSE /\ log' = log \cup {p}
       /\ births' = [k \in Kids |-> IF k \in SpawnedAt(p) THEN births[k] + 1 ELSE births[k]]
       /\ row' = [r \in Runs |-> IF r \in SpawnedAt(p) THEN Fresh ELSE row[r]]
       /\ job' = [r \in Runs |-> IF r \in SpawnedAt(p) THEN Queued(r) ELSE job[r]]
       /\ left' = IF flow.mode # "many" THEN 1 ELSE IF p = 1 THEN Cardinality(Kids) ELSE left

Invoke(w, p) ==
  /\ Doing(w, p, "due") /\ p # NapAt
  /\ IF p \in at[w].seen THEN UNCHANGED <<log, births, row, job, left>> ELSE Spawned(w, p)
  /\ Goes(w, Sets(at[w], p, Written))
  /\ UNCHANGED <<flow, trouble, nap, timer, told, sweep, ended, clean>>

(* childResult: nothing while the child's row is live, or is not there. *)
Answer(k) == IF row[k].status = "done" THEN "ok"
             ELSE IF ~Fallen(k) THEN "wait" ELSE IF flow.settle THEN "ok" ELSE "throw"

ReadChild(w, p) ==
  /\ flow.mode # "many" /\ p # NapAt /\ Doing(w, p, "read")
  /\ Goes(w, Sets(at[w], p, Answer(p)))
  /\ UNCHANGED <<flow, trouble, store, job, sweep, births, ended, clean>>

(* The rows of a list are read together and looked at in order: the first that has   *)
(* no answer, or throws, decides.                                                    *)
FirstOf(S) == CHOOSE k \in S : \A q \in S : k <= q
Undecided == {k \in Kids : Answer(k) # "ok"}

ReadChildren(w) ==
  /\ InParent(w) /\ flow.mode = "many" /\ at[w].first = "none"
  /\ \A p \in Calls : at[w].call[p] = "ok"
  /\ JoinAt \notin at[w].seen
  /\ Goes(w, IF Undecided = {} THEN [at[w] EXCEPT !.pc = "join"]
             ELSE [at[w] EXCEPT !.first = Answer(FirstOf(Undecided))])
  /\ UNCHANGED <<flow, trouble, store, job, sweep, births, ended, clean>>

LogJoin(w) ==
  /\ at[w].pc = "join" /\ ~Lost(0)
  /\ log' = log \cup {JoinAt}
  /\ Goes(w, [at[w] EXCEPT !.pc = "body", !.seen = @ \cup {JoinAt}])
  /\ UNCHANGED <<flow, trouble, row, left, nap, timer, told, job, sweep, births, ended, clean>>

(* A sleep beside the invokes: its deadline is pinned, and slept to. *)
Sleep(w) ==
  /\ NapAt \in Calls /\ Doing(w, NapAt, "due")
  /\ nap' = IF nap = "unset" THEN "ahead" ELSE nap
  /\ Goes(w, IF nap = "past" /\ NapAt \in at[w].seen THEN Sets(at[w], NapAt, "ok")
             ELSE [Sets(at[w], NapAt, "nap") EXCEPT !.wake = TRUE])
  /\ log' = log \cup {NapAt}
  /\ UNCHANGED <<flow, trouble, row, left, timer, told, job, sweep, births, ended, clean>>

(* The body is over when no call of it is under way: it returned, or what was thrown  *)
(* first comes out of it.  Calls that were made with it have been waited for.         *)
Open(w) == {p \in Calls : at[w].call[p] \in {"due", "read"} /\ Turn(w, p)}
Answered(w) == \A p \in Calls : at[w].call[p] = "ok"

ParentEnds(w) ==
  /\ InParent(w) /\ Open(w) = {}
  /\ \/ /\ at[w].first = "none" /\ Answered(w)
        /\ flow.mode = "many" => JoinAt \in at[w].seen
        /\ Finish(w, "done")
     \/ at[w].first = "throw" /\ Finish(w, "failed")
     \/ at[w].first = "wait" /\ Suspend(w, "awaiting_child")
     \/ at[w].first = "nap" /\ Suspend(w, "sleeping")

-----------------------------------------------------------------------------
(* The join *)

(* A join that counts down to zero and wakes nobody for a failure on the way. *)
ArriveCounting(p) ==
  /\ at[p].pc = "arrive"
  /\ left' = IF Lost(0) \/ left = 0 THEN left ELSE left - 1
  /\ Goes(p, [at[p] EXCEPT !.pc = IF ~Lost(0) /\ left <= 1 /\ at[p].out # "failed"
                                  THEN "wake" ELSE "ack"])

(* A child arrives at its parent's join; the last one, and every one that did not    *)
(* succeed, goes on to wake the parent.  A parent that is gone counts nobody.        *)
Arrive(p) ==
  /\ at[p].pc = "arrive"
  /\ left' = IF Lost(0) \/ left = 0 THEN left ELSE left - 1
  /\ Goes(p, [at[p] EXCEPT !.pc = IF at[p].out # "done" \/ (~Lost(0) /\ left <= 1)
                                  THEN "wake" ELSE "ack"])

Arrival(p) ==
  /\ Arrive(p)
  /\ UNCHANGED <<flow, trouble, row, log, nap, timer, told, job, sweep, births, ended, clean>>

(* Where a cancellation goes after the run it struck. *)
Onward(x) ==
  IF x.todo # {} THEN [Kept(x) EXCEPT !.pc = "next", !.todo = x.todo]
  ELSE IF x.lease = NoLease THEN Idle ELSE Acking(x)

Wake(p) ==
  /\ at[p].pc = "wake" /\ Enqueue(0)
  /\ Goes(p, Onward(at[p]))
  /\ UNCHANGED <<flow, trouble, store, sweep, births, ended, clean>>

Ack(w) ==
  /\ at[w].pc = "ack"
  /\ job' = [job EXCEPT ![at[w].run] = Acked(@, at[w].lease, 0)]
  /\ Goes(w, Idle)
  /\ UNCHANGED <<flow, trouble, store, sweep, births, ended, clean>>

-----------------------------------------------------------------------------
(* cancelRun, by a caller, or by the worker of a failed parent or of a child whose   *)
(* parent has fallen.                                                                *)

(* Its first look at the run it is to strike. *)
Looked(x, r) == [x EXCEPT !.pc = "strike", !.target = r, !.live = Live(r)]

CancelRun(r) ==
  /\ Meets("cancel") /\ at[User].pc = "idle" /\ ~Lost(r)
  /\ Goes(User, Looked(Idle, r))
  /\ UNCHANGED <<flow, store, job, sweep, births, ended, clean>>

CancelSelf(w) ==
  /\ at[w].pc = "fallen"
  /\ Goes(w, Looked(at[w], at[w].run))
  /\ UNCHANGED <<flow, trouble, store, job, sweep, births, ended, clean>>

(* A cancelled parent takes its children along; a cancelled child tells its parent,   *)
(* if it was live when it was looked at.                                              *)
Strike(p) ==
  /\ at[p].pc = "strike" /\ ~Lost(at[p].target)
  /\ Put(at[p].target, Terminated(row[at[p].target], "canceled"))
  /\ timer' = (timer /\ (at[p].target # 0 \/ Over(0)))
  /\ Goes(p, IF at[p].target = 0 THEN [at[p] EXCEPT !.pc = "kids"]
             ELSE IF at[p].live THEN [at[p] EXCEPT !.pc = "tell"] ELSE Onward(at[p]))
  /\ UNCHANGED <<flow, trouble, log, left, nap, told, job, sweep, births, clean>>

(* wakeParent: a parent that is live is told, whatever its join still counts. *)
TellParent(p) ==
  /\ at[p].pc = "tell"
  /\ Goes(p, IF Live(0) THEN [at[p] EXCEPT !.pc = "arrive", !.out = "canceled"]
             ELSE Onward(at[p]))
  /\ UNCHANGED <<flow, trouble, store, job, sweep, births, ended, clean>>

(* cancelDescendants: the children there are now, and live, one by one. *)
ListKids(p) ==
  /\ at[p].pc = "kids"
  /\ Goes(p, Onward([at[p] EXCEPT !.todo = {k \in Kids : Live(k)}]))
  /\ UNCHANGED <<flow, trouble, store, job, sweep, births, ended, clean>>

CancelKid(p) ==
  /\ at[p].pc = "next"
  /\ \E k \in at[p].todo : Goes(p, Looked([at[p] EXCEPT !.todo = @ \ {k}], k))
  /\ UNCHANGED <<flow, trouble, store, job, sweep, births, ended, clean>>

(* A store call finds the run purged and throws: the tick, or the cancel, breaks off. *)
RunGone(p) ==
  /\ \/ at[p].pc \in {"mark", "body", "join", "spent"} /\ Lost(at[p].run)
     \/ at[p].pc = "strike" /\ Lost(at[p].target)
  /\ Goes(p, Idle)
  /\ UNCHANGED <<flow, trouble, store, job, sweep, births, ended, clean>>

-----------------------------------------------------------------------------
(* What operators, callers and time do *)

(* cancelRuns, of one run of its batch: no parent is told and no child is struck. *)
BulkCancel(r) ==
  /\ Meets("bulk") /\ Live(r)
  /\ Put(r, Terminated(row[r], "canceled")) /\ clean' = FALSE
  /\ timer' = (timer /\ r # 0)
  /\ UNCHANGED <<flow, log, left, nap, told, job, at, sweep, births>>

RetryRun(r) ==
  /\ Meets("retry") /\ row[r].status = "failed"
  /\ Put(r, Fresh) /\ Enqueue(r)
  /\ UNCHANGED <<flow, log, left, nap, timer, told, at, sweep, births, clean>>

(* deleteRuns, of one run of its batch. *)
PurgeRun(r) ==
  /\ Meets("purge") /\ Over(r) /\ (KeepKids /\ r # 0 => ~Live(0))
  /\ Put(r, NoRun) /\ job' = [job EXCEPT ![r] = NoJob]
  /\ told' = told \ {r}
  /\ IF r = 0 THEN log' = {} /\ left' = 0 /\ timer' = FALSE
              ELSE UNCHANGED <<log, left, timer>>
  /\ UNCHANGED <<flow, nap, at, sweep, births, clean>>

(* Delivery and wake are one write, to a run that is there or not. *)
SignalChild(k) ==
  /\ k \in flow.waits \ told /\ births[k] > 0 /\ ~Lost(k)
  /\ told' = told \cup {k} /\ Enqueue(k)
  /\ UNCHANGED <<flow, trouble, row, log, left, nap, timer, at, sweep, births, ended, clean>>

NapOver ==
  /\ nap = "ahead" /\ nap' = "past"
  /\ UNCHANGED <<flow, trouble, row, log, left, timer, told, job, at, sweep, births, ended, clean>>

DrainTimer(w) ==
  /\ at[w].pc = "idle" /\ timer /\ nap = "past"
  /\ timer' = FALSE /\ Goes(w, [Idle EXCEPT !.pc = "wake"])
  /\ UNCHANGED <<flow, trouble, row, log, left, nap, told, job, sweep, births, ended, clean>>

Deserted(r) == \A w \in Workers : at[w].run = r => at[w].lease.token # job[r].token

Expire(r) ==
  /\ job[r].expires = 1
  /\ IF Deserted(r) THEN UNCHANGED trouble ELSE Meets("stall")
  /\ job' = [job EXCEPT ![r].expires = 0, ![r].token = 0]
  /\ UNCHANGED <<flow, store, at, sweep, births, ended, clean>>

(* isOrphaned: stranded off the queue; a parent whose join is resolved; a live child *)
(* of a parent that has fallen.                                                      *)
Offspring == {k \in Kids : ~Lost(k)}
Stranded(r) == row[r].status \in Reconcilable /\ ~job[r].queued /\ ~(r = 0 /\ timer)
JoinResolved ==
  /\ row[0].status = "awaiting_child" /\ ~job[0].queued
  /\ Offspring # {}
  /\ (\E k \in Offspring : Fallen(k)) \/ \A k \in Offspring : Over(k)
Abandoned(r) == r # 0 /\ Live(r) /\ Fallen(0)

(* A reconciler that looks at a run alone, and not at its parent or its children. *)
StrandedAlone == {r \in Runs : Stranded(r)}

Orphans == {r \in Runs : Stranded(r) \/ (r = 0 /\ JoinResolved) \/ Abandoned(r)}

ReconcileScan ==
  /\ sweep = {} /\ Orphans # {} /\ sweep' = Orphans
  /\ UNCHANGED <<flow, trouble, store, job, at, births, ended, clean>>

ReconcileEnqueue ==
  /\ sweep # {} /\ sweep' = {}
  /\ job' = [r \in Runs |-> IF r \in sweep THEN Queued(r) ELSE job[r]]
  /\ UNCHANGED <<flow, trouble, store, at, births, ended, clean>>

(* A process dies, between any two of its steps. *)
Crash(p) ==
  /\ Meets("crash") /\ at[p].pc # "idle"
  /\ Goes(p, Idle) /\ clean' = FALSE
  /\ UNCHANGED <<flow, store, job, sweep, births, ended>>

-----------------------------------------------------------------------------

Body(w) ==
  \/ \E p \in Calls : Invoke(w, p) \/ ReadChild(w, p)
  \/ ReadChildren(w) \/ LogJoin(w) \/ Sleep(w) \/ ParentEnds(w) \/ ChildParks(w)
  \/ \E out \in {"done", "failed"} : ChildEnds(w, out)

Canceling(p) ==
  \/ Strike(p) \/ TellParent(p) \/ ListKids(p) \/ CancelKid(p)
  \/ Arrival(p) \/ Wake(p) \/ RunGone(p)

Work(w) ==
  \/ Load(w) \/ PullCheck(w) \/ Body(w) \/ FinishSpent(w) \/ CancelSelf(w) \/ Ack(w) \/ Canceling(w)
  \/ \E spent \in BOOLEAN : MarkRunning(w, spent)

Operators(r) == CancelRun(r) \/ BulkCancel(r) \/ RetryRun(r) \/ PurgeRun(r)

Next ==
  \/ \E w \in Workers : Work(w) \/ DrainTimer(w) \/ \E r \in Runs : Claim(w, r)
  \/ Canceling(User) \/ \E r \in Runs : Operators(r) \/ Expire(r)
  \/ \E k \in Kids : SignalChild(k)
  \/ NapOver \/ ReconcileScan \/ ReconcileEnqueue \/ \E p \in Procs : Crash(p)

Spec == Init /\ [][Next]_vars

(* Every process goes on with what it began; whatever is claimable, or due, is in the  *)
(* end claimed, or drained, by some worker; time passes, and the reconciler runs.      *)
Fairness ==
  /\ \A w \in Workers : WF_vars(Work(w))
  /\ WF_vars(Canceling(User))
  /\ \A r \in Runs : SF_vars(\E w \in Workers : Claim(w, r)) /\ WF_vars(Expire(r) /\ UNCHANGED trouble)
  /\ SF_vars(\E w \in Workers : DrainTimer(w)) /\ WF_vars(NapOver)
  /\ WF_vars(ReconcileScan) /\ WF_vars(ReconcileEnqueue)

LiveSpec == Spec /\ Fairness

-----------------------------------------------------------------------------

TypeOK ==
  /\ flow \in {s.flow : s \in Scenarios} /\ trouble \subseteq Troubles /\ row \in [Runs -> RunRow]
  /\ log \subseteq Calls \cup {JoinAt} /\ left \in Nat /\ left <= Cardinality(Kids)
  /\ nap \in {"unset", "ahead", "past"} /\ timer \in BOOLEAN /\ told \subseteq Kids
  /\ job \in [Runs -> Job] /\ \A r \in Runs : WellFormed(job[r])
  /\ sweep \subseteq Runs /\ births \in [Kids -> Nat]

(* No join is left waiting (invokeMany, arriveAtJoin): while no process has died and no *)
(* bulk cancel was made, a parent that awaits its children and is not queued has a live *)
(* child, or somebody on the way to wake it.  The arrival is a call of its own after    *)
(* the outcome, and the parent may be parking meanwhile: neither order strands it.      *)
ToWake(p) == at[p].pc \in {"wake", "strike", "tell", "arrive"}
Parked == row[0].status = "awaiting_child" /\ ~job[0].queued
JoinWakes ==
  clean /\ Parked /\ (\A p \in Procs : ~ToWake(p)) => \E k \in Kids : Live(k)

(* What invoke promises (invokeOne, invokeMany, childResult): a child is spawned once,   *)
(* whatever replays, and the parent is done only on outcomes its children reached.       *)
Promise == INSTANCE Nursery WITH
  Kids <- Kids, tolerant <- flow.settle,
  parent <- IF Live(0) THEN "live" ELSE IF Lost(0) THEN "gone" ELSE row[0].status,
  kid <- [k \in Kids |-> IF births[k] = 0 THEN "unborn" ELSE IF births[k] > 1 THEN "twins"
                         ELSE IF Live(k) THEN "live" ELSE IF Lost(k) THEN "gone"
                         ELSE row[k].status],
  ended <- ended
KeepsPromise == Promise!Spec

(* No child outlives a fallen parent (cancelDescendants, the pull check, isOrphaned):   *)
(* whatever the cascade missed while the parent was still spawning, or left behind when *)
(* its process died, is cancelled in the end, unless the parent is retried.             *)
ChildrenEnd == Fallen(0) ~> ~Fallen(0) \/ \A k \in Kids : ~Live(k)

(* A parent ends (arriveAtJoin, reconcile): it is over again and again, unless a child  *)
(* of it waits for a signal, whatever arrival, wake or cascade was lost on the way.     *)
AwaitsCaller == \E k \in flow.waits : row[k].status = "awaiting_signal"
Completes == []<>(~Live(0) \/ AwaitsCaller)

(* "Fast-fail": when a child fails, the parent fails without waiting for the others      *)
(* (InvokeOpts.onChildFailure, the doc of ctx.invoke).                                   *)
FastFail == ~flow.settle /\ (\E k \in Kids : Fallen(k)) ~> ~Live(0)
=============================================================================
