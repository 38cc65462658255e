--------------------------- MODULE BackendTables ---------------------------
(***************************************************************************)
(* What the storage backends have in common: the tables behind the Store,  *)
(* Queue and Timer ports, the clients that call the ports, and what one    *)
(* statement makes of the tables.  A backend's module says which           *)
(* statements each call of a port is made of, and which of them are one    *)
(* transaction: a call is a sequence of steps, and the steps of different  *)
(* clients interleave.                                                     *)
(*                                                                         *)
(* Run 0 is there from the start; a client that creates a run creates the  *)
(* one of its own number.  A lease is live (1) or expired (0), and every   *)
(* job is due.  There is one start key, one signal, one cron.              *)
(***************************************************************************)
EXTENDS JobTable, RunTable, Integers, FiniteSets

CONSTANTS Clients,   \* processes that call the ports, numbered from 1
          Window     \* how many of a queue's first entries one claim looks at

ASSUME BackendConstants ==
  /\ Cardinality(Clients) \in Nat /\ Clients = 1..Cardinality(Clients)
  /\ Window \in Nat \ {0}

VARIABLES db,     \* the tables
          todo,   \* client -> the calls it has yet to make
          at,     \* client -> how far its call is, and what it holds
          told,   \* history: client -> the answers it was given
          host    \* the backend, and whether a lease may still expire too early

Runs == {0} \cup Clients
Positions == 1..2
NoOne == -1

(* An entry of a step log: who wrote it, and what: a step, a spawn, a signal, a timeout. *)
NoEntry == [by |-> 0, what |-> "nothing"]

NoCron == [schedule |-> 0, next |-> 0]

(* The tables.  "queue" and "ripe" are the sorted sets that a Redis server keeps beside *)
(* the job rows and the cron row; "key" is a column of the run that holds it, or, in      *)
(* DynamoDB, an item of its own.                                                         *)
Tables ==
  [row    : [Runs -> RunRow],
   log    : [Runs -> [Positions -> [by : Runs, what : {"nothing", "step", "spawn", "signal", "timeout"}]]],
   mail   : [Runs -> BOOLEAN],              \* the signal is in the run's inbox
   sent   : [Runs -> BOOLEAN],              \* the key of the signal's delivery was seen
   left   : [Runs -> Int],                  \* joinRemaining
   kids   : SUBSET Runs,                    \* the runs whose parent is run 0
   job    : [Runs -> Job],
   timer  : [Runs -> {"none", "ahead", "due"}],
   key    : Runs \cup {NoOne},             \* the run that holds the start key
   cron   : [schedule : 0..2, next : Nat],  \* schedule 0: no row
   queue  : SUBSET Runs,
   ripe   : Nat,                            \* 0: the cron is not in the sorted set
   owed   : SUBSET Runs,                    \* history: runs enqueued since their last claim
   alarms : [Runs -> Int]]                  \* history: timers set, less those handed out or cancelled

Empty ==
  [row |-> [r \in Runs |-> NoRun], log |-> [r \in Runs |-> [p \in Positions |-> NoEntry]],
   mail |-> [r \in Runs |-> FALSE], sent |-> [r \in Runs |-> FALSE],
   left |-> [r \in Runs |-> 0], kids |-> {}, job |-> [r \in Runs |-> NoJob],
   timer |-> [r \in Runs |-> "none"], key |-> NoOne, cron |-> NoCron,
   queue |-> {}, ripe |-> 0, owed |-> {}, alarms |-> [r \in Runs |-> 0]]

There(d, r) == d.row[r] # NoRun
LiveIn(d, r) == d.row[r].status \in Active
OverIn(d, r) == d.row[r].status \in Terminal

-----------------------------------------------------------------------------
(* What one statement makes of the tables *)

(* Rows as they are created, and as a retry leaves them. *)
Pending(d, R) ==
  [d EXCEPT !.row = [r \in Runs |-> IF r \in R THEN Fresh ELSE @[r]]]

(* Rows created as children of run 0. *)
Born(d, R) == [Pending(d, R) EXCEPT !.kids = @ \cup R]

(* The upsert of a job; a Redis server keeps the run in a sorted set as well. *)
Enqueuing(d, R) ==
  [d EXCEPT !.job = [r \in Runs |-> IF r \in R THEN Enqueued(@[r], 0) ELSE @[r]],
            !.owed = @ \cup R]

Minus(f, R) == [r \in Runs |-> IF r \in R THEN f[r] - 1 ELSE f[r]]
Set(d) == {r \in Runs : d.timer[r] # "none"}

Scheduled(d, r) ==
  [d EXCEPT !.timer[r] = "ahead", !.alarms[r] = IF d.timer[r] = "none" THEN @ + 1 ELSE @]
TimerGone(d, R) == [d EXCEPT !.timer = [r \in Runs |-> IF r \in R THEN "none" ELSE @[r]]]
Unscheduled(d, R) == [TimerGone(d, R) EXCEPT !.alarms = Minus(@, R \cap Set(d))]
HandedOut(d, R) == [d EXCEPT !.alarms = Minus(@, R)]

StatusSet(d, R, status) ==
  [d EXCEPT !.row = [r \in Runs |-> IF r \in R THEN [@[r] EXCEPT !.status = status] ELSE @[r]]]

Delivered(d, r) == [d EXCEPT !.mail[r] = TRUE, !.sent[r] = TRUE]

(* What is kept of a run: its steps, its inbox, its job, its timer, the row, its key. *)
Parts == {"log", "mail", "job", "timer", "row", "key"}
Without(d, R, parts) ==
  LET Gone(part, f, none) == [r \in Runs |-> IF r \in R /\ part \in parts THEN none ELSE f[r]]
  IN  [d EXCEPT !.log = Gone("log", @, [p \in Positions |-> NoEntry]),
                !.mail = Gone("mail", @, FALSE), !.sent = Gone("mail", @, FALSE),
                !.job = Gone("job", @, NoJob), !.owed = IF "job" \in parts THEN @ \ R ELSE @,
                !.timer = Gone("timer", @, "none"), !.alarms = Gone("timer", @, 0),
                !.row = Gone("row", @, NoRun), !.left = Gone("row", @, 0),
                !.kids = IF "row" \in parts THEN @ \ R ELSE @,
                !.key = IF @ \in R /\ "key" \in parts THEN NoOne ELSE @]
Erased(d, R) == Without(d, R, Parts)

(* A claim leases a job; an acknowledgement deletes it, or lets go of it. *)
ClaimedBy(d, r, c) == [d EXCEPT !.job[r] = Claimed(@, c, 1), !.owed = @ \ {r}]
Renewed(d, r) == [d EXCEPT !.job[r] = Extended(@, 1)]
Dequeued(d, r) == [d EXCEPT !.job[r] = NoJob]
LetGo(d, r) == [d EXCEPT !.job[r] = Released(@)]

Due(d) == {r \in Runs : Claimable(d.job[r], 0)}
Past(d) == {r \in Runs : d.timer[r] = "due"}

(* A registration that never touches a next time that is there. *)
CronKept(d, spec) == IF d.cron = NoCron THEN spec ELSE [spec EXCEPT !.next = d.cron.next]

(* A registration keeps the next time of an unchanged schedule. *)
CronOf(d, spec) ==
  IF d.cron.schedule = spec.schedule THEN d.cron ELSE spec

-----------------------------------------------------------------------------
(* The clients *)

(* What a client holds: how far its call is ("call": not begun), the runs and the cron   *)
(* row the call has read, which parts of the runs it has yet to delete, what it has found *)
(* and the run its page ends at; and, from one call to the next, the lease of its last    *)
(* claim and the run it is for, its snapshot of a run, and the cron it was shown.          *)
Ready == [pc |-> "call", got |-> {}, parts |-> {}, seen |-> NoCron, out |-> {}, looks |-> {},
          page |-> {}, cursor |-> Cardinality(Runs), run |-> 0, lease |-> NoLease,
          snap |-> [log |-> [p \in Positions |-> NoEntry], mail |-> FALSE], cron |-> NoCron]

Call(c) == Head(todo[c])
On(c, op, pc) == todo[c] # <<>> /\ Call(c).op = op /\ at[c].pc = pc
Calls(c, op) == On(c, op, "call")

(* A step that leaves its call unfinished. *)
Goes(c, d, x) == db' = d /\ at' = [at EXCEPT ![c] = x] /\ UNCHANGED <<todo, told, host>>
Writes(c, d, pc) == Goes(c, d, [at[c] EXCEPT !.pc = pc])
Reads(c, pc, got) == Goes(c, db, [at[c] EXCEPT !.pc = pc, !.got = got])

(* The last step of a call: the tables, what the client holds on to, and the answer. *)
EndsWith(c, d, x, answer) ==
  /\ db' = d
  /\ at' = [at EXCEPT ![c] = [x EXCEPT !.pc = "call", !.got = {}, !.parts = {}, !.seen = NoCron,
                                       !.out = {}, !.looks = {}, !.cursor = Ready.cursor]]
  /\ todo' = [todo EXCEPT ![c] = Tail(@)]
  /\ told' = [told EXCEPT ![c] = Append(@, [op |-> Call(c).op, run |-> Call(c).run, answer |-> answer])]
  /\ UNCHANGED host
Ends(c, d, answer) == EndsWith(c, d, at[c], answer)

(* A call that throws ends the client's work. *)
Throws(c) ==
  /\ at' = [at EXCEPT ![c] = [@ EXCEPT !.pc = "call", !.got = {}]]
  /\ todo' = [todo EXCEPT ![c] = <<>>] /\ UNCHANGED <<db, told, host>>

Leased(c, r, d) == [at[c] EXCEPT !.run = r, !.lease = LeaseOn(d.job[r])]

(* The checkpoint a client is about to make, from its snapshot: the next free position,  *)
(* and the outcome of the call there.  A bounded wait consumes the signal it was shown,  *)
(* or else times out, on condition that nothing was enqueued since its claim.            *)
Free(c) == IF at[c].snap.log[1] = NoEntry THEN 1 ELSE 2
Wait(c) == Call(c).arg = "bounded"
Entry(c) ==
  [by |-> c, what |-> IF ~Wait(c) THEN Call(c).arg
                      ELSE IF at[c].snap.mail THEN "signal" ELSE "timeout"]
Gated(c) == Entry(c).what = "timeout"
Taken(d, c) == d.log[Call(c).run][Free(c)] # NoEntry
(* A gate that asks for the lease, and not for the version. *)
LeaseMoved(d, c) == d.job[Call(c).run].token # at[c].lease.token

VersionMoved(d, c) == d.job[Call(c).run].version # at[c].lease.version
Written(d, c) == [d EXCEPT !.log[Call(c).run][Free(c)] = Entry(c)]
StoredAt(d, c) == d.log[Call(c).run][Free(c)]
Spawns(c) == Entry(c).what = "spawn"
Uses(c) == Entry(c).what = "signal"

(* The parks that come with a timer. *)
Naps(c) == Call(c).arg \in {"sleeping", "retrying"}

(* The outbox of a checkpoint: insert the child, or leave the one that is there; enqueue *)
(* it; arm the join; consume the signal.                                                 *)
Joined(d, r) == [d EXCEPT !.left[r] = 1]
Consumed(d, r) == [d EXCEPT !.mail[r] = FALSE]
Outboxed(d, c) ==
  LET r == Call(c).run
  IN  IF Spawns(c) THEN Joined(Enqueuing(Born(d, IF There(d, c) THEN {} ELSE {c}), {c}), r)
      ELSE IF Uses(c) THEN Consumed(d, r) ELSE d

-----------------------------------------------------------------------------
(* Whole calls, as one step or as two: what the backends have in common *)

FindsHolder(c, op) ==
  /\ On(c, op, "hit")
  /\ IF db.key \in Runs /\ There(db, db.key) THEN Ends(c, db, db.key) ELSE Throws(c)

(* The run and its key are created together. *)
StartedAs(d, c) == [Pending(d, {c}) EXCEPT !.key = c]

(* The insert of the row decides; a conflict is followed by a look at who holds the key. *)
StartOrFind(c, op) ==
  \/ /\ Calls(c, op)
     /\ IF db.key = NoOne THEN Ends(c, StartedAs(db, c), c) ELSE Writes(c, db, "hit")
  \/ FindsHolder(c, op)

(* A list of starts here is of two with the one key: the second finds the run of the     *)
(* first, whoever created it.                                                            *)
StartAtOnce(c, op) ==
  /\ Calls(c, op)
  /\ IF db.key = NoOne THEN Ends(c, StartedAs(db, c), c)
     ELSE IF There(db, db.key) THEN Ends(c, db, db.key) ELSE Throws(c)

(* The steps and the inbox, together or one after the other. *)
Shown(c, log, mail) ==
  [at[c] EXCEPT !.snap = [log |-> IF log THEN db.log[Call(c).run] ELSE @.log,
                          mail |-> IF mail THEN db.mail[Call(c).run] ELSE @.mail]]
LoadAtOnce(c) == Calls(c, "load") /\ EndsWith(c, db, Shown(c, TRUE, TRUE), There(db, Call(c).run))
LoadLogFirst(c) ==
  \/ Calls(c, "load") /\ Goes(c, db, [Shown(c, TRUE, FALSE) EXCEPT !.pc = "inbox"])
  \/ On(c, "load", "inbox") /\ EndsWith(c, db, Shown(c, FALSE, TRUE), There(db, Call(c).run))
LoadMailFirst(c) ==
  \/ Calls(c, "load") /\ Goes(c, db, [Shown(c, FALSE, TRUE) EXCEPT !.pc = "steps"])
  \/ On(c, "load", "steps") /\ EndsWith(c, db, Shown(c, TRUE, FALSE), There(db, Call(c).run))

(* One more attempt of a live run; of one that is over, the attempts it had. *)
Mark(c) == Ends(c, [db EXCEPT !.row[Call(c).run] = MarkedRunning(@)], MarkedRunning(db.row[Call(c).run]).attempts)
MarkAtOnce(c) == Calls(c, "mark") /\ IF There(db, Call(c).run) THEN Mark(c) ELSE Throws(c)
MarkOrLook(c) ==
  \/ Calls(c, "mark") /\ IF LiveIn(db, Call(c).run) THEN Mark(c) ELSE Writes(c, db, "cur")
  \/ /\ On(c, "mark", "cur")
     /\ IF There(db, Call(c).run) THEN Ends(c, db, db.row[Call(c).run].attempts) ELSE Throws(c)

(* The answer to a checkpoint: nothing if it was refused, else what is stored. *)
Refused(c) == Ends(c, db, NoEntry)
Replayed(c) == Ends(c, db, StoredAt(db, c))
Committed(c, d) == Ends(c, d, Entry(c))

CheckpointAtOnce(c, d) ==
  IF ~There(db, Call(c).run) THEN Throws(c)
  ELSE IF Taken(db, c) THEN Replayed(c)
  ELSE IF Gated(c) /\ VersionMoved(db, c) THEN Refused(c)
  ELSE Committed(c, d)

(* A run that is over, or gone, is left alone, and its outbox with it. *)
SuspendAtOnce(c) ==
  LET r == Call(c).run
      parked == [db EXCEPT !.row[r] = Suspended(@, Call(c).arg)]
  IN  Ends(c, IF ~LiveIn(db, r) THEN db ELSE IF Naps(c) THEN Scheduled(parked, r) ELSE parked, TRUE)

Over(d, r, outcome) ==
  LET over == [d EXCEPT !.row[r] = Terminated(@, outcome)]
  IN  IF ~LiveIn(d, r) THEN d ELSE IF outcome = "canceled" THEN Unscheduled(over, {r}) ELSE over
FinishAtOnce(c) == Ends(c, Over(db, Call(c).run, Call(c).arg), TRUE)

ArriveAtOnce(c) ==
  LET r == Call(c).run
  IN  /\ Calls(c, "arrive")
      /\ IF There(db, r) THEN Ends(c, [db EXCEPT !.left[r] = @ - 1], db.left[r] - 1) ELSE Ends(c, db, 9)

(* A delivery whose key was seen is dropped; a new one wakes its run. *)
SignalAtOnce(c) ==
  LET r == Call(c).run
  IN  IF db.sent[r] THEN Ends(c, db, FALSE) ELSE Ends(c, Enqueuing(Delivered(db, r), {r}), TRUE)

Reopened(d, R) == Enqueuing(Pending(d, R), R)
Failed(d) == {r \in Runs : d.row[r].status = "failed"}

(* A filter, a set of statuses here, narrows the runs a call may touch; one that says    *)
(* nothing at all is refused before anything is read.                                    *)
Blank == {"blank"}
Asks(c, op) == Calls(c, op) /\ Call(c).arg # Blank
Refuses(c) ==
  \E op \in {"cancelRuns", "retryRuns", "purge"} : Calls(c, op) /\ Call(c).arg = Blank /\ Throws(c)
Narrowed(c, allowed) == allowed \cap Call(c).arg
Chosen(c, allowed) == {r \in Runs : db.row[r].status \in Narrowed(c, allowed)}
Victims(c) == Chosen(c, Terminal)

CancelAtOnce(c) ==
  LET live == Chosen(c, Active)
  IN  Asks(c, "cancelRuns") /\ Ends(c, StatusSet(Unscheduled(db, live), live, "canceled"), TRUE)
RetryAllAtOnce(c) == Asks(c, "retryRuns") /\ Ends(c, Reopened(db, Chosen(c, {"failed"})), TRUE)
RetryAtOnce(c) ==
  Calls(c, "retry") /\ IF Call(c).run \in Failed(db) THEN Ends(c, Reopened(db, {Call(c).run}), TRUE)
                                                     ELSE Ends(c, db, FALSE)

(* A set that is read once and gone through one run at a time. *)
Scans(c, op, found) ==
  Calls(c, op) /\ IF found = {} THEN Ends(c, db, TRUE) ELSE Reads(c, "each", found)
Visits(c, r, d) ==
  IF at[c].got = {r} THEN Ends(c, d, TRUE) ELSE Goes(c, d, [at[c] EXCEPT !.got = @ \ {r}])

(* Runs deleted a part at a time, in any order. *)
DeleteInParts(c, parts) ==
  \/ /\ Asks(c, "purge")
     /\ IF Victims(c) = {} THEN Ends(c, db, TRUE)
        ELSE Goes(c, db, [at[c] EXCEPT !.pc = "delete", !.got = Victims(c), !.parts = parts])
  \/ /\ On(c, "purge", "delete")
     /\ \E part \in at[c].parts :
          LET d == Without(db, at[c].got, part)
          IN  IF at[c].parts = {part} THEN Ends(c, d, TRUE)
              ELSE Goes(c, d, [at[c] EXCEPT !.parts = @ \ {part}])

UpsertAtOnce(c) == Calls(c, "upsertCron") /\ Ends(c, [db EXCEPT !.cron = CronOf(db, Call(c).arg)], TRUE)
RemoveAtOnce(c) == Calls(c, "removeCron") /\ Ends(c, [db EXCEPT !.cron = NoCron], db.cron # NoCron)
DueCronsAtOnce(c) == Calls(c, "dueCrons") /\ EndsWith(c, db, [at[c] EXCEPT !.cron = db.cron], TRUE)

(* An advance that does not compare the time. *)
AdvanceBlindly(c) ==
  LET expected == at[c].cron.next
  IN  /\ Calls(c, "advanceCron")
      /\ IF db.cron # NoCron THEN Ends(c, [db EXCEPT !.cron.next = expected + 2], expected) ELSE Ends(c, db, 0)

(* The row moves on if its next time is the one expected, whatever its schedule; the     *)
(* answer is the time won, or 0.                                                         *)
AdvanceAtOnce(c) ==
  LET expected == at[c].cron.next
  IN  /\ Calls(c, "advanceCron")
      /\ IF db.cron # NoCron /\ db.cron.next = expected
         THEN Ends(c, [db EXCEPT !.cron.next = expected + 2], expected) ELSE Ends(c, db, 0)

EnqueueAtOnce(c) == Calls(c, "enqueue") /\ Ends(c, Enqueuing(db, {Call(c).run}), TRUE)

TakeLease(c, r) == LET d == ClaimedBy(db, r, c) IN EndsWith(c, d, Leased(c, r, d), TRUE)
ClaimOneOf(c, R) == Calls(c, "claim") /\ IF R = {} THEN Ends(c, db, FALSE) ELSE \E r \in R : TakeLease(c, r)

Held(c) == Holds(db.job[at[c].run], at[c].lease, 0)
SameVersion(c) == db.job[at[c].run].version = at[c].lease.version
LeaseDropped(c, d) == EndsWith(c, d, [at[c] EXCEPT !.lease = NoLease], TRUE)

(* A heartbeat that does not look whose lease it extends. *)
RenewBlindly(c) == Calls(c, "heartbeat") /\ Ends(c, Renewed(db, at[c].run), TRUE)

RenewAtOnce(c) == Calls(c, "heartbeat") /\ IF Held(c) THEN Ends(c, Renewed(db, at[c].run), TRUE) ELSE Throws(c)

(* Deleted if nothing was enqueued meanwhile; then, in a write of its own, released if   *)
(* something was.                                                                        *)
AckInTwo(c) ==
  \/ Calls(c, "ack") /\ Writes(c, IF Held(c) /\ SameVersion(c) THEN Dequeued(db, at[c].run) ELSE db, "release")
  \/ On(c, "ack", "release") /\ LeaseDropped(c, IF Held(c) /\ ~SameVersion(c) THEN LetGo(db, at[c].run) ELSE db)

(* An acknowledgement that does not look at the version. *)
AckWhatever(c) == Calls(c, "ack") /\ LeaseDropped(c, IF Held(c) THEN Dequeued(db, at[c].run) ELSE db)

AckOrRelease(c) ==
  \/ /\ Calls(c, "ack")
     /\ IF Held(c) /\ SameVersion(c) THEN LeaseDropped(c, Dequeued(db, at[c].run)) ELSE Writes(c, db, "release")
  \/ On(c, "ack", "release") /\ LeaseDropped(c, IF Held(c) /\ ~SameVersion(c) THEN LetGo(db, at[c].run) ELSE db)

ScheduleAtOnce(c) == Calls(c, "schedule") /\ Ends(c, Scheduled(db, Call(c).run), TRUE)
CancelTimerAtOnce(c) == Calls(c, "unschedule") /\ Ends(c, Unscheduled(db, {Call(c).run}), TRUE)
(* A batch that is read and not deleted. *)
DueAndKept(c) == Calls(c, "due") /\ Ends(c, HandedOut(db, Past(db)), TRUE)

DueAtOnce(c) == Calls(c, "due") /\ Ends(c, HandedOut(TimerGone(db, Past(db)), Past(db)), TRUE)

-----------------------------------------------------------------------------
(* Time.  A client that dies is one that takes no more steps. *)

(* A deadline passes. *)
Ripen(r) ==
  /\ db.timer[r] = "ahead" /\ db' = [db EXCEPT !.timer[r] = "due"]
  /\ UNCHANGED <<todo, at, told, host>>

(* A lease expires, in the table and in its holder's hands alike. *)
Lapse(c) ==
  /\ host.lapse /\ host' = [host EXCEPT !.lapse = FALSE]
  /\ at[c].lease.expires = 1 /\ at' = [at EXCEPT ![c].lease.expires = 0]
  /\ LET r == at[c].run
         ours == db.job[r].token = at[c].lease.token
     IN  db' = [db EXCEPT !.job[r].expires = IF ours THEN 0 ELSE @]
  /\ UNCHANGED <<todo, told>>
=============================================================================
