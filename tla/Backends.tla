------------------------------ MODULE Backends ------------------------------
(* The storage backends side by side: the same programs of port calls on each. *)
EXTENDS MemoryBackend, PostgresBackend, MySqlBackend, SqliteBackend, RedisBackend,
        MongoBackend, DynamoBackend

CONSTANT Cases   \* what a behaviour is about: a backend, its tables, the clients' calls

(* What a call may ask for. *)
Request(q) ==
  /\ q.run \in Runs
  /\ q.op = "suspend" => q.arg \in Active
  /\ q.op = "finish" => q.arg \in Terminal
  /\ q.op = "upsertCron" =>
       /\ q.arg \in [schedule : {1, 2}, next : Nat]
       /\ q.arg.next % 2 = q.arg.schedule % 2

(* Tables as the calls leave them: nobody is owed a job that is not there, only a job of  *)
(* somebody's is leased, a timer was set once, and a cron is due when its schedule says.  *)
LegalTables(d) ==
  /\ d \in Tables
  /\ \A r \in Runs : /\ WellFormed(d.job[r]) /\ (d.job[r].expires > 0 => d.job[r].token > 0)
                     /\ d.alarms[r] = IF d.timer[r] = "none" THEN 0 ELSE 1
                     /\ (d.row[r].status = "absent" => ~There(d, r)) /\ (d.mail[r] => d.sent[r])
  /\ \A r \in d.owed : d.job[r].queued
  /\ d.cron.schedule # 0 => d.cron.next % 2 = d.cron.schedule % 2

Backend == {"memory", "postgres", "mysql", "sqlite", "redis", "mongodb", "dynamodb"}
Program(s) == s = [i \in 1..Len(s) |-> s[i]] /\ Len(s) \in Nat /\ \A i \in 1..Len(s) : Request(s[i])

ASSUME CasesAssumption ==
  \A k \in Cases :
    /\ k.backend \in Backend /\ k.lapse \in BOOLEAN /\ LegalTables(k.tables)
    /\ k.calls = [c \in Clients |-> k.calls[c]] /\ \A c \in Clients : Program(k.calls[c])

VARIABLE watch   \* history: client -> the facts its read could have seen all along, and at any time


vars == <<db, todo, at, told, host, watch>>

(* What a read is to answer for: for orphans, each reason a run is one; and what a claim  *)
(* might take.                                                                           *)
ReadOps == {"rows", "list", "children", "stats", "orphans", "depth", "dueCount", "nextDue",
            "listCrons", "cronCount"}
Truth(call, d) ==
  CASE call.op = "orphans" -> Reasons(View(d))
    [] call.op = "claim" -> {<<r, "job">> : r \in {r \in Due(d) : Passes(View(d), call.arg, r)}}
    [] OTHER -> Concluded(call, View(d))
Claims(call, truth) == IF call.op = "orphans" THEN Orphans(truth) ELSE truth

Unwatched == [always |-> {}, ever |-> {}]
Watched(c) ==
  LET now == Truth(Call(c), db)
      after == Truth(Call(c), db')
      from == IF at[c].pc = "call" THEN [always |-> now, ever |-> now] ELSE watch[c]
  IN  [always |-> from.always \cap after, ever |-> from.ever \cup after]
Reading(c) == todo[c] # <<>> /\ Call(c).op \in ReadOps
Looking(c) == Reading(c) \/ (todo[c] # <<>> /\ Call(c).op = "claim")
Watches == watch' = [c \in Clients |-> IF Looking(c) /\ at'[c].pc # "call" THEN Watched(c) ELSE Unwatched]

Init ==
  /\ \E k \in Cases : /\ host = [backend |-> k.backend, lapse |-> k.lapse]
                      /\ db = k.tables /\ todo = k.calls
  /\ at = [c \in Clients |-> Ready] /\ told = [c \in Clients |-> <<>>]
  /\ watch = [c \in Clients |-> Unwatched]

Moves ==
  \/ \E r \in Runs : Ripen(r)
  \/ \E c \in Clients : Lapse(c)
  \/ \E c \in Clients :
       \/ host.backend = "memory" /\ MemoryNext(c)
       \/ host.backend = "postgres" /\ PostgresNext(c)
       \/ host.backend = "mysql" /\ MySqlNext(c)
       \/ host.backend = "sqlite" /\ SqliteNext(c)
       \/ host.backend = "redis" /\ RedisNext(c)
       \/ host.backend = "mongodb" /\ MongoNext(c)
       \/ host.backend = "dynamodb" /\ DynamoNext(c)

Next == Moves /\ Watches

Spec == Init /\ [][Next]_vars

-----------------------------------------------------------------------------

(* The tables stay well formed: a row, a job, a timer of the kinds the ports know, and a *)
(* job that is queued whenever it is leased.                                             *)
TypeOK ==
  /\ db.row \in [Runs -> RunRow] /\ db.left \in [Runs -> Int] /\ db.key \in Runs \cup {NoOne}
  /\ db.job \in [Runs -> Job] /\ \A r \in Runs : WellFormed(db.job[r])
  /\ db.timer \in [Runs -> {"none", "ahead", "due"}]
  /\ db.queue \subseteq Runs /\ db.owed \subseteq Runs
  /\ \A c \in Clients : at[c].lease \in Lease /\ at[c].run \in Runs

(* However a backend cuts its calls, each of its writes is one the store promises        *)
(* (ports/store.ts, ports/outbox.ts): outcomes are final, a log position is written      *)
(* once, a child is created once, a signal is consumed by the entry that records it and  *)
(* by no other, and no timeout is recorded over a signal that waits.                     *)
Book ==
  [r \in Runs |->
     [life |-> IF ~There(db, r) THEN "absent" ELSE IF LiveIn(db, r) THEN "live" ELSE db.row[r].status,
      memo |-> db.log[r],
      mail |-> IF db.mail[r] THEN "waiting" ELSE IF db.sent[r] THEN "used" ELSE "unsent"]]
Promise == INSTANCE RunBook WITH Nothing <- NoEntry, book <- Book
KeepsBook == Promise!Spec

(* A run that was enqueued since its last claim still has its job: an acknowledgement    *)
(* in one write or in two, a heartbeat or a second enqueue never loses the wake.         *)
WakeKept == \A r \in db.owed : db.job[r].queued

(* No two clients hold a live lease of one run, though a claim is a query and a          *)
(* conditional write in two of the backends, and leases expire.  A client that is        *)
(* letting its lease go holds it no more.  A purge takes the job of a run with the run:  *)
(* an enqueue of a run that is gone makes a job that anyone may claim.                    *)
HoldsLease(c) == at[c].lease.expires = 1 /\ at[c].pc # "release"
SingleHolder ==
  \A b, c \in Clients :
    HoldsLease(b) /\ HoldsLease(c) /\ at[b].run = at[c].run /\ There(db, at[b].run) => b = c

Answers(op) ==
  {a \in UNION {{<<c, i>> : i \in DOMAIN told[c]} : c \in Clients} : told[a[1]][a[2]].op = op}
Said(a) == told[a[1]][a[2]].answer
About(a) == told[a[1]][a[2]].run

(* What can be won is won by one caller: starts with one key, alone or in lists, however *)
(* they race, are all told of the same run; one delivery of a signal is the new one, one *)
(* retry reopens a failure, one advance fires a cron's time, and one child is the last   *)
(* to arrive at a join.                                                                  *)
OneStart == \A a, b \in Answers("start") \cup Answers("startMany") : Said(a) = Said(b)
OneWinner(op) == \A a, b \in Answers(op) : Said(a) /\ Said(b) /\ About(a) = About(b) => a = b
OneFires == \A a, b \in Answers("advanceCron") : Said(a) = Said(b) /\ Said(a) # 0 => a = b
OneIsLast == \A a, b \in Answers("arrive") : Said(a) = 0 /\ Said(b) = 0 /\ About(a) = About(b) => a = b
WonOnce == OneStart /\ OneWinner("signal") /\ OneWinner("retry") /\ OneFires /\ OneIsLast

(* A timer that was set is there until it is handed out or cancelled, and is handed out  *)
(* once: a reschedule or a poller that races another neither loses nor doubles it.       *)
TimerKept == \A r \in Runs : db.alarms[r] = IF db.timer[r] = "none" THEN 0 ELSE 1

(* A cron's next time is one of its own schedule's (odd times are the first's, even      *)
(* times the second's), so a registration that changes the schedule starts it afresh and *)
(* an advance of the old one does not survive it; and the sorted set that a Redis server *)
(* finds due crons by holds the time of the row.                                         *)
CronTimes ==
  db.cron.schedule # 0 =>
    /\ db.cron.next % 2 = db.cron.schedule % 2
    /\ host.backend = "redis" => db.ripe = db.cron.next

(* A read that takes its time is still true: what held from its first statement to its   *)
(* last is in the answer, each run has one entry there, and what the answer says held at *)
(* some moment of the read.  Orphans, and counts by name, are put together from tables   *)
(* read one after another and may say too much, but never too little: a run with nothing *)
(* left to move it, and a job that waits, are found by the first sweep that looks.       *)
Exact(call) ==
  call.op \in {"rows", "list", "children", "stats", "nextDue", "listCrons"}
    \/ (call.op \in {"depth", "dueCount"} /\ ~NeedsNames(call))
Answered(c) == at'[c].pc = "call" /\ told'[c] # told[c]
Answer(c) == told'[c][Len(told'[c])].answer
Witness(c) == IF at[c].pc = "call" THEN Watched(c) ELSE watch[c]
AnswersTrue ==
  [][\A c \in Clients : Reading(c) /\ Answered(c) =>
       LET answer == Answer(c)
           seen == Witness(c)
       IN  /\ Claims(Call(c), seen.always) \subseteq answer
           /\ Exact(Call(c)) => answer \subseteq seen.ever
           /\ \A f, g \in answer : f[1] = g[1] => f = g]_vars

(* A claim that comes back empty, while nothing changed of what it might take, has left  *)
(* no job of its flows behind: jobs that others hold, or that are of other flows, do not *)
(* hide it.  Two backends look at the head of the queue alone: MongoDB at one batch,     *)
(* before it asks for the flows, and Redis at a window of entries, held ones included.   *)
Overlooked(c) ==
  CASE host.backend = "mongodb" -> IF NeedsNames(Call(c)) THEN Runs ELSE {}
    [] host.backend = "redis" -> Runs \ RedisInWindow(db)
    [] OTHER -> {}
ClaimFinds ==
  [][\A c \in Clients : todo[c] # <<>> /\ Call(c).op = "claim" /\ Answered(c) =>
       LET seen == Witness(c)
       IN  ~Answer(c) /\ seen.always = seen.ever => {f[1] : f \in seen.always} \subseteq Overlooked(c)]_vars
=============================================================================
