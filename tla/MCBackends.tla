----------------------------- MODULE MCBackends -----------------------------
(* Programs of port calls for TLC, and the tables they start from. *)
EXTENDS Backends

Do(op, run, arg) == [op |-> op, run |-> run, arg |-> arg]
C(op) == Do(op, 0, {})
All(op) == Do(op, 0, Statuses)
Starts == C("start")
Take == Do("claim", 0, AnyName)
Step(what) == Do("checkpoint", 0, what)
Park(status) == Do("suspend", 0, status)
End(outcome) == Do("finish", 0, outcome)
Cron(s, next) == Do("upsertCron", 0, [schedule |-> s, next |-> next])

With(status) == [Empty EXCEPT !.row[0].status = status]
Queued == Enqueuing(With("pending"), {0})
Napping == Scheduled(With("sleeping"), 0)

Case(tables, lapse, one, two, three) ==
  [tables |-> tables, lapse |-> lapse, calls |-> <<one, two, three>>]

Keyed == Case(Empty, FALSE, <<Starts>>, <<C("startMany")>>, <<C("startMany"), Starts>>)
Steps == Case(With("running"), FALSE,
  <<C("mark"), Step("spawn"), C("load"), Step("step"), End("done")>>,
  <<C("mark"), Step("spawn"), Park("sleeping")>>, <<End("canceled"), C("arrive")>>)
Waits == Case(Queued, FALSE,
  <<Take, C("mark"), C("load"), Step("bounded"), Park("awaiting_signal"), C("ack")>>,
  <<C("signal"), C("signal")>>, <<C("signal"), Take, C("ack")>>)
Hands == Case(Queued, TRUE, <<Take, C("heartbeat"), C("ack")>>, <<Take, C("ack")>>,
  <<C("enqueue"), C("enqueue")>>)
Timers == Case(Napping, FALSE, <<C("due"), C("enqueue")>>, <<C("due"), C("enqueue"), Take>>,
  <<C("unschedule"), C("schedule")>>)

Sets == Case([With("running") EXCEPT !.row[1].status = "failed", !.row[2].status = "done"], FALSE,
  <<All("cancelRuns"), All("retryRuns")>>, <<Park("retrying"), End("failed"), Do("retry", 0, 0)>>,
  <<Do("retry", 1, 0), End("done")>>)
Purges == Case([With("done") EXCEPT !.row[1].status = "canceled", !.key = 0], FALSE,
  <<All("purge")>>, <<Starts, C("arrive"), C("mark"), C("enqueue")>>, <<C("signal"), C("mark"), Park("sleeping"), End("done")>>)
Quiet == Case([With("failed") EXCEPT !.row[1].status = "failed", !.row[2].status = "done"], FALSE,
  <<Do("retry", 1, 0), Do("retry", 1, 0), All("retryRuns"), All("cancelRuns"), All("cancelRuns"), All("retryRuns")>>,
  <<Do("schedule", 2, 0), Do("unschedule", 2, 0), Do("due", 2, 0)>>, <<C("signal"), Take>>)
Waiters == Case(Queued, TRUE, <<Take, C("load"), Step("bounded")>>,
  <<Take, C("load"), Step("bounded"), C("ack")>>, <<C("enqueue")>>)
Shift == Case(Queued, TRUE, <<Take, C("mark"), C("load"), Step("step"), End("failed"), C("ack")>>,
  <<Take, C("mark"), C("load"), Step("step"), Step("bounded"), Park("sleeping"), C("ack")>>,
  <<C("enqueue"), C("retry"), C("signal"), C("due")>>)
Joins == Case([With("awaiting_child") EXCEPT !.left[0] = 2], FALSE,
  <<C("arrive")>>, <<C("arrive")>>, <<C("enqueue")>>)
Crons == Case([Empty EXCEPT !.cron = [schedule |-> 1, next |-> 1]], FALSE,
  <<C("dueCrons"), C("advanceCron"), C("dueCrons"), C("advanceCron")>>, <<C("dueCrons"), C("advanceCron")>>,
  <<Cron(1, 5), Cron(2, 6), C("removeCron"), Cron(1, 7)>>)

Drains == Case(Napping, FALSE, <<C("due"), C("enqueue")>>, <<C("schedule"), C("schedule")>>, <<Take>>)
Fires == Case([Empty EXCEPT !.cron = [schedule |-> 1, next |-> 1]], FALSE,
  <<C("dueCrons"), C("advanceCron"), C("dueCrons"), C("advanceCron")>>, <<C("dueCrons"), C("advanceCron")>>,
  <<C("removeCron")>>)
Registers == Case([Empty EXCEPT !.cron = [schedule |-> 1, next |-> 1]], FALSE,
  <<Cron(1, 5), C("dueCrons")>>, <<Cron(2, 6)>>, <<Cron(1, 7)>>)

(* A canceled run is purged while late calls are still made of it. *)
Late(calls) ==
  {Case(With("canceled"), FALSE, <<All("purge")>>, <<a>>, <<b>>) : a \in calls, b \in calls \ {C("signal")}}
LateCalls == {C("mark"), End("done"), C("retry"), C("load"), Park("sleeping"), C("signal"), C("arrive")}
LateSteps == LateCalls \cup {Step("step"), Step("spawn")}
Gone == Case(With("done"), FALSE, <<All("purge"), Step("step")>>, <<>>, <<>>)
Swept == Case([With("running") EXCEPT !.row[1].status = "sleeping"], FALSE, <<All("cancelRuns")>>, <<End("canceled")>>, <<All("purge")>>)

(* A parent that waits for two children; the second has a job, the third run, of another  *)
(* flow, a timer and a job.                                                              *)
Family ==
  LET rows == [Empty EXCEPT !.row = [r \in Runs |-> [status |-> CASE r = 0 -> "awaiting_child"
                                        [] r = 1 -> "running" [] r = 2 -> "pending" [] OTHER -> "sleeping", attempts |-> 0]],
                            !.kids = {1, 2}, !.left[0] = 2, !.cron = [schedule |-> 1, next |-> 1]]
  IN  Scheduled(Enqueuing(rows, {2, 3}), 3)
Overdue == [Family EXCEPT !.timer[3] = "due"]

(* What happens while a read is on its way: children end and are purged, a failed one is  *)
(* retried, a job is taken and given back, a timer is handed out and another one set.     *)
Ending == <<Do("finish", 1, "failed"), Do("purge", 0, {"failed"})>>
Moving == <<Take, C("ack")>>
During(tables, reads, one, two) == {Case(tables, FALSE, <<a>>, one, two) : a \in reads}
Named(op) == {Do(op, 0, names) : names \in {AnyName, {"f"}, {"g"}, {}}}
Watching ==
  During(Overdue, {C("rows"), Do("list", 0, Statuses), Do("list", 0, {"running", "pending", "failed"}),
                   C("children"), C("stats")}, Ending, <<Do("finish", 2, "canceled")>>)
  \cup During(Overdue, {C("orphans")}, <<Do("finish", 0, "failed")>>, Moving)
  \cup During(Overdue, {C("orphans")}, <<Do("finish", 1, "failed"), C("enqueue")>>, <<Do("finish", 2, "done")>>)
  \cup During(Overdue, Named("depth"), <<Do("cancelRuns", 0, {"pending"}), Do("purge", 0, {"canceled"})>>, Moving)
  \cup During(Family, Named("dueCount") \cup {C("nextDue")}, <<Do("due", 3, {}), Do("schedule", 1, 0)>>, <<>>)
  \cup During(Overdue, {C("listCrons")} \cup Named("cronCount"), <<C("removeCron")>>, <<>>)

(* Two claims for one flow each, while a job is put back and a run is purged. *)
Shard(name) == Do("claim", 0, {name})
Shards == Case(Overdue, TRUE, <<Shard("f"), C("ack"), Shard("f")>>, <<Shard("g"), C("enqueue"), Do("claim", 0, {})>>,
  <<Do("finish", 2, "canceled"), Do("purge", 0, {"canceled"}), Do("enqueue", 2, 0), Shard("g")>>)
Filters == Case(Overdue, FALSE, <<Do("cancelRuns", 0, {"running", "done"}), Do("retryRuns", 0, {"pending", "failed"})>>,
  <<Do("purge", 0, {"running"}), Do("purge", 0, Blank)>>, <<>>)
Blanks == {Case(Overdue, FALSE, <<Do(op, 0, Blank)>>, <<>>, <<>>) : op \in {"retryRuns", "cancelRuns"}}

(* A run that is parked is parked again by a worker that lost it, and canceled. *)
Parks == Case(With("sleeping"), FALSE, <<Park("sleeping")>>, <<Park("sleeping")>>, <<End("canceled")>>)

(* MongoDB's gate lets a timeout pass a signal: waits whose signal has come, or does not. *)
Mailed == [Waits EXCEPT !.tables = Delivered(@, 0)]
Unsent == [Shift EXCEPT !.calls[3] = <<C("enqueue"), C("retry"), C("due")>>]

Scenes == Watching \cup {Filters} \cup Blanks \cup {Shards, Keyed, Steps, Hands, Purges, Joins, Drains, Fires, Registers, Quiet, Waiters, Swept, Gone, Parks}
Rest == {Sets, Timers, Waits, Shift}
Races ==
  [memory |-> Rest \cup {Crons} \cup Late(LateSteps), postgres |-> Rest \cup {Crons} \cup Late(LateSteps),
   mysql |-> Rest \cup {Crons} \cup Late(LateCalls), sqlite |-> Rest \cup {Crons} \cup Late(LateSteps),
   redis |-> Rest \cup {Crons} \cup Late(LateSteps), mongodb |-> {Crons, Mailed, Unsent} \cup Late(LateCalls),
   dynamodb |-> Rest \cup Late(LateSteps)]
Play(b, k) == [backend |-> b, tables |-> IF b # "redis" THEN k.tables
                 ELSE [k.tables EXCEPT !.queue = {r \in Runs : k.tables.job[r].queued}, !.ripe = k.tables.cron.next],
               lapse |-> k.lapse, calls |-> k.calls]
AllCases == UNION {{Play(b, k) : k \in Scenes \cup Races[b]} : b \in DOMAIN Races}
=============================================================================
