-------------------------- MODULE PostgresBackend --------------------------
(***************************************************************************)
(* The Postgres backend, at READ COMMITTED.  A statement is atomic, and so *)
(* is a transaction that writes nothing it has not locked; what a call     *)
(* reads first and writes by later is cut in between.                      *)
(***************************************************************************)
EXTENDS BackendReads

(* The effects that ride a checkpoint are statements of its transaction. *)
PostgresApplyOutbox(d, c) == Outboxed(d, c)

PostgresStartRun(c) == StartOrFind(c, "start")
PostgresStartManyRuns(c) == StartOrFind(c, "startMany")

(* Steps and inbox are read on connections of their own, in either order. *)
PostgresLoadRun(c) == LoadLogFirst(c) \/ LoadMailFirst(c)

(* A run that is terminal, or gone, is told apart by a second query. *)
PostgresMarkRunning(c) == MarkOrLook(c)

(* A gated checkpoint first looks whether the step is there; then it locks the job, and  *)
(* the rest is one write.  A step of a run that is gone breaks its foreign key.          *)
PostgresCheckpointStep(c) ==
  /\ Calls(c, "checkpoint") \/ On(c, "checkpoint", "gate")
  /\ IF Gated(c) /\ at[c].pc = "call" /\ ~Taken(db, c) THEN Writes(c, db, "gate")
     ELSE IF Gated(c) /\ at[c].pc = "gate" /\ VersionMoved(db, c) THEN Refused(c)
     ELSE IF Taken(db, c) THEN Replayed(c)
     ELSE IF ~There(db, Call(c).run) THEN Throws(c)
     ELSE Committed(c, PostgresApplyOutbox(Written(db, c), c))

PostgresSuspendRun(c) == Calls(c, "suspend") /\ SuspendAtOnce(c)
PostgresMarkTerminal(c) == Calls(c, "finish") /\ FinishAtOnce(c)
PostgresArriveAtJoin(c) == ArriveAtOnce(c)

(* A signal for a run that is gone breaks its foreign key. *)
PostgresPostSignal(c) == Calls(c, "signal") /\ IF There(db, Call(c).run) THEN SignalAtOnce(c) ELSE Throws(c)

(* The sets are locked as they are selected. *)
PostgresCancelRuns(c) == CancelAtOnce(c)
PostgresRetryRuns(c) == RetryAllAtOnce(c)
PostgresRetryRun(c) == RetryAtOnce(c)

(* The victims are selected without a lock, and deleted by their ids in one transaction. *)
PostgresDeleteRuns(c) ==
  \/ Asks(c, "purge") /\ Reads(c, "delete", Victims(c))
  \/ On(c, "purge", "delete") /\ Ends(c, Erased(db, at[c].got), TRUE)

PostgresUpsertCron(c) == UpsertAtOnce(c)
PostgresRemoveCron(c) == RemoveAtOnce(c)
PostgresDueCrons(c) == DueCronsAtOnce(c)
PostgresAdvanceCron(c) == AdvanceAtOnce(c)

PostgresEnqueue(c) == EnqueueAtOnce(c)
PostgresClaim(c) == ClaimOneOf(c, Fit(c, Due(db)))
PostgresHeartbeat(c) == RenewAtOnce(c)
PostgresAck(c) == AckInTwo(c)

PostgresSchedule(c) == ScheduleAtOnce(c)
PostgresCancelTimer(c) == CancelTimerAtOnce(c)
PostgresDueBatch(c) == DueAtOnce(c)

(* One query answers a read. *)
PostgresLoadRunRows(c) == AtOnce(c, "rows")
PostgresChildrenOf(c) == AtOnce(c, "children")
PostgresRunStats(c) == AtOnce(c, "stats")
PostgresListRuns(c) == ListInPages(c)
PostgresOrphanedRuns(c) == AtOnce(c, "orphans")
PostgresListCrons(c) == AtOnce(c, "listCrons")
PostgresDueCronCount(c) == AtOnce(c, "cronCount")
PostgresDepth(c) == AtOnce(c, "depth")
PostgresDueCount(c) == AtOnce(c, "dueCount")
PostgresNextDueAt(c) == AtOnce(c, "nextDue")

PostgresNext(c) ==
  \/ PostgresStartRun(c) \/ PostgresStartManyRuns(c) \/ PostgresLoadRun(c)
  \/ PostgresMarkRunning(c) \/ PostgresCheckpointStep(c) \/ PostgresSuspendRun(c)
  \/ PostgresMarkTerminal(c) \/ PostgresArriveAtJoin(c) \/ PostgresPostSignal(c)
  \/ PostgresCancelRuns(c) \/ PostgresRetryRuns(c) \/ PostgresRetryRun(c)
  \/ PostgresDeleteRuns(c) \/ PostgresUpsertCron(c) \/ PostgresRemoveCron(c)
  \/ PostgresDueCrons(c) \/ PostgresAdvanceCron(c) \/ PostgresEnqueue(c)
  \/ PostgresClaim(c) \/ PostgresHeartbeat(c) \/ PostgresAck(c) \/ PostgresSchedule(c)
  \/ PostgresCancelTimer(c) \/ PostgresDueBatch(c) \/ Refuses(c) \/ PostgresLoadRunRows(c)
  \/ PostgresListRuns(c) \/ PostgresChildrenOf(c) \/ PostgresRunStats(c)
  \/ PostgresOrphanedRuns(c) \/ PostgresListCrons(c) \/ PostgresDueCronCount(c)
  \/ PostgresDepth(c) \/ PostgresDueCount(c) \/ PostgresNextDueAt(c)
=============================================================================
