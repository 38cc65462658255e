-------------------------- MODULE SqliteBackend ---------------------------
(***************************************************************************)
(* The SQLite backend. A transaction takes the write lock when it begins,  *)
(* so transactions run one after the other; a call made of two plain       *)
(* statements can be cut between them. A Durable Object runs the same      *)
(* statements one request at a time.                                       *)
(***************************************************************************)
EXTENDS BackendReads

(* The effects that ride a checkpoint are statements of its transaction. *)
SqliteApplyOutbox(d, c) == Outboxed(d, c)

SqliteStartRun(c) == StartOrFind(c, "start")
SqliteStartManyRuns(c) == StartAtOnce(c, "startMany")

(* One connection answers in the order of the queries. *)
SqliteLoadRun(c) == LoadLogFirst(c)
SqliteMarkRunning(c) == MarkOrLook(c)
SqliteCheckpointStep(c) == Calls(c, "checkpoint") /\ CheckpointAtOnce(c, SqliteApplyOutbox(Written(db, c), c))
SqliteSuspendRun(c) == Calls(c, "suspend") /\ SuspendAtOnce(c)
SqliteMarkTerminal(c) == Calls(c, "finish") /\ FinishAtOnce(c)
SqliteArriveAtJoin(c) == ArriveAtOnce(c)

(* Foreign keys may be off: a signal for a run that is gone is refused, or kept. *)
SqlitePostSignal(c) ==
  /\ Calls(c, "signal")
  /\ SignalAtOnce(c) \/ (~There(db, Call(c).run) /\ Throws(c))

SqliteCancelRuns(c) == CancelAtOnce(c)
SqliteRetryRuns(c) == RetryAllAtOnce(c)
SqliteRetryRun(c) == RetryAtOnce(c)
SqliteDeleteRuns(c) == Asks(c, "purge") /\ Ends(c, Erased(db, Victims(c)), TRUE)

SqliteUpsertCron(c) == UpsertAtOnce(c)
SqliteRemoveCron(c) == RemoveAtOnce(c)
SqliteDueCrons(c) == DueCronsAtOnce(c)
SqliteAdvanceCron(c) == AdvanceAtOnce(c)

SqliteEnqueue(c) == EnqueueAtOnce(c)
SqliteClaim(c) == ClaimOneOf(c, Fit(c, Due(db)))
SqliteHeartbeat(c) == RenewAtOnce(c)
SqliteAck(c) == AckInTwo(c)

SqliteSchedule(c) == ScheduleAtOnce(c)
SqliteCancelTimer(c) == CancelTimerAtOnce(c)
SqliteDueBatch(c) == DueAtOnce(c)

(* One query answers a read. *)
SqliteLoadRunRows(c) == AtOnce(c, "rows")
SqliteChildrenOf(c) == AtOnce(c, "children")
SqliteRunStats(c) == AtOnce(c, "stats")
SqliteListRuns(c) == ListInPages(c)
SqliteOrphanedRuns(c) == AtOnce(c, "orphans")
SqliteListCrons(c) == AtOnce(c, "listCrons")
SqliteDueCronCount(c) == AtOnce(c, "cronCount")
SqliteDepth(c) == AtOnce(c, "depth")
SqliteDueCount(c) == AtOnce(c, "dueCount")
SqliteNextDueAt(c) == AtOnce(c, "nextDue")

SqliteNext(c) ==
  \/ SqliteStartRun(c) \/ SqliteStartManyRuns(c) \/ SqliteLoadRun(c)
  \/ SqliteMarkRunning(c) \/ SqliteCheckpointStep(c) \/ SqliteSuspendRun(c)
  \/ SqliteMarkTerminal(c) \/ SqliteArriveAtJoin(c) \/ SqlitePostSignal(c)
  \/ SqliteCancelRuns(c) \/ SqliteRetryRuns(c) \/ SqliteRetryRun(c) \/ SqliteDeleteRuns(c)
  \/ SqliteUpsertCron(c) \/ SqliteRemoveCron(c) \/ SqliteDueCrons(c)
  \/ SqliteAdvanceCron(c) \/ SqliteEnqueue(c) \/ SqliteClaim(c) \/ SqliteHeartbeat(c)
  \/ SqliteAck(c) \/ SqliteSchedule(c) \/ SqliteCancelTimer(c) \/ SqliteDueBatch(c)
  \/ Refuses(c) \/ SqliteLoadRunRows(c) \/ SqliteListRuns(c) \/ SqliteChildrenOf(c)
  \/ SqliteRunStats(c) \/ SqliteOrphanedRuns(c) \/ SqliteListCrons(c)
  \/ SqliteDueCronCount(c) \/ SqliteDepth(c) \/ SqliteDueCount(c) \/ SqliteNextDueAt(c)
=============================================================================
