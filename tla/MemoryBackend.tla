--------------------------- MODULE MemoryBackend ---------------------------
(***************************************************************************)
(* The in-memory backend, which the others are tested against. One thread  *)
(* runs a call from beginning to end, so that each is one step.            *)
(***************************************************************************)
EXTENDS BackendReads

(* A spawned child is inserted unless it is there; everything else is a map's entry. *)
MemoryApplyOutbox(d, c) == Outboxed(d, c)

(* The key's run, or a new one; a key whose run is gone is an error. *)
MemoryStartRun(c) == StartAtOnce(c, "start")
MemoryStartManyRuns(c) == StartAtOnce(c, "startMany")

MemoryLoadRun(c) == LoadAtOnce(c)
MemoryMarkRunning(c) == MarkAtOnce(c)
MemoryCheckpointStep(c) == Calls(c, "checkpoint") /\ CheckpointAtOnce(c, MemoryApplyOutbox(Written(db, c), c))
MemorySuspendRun(c) == Calls(c, "suspend") /\ IF There(db, Call(c).run) THEN SuspendAtOnce(c) ELSE Throws(c)
MemoryMarkTerminal(c) == Calls(c, "finish") /\ IF There(db, Call(c).run) THEN FinishAtOnce(c) ELSE Throws(c)
MemoryArriveAtJoin(c) == ArriveAtOnce(c)

(* Nothing asks whether the run exists. *)
MemoryPostSignal(c) == Calls(c, "signal") /\ SignalAtOnce(c)

MemoryCancelRuns(c) == CancelAtOnce(c)
MemoryRetryRuns(c) == RetryAllAtOnce(c)
MemoryRetryRun(c) ==
  /\ Calls(c, "retry")
  /\ IF ~There(db, Call(c).run) THEN Throws(c)
     ELSE IF Call(c).run \in Failed(db) THEN Ends(c, Reopened(db, {Call(c).run}), TRUE)
     ELSE Ends(c, db, FALSE)
MemoryDeleteRuns(c) == Asks(c, "purge") /\ Ends(c, Erased(db, Victims(c)), TRUE)

MemoryUpsertCron(c) == UpsertAtOnce(c)
MemoryRemoveCron(c) == RemoveAtOnce(c)
MemoryDueCrons(c) == DueCronsAtOnce(c)
MemoryAdvanceCron(c) == AdvanceAtOnce(c)

MemoryEnqueue(c) == EnqueueAtOnce(c)
MemoryClaim(c) == ClaimOneOf(c, Fit(c, Due(db)))
MemoryHeartbeat(c) == RenewAtOnce(c)
MemoryAck(c) ==
  LET d == IF ~Held(c) THEN db
           ELSE IF SameVersion(c) THEN Dequeued(db, at[c].run) ELSE LetGo(db, at[c].run)
  IN  Calls(c, "ack") /\ LeaseDropped(c, d)

MemorySchedule(c) == ScheduleAtOnce(c)
MemoryCancelTimer(c) == CancelTimerAtOnce(c)
MemoryDueBatch(c) == DueAtOnce(c)

MemoryLoadRunRows(c) == AtOnce(c, "rows")
MemoryListRuns(c) == ListInPages(c)
MemoryChildrenOf(c) == AtOnce(c, "children")
MemoryRunStats(c) == AtOnce(c, "stats")
MemoryOrphanedRuns(c) == AtOnce(c, "orphans")
MemoryListCrons(c) == AtOnce(c, "listCrons")
MemoryDueCronCount(c) == AtOnce(c, "cronCount")
MemoryDepth(c) == AtOnce(c, "depth")
MemoryDueCount(c) == AtOnce(c, "dueCount")
MemoryNextDueAt(c) == AtOnce(c, "nextDue")

MemoryNext(c) ==
  \/ MemoryStartRun(c) \/ MemoryStartManyRuns(c) \/ MemoryLoadRun(c)
  \/ MemoryMarkRunning(c) \/ MemoryCheckpointStep(c) \/ MemorySuspendRun(c)
  \/ MemoryMarkTerminal(c) \/ MemoryArriveAtJoin(c) \/ MemoryPostSignal(c)
  \/ MemoryCancelRuns(c) \/ MemoryRetryRuns(c) \/ MemoryRetryRun(c) \/ MemoryDeleteRuns(c)
  \/ MemoryUpsertCron(c) \/ MemoryRemoveCron(c) \/ MemoryDueCrons(c)
  \/ MemoryAdvanceCron(c) \/ MemoryEnqueue(c) \/ MemoryClaim(c) \/ MemoryHeartbeat(c)
  \/ MemoryAck(c) \/ MemorySchedule(c) \/ MemoryCancelTimer(c) \/ MemoryDueBatch(c)
  \/ Refuses(c) \/ MemoryLoadRunRows(c) \/ MemoryListRuns(c) \/ MemoryChildrenOf(c)
  \/ MemoryRunStats(c) \/ MemoryOrphanedRuns(c) \/ MemoryListCrons(c)
  \/ MemoryDueCronCount(c) \/ MemoryDepth(c) \/ MemoryDueCount(c) \/ MemoryNextDueAt(c)
=============================================================================
