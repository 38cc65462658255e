--------------------------- MODULE MySqlBackend ---------------------------
(***************************************************************************)
(* The MySQL backend, at READ COMMITTED. There is no RETURNING: a          *)
(* transaction locks the rows it reads before it writes them, save the     *)
(* victims of a purge, and no foreign key ties a step or a signal to its   *)
(* run.                                                                    *)
(***************************************************************************)
EXTENDS BackendReads

(* The effects that ride a checkpoint are statements of its transaction. *)
MySqlApplyOutbox(d, c) == Outboxed(d, c)

MySqlStartRun(c) == StartOrFind(c, "start")
MySqlStartManyRuns(c) == StartOrFind(c, "startMany")
MySqlLoadRun(c) == LoadLogFirst(c) \/ LoadMailFirst(c)
MySqlMarkRunning(c) == MarkAtOnce(c)

(* The run is looked for first, without a lock, and so is the step of a gated checkpoint. *)
(* The gate locks the job; the rest is one write, which no foreign key ties to the run.   *)
MySqlCheckpointStep(c) ==
  \/ /\ Calls(c, "checkpoint")
     /\ IF ~There(db, Call(c).run) THEN Throws(c)
        ELSE Writes(c, db, IF Gated(c) /\ ~Taken(db, c) THEN "gate" ELSE "write")
  \/ On(c, "checkpoint", "gate") /\ VersionMoved(db, c) /\ Refused(c)
  \/ /\ On(c, "checkpoint", "write") \/ (On(c, "checkpoint", "gate") /\ ~VersionMoved(db, c))
     /\ IF Taken(db, c) THEN Replayed(c) ELSE Committed(c, MySqlApplyOutbox(Written(db, c), c))

MySqlSuspendRun(c) == Calls(c, "suspend") /\ SuspendAtOnce(c)
MySqlMarkTerminal(c) == Calls(c, "finish") /\ FinishAtOnce(c)
MySqlArriveAtJoin(c) == ArriveAtOnce(c)

(* The inbox takes a signal for a run that is gone, and the queue a job. *)
MySqlPostSignal(c) == Calls(c, "signal") /\ SignalAtOnce(c)

MySqlCancelRuns(c) == CancelAtOnce(c)
MySqlRetryRuns(c) == RetryAllAtOnce(c)
MySqlRetryRun(c) == RetryAtOnce(c)

MySqlDeleteRuns(c) ==
  \/ Asks(c, "purge") /\ Reads(c, "delete", Victims(c))
  \/ On(c, "purge", "delete") /\ Ends(c, Erased(db, at[c].got), TRUE)

MySqlUpsertCron(c) == UpsertAtOnce(c)
MySqlRemoveCron(c) == RemoveAtOnce(c)
MySqlDueCrons(c) == DueCronsAtOnce(c)
MySqlAdvanceCron(c) == AdvanceAtOnce(c)

MySqlEnqueue(c) == EnqueueAtOnce(c)
MySqlClaim(c) == ClaimOneOf(c, Fit(c, Due(db)))
MySqlHeartbeat(c) == RenewAtOnce(c)
MySqlAck(c) == AckInTwo(c)

MySqlSchedule(c) == ScheduleAtOnce(c)
MySqlCancelTimer(c) == CancelTimerAtOnce(c)
MySqlDueBatch(c) == DueAtOnce(c)

(* One query answers a read. *)
MySqlLoadRunRows(c) == AtOnce(c, "rows")
MySqlChildrenOf(c) == AtOnce(c, "children")
MySqlRunStats(c) == AtOnce(c, "stats")
MySqlListRuns(c) == ListInPages(c)
MySqlOrphanedRuns(c) == AtOnce(c, "orphans")
MySqlListCrons(c) == AtOnce(c, "listCrons")
MySqlDueCronCount(c) == AtOnce(c, "cronCount")
MySqlDepth(c) == AtOnce(c, "depth")
MySqlDueCount(c) == AtOnce(c, "dueCount")
MySqlNextDueAt(c) == AtOnce(c, "nextDue")

MySqlNext(c) ==
  \/ MySqlStartRun(c) \/ MySqlStartManyRuns(c) \/ MySqlLoadRun(c) \/ MySqlMarkRunning(c)
  \/ MySqlCheckpointStep(c) \/ MySqlSuspendRun(c) \/ MySqlMarkTerminal(c)
  \/ MySqlArriveAtJoin(c) \/ MySqlPostSignal(c) \/ MySqlCancelRuns(c) \/ MySqlRetryRuns(c)
  \/ MySqlRetryRun(c) \/ MySqlDeleteRuns(c) \/ MySqlUpsertCron(c) \/ MySqlRemoveCron(c)
  \/ MySqlDueCrons(c) \/ MySqlAdvanceCron(c) \/ MySqlEnqueue(c) \/ MySqlClaim(c)
  \/ MySqlHeartbeat(c) \/ MySqlAck(c) \/ MySqlSchedule(c) \/ MySqlCancelTimer(c)
  \/ MySqlDueBatch(c) \/ Refuses(c) \/ MySqlLoadRunRows(c) \/ MySqlListRuns(c)
  \/ MySqlChildrenOf(c) \/ MySqlRunStats(c) \/ MySqlOrphanedRuns(c) \/ MySqlListCrons(c)
  \/ MySqlDueCronCount(c) \/ MySqlDepth(c) \/ MySqlDueCount(c) \/ MySqlNextDueAt(c)
=============================================================================
