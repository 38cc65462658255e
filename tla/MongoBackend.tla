--------------------------- MODULE MongoBackend ---------------------------
(***************************************************************************)
(* The MongoDB backend, on a replica set. A write to one document is       *)
(* atomic, and so is a transaction, which is retried when it conflicts     *)
(* with another; calls outside a transaction are cut between their writes. *)
(***************************************************************************)
EXTENDS BackendReads

(* The effects that ride a checkpoint are writes of its transaction. *)
MongoApplyOutbox(d, c) == Outboxed(d, c)

MongoStartRun(c) == StartOrFind(c, "start")
MongoStartManyRuns(c) == StartOrFind(c, "startMany")
MongoLoadRun(c) == LoadLogFirst(c) \/ LoadMailFirst(c)
MongoMarkRunning(c) == MarkAtOnce(c)

(* A transaction reads the tables of its first statement, and conflicts with another only *)
(* where both write: a conflict starts it again.  That the run is there is only read; and  *)
(* the gate's update sets the version it matched, which changes nothing, so writes        *)
(* nothing.  What was in the inbox is kept, to tell whether it changed.                    *)
MongoConflicts(c) ==
  LET r == Call(c).run
  IN  Taken(db, c) \/ (Spawns(c) /\ ~There(db, r)) \/ (Uses(c) /\ r \in at[c].got /\ ~db.mail[r])

(* A step, or a child, that is already there is a duplicate key, which aborts the          *)
(* transaction; a stored step is then read outside it.                                     *)
MongoCheckpointStep(c) ==
  \/ /\ Calls(c, "checkpoint")
     /\ IF ~There(db, Call(c).run) THEN Throws(c)
        ELSE IF Taken(db, c) THEN (IF Gated(c) THEN Replayed(c) ELSE Writes(c, db, "again"))
        ELSE IF Gated(c) /\ VersionMoved(db, c) THEN Refused(c)
        ELSE Reads(c, "write", {r \in Runs : db.mail[r]})
  \/ /\ On(c, "checkpoint", "write")
     /\ IF MongoConflicts(c) THEN Reads(c, "call", {})
        ELSE IF Spawns(c) /\ There(db, c) THEN Throws(c)
        ELSE Committed(c, MongoApplyOutbox(Written(db, c), c))
  \/ On(c, "checkpoint", "again") /\ IF Taken(db, c) THEN Replayed(c) ELSE Throws(c)

(* A park that changes nothing of the row conflicts where it sets the timer, alone. *)
MongoSuspendRun(c) ==
  LET r == Call(c).run
  IN  \/ /\ Calls(c, "suspend")
         /\ IF ~There(db, r) THEN Throws(c)
            ELSE IF LiveIn(db, r) /\ Naps(c) /\ Suspended(db.row[r], Call(c).arg) = db.row[r]
            THEN Reads(c, "timer", Set(db)) ELSE SuspendAtOnce(c)
      \/ /\ On(c, "suspend", "timer")
         /\ IF (r \in Set(db)) = (r \in at[c].got) THEN Ends(c, Scheduled(db, r), TRUE)
            ELSE Reads(c, "call", {})
MongoMarkTerminal(c) == Calls(c, "finish") /\ IF There(db, Call(c).run) THEN FinishAtOnce(c) ELSE Throws(c)
MongoArriveAtJoin(c) == ArriveAtOnce(c)
MongoPostSignal(c) == Calls(c, "signal") /\ SignalAtOnce(c)

(* The victims are found by their status, and updated by their ids: first their timers   *)
(* go, and then whatever status they have by now.                                        *)
MongoCancelRuns(c) ==
  \/ /\ Asks(c, "cancelRuns")
     /\ IF Chosen(c, Active) = {} THEN Ends(c, db, TRUE) ELSE Reads(c, "timers", Chosen(c, Active))
  \/ On(c, "cancelRuns", "timers") /\ Writes(c, Unscheduled(db, at[c].got), "rows")
  \/ On(c, "cancelRuns", "rows") /\ Ends(c, StatusSet(db, {r \in at[c].got : There(db, r)}, "canceled"), TRUE)

MongoRetryRuns(c) ==
  \/ /\ Asks(c, "retryRuns")
     /\ IF Chosen(c, {"failed"}) = {} THEN Ends(c, db, TRUE) ELSE Reads(c, "rows", Chosen(c, {"failed"}))
  \/ /\ On(c, "retryRuns", "rows")
     /\ LET there == {r \in at[c].got : There(db, r)}
        IN  Ends(c, Enqueuing(Pending(db, there), at[c].got), TRUE)

MongoRetryRun(c) == RetryAtOnce(c)

(* Five collections are cleared side by side. *)
MongoDeleteRuns(c) == DeleteInParts(c, {{"log"}, {"mail"}, {"job"}, {"timer"}, {"row", "key"}})

MongoUpsertCron(c) == UpsertAtOnce(c)
MongoRemoveCron(c) == RemoveAtOnce(c)
MongoDueCrons(c) == DueCronsAtOnce(c)
MongoAdvanceCron(c) == AdvanceAtOnce(c)

MongoEnqueue(c) == EnqueueAtOnce(c)
MongoClaim(c) == ClaimThenLease(c, OneOf(Due(db)))
MongoHeartbeat(c) == RenewAtOnce(c)
MongoAck(c) == AckOrRelease(c)

MongoSchedule(c) == ScheduleAtOnce(c)
MongoCancelTimer(c) == CancelTimerAtOnce(c)

(* What was found is deleted by id, whatever is there by now, and handed out. *)
MongoDueBatch(c) ==
  \/ Calls(c, "due") /\ IF Past(db) = {} THEN Ends(c, db, TRUE) ELSE Reads(c, "delete", Past(db))
  \/ On(c, "due", "delete") /\ Ends(c, HandedOut(TimerGone(db, at[c].got), at[c].got), TRUE)

(* One query answers a read, save where it needs names or jobs. *)
MongoLoadRunRows(c) == AtOnce(c, "rows")
MongoChildrenOf(c) == AtOnce(c, "children")
MongoRunStats(c) == AtOnce(c, "stats")
MongoListRuns(c) == ListInPages(c)

(* The runs; then their jobs and their timers, side by side. *)
MongoOrphanedRuns(c) ==
  \/ Begins(c, "orphans", RowFacts(db, Runs), {"job", "timer"} \X {r \in Runs : There(db, r)})
  \/ \E table \in {"job", "timer"} : LooksThrough(c, "orphans", table)
MongoListCrons(c) == AtOnce(c, "listCrons")
MongoDueCronCount(c) == AtOnce(c, "cronCount")

(* Unless every name will do: the jobs, or timers, and then which of their runs have     *)
(* another name.                                                                         *)
MongoDepth(c) ==
  \/ /\ Calls(c, "depth")
     /\ LET named == IF NeedsNames(Call(c)) THEN {r \in Runs : db.job[r].queued} ELSE {}
        IN  Begins(c, "depth", JobFacts(db, Runs), {"row"} \X named)
  \/ LooksThrough(c, "depth", "row")
MongoDueCount(c) ==
  \/ /\ Calls(c, "dueCount")
     /\ LET named == IF NeedsNames(Call(c)) THEN Past(db) ELSE {}
        IN  Begins(c, "dueCount", TimerFacts(db, Runs), {"row"} \X named)
  \/ LooksThrough(c, "dueCount", "row")
MongoNextDueAt(c) == AtOnce(c, "nextDue")

MongoNext(c) ==
  \/ MongoStartRun(c) \/ MongoStartManyRuns(c) \/ MongoLoadRun(c) \/ MongoMarkRunning(c)
  \/ MongoCheckpointStep(c) \/ MongoSuspendRun(c) \/ MongoMarkTerminal(c)
  \/ MongoArriveAtJoin(c) \/ MongoPostSignal(c) \/ MongoCancelRuns(c) \/ MongoRetryRuns(c)
  \/ MongoRetryRun(c) \/ MongoDeleteRuns(c) \/ MongoUpsertCron(c) \/ MongoRemoveCron(c)
  \/ MongoDueCrons(c) \/ MongoAdvanceCron(c) \/ MongoEnqueue(c) \/ MongoClaim(c)
  \/ MongoHeartbeat(c) \/ MongoAck(c) \/ MongoSchedule(c) \/ MongoCancelTimer(c)
  \/ MongoDueBatch(c) \/ Refuses(c) \/ MongoLoadRunRows(c) \/ MongoListRuns(c)
  \/ MongoChildrenOf(c) \/ MongoRunStats(c) \/ MongoOrphanedRuns(c) \/ MongoListCrons(c)
  \/ MongoDueCronCount(c) \/ MongoDepth(c) \/ MongoDueCount(c) \/ MongoNextDueAt(c)
=============================================================================
