-------------------------- MODULE DynamoBackend ---------------------------
(***************************************************************************)
(* The DynamoDB backend. One conditional write is atomic, and so is one    *)
(* TransactWriteItems; what a call reads before, and what it reads after,  *)
(* are steps of their own.                                                 *)
(***************************************************************************)
EXTENDS BackendReads

(* The effects that ride a checkpoint are items of its TransactWriteItems. *)
DynamoApplyOutbox(d, c) == Outboxed(d, c)

(* The run and the marker that holds its key are created together. *)
DynamoStartRun(c) == StartOrFind(c, "start")

(* A list is one transaction; if another start's marker fails it, every run is started   *)
(* by itself.                                                                            *)
DynamoStartManyRuns(c) ==
  \/ /\ Calls(c, "startMany")
     /\ IF db.key = NoOne THEN Ends(c, StartedAs(db, c), c) ELSE Writes(c, db, "again")
  \/ /\ On(c, "startMany", "again")
     /\ IF db.key = NoOne THEN Ends(c, StartedAs(db, c), c) ELSE Writes(c, db, "hit")
  \/ FindsHolder(c, "startMany")
DynamoLoadRun(c) == LoadAtOnce(c)
DynamoMarkRunning(c) == MarkOrLook(c)

(* The checkpoint, its outbox and its conditions are one transaction; what is stored is  *)
(* read back afterwards.  A failure of its third condition is taken for a version that   *)
(* moved: it may be the child, that is already there.                                    *)
DynamoCheckpointStep(c) ==
  LET r == Call(c).run
  IN  \/ /\ Calls(c, "checkpoint")
         /\ IF Taken(db, c) THEN Writes(c, db, "stored")
            ELSE IF ~There(db, r) THEN Throws(c)
            ELSE IF (Gated(c) /\ VersionMoved(db, c)) \/ (Spawns(c) /\ There(db, c)) THEN Refused(c)
            ELSE Writes(c, DynamoApplyOutbox(Written(db, c), c), "stored")
      \/ /\ On(c, "checkpoint", "stored")
         /\ IF Taken(db, c) THEN Replayed(c) ELSE Throws(c)

DynamoSuspendRun(c) == Calls(c, "suspend") /\ SuspendAtOnce(c)
DynamoMarkTerminal(c) == Calls(c, "finish") /\ FinishAtOnce(c)
DynamoArriveAtJoin(c) == ArriveAtOnce(c)
DynamoPostSignal(c) == Calls(c, "signal") /\ SignalAtOnce(c)

(* The runs are scanned once; each is then canceled, or retried, on condition. *)
DynamoMatching(c, op, allowed) == Asks(c, op) /\ Scans(c, op, Chosen(c, allowed))
DynamoCancelRuns(c) ==
  \/ DynamoMatching(c, "cancelRuns", Active)
  \/ On(c, "cancelRuns", "each") /\ \E r \in at[c].got : Visits(c, r, Over(db, r, "canceled"))

DynamoRetryRuns(c) ==
  \/ DynamoMatching(c, "retryRuns", {"failed"})
  \/ /\ On(c, "retryRuns", "each")
     /\ \E r \in at[c].got : Visits(c, r, Reopened(db, {r} \cap Failed(db)))
DynamoRetryRun(c) == RetryAtOnce(c)

(* Batches of deletes, some of them deferred; the marker of a start key is not among them. *)
DynamoDeleteRuns(c) == DeleteInParts(c, {{"log"}, {"mail"}, {"job"}, {"timer"}, {"row"}})

(* The row is read, and written over whatever it is by then. *)
DynamoUpsertCron(c) ==
  \/ Calls(c, "upsertCron") /\ Goes(c, db, [at[c] EXCEPT !.pc = "write", !.seen = db.cron])
  \/ /\ On(c, "upsertCron", "write")
     /\ LET spec == Call(c).arg
            next == IF at[c].seen.schedule = spec.schedule THEN at[c].seen.next ELSE spec.next
        IN  Ends(c, [db EXCEPT !.cron = [schedule |-> spec.schedule, next |-> next]], TRUE)
DynamoRemoveCron(c) == RemoveAtOnce(c)
DynamoDueCrons(c) == DueCronsAtOnce(c)
DynamoAdvanceCron(c) == AdvanceAtOnce(c)

DynamoEnqueue(c) == EnqueueAtOnce(c)
DynamoClaim(c) == ClaimThenLease(c, {Due(db)})
DynamoHeartbeat(c) == RenewAtOnce(c)
DynamoAck(c) == AckOrRelease(c)

DynamoSchedule(c) == ScheduleAtOnce(c)
DynamoCancelTimer(c) == CancelTimerAtOnce(c)

(* Each timer that was found is handed out by whoever deletes it. *)
DynamoDueBatch(c) ==
  \/ Scans(c, "due", Past(db))
  \/ /\ On(c, "due", "each")
     /\ \E r \in at[c].got :
          LET here == {r} \cap Set(db)
          IN  Visits(c, r, HandedOut(TimerGone(db, here), here))

(* A scan, a query and a batch read an item at a time; the indexes are taken as up to     *)
(* date.                                                                                 *)
DynamoGathers(c, op, tables) == Begins(c, op, {}, {t : t \in tables} \X Runs)
DynamoLoadRunRows(c) == DynamoGathers(c, "rows", {"row"}) \/ LooksOn(c, "rows", "row")
DynamoChildrenOf(c) == DynamoGathers(c, "children", {"row"}) \/ LooksOn(c, "children", "row")
DynamoRunStats(c) == DynamoGathers(c, "stats", {"row"}) \/ LooksOn(c, "stats", "row")
DynamoListRuns(c) == ListByEntry(c)

(* Three scans, side by side. *)
DynamoOrphanedRuns(c) ==
  \/ DynamoGathers(c, "orphans", {"row", "job", "timer"})
  \/ \E table \in {"row", "job", "timer"} : LooksOn(c, "orphans", table)
DynamoListCrons(c) == AtOnce(c, "listCrons")
DynamoDueCronCount(c) == AtOnce(c, "cronCount")

(* The jobs, or timers; then the names of their runs. *)
DynamoDepth(c) ==
  \/ Calls(c, "depth") /\ DynamoGathers(c, "depth", IF NeedsNames(Call(c)) THEN {"job", "row"} ELSE {"job"})
  \/ LooksInTurn(c, "depth", <<"job", "row">>)
DynamoDueCount(c) ==
  \/ Calls(c, "dueCount") /\ DynamoGathers(c, "dueCount", IF NeedsNames(Call(c)) THEN {"timer", "row"} ELSE {"timer"})
  \/ LooksInTurn(c, "dueCount", <<"timer", "row">>)
DynamoNextDueAt(c) == AtOnce(c, "nextDue")

DynamoNext(c) ==
  \/ DynamoStartRun(c) \/ DynamoStartManyRuns(c) \/ DynamoLoadRun(c)
  \/ DynamoMarkRunning(c) \/ DynamoCheckpointStep(c) \/ DynamoSuspendRun(c)
  \/ DynamoMarkTerminal(c) \/ DynamoArriveAtJoin(c) \/ DynamoPostSignal(c)
  \/ DynamoCancelRuns(c) \/ DynamoRetryRuns(c) \/ DynamoRetryRun(c) \/ DynamoDeleteRuns(c)
  \/ DynamoUpsertCron(c) \/ DynamoRemoveCron(c) \/ DynamoDueCrons(c)
  \/ DynamoAdvanceCron(c) \/ DynamoEnqueue(c) \/ DynamoClaim(c) \/ DynamoHeartbeat(c)
  \/ DynamoAck(c) \/ DynamoSchedule(c) \/ DynamoCancelTimer(c) \/ DynamoDueBatch(c)
  \/ Refuses(c) \/ DynamoLoadRunRows(c) \/ DynamoListRuns(c) \/ DynamoChildrenOf(c)
  \/ DynamoRunStats(c) \/ DynamoOrphanedRuns(c) \/ DynamoListCrons(c)
  \/ DynamoDueCronCount(c) \/ DynamoDepth(c) \/ DynamoDueCount(c) \/ DynamoNextDueAt(c)
=============================================================================
