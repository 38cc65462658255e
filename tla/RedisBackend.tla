--------------------------- MODULE RedisBackend ---------------------------
(***************************************************************************)
(* The Redis backend. A Lua script is atomic; a call that scans the runs,  *)
(* or sends several commands, is cut between them. The jobs are found      *)
(* through a sorted set of run ids, and the due crons through another,     *)
(* kept beside the rows.                                                   *)
(***************************************************************************)
EXTENDS BackendReads

RedisQueued(d, R) == [d EXCEPT !.queue = @ \cup R]
RedisUnqueued(d, R) == [d EXCEPT !.queue = @ \ R]

(* The row of a spawned child is written over whatever is there. *)
RedisApplyOutbox(d, c) ==
  IF Spawns(c) THEN Joined(RedisQueued(Enqueuing(Born(d, {c}), {c}), {c}), Call(c).run)
  ELSE IF Uses(c) THEN Consumed(d, Call(c).run) ELSE d

RedisStartRun(c) == StartOrFind(c, "start")
RedisStartManyRuns(c) == StartOrFind(c, "startMany")
RedisLoadRun(c) == LoadLogFirst(c)
RedisMarkRunning(c) == MarkAtOnce(c)
RedisCheckpointStep(c) == Calls(c, "checkpoint") /\ CheckpointAtOnce(c, RedisApplyOutbox(Written(db, c), c))
RedisSuspendRun(c) == Calls(c, "suspend") /\ IF There(db, Call(c).run) THEN SuspendAtOnce(c) ELSE Throws(c)
RedisMarkTerminal(c) == Calls(c, "finish") /\ IF There(db, Call(c).run) THEN FinishAtOnce(c) ELSE Throws(c)
RedisArriveAtJoin(c) == ArriveAtOnce(c)

(* Nothing asks whether the run exists. *)
RedisPosted(d, r) == IF d.sent[r] THEN d ELSE RedisQueued(Enqueuing(Delivered(d, r), {r}), {r})
RedisPostSignal(c) ==
  LET r == Call(c).run IN Calls(c, "signal") /\ Ends(c, RedisPosted(db, r), ~db.sent[r])

(* The runs are scanned once; each is then canceled, or retried, by a script of its own, *)
(* which looks at the row again.                                                         *)
RedisCancelRuns(c) ==
  \/ Asks(c, "cancelRuns") /\ Scans(c, "cancelRuns", Chosen(c, Active))
  \/ /\ On(c, "cancelRuns", "each")
     /\ \E r \in at[c].got : IF There(db, r) THEN Visits(c, r, Over(db, r, "canceled")) ELSE Throws(c)

RedisRetried(d, r) == IF r \in Failed(d) THEN RedisQueued(Reopened(d, {r}), {r}) ELSE d
RedisRetryRuns(c) ==
  \/ Asks(c, "retryRuns") /\ Scans(c, "retryRuns", Chosen(c, {"failed"}))
  \/ /\ On(c, "retryRuns", "each")
     /\ \E r \in at[c].got : IF There(db, r) THEN Visits(c, r, RedisRetried(db, r)) ELSE Throws(c)
RedisRetryRun(c) ==
  LET r == Call(c).run
  IN  Calls(c, "retry") /\ IF There(db, r) THEN Ends(c, RedisRetried(db, r), r \in Failed(db)) ELSE Throws(c)

(* The victims' keys are deleted without another look, and their ids stay in the queue. *)
RedisDeleteRuns(c) ==
  \/ Asks(c, "purge") /\ Scans(c, "purge", Victims(c))
  \/ On(c, "purge", "each") /\ \E r \in at[c].got : Visits(c, r, Erased(db, {r}))

(* The score in the sorted set is the time a due cron is found by. *)
RedisUpserted(d, spec) ==
  LET kept == d.cron.schedule = spec.schedule /\ d.ripe # 0
  IN  [d EXCEPT !.cron = CronOf(d, spec), !.ripe = IF kept THEN @ ELSE spec.next]
RedisUpsertCron(c) == Calls(c, "upsertCron") /\ Ends(c, RedisUpserted(db, Call(c).arg), TRUE)

(* The row, and then the score. *)
RedisRemoveCron(c) ==
  \/ Calls(c, "removeCron") /\ Writes(c, [db EXCEPT !.cron = NoCron], "score")
  \/ On(c, "removeCron", "score") /\ Ends(c, [db EXCEPT !.ripe = 0], TRUE)

RedisDueCrons(c) ==
  \/ Calls(c, "dueCrons") /\ IF db.ripe = 0 THEN EndsWith(c, db, [at[c] EXCEPT !.cron = NoCron], TRUE)
                                          ELSE Writes(c, db, "rows")
  \/ On(c, "dueCrons", "rows") /\ EndsWith(c, db, [at[c] EXCEPT !.cron = db.cron], TRUE)

RedisAdvanced(d, expected) ==
  IF expected # 0 /\ d.ripe = expected /\ d.cron # NoCron
  THEN [d EXCEPT !.cron.next = expected + 2, !.ripe = expected + 2] ELSE d
RedisAdvanceCron(c) ==
  LET expected == at[c].cron.next
      d == RedisAdvanced(db, expected)
  IN  Calls(c, "advanceCron") /\ Ends(c, d, IF d # db THEN expected ELSE 0)

RedisEnqueue(c) ==
  Calls(c, "enqueue") /\ Ends(c, RedisQueued(Enqueuing(db, {Call(c).run}), {Call(c).run}), TRUE)

(* A claim looks at the first entries of the queue alone, leased or not. *)
RedisInWindow(d) == {r \in d.queue : Cardinality({q \in d.queue : q < r}) < Window}
RedisClaim(c) == ClaimOneOf(c, Fit(c, RedisInWindow(db) \cap Due(db)))
RedisHeartbeat(c) == RenewAtOnce(c)

RedisAck(c) ==
  LET r == at[c].run
  IN  /\ Calls(c, "ack")
      /\ LeaseDropped(c, IF ~Held(c) THEN db
                         ELSE IF SameVersion(c) THEN RedisUnqueued(Dequeued(db, r), {r})
                         ELSE RedisQueued(LetGo(db, r), {r}))

RedisSchedule(c) == ScheduleAtOnce(c)
RedisCancelTimer(c) == CancelTimerAtOnce(c)
RedisDueBatch(c) == DueAtOnce(c)

(* Keys are read one by one, in the order of the requests: one connection answers them    *)
(* in turn.                                                                              *)
RedisKept(d) == {r \in Runs : There(d, r)}
RedisLoadRunRows(c) == Begins(c, "rows", {}, {"row"} \X Runs) \/ LooksOn(c, "rows", "row")
RedisChildrenOf(c) ==
  Begins(c, "children", {}, {"row"} \X (IF There(db, 0) THEN db.kids ELSE {})) \/ LooksOn(c, "children", "row")
RedisRunStats(c) == Begins(c, "stats", {}, {"row"} \X RedisKept(db)) \/ LooksOn(c, "stats", "row")

(* A window of the index, then the rows of the window.  A page that is filtered looks     *)
(* through wide windows, and ends with the index.                                        *)
RedisFilters(c) == Call(c).arg # Statuses
RedisListRuns(c) ==
  \/ /\ Paging(c)
     /\ IF Below(c) = {} THEN Ends(c, db, at[c].out)
        ELSE Reads(c, "row", IF RedisFilters(c) THEN Below(c) ELSE {Newest(Below(c))})
  \/ /\ On(c, "list", "row")
     /\ LET r == Newest(at[c].got)
            page == at[c].page \cup Concluded(Call(c), RowFacts(db, {r}))
            last == Newest({f[1] : f \in page})
        IN  IF at[c].got # {r} THEN Goes(c, db, [at[c] EXCEPT !.got = @ \ {r}, !.page = page])
            ELSE IF page # {} THEN Goes(c, db, [Turned(c, last, {f \in page : f[1] = last}) EXCEPT !.got = {}, !.page = {}])
            ELSE IF RedisFilters(c) THEN Ends(c, db, at[c].out)
            ELSE Goes(c, db, [Turned(c, r, {}) EXCEPT !.got = {}])
RedisOrphanedRuns(c) ==
  \/ Begins(c, "orphans", {}, {"row", "job", "timer"} \X RedisKept(db))
  \/ LooksInTurn(c, "orphans", <<"row", "job", "timer">>)
RedisListCrons(c) == AtOnce(c, "listCrons")

(* The score; then, for the names, the row. *)
RedisDueCronCount(c) ==
  \/ /\ Calls(c, "cronCount")
     /\ IF NeedsNames(Call(c)) /\ db.ripe # 0 THEN Writes(c, db, "rows")
        ELSE Ends(c, db, IF db.ripe = 0 THEN {} ELSE {<<0, "cron">>})
  \/ On(c, "cronCount", "rows") /\ Ends(c, db, Concluded(Call(c), CronFacts(db)))

(* What the sorted set holds; then each job, and each run's name. *)
RedisDepth(c) ==
  \/ Begins(c, "depth", {}, (IF NeedsNames(Call(c)) THEN {"job", "row"} ELSE {"job"}) \X db.queue)
  \/ LooksInTurn(c, "depth", <<"job", "row">>)
RedisDueCount(c) ==
  \/ Begins(c, "dueCount", TimerFacts(db, Runs), IF NeedsNames(Call(c)) THEN {"row"} \X Past(db) ELSE {})
  \/ LooksOn(c, "dueCount", "row")
RedisNextDueAt(c) == AtOnce(c, "nextDue")

RedisNext(c) ==
  \/ RedisStartRun(c) \/ RedisStartManyRuns(c) \/ RedisLoadRun(c) \/ RedisMarkRunning(c)
  \/ RedisCheckpointStep(c) \/ RedisSuspendRun(c) \/ RedisMarkTerminal(c)
  \/ RedisArriveAtJoin(c) \/ RedisPostSignal(c) \/ RedisCancelRuns(c) \/ RedisRetryRuns(c)
  \/ RedisRetryRun(c) \/ RedisDeleteRuns(c) \/ RedisUpsertCron(c) \/ RedisRemoveCron(c)
  \/ RedisDueCrons(c) \/ RedisAdvanceCron(c) \/ RedisEnqueue(c) \/ RedisClaim(c)
  \/ RedisHeartbeat(c) \/ RedisAck(c) \/ RedisSchedule(c) \/ RedisCancelTimer(c)
  \/ RedisDueBatch(c) \/ Refuses(c) \/ RedisLoadRunRows(c) \/ RedisListRuns(c)
  \/ RedisChildrenOf(c) \/ RedisRunStats(c) \/ RedisOrphanedRuns(c) \/ RedisListCrons(c)
  \/ RedisDueCronCount(c) \/ RedisDepth(c) \/ RedisDueCount(c) \/ RedisNextDueAt(c)
=============================================================================
