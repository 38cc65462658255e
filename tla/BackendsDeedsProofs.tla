------------------------ MODULE BackendsDeedsProofs ------------------------
(***************************************************************************)
(* What the clients of a backend may count on, whatever programs of port   *)
(* calls they run: what they race for is won once, every write is one that *)
(* the store promises, and a claim that finds nothing has overlooked       *)
(* nothing.                                                                *)
(*                                                                         *)
(* Seven backends cut some thirty calls into steps of their own.  A deed   *)
(* is what such a step comes to: it leaves the papers alone (row, log,     *)
(* inbox, join, key, cron) and wins nothing, or it starts, commits, marks  *)
(* or ends, reopens, arrives, delivers, clears, or moves the cron.  That   *)
(* each step is a deed is proved once; the theorems speak of deeds.        *)
(***************************************************************************)
EXTENDS BackendsProofs

(* The columns that the store and the crons answer for, and a statement that leaves some   *)
(* columns as they are.                                                                   *)
Papers == {"row", "log", "mail", "sent", "left", "key", "cron", "ripe"}
Keep(d, e, columns) == DOMAIN e = Columns /\ \A column \in columns : e[column] = d[column]
Rests(d, e) == Keep(d, e, Papers)

(* What is kept by one statement and by the next is kept by both. *)
LEMMA KeptInTurn ==
  ASSUME NEW d, NEW e, NEW f, NEW A, NEW B, Keep(d, e, A), Keep(e, f, B)
  PROVE  Keep(d, f, A \cap B)
BY DEF Keep

LEMMA RestsInTurn ==
  ASSUME NEW d, NEW e, NEW f, NEW A, Keep(d, e, A), Rests(e, f)
  PROVE  Keep(d, f, A \cap Papers)
BY KeptInTurn DEF Rests

LEMMA KeptByName ==
  ASSUME NEW d, NEW e
  PROVE  Rests(d, e) <=> /\ DOMAIN e = Columns
                         /\ e.row = d.row /\ e.log = d.log /\ e.mail = d.mail /\ e.sent = d.sent
                         /\ e.left = d.left /\ e.key = d.key /\ e.cron = d.cron /\ e.ripe = d.ripe
BY DEF Rests, Keep, Papers

-----------------------------------------------------------------------------
(* What each statement makes of the papers *)

LEMMA EnqueuingRests == ASSUME NEW d, NEW R, DOMAIN d = Columns PROVE Rests(d, Enqueuing(d, R))
BY Zenon DEF Rests, Keep, Papers, Columns, Enqueuing

LEMMA TimersRest ==
  ASSUME NEW d, NEW R, NEW r, DOMAIN d = Columns
  PROVE  /\ Rests(d, Scheduled(d, r)) /\ Rests(d, TimerGone(d, R)) /\ Rests(d, HandedOut(d, R))
         /\ Rests(d, Unscheduled(d, R))
<1>1. Rests(d, Scheduled(d, r)) BY Zenon DEF Rests, Keep, Papers, Columns, Scheduled
<1>2. Rests(d, TimerGone(d, R)) BY Zenon DEF Rests, Keep, Papers, Columns, TimerGone
<1>3. Rests(d, HandedOut(d, R)) BY Zenon DEF Rests, Keep, Papers, Columns, HandedOut
<1>4. Rests(d, Unscheduled(d, R))
  <2> DEFINE t == TimerGone(d, R)
  <2>1. Rests(d, t) BY <1>2
  <2>2. DOMAIN t = Columns BY <2>1 DEF Rests, Keep
  <2>3. Unscheduled(d, R) = [t EXCEPT !.alarms = Minus(@, R \cap Set(d))] BY DEF Unscheduled
  <2> HIDE DEF t
  <2>4. Rests(t, Unscheduled(d, R)) BY <2>2, <2>3, Zenon DEF Rests, Keep, Papers, Columns
  <2> QED BY <2>1, <2>4, KeptByName
<1> QED BY <1>1, <1>2, <1>3, <1>4

LEMMA JobsRest ==
  ASSUME NEW d, NEW R, NEW r, NEW c, DOMAIN d = Columns
  PROVE  /\ Rests(d, ClaimedBy(d, r, c)) /\ Rests(d, Renewed(d, r)) /\ Rests(d, Dequeued(d, r))
         /\ Rests(d, LetGo(d, r)) /\ Rests(d, RedisQueued(d, R)) /\ Rests(d, RedisUnqueued(d, R))
<1>1. Rests(d, ClaimedBy(d, r, c)) BY Zenon DEF Rests, Keep, Papers, Columns, ClaimedBy
<1>2. Rests(d, Renewed(d, r)) BY Zenon DEF Rests, Keep, Papers, Columns, Renewed
<1>3. Rests(d, Dequeued(d, r)) BY Zenon DEF Rests, Keep, Papers, Columns, Dequeued
<1>4. Rests(d, LetGo(d, r)) BY Zenon DEF Rests, Keep, Papers, Columns, LetGo
<1>5. Rests(d, RedisQueued(d, R)) BY Zenon DEF Rests, Keep, Papers, Columns, RedisQueued
<1>6. Rests(d, RedisUnqueued(d, R)) BY Zenon DEF Rests, Keep, Papers, Columns, RedisUnqueued
<1> QED BY <1>1, <1>2, <1>3, <1>4, <1>5, <1>6

LEMMA RestsTwice ==
  ASSUME NEW d, NEW e, NEW f, Rests(d, e), Rests(e, f)
  PROVE  Rests(d, f)
BY KeptByName

LEMMA RestsAtAll == ASSUME NEW d, DOMAIN d = Columns PROVE Rests(d, d)
BY KeptByName

(* Rows written, and nothing else. *)
RowsMove(d, e, rows) == Keep(d, e, Papers \ {"row"}) /\ e.row = rows

LEMMA RowsThenRest ==
  ASSUME NEW d, NEW e, NEW f, NEW rows, RowsMove(d, e, rows), Rests(e, f)
  PROVE  RowsMove(d, f, rows)
BY DEF RowsMove, Rests, Keep, Papers

LEMMA RestThenRows ==
  ASSUME NEW d, NEW e, NEW f, NEW rows, Rests(d, e), RowsMove(e, f, rows)
  PROVE  RowsMove(d, f, rows)
BY DEF RowsMove, Rests, Keep, Papers

LEMMA RowsWritten ==
  ASSUME NEW d, NEW R, NEW r, NEW row, NEW status, DOMAIN d = Columns
  PROVE  /\ RowsMove(d, Pending(d, R), [q \in Runs |-> IF q \in R THEN Fresh ELSE d.row[q]])
         /\ RowsMove(d, [d EXCEPT !.row[r] = row], [d.row EXCEPT ![r] = row])
         /\ RowsMove(d, StatusSet(d, R, status),
                     [q \in Runs |-> IF q \in R THEN [d.row[q] EXCEPT !.status = status] ELSE d.row[q]])
<1>1. RowsMove(d, Pending(d, R), [q \in Runs |-> IF q \in R THEN Fresh ELSE d.row[q]])
    BY Zenon DEF RowsMove, Keep, Papers, Columns, Pending
<1>2. RowsMove(d, [d EXCEPT !.row[r] = row], [d.row EXCEPT ![r] = row])
    BY Zenon DEF RowsMove, Keep, Papers, Columns
<1>3. RowsMove(d, StatusSet(d, R, status),
               [q \in Runs |-> IF q \in R THEN [d.row[q] EXCEPT !.status = status] ELSE d.row[q]])
    BY Zenon DEF RowsMove, Keep, Papers, Columns, StatusSet
<1> QED BY <1>1, <1>2, <1>3

(* A log entry, its outbox, and what a purge leaves. *)
LEMMA WrittenPapers ==
  ASSUME NEW d, NEW c, DOMAIN d = Columns
  PROVE  LET e == Written(d, c)
         IN  /\ Keep(d, e, Papers \ {"log"})
             /\ e.log = [d.log EXCEPT ![Call(c).run][Free(c)] = Entry(c)]
BY Zenon DEF Keep, Papers, Columns, Written

LEMMA JoinedPapers ==
  ASSUME NEW d, NEW r, DOMAIN d = Columns
  PROVE  /\ Keep(d, Joined(d, r), Papers \ {"left"})
         /\ Joined(d, r).left = [d.left EXCEPT ![r] = 1]
BY Zenon DEF Keep, Papers, Columns, Joined

LEMMA ConsumedPapers ==
  ASSUME NEW d, NEW r, DOMAIN d = Columns
  PROVE  /\ Keep(d, Consumed(d, r), Papers \ {"mail"})
         /\ Consumed(d, r).mail = [d.mail EXCEPT ![r] = FALSE]
BY Zenon DEF Keep, Papers, Columns, Consumed

LEMMA DeliveredPapers ==
  ASSUME NEW d, NEW r, DOMAIN d = Columns
  PROVE  LET e == Delivered(d, r)
         IN  /\ Keep(d, e, Papers \ {"mail", "sent"})
             /\ e.mail = [d.mail EXCEPT ![r] = TRUE] /\ e.sent = [d.sent EXCEPT ![r] = TRUE]
BY Zenon DEF Keep, Papers, Columns, Delivered

LEMMA BornPapers ==
  ASSUME NEW d, NEW R, DOMAIN d = Columns
  PROVE  RowsMove(d, Born(d, R), [q \in Runs |-> IF q \in R THEN Fresh ELSE d.row[q]])
<1> DEFINE p == Pending(d, R)
           rows == [q \in Runs |-> IF q \in R THEN Fresh ELSE d.row[q]]
<1>1. RowsMove(d, p, rows) BY RowsWritten
<1>2. DOMAIN p = Columns BY <1>1 DEF RowsMove, Keep
<1>3. Born(d, R) = [p EXCEPT !.kids = @ \cup R] BY DEF Born
<1> HIDE DEF p
<1>4. Rests(p, Born(d, R)) BY <1>2, <1>3, Zenon DEF Rests, Keep, Papers, Columns
<1> HIDE DEF rows
<1> QED BY <1>1, <1>4, RowsThenRest DEF rows

LEMMA StartedPapers ==
  ASSUME NEW d, NEW c, DOMAIN d = Columns
  PROVE  LET e == StartedAs(d, c)
         IN  /\ Keep(d, e, Papers \ {"row", "key"}) /\ e.key = c
             /\ e.row = [q \in Runs |-> IF q \in {c} THEN Fresh ELSE d.row[q]]
<1> DEFINE p == Pending(d, {c})
           rows == [q \in Runs |-> IF q \in {c} THEN Fresh ELSE d.row[q]]
           e == [p EXCEPT !.key = c]
<1>1. RowsMove(d, p, rows) BY RowsWritten
<1>2. DOMAIN p = Columns BY <1>1 DEF RowsMove, Keep
<1>3. StartedAs(d, c) = e BY DEF StartedAs
<1> HIDE DEF p
<1>4. Keep(p, e, Papers \ {"key"}) /\ e.key = c BY <1>2, Zenon DEF Keep, Papers, Columns
<1> HIDE DEF rows, e
<1>5. Keep(d, e, Papers \ {"row", "key"}) /\ e.row = rows
    BY <1>1, <1>4 DEF RowsMove, Keep, Papers
<1> QED BY <1>3, <1>4, <1>5 DEF rows

(* Each run that a purge has read loses some of its papers, and no other run does. *)
Cleared(d, e, R) ==
  /\ Keep(d, e, {"cron", "ripe"})
  /\ \A r \in Runs :
       /\ e.row[r] = d.row[r] \/ e.row[r] = NoRun
       /\ e.log[r] = d.log[r] \/ e.log[r] = [p \in Positions |-> NoEntry]
       /\ (e.mail[r] = d.mail[r] /\ e.sent[r] = d.sent[r]) \/ (~e.mail[r] /\ ~e.sent[r])
       /\ e.left[r] = d.left[r] \/ e.left[r] = 0
       /\ r \notin R => /\ e.row[r] = d.row[r] /\ e.log[r] = d.log[r] /\ e.mail[r] = d.mail[r]
                        /\ e.sent[r] = d.sent[r] /\ e.left[r] = d.left[r]

LEMMA WithoutClears ==
  ASSUME NEW d, NEW R, NEW parts, DOMAIN d = Columns
  PROVE  Cleared(d, Without(d, R, parts), R)
<1> DEFINE e == Without(d, R, parts)
           Gone(part, f, none) == [r \in Runs |-> IF r \in R /\ part \in parts THEN none ELSE f[r]]
<1>1. /\ DOMAIN e = Columns /\ e.cron = d.cron /\ e.ripe = d.ripe
      /\ e.log = Gone("log", d.log, [p \in Positions |-> NoEntry])
      /\ e.mail = Gone("mail", d.mail, FALSE) /\ e.sent = Gone("mail", d.sent, FALSE)
      /\ e.row = Gone("row", d.row, NoRun) /\ e.left = Gone("row", d.left, 0)
    BY Zenon DEF Columns, Without
<1> HIDE DEF e
<1>2. Keep(d, e, {"cron", "ripe"}) BY <1>1 DEF Keep
<1>3. ASSUME NEW r \in Runs
      PROVE  /\ e.row[r] = IF r \in R /\ "row" \in parts THEN NoRun ELSE d.row[r]
             /\ e.log[r] = IF r \in R /\ "log" \in parts THEN [p \in Positions |-> NoEntry] ELSE d.log[r]
             /\ e.mail[r] = IF r \in R /\ "mail" \in parts THEN FALSE ELSE d.mail[r]
             /\ e.sent[r] = IF r \in R /\ "mail" \in parts THEN FALSE ELSE d.sent[r]
             /\ e.left[r] = IF r \in R /\ "row" \in parts THEN 0 ELSE d.left[r]
    BY <1>1
<1>4. Cleared(d, e, R) BY <1>2, <1>3 DEF Cleared
<1> QED BY <1>4 DEF e

LEMMA CronsPapers ==
  ASSUME NEW d, NEW k, NEW n, DOMAIN d = Columns
  PROVE  /\ LET e == [d EXCEPT !.cron = k]
            IN  Keep(d, e, Papers \ {"cron"}) /\ e.cron = k
         /\ LET e == [d EXCEPT !.ripe = n]
            IN  Keep(d, e, Papers \ {"ripe"}) /\ e.ripe = n
<1>1. LET e == [d EXCEPT !.cron = k] IN Keep(d, e, Papers \ {"cron"}) /\ e.cron = k
    BY Zenon DEF Keep, Papers, Columns
<1>2. LET e == [d EXCEPT !.ripe = n] IN Keep(d, e, Papers \ {"ripe"}) /\ e.ripe = n
    BY Zenon DEF Keep, Papers, Columns
<1> QED BY <1>1, <1>2

(* What a checkpoint commits: its entry, and the child, the join or the signal with it. *)
CommitOf(c, d, e) ==
  LET r == Call(c).run
  IN  /\ Keep(d, e, {"sent", "key", "cron", "ripe"})
      /\ e.log = [d.log EXCEPT ![r][Free(c)] = Entry(c)]
      /\ e.mail = IF Uses(c) THEN [d.mail EXCEPT ![r] = FALSE] ELSE d.mail
      /\ e.left = IF Spawns(c) THEN [d.left EXCEPT ![r] = 1] ELSE d.left
      /\ \A q \in Runs \ {c} : e.row[q] = d.row[q]
      /\ c \in Runs => e.row[c] = d.row[c] \/ (Spawns(c) /\ e.row[c] = Fresh)

LEMMA CommitPapers ==
  ASSUME NEW d, NEW c, DOMAIN d = Columns
  PROVE  /\ CommitOf(c, d, Outboxed(Written(d, c), c))
         /\ ~(Spawns(c) /\ ~There(d, c)) => \A q \in Runs : Outboxed(Written(d, c), c).row[q] = d.row[q]
         /\ CommitOf(c, d, RedisApplyOutbox(Written(d, c), c))
<1> DEFINE w == Written(d, c)
           r == Call(c).run
           Spawned(R) == Enqueuing(Born(w, R), {c})
<1>1. Keep(d, w, Papers \ {"log"}) /\ w.log = [d.log EXCEPT ![r][Free(c)] = Entry(c)] BY WrittenPapers
<1>2. DOMAIN w = Columns BY <1>1 DEF Keep
<1>3. There(w, c) <=> There(d, c) BY <1>1 DEF There, Keep, Papers
<1>4. Uses(c) => ~Spawns(c) BY DEF Uses, Spawns
<1> HIDE DEF w
<1>5. ASSUME NEW R, NEW e, Rests(Spawned(R), e)
      PROVE  /\ Keep(d, Joined(e, r), {"sent", "key", "cron", "ripe", "mail"})
             /\ Joined(e, r).log = w.log /\ Joined(e, r).left = [d.left EXCEPT ![r] = 1]
             /\ \A q \in Runs : Joined(e, r).row[q] = IF q \in R THEN Fresh ELSE d.row[q]
  <2> DEFINE rows == [q \in Runs |-> IF q \in R THEN Fresh ELSE w.row[q]]
             b == Born(w, R)
  <2>1. RowsMove(w, b, rows) BY <1>2, BornPapers
  <2>2. DOMAIN b = Columns BY <2>1 DEF RowsMove, Keep
  <2> HIDE DEF rows, b
  <2>3. Rests(b, e)
    <3>1. Spawned(R) = Enqueuing(b, {c}) BY DEF b
    <3>2. Rests(b, Enqueuing(b, {c})) BY <2>2, EnqueuingRests
    <3> QED BY <1>5, <3>1, <3>2, RestsTwice
  <2>4. RowsMove(w, e, rows) BY <2>1, <2>3, RowsThenRest
  <2>5. DOMAIN e = Columns BY <1>5 DEF Rests, Keep
  <2>6. Keep(e, Joined(e, r), Papers \ {"left"}) /\ Joined(e, r).left = [e.left EXCEPT ![r] = 1]
      BY <2>5, JoinedPapers
  <2>7. Joined(e, r).row = rows /\ Joined(e, r).log = w.log /\ Joined(e, r).left = [d.left EXCEPT ![r] = 1]
      BY <1>1, <2>4, <2>6 DEF Keep, Papers, RowsMove
  <2>8. Keep(d, Joined(e, r), {"sent", "key", "cron", "ripe", "mail"})
      BY <1>1, <2>4, <2>6 DEF Keep, Papers, RowsMove
  <2>9. w.row = d.row BY <1>1 DEF Keep, Papers
  <2> QED BY <2>7, <2>8, <2>9 DEF rows
<1>6. \A R : DOMAIN Spawned(R) = Columns
  <2> TAKE R
  <2>1. DOMAIN Born(w, R) = Columns BY <1>2, BornPapers DEF RowsMove, Keep
  <2> QED BY <2>1, EnqueuingRests DEF Rests, Keep
<1>7. \A R : Rests(Spawned(R), Spawned(R)) BY <1>6, RestsAtAll
<1>8. \A R : Rests(Spawned(R), RedisQueued(Spawned(R), {c})) BY <1>6, JobsRest
<1>9. Keep(w, Consumed(w, r), Papers \ {"mail"}) /\ Consumed(w, r).mail = [w.mail EXCEPT ![r] = FALSE]
    BY <1>2, ConsumedPapers
<1>10. Outboxed(w, c) = IF Spawns(c) THEN Joined(Spawned(IF There(d, c) THEN {} ELSE {c}), r)
                        ELSE IF Uses(c) THEN Consumed(w, r) ELSE w
    BY <1>3 DEF Outboxed
<1>11. RedisApplyOutbox(w, c) = IF Spawns(c) THEN Joined(RedisQueued(Spawned({c}), {c}), r)
                                ELSE IF Uses(c) THEN Consumed(w, r) ELSE w
    BY DEF RedisApplyOutbox
<1> HIDE DEF Spawned
<1>12. CASE Spawns(c)
  <2> DEFINE R == IF There(d, c) THEN {} ELSE {c}
             e == Joined(Spawned(R), r)
             f == Joined(RedisQueued(Spawned({c}), {c}), r)
  <2>1. /\ Keep(d, e, {"sent", "key", "cron", "ripe", "mail"})
        /\ e.log = w.log /\ e.left = [d.left EXCEPT ![r] = 1]
        /\ \A q \in Runs : e.row[q] = IF q \in R THEN Fresh ELSE d.row[q]
      BY <1>5, <1>7
  <2>2. /\ Keep(d, f, {"sent", "key", "cron", "ripe", "mail"})
        /\ f.log = w.log /\ f.left = [d.left EXCEPT ![r] = 1]
        /\ \A q \in Runs : f.row[q] = IF q \in {c} THEN Fresh ELSE d.row[q]
    <3> DEFINE S == {c}
    <3>1. Rests(Spawned(S), RedisQueued(Spawned(S), {c})) BY <1>8
    <3> HIDE DEF S
    <3>2. LET g == Joined(RedisQueued(Spawned(S), {c}), r)
          IN  /\ Keep(d, g, {"sent", "key", "cron", "ripe", "mail"})
              /\ g.log = w.log /\ g.left = [d.left EXCEPT ![r] = 1]
              /\ \A q \in Runs : g.row[q] = IF q \in S THEN Fresh ELSE d.row[q]
        BY <1>5, <3>1
    <3> QED BY <3>2 DEF S
  <2>3. Outboxed(w, c) = e /\ RedisApplyOutbox(w, c) = f BY <1>10, <1>11, <1>12
  <2> HIDE DEF e, f
  <2>4. CommitOf(c, d, e) BY <1>1, <1>4, <1>12, <2>1 DEF CommitOf, Keep
  <2>5. CommitOf(c, d, f) BY <1>1, <1>4, <1>12, <2>2 DEF CommitOf, Keep
  <2>6. There(d, c) => \A q \in Runs : e.row[q] = d.row[q] BY <2>1
  <2> QED BY <1>12, <2>3, <2>4, <2>5, <2>6 DEF w
<1>13. CASE ~Spawns(c) /\ Uses(c)
  <2> DEFINE e == Consumed(w, r)
  <2>1. Outboxed(w, c) = e /\ RedisApplyOutbox(w, c) = e BY <1>10, <1>11, <1>13
  <2>2. /\ Keep(w, e, Papers \ {"mail"}) /\ e.mail = [w.mail EXCEPT ![r] = FALSE] BY <1>9
  <2> HIDE DEF e
  <2>3. CommitOf(c, d, e) /\ \A q \in Runs : e.row[q] = d.row[q]
      BY <1>1, <1>13, <2>2 DEF CommitOf, Keep, Papers
  <2> QED BY <2>1, <2>3 DEF w
<1>14. CASE ~Spawns(c) /\ ~Uses(c)
  <2>1. Outboxed(w, c) = w /\ RedisApplyOutbox(w, c) = w BY <1>10, <1>11, <1>14
  <2>2. CommitOf(c, d, w) /\ \A q \in Runs : w.row[q] = d.row[q]
      BY <1>1, <1>14 DEF CommitOf, Keep, Papers
  <2> QED BY <2>1, <2>2 DEF w
<1> QED BY <1>12, <1>13, <1>14

-----------------------------------------------------------------------------
(* What a step of a client is: it goes on with its call, ends it with an answer, or gives  *)
(* up its program.                                                                        *)
Alone(c) == todo[c] # <<>> /\ host' = host /\ \A b \in Clients \ {c} : at'[b] = at[b]
Pauses(c) == Alone(c) /\ todo' = todo /\ told' = told
Quits(c) == Alone(c) /\ todo' = [todo EXCEPT ![c] = <<>>] /\ told' = told /\ at'[c].pc = "call"
Says(c, a) ==
  /\ Alone(c) /\ at'[c].pc = "call" /\ todo' = [todo EXCEPT ![c] = Tail(@)]
  /\ told' = [told EXCEPT ![c] = Append(@, [op |-> Call(c).op, run |-> Call(c).run, answer |-> a])]
GoesOn(c) == Pauses(c) \/ \E a : Says(c, a)

(* What a step of a client does to the papers, by what it calls. *)

(* Nothing; and then its answer claims nothing for itself. *)
Vain(c, a) ==
  /\ Call(c).op \in {"start", "startMany"} => a = db.key /\ a \in Runs
  /\ Call(c).op \in {"signal", "retry"} => a = FALSE
  /\ Call(c).op = "advanceCron" => a = 0
  /\ Call(c).op = "arrive" => a # 0
ReadsBack(c) == Call(c).op = "checkpoint" /\ at[c].pc = "stored"
Idles(c) ==
  /\ Rests(db, db')
  /\ (Pauses(c) /\ ~ReadsBack(c)) \/ Quits(c) \/ \E a : Says(c, a) /\ Vain(c, a)

Starts(c) ==
  /\ Call(c).op \in {"start", "startMany"} /\ db.key = NoOne
  /\ Keep(db, db', Papers \ {"row", "key"}) /\ db'.key = c
  /\ db'.row = [q \in Runs |-> IF q \in {c} THEN Fresh ELSE db.row[q]] /\ Says(c, c)

(* Two backends look for the run, and at the gate, before they write. *)
LooksAhead == {"mysql", "mongodb"}
Commits(c) ==
  /\ Call(c).op = "checkpoint" /\ ~Taken(db, c) /\ (host.backend \notin LooksAhead => There(db, Call(c).run))
  /\ host.backend \notin LooksAhead /\ Gated(c) => ~VersionMoved(db, c)
  /\ CommitOf(c, db, db')
  /\ host.backend # "redis" /\ There(db, c) => \A q \in Runs : db'.row[q] = db.row[q]
  /\ at[c].pc # "stored" /\ ((Pauses(c) /\ at'[c].pc = "stored") \/ \E a : Says(c, a))

(* A live run is marked, parked, or comes to an outcome; MongoDB cancels what it has read,  *)
(* whatever became of it.                                                                 *)
Changes(c, r) ==
  /\ LiveIn(db, r) \/ (host.backend = "mongodb" /\ Call(c).op = "cancelRuns" /\ There(db, r))
  /\ db'.row[r].status \in Active \cup Terminal
  /\ db'.row[r].status = "failed" =>
       Call(c).op = "finish" /\ Call(c).run = r /\ Call(c).arg = "failed" /\ \E a : Says(c, a)
Rewrites(c) ==
  /\ Call(c).op \in {"mark", "suspend", "finish", "cancelRuns"}
  /\ Keep(db, db', Papers \ {"row"}) /\ GoesOn(c)
  /\ \A r \in Runs : db'.row[r] = db.row[r] \/ Changes(c, r)

Reopens(c) ==
  /\ Call(c).op \in {"retry", "retryRuns"}
  /\ Keep(db, db', Papers \ {"row"})
  /\ \A r \in Runs : \/ db'.row[r] = db.row[r]
                     \/ /\ db'.row[r] = Fresh
                        /\ \/ r \in Failed(db)
                           \/ host.backend = "mongodb" /\ Call(c).op = "retryRuns" /\ There(db, r)
  /\ \/ Pauses(c)
     \/ \E a : /\ Says(c, a)
               /\ Call(c).op = "retry" => a = TRUE /\ Call(c).run \in Failed(db) /\ db'.row[Call(c).run] = Fresh

Arrives(c) ==
  LET r == Call(c).run
  IN  /\ Call(c).op = "arrive" /\ Keep(db, db', Papers \ {"left"})
      /\ db'.left = [db.left EXCEPT ![r] = @ - 1] /\ Says(c, db.left[r] - 1)

Delivers(c) ==
  LET r == Call(c).run
  IN  /\ Call(c).op = "signal" /\ ~db.sent[r] /\ Keep(db, db', Papers \ {"mail", "sent"})
      /\ db'.mail = [db.mail EXCEPT ![r] = TRUE] /\ db'.sent = [db.sent EXCEPT ![r] = TRUE]
      /\ Says(c, TRUE)

Clears(c) ==
  Call(c).op = "purge" /\ Cleared(db, db', at[c].got \cup Victims(c)) /\ GoesOn(c)

Recrons(c) ==
  /\ Keep(db, db', Papers \ {"cron", "ripe"})
  /\ \/ /\ Call(c).op = "removeCron" /\ GoesOn(c)
        /\ db'.cron \in {db.cron, NoCron} /\ db'.ripe \in {db.ripe, 0}
     \/ Call(c).op = "upsertCron" /\ GoesOn(c)
     \/ /\ Call(c).op = "advanceCron" /\ db.cron # NoCron /\ db'.cron # NoCron
        /\ IF host.backend = "redis" THEN db.ripe # 0 /\ db'.ripe = db.ripe + 2 /\ Says(c, db.ripe)
           ELSE db'.cron.next = db.cron.next + 2 /\ Says(c, db.cron.next)

Deed(c) ==
  \/ Idles(c) \/ Starts(c) \/ Commits(c) \/ Rewrites(c) \/ Reopens(c)
  \/ Arrives(c) \/ Delivers(c) \/ Clears(c) \/ Recrons(c)

(* The ways a step ends, as deeds *)

LEMMA GoesPauses ==
  ASSUME Inv, NEW c \in Clients, todo[c] # <<>>, NEW d, NEW x, Goes(c, d, x)
  PROVE  Pauses(c) /\ db' = d /\ at'[c] = x
BY DEF Inv, Goes, Pauses, Alone

LEMMA EndsWithSays ==
  ASSUME Inv, NEW c \in Clients, todo[c] # <<>>, NEW d, NEW x, NEW a, DOMAIN x = Fields, EndsWith(c, d, x, a)
  PROVE  Says(c, a) /\ db' = d
<1> DEFINE y == [x EXCEPT !.pc = "call", !.got = {}, !.parts = {}, !.seen = NoCron,
                          !.out = {}, !.looks = {}, !.cursor = Ready.cursor]
<1>1. y.pc = "call" BY Zenon DEF Fields
<1>2. at' = [at EXCEPT ![c] = y] /\ DOMAIN at = Clients BY DEF EndsWith, Inv
<1> HIDE DEF y
<1>3. at'[c].pc = "call" /\ \A b \in Clients \ {c} : at'[b] = at[b] BY <1>1, <1>2
<1> QED BY <1>3 DEF EndsWith, Says, Alone

LEMMA EndsSays ==
  ASSUME Inv, NEW c \in Clients, todo[c] # <<>>, NEW d, NEW a, Ends(c, d, a)
  PROVE  Says(c, a) /\ db' = d
<1>1. DOMAIN at[c] = Fields BY DEF Inv, Hand
<1> QED BY <1>1, EndsWithSays DEF Ends

LEMMA ThrowsQuits == ASSUME Inv, NEW c \in Clients, todo[c] # <<>>, Throws(c) PROVE Quits(c) /\ db' = db
<1> DEFINE y == [at[c] EXCEPT !.pc = "call", !.got = {}]
<1>1. DOMAIN at[c] = Fields /\ DOMAIN at = Clients BY DEF Inv, Hand
<1>2. y.pc = "call" BY <1>1, Zenon DEF Fields
<1>3. at' = [at EXCEPT ![c] = y] BY DEF Throws
<1> HIDE DEF y
<1>4. at'[c].pc = "call" /\ \A b \in Clients \ {c} : at'[b] = at[b] BY <1>1, <1>2, <1>3
<1> QED BY <1>4 DEF Throws, Quits, Alone

LEMMA TablesHaveColumns == Inv => DOMAIN db = Columns /\ Rests(db, db)
BY RestsAtAll DEF Inv, Fits

(* Nobody wins by these calls. *)
Wins == {"start", "startMany", "signal", "retry", "advanceCron", "arrive"}
LEMMA NothingToWin == ASSUME NEW c, NEW a, Call(c).op \notin Wins PROVE Vain(c, a)
BY DEF Vain, Wins

LEMMA GoesIdles ==
  ASSUME Inv, NEW c \in Clients, todo[c] # <<>>, ~ReadsBack(c), NEW d, NEW x, Rests(db, d), Goes(c, d, x)
  PROVE  Deed(c)
BY GoesPauses DEF Deed, Idles

LEMMA WritesIdle ==
  ASSUME Inv, NEW c \in Clients, todo[c] # <<>>, ~ReadsBack(c), NEW pc, NEW got, Writes(c, db, pc) \/ Reads(c, pc, got)
  PROVE  Deed(c)
BY GoesIdles, TablesHaveColumns DEF ReadsBack, Writes, Reads

LEMMA EndsIdle ==
  ASSUME Inv, NEW c \in Clients, todo[c] # <<>>, NEW d, NEW a, Rests(db, d), Vain(c, a), Ends(c, d, a)
  PROVE  Deed(c)
BY EndsSays DEF Deed, Idles

LEMMA EndsWithIdle ==
  ASSUME Inv, NEW c \in Clients, todo[c] # <<>>, NEW d, NEW x, NEW a, Rests(db, d), Vain(c, a),
         DOMAIN x = Fields, EndsWith(c, d, x, a)
  PROVE  Deed(c)
BY EndsWithSays DEF Deed, Idles

LEMMA AnswerIdles ==
  ASSUME Inv, NEW c \in Clients, todo[c] # <<>>, NEW a, Vain(c, a), Ends(c, db, a)
  PROVE  Deed(c)
BY EndsIdle, TablesHaveColumns

LEMMA ThrowsIdle == ASSUME Inv, NEW c \in Clients, todo[c] # <<>>, Throws(c) PROVE Deed(c)
BY ThrowsQuits, TablesHaveColumns DEF Deed, Idles

-----------------------------------------------------------------------------
(* The calls that backends share, as deeds *)

LEMMA CalledOn == ASSUME NEW c, NEW op, NEW pc, On(c, op, pc) PROVE todo[c] # <<>> /\ Call(c).op = op
BY DEF On

LEMMA CalledRequest ==
  ASSUME Inv, NEW c \in Clients, todo[c] # <<>>
  PROVE  Call(c) \in Requests /\ Request(Call(c)) /\ Call(c).run \in Runs
<1>1. Call(c) \in Requests BY DEF Inv, Call
<1>2. PICK k \in Cases, b \in Clients : \E i \in 1..Len(k.calls[b]) : Call(c) = k.calls[b][i]
    BY <1>1 DEF Requests
<1>3. Request(Call(c)) BY <1>2, CasesAssumption DEF Program
<1> QED BY <1>1, <1>3 DEF Request

LEMMA FindsHolderDeed ==
  ASSUME Inv, NEW c \in Clients, NEW op \in {"start", "startMany"}, FindsHolder(c, op)
  PROVE  Deed(c)
<1>1. todo[c] # <<>> /\ Call(c).op = op BY CalledOn DEF FindsHolder
<1>2. db.key \in Runs => Vain(c, db.key) BY <1>1 DEF Vain
<1> QED BY <1>1, <1>2, AnswerIdles, ThrowsIdle DEF FindsHolder

LEMMA StartedDeed ==
  ASSUME Inv, NEW c \in Clients, todo[c] # <<>>, Call(c).op \in {"start", "startMany"},
         db.key = NoOne, Ends(c, StartedAs(db, c), c)
  PROVE  Deed(c)
<1>1. Says(c, c) /\ db' = StartedAs(db, c) BY EndsSays
<1> QED BY <1>1, TablesHaveColumns, StartedPapers DEF Deed, Starts

LEMMA StartOrFindDeed ==
  ASSUME Inv, NEW c \in Clients, NEW op \in {"start", "startMany"}, StartOrFind(c, op)
  PROVE  Deed(c)
<1>1. CASE FindsHolder(c, op) BY <1>1, FindsHolderDeed
<1>2. CASE Calls(c, op) /\ db.key = NoOne /\ Ends(c, StartedAs(db, c), c)
    BY <1>2, StartedDeed, CalledOn DEF Calls
<1>3. CASE Calls(c, op) /\ Writes(c, db, "hit") BY <1>3, WritesIdle, CalledOn DEF ReadsBack, Calls
<1> QED BY <1>1, <1>2, <1>3 DEF StartOrFind

LEMMA StartAtOnceDeed ==
  ASSUME Inv, NEW c \in Clients, NEW op \in {"start", "startMany"}, StartAtOnce(c, op)
  PROVE  Deed(c)
<1>1. todo[c] # <<>> /\ Call(c).op = op BY CalledOn DEF StartAtOnce, Calls
<1>2. CASE db.key = NoOne /\ Ends(c, StartedAs(db, c), c) BY <1>1, <1>2, StartedDeed
<1>3. CASE db.key # NoOne /\ Ends(c, db, db.key)
  <2>1. db.key \in Runs BY <1>3 DEF Inv, Fits, RowsFit
  <2>2. Vain(c, db.key) BY <1>1, <2>1 DEF Vain
  <2> QED BY <1>1, <1>3, <2>2, AnswerIdles
<1>4. CASE Throws(c) BY <1>1, <1>4, ThrowsIdle
<1> QED BY <1>2, <1>3, <1>4 DEF StartAtOnce

LEMMA ShownHand ==
  ASSUME Inv, NEW c \in Clients, NEW log, NEW mail
  PROVE  DOMAIN Shown(c, log, mail) = Fields
BY ShownHolds DEF StillHolds, Hand

LEMMA LoadDeed ==
  ASSUME Inv, NEW c \in Clients, LoadAtOnce(c) \/ LoadLogFirst(c) \/ LoadMailFirst(c)
  PROVE  Deed(c)
<1>1. todo[c] # <<>> /\ Call(c).op = "load" BY CalledOn DEF LoadAtOnce, LoadLogFirst, LoadMailFirst, Calls
<1>2. \A a : Vain(c, a) BY <1>1, NothingToWin DEF Wins
<1>3. CASE \E log, mail, answer : EndsWith(c, db, Shown(c, log, mail), answer)
    BY <1>1, <1>2, <1>3, EndsWithIdle, ShownHand, TablesHaveColumns
<1>4. CASE \E log, mail, pc : Goes(c, db, [Shown(c, log, mail) EXCEPT !.pc = pc])
    BY <1>1, <1>4, GoesIdles, TablesHaveColumns DEF ReadsBack
<1> QED BY <1>3, <1>4 DEF LoadAtOnce, LoadLogFirst, LoadMailFirst

(* A write to rows alone, of a call that changes statuses. *)
LEMMA RowsDeed ==
  ASSUME Inv, NEW c \in Clients, todo[c] # <<>>, Call(c).op \in {"mark", "suspend", "finish", "cancelRuns"},
         NEW d, NEW rows, RowsMove(db, d, rows), NEW a, Ends(c, d, a),
         \A r \in Runs : \/ rows[r] = db.row[r]
                         \/ /\ LiveIn(db, r) /\ rows[r].status \in Active \cup Terminal
                            /\ rows[r].status = "failed" =>
                                 Call(c).op = "finish" /\ Call(c).run = r /\ Call(c).arg = "failed"
  PROVE  Deed(c)
<1>1. Says(c, a) /\ db' = d BY EndsSays
<1>2. Rewrites(c) BY <1>1 DEF Rewrites, GoesOn, Changes, RowsMove
<1> QED BY <1>2 DEF Deed

(* What is there has a status of the kinds that the store knows. *)
LEMMA RowsThere ==
  ASSUME Inv, NEW r \in Runs
  PROVE  /\ There(db, r) => LiveIn(db, r) \/ OverIn(db, r)
         /\ LiveIn(db, r) => There(db, r) /\ ~OverIn(db, r)
         /\ db.row \in [Runs -> WholeRow] /\ db.row[r] \in RunRow
<1>1. db.row \in [Runs -> WholeRow] BY DEF Inv, Fits, RowsFit
<1>2. db.row[r] \in WholeRow BY <1>1
<1> QED BY <1>1, <1>2 DEF WholeRow, RunRow, There, LiveIn, OverIn, NoRun, Active, Terminal

LEMMA MarkDeed ==
  ASSUME Inv, NEW c \in Clients, todo[c] # <<>>, Call(c).op = "mark", There(db, Call(c).run), Call(c).run \in Runs,
         Mark(c)
  PROVE  Deed(c)
<1> DEFINE r == Call(c).run
           row == MarkedRunning(db.row[r])
           rows == [db.row EXCEPT ![r] = row]
           d == [db EXCEPT !.row[r] = row]
<1>1. RowsMove(db, d, rows) BY RowsWritten, TablesHaveColumns
<1>2. Ends(c, d, MarkedRunning(db.row[r]).attempts) BY DEF Mark
<1>3. row = db.row[r] \/ (LiveIn(db, r) /\ row.status = "running")
    BY RowsThere DEF MarkedRunning, LiveIn, OverIn
<1>4. DOMAIN db.row = Runs BY RowsThere
<1> HIDE DEF row, d, r
<1>5. \A q \in Runs : rows[q] = IF q = r THEN row ELSE db.row[q] BY <1>4
<1>6. \A q \in Runs : \/ rows[q] = db.row[q]
                      \/ LiveIn(db, q) /\ rows[q].status = "running"
    BY <1>3, <1>5
<1> HIDE DEF rows
<1>7. "running" \in Active \cup Terminal /\ "running" # "failed" BY DEF Active
<1> QED BY <1>1, <1>2, <1>6, <1>7, RowsDeed

LEMMA MarkAtOnceDeed == ASSUME Inv, NEW c \in Clients, MarkAtOnce(c) PROVE Deed(c)
BY CalledOn, CalledRequest, MarkDeed, ThrowsIdle DEF MarkAtOnce, Calls

LEMMA MarkOrLookDeed == ASSUME Inv, NEW c \in Clients, MarkOrLook(c) PROVE Deed(c)
<1>1. todo[c] # <<>> /\ Call(c).op = "mark" BY CalledOn DEF MarkOrLook, Calls
<1>2. \A a : Vain(c, a) BY <1>1, NothingToWin DEF Wins
<1>3. Call(c).run \in Runs BY <1>1, CalledRequest
<1>4. CASE LiveIn(db, Call(c).run) /\ Mark(c) BY <1>1, <1>3, <1>4, RowsThere, MarkDeed
<1>5. CASE Writes(c, db, "cur") BY <1>1, <1>5, WritesIdle DEF ReadsBack
<1>6. CASE Ends(c, db, db.row[Call(c).run].attempts) BY <1>1, <1>2, <1>6, AnswerIdles
<1>7. CASE Throws(c) BY <1>1, <1>7, ThrowsIdle
<1> QED BY <1>4, <1>5, <1>6, <1>7 DEF MarkOrLook

(* A checkpoint: nothing, or its commit. *)
LEMMA CommittedDeed ==
  ASSUME Inv, NEW c \in Clients, todo[c] # <<>>, Call(c).op = "checkpoint", ~Taken(db, c), at[c].pc # "stored",
         host.backend \notin LooksAhead => There(db, Call(c).run),
         host.backend \notin LooksAhead /\ Gated(c) => ~VersionMoved(db, c),
         NEW d, d = Outboxed(Written(db, c), c)
                  \/ (host.backend = "redis" /\ d = RedisApplyOutbox(Written(db, c), c)),
         Committed(c, d) \/ Writes(c, d, "stored")
  PROVE  Deed(c)
<1>1. CommitOf(c, db, d) BY CommitPapers, TablesHaveColumns
<1>2. host.backend # "redis" /\ There(db, c) => \A q \in Runs : d.row[q] = db.row[q]
    BY CommitPapers, TablesHaveColumns
<1>3. CASE Committed(c, d)
  <2>1. Says(c, Entry(c)) /\ db' = d BY <1>3, EndsSays DEF Committed
  <2>2. Commits(c) BY <1>1, <1>2, <2>1 DEF Commits
  <2> QED BY <2>2 DEF Deed
<1>4. CASE Writes(c, d, "stored")
  <2> DEFINE x == [at[c] EXCEPT !.pc = "stored"]
  <2>1. DOMAIN at[c] = Fields BY DEF Inv, Hand
  <2>2. x.pc = "stored" BY <2>1, Zenon DEF Fields
  <2>3. Pauses(c) /\ db' = d /\ at'[c] = x BY <1>4, GoesPauses DEF Writes
  <2> HIDE DEF x
  <2>4. Commits(c) BY <1>1, <1>2, <2>2, <2>3 DEF Commits
  <2> QED BY <2>4 DEF Deed
<1> QED BY <1>3, <1>4

LEMMA CheckpointIdles ==
  ASSUME Inv, NEW c \in Clients, todo[c] # <<>>, Call(c).op = "checkpoint",
         Throws(c) \/ Replayed(c) \/ Refused(c)
  PROVE  Deed(c)
<1>1. \A a : Vain(c, a) BY NothingToWin DEF Wins
<1> QED BY <1>1, ThrowsIdle, AnswerIdles DEF Replayed, Refused

LEMMA CheckpointAtOnceDeed ==
  ASSUME Inv, NEW c \in Clients, Calls(c, "checkpoint"), NEW d, CheckpointAtOnce(c, d),
         d = Outboxed(Written(db, c), c)
            \/ (host.backend = "redis" /\ d = RedisApplyOutbox(Written(db, c), c))
  PROVE  Deed(c)
<1>1. todo[c] # <<>> /\ Call(c).op = "checkpoint" /\ at[c].pc = "call" BY DEF Calls, On
<1> QED BY <1>1, CheckpointIdles, CommittedDeed DEF CheckpointAtOnce

(* A write of one live run's row. *)
LEMMA OneRowDeed ==
  ASSUME Inv, NEW c \in Clients, todo[c] # <<>>, Call(c).op \in {"suspend", "finish", "cancelRuns"},
         NEW r \in Runs, LiveIn(db, r), NEW row, row.status \in Active \cup Terminal,
         row.status = "failed" => Call(c).op = "finish" /\ Call(c).run = r /\ Call(c).arg = "failed",
         NEW d, RowsMove(db, d, [db.row EXCEPT ![r] = row]), NEW a, Ends(c, d, a)
  PROVE  Deed(c)
<1> DEFINE rows == [db.row EXCEPT ![r] = row]
<1>1. DOMAIN db.row = Runs BY RowsThere
<1>2. \A q \in Runs : rows[q] = IF q = r THEN row ELSE db.row[q] BY <1>1
<1> HIDE DEF rows
<1>3. RowsMove(db, d, rows) BY DEF rows
<1> QED BY <1>2, <1>3, RowsDeed

LEMMA SuspendDeed ==
  ASSUME Inv, NEW c \in Clients, Calls(c, "suspend"), SuspendAtOnce(c)
  PROVE  Deed(c)
<1> DEFINE r == Call(c).run
           row == Suspended(db.row[r], Call(c).arg)
           parked == [db EXCEPT !.row[r] = row]
<1>1. todo[c] # <<>> /\ Call(c).op = "suspend" BY DEF Calls, On
<1>2. r \in Runs /\ Call(c).arg \in Active BY <1>1, CalledRequest DEF Request
<1>3. RowsMove(db, parked, [db.row EXCEPT ![r] = row]) BY RowsWritten, TablesHaveColumns
<1>4. \E d : /\ d = (IF ~LiveIn(db, r) THEN db ELSE IF Naps(c) THEN Scheduled(parked, r) ELSE parked)
             /\ Ends(c, d, TRUE)
    BY DEF SuspendAtOnce
<1>5. LiveIn(db, r) => row.status = Call(c).arg BY <1>2, RowsThere DEF Suspended, LiveIn, OverIn
<1>6. Call(c).arg \in Active \cup Terminal /\ Call(c).arg # "failed" BY <1>2 DEF Active
<1> HIDE DEF row, parked, r
<1>7. RowsMove(db, Scheduled(parked, r), [db.row EXCEPT ![r] = row])
  <2>1. DOMAIN parked = Columns BY <1>3 DEF RowsMove, Keep
  <2> QED BY <1>3, <2>1, TimersRest, RowsThenRest
<1>8. CASE LiveIn(db, r) BY <1>1, <1>2, <1>3, <1>4, <1>5, <1>6, <1>7, <1>8, OneRowDeed
<1>9. CASE ~LiveIn(db, r)
  <2>1. Vain(c, TRUE) BY <1>1, NothingToWin DEF Wins
  <2> QED BY <1>1, <1>4, <1>9, <2>1, AnswerIdles
<1> QED BY <1>8, <1>9

(* A live run that is over; one that is not live is left alone. *)
LEMMA OverPapers ==
  ASSUME NEW d, NEW r, NEW outcome, DOMAIN d = Columns
  PROVE  IF LiveIn(d, r) THEN RowsMove(d, Over(d, r, outcome), [d.row EXCEPT ![r] = Terminated(d.row[r], outcome)])
         ELSE Over(d, r, outcome) = d
<1> DEFINE row == Terminated(d.row[r], outcome)
           over == [d EXCEPT !.row[r] = row]
<1>1. RowsMove(d, over, [d.row EXCEPT ![r] = row]) BY RowsWritten
<1>2. Over(d, r, outcome) = IF ~LiveIn(d, r) THEN d
                            ELSE IF outcome = "canceled" THEN Unscheduled(over, {r}) ELSE over
    BY DEF Over
<1> HIDE DEF row, over
<1>3. RowsMove(d, Unscheduled(over, {r}), [d.row EXCEPT ![r] = row])
  <2>1. DOMAIN over = Columns BY <1>1 DEF RowsMove, Keep
  <2> QED BY <1>1, <2>1, TimersRest, RowsThenRest
<1>4. CASE LiveIn(d, r) BY <1>1, <1>2, <1>3, <1>4 DEF row
<1>5. CASE ~LiveIn(d, r) BY <1>2, <1>5
<1> QED BY <1>4, <1>5

LEMMA FinishDeed ==
  ASSUME Inv, NEW c \in Clients, Calls(c, "finish"), FinishAtOnce(c)
  PROVE  Deed(c)
<1> DEFINE r == Call(c).run
           row == Terminated(db.row[r], Call(c).arg)
<1>1. todo[c] # <<>> /\ Call(c).op = "finish" BY DEF Calls, On
<1>2. r \in Runs /\ Call(c).arg \in Terminal BY <1>1, CalledRequest DEF Request
<1>3. Ends(c, Over(db, r, Call(c).arg), TRUE) BY DEF FinishAtOnce
<1>4. CASE LiveIn(db, r)
  <2>1. RowsMove(db, Over(db, r, Call(c).arg), [db.row EXCEPT ![r] = row])
      BY <1>4, OverPapers, TablesHaveColumns
  <2>2. row.status = Call(c).arg BY <1>2, <1>4, RowsThere DEF Terminated, LiveIn, OverIn, RunRow
  <2> HIDE DEF row
  <2>3. row.status \in Active \cup Terminal BY <1>2, <2>2
  <2> QED BY <1>1, <1>2, <1>3, <1>4, <2>1, <2>2, <2>3, OneRowDeed
<1>5. CASE ~LiveIn(db, r)
  <2>1. Vain(c, TRUE) BY <1>1, NothingToWin DEF Wins
  <2>2. Over(db, r, Call(c).arg) = db BY <1>5, OverPapers, TablesHaveColumns
  <2> QED BY <1>1, <1>3, <2>1, <2>2, AnswerIdles
<1> QED BY <1>4, <1>5

LEMMA ArriveDeed == ASSUME Inv, NEW c \in Clients, ArriveAtOnce(c) PROVE Deed(c)
<1> DEFINE r == Call(c).run
           d == [db EXCEPT !.left[r] = @ - 1]
<1>1. todo[c] # <<>> /\ Call(c).op = "arrive" BY DEF ArriveAtOnce, Calls, On
<1>2. CASE Ends(c, d, db.left[r] - 1)
  <2>1. Says(c, db.left[r] - 1) /\ db' = d BY <1>1, <1>2, EndsSays
  <2>2. DOMAIN db = Columns BY TablesHaveColumns
  <2>3. Keep(db, d, Papers \ {"left"}) /\ d.left = [db.left EXCEPT ![r] = @ - 1]
      BY <2>2, Zenon DEF Keep, Papers, Columns
  <2> QED BY <1>1, <2>1, <2>3 DEF Deed, Arrives
<1>3. CASE Ends(c, db, 9)
  <2>1. Vain(c, 9)
    <3>1. Call(c).op \notin {"start", "startMany", "signal", "retry", "advanceCron"} BY <1>1
    <3>2. PICK a : a = 9 OBVIOUS
    <3>3. a # 0 BY <3>2
    <3>4. Vain(c, a) BY <3>1, <3>3, Zenon DEF Vain
    <3> QED BY <3>2, <3>4
  <2> QED BY <1>1, <1>3, <2>1, AnswerIdles
<1> QED BY <1>2, <1>3 DEF ArriveAtOnce

(* A delivery, whatever it enqueues besides. *)
LEMMA DeliveredDeed ==
  ASSUME Inv, NEW c \in Clients, todo[c] # <<>>, Call(c).op = "signal", ~db.sent[Call(c).run],
         NEW d, Rests(Delivered(db, Call(c).run), d), Ends(c, d, TRUE)
  PROVE  Deed(c)
<1> DEFINE r == Call(c).run
           e == Delivered(db, r)
<1>1. Says(c, TRUE) /\ db' = d BY EndsSays
<1>2. /\ Keep(db, e, Papers \ {"mail", "sent"})
      /\ e.mail = [db.mail EXCEPT ![r] = TRUE] /\ e.sent = [db.sent EXCEPT ![r] = TRUE]
    BY TablesHaveColumns, DeliveredPapers
<1> HIDE DEF e
<1>3. Rests(e, d) BY DEF e
<1>4. /\ Keep(db, d, Papers \ {"mail", "sent"})
      /\ d.mail = [db.mail EXCEPT ![r] = TRUE] /\ d.sent = [db.sent EXCEPT ![r] = TRUE]
    BY <1>2, <1>3 DEF Rests, Keep, Papers
<1> QED BY <1>1, <1>4 DEF Deed, Delivers

LEMMA SignalDeed ==
  ASSUME Inv, NEW c \in Clients, Calls(c, "signal"), SignalAtOnce(c)
  PROVE  Deed(c)
<1> DEFINE r == Call(c).run
<1>1. todo[c] # <<>> /\ Call(c).op = "signal" BY DEF Calls, On
<1>2. CASE db.sent[r] /\ Ends(c, db, FALSE)
  <2>1. Vain(c, FALSE) BY <1>1 DEF Vain
  <2> QED BY <1>1, <1>2, <2>1, AnswerIdles
<1>3. CASE ~db.sent[r] /\ Ends(c, Enqueuing(Delivered(db, r), {r}), TRUE)
  <2>1. DOMAIN Delivered(db, r) = Columns BY TablesHaveColumns, DeliveredPapers DEF Keep
  <2>2. Rests(Delivered(db, r), Enqueuing(Delivered(db, r), {r})) BY <2>1, EnqueuingRests
  <2> QED BY <1>1, <1>3, <2>2, DeliveredDeed
<1> QED BY <1>2, <1>3 DEF SignalAtOnce

LEMMA RefusesDeed == ASSUME Inv, NEW c \in Clients, Refuses(c) PROVE Deed(c)
BY CalledOn, ThrowsIdle DEF Refuses, Calls

(* A set of live runs canceled in one statement. *)
LEMMA CancelAtOnceDeed == ASSUME Inv, NEW c \in Clients, CancelAtOnce(c) PROVE Deed(c)
<1> DEFINE live == Chosen(c, Active)
           u == Unscheduled(db, live)
           d == StatusSet(u, live, "canceled")
           rows == [r \in Runs |-> IF r \in live THEN [db.row[r] EXCEPT !.status = "canceled"] ELSE db.row[r]]
<1>1. todo[c] # <<>> /\ Call(c).op = "cancelRuns" BY DEF CancelAtOnce, Asks, Calls, On
<1>2. Ends(c, d, TRUE) BY DEF CancelAtOnce
<1>3. Rests(db, u) BY TimersRest, TablesHaveColumns
<1>4. DOMAIN u = Columns /\ u.row = db.row BY <1>3, KeptByName
<1>5. RowsMove(u, d, rows) BY <1>4, RowsWritten
<1>6. \A r \in live : r \in Runs /\ LiveIn(db, r) BY DEF Chosen, Narrowed, LiveIn
<1> HIDE DEF live, u, d
<1>7. RowsMove(db, d, rows) BY <1>3, <1>5, RestThenRows
<1>8. \A r \in Runs : \/ rows[r] = db.row[r]
                      \/ LiveIn(db, r) /\ rows[r].status = "canceled"
  <2> TAKE r \in Runs
  <2>1. db.row[r] \in RunRow BY RowsThere
  <2> QED BY <1>6, <2>1 DEF RunRow
<1> HIDE DEF rows
<1>9. "canceled" \in Active \cup Terminal /\ "canceled" # "failed" BY DEF Terminal
<1> QED BY <1>1, <1>2, <1>7, <1>8, <1>9, RowsDeed

(* Failures reopened, whatever is enqueued besides. *)
LEMMA ReopenedPapers ==
  ASSUME NEW d, NEW R, DOMAIN d = Columns
  PROVE  RowsMove(d, Reopened(d, R), [q \in Runs |-> IF q \in R THEN Fresh ELSE d.row[q]])
<1>1. RowsMove(d, Pending(d, R), [q \in Runs |-> IF q \in R THEN Fresh ELSE d.row[q]]) BY RowsWritten
<1>2. DOMAIN Pending(d, R) = Columns BY <1>1 DEF RowsMove, Keep
<1>3. Rests(Pending(d, R), Reopened(d, R)) BY <1>2, EnqueuingRests DEF Reopened
<1> QED BY <1>1, <1>3, RowsThenRest

LEMMA ReopensDeed ==
  ASSUME Inv, NEW c \in Clients, todo[c] # <<>>, Call(c).op = "retryRuns", NEW R \in SUBSET Failed(db),
         NEW d, RowsMove(db, d, [q \in Runs |-> IF q \in R THEN Fresh ELSE db.row[q]]), db' = d, GoesOn(c)
  PROVE  Deed(c)
<1>1. \A r \in Runs : db'.row[r] = db.row[r] \/ (db'.row[r] = Fresh /\ r \in Failed(db)) BY DEF RowsMove
<1>2. Keep(db, db', Papers \ {"row"}) BY DEF RowsMove
<1>3. Pauses(c) \/ \E a : Says(c, a) BY DEF GoesOn
<1>4. Reopens(c) BY <1>1, <1>2, <1>3 DEF Reopens
<1> QED BY <1>4 DEF Deed

LEMMA RetryAllAtOnceDeed == ASSUME Inv, NEW c \in Clients, RetryAllAtOnce(c) PROVE Deed(c)
<1> DEFINE R == Chosen(c, {"failed"})
<1>1. todo[c] # <<>> /\ Call(c).op = "retryRuns" /\ Ends(c, Reopened(db, R), TRUE)
    BY DEF RetryAllAtOnce, Asks, Calls, On
<1>2. R \in SUBSET Failed(db) BY DEF Chosen, Narrowed, Failed
<1> HIDE DEF R
<1>3. Says(c, TRUE) /\ db' = Reopened(db, R) BY <1>1, EndsSays
<1>4. RowsMove(db, Reopened(db, R), [q \in Runs |-> IF q \in R THEN Fresh ELSE db.row[q]])
    BY ReopenedPapers, TablesHaveColumns
<1> QED BY <1>1, <1>2, <1>3, <1>4, ReopensDeed DEF GoesOn

LEMMA RetriedDeed ==
  ASSUME Inv, NEW c \in Clients, todo[c] # <<>>, Call(c).op = "retry", Call(c).run \in Failed(db),
         NEW d, Rests(Reopened(db, {Call(c).run}), d), Ends(c, d, TRUE)
  PROVE  Deed(c)
<1> DEFINE r == Call(c).run
           rows == [q \in Runs |-> IF q \in {r} THEN Fresh ELSE db.row[q]]
<1>1. Says(c, TRUE) /\ db' = d BY EndsSays
<1>2. RowsMove(db, Reopened(db, {r}), rows) BY ReopenedPapers, TablesHaveColumns
<1>3. r \in Runs /\ rows[r] = Fresh BY DEF Failed
<1>4. \A q \in Runs : rows[q] = db.row[q] \/ (rows[q] = Fresh /\ q \in Failed(db)) OBVIOUS
<1> HIDE DEF rows
<1>5. RowsMove(db, d, rows) BY <1>2, RowsThenRest
<1>6. Reopens(c) BY <1>1, <1>3, <1>4, <1>5 DEF Reopens, RowsMove
<1> QED BY <1>6 DEF Deed

LEMMA RetryAtOnceDeed == ASSUME Inv, NEW c \in Clients, RetryAtOnce(c) PROVE Deed(c)
<1>1. todo[c] # <<>> /\ Call(c).op = "retry" BY DEF RetryAtOnce, Calls, On
<1>2. CASE Call(c).run \in Failed(db) /\ Ends(c, Reopened(db, {Call(c).run}), TRUE)
  <2>1. DOMAIN Reopened(db, {Call(c).run}) = Columns BY ReopenedPapers, TablesHaveColumns DEF RowsMove, Keep
  <2> QED BY <1>1, <1>2, <2>1, RestsAtAll, RetriedDeed
<1>3. CASE Ends(c, db, FALSE)
  <2>1. Vain(c, FALSE) BY <1>1 DEF Vain
  <2> QED BY <1>1, <1>3, <2>1, AnswerIdles
<1> QED BY <1>2, <1>3 DEF RetryAtOnce

-----------------------------------------------------------------------------
(* Sets gone through a run at a time *)

LEMMA RestsDeed ==
  ASSUME Inv, NEW c \in Clients, Call(c).op \notin Wins, ~ReadsBack(c), Rests(db, db'), GoesOn(c)
  PROVE  Deed(c)
BY NothingToWin DEF GoesOn, Deed, Idles

LEMMA QuietDeed ==
  ASSUME Inv, NEW c \in Clients, todo[c] # <<>>, Call(c).op \notin Wins, NEW d, Rests(db, d), NEW a, Ends(c, d, a)
  PROVE  Deed(c)
BY EndsIdle, NothingToWin

LEMMA AnswersDeed ==
  ASSUME Inv, NEW c \in Clients, todo[c] # <<>>, Call(c).op \notin Wins, NEW a, Ends(c, db, a)
  PROVE  Deed(c)
BY AnswerIdles, NothingToWin

LEMMA ScansDeed ==
  ASSUME Inv, NEW c \in Clients, NEW op, op \notin Wins, NEW found, Scans(c, op, found)
  PROVE  Deed(c)
<1>1. todo[c] # <<>> /\ Call(c).op = op BY DEF Scans, Calls, On
<1> QED BY <1>1, AnswersDeed, WritesIdle DEF ReadsBack, Scans, Calls, On

LEMMA VisitsGo ==
  ASSUME Inv, NEW c \in Clients, todo[c] # <<>>, NEW r, NEW d, Visits(c, r, d)
  PROVE  GoesOn(c) /\ db' = d
BY EndsSays, GoesPauses DEF Visits, GoesOn

LEMMA OverEachDeed ==
  ASSUME Inv, NEW c \in Clients, Call(c).op = "cancelRuns", NEW r \in Runs,
         db' = Over(db, r, "canceled"), GoesOn(c)
  PROVE  Deed(c)
<1> DEFINE row == Terminated(db.row[r], "canceled")
           rows == [db.row EXCEPT ![r] = row]
<1>1. CASE LiveIn(db, r)
  <2>1. RowsMove(db, db', rows) BY <1>1, OverPapers, TablesHaveColumns
  <2>2. row.status = "canceled" BY <1>1, RowsThere DEF Terminated, LiveIn, OverIn, RunRow
  <2>3. DOMAIN db.row = Runs BY RowsThere
  <2> HIDE DEF row
  <2>4. \A q \in Runs : rows[q] = IF q = r THEN row ELSE db.row[q] BY <2>3
  <2> HIDE DEF rows
  <2>5. "canceled" \in Active \cup Terminal /\ "canceled" # "failed" BY DEF Terminal
  <2>6. \A q \in Runs : db'.row[q] = db.row[q] \/ Changes(c, q)
      BY <1>1, <2>1, <2>2, <2>4, <2>5 DEF RowsMove, Changes
  <2>7. Rewrites(c) BY <2>1, <2>6 DEF Rewrites, RowsMove
  <2> QED BY <2>7 DEF Deed
<1>2. CASE ~LiveIn(db, r)
  <2>1. db' = db BY <1>2, OverPapers, TablesHaveColumns
  <2>2. Call(c).op \notin Wins BY DEF Wins
  <2> QED BY <2>1, <2>2, RestsDeed, TablesHaveColumns DEF ReadsBack
<1> QED BY <1>1, <1>2

(* Rows deleted, or some of what goes with them. *)
LEMMA ClearsDeed ==
  ASSUME Inv, NEW c \in Clients, Call(c).op = "purge", NEW R, R \subseteq at[c].got \cup Victims(c),
         NEW parts, db' = Without(db, R, parts), GoesOn(c)
  PROVE  Deed(c)
<1>1. Cleared(db, db', R) BY WithoutClears, TablesHaveColumns
<1>2. Cleared(db, db', at[c].got \cup Victims(c)) BY <1>1 DEF Cleared
<1> QED BY <1>2 DEF Deed, Clears

LEMMA ErasesDeed ==
  ASSUME Inv, NEW c \in Clients, todo[c] # <<>>, Call(c).op = "purge", NEW R, R \subseteq at[c].got \cup Victims(c),
         NEW a, Ends(c, Erased(db, R), a)
  PROVE  Deed(c)
<1>1. Says(c, a) /\ db' = Without(db, R, Parts) BY EndsSays DEF Erased
<1> QED BY <1>1, ClearsDeed DEF GoesOn

LEMMA DeleteInPartsDeed ==
  ASSUME Inv, NEW c \in Clients, NEW parts, DeleteInParts(c, parts)
  PROVE  Deed(c)
<1>1. todo[c] # <<>> /\ Call(c).op = "purge" /\ Call(c).op \notin Wins
    BY DEF DeleteInParts, Asks, Calls, On, Wins
<1>2. CASE Ends(c, db, TRUE) BY <1>1, <1>2, AnswersDeed
<1>3. CASE \E x : Goes(c, db, x) BY <1>1, <1>3, GoesIdles, TablesHaveColumns DEF ReadsBack
<1>4. ASSUME NEW part, LET d == Without(db, at[c].got, part)
                       IN  Ends(c, d, TRUE) \/ \E x : Goes(c, d, x)
      PROVE  Deed(c)
  <2>1. GoesOn(c) /\ db' = Without(db, at[c].got, part) BY <1>1, <1>4, EndsSays, GoesPauses DEF GoesOn
  <2> QED BY <1>1, <2>1, ClearsDeed
<1> QED BY <1>2, <1>3, <1>4 DEF DeleteInParts

-----------------------------------------------------------------------------
(* Crons, jobs, timers and reads *)

LEMMA RecronsDeed ==
  ASSUME Inv, NEW c \in Clients, todo[c] # <<>>, NEW d, Keep(db, d, Papers \ {"cron", "ripe"}),
         NEW a, Ends(c, d, a),
         \/ Call(c).op = "upsertCron"
         \/ Call(c).op = "removeCron" /\ d.cron \in {db.cron, NoCron} /\ d.ripe \in {db.ripe, 0}
  PROVE  Deed(c)
<1>1. Says(c, a) /\ db' = d BY EndsSays
<1>2. Recrons(c) BY <1>1 DEF Recrons, GoesOn
<1> QED BY <1>2 DEF Deed

LEMMA UpsertDeed == ASSUME Inv, NEW c \in Clients, UpsertAtOnce(c) PROVE Deed(c)
<1>1. todo[c] # <<>> /\ Call(c).op = "upsertCron" BY DEF UpsertAtOnce, Calls, On
<1>2. Ends(c, [db EXCEPT !.cron = CronOf(db, Call(c).arg)], TRUE) BY DEF UpsertAtOnce
<1>3. Keep(db, [db EXCEPT !.cron = CronOf(db, Call(c).arg)], Papers \ {"cron"})
    BY CronsPapers, TablesHaveColumns
<1>4. Keep(db, [db EXCEPT !.cron = CronOf(db, Call(c).arg)], Papers \ {"cron", "ripe"})
    BY <1>3 DEF Keep
<1> QED BY <1>1, <1>2, <1>4, RecronsDeed

LEMMA RemoveDeed == ASSUME Inv, NEW c \in Clients, RemoveAtOnce(c) PROVE Deed(c)
<1> DEFINE d == [db EXCEPT !.cron = NoCron]
<1>1. todo[c] # <<>> /\ Call(c).op = "removeCron" BY DEF RemoveAtOnce, Calls, On
<1>2. Ends(c, d, db.cron # NoCron) BY DEF RemoveAtOnce
<1>3. Keep(db, d, Papers \ {"cron"}) /\ d.cron = NoCron BY CronsPapers, TablesHaveColumns
<1> HIDE DEF d
<1>4. Keep(db, d, Papers \ {"cron", "ripe"}) /\ d.ripe = db.ripe BY <1>3 DEF Keep, Papers
<1> QED BY <1>1, <1>2, <1>3, <1>4, RecronsDeed

LEMMA CronHand == ASSUME Inv, NEW c \in Clients, NEW k PROVE DOMAIN [at[c] EXCEPT !.cron = k] = Fields
BY DEF Inv, Hand

LEMMA DueCronsDeed == ASSUME Inv, NEW c \in Clients, DueCronsAtOnce(c) PROVE Deed(c)
<1>1. todo[c] # <<>> /\ Call(c).op = "dueCrons" BY DEF DueCronsAtOnce, Calls, On
<1>2. Vain(c, TRUE) BY <1>1, NothingToWin DEF Wins
<1> QED BY <1>1, <1>2, CronHand, EndsWithIdle, TablesHaveColumns DEF DueCronsAtOnce

LEMMA AdvanceDeed ==
  ASSUME Inv, NEW c \in Clients, host.backend # "redis", AdvanceAtOnce(c)
  PROVE  Deed(c)
<1> DEFINE n == at[c].cron.next
           k == [db.cron EXCEPT !.next = n + 2]
           d == [db EXCEPT !.cron = k]
<1>1. todo[c] # <<>> /\ Call(c).op = "advanceCron" BY DEF AdvanceAtOnce, Calls, On
<1>2. CASE db.cron # NoCron /\ db.cron.next = n /\ Ends(c, [db EXCEPT !.cron.next = n + 2], n)
  <2>1. [db EXCEPT !.cron.next = n + 2] = d OBVIOUS
  <2>2. Says(c, n) /\ db' = d BY <1>1, <1>2, <2>1, EndsSays
  <2>3. Keep(db, d, Papers \ {"cron"}) /\ d.cron = k BY CronsPapers, TablesHaveColumns
  <2>4. db.cron \in Crons BY DEF Inv, Fits, CronFits
  <2>5. k.next = db.cron.next + 2 /\ k # NoCron BY <1>2, <2>4 DEF Crons, NoCron
  <2> HIDE DEF d, k, n
  <2>6. Keep(db, d, Papers \ {"cron", "ripe"}) BY <2>3 DEF Keep
  <2>7. Recrons(c) BY <1>1, <1>2, <2>2, <2>3, <2>5, <2>6 DEF Recrons
  <2> QED BY <2>7 DEF Deed
<1>3. CASE Ends(c, db, 0)
  <2>1. Call(c).op \notin {"start", "startMany", "signal", "retry", "arrive"} BY <1>1
  <2>2. Vain(c, 0) BY <2>1 DEF Vain
  <2> QED BY <1>1, <1>3, <2>2, AnswerIdles
<1> QED BY <1>2, <1>3 DEF AdvanceAtOnce

LEMMA EnqueueDeed == ASSUME Inv, NEW c \in Clients, EnqueueAtOnce(c) PROVE Deed(c)
<1>1. todo[c] # <<>> /\ Call(c).op \notin Wins BY DEF EnqueueAtOnce, Calls, On, Wins
<1> QED BY <1>1, EnqueuingRests, TablesHaveColumns, QuietDeed DEF EnqueueAtOnce

LEMMA TakeLeaseDeed ==
  ASSUME Inv, NEW c \in Clients, todo[c] # <<>>, Call(c).op = "claim", NEW r, TakeLease(c, r)
  PROVE  Deed(c)
<1> DEFINE d == ClaimedBy(db, r, c)
           x == Leased(c, r, d)
<1>1. Rests(db, d) BY JobsRest, TablesHaveColumns
<1>2. EndsWith(c, d, x, TRUE) BY DEF TakeLease
<1>3. DOMAIN x = Fields BY DEF Leased, Inv, Hand
<1>4. Vain(c, TRUE) BY NothingToWin DEF Wins
<1> HIDE DEF d, x
<1> QED BY <1>1, <1>2, <1>3, <1>4, EndsWithIdle

LEMMA ClaimOneOfDeed == ASSUME Inv, NEW c \in Clients, NEW R, ClaimOneOf(c, R) PROVE Deed(c)
<1>1. todo[c] # <<>> /\ Call(c).op = "claim" BY DEF ClaimOneOf, Calls, On
<1>2. Call(c).op \notin Wins BY <1>1 DEF Wins
<1> QED BY <1>1, <1>2, AnswersDeed, TakeLeaseDeed DEF ClaimOneOf

LEMMA ClaimThenLeaseDeed ==
  ASSUME Inv, NEW c \in Clients, NEW picks, ClaimThenLease(c, picks)
  PROVE  Deed(c)
<1>1. todo[c] # <<>> /\ Call(c).op = "claim" BY DEF ClaimThenLease, Candidates, Calls, On
<1>2. Call(c).op \notin Wins BY <1>1 DEF Wins
<1>3. CASE Ends(c, db, FALSE) BY <1>1, <1>2, <1>3, AnswersDeed
<1>4. CASE \E pc, got : Reads(c, pc, got) BY <1>1, <1>4, WritesIdle DEF ReadsBack
<1>5. CASE \E r : TakeLease(c, r) BY <1>1, <1>5, TakeLeaseDeed
<1> QED BY <1>3, <1>4, <1>5 DEF ClaimThenLease, Candidates

LEMMA RenewDeed == ASSUME Inv, NEW c \in Clients, RenewAtOnce(c) PROVE Deed(c)
<1>1. todo[c] # <<>> /\ Call(c).op \notin Wins BY DEF RenewAtOnce, Calls, On, Wins
<1> QED BY <1>1, JobsRest, TablesHaveColumns, QuietDeed, ThrowsIdle DEF RenewAtOnce

LEMMA DroppedDeed ==
  ASSUME Inv, NEW c \in Clients, todo[c] # <<>>, Call(c).op = "ack", NEW d, Rests(db, d), LeaseDropped(c, d)
  PROVE  Deed(c)
<1>1. Vain(c, TRUE) BY NothingToWin DEF Wins
<1>2. DOMAIN [at[c] EXCEPT !.lease = NoLease] = Fields BY DEF Inv, Hand
<1> QED BY <1>1, <1>2, EndsWithIdle DEF LeaseDropped

LEMMA AckDeed ==
  ASSUME Inv, NEW c \in Clients, AckInTwo(c) \/ AckOrRelease(c)
  PROVE  Deed(c)
<1>1. todo[c] # <<>> /\ Call(c).op = "ack" BY DEF AckInTwo, AckOrRelease, Calls, On
<1>2. \A r : Rests(db, Dequeued(db, r)) /\ Rests(db, LetGo(db, r)) /\ Rests(db, db)
    BY JobsRest, TablesHaveColumns
<1>3. CASE \E d, pc : Rests(db, d) /\ Writes(c, d, pc) BY <1>1, <1>3, GoesIdles DEF ReadsBack, Writes
<1>4. CASE \E d : Rests(db, d) /\ LeaseDropped(c, d) BY <1>1, <1>4, DroppedDeed
<1> QED BY <1>2, <1>3, <1>4 DEF AckInTwo, AckOrRelease

LEMMA TimersDeed ==
  ASSUME Inv, NEW c \in Clients, ScheduleAtOnce(c) \/ CancelTimerAtOnce(c) \/ DueAtOnce(c)
  PROVE  Deed(c)
<1>1. todo[c] # <<>> /\ Call(c).op \notin Wins
    BY DEF ScheduleAtOnce, CancelTimerAtOnce, DueAtOnce, Calls, On, Wins
<1>2. \A r, R : Rests(db, Scheduled(db, r)) /\ Rests(db, Unscheduled(db, R)) /\ Rests(db, TimerGone(db, R))
    BY TimersRest, TablesHaveColumns
<1>3. \A R, S : Rests(db, HandedOut(TimerGone(db, R), S))
  <2> TAKE R, S
  <2>1. Rests(db, TimerGone(db, R)) /\ DOMAIN TimerGone(db, R) = Columns BY <1>2 DEF Rests, Keep
  <2> QED BY <2>1, TimersRest, RestsTwice
<1> QED BY <1>1, <1>2, <1>3, QuietDeed DEF ScheduleAtOnce, CancelTimerAtOnce, DueAtOnce

LEMMA HandedRests == ASSUME Inv, NEW R, NEW S PROVE Rests(db, HandedOut(TimerGone(db, R), S))
<1>1. Rests(db, TimerGone(db, R)) BY TimersRest, TablesHaveColumns
<1>2. DOMAIN TimerGone(db, R) = Columns BY <1>1 DEF Rests, Keep
<1> QED BY <1>1, <1>2, TimersRest, RestsTwice

(* A read writes nothing. *)
LEMMA ReadsDeed ==
  ASSUME Inv, NEW c \in Clients, todo[c] # <<>>, Call(c).op \in ReadOps,
         \E a, x : Ends(c, db, a) \/ Goes(c, db, x)
  PROVE  Deed(c)
<1>1. Call(c).op \notin Wins BY DEF ReadOps, Wins
<1>2. ~ReadsBack(c) BY DEF ReadOps, ReadsBack
<1> QED BY <1>1, <1>2, AnswersDeed, GoesIdles, TablesHaveColumns

LEMMA LookingDeed ==
  ASSUME Inv, NEW c \in Clients, NEW op \in ReadOps,
         \/ AtOnce(c, op) \/ (\E view, looks : Begins(c, op, view, looks))
         \/ (\E looks : Looks(c, op, looks))
  PROVE  Deed(c)
<1>1. todo[c] # <<>> /\ Call(c).op = op BY DEF AtOnce, Begins, Looks, Calls, On
<1> QED BY <1>1, ReadsDeed DEF AtOnce, Begins, Looks

LEMMA LooksInDeed ==
  ASSUME Inv, NEW c \in Clients, NEW op \in ReadOps,
         \/ (\E table : LooksThrough(c, op, table) \/ LooksOn(c, op, table))
         \/ (\E tables : LooksInTurn(c, op, tables))
  PROVE  Deed(c)
BY LookingDeed DEF LooksThrough, LooksOn, LooksInTurn

LEMMA ListDeed == ASSUME Inv, NEW c \in Clients, ListInPages(c) \/ ListByEntry(c) PROVE Deed(c)
<1>1. todo[c] # <<>> /\ Call(c).op = "list" BY DEF ListInPages, ListByEntry, Paging, Calls, On
<1>2. Call(c).op \in ReadOps BY <1>1 DEF ReadOps
<1> QED BY <1>1, <1>2, ReadsDeed DEF ListInPages, ListByEntry

-----------------------------------------------------------------------------
(* The backends, call by call *)

LEMMA MemoryDeed ==
  ASSUME Inv, NEW c \in Clients, host.backend = "memory", MemoryNext(c)
  PROVE  Deed(c)
<1>1. CASE MemoryStartRun(c) \/ MemoryStartManyRuns(c)
    BY <1>1, StartAtOnceDeed DEF MemoryStartRun, MemoryStartManyRuns
<1>2. CASE MemoryLoadRun(c)
    BY <1>2, LoadDeed DEF MemoryLoadRun
<1>3. CASE MemoryMarkRunning(c)
    BY <1>3, MarkAtOnceDeed DEF MemoryMarkRunning
<1>4. CASE MemoryCheckpointStep(c)
  <2>1. MemoryApplyOutbox(Written(db, c), c) = Outboxed(Written(db, c), c) BY DEF MemoryApplyOutbox
  <2> QED BY <1>4, <2>1, CheckpointAtOnceDeed DEF MemoryCheckpointStep
<1>5. CASE MemorySuspendRun(c) \/ MemoryMarkTerminal(c)
    BY <1>5, SuspendDeed, FinishDeed, ThrowsIdle, CalledOn DEF MemorySuspendRun, MemoryMarkTerminal, Calls
<1>6. CASE MemoryArriveAtJoin(c)
    BY <1>6, ArriveDeed DEF MemoryArriveAtJoin
<1>7. CASE MemoryPostSignal(c)
    BY <1>7, SignalDeed, ThrowsIdle, CalledOn DEF MemoryPostSignal, Calls
<1>8. CASE MemoryCancelRuns(c) \/ MemoryRetryRuns(c)
    BY <1>8, CancelAtOnceDeed, RetryAllAtOnceDeed DEF MemoryCancelRuns, MemoryRetryRuns
<1>9. CASE MemoryRetryRun(c)
    BY <1>9, RetryAtOnceDeed, ThrowsIdle, CalledOn DEF MemoryRetryRun, RetryAtOnce, Calls
<1>10. CASE MemoryDeleteRuns(c)
    BY <1>10, CalledOn, ErasesDeed DEF MemoryDeleteRuns, Asks, Calls
<1>11. CASE MemoryUpsertCron(c) \/ MemoryRemoveCron(c) \/ MemoryDueCrons(c) \/ MemoryAdvanceCron(c)
    BY <1>11, UpsertDeed, RemoveDeed, DueCronsDeed, AdvanceDeed DEF MemoryUpsertCron, MemoryRemoveCron,
       MemoryDueCrons, MemoryAdvanceCron
<1>12. CASE MemoryEnqueue(c) \/ MemoryHeartbeat(c) \/ MemoryClaim(c)
    BY <1>12, EnqueueDeed, RenewDeed, ClaimOneOfDeed DEF MemoryEnqueue, MemoryHeartbeat, MemoryClaim
<1>13. CASE MemoryAck(c)
  <2>1. todo[c] # <<>> /\ Call(c).op = "ack" BY <1>13, CalledOn DEF MemoryAck, Calls
  <2>2. \A r : Rests(db, Dequeued(db, r)) /\ Rests(db, LetGo(db, r)) /\ Rests(db, db)
      BY JobsRest, TablesHaveColumns
  <2> QED BY <1>13, <2>1, <2>2, DroppedDeed DEF MemoryAck
<1>14. CASE MemorySchedule(c) \/ MemoryCancelTimer(c) \/ MemoryDueBatch(c)
    BY <1>14, TimersDeed DEF MemorySchedule, MemoryCancelTimer, MemoryDueBatch
<1>15. CASE Refuses(c)
    BY <1>15, RefusesDeed
<1>16. CASE MemoryLoadRunRows(c) \/ MemoryChildrenOf(c) \/ MemoryRunStats(c) \/
            MemoryOrphanedRuns(c) \/ MemoryListCrons(c) \/ MemoryDueCronCount(c) \/
            MemoryDepth(c) \/ MemoryDueCount(c) \/ MemoryNextDueAt(c) \/ MemoryListRuns(c)
  <2>1. {"rows", "children", "stats", "orphans", "listCrons", "cronCount", "depth", "dueCount", "nextDue"} \subseteq ReadOps
      BY DEF ReadOps
  <2> QED BY <1>16, <2>1, LookingDeed, ListDeed DEF
       MemoryLoadRunRows, MemoryChildrenOf, MemoryRunStats, MemoryOrphanedRuns,
       MemoryListCrons, MemoryDueCronCount, MemoryDepth, MemoryDueCount, MemoryNextDueAt,
       MemoryListRuns
<1> QED BY <1>1, <1>2, <1>3, <1>4, <1>5, <1>6, <1>7, <1>8, <1>9, <1>10, <1>11, <1>12,
   <1>13, <1>14, <1>15, <1>16 DEF MemoryNext

LEMMA PostgresDeed ==
  ASSUME Inv, NEW c \in Clients, host.backend = "postgres", PostgresNext(c)
  PROVE  Deed(c)
<1>1. CASE PostgresStartRun(c) \/ PostgresStartManyRuns(c)
    BY <1>1, StartOrFindDeed DEF PostgresStartRun, PostgresStartManyRuns
<1>2. CASE PostgresLoadRun(c)
    BY <1>2, LoadDeed DEF PostgresLoadRun
<1>3. CASE PostgresMarkRunning(c)
    BY <1>3, MarkOrLookDeed DEF PostgresMarkRunning
<1>4. CASE PostgresCheckpointStep(c)
  <2> DEFINE d == Outboxed(Written(db, c), c)
  <2>1. /\ todo[c] # <<>> /\ Call(c).op = "checkpoint" /\ at[c].pc \in {"call", "gate"}
      BY <1>4 DEF PostgresCheckpointStep, Calls, On
  <2>2. PostgresApplyOutbox(Written(db, c), c) = d BY DEF PostgresApplyOutbox
  <2>3. CASE Writes(c, db, "gate") BY <2>1, <2>3, WritesIdle DEF ReadsBack
  <2>4. CASE Throws(c) \/ Replayed(c) \/ Refused(c) BY <2>1, <2>4, CheckpointIdles
  <2>5. CASE ~Taken(db, c) /\ There(db, Call(c).run) /\ Committed(c, d) /\ ~(Gated(c) /\ VersionMoved(db, c))
    <3>1. at[c].pc # "stored" BY <2>1
    <3> QED BY <2>1, <2>5, <3>1, CommittedDeed
  <2>6. \/ Writes(c, db, "gate") \/ Throws(c) \/ Replayed(c) \/ Refused(c)
        \/ /\ ~Taken(db, c) /\ There(db, Call(c).run) /\ Committed(c, d)
           /\ ~(Gated(c) /\ VersionMoved(db, c))
      BY <1>4, <2>1, <2>2 DEF PostgresCheckpointStep
  <2> QED BY <2>3, <2>4, <2>5, <2>6
<1>5. CASE PostgresSuspendRun(c) \/ PostgresMarkTerminal(c)
    BY <1>5, SuspendDeed, FinishDeed DEF PostgresSuspendRun, PostgresMarkTerminal
<1>6. CASE PostgresArriveAtJoin(c)
    BY <1>6, ArriveDeed DEF PostgresArriveAtJoin
<1>7. CASE PostgresPostSignal(c)
    BY <1>7, SignalDeed, ThrowsIdle, CalledOn DEF PostgresPostSignal, Calls
<1>8. CASE PostgresCancelRuns(c) \/ PostgresRetryRuns(c) \/ PostgresRetryRun(c)
    BY <1>8, CancelAtOnceDeed, RetryAllAtOnceDeed, RetryAtOnceDeed DEF PostgresCancelRuns, PostgresRetryRuns, PostgresRetryRun
<1>9. CASE PostgresDeleteRuns(c)
  <2>1. todo[c] # <<>> /\ Call(c).op = "purge" BY <1>9, CalledOn DEF PostgresDeleteRuns, Asks, Calls
  <2> QED BY <1>9, <2>1, WritesIdle, ErasesDeed DEF ReadsBack, PostgresDeleteRuns
<1>10. CASE PostgresUpsertCron(c) \/ PostgresRemoveCron(c) \/ PostgresDueCrons(c) \/ PostgresAdvanceCron(c)
    BY <1>10, UpsertDeed, RemoveDeed, DueCronsDeed, AdvanceDeed DEF PostgresUpsertCron, PostgresRemoveCron,
       PostgresDueCrons, PostgresAdvanceCron
<1>11. CASE PostgresEnqueue(c) \/ PostgresHeartbeat(c) \/ PostgresClaim(c)
    BY <1>11, EnqueueDeed, RenewDeed, ClaimOneOfDeed DEF PostgresEnqueue, PostgresHeartbeat, PostgresClaim
<1>12. CASE PostgresAck(c)
    BY <1>12, AckDeed DEF PostgresAck
<1>13. CASE PostgresSchedule(c) \/ PostgresCancelTimer(c) \/ PostgresDueBatch(c)
    BY <1>13, TimersDeed DEF PostgresSchedule, PostgresCancelTimer, PostgresDueBatch
<1>14. CASE Refuses(c)
    BY <1>14, RefusesDeed
<1>15. CASE PostgresLoadRunRows(c) \/ PostgresChildrenOf(c) \/ PostgresRunStats(c) \/
            PostgresOrphanedRuns(c) \/ PostgresListCrons(c) \/ PostgresDueCronCount(c) \/
            PostgresDepth(c) \/ PostgresDueCount(c) \/ PostgresNextDueAt(c) \/
            PostgresListRuns(c)
  <2>1. {"rows", "children", "stats", "orphans", "listCrons", "cronCount", "depth", "dueCount", "nextDue"} \subseteq ReadOps
      BY DEF ReadOps
  <2> QED BY <1>15, <2>1, LookingDeed, ListDeed DEF
       PostgresLoadRunRows, PostgresChildrenOf, PostgresRunStats, PostgresOrphanedRuns,
       PostgresListCrons, PostgresDueCronCount, PostgresDepth, PostgresDueCount,
       PostgresNextDueAt, PostgresListRuns
<1> QED BY <1>1, <1>2, <1>3, <1>4, <1>5, <1>6, <1>7, <1>8, <1>9, <1>10, <1>11, <1>12,
   <1>13, <1>14, <1>15 DEF PostgresNext

LEMMA MySqlDeed ==
  ASSUME Inv, NEW c \in Clients, host.backend = "mysql", MySqlNext(c)
  PROVE  Deed(c)
<1>1. CASE MySqlStartRun(c) \/ MySqlStartManyRuns(c)
    BY <1>1, StartOrFindDeed DEF MySqlStartRun, MySqlStartManyRuns
<1>2. CASE MySqlLoadRun(c)
    BY <1>2, LoadDeed DEF MySqlLoadRun
<1>3. CASE MySqlMarkRunning(c)
    BY <1>3, MarkAtOnceDeed DEF MySqlMarkRunning
<1>4. CASE MySqlCheckpointStep(c)
  <2> DEFINE d == Outboxed(Written(db, c), c)
  <2>1. todo[c] # <<>> /\ Call(c).op = "checkpoint" BY <1>4 DEF MySqlCheckpointStep, Calls, On
  <2>2. MySqlApplyOutbox(Written(db, c), c) = d BY DEF MySqlApplyOutbox
  <2>3. CASE Calls(c, "checkpoint") /\ \E pc : Writes(c, db, pc)
    <3>1. ~ReadsBack(c) BY <2>3 DEF ReadsBack, Calls, On
    <3> QED BY <2>1, <2>3, <3>1, WritesIdle
  <2>4. CASE Throws(c) \/ Replayed(c) \/ Refused(c) BY <2>1, <2>4, CheckpointIdles
  <2>5. CASE ~Taken(db, c) /\ Committed(c, d) /\ at[c].pc # "stored"
      BY <2>1, <2>5, CommittedDeed DEF LooksAhead
  <2>6. \/ (Calls(c, "checkpoint") /\ \E pc : Writes(c, db, pc)) \/ Throws(c) \/ Replayed(c) \/ Refused(c)
        \/ ~Taken(db, c) /\ Committed(c, d) /\ at[c].pc # "stored"
    <3>1. CASE Calls(c, "checkpoint") /\ (Throws(c) \/ \E pc : Writes(c, db, pc)) BY <3>1
    <3>2. CASE VersionMoved(db, c) /\ Refused(c) BY <3>2
    <3>3. CASE /\ On(c, "checkpoint", "write") \/ (On(c, "checkpoint", "gate") /\ ~VersionMoved(db, c))
               /\ Replayed(c) \/ (~Taken(db, c) /\ Committed(c, d))
      <4>1. at[c].pc # "stored" BY <3>3 DEF On
      <4> QED BY <3>3, <4>1
    <3> QED BY <1>4, <2>2, <3>1, <3>2, <3>3 DEF MySqlCheckpointStep
  <2> QED BY <2>3, <2>4, <2>5, <2>6
<1>5. CASE MySqlSuspendRun(c) \/ MySqlMarkTerminal(c)
    BY <1>5, SuspendDeed, FinishDeed DEF MySqlSuspendRun, MySqlMarkTerminal
<1>6. CASE MySqlArriveAtJoin(c)
    BY <1>6, ArriveDeed DEF MySqlArriveAtJoin
<1>7. CASE MySqlPostSignal(c)
    BY <1>7, SignalDeed, ThrowsIdle, CalledOn DEF MySqlPostSignal, Calls
<1>8. CASE MySqlCancelRuns(c) \/ MySqlRetryRuns(c) \/ MySqlRetryRun(c)
    BY <1>8, CancelAtOnceDeed, RetryAllAtOnceDeed, RetryAtOnceDeed DEF MySqlCancelRuns, MySqlRetryRuns, MySqlRetryRun
<1>9. CASE MySqlDeleteRuns(c)
  <2>1. todo[c] # <<>> /\ Call(c).op = "purge" BY <1>9, CalledOn DEF MySqlDeleteRuns, Asks, Calls
  <2> QED BY <1>9, <2>1, WritesIdle, ErasesDeed DEF ReadsBack, MySqlDeleteRuns
<1>10. CASE MySqlUpsertCron(c) \/ MySqlRemoveCron(c) \/ MySqlDueCrons(c) \/ MySqlAdvanceCron(c)
    BY <1>10, UpsertDeed, RemoveDeed, DueCronsDeed, AdvanceDeed DEF MySqlUpsertCron, MySqlRemoveCron,
       MySqlDueCrons, MySqlAdvanceCron
<1>11. CASE MySqlEnqueue(c) \/ MySqlHeartbeat(c) \/ MySqlClaim(c)
    BY <1>11, EnqueueDeed, RenewDeed, ClaimOneOfDeed DEF MySqlEnqueue, MySqlHeartbeat, MySqlClaim
<1>12. CASE MySqlAck(c)
    BY <1>12, AckDeed DEF MySqlAck
<1>13. CASE MySqlSchedule(c) \/ MySqlCancelTimer(c) \/ MySqlDueBatch(c)
    BY <1>13, TimersDeed DEF MySqlSchedule, MySqlCancelTimer, MySqlDueBatch
<1>14. CASE Refuses(c)
    BY <1>14, RefusesDeed
<1>15. CASE MySqlLoadRunRows(c) \/ MySqlChildrenOf(c) \/ MySqlRunStats(c) \/
            MySqlOrphanedRuns(c) \/ MySqlListCrons(c) \/ MySqlDueCronCount(c) \/
            MySqlDepth(c) \/ MySqlDueCount(c) \/ MySqlNextDueAt(c) \/ MySqlListRuns(c)
  <2>1. {"rows", "children", "stats", "orphans", "listCrons", "cronCount", "depth", "dueCount", "nextDue"} \subseteq ReadOps
      BY DEF ReadOps
  <2> QED BY <1>15, <2>1, LookingDeed, ListDeed DEF
       MySqlLoadRunRows, MySqlChildrenOf, MySqlRunStats, MySqlOrphanedRuns, MySqlListCrons,
       MySqlDueCronCount, MySqlDepth, MySqlDueCount, MySqlNextDueAt, MySqlListRuns
<1> QED BY <1>1, <1>2, <1>3, <1>4, <1>5, <1>6, <1>7, <1>8, <1>9, <1>10, <1>11, <1>12,
   <1>13, <1>14, <1>15 DEF MySqlNext

LEMMA SqliteDeed ==
  ASSUME Inv, NEW c \in Clients, host.backend = "sqlite", SqliteNext(c)
  PROVE  Deed(c)
<1>1. CASE SqliteStartRun(c) \/ SqliteStartManyRuns(c)
    BY <1>1, StartOrFindDeed, StartAtOnceDeed DEF SqliteStartRun, SqliteStartManyRuns
<1>2. CASE SqliteLoadRun(c)
    BY <1>2, LoadDeed DEF SqliteLoadRun
<1>3. CASE SqliteMarkRunning(c)
    BY <1>3, MarkOrLookDeed DEF SqliteMarkRunning
<1>4. CASE SqliteCheckpointStep(c)
  <2>1. SqliteApplyOutbox(Written(db, c), c) = Outboxed(Written(db, c), c) BY DEF SqliteApplyOutbox
  <2> QED BY <1>4, <2>1, CheckpointAtOnceDeed DEF SqliteCheckpointStep
<1>5. CASE SqliteSuspendRun(c) \/ SqliteMarkTerminal(c)
    BY <1>5, SuspendDeed, FinishDeed DEF SqliteSuspendRun, SqliteMarkTerminal
<1>6. CASE SqliteArriveAtJoin(c)
    BY <1>6, ArriveDeed DEF SqliteArriveAtJoin
<1>7. CASE SqlitePostSignal(c)
    BY <1>7, SignalDeed, ThrowsIdle, CalledOn DEF SqlitePostSignal, Calls
<1>8. CASE SqliteCancelRuns(c) \/ SqliteRetryRuns(c) \/ SqliteRetryRun(c)
    BY <1>8, CancelAtOnceDeed, RetryAllAtOnceDeed, RetryAtOnceDeed DEF SqliteCancelRuns, SqliteRetryRuns, SqliteRetryRun
<1>9. CASE SqliteDeleteRuns(c)
    BY <1>9, CalledOn, ErasesDeed DEF SqliteDeleteRuns, Asks, Calls
<1>10. CASE SqliteUpsertCron(c) \/ SqliteRemoveCron(c) \/ SqliteDueCrons(c) \/ SqliteAdvanceCron(c)
    BY <1>10, UpsertDeed, RemoveDeed, DueCronsDeed, AdvanceDeed DEF SqliteUpsertCron, SqliteRemoveCron,
       SqliteDueCrons, SqliteAdvanceCron
<1>11. CASE SqliteEnqueue(c) \/ SqliteHeartbeat(c) \/ SqliteClaim(c)
    BY <1>11, EnqueueDeed, RenewDeed, ClaimOneOfDeed DEF SqliteEnqueue, SqliteHeartbeat, SqliteClaim
<1>12. CASE SqliteAck(c)
    BY <1>12, AckDeed DEF SqliteAck
<1>13. CASE SqliteSchedule(c) \/ SqliteCancelTimer(c) \/ SqliteDueBatch(c)
    BY <1>13, TimersDeed DEF SqliteSchedule, SqliteCancelTimer, SqliteDueBatch
<1>14. CASE Refuses(c)
    BY <1>14, RefusesDeed
<1>15. CASE SqliteLoadRunRows(c) \/ SqliteChildrenOf(c) \/ SqliteRunStats(c) \/
            SqliteOrphanedRuns(c) \/ SqliteListCrons(c) \/ SqliteDueCronCount(c) \/
            SqliteDepth(c) \/ SqliteDueCount(c) \/ SqliteNextDueAt(c) \/ SqliteListRuns(c)
  <2>1. {"rows", "children", "stats", "orphans", "listCrons", "cronCount", "depth", "dueCount", "nextDue"} \subseteq ReadOps
      BY DEF ReadOps
  <2> QED BY <1>15, <2>1, LookingDeed, ListDeed DEF
       SqliteLoadRunRows, SqliteChildrenOf, SqliteRunStats, SqliteOrphanedRuns,
       SqliteListCrons, SqliteDueCronCount, SqliteDepth, SqliteDueCount, SqliteNextDueAt,
       SqliteListRuns
<1> QED BY <1>1, <1>2, <1>3, <1>4, <1>5, <1>6, <1>7, <1>8, <1>9, <1>10, <1>11, <1>12,
   <1>13, <1>14, <1>15 DEF SqliteNext

(* MongoDB writes by the ids that it read. *)
LEMMA MongoSetsDeed ==
  ASSUME Inv, NEW c \in Clients, host.backend = "mongodb", MongoCancelRuns(c) \/ MongoRetryRuns(c)
  PROVE  Deed(c)
<1> DEFINE there == {r \in at[c].got : There(db, r)}
<1>0. there \subseteq Runs /\ \A r \in there : There(db, r) BY GotAreRuns
<1>1. CASE MongoCancelRuns(c)
  <2>1. todo[c] # <<>> /\ Call(c).op = "cancelRuns" /\ Call(c).op \notin Wins
      BY <1>1 DEF MongoCancelRuns, Asks, Calls, On, Wins
  <2>2. CASE Ends(c, db, TRUE) BY <2>1, <2>2, AnswersDeed
  <2>3. CASE \E pc, got : Reads(c, pc, got) BY <2>1, <2>3, WritesIdle DEF ReadsBack
  <2>4. CASE Writes(c, Unscheduled(db, at[c].got), "rows")
    <3>1. Rests(db, Unscheduled(db, at[c].got)) BY TimersRest, TablesHaveColumns
    <3> QED BY <2>1, <2>4, <3>1, GoesIdles DEF ReadsBack, Writes
  <2>5. CASE Ends(c, StatusSet(db, there, "canceled"), TRUE)
    <3> DEFINE d == StatusSet(db, there, "canceled")
               rows == [r \in Runs |-> IF r \in there THEN [db.row[r] EXCEPT !.status = "canceled"] ELSE db.row[r]]
    <3>1. RowsMove(db, d, rows) BY RowsWritten, TablesHaveColumns
    <3>2. Says(c, TRUE) /\ db' = d BY <2>1, <2>5, EndsSays
    <3>3. \A r \in Runs : \/ rows[r] = db.row[r]
                          \/ There(db, r) /\ rows[r].status = "canceled"
      <4> TAKE r \in Runs
      <4>1. db.row[r] \in RunRow BY RowsThere
      <4> QED BY <1>0, <4>1 DEF RunRow
    <3> HIDE DEF rows, d, there
    <3>4. "canceled" \in Active \cup Terminal /\ "canceled" # "failed" BY DEF Terminal
    <3>5. Rewrites(c) BY <2>1, <3>1, <3>2, <3>3, <3>4 DEF Rewrites, GoesOn, Changes, RowsMove
    <3> QED BY <3>5 DEF Deed
  <2> QED BY <1>1, <2>2, <2>3, <2>4, <2>5 DEF MongoCancelRuns
<1>2. CASE MongoRetryRuns(c)
  <2>1. todo[c] # <<>> /\ Call(c).op = "retryRuns" /\ Call(c).op \notin Wins
      BY <1>2 DEF MongoRetryRuns, Asks, Calls, On, Wins
  <2>2. CASE Ends(c, db, TRUE) BY <2>1, <2>2, AnswersDeed
  <2>3. CASE \E pc, got : Reads(c, pc, got) BY <2>1, <2>3, WritesIdle DEF ReadsBack
  <2>4. CASE Ends(c, Enqueuing(Pending(db, there), at[c].got), TRUE)
    <3> DEFINE e == Pending(db, there)
               d == Enqueuing(e, at[c].got)
               rows == [r \in Runs |-> IF r \in there THEN Fresh ELSE db.row[r]]
    <3>1. RowsMove(db, e, rows) BY RowsWritten, TablesHaveColumns
    <3>2. DOMAIN e = Columns BY <3>1 DEF RowsMove, Keep
    <3>3. Says(c, TRUE) /\ db' = d BY <2>1, <2>4, EndsSays
    <3> HIDE DEF e
    <3>4. Rests(e, d) BY <3>2, EnqueuingRests
    <3>5. \A r \in Runs : rows[r] = db.row[r] \/ (There(db, r) /\ rows[r] = Fresh) BY <1>0
    <3> HIDE DEF rows, d, there
    <3>6. RowsMove(db, d, rows) BY <3>1, <3>4, RowsThenRest
    <3>7. Reopens(c) BY <2>1, <3>3, <3>5, <3>6 DEF Reopens, RowsMove
    <3> QED BY <3>7 DEF Deed
  <2> QED BY <1>2, <2>2, <2>3, <2>4 DEF MongoRetryRuns
<1> QED BY <1>1, <1>2

LEMMA MongoDeed ==
  ASSUME Inv, NEW c \in Clients, host.backend = "mongodb", MongoNext(c)
  PROVE  Deed(c)
<1>1. CASE MongoStartRun(c) \/ MongoStartManyRuns(c)
    BY <1>1, StartOrFindDeed DEF MongoStartRun, MongoStartManyRuns
<1>2. CASE MongoLoadRun(c)
    BY <1>2, LoadDeed DEF MongoLoadRun
<1>3. CASE MongoMarkRunning(c)
    BY <1>3, MarkAtOnceDeed DEF MongoMarkRunning
<1>4. CASE MongoCheckpointStep(c)
  <2> DEFINE d == Outboxed(Written(db, c), c)
  <2>1. todo[c] # <<>> /\ Call(c).op = "checkpoint" /\ at[c].pc # "stored"
      BY <1>4 DEF MongoCheckpointStep, Calls, On
  <2>2. MongoApplyOutbox(Written(db, c), c) = d BY DEF MongoApplyOutbox
  <2>3. CASE \E pc, got : Writes(c, db, pc) \/ Reads(c, pc, got) BY <2>1, <2>3, WritesIdle DEF ReadsBack
  <2>4. CASE Throws(c) \/ Replayed(c) \/ Refused(c) BY <2>1, <2>4, CheckpointIdles
  <2>5. CASE ~Taken(db, c) /\ Committed(c, d) BY <2>1, <2>5, CommittedDeed DEF LooksAhead
  <2>6. \/ \E pc, got : Writes(c, db, pc) \/ Reads(c, pc, got)
        \/ Throws(c) \/ Replayed(c) \/ Refused(c) \/ (~Taken(db, c) /\ Committed(c, d))
      BY <1>4, <2>2 DEF MongoCheckpointStep, MongoConflicts
  <2> QED BY <2>3, <2>4, <2>5, <2>6
<1>5. CASE MongoSuspendRun(c)
  <2>1. todo[c] # <<>> /\ Call(c).op = "suspend" BY <1>5 DEF MongoSuspendRun, Calls, On
  <2>2. CASE \E pc, got : Reads(c, pc, got) BY <2>1, <2>2, WritesIdle DEF ReadsBack
  <2>3. CASE Ends(c, Scheduled(db, Call(c).run), TRUE)
    <3>1. Vain(c, TRUE) BY <2>1, NothingToWin DEF Wins
    <3> QED BY <2>1, <2>3, <3>1, TimersRest, TablesHaveColumns, EndsIdle
  <2> QED BY <1>5, <2>1, <2>2, <2>3, SuspendDeed, ThrowsIdle DEF MongoSuspendRun
<1>17. CASE MongoMarkTerminal(c)
    BY <1>17, FinishDeed, ThrowsIdle, CalledOn DEF MongoMarkTerminal, Calls
<1>6. CASE MongoArriveAtJoin(c)
    BY <1>6, ArriveDeed DEF MongoArriveAtJoin
<1>7. CASE MongoPostSignal(c)
    BY <1>7, SignalDeed DEF MongoPostSignal
<1>8. CASE MongoCancelRuns(c) \/ MongoRetryRuns(c) \/ MongoRetryRun(c)
    BY <1>8, MongoSetsDeed, RetryAtOnceDeed DEF MongoRetryRun
<1>9. CASE MongoDeleteRuns(c)
    BY <1>9, DeleteInPartsDeed DEF MongoDeleteRuns
<1>10. CASE MongoUpsertCron(c) \/ MongoRemoveCron(c) \/ MongoDueCrons(c) \/ MongoAdvanceCron(c)
    BY <1>10, UpsertDeed, RemoveDeed, DueCronsDeed, AdvanceDeed DEF MongoUpsertCron, MongoRemoveCron,
       MongoDueCrons, MongoAdvanceCron
<1>11. CASE MongoEnqueue(c) \/ MongoHeartbeat(c) \/ MongoClaim(c)
    BY <1>11, EnqueueDeed, RenewDeed, ClaimThenLeaseDeed DEF MongoEnqueue, MongoHeartbeat, MongoClaim
<1>12. CASE MongoAck(c)
    BY <1>12, AckDeed DEF MongoAck
<1>13. CASE MongoSchedule(c) \/ MongoCancelTimer(c)
    BY <1>13, TimersDeed DEF MongoSchedule, MongoCancelTimer
<1>14. CASE MongoDueBatch(c)
  <2>1. todo[c] # <<>> /\ Call(c).op = "due" /\ Call(c).op \notin Wins
      BY <1>14 DEF MongoDueBatch, Calls, On, Wins
  <2> QED BY <1>14, <2>1, AnswersDeed, WritesIdle, HandedRests, QuietDeed DEF ReadsBack, MongoDueBatch
<1>15. CASE Refuses(c)
    BY <1>15, RefusesDeed
<1>16. CASE MongoLoadRunRows(c) \/ MongoChildrenOf(c) \/ MongoRunStats(c) \/ MongoOrphanedRuns(c)
            \/ MongoListCrons(c) \/ MongoDueCronCount(c) \/ MongoDepth(c) \/ MongoDueCount(c)
            \/ MongoNextDueAt(c) \/ MongoListRuns(c)
  <2>1. {"rows", "children", "stats", "orphans", "listCrons", "cronCount", "depth", "dueCount", "nextDue"} \subseteq ReadOps
      BY DEF ReadOps
  <2> QED BY <1>16, <2>1, LookingDeed, LooksInDeed, ListDeed DEF MongoLoadRunRows, MongoChildrenOf,
         MongoRunStats, MongoOrphanedRuns, MongoListCrons, MongoDueCronCount, MongoDepth,
         MongoDueCount, MongoNextDueAt, MongoListRuns
<1> QED BY <1>1, <1>2, <1>3, <1>4, <1>5, <1>6, <1>7, <1>8, <1>9, <1>10, <1>11, <1>12, <1>13, <1>14,
   <1>15, <1>16, <1>17 DEF MongoNext

(* DynamoDB reads back what a checkpoint stored, and a cron before it writes it. *)
LEMMA DynamoCheckpointDeed ==
  ASSUME Inv, NEW c \in Clients, host.backend = "dynamodb", DynamoCheckpointStep(c)
  PROVE  Deed(c)
<1> DEFINE d == Outboxed(Written(db, c), c)
<1>1. todo[c] # <<>> /\ Call(c).op = "checkpoint" BY DEF DynamoCheckpointStep, Calls, On
<1>2. DynamoApplyOutbox(Written(db, c), c) = d BY DEF DynamoApplyOutbox
<1>3. CASE at[c].pc = "call" /\ Writes(c, db, "stored")
  <2>1. ~ReadsBack(c) BY <1>3 DEF ReadsBack
  <2> QED BY <1>1, <1>3, <2>1, WritesIdle
<1>4. CASE Throws(c) \/ Replayed(c) \/ Refused(c) BY <1>1, <1>4, CheckpointIdles
<1>5. CASE /\ ~Taken(db, c) /\ There(db, Call(c).run) /\ ~(Gated(c) /\ VersionMoved(db, c))
           /\ at[c].pc = "call" /\ Writes(c, d, "stored")
  <2>1. at[c].pc # "stored" BY <1>5
  <2> QED BY <1>1, <1>5, <2>1, CommittedDeed
<1>6. \/ (at[c].pc = "call" /\ Writes(c, db, "stored")) \/ Throws(c) \/ Replayed(c) \/ Refused(c)
      \/ /\ ~Taken(db, c) /\ There(db, Call(c).run) /\ ~(Gated(c) /\ VersionMoved(db, c))
         /\ at[c].pc = "call" /\ Writes(c, d, "stored")
    BY <1>1, <1>2 DEF DynamoCheckpointStep, Calls, On
<1> QED BY <1>3, <1>4, <1>5, <1>6

LEMMA DynamoSetsDeed ==
  ASSUME Inv, NEW c \in Clients, DynamoCancelRuns(c) \/ DynamoRetryRuns(c) \/ DynamoDueBatch(c)
  PROVE  Deed(c)
<1>1. CASE \E op \in {"cancelRuns", "retryRuns", "due"} : \E found : Scans(c, op, found)
    BY <1>1, ScansDeed DEF Wins
<1>2. ASSUME On(c, "cancelRuns", "each"), NEW r \in at[c].got, Visits(c, r, Over(db, r, "canceled"))
      PROVE  Deed(c)
  <2>1. todo[c] # <<>> /\ Call(c).op = "cancelRuns" BY <1>2, CalledOn
  <2>2. r \in Runs BY <1>2, GotAreRuns
  <2> QED BY <1>2, <2>1, <2>2, VisitsGo, OverEachDeed
<1>3. ASSUME On(c, "retryRuns", "each"), NEW r \in at[c].got, Visits(c, r, Reopened(db, {r} \cap Failed(db)))
      PROVE  Deed(c)
  <2> DEFINE R == {r} \cap Failed(db)
             d == Reopened(db, R)
  <2>1. todo[c] # <<>> /\ Call(c).op = "retryRuns" BY <1>3, CalledOn
  <2>2. R \in SUBSET Failed(db) OBVIOUS
  <2> HIDE DEF R
  <2>3. RowsMove(db, d, [q \in Runs |-> IF q \in R THEN Fresh ELSE db.row[q]])
      BY ReopenedPapers, TablesHaveColumns
  <2>4. GoesOn(c) /\ db' = d BY <1>3, <2>1, VisitsGo DEF R
  <2> QED BY <2>1, <2>2, <2>3, <2>4, ReopensDeed
<1>4. ASSUME On(c, "due", "each"), NEW r \in at[c].got,
             Visits(c, r, HandedOut(TimerGone(db, {r} \cap Set(db)), {r} \cap Set(db)))
      PROVE  Deed(c)
  <2>1. todo[c] # <<>> /\ Call(c).op = "due" /\ Call(c).op \notin Wins BY <1>4, CalledOn DEF Wins
  <2>2. Rests(db, HandedOut(TimerGone(db, {r} \cap Set(db)), {r} \cap Set(db))) BY HandedRests
  <2> QED BY <1>4, <2>1, <2>2, VisitsGo, RestsDeed DEF ReadsBack
<1> QED BY <1>1, <1>2, <1>3, <1>4 DEF DynamoCancelRuns, DynamoRetryRuns, DynamoDueBatch, DynamoMatching

LEMMA DynamoUpsertDeed == ASSUME Inv, NEW c \in Clients, DynamoUpsertCron(c) PROVE Deed(c)
<1>1. todo[c] # <<>> /\ Call(c).op = "upsertCron" BY DEF DynamoUpsertCron, Calls, On
<1>2. CASE \E x : Goes(c, db, x) BY <1>1, <1>2, GoesIdles, TablesHaveColumns DEF ReadsBack
<1>3. CASE \E k : Ends(c, [db EXCEPT !.cron = k], TRUE)
  <2>1. PICK k : Ends(c, [db EXCEPT !.cron = k], TRUE) BY <1>3
  <2>2. Keep(db, [db EXCEPT !.cron = k], Papers \ {"cron"}) BY CronsPapers, TablesHaveColumns
  <2>3. Keep(db, [db EXCEPT !.cron = k], Papers \ {"cron", "ripe"}) BY <2>2 DEF Keep
  <2> QED BY <1>1, <2>1, <2>3, RecronsDeed
<1> QED BY <1>2, <1>3 DEF DynamoUpsertCron

LEMMA DynamoDeed ==
  ASSUME Inv, NEW c \in Clients, host.backend = "dynamodb", DynamoNext(c)
  PROVE  Deed(c)
<1>1. CASE DynamoStartRun(c)
    BY <1>1, StartOrFindDeed DEF DynamoStartRun
<1>2. CASE DynamoStartManyRuns(c)
  <2>1. todo[c] # <<>> /\ Call(c).op = "startMany" BY <1>2, CalledOn DEF DynamoStartManyRuns, FindsHolder, Calls
  <2>2. CASE FindsHolder(c, "startMany") BY <2>2, FindsHolderDeed
  <2>3. CASE db.key = NoOne /\ Ends(c, StartedAs(db, c), c) BY <2>1, <2>3, StartedDeed
  <2>4. CASE \E pc : Writes(c, db, pc) BY <2>1, <2>4, WritesIdle DEF ReadsBack
  <2> QED BY <1>2, <2>2, <2>3, <2>4 DEF DynamoStartManyRuns
<1>3. CASE DynamoLoadRun(c)
    BY <1>3, LoadDeed DEF DynamoLoadRun
<1>4. CASE DynamoMarkRunning(c)
    BY <1>4, MarkOrLookDeed DEF DynamoMarkRunning
<1>5. CASE DynamoCheckpointStep(c)
    BY <1>5, DynamoCheckpointDeed
<1>6. CASE DynamoSuspendRun(c) \/ DynamoMarkTerminal(c)
    BY <1>6, SuspendDeed, FinishDeed DEF DynamoSuspendRun, DynamoMarkTerminal
<1>7. CASE DynamoArriveAtJoin(c)
    BY <1>7, ArriveDeed DEF DynamoArriveAtJoin
<1>8. CASE DynamoPostSignal(c)
    BY <1>8, SignalDeed DEF DynamoPostSignal
<1>9. CASE DynamoCancelRuns(c) \/ DynamoRetryRuns(c) \/ DynamoRetryRun(c) \/ DynamoDueBatch(c)
    BY <1>9, DynamoSetsDeed, RetryAtOnceDeed DEF DynamoRetryRun
<1>10. CASE DynamoDeleteRuns(c)
    BY <1>10, DeleteInPartsDeed DEF DynamoDeleteRuns
<1>11. CASE DynamoUpsertCron(c) \/ DynamoRemoveCron(c) \/ DynamoDueCrons(c) \/ DynamoAdvanceCron(c)
    BY <1>11, DynamoUpsertDeed, RemoveDeed, DueCronsDeed, AdvanceDeed DEF DynamoRemoveCron,
       DynamoDueCrons, DynamoAdvanceCron
<1>12. CASE DynamoEnqueue(c) \/ DynamoHeartbeat(c) \/ DynamoClaim(c)
    BY <1>12, EnqueueDeed, RenewDeed, ClaimThenLeaseDeed DEF DynamoEnqueue, DynamoHeartbeat, DynamoClaim
<1>13. CASE DynamoAck(c)
    BY <1>13, AckDeed DEF DynamoAck
<1>14. CASE DynamoSchedule(c) \/ DynamoCancelTimer(c)
    BY <1>14, TimersDeed DEF DynamoSchedule, DynamoCancelTimer
<1>15. CASE Refuses(c)
    BY <1>15, RefusesDeed
<1>16. CASE DynamoLoadRunRows(c) \/ DynamoChildrenOf(c) \/ DynamoRunStats(c) \/ DynamoOrphanedRuns(c)
            \/ DynamoListCrons(c) \/ DynamoDueCronCount(c) \/ DynamoDepth(c) \/ DynamoDueCount(c)
            \/ DynamoNextDueAt(c) \/ DynamoListRuns(c)
  <2>1. {"rows", "children", "stats", "orphans", "listCrons", "cronCount", "depth", "dueCount", "nextDue"} \subseteq ReadOps
      BY DEF ReadOps
  <2> QED BY <1>16, <2>1, LookingDeed, LooksInDeed, ListDeed DEF DynamoLoadRunRows, DynamoChildrenOf,
         DynamoRunStats, DynamoOrphanedRuns, DynamoListCrons, DynamoDueCronCount, DynamoDepth,
         DynamoDueCount, DynamoNextDueAt, DynamoListRuns, DynamoGathers
<1> QED BY <1>1, <1>2, <1>3, <1>4, <1>5, <1>6, <1>7, <1>8, <1>9, <1>10, <1>11, <1>12, <1>13, <1>14,
   <1>15, <1>16 DEF DynamoNext

(* A Redis server keeps sorted sets beside the rows, and a call is several commands. *)
LEMMA RedisQueuedRests ==
  ASSUME Inv, NEW d, DOMAIN d = Columns, NEW R, NEW S
  PROVE  Rests(d, RedisQueued(Enqueuing(d, R), S))
<1>1. Rests(d, Enqueuing(d, R)) BY EnqueuingRests
<1>2. DOMAIN Enqueuing(d, R) = Columns BY <1>1 DEF Rests, Keep
<1> QED BY <1>1, <1>2, JobsRest, RestsTwice

LEMMA RedisSignalDeed == ASSUME Inv, NEW c \in Clients, RedisPostSignal(c) PROVE Deed(c)
<1> DEFINE r == Call(c).run
<1>1. todo[c] # <<>> /\ Call(c).op = "signal" /\ Ends(c, RedisPosted(db, r), ~db.sent[r])
    BY DEF RedisPostSignal, Calls, On
<1>2. CASE db.sent[r]
  <2>1. Ends(c, db, ~db.sent[r]) BY <1>1, <1>2 DEF RedisPosted
  <2>2. (~db.sent[r]) = FALSE BY <1>2
  <2>3. Vain(c, FALSE) BY <1>1 DEF Vain
  <2> HIDE DEF r
  <2>4. Ends(c, db, FALSE) BY <2>1, <2>2, Zenon
  <2> QED BY <1>1, <2>3, <2>4, AnswerIdles
<1>3. CASE ~db.sent[r]
  <2> DEFINE d == RedisPosted(db, r)
             e == Delivered(db, r)
  <2>1. d = RedisQueued(Enqueuing(e, {r}), {r}) BY <1>3 DEF RedisPosted
  <2>2. DOMAIN e = Columns BY TablesHaveColumns, DeliveredPapers DEF Keep
  <2>3. Rests(e, d) BY <2>1, <2>2, RedisQueuedRests
  <2>4. (~db.sent[r]) = TRUE BY <1>3
  <2>5. Ends(c, d, ~db.sent[r]) BY <1>1
  <2> HIDE DEF d
  <2>6. Ends(c, d, TRUE) BY <2>4, <2>5, Zenon
  <2> QED BY <1>1, <1>3, <2>3, <2>6, DeliveredDeed
<1> QED BY <1>2, <1>3

LEMMA RedisRetriedRests ==
  ASSUME Inv, NEW r \in Failed(db)
  PROVE  Rests(Reopened(db, {r}), RedisRetried(db, r))
<1>1. DOMAIN Reopened(db, {r}) = Columns BY ReopenedPapers, TablesHaveColumns DEF RowsMove, Keep
<1> QED BY <1>1, JobsRest DEF RedisRetried

LEMMA RedisSetsDeed ==
  ASSUME Inv, NEW c \in Clients, RedisCancelRuns(c) \/ RedisRetryRuns(c) \/ RedisDeleteRuns(c)
  PROVE  Deed(c)
<1>1. CASE \E op \in {"cancelRuns", "retryRuns", "purge"} : \E found : Scans(c, op, found)
    BY <1>1, ScansDeed DEF Wins
<1>2. CASE \E op, pc : On(c, op, pc) /\ Throws(c) BY <1>2, CalledOn, ThrowsIdle
<1>3. ASSUME On(c, "cancelRuns", "each"), NEW r \in at[c].got, Visits(c, r, Over(db, r, "canceled"))
      PROVE  Deed(c)
  <2>1. todo[c] # <<>> /\ Call(c).op = "cancelRuns" BY <1>3, CalledOn
  <2>2. r \in Runs BY <1>3, GotAreRuns
  <2> QED BY <1>3, <2>1, <2>2, VisitsGo, OverEachDeed
<1>4. ASSUME On(c, "retryRuns", "each"), NEW r \in at[c].got, Visits(c, r, RedisRetried(db, r))
      PROVE  Deed(c)
  <2>1. todo[c] # <<>> /\ Call(c).op = "retryRuns" /\ Call(c).op \notin Wins BY <1>4, CalledOn DEF Wins
  <2>2. GoesOn(c) /\ db' = RedisRetried(db, r) BY <1>4, <2>1, VisitsGo
  <2>3. CASE r \in Failed(db)
    <3> DEFINE R == {r}
    <3>1. R \in SUBSET Failed(db) BY <2>3
    <3>2. Rests(Reopened(db, R), db') BY <2>2, <2>3, RedisRetriedRests
    <3> HIDE DEF R
    <3>3. RowsMove(db, Reopened(db, R), [q \in Runs |-> IF q \in R THEN Fresh ELSE db.row[q]])
        BY ReopenedPapers, TablesHaveColumns
    <3>4. RowsMove(db, db', [q \in Runs |-> IF q \in R THEN Fresh ELSE db.row[q]])
        BY <3>2, <3>3, RowsThenRest
    <3> QED BY <2>1, <2>2, <3>1, <3>4, ReopensDeed
  <2>4. CASE r \notin Failed(db)
    <3>1. db' = db BY <2>2, <2>4 DEF RedisRetried
    <3> QED BY <2>1, <2>2, <3>1, TablesHaveColumns, RestsDeed DEF ReadsBack
  <2> QED BY <2>3, <2>4
<1>5. ASSUME On(c, "purge", "each"), NEW r \in at[c].got, Visits(c, r, Erased(db, {r}))
      PROVE  Deed(c)
  <2>1. todo[c] # <<>> /\ Call(c).op = "purge" BY <1>5, CalledOn
  <2>2. GoesOn(c) /\ db' = Without(db, {r}, Parts) BY <1>5, <2>1, VisitsGo DEF Erased
  <2>3. {r} \subseteq at[c].got \cup Victims(c) BY <1>5
  <2> QED BY <2>1, <2>2, <2>3, ClearsDeed
<1> QED BY <1>1, <1>2, <1>3, <1>4, <1>5 DEF RedisCancelRuns, RedisRetryRuns, RedisDeleteRuns

LEMMA RedisRetryDeed == ASSUME Inv, NEW c \in Clients, RedisRetryRun(c) PROVE Deed(c)
<1> DEFINE r == Call(c).run
           d == RedisRetried(db, r)
           won == r \in Failed(db)
<1>1. todo[c] # <<>> /\ Call(c).op = "retry" BY DEF RedisRetryRun, Calls, On
<1>2. Throws(c) \/ Ends(c, d, won) BY DEF RedisRetryRun
<1>3. CASE Throws(c) BY <1>1, <1>3, ThrowsIdle
<1>4. CASE Ends(c, d, won) /\ won
  <2>1. won = TRUE BY <1>4
  <2>2. Rests(Reopened(db, {r}), d) BY <1>4, RedisRetriedRests
  <2> HIDE DEF d
  <2>3. Ends(c, d, TRUE) BY <1>4, <2>1
  <2> QED BY <1>1, <1>4, <2>2, <2>3, RetriedDeed
<1>5. CASE Ends(c, d, won) /\ ~won
  <2>1. won = FALSE BY <1>5
  <2>2. d = db BY <1>5 DEF RedisRetried
  <2>3. Vain(c, FALSE) BY <1>1 DEF Vain
  <2> HIDE DEF d
  <2>4. Ends(c, db, FALSE) BY <1>5, <2>1, <2>2
  <2> QED BY <1>1, <2>3, <2>4, AnswerIdles
<1> QED BY <1>2, <1>3, <1>4, <1>5

LEMMA RedisCronsDeed ==
  ASSUME Inv, NEW c \in Clients, host.backend = "redis",
         RedisUpsertCron(c) \/ RedisRemoveCron(c) \/ RedisDueCrons(c) \/ RedisAdvanceCron(c)
  PROVE  Deed(c)
<1>0. DOMAIN db = Columns BY TablesHaveColumns
<1>1. CASE RedisUpsertCron(c)
  <2> DEFINE spec == Call(c).arg
             kept == db.cron.schedule = spec.schedule /\ db.ripe # 0
             k == CronOf(db, spec)
             n == IF kept THEN db.ripe ELSE spec.next
             d == [db EXCEPT !.cron = k, !.ripe = n]
  <2>1. todo[c] # <<>> /\ Call(c).op = "upsertCron" BY <1>1 DEF RedisUpsertCron, Calls, On
  <2>2. Ends(c, d, TRUE) BY <1>1 DEF RedisUpsertCron, RedisUpserted
  <2> HIDE DEF k, n
  <2>3. Keep(db, d, Papers \ {"cron", "ripe"}) BY <1>0, Zenon DEF Keep, Papers, Columns
  <2> HIDE DEF d
  <2> QED BY <2>1, <2>2, <2>3, RecronsDeed
<1>2. CASE RedisRemoveCron(c)
  <2> DEFINE d == [db EXCEPT !.cron = NoCron]
             e == [db EXCEPT !.ripe = 0]
  <2>1. todo[c] # <<>> /\ Call(c).op = "removeCron" BY <1>2 DEF RedisRemoveCron, Calls, On
  <2>2. Writes(c, d, "score") \/ Ends(c, e, TRUE) BY <1>2 DEF RedisRemoveCron
  <2>3. /\ Keep(db, d, Papers \ {"cron"}) /\ d.cron = NoCron
        /\ Keep(db, e, Papers \ {"ripe"}) /\ e.ripe = 0
      BY <1>0, CronsPapers
  <2> HIDE DEF d, e
  <2>4. Keep(db, d, Papers \ {"cron", "ripe"}) /\ Keep(db, e, Papers \ {"cron", "ripe"})
        /\ d.ripe = db.ripe /\ e.cron = db.cron
      BY <2>3 DEF Keep, Papers
  <2>5. CASE Writes(c, d, "score")
    <3>1. Pauses(c) /\ db' = d BY <2>1, <2>5, GoesPauses DEF Writes
    <3>2. Recrons(c) BY <2>1, <2>3, <2>4, <3>1 DEF Recrons, GoesOn
    <3> QED BY <3>2 DEF Deed
  <2> QED BY <2>1, <2>2, <2>3, <2>4, <2>5, RecronsDeed
<1>3. CASE RedisDueCrons(c)
  <2>1. todo[c] # <<>> /\ Call(c).op = "dueCrons" BY <1>3 DEF RedisDueCrons, Calls, On
  <2>2. Vain(c, TRUE) BY <2>1, NothingToWin DEF Wins
  <2>3. CASE \E k : EndsWith(c, db, [at[c] EXCEPT !.cron = k], TRUE)
      BY <2>1, <2>2, <2>3, CronHand, EndsWithIdle, TablesHaveColumns
  <2>4. CASE Writes(c, db, "rows") BY <2>1, <2>4, WritesIdle DEF ReadsBack
  <2> QED BY <1>3, <2>3, <2>4 DEF RedisDueCrons
<1>4. CASE RedisAdvanceCron(c)
  <2> DEFINE n == at[c].cron.next
             d == RedisAdvanced(db, n)
             k == [db.cron EXCEPT !.next = n + 2]
             e == [db EXCEPT !.cron = k, !.ripe = n + 2]
             won == n # 0 /\ db.ripe = n /\ db.cron # NoCron
  <2>1. todo[c] # <<>> /\ Call(c).op = "advanceCron" BY <1>4 DEF RedisAdvanceCron, Calls, On
  <2>2. Ends(c, d, IF d # db THEN n ELSE 0) BY <1>4 DEF RedisAdvanceCron
  <2>3. CASE won
    <3>1. d = e BY <2>3 DEF RedisAdvanced
    <3>2. db.cron \in Crons /\ db.ripe \in Nat BY DEF Inv, Fits, CronFits
    <3>3. k # NoCron /\ n + 2 # n BY <2>3, <3>2 DEF Crons, NoCron
    <3> HIDE DEF k, d
    <3>4. PICK m : m = n + 2 OBVIOUS
    <3>5. e = [db EXCEPT !.cron = k, !.ripe = m] BY <3>4
    <3>6. Keep(db, e, Papers \ {"cron", "ripe"}) /\ e.cron = k /\ e.ripe = m
        BY <1>0, <3>5, Zenon DEF Keep, Papers, Columns
    <3> HIDE DEF e
    <3>7. d # db BY <2>3, <3>1, <3>3, <3>4, <3>6
    <3>8. Ends(c, e, n) BY <2>2, <3>1, <3>7
    <3>9. Says(c, n) /\ db' = e BY <2>1, <3>8, EndsSays
    <3>10. Recrons(c) BY <2>1, <2>3, <3>3, <3>4, <3>6, <3>9 DEF Recrons
    <3> QED BY <3>10 DEF Deed
  <2>4. CASE ~won
    <3>1. d = db BY <2>4 DEF RedisAdvanced
    <3>2. Ends(c, db, 0) BY <2>2, <3>1
    <3>3. Call(c).op \notin {"start", "startMany", "signal", "retry", "arrive"} BY <2>1
    <3>4. Vain(c, 0) BY <3>3 DEF Vain
    <3> QED BY <2>1, <3>2, <3>4, AnswerIdles
  <2> QED BY <2>3, <2>4
<1> QED BY <1>1, <1>2, <1>3, <1>4

LEMMA RedisListDeed == ASSUME Inv, NEW c \in Clients, RedisListRuns(c) PROVE Deed(c)
<1>1. todo[c] # <<>> /\ Call(c).op = "list" BY DEF RedisListRuns, Paging, Calls, On
<1>2. Call(c).op \in ReadOps BY <1>1 DEF ReadOps
<1>3. (\E a : Ends(c, db, a)) \/ \E x : Goes(c, db, x) BY DEF RedisListRuns, Reads
<1> QED BY <1>1, <1>2, <1>3, ReadsDeed

LEMMA RedisDeed ==
  ASSUME Inv, NEW c \in Clients, host.backend = "redis", RedisNext(c)
  PROVE  Deed(c)
<1>0. DOMAIN db = Columns BY TablesHaveColumns
<1>1. CASE RedisStartRun(c) \/ RedisStartManyRuns(c)
    BY <1>1, StartOrFindDeed DEF RedisStartRun, RedisStartManyRuns
<1>2. CASE RedisLoadRun(c)
    BY <1>2, LoadDeed DEF RedisLoadRun
<1>3. CASE RedisMarkRunning(c)
    BY <1>3, MarkAtOnceDeed DEF RedisMarkRunning
<1>4. CASE RedisCheckpointStep(c)
    BY <1>4, CheckpointAtOnceDeed DEF RedisCheckpointStep
<1>5. CASE RedisSuspendRun(c) \/ RedisMarkTerminal(c)
    BY <1>5, SuspendDeed, FinishDeed, ThrowsIdle, CalledOn DEF RedisSuspendRun, RedisMarkTerminal, Calls
<1>6. CASE RedisArriveAtJoin(c)
    BY <1>6, ArriveDeed DEF RedisArriveAtJoin
<1>7. CASE RedisPostSignal(c)
    BY <1>7, RedisSignalDeed
<1>8. CASE RedisCancelRuns(c) \/ RedisRetryRuns(c) \/ RedisRetryRun(c) \/ RedisDeleteRuns(c)
    BY <1>8, RedisSetsDeed, RedisRetryDeed
<1>9. CASE RedisUpsertCron(c) \/ RedisRemoveCron(c) \/ RedisDueCrons(c) \/ RedisAdvanceCron(c)
    BY <1>9, RedisCronsDeed
<1>10. CASE RedisEnqueue(c)
  <2>1. todo[c] # <<>> /\ Call(c).op \notin Wins BY <1>10 DEF RedisEnqueue, Calls, On, Wins
  <2> QED BY <1>0, <1>10, <2>1, RedisQueuedRests, QuietDeed DEF RedisEnqueue
<1>11. CASE RedisHeartbeat(c) \/ RedisClaim(c)
    BY <1>11, RenewDeed, ClaimOneOfDeed DEF RedisHeartbeat, RedisClaim
<1>12. CASE RedisAck(c)
  <2>1. todo[c] # <<>> /\ Call(c).op = "ack" BY <1>12, CalledOn DEF RedisAck, Calls
  <2>2. ASSUME NEW r, NEW e \in {Dequeued(db, r), LetGo(db, r)}
        PROVE  Rests(db, RedisQueued(e, {r})) /\ Rests(db, RedisUnqueued(e, {r}))
    <3>1. Rests(db, e) BY <1>0, <2>2, JobsRest
    <3>2. DOMAIN e = Columns BY <3>1 DEF Rests, Keep
    <3> QED BY <3>1, <3>2, JobsRest, RestsTwice
  <2>3. Rests(db, db) BY TablesHaveColumns
  <2>4. \E d : Rests(db, d) /\ LeaseDropped(c, d)
    <3> DEFINE r == at[c].run
               d == IF ~Held(c) THEN db
                    ELSE IF SameVersion(c) THEN RedisUnqueued(Dequeued(db, r), {r})
                    ELSE RedisQueued(LetGo(db, r), {r})
    <3>1. LeaseDropped(c, d) BY <1>12 DEF RedisAck
    <3>2. Rests(db, d) BY <2>2, <2>3
    <3> QED BY <3>1, <3>2
  <2> QED BY <2>1, <2>4, DroppedDeed
<1>13. CASE RedisSchedule(c) \/ RedisCancelTimer(c) \/ RedisDueBatch(c)
    BY <1>13, TimersDeed DEF RedisSchedule, RedisCancelTimer, RedisDueBatch
<1>14. CASE Refuses(c)
    BY <1>14, RefusesDeed
<1>15. CASE RedisDueCronCount(c)
  <2>1. todo[c] # <<>> /\ Call(c).op = "cronCount" BY <1>15 DEF RedisDueCronCount, Calls, On
  <2>2. Call(c).op \in ReadOps BY <2>1 DEF ReadOps
  <2>3. (\E a : Ends(c, db, a)) \/ \E x : Goes(c, db, x) BY <1>15 DEF RedisDueCronCount, Writes
  <2> QED BY <2>1, <2>2, <2>3, ReadsDeed
<1>16. CASE RedisLoadRunRows(c) \/ RedisChildrenOf(c) \/ RedisRunStats(c) \/ RedisOrphanedRuns(c)
            \/ RedisListCrons(c) \/ RedisDepth(c) \/ RedisDueCount(c) \/ RedisNextDueAt(c)
            \/ RedisListRuns(c)
  <2>1. {"rows", "children", "stats", "orphans", "listCrons", "depth", "dueCount", "nextDue"} \subseteq ReadOps
      BY DEF ReadOps
  <2> QED BY <1>16, <2>1, LookingDeed, LooksInDeed, RedisListDeed DEF RedisLoadRunRows,
         RedisChildrenOf, RedisRunStats, RedisOrphanedRuns, RedisListCrons, RedisDepth,
         RedisDueCount, RedisNextDueAt
<1> QED BY <1>1, <1>2, <1>3, <1>4, <1>5, <1>6, <1>7, <1>8, <1>9, <1>10, <1>11, <1>12, <1>13, <1>14,
   <1>15, <1>16 DEF RedisNext

(* Whatever backend it is. *)
Acts(c) ==
  \/ host.backend = "memory" /\ MemoryNext(c)
  \/ host.backend = "postgres" /\ PostgresNext(c)
  \/ host.backend = "mysql" /\ MySqlNext(c)
  \/ host.backend = "sqlite" /\ SqliteNext(c)
  \/ host.backend = "redis" /\ RedisNext(c)
  \/ host.backend = "mongodb" /\ MongoNext(c)
  \/ host.backend = "dynamodb" /\ DynamoNext(c)

LEMMA ActsAreDeeds == ASSUME Inv, NEW c \in Clients, Acts(c) PROVE Deed(c)
BY MemoryDeed, PostgresDeed, MySqlDeed, SqliteDeed, RedisDeed, MongoDeed, DynamoDeed DEF Acts

-----------------------------------------------------------------------------
(* What a client was told is a list, that grows by the answers to its calls. *)
Listed(s) == s \in Seq({s[i] : i \in DOMAIN s})
ToldListed == DOMAIN told = Clients /\ \A c \in Clients : Listed(told[c])

LEMMA Appended ==
  ASSUME NEW s, Listed(s), NEW e
  PROVE  LET t == Append(s, e)
         IN  /\ Listed(t) /\ Len(s) \in Nat /\ DOMAIN s = 1..Len(s) /\ DOMAIN t = 1..Len(s) + 1
             /\ t[Len(s) + 1] = e /\ \A i \in 1..Len(s) : t[i] = s[i]
<1> DEFINE S == {s[i] : i \in DOMAIN s} \cup {e}
           t == Append(s, e)
<1>1. s \in Seq({s[i] : i \in DOMAIN s}) BY DEF Listed
<1>2. s \in Seq(S) /\ e \in S /\ Len(s) \in Nat /\ DOMAIN s = 1..Len(s)
  <2> DEFINE R == {s[i] : i \in DOMAIN s}
  <2>1. s \in Seq(R) BY <1>1
  <2>2. R \subseteq S OBVIOUS
  <2>3. e \in S OBVIOUS
  <2> HIDE DEF R, S
  <2> QED BY <2>1, <2>2, <2>3
<1> HIDE DEF S
<1>3. t \in Seq(S) /\ Len(t) = Len(s) + 1 /\ t[Len(s) + 1] = e /\ \A i \in 1..Len(s) : t[i] = s[i]
    BY <1>2
<1>4. DOMAIN t = 1..Len(s) + 1 BY <1>3
<1> HIDE DEF t
<1>5. t \in Seq({t[i] : i \in DOMAIN t})
  <2> DEFINE R == {t[i] : i \in DOMAIN t}
  <2>1. \A i \in DOMAIN t : t[i] \in R OBVIOUS
  <2> HIDE DEF R
  <2>2. t = [i \in 1..Len(t) |-> t[i]] /\ Len(t) \in Nat BY <1>2, <1>3
  <2>3. t \in Seq(R) BY <1>2, <1>3, <1>4, <2>1, <2>2
  <2> QED BY <2>3 DEF R
<1> QED BY <1>2, <1>3, <1>4, <1>5 DEF Listed, t

LEMMA SaysTells ==
  ASSUME ToldListed, NEW c \in Clients, NEW a, Says(c, a)
  PROVE  \E x :
           /\ ToldListed'
           /\ \A op : Answers(op)' = Answers(op) \cup {y \in {x} : Call(c).op = op}
           /\ \A op : x \notin Answers(op)
           /\ \A op : \A y \in Answers(op) : Said(y)' = Said(y) /\ About(y)' = About(y)
           /\ Said(x)' = a /\ About(x)' = Call(c).run
<1> DEFINE n == Len(told[c]) + 1
           e == [op |-> Call(c).op, run |-> Call(c).run, answer |-> a]
<1>1. told' = [told EXCEPT ![c] = Append(told[c], e)] /\ DOMAIN told = Clients BY DEF Says, ToldListed
<1>2. PICK t : t = Append(told[c], e) OBVIOUS
<1>3. /\ Listed(t) /\ Len(told[c]) \in Nat /\ DOMAIN told[c] = 1..Len(told[c]) /\ DOMAIN t = 1..n
      /\ t[n] = e /\ \A i \in 1..Len(told[c]) : t[i] = told[c][i]
    BY <1>2, Appended DEF ToldListed
<1>4. \A b \in Clients : told'[b] = IF b = c THEN t ELSE told[b] BY <1>1, <1>2
<1>5. ToldListed' BY <1>1, <1>3, <1>4 DEF ToldListed
<1>6. PICK m : m = n OBVIOUS
<1>7. DOMAIN t = DOMAIN told[c] \cup {m} /\ m \notin DOMAIN told[c] /\ t[m] = e
    BY <1>3, <1>6
<1>8. \A i \in DOMAIN told[c] : t[i] = told[c][i] BY <1>3
<1>9. PICK z : z = <<c, m>> OBVIOUS
<1>10. ASSUME NEW op
       PROVE  /\ Answers(op)' = Answers(op) \cup {y \in {z} : Call(c).op = op}
              /\ z \notin Answers(op)
              /\ \A y \in Answers(op) : Said(y)' = Said(y) /\ About(y)' = About(y)
  <2> DEFINE Spots == UNION {{<<b, i>> : i \in DOMAIN told[b]} : b \in Clients}
             Spots1 == UNION {{<<b, i>> : i \in DOMAIN told'[b]} : b \in Clients}
  <2>1. \A b \in Clients : \A i : <<b, i>> \in Spots <=> i \in DOMAIN told[b] OBVIOUS
  <2>2. \A y : y \in Spots <=> \E b \in Clients : \E i : y = <<b, i>> /\ i \in DOMAIN told[b] OBVIOUS
  <2>3. \A y : y \in Spots1 <=> \E b \in Clients : \E i : y = <<b, i>> /\ i \in DOMAIN told'[b] OBVIOUS
  <2>4. Answers(op) = {y \in Spots : told[y[1]][y[2]].op = op} BY DEF Answers
  <2>5. Answers(op)' = {y \in Spots1 : told'[y[1]][y[2]].op = op} BY DEF Answers
  <2> HIDE DEF Spots, Spots1
  <2>6. z \notin Spots BY <1>7, <1>9, <2>1
  <2>7. Spots1 = Spots \cup {z} BY <1>4, <1>7, <1>9, <2>2, <2>3
  <2>8. \A y \in Spots : told'[y[1]][y[2]] = told[y[1]][y[2]] BY <1>4, <1>8, <2>2
  <2>9. told'[z[1]][z[2]] = e BY <1>4, <1>7, <1>9
  <2>10. e.op = Call(c).op OBVIOUS
  <2> HIDE DEF e
  <2>11. Answers(op)' = Answers(op) \cup {y \in {z} : Call(c).op = op}
      BY <2>4, <2>5, <2>7, <2>8, <2>9, <2>10
  <2>12. \A y \in Answers(op) : Said(y)' = Said(y) /\ About(y)' = About(y)
      BY <2>4, <2>8 DEF Said, About
  <2> QED BY <2>4, <2>6, <2>11, <2>12
<1>11. Said(z)' = a /\ About(z)' = Call(c).run
  <2>1. told'[z[1]][z[2]] = e BY <1>4, <1>7, <1>9
  <2> QED BY <2>1 DEF Said, About
<1> QED BY <1>5, <1>10, <1>11

LEMMA TellsNothing ==
  ASSUME ToldListed, told' = told
  PROVE  /\ ToldListed' /\ \A op : Answers(op)' = Answers(op)
         /\ \A y : Said(y)' = Said(y) /\ About(y)' = About(y)
BY DEF ToldListed, Answers, Said, About

-----------------------------------------------------------------------------
(* What is left of the clients' programs *)

(* At most one of the calls that are left is of Q, or none is. *)
OneLeft(programs, Q) ==
  \A b, c \in Clients : \A i \in 1..Len(programs[b]), j \in 1..Len(programs[c]) :
    programs[b][i] \in Q /\ programs[c][j] \in Q => b = c /\ i = j
NoneLeft(programs, Q) == \A c \in Clients : \A i \in 1..Len(programs[c]) : programs[c][i] \notin Q

(* The calls that are left: the same ones, or without the first of c, or without c's. *)
LEMMA ShorterTail ==
  ASSUME NEW S, NEW s \in Seq(S), s # <<>>
  PROVE  /\ Len(Tail(s)) = Len(s) - 1 /\ Len(s) \in Nat /\ Len(s) >= 1 /\ Head(s) = s[1]
         /\ \A i \in 1..Len(Tail(s)) : i + 1 \in 1..Len(s) /\ Tail(s)[i] = s[i + 1]
<1>1. Len(s) \in Nat /\ Len(s) >= 1 /\ Tail(s) \in Seq(S) /\ Len(Tail(s)) = Len(s) - 1 OBVIOUS
<1>2. Head(s) = s[1] OBVIOUS
<1>3. ASSUME NEW i \in 1..Len(Tail(s)) PROVE i + 1 \in 1..Len(s) /\ Tail(s)[i] = s[i + 1] BY <1>1
<1> QED BY <1>1, <1>2, <1>3

LEMMA FewerLeft ==
  ASSUME NEW f \in [Clients -> Seq(Requests)], NEW c \in Clients, NEW g, NEW Q,
         g = f \/ (f[c] # <<>> /\ (g = [f EXCEPT ![c] = Tail(@)] \/ g = [f EXCEPT ![c] = <<>>]))
  PROVE  /\ OneLeft(f, Q) => OneLeft(g, Q)
         /\ NoneLeft(f, Q) => NoneLeft(g, Q)
         /\ f[c] # <<>> /\ OneLeft(f, Q) /\ Head(f[c]) \in Q /\ g # f => NoneLeft(g, Q)
         /\ f[c] # <<>> /\ NoneLeft(f, Q) => Head(f[c]) \notin Q
<1>1. CASE f[c] = <<>> BY <1>1
<1>2. CASE f[c] # <<>>
  <2>1. DOMAIN f = Clients /\ f[c] \in Seq(Requests) OBVIOUS
  <2>2. /\ Len(Tail(f[c])) = Len(f[c]) - 1 /\ Len(f[c]) \in Nat /\ Len(f[c]) >= 1
        /\ Head(f[c]) = f[c][1] /\ 1 \in 1..Len(f[c])
        /\ \A i \in 1..Len(Tail(f[c])) : i + 1 \in 1..Len(f[c]) /\ Tail(f[c])[i] = f[c][i + 1]
      BY <1>2, <2>1, ShorterTail
  <2>3. NoneLeft(f, Q) => Head(f[c]) \notin Q BY <2>2 DEF NoneLeft
  <2>4. CASE g = f BY <2>3, <2>4
  <2>5. CASE g # f
    <3>1. PICK t : g = [f EXCEPT ![c] = t] /\ (t = Tail(f[c]) \/ t = <<>>)
        BY <2>5
    <3>2. \A b \in Clients : g[b] = IF b = c THEN t ELSE f[b]
      <4>1. g = [f EXCEPT ![c] = t] /\ DOMAIN f = Clients BY <2>1, <3>1
      <4> QED BY <4>1
    <3>3. \A i \in 1..Len(t) : i + 1 \in 1..Len(f[c]) /\ t[i] = f[c][i + 1] /\ i \in Nat
      <4>1. CASE t = <<>>
        <5>1. Len(t) = 0 BY <4>1
        <5> QED BY <5>1
      <4>2. CASE t = Tail(f[c]) BY <2>2, <4>2
      <4> QED BY <3>1, <4>1, <4>2
    <3>4. \A i \in 1..Len(t) : i + 1 # 1 BY <3>3
    <3>5. \A i, j \in 1..Len(t) : i + 1 = j + 1 => i = j BY <3>3
    <3>6. NoneLeft(f, Q) => NoneLeft(g, Q) BY <3>2, <3>3 DEF NoneLeft
    <3>7. OneLeft(f, Q) => OneLeft(g, Q)
      <4> SUFFICES ASSUME OneLeft(f, Q), NEW a \in Clients, NEW b \in Clients,
                          NEW i \in 1..Len(g[a]), NEW j \in 1..Len(g[b]),
                          g[a][i] \in Q, g[b][j] \in Q
                   PROVE  a = b /\ i = j
          BY DEF OneLeft
      <4>1. CASE a = c /\ b = c
        <5>1. i \in 1..Len(t) /\ j \in 1..Len(t) BY <3>2, <4>1
        <5>2. /\ i + 1 \in 1..Len(f[c]) /\ f[c][i + 1] \in Q
              /\ j + 1 \in 1..Len(f[c]) /\ f[c][j + 1] \in Q
            BY <3>2, <3>3, <4>1, <5>1
        <5>3. i + 1 = j + 1 BY <5>2 DEF OneLeft
        <5> QED BY <3>5, <4>1, <5>1, <5>3
      <4>2. CASE a = c /\ b # c
        <5>1. i + 1 \in 1..Len(f[c]) /\ f[c][i + 1] \in Q BY <3>2, <3>3, <4>2
        <5>2. j \in 1..Len(f[b]) /\ f[b][j] \in Q BY <3>2, <4>2
        <5> QED BY <4>2, <5>1, <5>2 DEF OneLeft
      <4>3. CASE a # c /\ b = c
        <5>1. j + 1 \in 1..Len(f[c]) /\ f[c][j + 1] \in Q BY <3>2, <3>3, <4>3
        <5>2. i \in 1..Len(f[a]) /\ f[a][i] \in Q BY <3>2, <4>3
        <5> QED BY <4>3, <5>1, <5>2 DEF OneLeft
      <4>4. CASE a # c /\ b # c BY <3>2, <4>4 DEF OneLeft
      <4> QED BY <4>1, <4>2, <4>3, <4>4
    <3>8. OneLeft(f, Q) /\ Head(f[c]) \in Q => NoneLeft(g, Q)
      <4> SUFFICES ASSUME OneLeft(f, Q), Head(f[c]) \in Q, NEW b \in Clients, NEW i \in 1..Len(g[b]),
                          g[b][i] \in Q
                   PROVE  FALSE
          BY DEF NoneLeft
      <4>1. CASE b = c
        <5>1. i \in 1..Len(t) BY <3>2, <4>1
        <5>2. i + 1 = 1 BY <2>2, <3>2, <3>3, <4>1, <5>1 DEF OneLeft
        <5> QED BY <3>4, <5>1, <5>2
      <4>2. CASE b # c BY <2>2, <3>2, <4>2 DEF OneLeft
      <4> QED BY <4>1, <4>2
    <3> QED BY <2>3, <3>6, <3>7, <3>8
  <2> QED BY <2>4, <2>5
<1> QED BY <1>1, <1>2

-----------------------------------------------------------------------------
(* Every step is a deed of a client, or time that goes by. *)

Passing ==
  /\ Rests(db, db') /\ todo' = todo /\ told' = told /\ host.backend' = host.backend
  /\ \A c \in Clients : /\ at'[c].pc = at[c].pc /\ at'[c].got = at[c].got /\ at'[c].out = at[c].out
                        /\ at'[c].looks = at[c].looks /\ at'[c].page = at[c].page
                        /\ at'[c].cursor = at[c].cursor

LEMMA StepsAreDeeds ==
  ASSUME Inv, [Next]_vars
  PROVE  Passing \/ \E c \in Clients : Acts(c) /\ Deed(c)
<1>1. CASE UNCHANGED vars
  <2>1. db' = db /\ todo' = todo /\ told' = told /\ host' = host /\ at' = at BY <1>1 DEF vars
  <2> QED BY <2>1, TablesHaveColumns DEF Passing
<1>2. ASSUME NEW r \in Runs, Ripen(r) PROVE Passing
  <2> DEFINE e == [db EXCEPT !.timer[r] = "due"]
  <2>1. db' = e /\ todo' = todo /\ told' = told /\ host' = host /\ at' = at BY <1>2 DEF Ripen
  <2>2. DOMAIN db = Columns BY TablesHaveColumns
  <2>3. Rests(db, e) BY <2>2, Zenon DEF Rests, Keep, Papers, Columns
  <2> HIDE DEF e
  <2> QED BY <2>1, <2>3 DEF Passing
<1>3. ASSUME NEW c \in Clients, Lapse(c) PROVE Passing
  <2> DEFINE ours == db.job[at[c].run].token = at[c].lease.token
             e == [db EXCEPT !.job[at[c].run].expires = IF ours THEN 0 ELSE @]
             x == [at[c] EXCEPT !.lease.expires = 0]
  <2>1. db' = e /\ todo' = todo /\ told' = told BY <1>3 DEF Lapse
  <2>2. DOMAIN db = Columns BY TablesHaveColumns
  <2>3. Rests(db, e) BY <2>2, Zenon DEF Rests, Keep, Papers, Columns
  <2>4. host' = [host EXCEPT !.lapse = FALSE] /\ DOMAIN host = {"backend", "lapse"} BY <1>3 DEF Lapse, Inv
  <2>5. at' = [at EXCEPT ![c] = x] /\ DOMAIN at = Clients /\ DOMAIN at[c] = Fields
      BY <1>3 DEF Lapse, Inv, Hand
  <2>6. /\ x.pc = at[c].pc /\ x.got = at[c].got /\ x.out = at[c].out
        /\ x.looks = at[c].looks /\ x.page = at[c].page /\ x.cursor = at[c].cursor
      BY <2>5, Zenon DEF Fields
  <2> HIDE DEF e, x
  <2>7. \A b \in Clients : at'[b] = IF b = c THEN x ELSE at[b] BY <2>5
  <2> QED BY <2>1, <2>3, <2>4, <2>6, <2>7 DEF Passing
<1>4. ASSUME NEW c \in Clients, Acts(c) PROVE Acts(c) /\ Deed(c) BY <1>4, ActsAreDeeds
<1>5. Moves <=> (\E r \in Runs : Ripen(r)) \/ (\E c \in Clients : Lapse(c)) \/ (\E c \in Clients : Acts(c))
    BY DEF Moves, Acts
<1>6. CASE Moves BY <1>2, <1>3, <1>4, <1>5, <1>6
<1> QED BY <1>1, <1>6 DEF Next

(* The end of a deed: the call goes on, the client gives up, or it has its answer. *)
LEMMA DeedsEnd ==
  ASSUME Inv, NEW c \in Clients, Deed(c)
  PROVE  /\ Alone(c) /\ todo[c] # <<>> /\ host' = host
         /\ todo' = todo \/ todo' = [todo EXCEPT ![c] = Tail(@)] \/ todo' = [todo EXCEPT ![c] = <<>>]
         /\ told' = told \/ \E a : Says(c, a)
<1>1. Pauses(c) \/ Quits(c) \/ \E a : Says(c, a)
    BY DEF Deed, Idles, Starts, Commits, Rewrites, Reopens, Arrives, Delivers, Clears, Recrons, GoesOn
<1> QED BY <1>1 DEF Pauses, Quits, Says, Alone

(* What a program asks for is what its case says. *)
LEMMA CalledIsOfCase == ASSUME Inv, NEW c \in Clients, todo[c] # <<>> PROVE Call(c) \in Requests
BY CalledRequest

LEMMA NobodyPurges ==
  ASSUME Inv, ~Purges, NEW c \in Clients, todo[c] # <<>>
  PROVE  Call(c).op # "purge"
BY CalledIsOfCase DEF Purges

LEMMA ToldAtFirst == Init => ToldListed /\ \A op : Answers(op) = {}
<1> SUFFICES ASSUME Init PROVE ToldListed /\ \A op : Answers(op) = {}
    OBVIOUS
<1>1. told = [c \in Clients |-> <<>>] BY DEF Init
<1>2. \A c \in Clients : told[c] = <<>> /\ DOMAIN told[c] = {} BY <1>1
<1>3. ToldListed BY <1>1, <1>2 DEF ToldListed, Listed
<1>4. UNION {{<<c, i>> : i \in DOMAIN told[c]} : c \in Clients} = {} BY <1>2
<1> QED BY <1>3, <1>4 DEF Answers

LEMMA ToldKept == Inv /\ ToldListed /\ [Next]_vars => ToldListed'
BY StepsAreDeeds, DeedsEnd, SaysTells, TellsNothing DEF Passing

(* Who calls something else is told nothing of it. *)
LEMMA Untold ==
  ASSUME Inv, ToldListed, NEW c \in Clients, Deed(c), NEW op, Call(c).op # op \/ told' = told
  PROVE  Answers(op)' = Answers(op) /\ \A y \in Answers(op) : Said(y)' = Said(y) /\ About(y)' = About(y)
<1>1. CASE told' = told BY <1>1, TellsNothing
<1>2. CASE told' # told
  <2>1. PICK a : Says(c, a) BY <1>2, DeedsEnd
  <2>2. PICK x : /\ \A p : Answers(p)' = Answers(p) \cup {y \in {x} : Call(c).op = p}
                 /\ \A p : \A y \in Answers(p) : Said(y)' = Said(y) /\ About(y)' = About(y)
      BY <2>1, SaysTells
  <2>3. Call(c).op # op BY <1>2
  <2> QED BY <2>2, <2>3
<1> QED BY <1>1, <1>2

-----------------------------------------------------------------------------
(* One start creates the run, and all are told of it. *)

Started == Answers("start") \cup Answers("startMany")
OneKey == (db.key = NoOne => Started = {}) /\ \A x \in Started : Said(x) = db.key

LEMMA KeyKept ==
  ASSUME ~Purges, Inv, ToldListed, OneKey, [Next]_vars
  PROVE  OneKey'
<1>1. CASE Passing
  <2>1. db'.key = db.key BY <1>1, KeptByName DEF Passing
  <2>2. told' = told BY <1>1 DEF Passing
  <2> QED BY <2>1, <2>2, TellsNothing DEF OneKey, Started
<1>2. ASSUME NEW c \in Clients, Deed(c) PROVE OneKey'
  <2>1. todo[c] # <<>> /\ Call(c).op # "purge" BY <1>2, DeedsEnd, NobodyPurges
  <2>2. CASE Starts(c)
    <3>1. db.key = NoOne /\ db'.key = c /\ Says(c, c) BY <2>2 DEF Starts
    <3>2. PICK x : /\ \A op : Answers(op)' = Answers(op) \cup {y \in {x} : Call(c).op = op}
                   /\ Said(x)' = c
        BY <3>1, SaysTells
    <3>3. \A y \in Started' : y = x BY <3>1, <3>2 DEF OneKey, Started
    <3>4. c # NoOne BY ClientsAreNumbers DEF NoOne
    <3> QED BY <3>1, <3>2, <3>3, <3>4 DEF OneKey
  <2>3. CASE Idles(c) /\ told' # told
    <3>1. db'.key = db.key BY <2>3, KeptByName DEF Idles
    <3>2. PICK a : Says(c, a) /\ Vain(c, a) BY <2>3 DEF Idles, Pauses, Quits
    <3>3. PICK x : /\ \A op : Answers(op)' = Answers(op) \cup {y \in {x} : Call(c).op = op}
                   /\ \A op : \A y \in Answers(op) : Said(y)' = Said(y)
                   /\ Said(x)' = a
        BY <3>2, SaysTells
    <3>4. CASE Call(c).op \in {"start", "startMany"}
      <4>1. a = db.key /\ a \in Runs BY <3>2, <3>4 DEF Vain
      <4>2. db.key # NoOne BY <4>1, ClientsAreNumbers DEF NoOne, Runs
      <4>3. \A y \in Started' : y = x \/ y \in Started BY <3>3 DEF Started
      <4>4. \A y \in Started : Said(y)' = Said(y) BY <3>3 DEF Started
      <4> QED BY <3>1, <3>3, <4>1, <4>2, <4>3, <4>4 DEF OneKey
    <3>5. CASE Call(c).op \notin {"start", "startMany"}
      <4>1. Started' = Started /\ \A y \in Started : Said(y)' = Said(y) BY <3>3, <3>5 DEF Started
      <4> QED BY <3>1, <4>1 DEF OneKey
    <3> QED BY <3>4, <3>5
  <2>4. CASE ~Starts(c) /\ ~(Idles(c) /\ told' # told)
    <3>1. db'.key = db.key
        BY <1>2, <2>1, <2>4, KeptByName DEF Deed, Idles, Commits, CommitOf, Rewrites, Reopens, Arrives,
           Delivers, Clears, Recrons, Keep, Papers
    <3>2. Call(c).op \notin {"start", "startMany"} \/ told' = told
        BY <1>2, <2>1, <2>4 DEF Deed, Commits, Rewrites, Reopens, Arrives, Delivers, Clears, Recrons
    <3>3. Started' = Started /\ \A y \in Started : Said(y)' = Said(y)
        BY <1>2, <3>2, Untold DEF Started
    <3> QED BY <3>1, <3>3 DEF OneKey
  <2> QED BY <2>2, <2>3, <2>4
<1> QED BY <1>1, <1>2, StepsAreDeeds

-----------------------------------------------------------------------------
(* A signal is delivered once. *)

(* There is one call of op that won, of each run, and then that run is of Settled. *)
OneOfEach(op, Settled) ==
  /\ \A x \in Answers(op) : Said(x) => About(x) \in Settled
  /\ \A x, y \in Answers(op) : Said(x) /\ Said(y) /\ About(x) = About(y) => x = y

SentRuns == {r \in Runs : db.sent[r]}
SentOnce == db.sent \in [Runs -> BOOLEAN] /\ OneOfEach("signal", SentRuns)

LEMMA SentKept ==
  ASSUME ~Purges, Inv, ToldListed, SentOnce, [Next]_vars
  PROVE  SentOnce'
<1>1. CASE Passing
  <2>1. db'.sent = db.sent BY <1>1, KeptByName DEF Passing
  <2>2. told' = told BY <1>1 DEF Passing
  <2> QED BY <2>1, <2>2, TellsNothing DEF SentOnce, OneOfEach, SentRuns
<1>2. ASSUME NEW c \in Clients, Deed(c) PROVE SentOnce'
  <2>1. todo[c] # <<>> /\ Call(c).op # "purge" BY <1>2, DeedsEnd, NobodyPurges
  <2>2. CASE Delivers(c)
    <3> DEFINE r == Call(c).run
    <3>1. r \in Runs BY <2>1, CalledRequest
    <3>2. /\ Call(c).op = "signal" /\ ~db.sent[r] /\ db'.sent = [db.sent EXCEPT ![r] = TRUE] /\ Says(c, TRUE)
        BY <2>2 DEF Delivers
    <3>3. PICK x : /\ \A op : Answers(op)' = Answers(op) \cup {y \in {x} : Call(c).op = op}
                   /\ \A op : \A y \in Answers(op) : Said(y)' = Said(y) /\ About(y)' = About(y)
                   /\ About(x)' = r
        BY <3>2, SaysTells
    <3>4. PICK q \in Runs : q = r BY <3>1
    <3> HIDE DEF r
    <3>5. /\ q \notin SentRuns /\ SentRuns' = SentRuns \cup {q} /\ db'.sent \in [Runs -> BOOLEAN]
        BY <3>2, <3>4 DEF SentOnce, SentRuns
    <3>6. Answers("signal")' = Answers("signal") \cup {x} BY <3>2, <3>3
    <3>7. \A y \in Answers("signal") : Said(y) => About(y) # q BY <3>5 DEF SentOnce, OneOfEach
    <3>8. OneOfEach("signal", SentRuns)' BY <3>3, <3>4, <3>5, <3>6, <3>7 DEF SentOnce, OneOfEach
    <3> QED BY <3>5, <3>8 DEF SentOnce
  <2>3. CASE Idles(c) /\ told' # told
    <3>1. db'.sent = db.sent BY <2>3, KeptByName DEF Idles
    <3>2. PICK a : Says(c, a) /\ Vain(c, a) BY <2>3 DEF Idles, Pauses, Quits
    <3>3. PICK x : /\ \A op : Answers(op)' = Answers(op) \cup {y \in {x} : Call(c).op = op}
                   /\ \A op : \A y \in Answers(op) : Said(y)' = Said(y) /\ About(y)' = About(y)
                   /\ Said(x)' = a
        BY <3>2, SaysTells
    <3>4. SentRuns' = SentRuns BY <3>1 DEF SentRuns
    <3>5. x \in Answers("signal")' /\ x \notin Answers("signal") => Said(x)' = FALSE BY <3>2, <3>3 DEF Vain
    <3>6. OneOfEach("signal", SentRuns)' BY <3>3, <3>4, <3>5 DEF SentOnce, OneOfEach
    <3> QED BY <3>1, <3>6 DEF SentOnce
  <2>4. CASE ~Delivers(c) /\ ~(Idles(c) /\ told' # told)
    <3>1. db'.sent = db.sent
        BY <1>2, <2>1, <2>4, KeptByName DEF Deed, Idles, Starts, Commits, CommitOf, Rewrites, Reopens, Arrives,
           Clears, Recrons, Keep, Papers
    <3>2. Call(c).op # "signal" \/ told' = told
        BY <1>2, <2>1, <2>4 DEF Deed, Starts, Commits, Rewrites, Reopens, Arrives, Clears, Recrons
    <3>3. /\ Answers("signal")' = Answers("signal")
          /\ \A y \in Answers("signal") : Said(y)' = Said(y) /\ About(y)' = About(y)
        BY <1>2, <3>2, Untold
    <3> QED BY <3>1, <3>3 DEF SentOnce, OneOfEach, SentRuns
  <2> QED BY <2>2, <2>3, <2>4
<1> QED BY <1>1, <1>2, StepsAreDeeds

-----------------------------------------------------------------------------
(* A failure is retried once, where each run can fail once. *)

(* The calls that fail a run. *)
Failing(r) == {q \in Requests : q.op = "finish" /\ q.run = r /\ q.arg = "failed"}

(* In every case, at most one call fails a run, and none a run that has failed. *)
FailsOnce ==
  \A k \in Cases, r \in Runs :
    /\ OneLeft(k.calls, Failing(r))
    /\ k.tables.row[r].status = "failed" => NoneLeft(k.calls, Failing(r))

FailedForGood == \A r \in Failed(db) : NoneLeft(todo, Failing(r))
NoMoreFailures == {r \in Runs : r \notin Failed(db) /\ NoneLeft(todo, Failing(r))}
RetriedOnce ==
  /\ \A r \in Runs : OneLeft(todo, Failing(r))
  /\ FailedForGood
  /\ OneOfEach("retry", NoMoreFailures)

LEMMA FailsByFinish ==
  ASSUME Inv, NEW c \in Clients, Deed(c), NEW r \in Failed(db)', r \notin Failed(db)
  PROVE  Call(c) \in Failing(r) /\ todo' # todo
<1>1. r \in Runs /\ db'.row[r].status = "failed" /\ db.row[r].status # "failed" BY DEF Failed
<1>2. /\ db'.row[r] # db.row[r] /\ db'.row[r] # Fresh /\ db'.row[r] # NoRun
    BY <1>1 DEF Fresh, NoRun
<1>3. todo[c] # <<>> /\ Call(c) \in Requests BY DeedsEnd, CalledIsOfCase
<1>4. ~Idles(c) BY <1>2, KeptByName DEF Idles
<1>5. ~Starts(c) BY <1>1, <1>2 DEF Starts
<1>6. ~Commits(c) BY <1>1, <1>2, ClientsAreNumbers DEF Commits, CommitOf
<1>7. ~Reopens(c) BY <1>1, <1>2 DEF Reopens
<1>8. ~Arrives(c) /\ ~Delivers(c) /\ ~Recrons(c)
    BY <1>2 DEF Arrives, Delivers, Recrons, Keep, Papers
<1>9. ~Clears(c) BY <1>1, <1>2 DEF Clears, Cleared
<1>10. Rewrites(c) BY <1>4, <1>5, <1>6, <1>7, <1>8, <1>9 DEF Deed
<1>11. Changes(c, r) BY <1>1, <1>2, <1>10 DEF Rewrites
<1>12. PICK a : Says(c, a) /\ Call(c).op = "finish" /\ Call(c).run = r /\ Call(c).arg = "failed"
    BY <1>1, <1>11 DEF Changes
<1>13. DOMAIN todo = Clients /\ todo[c] \in Seq(Requests) BY DEF Inv
<1>14. Len(Tail(todo[c])) # Len(todo[c]) BY <1>3, <1>13, ShorterTail
<1>15. todo'[c] = Tail(todo[c]) BY <1>12, <1>13 DEF Says
<1> QED BY <1>3, <1>12, <1>14, <1>15 DEF Failing

LEMMA RetriedKept ==
  ASSUME Inv, ToldListed, RetriedOnce, [Next]_vars
  PROVE  RetriedOnce'
<1>1. CASE Passing
  <2>1. db'.row = db.row /\ todo' = todo BY <1>1, KeptByName DEF Passing
  <2>2. told' = told BY <1>1 DEF Passing
  <2>3. Failed(db)' = Failed(db) BY <2>1 DEF Failed
  <2>4. NoMoreFailures' = NoMoreFailures BY <2>1, <2>3 DEF NoMoreFailures, NoneLeft
  <2> QED BY <2>1, <2>2, <2>3, <2>4, TellsNothing DEF RetriedOnce, FailedForGood, OneOfEach, OneLeft, NoneLeft
<1>2. ASSUME NEW c \in Clients, Deed(c) PROVE RetriedOnce'
  <2>1. /\ todo[c] # <<>> /\ Call(c) \in Requests
        /\ todo' = todo \/ todo' = [todo EXCEPT ![c] = Tail(@)] \/ todo' = [todo EXCEPT ![c] = <<>>]
      BY <1>2, DeedsEnd, CalledIsOfCase
  <2>2. ASSUME NEW r \in Runs
        PROVE  /\ OneLeft(todo', Failing(r))
               /\ NoneLeft(todo, Failing(r)) => NoneLeft(todo', Failing(r)) /\ Call(c) \notin Failing(r)
               /\ Call(c) \in Failing(r) /\ todo' # todo => NoneLeft(todo', Failing(r))
    <3>1. OneLeft(todo, Failing(r)) BY DEF RetriedOnce
    <3>2. todo \in [Clients -> Seq(Requests)] /\ Head(todo[c]) = Call(c) BY DEF Inv, Call
    <3>3. todo' = todo \/ (todo[c] # <<>> /\ (todo' = [todo EXCEPT ![c] = Tail(@)]
                                                \/ todo' = [todo EXCEPT ![c] = <<>>]))
        BY <2>1
    <3>4. PICK Q : Q = Failing(r) OBVIOUS
    <3> QED BY <2>1, <3>1, <3>2, <3>3, <3>4, FewerLeft
  <2>3. FailedForGood'
    <3> SUFFICES ASSUME NEW r \in Failed(db)' PROVE NoneLeft(todo', Failing(r))
        BY DEF FailedForGood, NoneLeft, Failing
    <3>1. r \in Runs BY DEF Failed
    <3>2. CASE r \in Failed(db) BY <2>2, <3>1, <3>2 DEF RetriedOnce, FailedForGood
    <3>3. CASE r \notin Failed(db) BY <1>2, <2>2, <3>1, <3>3, FailsByFinish
    <3> QED BY <3>2, <3>3
  <2>4. \A r \in NoMoreFailures : r \in NoMoreFailures'
    <3> SUFFICES ASSUME NEW r \in NoMoreFailures PROVE r \notin Failed(db)' /\ NoneLeft(todo', Failing(r))
        BY DEF NoMoreFailures, NoneLeft, Failing
    <3>1. r \in Runs /\ r \notin Failed(db) /\ NoneLeft(todo, Failing(r)) BY DEF NoMoreFailures
    <3> QED BY <1>2, <2>2, <3>1, FailsByFinish
  <2>5. OneOfEach("retry", NoMoreFailures)'
    <3>1. CASE Call(c).op # "retry" \/ told' = told
      <4>1. /\ Answers("retry")' = Answers("retry")
            /\ \A y \in Answers("retry") : Said(y)' = Said(y) /\ About(y)' = About(y)
          BY <1>2, <3>1, Untold
      <4> QED BY <2>4, <4>1 DEF RetriedOnce, OneOfEach
    <3>2. CASE Call(c).op = "retry" /\ told' # told
      <4>1. Idles(c) \/ Reopens(c)
          BY <1>2, <3>2 DEF Deed, Starts, Commits, Rewrites, Arrives, Delivers, Clears, Recrons
      <4>2. PICK a : /\ Says(c, a)
                     /\ a = FALSE \/ /\ Call(c).run \in Failed(db) /\ db'.row[Call(c).run] = Fresh
        <5>1. CASE Idles(c)
          <6>1. PICK a : Says(c, a) /\ Vain(c, a) BY <3>2, <5>1 DEF Idles, Pauses, Quits
          <6> QED BY <3>2, <6>1 DEF Vain
        <5>2. CASE Reopens(c) BY <3>2, <5>2 DEF Reopens, Pauses
        <5> QED BY <4>1, <5>1, <5>2
      <4>3. PICK x : /\ \A op : Answers(op)' = Answers(op) \cup {y \in {x} : Call(c).op = op}
                     /\ \A op : x \notin Answers(op)
                     /\ \A op : \A y \in Answers(op) : Said(y)' = Said(y) /\ About(y)' = About(y)
                     /\ Said(x)' = a /\ About(x)' = Call(c).run
          BY <4>2, SaysTells
      <4>4. Answers("retry")' = Answers("retry") \cup {x} BY <3>2, <4>3
      <4>5. CASE a = FALSE BY <2>4, <4>3, <4>4, <4>5 DEF RetriedOnce, OneOfEach
      <4>6. CASE Call(c).run \in Failed(db) /\ db'.row[Call(c).run] = Fresh
        <5>1. PICK r \in Runs : r = Call(c).run BY <4>6 DEF Failed
        <5>2. r \in Failed(db) /\ r \notin Failed(db)' BY <4>6, <5>1 DEF Failed, Fresh
        <5>3. NoneLeft(todo, Failing(r)) BY <5>2 DEF RetriedOnce, FailedForGood
        <5>4. r \in NoMoreFailures' BY <2>2, <5>2, <5>3 DEF NoMoreFailures, NoneLeft, Failing
        <5>5. \A y \in Answers("retry") : Said(y) => About(y) # r
            BY <5>2 DEF RetriedOnce, OneOfEach, NoMoreFailures
        <5> QED BY <2>4, <4>3, <4>4, <5>1, <5>4, <5>5 DEF RetriedOnce, OneOfEach
      <4> QED BY <4>2, <4>5, <4>6
    <3> QED BY <3>1, <3>2
  <2> QED BY <2>2, <2>3, <2>5 DEF RetriedOnce, OneLeft, Failing
<1> QED BY <1>1, <1>2, StepsAreDeeds

LEMMA RetriedAtFirst == FailsOnce /\ Init => RetriedOnce
<1> SUFFICES ASSUME FailsOnce, Init PROVE RetriedOnce
    OBVIOUS
<1>1. PICK k \in Cases : db = k.tables /\ todo = k.calls BY DEF Init
<1>2. \A r \in Runs : OneLeft(todo, Failing(r)) BY <1>1 DEF FailsOnce
<1>3. FailedForGood BY <1>1 DEF FailsOnce, FailedForGood, Failed
<1>4. Answers("retry") = {} BY ToldAtFirst
<1> QED BY <1>2, <1>3, <1>4 DEF RetriedOnce, OneOfEach

-----------------------------------------------------------------------------
(* A cron's time is fired once, where nobody registers the cron anew. *)

Registers == \E q \in Requests : q.op = "upsertCron"

(* The times that were won are behind the time that may be won next. *)
FiredOnce ==
  /\ \A x \in Answers("advanceCron") :
       /\ Said(x) \in Nat
       /\ host.backend = "redis" /\ Said(x) # 0 /\ db.ripe # 0 => Said(x) < db.ripe
       /\ host.backend # "redis" /\ Said(x) # 0 /\ db.cron # NoCron => Said(x) < db.cron.next
  /\ OneFires

LEMMA FiredKept ==
  ASSUME ~Registers, Inv, ToldListed, FiredOnce, [Next]_vars
  PROVE  FiredOnce'
<1> DEFINE op == "advanceCron"
<1>1. db.ripe \in Nat /\ db.cron.next \in Nat BY DEF Inv, Fits, CronFits, Crons
<1>2. ASSUME db'.cron \in {db.cron, NoCron}, db'.ripe \in {db.ripe, 0}, host'.backend = host.backend,
             Answers(op)' = Answers(op), \A y \in Answers(op) : Said(y)' = Said(y)
      PROVE  FiredOnce'
  BY <1>2 DEF FiredOnce, OneFires
<1>3. CASE Passing
  <2>1. db'.cron = db.cron /\ db'.ripe = db.ripe BY <1>3, KeptByName DEF Passing
  <2> QED BY <1>2, <1>3, <2>1, TellsNothing DEF Passing
<1>4. ASSUME NEW c \in Clients, Deed(c) PROVE FiredOnce'
  <2>1. todo[c] # <<>> /\ host' = host /\ Call(c).op # "upsertCron"
      BY <1>4, DeedsEnd, CalledIsOfCase DEF Registers
  <2>2. CASE Call(c).op # op \/ told' = told
    <3>1. db'.cron \in {db.cron, NoCron} /\ db'.ripe \in {db.ripe, 0}
      <4>1. CASE Recrons(c)
        <5>1. CASE Call(c).op = "removeCron" BY <4>1, <5>1 DEF Recrons
        <5>2. CASE Call(c).op = op
          <6>1. \E a : Says(c, a) BY <4>1, <5>2 DEF Recrons
          <6>2. PICK a : Says(c, a) BY <6>1
          <6>3. PICK x : /\ \A p : Answers(p)' = Answers(p) \cup {y \in {x} : Call(c).op = p}
                         /\ \A p : x \notin Answers(p)
              BY <6>2, SaysTells
          <6>4. told' = told BY <2>2, <5>2
          <6>5. Answers(op)' = Answers(op) BY <6>4, TellsNothing
          <6> QED BY <5>2, <6>3, <6>5
        <5> QED BY <2>1, <4>1, <5>1, <5>2 DEF Recrons
      <4>2. CASE ~Recrons(c)
        BY <1>4, <4>2, KeptByName DEF Deed, Idles, Starts, Commits, CommitOf, Rewrites, Reopens, Arrives,
           Delivers, Clears, Cleared, Keep, Papers
      <4> QED BY <4>1, <4>2
    <3>2. Answers(op)' = Answers(op) /\ \A y \in Answers(op) : Said(y)' = Said(y)
        BY <1>4, <2>2, Untold
    <3> QED BY <1>2, <2>1, <3>1, <3>2
  <2>3. CASE Call(c).op = op /\ told' # told
    <3>1. CASE Idles(c)
      <4>1. PICK a : Says(c, a) /\ Vain(c, a) BY <2>3, <3>1 DEF Idles, Pauses, Quits
      <4>2. PICK x : /\ \A p : Answers(p)' = Answers(p) \cup {y \in {x} : Call(c).op = p}
                     /\ \A p : \A y \in Answers(p) : Said(y)' = Said(y)
                     /\ Said(x)' = a
          BY <4>1, SaysTells
      <4>3. Answers(op)' = Answers(op) \cup {x} /\ Said(x)' = 0 BY <2>3, <4>1, <4>2 DEF Vain
      <4>4. db'.cron = db.cron /\ db'.ripe = db.ripe BY <3>1, KeptByName DEF Idles
      <4> QED BY <2>1, <4>2, <4>3, <4>4 DEF FiredOnce, OneFires
    <3>2. CASE Recrons(c)
      <4>1. PICK n : /\ n = (IF host.backend = "redis" THEN db.ripe ELSE db.cron.next) /\ Says(c, n)
                     /\ host.backend = "redis" => db.ripe # 0 /\ db'.ripe = n + 2
                     /\ host.backend # "redis" => db.cron # NoCron /\ db'.cron.next = n + 2
          BY <2>3, <3>2 DEF Recrons
      <4>2. PICK x : /\ \A p : Answers(p)' = Answers(p) \cup {y \in {x} : Call(c).op = p}
                     /\ \A p : \A y \in Answers(p) : Said(y)' = Said(y)
                     /\ Said(x)' = n
          BY <4>1, SaysTells
      <4>3. Answers(op)' = Answers(op) \cup {x} /\ n \in Nat BY <1>1, <2>3, <4>1, <4>2
      <4>4. \A y \in Answers(op) : Said(y) \in Nat /\ (Said(y) # 0 => Said(y) < n)
          BY <1>1, <4>1 DEF FiredOnce
      <4>5. \A y \in Answers(op) : Said(y)' \in Nat /\ (Said(y)' # 0 => Said(y)' < n)
          BY <4>2, <4>4
      <4>6. OneFires' BY <4>2, <4>3, <4>4 DEF FiredOnce, OneFires
      <4>7. ASSUME NEW y \in Answers(op)'
            PROVE  /\ Said(y)' \in Nat
                   /\ host.backend = "redis" /\ Said(y)' # 0 /\ db'.ripe # 0 => Said(y)' < db'.ripe
                   /\ host.backend # "redis" /\ Said(y)' # 0 /\ db'.cron # NoCron => Said(y)' < db'.cron.next
        <5>1. PICK m : m = Said(y)' OBVIOUS
        <5>2. m \in Nat /\ (m # 0 => m < n + 2) BY <4>2, <4>3, <4>5, <5>1
        <5> QED BY <4>1, <5>1, <5>2
      <4> QED BY <2>1, <4>6, <4>7 DEF FiredOnce
    <3> QED BY <1>4, <2>3, <3>1, <3>2 DEF Deed, Starts, Commits, Rewrites, Reopens, Arrives, Delivers, Clears
  <2> QED BY <2>2, <2>3
<1> QED BY <1>3, <1>4, StepsAreDeeds

LEMMA FiredAtFirst == Init => FiredOnce
BY ToldAtFirst DEF FiredOnce, OneFires

-----------------------------------------------------------------------------
(* One child is the last to arrive at a join, where a run's join is armed once. *)

(* The calls that arm the join of a run. *)
Spawning(r) == {q \in Requests : q.op = "checkpoint" /\ q.run = r /\ q.arg = "spawn"}

(* In every case, at most one call arms the join of a run, and none a join that is armed. *)
JoinsOnce ==
  \A k \in Cases, r \in Runs :
    /\ OneLeft(k.calls, Spawning(r))
    /\ k.tables.left[r] > 0 => NoneLeft(k.calls, Spawning(r))

(* The calls whose writes are ahead: a checkpoint that reads back has made its own. *)
Ahead == [c \in Clients |-> IF todo[c] # <<>> /\ ReadsBack(c) THEN Tail(todo[c]) ELSE todo[c]]

Armed == {r \in Runs : db.left[r] > 0}
NoMoreJoins == {r \in Runs : r \notin Armed /\ NoneLeft(Ahead, Spawning(r))}
ArrivedOnce ==
  /\ \A r \in Runs : OneLeft(Ahead, Spawning(r))
  /\ \A r \in Armed : NoneLeft(Ahead, Spawning(r))
  /\ \A x \in Answers("arrive") : Said(x) = 0 => About(x) \in NoMoreJoins
  /\ OneIsLast

LEMMA AheadType == ASSUME Inv PROVE Ahead \in [Clients -> Seq(Requests)]
<1>1. ASSUME NEW c \in Clients PROVE Ahead[c] \in Seq(Requests)
  <2>1. todo[c] \in Seq(Requests) BY DEF Inv
  <2>2. CASE Ahead[c] = todo[c] BY <2>1, <2>2
  <2>3. CASE Ahead[c] = Tail(todo[c]) /\ todo[c] # <<>> BY <2>1, <2>3
  <2> QED BY <2>2, <2>3 DEF Ahead
<1> QED BY <1>1 DEF Ahead

(* A deed leaves what is ahead of the others as it is. *)
LEMMA AheadOfOthers ==
  ASSUME Inv, NEW c \in Clients, Deed(c), NEW b \in Clients \ {c}
  PROVE  Ahead'[b] = Ahead[b]
<1>1. Alone(c) /\ todo'[b] = todo[b] BY DeedsEnd DEF Inv
<1>2. at'[b] = at[b] BY <1>1 DEF Alone
<1>3. Ahead'[b] = IF todo'[b] # <<>> /\ ReadsBack(b)' THEN Tail(todo'[b]) ELSE todo'[b] BY DEF Ahead
<1>4. ReadsBack(b)' = ReadsBack(b) BY <1>1, <1>2 DEF ReadsBack, Call
<1> QED BY <1>1, <1>3, <1>4 DEF Ahead

LEMMA AheadShrinks ==
  ASSUME Inv, NEW c \in Clients, Deed(c)
  PROVE  /\ Ahead' = Ahead \/ (Ahead[c] # <<>> /\ (Ahead' = [Ahead EXCEPT ![c] = Tail(@)]
                                                    \/ Ahead' = [Ahead EXCEPT ![c] = <<>>]))
         /\ Commits(c) => Ahead[c] = todo[c] /\ Ahead'[c] = Tail(Ahead[c])
<1>1. /\ todo[c] # <<>> /\ todo[c] \in Seq(Requests) /\ DOMAIN todo = Clients
      /\ DOMAIN Ahead = Clients /\ DOMAIN Ahead' = Clients
  <2>1. todo[c] # <<>> BY DeedsEnd
  <2> QED BY <2>1 DEF Inv, Ahead
<1>2. Ahead'[c] = IF todo'[c] # <<>> /\ ReadsBack(c)' THEN Tail(todo'[c]) ELSE todo'[c] BY DEF Ahead
<1>3. Ahead[c] = IF ReadsBack(c) THEN Tail(todo[c]) ELSE todo[c] BY <1>1 DEF Ahead
<1>4. ReadsBack(c)' => at'[c].pc = "stored" BY DEF ReadsBack
<1>5. ASSUME Pauses(c) PROVE Ahead'[c] = todo[c] \/ Ahead'[c] = Tail(todo[c])
    BY <1>2, <1>5 DEF Pauses
<1>6. ASSUME NEW a, Says(c, a) PROVE Ahead'[c] = Tail(todo[c])
  <2>1. todo'[c] = Tail(todo[c]) /\ ~ReadsBack(c)' BY <1>1, <1>4, <1>6 DEF Says
  <2> QED BY <1>2, <2>1
<1>7. ASSUME Quits(c) PROVE Ahead'[c] = <<>>
  <2>1. todo'[c] = <<>> /\ ~ReadsBack(c)' BY <1>1, <1>4, <1>7 DEF Quits
  <2> QED BY <1>2, <2>1
<1>8. ASSUME Commits(c) PROVE Ahead[c] = todo[c] /\ Ahead'[c] = Tail(Ahead[c])
  <2>1. Ahead[c] = todo[c] BY <1>3, <1>8 DEF Commits, ReadsBack
  <2>2. CASE Pauses(c) /\ at'[c].pc = "stored"
    <3>1. todo' = todo /\ Call(c)' = Call(c) BY <2>2 DEF Pauses, Call
    <3>2. ReadsBack(c)' BY <1>8, <2>2, <3>1 DEF ReadsBack, Commits
    <3> QED BY <1>1, <1>2, <2>1, <3>1, <3>2
  <2> QED BY <1>6, <1>8, <2>1, <2>2 DEF Commits
<1>9. ASSUME NEW s, Ahead'[c] = s PROVE Ahead' = [Ahead EXCEPT ![c] = s]
  <2>1. \A b \in Clients \ {c} : Ahead'[b] = Ahead[b] BY AheadOfOthers
  <2>2. DOMAIN [Ahead EXCEPT ![c] = s] = Clients BY <1>1
  <2>3. \A b \in Clients : Ahead'[b] = [Ahead EXCEPT ![c] = s][b] BY <1>1, <1>9, <2>1
  <2>4. Ahead' = [b \in Clients |-> Ahead'[b]] BY DEF Ahead
  <2>5. [Ahead EXCEPT ![c] = s] = [b \in Clients |-> Ahead'[b]] BY <2>2, <2>3
  <2> QED BY <2>4, <2>5
<1>10. [Ahead EXCEPT ![c] = Ahead[c]] = Ahead
  <2>1. Ahead = [b \in Clients |-> Ahead[b]] BY DEF Ahead
  <2> QED BY <2>1
<1>11. Ahead'[c] = Ahead[c] \/ Ahead'[c] = <<>> \/ (Ahead[c] # <<>> /\ Ahead'[c] = Tail(Ahead[c]))
  <2>1. CASE ReadsBack(c)
    <3>1. ~Commits(c) BY <2>1 DEF ReadsBack, Commits
    <3>2. Idles(c)
        BY <2>1, <3>1 DEF Deed, ReadsBack, Starts, Rewrites, Reopens, Arrives, Delivers, Clears, Recrons
    <3>3. Quits(c) \/ \E a : Says(c, a) BY <2>1, <3>2 DEF Idles
    <3> QED BY <1>3, <1>6, <1>7, <2>1, <3>3
  <2>2. CASE ~ReadsBack(c)
    <3>1. Pauses(c) \/ Quits(c) \/ \E a : Says(c, a)
        BY DEF Deed, Idles, Starts, Commits, Rewrites, Reopens, Arrives, Delivers, Clears, Recrons, GoesOn
    <3> QED BY <1>1, <1>3, <1>5, <1>6, <1>7, <2>2, <3>1
  <2> QED BY <2>1, <2>2
<1>12. CASE Ahead'[c] = Ahead[c] BY <1>8, <1>9, <1>10, <1>12
<1>13. CASE Ahead'[c] # Ahead[c] /\ Ahead[c] # <<>>
  <2>1. Ahead' = [Ahead EXCEPT ![c] = <<>>] \/ Ahead' = [Ahead EXCEPT ![c] = Tail(Ahead[c])]
      BY <1>9, <1>11, <1>13
  <2> QED BY <1>8, <1>13, <2>1
<1>14. CASE Ahead'[c] # Ahead[c] /\ Ahead[c] = <<>>
  BY <1>11, <1>14
<1> QED BY <1>12, <1>13, <1>14

LEMMA LeftMoves ==
  ASSUME Inv, NEW c \in Clients, Deed(c), NEW r \in Runs
  PROVE  \/ db'.left[r] = db.left[r]
         \/ db'.left[r] = 0
         \/ Arrives(c) /\ db'.left[r] = db.left[r] - 1
         \/ Commits(c) /\ Call(c) \in Spawning(r)
<1>1. todo[c] # <<>> /\ Call(c) \in Requests /\ Call(c).run \in Runs BY DeedsEnd, CalledIsOfCase, CalledRequest
<1>2. DOMAIN db.left = Runs BY DEF Inv, Fits, RowsFit
<1>3. CASE Commits(c)
  <2>1. Spawns(c) => Call(c).arg = "spawn"
      BY DEF Spawns, Entry, Wait
  <2>2. Call(c).op = "checkpoint" BY <1>3 DEF Commits
  <2>3. CASE Spawns(c) /\ r = Call(c).run BY <1>1, <1>3, <2>1, <2>2, <2>3 DEF Spawning
  <2>4. CASE ~(Spawns(c) /\ r = Call(c).run)
    <3>1. db'.left = IF Spawns(c) THEN [db.left EXCEPT ![Call(c).run] = 1] ELSE db.left
        BY <1>3 DEF Commits, CommitOf
    <3> QED BY <1>2, <2>4, <3>1
  <2> QED BY <2>3, <2>4
<1>4. CASE Arrives(c)
  <2>1. db'.left = [db.left EXCEPT ![Call(c).run] = @ - 1] BY <1>4 DEF Arrives
  <2> QED BY <1>2, <1>4, <2>1
<1>5. CASE Clears(c) BY <1>5 DEF Clears, Cleared
<1>6. CASE ~Commits(c) /\ ~Arrives(c) /\ ~Clears(c)
  BY <1>6, KeptByName DEF Deed, Idles, Starts, Rewrites, Reopens, Delivers, Recrons, Keep, Papers
<1> QED BY <1>3, <1>4, <1>5, <1>6

LEMMA ArrivedKept ==
  ASSUME Inv, ToldListed, ArrivedOnce, [Next]_vars
  PROVE  ArrivedOnce'
<1> DEFINE op == "arrive"
<1>1. \A r \in Runs : db.left[r] \in Int BY DEF Inv, Fits, RowsFit
<1>2. CASE Passing
  <2>1. db'.left = db.left /\ todo' = todo /\ told' = told BY <1>2, KeptByName DEF Passing
  <2>2. \A c \in Clients : ReadsBack(c)' = ReadsBack(c) BY <1>2, <2>1 DEF Passing, ReadsBack, Call
  <2>3. Ahead' = Ahead BY <2>1, <2>2 DEF Ahead
  <2>4. Armed' = Armed /\ NoMoreJoins' = NoMoreJoins
      BY <2>1, <2>3 DEF Armed, NoMoreJoins, NoneLeft, Spawning
  <2>5. OneIsLast' BY <2>1, TellsNothing DEF ArrivedOnce, OneIsLast
  <2> QED BY <2>1, <2>3, <2>4, <2>5, TellsNothing DEF ArrivedOnce, OneLeft, NoneLeft, Spawning
<1>3. ASSUME NEW c \in Clients, Deed(c) PROVE ArrivedOnce'
  <2>1. Ahead \in [Clients -> Seq(Requests)] BY AheadType
  <2>2. todo[c] # <<>> /\ Call(c) \in Requests /\ Call(c).run \in Runs
      BY <1>3, DeedsEnd, CalledIsOfCase, CalledRequest
  <2>3. ASSUME NEW r \in Runs
        PROVE  /\ OneLeft(Ahead', Spawning(r))
               /\ NoneLeft(Ahead, Spawning(r)) => NoneLeft(Ahead', Spawning(r))
               /\ Commits(c) /\ Call(c) \in Spawning(r) =>
                    NoneLeft(Ahead', Spawning(r)) /\ ~NoneLeft(Ahead, Spawning(r))
    <3>1. OneLeft(Ahead, Spawning(r)) BY DEF ArrivedOnce
    <3>2. PICK Q : Q = Spawning(r) OBVIOUS
    <3>3. PICK g : g = Ahead' OBVIOUS
    <3>4. g = Ahead \/ (Ahead[c] # <<>> /\ (g = [Ahead EXCEPT ![c] = Tail(@)]
                                             \/ g = [Ahead EXCEPT ![c] = <<>>]))
        BY <1>3, <3>3, AheadShrinks
    <3>5. /\ OneLeft(Ahead, Q) => OneLeft(g, Q)
          /\ NoneLeft(Ahead, Q) => NoneLeft(g, Q)
          /\ Ahead[c] # <<>> /\ OneLeft(Ahead, Q) /\ Head(Ahead[c]) \in Q /\ g # Ahead => NoneLeft(g, Q)
          /\ Ahead[c] # <<>> /\ NoneLeft(Ahead, Q) => Head(Ahead[c]) \notin Q
        BY <2>1, <3>4, FewerLeft
    <3>6. ASSUME Commits(c) PROVE Ahead[c] # <<>> /\ Head(Ahead[c]) = Call(c) /\ g # Ahead
      <4>1. Ahead[c] = todo[c] /\ g[c] = Tail(Ahead[c]) BY <1>3, <3>3, <3>6, AheadShrinks
      <4>2. Len(Tail(todo[c])) # Len(todo[c]) BY <2>1, <2>2, <4>1, ShorterTail
      <4> QED BY <2>2, <4>1, <4>2 DEF Call
    <3> QED BY <3>1, <3>2, <3>3, <3>5, <3>6
  <2>4. ASSUME NEW r \in Armed' PROVE NoneLeft(Ahead', Spawning(r))
    <3>1. r \in Runs /\ db'.left[r] > 0 BY DEF Armed
    <3>2. CASE Commits(c) /\ Call(c) \in Spawning(r) BY <2>3, <3>1, <3>2
    <3>3. CASE ~(Commits(c) /\ Call(c) \in Spawning(r))
      <4>1. PICK n : n = db'.left[r] OBVIOUS
      <4>2. n = db.left[r] \/ n = 0 \/ n = db.left[r] - 1 BY <1>3, <3>1, <3>3, <4>1, LeftMoves
      <4>3. db.left[r] > 0 BY <1>1, <3>1, <4>1, <4>2
      <4>4. NoneLeft(Ahead, Spawning(r)) BY <3>1, <4>3 DEF ArrivedOnce, Armed
      <4> QED BY <2>3, <3>1, <4>4
    <3> QED BY <3>2, <3>3
  <2>5. ASSUME NEW r \in NoMoreJoins PROVE r \in NoMoreJoins'
    <3>1. r \in Runs /\ ~(db.left[r] > 0) /\ NoneLeft(Ahead, Spawning(r)) BY DEF NoMoreJoins, Armed
    <3>2. NoneLeft(Ahead', Spawning(r)) /\ ~(Commits(c) /\ Call(c) \in Spawning(r)) BY <2>3, <3>1
    <3>3. PICK n : n = db'.left[r] OBVIOUS
    <3>4. n = db.left[r] \/ n = 0 \/ n = db.left[r] - 1 BY <1>3, <3>1, <3>2, <3>3, LeftMoves
    <3>5. ~(n > 0) BY <1>1, <3>1, <3>4
    <3> QED BY <3>1, <3>2, <3>3, <3>5 DEF NoMoreJoins, Armed, NoneLeft, Spawning
  <2>6. /\ \A x \in Answers(op)' : Said(x)' = 0 => About(x)' \in NoMoreJoins'
        /\ OneIsLast'
    <3>1. CASE Call(c).op # op \/ told' = told
      <4>1. /\ Answers(op)' = Answers(op)
            /\ \A y \in Answers(op) : Said(y)' = Said(y) /\ About(y)' = About(y)
          BY <1>3, <3>1, Untold
      <4> QED BY <2>5, <4>1 DEF ArrivedOnce, OneIsLast
    <3>2. CASE Call(c).op = op /\ told' # told
      <4>1. Idles(c) \/ Arrives(c)
          BY <1>3, <3>2 DEF Deed, Starts, Commits, Rewrites, Reopens, Delivers, Clears, Recrons
      <4>2. PICK r \in Runs : r = Call(c).run BY <2>2
      <4>3. PICK a : Says(c, a) /\ (a # 0 \/ (Arrives(c) /\ a = db.left[r] - 1))
        <5>1. CASE Idles(c)
          <6>1. PICK a : Says(c, a) /\ Vain(c, a) BY <3>2, <5>1 DEF Idles, Pauses, Quits
          <6> QED BY <3>2, <6>1 DEF Vain
        <5>2. CASE Arrives(c)
          <6>1. Says(c, db.left[r] - 1) BY <4>2, <5>2 DEF Arrives
          <6> QED BY <5>2, <6>1
        <5> QED BY <4>1, <5>1, <5>2
      <4>4. PICK x : /\ \A p : Answers(p)' = Answers(p) \cup {y \in {x} : Call(c).op = p}
                     /\ \A p : \A y \in Answers(p) : Said(y)' = Said(y) /\ About(y)' = About(y)
                     /\ Said(x)' = a /\ About(x)' = r
          BY <4>2, <4>3, SaysTells
      <4>5. Answers(op)' = Answers(op) \cup {x} BY <3>2, <4>4
      <4>6. CASE a # 0 BY <2>5, <4>4, <4>5, <4>6 DEF ArrivedOnce, OneIsLast
      <4>7. CASE Arrives(c) /\ a = db.left[r] - 1 /\ a = 0
        <5>1. db.left[r] = 1 BY <1>1, <4>7
        <5>2. r \in Armed /\ NoneLeft(Ahead, Spawning(r)) BY <5>1 DEF Armed, ArrivedOnce
        <5>3. db'.left[r] = 0
          <6>1. db'.left = [db.left EXCEPT ![r] = @ - 1] /\ DOMAIN db.left = Runs
              BY <4>2, <4>7 DEF Arrives, Inv, Fits, RowsFit
          <6> QED BY <5>1, <6>1
        <5>4. r \in NoMoreJoins'
          <6>1. NoneLeft(Ahead', Spawning(r)) BY <2>3, <5>2
          <6> QED BY <5>3, <6>1 DEF NoMoreJoins, Armed, NoneLeft, Spawning
        <5>5. \A y \in Answers(op) : Said(y) = 0 => About(y) # r
            BY <5>2 DEF ArrivedOnce, NoMoreJoins
        <5> QED BY <2>5, <4>4, <4>5, <5>4, <5>5 DEF ArrivedOnce, OneIsLast
      <4> QED BY <4>3, <4>6, <4>7
    <3> QED BY <3>1, <3>2
  <2> QED BY <2>3, <2>4, <2>6 DEF ArrivedOnce, OneLeft, NoneLeft, Spawning
<1> QED BY <1>2, <1>3, StepsAreDeeds

LEMMA ArrivedAtFirst == JoinsOnce /\ Init => ArrivedOnce
<1> SUFFICES ASSUME JoinsOnce, Init PROVE ArrivedOnce
    OBVIOUS
<1>1. PICK k \in Cases : db = k.tables /\ todo = k.calls BY DEF Init
<1>2. \A c \in Clients : ~ReadsBack(c) BY DEF Init, ReadsBack, Ready
<1>3. k.calls = [c \in Clients |-> k.calls[c]] BY CasesAssumption
<1>4. Ahead = k.calls BY <1>1, <1>2, <1>3 DEF Ahead
<1>5. \A r \in Runs : OneLeft(Ahead, Spawning(r)) BY <1>4 DEF JoinsOnce
<1>6. \A r \in Armed : NoneLeft(Ahead, Spawning(r)) BY <1>1, <1>4 DEF JoinsOnce, Armed
<1>7. Answers("arrive") = {} BY ToldAtFirst
<1> QED BY <1>5, <1>6, <1>7 DEF ArrivedOnce, OneIsLast

-----------------------------------------------------------------------------
(* The theorems *)

LEMMA ToldThroughout == Spec => []ToldListed
<1>1. Init => ToldListed BY ToldAtFirst
<1>2. Inv /\ ToldListed /\ [Next]_vars => ToldListed' BY ToldKept
<1> QED BY <1>1, <1>2, BackendsInductive, PTL DEF Spec

(* Starts that race with one key, alone or in lists, are all told of the same run, on      *)
(* every backend, where nobody purges that run (ports/store.ts: startRun, startManyRuns).     *)
THEOREM OneRunPerKey == ASSUME ~Purges PROVE Spec => []OneStart
<1>1. Init => OneKey BY ToldAtFirst DEF OneKey, Started
<1>2. Inv /\ ToldListed /\ OneKey /\ [Next]_vars => OneKey' BY KeyKept
<1>3. OneKey => OneStart BY DEF OneKey, Started, OneStart
<1> QED BY <1>1, <1>2, <1>3, BackendsInductive, ToldThroughout, PTL DEF Spec

(* Of the deliveries of one signal, however they race, one is the new one: the inbox has   *)
(* it once, where nobody purges its run (ports/store.ts: postSignal).                  *)
THEOREM OneDeliveryWins == ASSUME ~Purges PROVE Spec => []OneWinner("signal")
<1>1. Init => SentOnce
  <2> SUFFICES ASSUME Init PROVE SentOnce
      OBVIOUS
  <2>1. PICK k \in Cases : db = k.tables BY DEF Init
  <2>2. db \in Tables BY <2>1, CasesAssumption DEF LegalTables
  <2>3. db.sent \in [Runs -> BOOLEAN] BY <2>2 DEF Tables
  <2> QED BY <2>3, ToldAtFirst DEF SentOnce, OneOfEach
<1>2. Inv /\ ToldListed /\ SentOnce /\ [Next]_vars => SentOnce' BY SentKept
<1>3. SentOnce => OneWinner("signal") BY DEF SentOnce, OneOfEach, OneWinner
<1> QED BY <1>1, <1>2, <1>3, BackendsInductive, ToldThroughout, PTL DEF Spec

(* A failed run is reopened by one of the retries that race for it, where it fails once:    *)
(* each failure is retried once (ports/store.ts: retryRun).                               *)
THEOREM OneRetryWins == ASSUME FailsOnce PROVE Spec => []OneWinner("retry")
<1>1. Init => RetriedOnce BY RetriedAtFirst
<1>2. Inv /\ ToldListed /\ RetriedOnce /\ [Next]_vars => RetriedOnce' BY RetriedKept
<1>3. RetriedOnce => OneWinner("retry") BY DEF RetriedOnce, OneOfEach, OneWinner
<1> QED BY <1>1, <1>2, <1>3, BackendsInductive, ToldThroughout, PTL DEF Spec

(* No time of a cron is won by two of the sweeps that race to advance it, where nobody      *)
(* registers the cron anew meanwhile (ports/store.ts: advanceCron).                       *)
THEOREM OneSweepFires == ASSUME ~Registers PROVE Spec => []OneFires
<1>1. Init => FiredOnce BY FiredAtFirst
<1>2. Inv /\ ToldListed /\ FiredOnce /\ [Next]_vars => FiredOnce' BY FiredKept
<1>3. FiredOnce => OneFires BY DEF FiredOnce
<1> QED BY <1>1, <1>2, <1>3, BackendsInductive, ToldThroughout, PTL DEF Spec

(* Of the children that arrive at a join, one is told that it is the last, so the parent    *)
(* is woken once, where a run's join is armed once (ports/store.ts: arriveAtJoin).     *)
THEOREM OneChildIsLast == ASSUME JoinsOnce PROVE Spec => []OneIsLast
<1>1. Init => ArrivedOnce BY ArrivedAtFirst
<1>2. Inv /\ ToldListed /\ ArrivedOnce /\ [Next]_vars => ArrivedOnce' BY ArrivedKept
<1>3. ArrivedOnce => OneIsLast BY DEF ArrivedOnce
<1> QED BY <1>1, <1>2, <1>3, BackendsInductive, ToldThroughout, PTL DEF Spec

(* WonOnce: on every backend, what clients race for is won by one of them, for programs     *)
(* that purge nothing and register no cron, with one failure and one join for each run.   *)
THEOREM EachWonOnce ==
  ASSUME ~Purges, ~Registers, FailsOnce, JoinsOnce
  PROVE  Spec => []WonOnce
<1>1. OneStart /\ OneWinner("signal") /\ OneWinner("retry") /\ OneFires /\ OneIsLast <=> WonOnce BY DEF WonOnce
<1> QED BY <1>1, OneRunPerKey, OneDeliveryWins, OneRetryWins, OneSweepFires, OneChildIsLast, PTL

-----------------------------------------------------------------------------
(* Which step is of which call *)

Watchful == {"claim", "checkpoint", "load"}
Others(c) == todo[c] # <<>> /\ Call(c).op \notin Watchful

LEMMA NamedOthers ==
  ASSUME NEW c, NEW op, op \notin Watchful,
         \/ (\E pc : On(c, op, pc)) \/ Calls(c, op) \/ Asks(c, op)
         \/ StartOrFind(c, op) \/ StartAtOnce(c, op) \/ FindsHolder(c, op)
         \/ (\E found : Scans(c, op, found))
         \/ AtOnce(c, op) \/ (\E view, looks : Begins(c, op, view, looks)) \/ (\E looks : Looks(c, op, looks))
         \/ (\E table : LooksThrough(c, op, table) \/ LooksOn(c, op, table))
         \/ (\E tables : LooksInTurn(c, op, tables))
  PROVE  Others(c)
<1>1. ASSUME NEW pc, On(c, op, pc) PROVE Others(c) BY <1>1 DEF On, Others
<1>2. CASE Calls(c, op) \/ Asks(c, op) BY <1>1, <1>2 DEF Calls, Asks
<1>3. CASE StartOrFind(c, op) \/ StartAtOnce(c, op) \/ FindsHolder(c, op)
    BY <1>1, <1>3 DEF StartOrFind, StartAtOnce, FindsHolder, Calls
<1>4. ASSUME NEW found, Scans(c, op, found) PROVE Others(c) BY <1>1, <1>4 DEF Scans, Calls
<1>5. ASSUME NEW looks, Looks(c, op, looks) PROVE Others(c) BY <1>1, <1>5 DEF Looks
<1>6. ASSUME NEW view, NEW looks, Begins(c, op, view, looks) PROVE Others(c) BY <1>1, <1>6 DEF Begins, Calls
<1>7. CASE AtOnce(c, op) BY <1>1, <1>7 DEF AtOnce, Calls
<1>8. ASSUME NEW table, LooksThrough(c, op, table) \/ LooksOn(c, op, table) PROVE Others(c)
    BY <1>5, <1>8 DEF LooksThrough, LooksOn
<1>9. ASSUME NEW tables, LooksInTurn(c, op, tables) PROVE Others(c) BY <1>8, <1>9 DEF LooksInTurn
<1> QED BY <1>1, <1>2, <1>3, <1>4, <1>5, <1>6, <1>7, <1>8, <1>9

LEMMA SharedOthers ==
  ASSUME NEW c,
         \/ MarkAtOnce(c) \/ MarkOrLook(c) \/ ArriveAtOnce(c) \/ CancelAtOnce(c) \/ RetryAllAtOnce(c)
         \/ RetryAtOnce(c) \/ Refuses(c) \/ (\E parts : DeleteInParts(c, parts)) \/ UpsertAtOnce(c)
         \/ RemoveAtOnce(c) \/ DueCronsAtOnce(c) \/ AdvanceAtOnce(c) \/ EnqueueAtOnce(c)
         \/ RenewAtOnce(c) \/ AckInTwo(c) \/ AckOrRelease(c) \/ ScheduleAtOnce(c)
         \/ CancelTimerAtOnce(c) \/ DueAtOnce(c) \/ ListInPages(c) \/ ListByEntry(c)
  PROVE  Others(c)
<1>1. ASSUME NEW op \in {"mark", "arrive", "cancelRuns", "retryRuns", "retry", "purge", "upsertCron",
                         "removeCron", "dueCrons", "advanceCron", "enqueue", "heartbeat", "ack",
                         "schedule", "unschedule", "due", "list"},
             Asks(c, op) \/ Calls(c, op) \/ \E pc : On(c, op, pc)
      PROVE  Others(c)
  <2>1. op \notin Watchful BY DEF Watchful
  <2> QED BY <1>1, <2>1, NamedOthers
<1>2. CASE MarkAtOnce(c) \/ MarkOrLook(c) BY <1>1, <1>2 DEF MarkAtOnce, MarkOrLook
<1>3. CASE ArriveAtOnce(c) BY <1>1, <1>3 DEF ArriveAtOnce
<1>4. CASE CancelAtOnce(c) BY <1>1, <1>4 DEF CancelAtOnce
<1>5. CASE RetryAllAtOnce(c) \/ RetryAtOnce(c) BY <1>1, <1>5 DEF RetryAllAtOnce, RetryAtOnce
<1>6. CASE Refuses(c) BY <1>1, <1>6 DEF Refuses
<1>7. ASSUME NEW parts, DeleteInParts(c, parts) PROVE Others(c) BY <1>1, <1>7 DEF DeleteInParts
<1>8. CASE UpsertAtOnce(c) \/ RemoveAtOnce(c) \/ DueCronsAtOnce(c) \/ AdvanceAtOnce(c)
    BY <1>1, <1>8 DEF UpsertAtOnce, RemoveAtOnce, DueCronsAtOnce, AdvanceAtOnce
<1>9. CASE EnqueueAtOnce(c) \/ RenewAtOnce(c) \/ AckInTwo(c) \/ AckOrRelease(c)
    BY <1>1, <1>9 DEF EnqueueAtOnce, RenewAtOnce, AckInTwo, AckOrRelease
<1>10. CASE ScheduleAtOnce(c) \/ CancelTimerAtOnce(c) \/ DueAtOnce(c)
    BY <1>1, <1>10 DEF ScheduleAtOnce, CancelTimerAtOnce, DueAtOnce
<1>11. CASE ListInPages(c) \/ ListByEntry(c) BY <1>1, <1>11 DEF ListInPages, ListByEntry, Paging
<1> QED BY <1>2, <1>3, <1>4, <1>5, <1>6, <1>7, <1>8, <1>9, <1>10, <1>11

(* The step of a client that calls something else. *)
LEMMA OtherNames ==
  \A op \in {"start", "startMany", "suspend", "finish", "signal", "cancelRuns", "retryRuns", "retry",
             "purge", "upsertCron", "removeCron", "dueCrons", "advanceCron", "enqueue", "ack", "due",
             "rows", "list", "children", "stats", "orphans", "listCrons", "cronCount", "depth",
             "dueCount", "nextDue"} :
    op \notin Watchful
BY DEF Watchful

LEMMA MemorySorts ==
  ASSUME NEW c, MemoryNext(c)
  PROVE  MemoryClaim(c) \/ MemoryCheckpointStep(c) \/ MemoryLoadRun(c) \/ Others(c)
<1>1. CASE MemoryMarkRunning(c) \/ MemoryArriveAtJoin(c) \/ MemoryCancelRuns(c) \/
            MemoryRetryRuns(c) \/ MemoryUpsertCron(c) \/ MemoryRemoveCron(c) \/
            MemoryDueCrons(c) \/ MemoryAdvanceCron(c)
    BY <1>1, SharedOthers DEF MemoryMarkRunning, MemoryArriveAtJoin, MemoryCancelRuns,
       MemoryRetryRuns, MemoryUpsertCron, MemoryRemoveCron, MemoryDueCrons, MemoryAdvanceCron
<1>2. CASE MemoryEnqueue(c) \/ MemoryHeartbeat(c) \/ MemorySchedule(c) \/ MemoryCancelTimer(c)
            \/ MemoryDueBatch(c) \/ Refuses(c) \/ MemoryListRuns(c)
    BY <1>2, SharedOthers DEF MemoryEnqueue, MemoryHeartbeat, MemorySchedule, MemoryCancelTimer,
       MemoryDueBatch, MemoryListRuns
<1>3. CASE MemoryStartRun(c) \/ MemoryStartManyRuns(c) \/ MemoryDeleteRuns(c) \/
            MemoryLoadRunRows(c) \/ MemoryChildrenOf(c)
    BY <1>3, NamedOthers, OtherNames DEF MemoryStartRun, MemoryStartManyRuns, MemoryDeleteRuns,
       MemoryLoadRunRows, MemoryChildrenOf
<1>4. CASE MemoryRunStats(c) \/ MemoryOrphanedRuns(c) \/ MemoryListCrons(c) \/
            MemoryDueCronCount(c) \/ MemoryDepth(c)
    BY <1>4, NamedOthers, OtherNames DEF MemoryRunStats, MemoryOrphanedRuns, MemoryListCrons,
       MemoryDueCronCount, MemoryDepth
<1>5. CASE MemoryDueCount(c) \/ MemoryNextDueAt(c)
    BY <1>5, NamedOthers, OtherNames DEF MemoryDueCount, MemoryNextDueAt
<1>6. CASE MemorySuspendRun(c) BY <1>6, NamedOthers, OtherNames DEF MemorySuspendRun
<1>7. CASE MemoryMarkTerminal(c) BY <1>7, NamedOthers, OtherNames DEF MemoryMarkTerminal
<1>8. CASE MemoryPostSignal(c) BY <1>8, NamedOthers, OtherNames DEF MemoryPostSignal
<1>9. CASE MemoryRetryRun(c) BY <1>9, NamedOthers, OtherNames DEF MemoryRetryRun
<1>10. CASE MemoryAck(c) BY <1>10, NamedOthers, OtherNames DEF MemoryAck
<1> QED BY <1>1, <1>2, <1>3, <1>4, <1>5, <1>6, <1>7, <1>8, <1>9, <1>10 DEF MemoryNext

LEMMA PostgresSorts ==
  ASSUME NEW c, PostgresNext(c)
  PROVE  PostgresClaim(c) \/ PostgresCheckpointStep(c) \/ PostgresLoadRun(c) \/ Others(c)
<1>1. CASE PostgresMarkRunning(c) \/ PostgresArriveAtJoin(c) \/ PostgresCancelRuns(c) \/
            PostgresRetryRuns(c) \/ PostgresRetryRun(c) \/ PostgresUpsertCron(c) \/
            PostgresRemoveCron(c) \/ PostgresDueCrons(c)
    BY <1>1, SharedOthers DEF PostgresMarkRunning, PostgresArriveAtJoin, PostgresCancelRuns,
       PostgresRetryRuns, PostgresRetryRun, PostgresUpsertCron, PostgresRemoveCron,
       PostgresDueCrons
<1>2. CASE PostgresAdvanceCron(c) \/ PostgresEnqueue(c) \/ PostgresHeartbeat(c) \/
            PostgresAck(c) \/ PostgresSchedule(c) \/ PostgresCancelTimer(c) \/
            PostgresDueBatch(c) \/ Refuses(c)
    BY <1>2, SharedOthers DEF PostgresAdvanceCron, PostgresEnqueue, PostgresHeartbeat, PostgresAck,
       PostgresSchedule, PostgresCancelTimer, PostgresDueBatch
<1>3. CASE PostgresListRuns(c) BY <1>3, SharedOthers DEF PostgresListRuns
<1>4. CASE PostgresStartRun(c) \/ PostgresStartManyRuns(c) \/ PostgresLoadRunRows(c) \/
            PostgresChildrenOf(c) \/ PostgresRunStats(c)
    BY <1>4, NamedOthers, OtherNames DEF PostgresStartRun, PostgresStartManyRuns,
       PostgresLoadRunRows, PostgresChildrenOf, PostgresRunStats
<1>5. CASE PostgresOrphanedRuns(c) \/ PostgresListCrons(c) \/ PostgresDueCronCount(c) \/
            PostgresDepth(c) \/ PostgresDueCount(c)
    BY <1>5, NamedOthers, OtherNames DEF PostgresOrphanedRuns, PostgresListCrons,
       PostgresDueCronCount, PostgresDepth, PostgresDueCount
<1>6. CASE PostgresNextDueAt(c) BY <1>6, NamedOthers, OtherNames DEF PostgresNextDueAt
<1>7. CASE PostgresSuspendRun(c) BY <1>7, NamedOthers, OtherNames DEF PostgresSuspendRun
<1>8. CASE PostgresMarkTerminal(c) BY <1>8, NamedOthers, OtherNames DEF PostgresMarkTerminal
<1>9. CASE PostgresPostSignal(c) BY <1>9, NamedOthers, OtherNames DEF PostgresPostSignal
<1>10. CASE PostgresDeleteRuns(c) BY <1>10, NamedOthers, OtherNames DEF PostgresDeleteRuns
<1> QED BY <1>1, <1>2, <1>3, <1>4, <1>5, <1>6, <1>7, <1>8, <1>9, <1>10 DEF PostgresNext

LEMMA MySqlSorts ==
  ASSUME NEW c, MySqlNext(c)
  PROVE  MySqlClaim(c) \/ MySqlCheckpointStep(c) \/ MySqlLoadRun(c) \/ Others(c)
<1>1. CASE MySqlMarkRunning(c) \/ MySqlArriveAtJoin(c) \/ MySqlCancelRuns(c) \/
            MySqlRetryRuns(c) \/ MySqlRetryRun(c) \/ MySqlUpsertCron(c) \/ MySqlRemoveCron(c) \/
            MySqlDueCrons(c)
    BY <1>1, SharedOthers DEF MySqlMarkRunning, MySqlArriveAtJoin, MySqlCancelRuns, MySqlRetryRuns,
       MySqlRetryRun, MySqlUpsertCron, MySqlRemoveCron, MySqlDueCrons
<1>2. CASE MySqlAdvanceCron(c) \/ MySqlEnqueue(c) \/ MySqlHeartbeat(c) \/ MySqlAck(c) \/
            MySqlSchedule(c) \/ MySqlCancelTimer(c) \/ MySqlDueBatch(c) \/ Refuses(c)
    BY <1>2, SharedOthers DEF MySqlAdvanceCron, MySqlEnqueue, MySqlHeartbeat, MySqlAck,
       MySqlSchedule, MySqlCancelTimer, MySqlDueBatch
<1>3. CASE MySqlListRuns(c) BY <1>3, SharedOthers DEF MySqlListRuns
<1>4. CASE MySqlStartRun(c) \/ MySqlStartManyRuns(c) \/ MySqlLoadRunRows(c) \/
            MySqlChildrenOf(c) \/ MySqlRunStats(c)
    BY <1>4, NamedOthers, OtherNames DEF MySqlStartRun, MySqlStartManyRuns, MySqlLoadRunRows,
       MySqlChildrenOf, MySqlRunStats
<1>5. CASE MySqlOrphanedRuns(c) \/ MySqlListCrons(c) \/ MySqlDueCronCount(c) \/ MySqlDepth(c) \/
            MySqlDueCount(c)
    BY <1>5, NamedOthers, OtherNames DEF MySqlOrphanedRuns, MySqlListCrons, MySqlDueCronCount,
       MySqlDepth, MySqlDueCount
<1>6. CASE MySqlNextDueAt(c) BY <1>6, NamedOthers, OtherNames DEF MySqlNextDueAt
<1>7. CASE MySqlSuspendRun(c) BY <1>7, NamedOthers, OtherNames DEF MySqlSuspendRun
<1>8. CASE MySqlMarkTerminal(c) BY <1>8, NamedOthers, OtherNames DEF MySqlMarkTerminal
<1>9. CASE MySqlPostSignal(c) BY <1>9, NamedOthers, OtherNames DEF MySqlPostSignal
<1>10. CASE MySqlDeleteRuns(c) BY <1>10, NamedOthers, OtherNames DEF MySqlDeleteRuns
<1> QED BY <1>1, <1>2, <1>3, <1>4, <1>5, <1>6, <1>7, <1>8, <1>9, <1>10 DEF MySqlNext

LEMMA SqliteSorts ==
  ASSUME NEW c, SqliteNext(c)
  PROVE  SqliteClaim(c) \/ SqliteCheckpointStep(c) \/ SqliteLoadRun(c) \/ Others(c)
<1>1. CASE SqliteMarkRunning(c) \/ SqliteArriveAtJoin(c) \/ SqliteCancelRuns(c) \/
            SqliteRetryRuns(c) \/ SqliteRetryRun(c) \/ SqliteUpsertCron(c) \/
            SqliteRemoveCron(c) \/ SqliteDueCrons(c)
    BY <1>1, SharedOthers DEF SqliteMarkRunning, SqliteArriveAtJoin, SqliteCancelRuns,
       SqliteRetryRuns, SqliteRetryRun, SqliteUpsertCron, SqliteRemoveCron, SqliteDueCrons
<1>2. CASE SqliteAdvanceCron(c) \/ SqliteEnqueue(c) \/ SqliteHeartbeat(c) \/ SqliteAck(c) \/
            SqliteSchedule(c) \/ SqliteCancelTimer(c) \/ SqliteDueBatch(c) \/ Refuses(c)
    BY <1>2, SharedOthers DEF SqliteAdvanceCron, SqliteEnqueue, SqliteHeartbeat, SqliteAck,
       SqliteSchedule, SqliteCancelTimer, SqliteDueBatch
<1>3. CASE SqliteListRuns(c) BY <1>3, SharedOthers DEF SqliteListRuns
<1>4. CASE SqliteStartRun(c) \/ SqliteStartManyRuns(c) \/ SqliteDeleteRuns(c) \/
            SqliteLoadRunRows(c) \/ SqliteChildrenOf(c)
    BY <1>4, NamedOthers, OtherNames DEF SqliteStartRun, SqliteStartManyRuns, SqliteDeleteRuns,
       SqliteLoadRunRows, SqliteChildrenOf
<1>5. CASE SqliteRunStats(c) \/ SqliteOrphanedRuns(c) \/ SqliteListCrons(c) \/
            SqliteDueCronCount(c) \/ SqliteDepth(c)
    BY <1>5, NamedOthers, OtherNames DEF SqliteRunStats, SqliteOrphanedRuns, SqliteListCrons,
       SqliteDueCronCount, SqliteDepth
<1>6. CASE SqliteDueCount(c) \/ SqliteNextDueAt(c)
    BY <1>6, NamedOthers, OtherNames DEF SqliteDueCount, SqliteNextDueAt
<1>7. CASE SqliteSuspendRun(c) BY <1>7, NamedOthers, OtherNames DEF SqliteSuspendRun
<1>8. CASE SqliteMarkTerminal(c) BY <1>8, NamedOthers, OtherNames DEF SqliteMarkTerminal
<1>9. CASE SqlitePostSignal(c) BY <1>9, NamedOthers, OtherNames DEF SqlitePostSignal
<1> QED BY <1>1, <1>2, <1>3, <1>4, <1>5, <1>6, <1>7, <1>8, <1>9 DEF SqliteNext

LEMMA RedisSorts ==
  ASSUME NEW c, RedisNext(c)
  PROVE  RedisClaim(c) \/ RedisCheckpointStep(c) \/ RedisLoadRun(c) \/ Others(c)
<1>1. CASE RedisMarkRunning(c) \/ RedisArriveAtJoin(c) \/ RedisHeartbeat(c) \/ RedisSchedule(c)
            \/ RedisCancelTimer(c) \/ RedisDueBatch(c) \/ Refuses(c)
    BY <1>1, SharedOthers DEF RedisMarkRunning, RedisArriveAtJoin, RedisHeartbeat, RedisSchedule,
       RedisCancelTimer, RedisDueBatch
<1>2. CASE RedisStartRun(c) \/ RedisStartManyRuns(c) \/ RedisLoadRunRows(c) \/
            RedisChildrenOf(c) \/ RedisRunStats(c)
    BY <1>2, NamedOthers, OtherNames DEF RedisStartRun, RedisStartManyRuns, RedisLoadRunRows,
       RedisChildrenOf, RedisRunStats
<1>3. CASE RedisOrphanedRuns(c) \/ RedisListCrons(c) \/ RedisDepth(c) \/ RedisDueCount(c) \/
            RedisNextDueAt(c)
    BY <1>3, NamedOthers, OtherNames DEF RedisOrphanedRuns, RedisListCrons, RedisDepth,
       RedisDueCount, RedisNextDueAt
<1>4. CASE RedisSuspendRun(c) BY <1>4, NamedOthers, OtherNames DEF RedisSuspendRun
<1>5. CASE RedisMarkTerminal(c) BY <1>5, NamedOthers, OtherNames DEF RedisMarkTerminal
<1>6. CASE RedisPostSignal(c) BY <1>6, NamedOthers, OtherNames DEF RedisPostSignal
<1>7. CASE RedisCancelRuns(c) BY <1>7, NamedOthers, OtherNames DEF RedisCancelRuns
<1>8. CASE RedisRetryRuns(c) BY <1>8, NamedOthers, OtherNames DEF RedisRetryRuns
<1>9. CASE RedisRetryRun(c) BY <1>9, NamedOthers, OtherNames DEF RedisRetryRun
<1>10. CASE RedisDeleteRuns(c) BY <1>10, NamedOthers, OtherNames DEF RedisDeleteRuns
<1>11. CASE RedisUpsertCron(c) BY <1>11, NamedOthers, OtherNames DEF RedisUpsertCron
<1>12. CASE RedisRemoveCron(c) BY <1>12, NamedOthers, OtherNames DEF RedisRemoveCron
<1>13. CASE RedisDueCrons(c) BY <1>13, NamedOthers, OtherNames DEF RedisDueCrons
<1>14. CASE RedisAdvanceCron(c) BY <1>14, NamedOthers, OtherNames DEF RedisAdvanceCron
<1>15. CASE RedisEnqueue(c) BY <1>15, NamedOthers, OtherNames DEF RedisEnqueue
<1>16. CASE RedisAck(c) BY <1>16, NamedOthers, OtherNames DEF RedisAck
<1>17. CASE RedisListRuns(c) BY <1>17, NamedOthers, OtherNames DEF RedisListRuns, Paging
<1>18. CASE RedisDueCronCount(c) BY <1>18, NamedOthers, OtherNames DEF RedisDueCronCount
<1> QED BY <1>1, <1>2, <1>3, <1>4, <1>5, <1>6, <1>7, <1>8, <1>9, <1>10, <1>11, <1>12, <1>13,
   <1>14, <1>15, <1>16, <1>17, <1>18 DEF RedisNext

LEMMA MongoSorts ==
  ASSUME NEW c, MongoNext(c)
  PROVE  MongoClaim(c) \/ MongoCheckpointStep(c) \/ MongoLoadRun(c) \/ Others(c)
<1>1. CASE MongoMarkRunning(c) \/ MongoArriveAtJoin(c) \/ MongoRetryRun(c) \/ MongoDeleteRuns(c)
            \/ MongoUpsertCron(c) \/ MongoRemoveCron(c) \/ MongoDueCrons(c) \/
            MongoAdvanceCron(c)
    BY <1>1, SharedOthers DEF MongoMarkRunning, MongoArriveAtJoin, MongoRetryRun, MongoDeleteRuns,
       MongoUpsertCron, MongoRemoveCron, MongoDueCrons, MongoAdvanceCron
<1>2. CASE MongoEnqueue(c) \/ MongoHeartbeat(c) \/ MongoAck(c) \/ MongoSchedule(c) \/
            MongoCancelTimer(c) \/ Refuses(c) \/ MongoListRuns(c)
    BY <1>2, SharedOthers DEF MongoEnqueue, MongoHeartbeat, MongoAck, MongoSchedule,
       MongoCancelTimer, MongoListRuns
<1>3. CASE MongoStartRun(c) \/ MongoStartManyRuns(c) \/ MongoLoadRunRows(c) \/
            MongoChildrenOf(c) \/ MongoRunStats(c)
    BY <1>3, NamedOthers, OtherNames DEF MongoStartRun, MongoStartManyRuns, MongoLoadRunRows,
       MongoChildrenOf, MongoRunStats
<1>4. CASE MongoListCrons(c) \/ MongoDueCronCount(c) \/ MongoNextDueAt(c)
    BY <1>4, NamedOthers, OtherNames DEF MongoListCrons, MongoDueCronCount, MongoNextDueAt
<1>5. CASE MongoSuspendRun(c) BY <1>5, NamedOthers, OtherNames DEF MongoSuspendRun
<1>6. CASE MongoMarkTerminal(c) BY <1>6, NamedOthers, OtherNames DEF MongoMarkTerminal
<1>7. CASE MongoPostSignal(c) BY <1>7, NamedOthers, OtherNames DEF MongoPostSignal
<1>8. CASE MongoCancelRuns(c) BY <1>8, NamedOthers, OtherNames DEF MongoCancelRuns
<1>9. CASE MongoRetryRuns(c) BY <1>9, NamedOthers, OtherNames DEF MongoRetryRuns
<1>10. CASE MongoDueBatch(c) BY <1>10, NamedOthers, OtherNames DEF MongoDueBatch
<1>11. CASE MongoOrphanedRuns(c) BY <1>11, NamedOthers, OtherNames DEF MongoOrphanedRuns
<1>12. CASE MongoDepth(c) BY <1>12, NamedOthers, OtherNames DEF MongoDepth
<1>13. CASE MongoDueCount(c) BY <1>13, NamedOthers, OtherNames DEF MongoDueCount
<1> QED BY <1>1, <1>2, <1>3, <1>4, <1>5, <1>6, <1>7, <1>8, <1>9, <1>10, <1>11, <1>12, <1>13 DEF
   MongoNext

LEMMA DynamoSorts ==
  ASSUME NEW c, DynamoNext(c)
  PROVE  DynamoClaim(c) \/ DynamoCheckpointStep(c) \/ DynamoLoadRun(c) \/ Others(c)
<1>1. CASE DynamoMarkRunning(c) \/ DynamoArriveAtJoin(c) \/ DynamoRetryRun(c) \/
            DynamoDeleteRuns(c) \/ DynamoRemoveCron(c) \/ DynamoDueCrons(c) \/
            DynamoAdvanceCron(c) \/ DynamoEnqueue(c)
    BY <1>1, SharedOthers DEF DynamoMarkRunning, DynamoArriveAtJoin, DynamoRetryRun,
       DynamoDeleteRuns, DynamoRemoveCron, DynamoDueCrons, DynamoAdvanceCron, DynamoEnqueue
<1>2. CASE DynamoHeartbeat(c) \/ DynamoAck(c) \/ DynamoSchedule(c) \/ DynamoCancelTimer(c) \/
            Refuses(c) \/ DynamoListRuns(c)
    BY <1>2, SharedOthers DEF DynamoHeartbeat, DynamoAck, DynamoSchedule, DynamoCancelTimer,
       DynamoListRuns
<1>3. CASE DynamoStartRun(c) \/ DynamoLoadRunRows(c) \/ DynamoChildrenOf(c) \/ DynamoRunStats(c)
            \/ DynamoListCrons(c)
    BY <1>3, NamedOthers, OtherNames DEF DynamoGathers, DynamoStartRun, DynamoLoadRunRows, DynamoChildrenOf,
       DynamoRunStats, DynamoListCrons
<1>4. CASE DynamoDueCronCount(c) \/ DynamoNextDueAt(c)
    BY <1>4, NamedOthers, OtherNames DEF DynamoDueCronCount, DynamoNextDueAt
<1>5. CASE DynamoStartManyRuns(c) BY <1>5, NamedOthers, OtherNames DEF DynamoStartManyRuns
<1>6. CASE DynamoSuspendRun(c) BY <1>6, NamedOthers, OtherNames DEF DynamoSuspendRun
<1>7. CASE DynamoMarkTerminal(c) BY <1>7, NamedOthers, OtherNames DEF DynamoMarkTerminal
<1>8. CASE DynamoPostSignal(c) BY <1>8, NamedOthers, OtherNames DEF DynamoPostSignal
<1>9. CASE DynamoCancelRuns(c)
    BY <1>9, NamedOthers, OtherNames DEF DynamoCancelRuns, DynamoMatching
<1>10. CASE DynamoRetryRuns(c)
    BY <1>10, NamedOthers, OtherNames DEF DynamoRetryRuns, DynamoMatching
<1>11. CASE DynamoUpsertCron(c) BY <1>11, NamedOthers, OtherNames DEF DynamoUpsertCron
<1>12. CASE DynamoDueBatch(c) BY <1>12, NamedOthers, OtherNames DEF DynamoDueBatch
<1>13. CASE DynamoOrphanedRuns(c)
    BY <1>13, NamedOthers, OtherNames DEF DynamoOrphanedRuns, DynamoGathers
<1>14. CASE DynamoDepth(c) BY <1>14, NamedOthers, OtherNames DEF DynamoDepth
<1>15. CASE DynamoDueCount(c) BY <1>15, NamedOthers, OtherNames DEF DynamoDueCount
<1> QED BY <1>1, <1>2, <1>3, <1>4, <1>5, <1>6, <1>7, <1>8, <1>9, <1>10, <1>11, <1>12, <1>13,
   <1>14, <1>15 DEF DynamoNext

-----------------------------------------------------------------------------
(* The book: what the store promises of each run *)

(* The calls that create a run, and those that are left of a program. *)
Starting == {q \in Requests : q.op \in {"start", "startMany"}}
Bearing == {q \in Requests : q.op = "checkpoint" /\ q.arg = "spawn"}
Asked(program) == {program[i] : i \in 1..Len(program)}
Yet(c) == Asked(todo[c])
Only(programs, c) == [b \in Clients |-> IF b = c THEN programs[c] ELSE <<>>]

(* A run is created under an id of its own: a client creates the run of its number by a    *)
(* start or by a spawn, if it is not there, and no run spawns itself.  Redis writes a      *)
(* child over the one that is there, if its parent is made to spawn it twice.             *)
NewIds ==
  \A k \in Cases, c \in Clients :
    LET calls == Asked(k.calls[c])
    IN  /\ calls \cap Starting = {} \/ calls \cap Bearing = {}
        /\ There(k.tables, c) /\ k.tables.key = NoOne => calls \cap Starting = {}
        /\ \A q \in calls \cap Bearing : q.run # c
        /\ k.backend = "redis" => /\ OneLeft(Only(k.calls, c), Bearing)
                                  /\ There(k.tables, c) => NoneLeft(Only(k.calls, c), Bearing)

(* No flow waits for a signal for a time. *)
NoWaits == \A q \in Requests : q.op = "checkpoint" => q.arg \in {"step", "spawn"}

(* Nobody cancels or retries a set of runs on MongoDB, which writes over what it has read. *)
InBulk == {q \in Requests : q.op \in {"cancelRuns", "retryRuns"}}
NoBulk == \A k \in Cases, c \in Clients : k.backend = "mongodb" => Asked(k.calls[c]) \cap InBulk = {}

Legible ==
  /\ db.mail \in [Runs -> BOOLEAN] /\ db.sent \in [Runs -> BOOLEAN]
  /\ \A r \in Runs : db.mail[r] => db.sent[r]
  /\ DOMAIN db.log = Runs /\ \A r \in Runs : DOMAIN db.log[r] = Positions
Separate(c) ==
  /\ Yet(c) \cap Starting = {} \/ Yet(c) \cap Bearing = {}
  /\ There(db, c) /\ db.key = NoOne => Yet(c) \cap Starting = {}
  /\ \A q \in Yet(c) \cap Bearing : q.run # c
  /\ host.backend = "mongodb" => Yet(c) \cap InBulk = {}
BornOnce(c) ==
  host.backend = "redis" => /\ OneLeft(Only(Ahead, c), Bearing)
                            /\ There(db, c) => NoneLeft(Only(Ahead, c), Bearing)
SeenFirst(c) ==
  host.backend \in LooksAhead /\ todo[c] # <<>> /\ Call(c).op = "checkpoint" /\ at[c].pc # "call" =>
    There(db, Call(c).run)
Shelf == Legible /\ \A c \in Clients : Separate(c) /\ BornOnce(c) /\ SeenFirst(c)

(* Runs come and stay. *)
LEMMA RunsStay ==
  ASSUME ~Purges, Inv, NEW c \in Clients, Deed(c), NEW r \in Runs
  PROVE  /\ There(db, r) => There(db', r)
         /\ There(db', r) => There(db, r) \/ (r = c /\ (Starts(c) \/ (Commits(c) /\ Spawns(c))))
<1>1. Fresh # NoRun /\ NoRun.status \notin Active \cup Terminal BY DEF Fresh, NoRun, Active, Terminal
<1>2. todo[c] # <<>> /\ Call(c).op # "purge" BY DeedsEnd, NobodyPurges
<1>3. CASE Starts(c) BY <1>1, <1>3 DEF Starts, There
<1>4. CASE Commits(c)
  <2>1. CASE r = c
    <3>1. db'.row[c] = db.row[c] \/ (Spawns(c) /\ db'.row[c] = Fresh)
        BY <1>4, ClientsAreNumbers DEF Commits, CommitOf
    <3> QED BY <1>1, <1>4, <2>1, <3>1 DEF There
  <2>2. CASE r # c BY <1>4, <2>2 DEF Commits, CommitOf, There
  <2> QED BY <2>1, <2>2
<1>5. CASE Rewrites(c)
  <2>1. CASE db'.row[r] = db.row[r] BY <2>1 DEF There
  <2>2. CASE Changes(c, r)
    <3>1. There(db, r) BY <1>1, <2>2 DEF Changes, LiveIn, There
    <3>2. There(db', r) BY <1>1, <2>2 DEF Changes, There
    <3> QED BY <3>1, <3>2
  <2> QED BY <1>5, <2>1, <2>2 DEF Rewrites
<1>6. CASE Reopens(c)
  <2>1. r \in Failed(db) => There(db, r)
    <3>1. NoRun.status # "failed" BY DEF NoRun
    <3> QED BY <3>1 DEF Failed, There
  <2> QED BY <1>1, <1>6, <2>1 DEF Reopens, There
<1>7. CASE Idles(c) BY <1>7, KeptByName DEF Idles, There
<1>8. CASE Arrives(c) \/ Delivers(c) \/ Recrons(c)
    BY <1>8 DEF Arrives, Delivers, Recrons, Keep, Papers, There
<1> QED BY <1>2, <1>3, <1>4, <1>5, <1>6, <1>7, <1>8 DEF Deed, Clears

LEMMA YetShrinks ==
  ASSUME Inv, NEW c \in Clients, Deed(c)
  PROVE  Call(c) \in Yet(c) /\ Call(c) \in Requests /\ \A b \in Clients : Yet(b)' \subseteq Yet(b)
<1>1. /\ todo[c] # <<>> /\ Call(c) \in Requests /\ todo[c] \in Seq(Requests) /\ DOMAIN todo = Clients
      /\ todo' = todo \/ todo' = [todo EXCEPT ![c] = Tail(@)] \/ todo' = [todo EXCEPT ![c] = <<>>]
  <2>1. todo[c] # <<>> BY DeedsEnd
  <2>2. Call(c) \in Requests BY <2>1, CalledIsOfCase
  <2> QED BY <2>1, <2>2, DeedsEnd DEF Inv
<1>2. /\ Len(todo[c]) \in Nat /\ Len(todo[c]) >= 1 /\ Call(c) = todo[c][1]
      /\ \A i \in 1..Len(Tail(todo[c])) : i + 1 \in 1..Len(todo[c]) /\ Tail(todo[c])[i] = todo[c][i + 1]
    BY <1>1, ShorterTail DEF Call
<1>3. Call(c) \in Yet(c) BY <1>2 DEF Yet, Asked
<1>4. ASSUME NEW b \in Clients PROVE Yet(b)' \subseteq Yet(b)
  <2>1. CASE todo'[b] = todo[b] BY <2>1 DEF Yet, Asked
  <2>2. CASE b = c /\ todo'[b] = <<>>
    <3>1. Len(<<>>) = 0 OBVIOUS
    <3> QED BY <2>2, <3>1 DEF Yet, Asked
  <2>3. CASE b = c /\ todo'[b] = Tail(todo[b]) BY <1>2, <2>3 DEF Yet, Asked
  <2> QED BY <1>1, <2>1, <2>2, <2>3
<1> QED BY <1>1, <1>3, <1>4

(* The first look of such a checkpoint writes nothing, and finds the run or gives up. *)
LEMMA LooksFirst ==
  ASSUME Inv, NEW c \in Clients, Acts(c), host.backend \in LooksAhead, todo[c] # <<>>,
         Call(c).op = "checkpoint", at[c].pc = "call"
  PROVE  db' = db /\ (There(db, Call(c).run) \/ at'[c].pc = "call")
<1>1. MySqlNext(c) \/ MongoNext(c) BY DEF Acts, LooksAhead
<1>2. ~Others(c) BY DEF Others, Watchful
<1>3. CASE Throws(c) BY <1>3, ThrowsQuits DEF Quits
<1>4. CASE There(db, Call(c).run) /\ \E pc, got : Writes(c, db, pc) \/ Reads(c, pc, got)
    BY <1>4 DEF Writes, Reads, Goes
<1>5. CASE There(db, Call(c).run) /\ (Replayed(c) \/ Refused(c))
    BY <1>5 DEF Replayed, Refused, Ends, EndsWith
<1>6. CASE MySqlNext(c)
  <2>1. ~MySqlClaim(c) BY DEF MySqlClaim, ClaimOneOf, Calls, On
  <2>2. ~MySqlLoadRun(c) BY DEF MySqlLoadRun, LoadLogFirst, LoadMailFirst, Calls, On
  <2>3. MySqlCheckpointStep(c) BY <1>2, <1>6, <2>1, <2>2, MySqlSorts
  <2> QED BY <1>3, <1>4, <2>3 DEF MySqlCheckpointStep, Calls, On
<1>7. CASE MongoNext(c)
  <2>1. ~MongoClaim(c) BY DEF MongoClaim, ClaimThenLease, Candidates, Calls, On
  <2>2. ~MongoLoadRun(c) BY DEF MongoLoadRun, LoadLogFirst, LoadMailFirst, Calls, On
  <2>3. MongoCheckpointStep(c) BY <1>2, <1>7, <2>1, <2>2, MongoSorts
  <2> QED BY <1>3, <1>4, <1>5, <2>3 DEF MongoCheckpointStep, Calls, On
<1> QED BY <1>1, <1>6, <1>7

LEMMA SpawnsAreBearing ==
  ASSUME Inv, NEW c \in Clients, Deed(c), Commits(c), Spawns(c)
  PROVE  Call(c) \in Bearing
<1>1. Call(c) \in Requests BY YetShrinks
<1>2. Call(c).arg = "spawn" BY DEF Spawns, Entry, Wait
<1> QED BY <1>1, <1>2 DEF Commits, Bearing

LEMMA AheadIsYet ==
  ASSUME Inv, NEW c \in Clients
  PROVE  Asked(Ahead[c]) \subseteq Yet(c)
<1>1. todo[c] \in Seq(Requests) BY DEF Inv
<1>2. CASE Ahead[c] = todo[c] BY <1>2 DEF Yet, Asked
<1>3. CASE todo[c] # <<>> /\ Ahead[c] = Tail(todo[c])
  <2>1. \A i \in 1..Len(Tail(todo[c])) : i + 1 \in 1..Len(todo[c]) /\ Tail(todo[c])[i] = todo[c][i + 1]
      BY <1>1, <1>3, ShorterTail
  <2> QED BY <1>3, <2>1 DEF Yet, Asked
<1> QED BY <1>2, <1>3 DEF Ahead

LEMMA LegibleKept ==
  ASSUME ~Purges, Inv, Legible, NEW c \in Clients, Deed(c)
  PROVE  Legible'
<1>1. todo[c] # <<>> /\ Call(c).op # "purge" /\ Call(c).run \in Runs
    BY DeedsEnd, NobodyPurges, CalledRequest
<1>2. CASE Commits(c)
  <2>1. /\ db'.log = [db.log EXCEPT ![Call(c).run][Free(c)] = Entry(c)] /\ db'.sent = db.sent
        /\ db'.mail = db.mail \/ db'.mail = [db.mail EXCEPT ![Call(c).run] = FALSE]
      BY <1>2 DEF Commits, CommitOf, Keep
  <2>2. DOMAIN db'.log = Runs /\ \A r \in Runs : DOMAIN db'.log[r] = Positions BY <2>1 DEF Legible
  <2>3. db'.mail \in [Runs -> BOOLEAN] /\ \A r \in Runs : db'.mail[r] => db.mail[r]
    <3>1. CASE db'.mail = db.mail BY <3>1 DEF Legible
    <3>2. CASE db'.mail = [db.mail EXCEPT ![Call(c).run] = FALSE] BY <3>2 DEF Legible
    <3> QED BY <2>1, <3>1, <3>2
  <2> QED BY <2>1, <2>2, <2>3 DEF Legible
<1>3. CASE Delivers(c)
  <2>1. /\ db'.log = db.log
        /\ db'.mail = [db.mail EXCEPT ![Call(c).run] = TRUE]
        /\ db'.sent = [db.sent EXCEPT ![Call(c).run] = TRUE]
      BY <1>3 DEF Delivers, Keep, Papers
  <2> QED BY <2>1 DEF Legible
<1>4. CASE ~Commits(c) /\ ~Delivers(c)
  <2>1. db'.log = db.log /\ db'.mail = db.mail /\ db'.sent = db.sent
    BY <1>1, <1>4, KeptByName
       DEF Deed, Idles, Starts, Rewrites, Reopens, Arrives, Clears, Recrons, Keep, Papers
  <2> QED BY <2>1 DEF Legible
<1> QED BY <1>2, <1>3, <1>4

LEMMA SeparateKept ==
  ASSUME ~Purges, Inv, NEW c \in Clients, Deed(c), NEW b \in Clients, Separate(b)
  PROVE  Separate(b)'
<1>1. Yet(b)' \subseteq Yet(b) /\ Call(c) \in Yet(c) /\ host' = host BY YetShrinks, DeedsEnd
<1>2. ASSUME There(db', b), db'.key = NoOne PROVE Yet(b)' \cap Starting = {}
  <2>1. ~Starts(c) BY <1>2, ClientsAreNumbers DEF Starts, NoOne
  <2>2. db.key = NoOne
    <3>1. Call(c).op # "purge" BY DeedsEnd, NobodyPurges
    <3>2. db'.key = db.key
      BY <2>1, <3>1, KeptByName
         DEF Deed, Idles, Commits, CommitOf, Rewrites, Reopens, Arrives, Delivers, Clears, Recrons, Keep, Papers
    <3> QED BY <1>2, <3>2
  <2>3. CASE There(db, b) BY <1>1, <2>2, <2>3 DEF Separate
  <2>4. CASE ~There(db, b)
    <3>1. b \in Runs BY ClientsAreNumbers
    <3>2. b = c /\ Commits(c) /\ Spawns(c) BY <1>2, <2>1, <2>4, <3>1, RunsStay
    <3>3. Yet(b) \cap Bearing # {} BY <1>1, <3>2, SpawnsAreBearing
    <3> QED BY <1>1, <3>3 DEF Separate
  <2> QED BY <2>3, <2>4
<1> QED BY <1>1, <1>2 DEF Separate

LEMMA BornOnceKept ==
  ASSUME ~Purges, Inv, Inv', NEW c \in Clients, Deed(c), NEW b \in Clients, Separate(b), BornOnce(b)
  PROVE  BornOnce(b)'
<1> SUFFICES ASSUME host.backend = "redis"
             PROVE  /\ OneLeft(Only(Ahead, b)', Bearing)
                    /\ There(db', b) => NoneLeft(Only(Ahead, b)', Bearing)
    BY DeedsEnd DEF BornOnce, OneLeft, NoneLeft, Bearing
<1>1. Ahead \in [Clients -> Seq(Requests)] BY AheadType
<1>2. b \in Runs BY ClientsAreNumbers
<1>3. CASE b # c
  <2>1. Ahead'[b] = Ahead[b] BY <1>3, AheadOfOthers
  <2>2. Only(Ahead, b)' = Only(Ahead, b) BY <2>1 DEF Only
  <2>3. There(db', b) => There(db, b) BY <1>2, <1>3, RunsStay
  <2> QED BY <2>2, <2>3 DEF BornOnce
<1>4. CASE b = c
  <2>1. PICK f : f = Only(Ahead, c) OBVIOUS
  <2>2. PICK g : g = Only(Ahead, c)' OBVIOUS
  <2>3. f \in [Clients -> Seq(Requests)] /\ f[c] = Ahead[c]
    <3>1. <<>> \in Seq(Requests) OBVIOUS
    <3> QED BY <1>1, <2>1, <3>1 DEF Only
  <2>4. DOMAIN g = Clients /\ g[c] = Ahead'[c] /\ \A a \in Clients \ {c} : g[a] = f[a]
      BY <2>1, <2>2 DEF Only
  <2>5. ASSUME NEW s, Ahead'[c] = s PROVE g = [f EXCEPT ![c] = s]
    <3>1. g = [a \in Clients |-> g[a]] BY <2>2 DEF Only
    <3>2. DOMAIN f = Clients BY <2>3
    <3>3. [f EXCEPT ![c] = s] = [a \in Clients |-> g[a]] BY <2>4, <2>5, <3>2
    <3> QED BY <3>1, <3>3
  <2>6. Ahead'[c] = Ahead[c] \/ (Ahead[c] # <<>> /\ (Ahead'[c] = Tail(Ahead[c]) \/ Ahead'[c] = <<>>))
    <3>1. PICK h : h = Ahead' OBVIOUS
    <3>2. h = Ahead \/ (Ahead[c] # <<>> /\ (h = [Ahead EXCEPT ![c] = Tail(@)] \/ h = [Ahead EXCEPT ![c] = <<>>]))
        BY <3>1, AheadShrinks
    <3>3. h[c] = Ahead[c] \/ (Ahead[c] # <<>> /\ (h[c] = Tail(Ahead[c]) \/ h[c] = <<>>)) BY <1>1, <3>2
    <3> QED BY <3>1, <3>3
  <2>7. g = f \/ (f[c] # <<>> /\ (g = [f EXCEPT ![c] = Tail(@)] \/ g = [f EXCEPT ![c] = <<>>]))
    <3>1. CASE Ahead'[c] = Ahead[c]
      <4>1. g = [f EXCEPT ![c] = f[c]] BY <2>3, <2>5, <3>1
      <4> QED BY <2>3, <4>1
    <3> QED BY <2>3, <2>5, <2>6, <3>1
  <2>8. PICK Q : Q = Bearing OBVIOUS
  <2>9. /\ OneLeft(f, Q) => OneLeft(g, Q)
        /\ NoneLeft(f, Q) => NoneLeft(g, Q)
        /\ f[c] # <<>> /\ OneLeft(f, Q) /\ Head(f[c]) \in Q /\ g # f => NoneLeft(g, Q)
      BY <2>3, <2>7, FewerLeft
  <2>10. OneLeft(f, Q) /\ (There(db, c) => NoneLeft(f, Q)) BY <1>4, <2>1, <2>8 DEF BornOnce
  <2>11. ASSUME There(db', c) PROVE NoneLeft(g, Q)
    <3>1. CASE There(db, c) BY <2>9, <2>10, <3>1
    <3>2. CASE Starts(c)
      <4>1. Yet(c) \cap Bearing = {} BY <1>4, <3>2, YetShrinks DEF Starts, Starting, Separate
      <4>2. \A i \in 1..Len(f[c]) : f[c][i] \notin Q BY <2>3, <2>8, <4>1, AheadIsYet DEF Asked
      <4>3. NoneLeft(f, Q)
        <5>1. \A a \in Clients \ {c} : f[a] = <<>> BY <2>1 DEF Only
        <5>2. Len(<<>>) = 0 OBVIOUS
        <5> QED BY <4>2, <5>1, <5>2 DEF NoneLeft
      <4> QED BY <2>9, <4>3
    <3>3. CASE Commits(c) /\ Spawns(c)
      <4>1. Ahead[c] = todo[c] /\ Ahead'[c] = Tail(Ahead[c]) BY <3>3, AheadShrinks
      <4>2. todo[c] # <<>> /\ todo[c] \in Seq(Requests) BY DeedsEnd DEF Inv
      <4>3. Len(Tail(todo[c])) # Len(todo[c]) BY <4>2, ShorterTail
      <4>4. g # f BY <2>3, <2>4, <4>1, <4>3
      <4>5. Head(f[c]) \in Q BY <2>3, <2>8, <3>3, <4>1, SpawnsAreBearing DEF Call
      <4> QED BY <2>3, <2>9, <2>10, <4>1, <4>2, <4>4, <4>5
    <3> QED BY <1>2, <1>4, <2>11, <3>1, <3>2, <3>3, RunsStay
  <2> QED BY <1>4, <2>2, <2>8, <2>9, <2>10, <2>11
<1> QED BY <1>3, <1>4

LEMMA SeenFirstKept ==
  ASSUME ~Purges, Inv, NEW c \in Clients, Acts(c), Deed(c), NEW b \in Clients, SeenFirst(b)
  PROVE  SeenFirst(b)'
<1> SUFFICES ASSUME host.backend \in LooksAhead, todo'[b] # <<>>, Call(b)'.op = "checkpoint", at'[b].pc # "call"
             PROVE  There(db', Call(b)'.run)
    BY DeedsEnd DEF SeenFirst
<1>1. todo'[b] = todo[b] /\ Call(b)' = Call(b)
  <2>1. CASE b # c
    <3>1. todo'[b] = todo[b] BY <2>1, DeedsEnd DEF Inv
    <3> QED BY <3>1 DEF Call
  <2>2. CASE b = c
    <3>1. Pauses(c)
      <4>1. Pauses(c) \/ Quits(c) \/ \E a : Says(c, a)
          BY DEF Deed, Idles, Starts, Commits, Rewrites, Reopens, Arrives, Delivers, Clears, Recrons, GoesOn
      <4> QED BY <2>2, <4>1 DEF Quits, Says
    <3> QED BY <2>2, <3>1 DEF Pauses, Call
  <2> QED BY <2>1, <2>2
<1>2. There(db, Call(b).run)
  <2>1. CASE at[b].pc # "call" BY <1>1, <2>1 DEF SeenFirst
  <2>2. CASE b = c /\ at[b].pc = "call" BY <1>1, <2>2, LooksFirst
  <2>3. CASE b # c /\ at[b].pc = "call"
    <3>1. at'[b] = at[b] BY <2>3, DeedsEnd DEF Alone
    <3> QED BY <2>3, <3>1
  <2> QED BY <2>1, <2>2, <2>3
<1>3. Call(b).run \in Runs BY <1>1, CalledRequest
<1> QED BY <1>1, <1>2, <1>3, RunsStay

LEMMA ShelfKept ==
  ASSUME ~Purges, Inv, Inv', Shelf, [Next]_vars
  PROVE  Shelf'
<1>1. CASE Passing
  <2>1. /\ db'.row = db.row /\ db'.log = db.log /\ db'.mail = db.mail /\ db'.sent = db.sent
        /\ db'.key = db.key
      BY <1>1, KeptByName DEF Passing
  <2>2. todo' = todo /\ host'.backend = host.backend /\ \A c \in Clients : at'[c].pc = at[c].pc
      BY <1>1 DEF Passing
  <2>3. \A r : There(db', r) = There(db, r) BY <2>1 DEF There
  <2>4. Legible' BY <2>1 DEF Shelf, Legible
  <2>5. \A c : Call(c)' = Call(c) /\ Yet(c)' = Yet(c) BY <2>2 DEF Call, Yet
  <2>6. Ahead' = Ahead BY <2>2, <2>5 DEF Ahead, ReadsBack
  <2>7. ASSUME NEW c \in Clients PROVE Separate(c)' /\ BornOnce(c)' /\ SeenFirst(c)'
    <3>1. Separate(c)' BY <2>1, <2>2, <2>3, <2>5 DEF Shelf, Separate, Starting, Bearing, InBulk
    <3>2. BornOnce(c)' BY <2>2, <2>3, <2>6 DEF Shelf, BornOnce, OneLeft, NoneLeft, Only, Bearing
    <3>3. SeenFirst(c)' BY <2>2, <2>3, <2>5 DEF Shelf, SeenFirst
    <3> QED BY <3>1, <3>2, <3>3
  <2> QED BY <2>4, <2>7 DEF Shelf
<1>2. ASSUME NEW c \in Clients, Acts(c), Deed(c) PROVE Shelf'
    BY <1>2, LegibleKept, SeparateKept, BornOnceKept, SeenFirstKept DEF Shelf
<1> QED BY <1>1, <1>2, StepsAreDeeds

LEMMA ShelfAtFirst == NewIds /\ NoBulk /\ Init => Shelf
<1> SUFFICES ASSUME NewIds, NoBulk, Init PROVE Shelf
    OBVIOUS
<1>1. PICK k \in Cases : db = k.tables /\ todo = k.calls /\ host.backend = k.backend BY DEF Init
<1>2. LegalTables(db) BY <1>1, CasesAssumption
<1>3. db \in Tables /\ \A r \in Runs : db.mail[r] => db.sent[r] BY <1>2 DEF LegalTables
<1>4. Legible
  <2>1. db.mail \in [Runs -> BOOLEAN] /\ db.sent \in [Runs -> BOOLEAN] BY <1>3 DEF Tables
  <2>2. DOMAIN db.log = Runs /\ \A r \in Runs : DOMAIN db.log[r] = Positions BY <1>3 DEF Tables
  <2> QED BY <1>3, <2>1, <2>2 DEF Legible
<1>5. \A c \in Clients : at[c].pc = "call" BY DEF Init, Ready
<1>6. Ahead = k.calls
  <2>1. \A c \in Clients : ~ReadsBack(c) BY <1>5 DEF ReadsBack
  <2>2. k.calls = [c \in Clients |-> k.calls[c]] BY CasesAssumption
  <2> QED BY <1>1, <2>1, <2>2 DEF Ahead
<1>7. ASSUME NEW c \in Clients PROVE Separate(c) /\ BornOnce(c) /\ SeenFirst(c)
  <2>1. Yet(c) = Asked(k.calls[c]) BY <1>1 DEF Yet
  <2>2. Separate(c) BY <1>1, <2>1 DEF Separate, NewIds, NoBulk
  <2>3. BornOnce(c) BY <1>1, <1>6 DEF BornOnce, NewIds
  <2>4. SeenFirst(c) BY <1>5 DEF SeenFirst
  <2> QED BY <2>2, <2>3, <2>4
<1> QED BY <1>4, <1>7 DEF Shelf

-----------------------------------------------------------------------------
(* What a deed makes of a page of the book *)

Turns(r) ==
  LET b == Book[r]
      n == Book'[r]
  IN  n = b \/ Promise!Created(b, n) \/ Promise!Concluded(b, n) \/ Promise!Reopened(b, n)
      \/ Promise!Delivered(b, n) \/ Promise!Recorded(b, n)

Life(d, r) == IF ~There(d, r) THEN "absent" ELSE IF LiveIn(d, r) THEN "live" ELSE d.row[r].status
Mail(d, r) == IF d.mail[r] THEN "waiting" ELSE IF d.sent[r] THEN "used" ELSE "unsent"
Page(life, memo, mail) == [life |-> life, memo |-> memo, mail |-> mail]

LEMMA PageOf ==
  ASSUME NEW r \in Runs
  PROVE  /\ Book[r] = Page(Life(db, r), db.log[r], Mail(db, r))
         /\ Book'[r] = Page(Life(db', r), db'.log[r], Mail(db', r))
BY DEF Book, Page, Life, Mail, There, LiveIn

(* Nothing of a page that is not its life. *)
LEMMA OnlyLife ==
  ASSUME NEW r \in Runs, db'.log[r] = db.log[r], db'.mail[r] = db.mail[r], db'.sent[r] = db.sent[r],
         \/ db'.row[r] = db.row[r]
         \/ ~There(db, r) /\ db'.row[r] = Fresh
         \/ LiveIn(db, r) /\ db'.row[r].status \in Active \cup Terminal
         \/ db.row[r].status = "failed" /\ db'.row[r] = Fresh
  PROVE  Turns(r)
<1>1. PICK log, mail : log = db.log[r] /\ mail = Mail(db, r) OBVIOUS
<1>2. Book[r] = Page(Life(db, r), log, mail) /\ Book'[r] = Page(Life(db', r), log, mail)
    BY <1>1, PageOf DEF Mail
<1>3. \A l, m : [Page(l, log, mail) EXCEPT !.life = m] = Page(m, log, mail) BY DEF Page
<1>4. \A l : Page(l, log, mail).life = l BY DEF Page
<1>5. Fresh # NoRun /\ Fresh.status \in Active /\ NoRun.status \notin Active \cup Terminal
    BY DEF Fresh, NoRun, Active, Terminal
<1>6. CASE db'.row[r] = db.row[r]
  <2>1. Life(db', r) = Life(db, r) BY <1>6 DEF Life, There, LiveIn
  <2> QED BY <1>2, <2>1 DEF Turns
<1>7. CASE ~There(db, r) /\ db'.row[r] = Fresh
  <2>1. Life(db, r) = "absent" /\ Life(db', r) = "live" BY <1>5, <1>7 DEF Life, There, LiveIn
  <2>2. Promise!Created(Book[r], Book'[r]) BY <1>2, <1>3, <1>4, <2>1 DEF Promise!Created
  <2> QED BY <2>2 DEF Turns
<1>8. CASE LiveIn(db, r) /\ db'.row[r].status \in Active \cup Terminal
  <2>1. Life(db, r) = "live" BY <1>5, <1>8 DEF Life, There, LiveIn
  <2>2. CASE db'.row[r].status \in Active
    <3>1. Life(db', r) = "live" BY <1>5, <2>2 DEF Life, There, LiveIn
    <3> QED BY <1>2, <2>1, <3>1 DEF Turns
  <2>3. CASE db'.row[r].status \in Terminal
    <3>1. PICK o : o = db'.row[r].status OBVIOUS
    <3>2. Life(db', r) = o /\ o \in Promise!Outcomes
        BY <1>5, <2>3, <3>1 DEF Life, There, LiveIn, Active, Terminal, Promise!Outcomes
    <3>3. Promise!Concluded(Book[r], Book'[r]) BY <1>2, <1>3, <1>4, <2>1, <3>2 DEF Promise!Concluded
    <3> QED BY <3>3 DEF Turns
  <2> QED BY <1>8, <2>2, <2>3
<1>9. CASE db.row[r].status = "failed" /\ db'.row[r] = Fresh
  <2>1. Life(db, r) = "failed" /\ Life(db', r) = "live"
      BY <1>5, <1>9 DEF Life, There, LiveIn, NoRun, Active
  <2>2. Promise!Reopened(Book[r], Book'[r]) BY <1>2, <1>3, <1>4, <2>1 DEF Promise!Reopened
  <2> QED BY <2>2 DEF Turns
<1> QED BY <1>6, <1>7, <1>8, <1>9

(* A commit writes a free position of its run, which is there; the child is another run. *)
LEMMA CommitTurns ==
  ASSUME ~Purges, NoWaits, Inv, Shelf, NEW c \in Clients, Acts(c), Deed(c), Commits(c), NEW r \in Runs
  PROVE  Turns(r)
<1> DEFINE q == Call(c).run
<1>1. Call(c) \in Requests /\ Call(c) \in Yet(c) /\ q \in Runs /\ todo[c] # <<>> /\ Call(c).op = "checkpoint"
    BY YetShrinks, CalledRequest, DeedsEnd DEF Commits
<1>2. Free(c) \in Positions BY DEF Free, Positions
<1>3. Entry(c).what \in {"step", "spawn"} /\ ~Uses(c) /\ Entry(c) # NoEntry
  <2>1. Call(c).arg \in {"step", "spawn"} BY <1>1 DEF NoWaits
  <2>2. Entry(c).what = Call(c).arg /\ Entry(c).by = c BY <2>1 DEF Entry, Wait
  <2>3. c # 0 BY ClientsAreNumbers
  <2> QED BY <2>1, <2>2, <2>3 DEF Uses, NoEntry
<1>4. /\ db'.log = [db.log EXCEPT ![q][Free(c)] = Entry(c)] /\ db'.mail = db.mail /\ db'.sent = db.sent
      /\ \A p \in Runs \ {c} : db'.row[p] = db.row[p]
      /\ db'.row[c] = db.row[c] \/ (Spawns(c) /\ db'.row[c] = Fresh)
    BY <1>3, ClientsAreNumbers DEF Commits, CommitOf, Keep
<1>5. db.log[q][Free(c)] = NoEntry BY DEF Commits, Taken
<1>6. DOMAIN db.log = Runs /\ \A p \in Runs : DOMAIN db.log[p] = Positions BY DEF Shelf, Legible
<1>7. Spawns(c) => q # c BY <1>1, SpawnsAreBearing DEF Shelf, Separate
<1>8. CASE r = q
  <2>1. db'.row[r] = db.row[r] BY <1>1, <1>4, <1>7, <1>8
  <2>2. There(db, r)
    <3>1. CASE host.backend \notin LooksAhead BY <1>8, <3>1 DEF Commits
    <3>2. CASE host.backend \in LooksAhead
      <4>1. db' # db BY <1>1, <1>2, <1>3, <1>4, <1>5, <1>6
      <4>2. at[c].pc # "call" BY <1>1, <3>2, <4>1, LooksFirst
      <4> QED BY <1>1, <1>8, <3>2, <4>2 DEF Shelf, SeenFirst
    <3> QED BY <3>1, <3>2
  <2>3. PICK memo, life, mail : memo = db.log[r] /\ life = Life(db, r) /\ mail = Mail(db, r) OBVIOUS
  <2>4. PICK p \in Positions : p = Free(c) BY <1>2
  <2>5. PICK e : e = Entry(c) OBVIOUS
  <2>6. db'.log[r] = [memo EXCEPT ![p] = e] /\ DOMAIN memo = Positions /\ memo[p] = NoEntry
      BY <1>1, <1>4, <1>5, <1>6, <1>8, <2>3, <2>4, <2>5
  <2>7. Life(db', r) = life /\ Mail(db', r) = mail
      BY <1>4, <2>1, <2>3 DEF Life, Mail, There, LiveIn
  <2>8. Book[r] = Page(life, memo, mail) /\ Book'[r] = Page(life, [memo EXCEPT ![p] = e], mail)
      BY <2>3, <2>6, <2>7, PageOf
  <2>9. life # "absent"
    <3>1. db.row[r].status # "absent" BY <2>2 DEF Inv, Fits, RowsFit, WholeRow, There
    <3> QED BY <2>2, <2>3, <3>1 DEF Life
  <2>10. e # NoEntry /\ e.what \in {"step", "spawn"} BY <1>3, <2>5
  <2>11. Promise!Recorded(Book[r], Book'[r])
    <3>1. PICK n : n = [memo EXCEPT ![p] = e] OBVIOUS
    <3>2. n[p] = e /\ n = [memo EXCEPT ![p] = n[p]] BY <2>6, <3>1
    <3>3. Book[r] = Page(life, memo, mail) /\ Book'[r] = Page(life, n, mail) BY <2>8, <3>1
    <3> QED BY <2>6, <2>9, <2>10, <3>2, <3>3 DEF Promise!Recorded, Page
  <2> QED BY <2>11 DEF Turns
<1>9. CASE r # q
  <2>1. db'.log[r] = db.log[r] BY <1>4, <1>6, <1>9
  <2>2. db'.row[r] = db.row[r] \/ (~There(db, r) /\ db'.row[r] = Fresh)
    <3>1. CASE r = c /\ Spawns(c) /\ There(db, c)
      <4>1. CASE host.backend # "redis" BY <3>1, <4>1 DEF Commits
      <4>2. CASE host.backend = "redis"
        <5>1. PICK f : f = Only(Ahead, c) OBVIOUS
        <5>2. NoneLeft(f, Bearing) BY <3>1, <4>2, <5>1 DEF Shelf, BornOnce
        <5>3. Ahead[c] = todo[c] BY AheadShrinks
        <5>4. f[c] = todo[c] /\ todo[c] \in Seq(Requests) BY <5>1, <5>3 DEF Only, Inv
        <5>5. 1 \in 1..Len(f[c]) /\ f[c][1] = Call(c) BY <1>1, <5>4, ShorterTail DEF Call
        <5>6. Call(c) \in Bearing BY <3>1, SpawnsAreBearing
        <5> QED BY <5>2, <5>5, <5>6 DEF NoneLeft
      <4> QED BY <4>1, <4>2
    <3>2. CASE ~(r = c /\ Spawns(c) /\ There(db, c)) BY <1>4, <3>2
    <3> QED BY <3>1, <3>2
  <2> QED BY <1>4, <2>1, <2>2, OnlyLife
<1> QED BY <1>8, <1>9

(* A delivery: the signal was not there, nor used. *)
LEMMA DeliveryTurns ==
  ASSUME Inv, Shelf, NEW c \in Clients, Deed(c), Delivers(c), NEW r \in Runs
  PROVE  Turns(r)
<1>1. /\ ~db.sent[Call(c).run] /\ db'.row = db.row /\ db'.log = db.log
      /\ db'.mail = [db.mail EXCEPT ![Call(c).run] = TRUE] /\ db'.sent = [db.sent EXCEPT ![Call(c).run] = TRUE]
    BY DEF Delivers, Keep, Papers
<1>2. db.mail \in [Runs -> BOOLEAN] /\ db.sent \in [Runs -> BOOLEAN] /\ (db.mail[r] => db.sent[r])
    BY DEF Shelf, Legible
<1>3. CASE r = Call(c).run
  <2>1. PICK life, memo : life = Life(db, r) /\ memo = db.log[r] OBVIOUS
  <2>2. Life(db', r) = life /\ db'.log[r] = memo BY <1>1, <2>1 DEF Life, There, LiveIn
  <2>3. Mail(db, r) = "unsent" /\ Mail(db', r) = "waiting" BY <1>1, <1>2, <1>3 DEF Mail
  <2>4. Book[r] = Page(life, memo, "unsent") /\ Book'[r] = Page(life, memo, "waiting")
      BY <2>1, <2>2, <2>3, PageOf
  <2>5. Promise!Delivered(Book[r], Book'[r]) BY <2>4 DEF Promise!Delivered, Page
  <2> QED BY <2>5 DEF Turns
<1>4. CASE r # Call(c).run
  <2>1. db'.mail[r] = db.mail[r] /\ db'.sent[r] = db.sent[r] BY <1>1, <1>2, <1>4
  <2> QED BY <1>1, <2>1, OnlyLife
<1> QED BY <1>3, <1>4

LEMMA DeedTurns ==
  ASSUME ~Purges, NoWaits, Inv, Shelf, NEW c \in Clients, Acts(c), Deed(c), NEW r \in Runs
  PROVE  Turns(r)
<1>1. Call(c).op # "purge" /\ Call(c) \in Yet(c) /\ Call(c) \in Requests
    BY DeedsEnd, NobodyPurges, YetShrinks
<1>2. CASE Commits(c) BY <1>2, CommitTurns
<1>3. CASE Delivers(c) BY <1>3, DeliveryTurns
<1>4. CASE ~Commits(c) /\ ~Delivers(c)
  <2>1. db'.log = db.log /\ db'.mail = db.mail /\ db'.sent = db.sent
    BY <1>1, <1>4, KeptByName
       DEF Deed, Idles, Starts, Rewrites, Reopens, Arrives, Clears, Recrons, Keep, Papers
  <2>2. \/ db'.row[r] = db.row[r]
        \/ ~There(db, r) /\ db'.row[r] = Fresh
        \/ LiveIn(db, r) /\ db'.row[r].status \in Active \cup Terminal
        \/ db.row[r].status = "failed" /\ db'.row[r] = Fresh
    <3>1. CASE Starts(c)
      <4>1. db'.row[r] = IF r = c THEN Fresh ELSE db.row[r] BY <3>1 DEF Starts
      <4>2. ~There(db, c) BY <1>1, <3>1 DEF Shelf, Separate, Starts, Starting
      <4> QED BY <4>1, <4>2
    <3>2. CASE Rewrites(c)
      <4>1. db'.row[r] = db.row[r] \/ Changes(c, r) BY <3>2 DEF Rewrites
      <4>2. ~(host.backend = "mongodb" /\ Call(c).op = "cancelRuns")
          BY <1>1 DEF Shelf, Separate, InBulk
      <4> QED BY <4>1, <4>2 DEF Changes
    <3>3. CASE Reopens(c)
      <4>1. ~(host.backend = "mongodb" /\ Call(c).op = "retryRuns")
          BY <1>1 DEF Shelf, Separate, InBulk
      <4> QED BY <3>3, <4>1 DEF Reopens, Failed
    <3>4. CASE ~Starts(c) /\ ~Rewrites(c) /\ ~Reopens(c)
      <4>1. db'.row = db.row
        BY <1>1, <1>4, <3>4, KeptByName DEF Deed, Idles, Arrives, Clears, Recrons, Keep, Papers
      <4> QED BY <4>1
    <3> QED BY <3>1, <3>2, <3>3, <3>4
  <2> QED BY <2>1, <2>2, OnlyLife
<1> QED BY <1>2, <1>3, <1>4

(* KeepsBook: however a backend cuts its calls, and however those of different clients       *)
(* interleave, each write is one that the store promises (ports/store.ts, ports/outbox.ts):    *)
(* for programs that create each run under an id of its own, purge nothing, and wait for no   *)
(* signal for a time, and on MongoDB neither cancel nor retry a set of runs.                *)
THEOREM EachBackendKeepsBook ==
  ASSUME ~Purges, NewIds, NoWaits, NoBulk
  PROVE  Spec => KeepsBook
<1>1. Init => Shelf BY ShelfAtFirst
<1>2. Inv /\ Inv' /\ Shelf /\ [Next]_vars => Shelf' BY ShelfKept
<1>3. Inv /\ Shelf /\ [Next]_vars => [Promise!Next]_Book
  <2> SUFFICES ASSUME Inv, Shelf, [Next]_vars PROVE \A r \in Runs : Turns(r)
    BY DEF Turns, Promise!Next
  <2>1. CASE Passing
    <3>1. db'.row = db.row /\ db'.log = db.log /\ db'.mail = db.mail /\ db'.sent = db.sent
        BY <2>1, KeptByName DEF Passing
    <3> QED BY <3>1, OnlyLife
  <2>2. ASSUME NEW c \in Clients, Acts(c), Deed(c) PROVE \A r \in Runs : Turns(r) BY <2>2, DeedTurns
  <2> QED BY <2>1, <2>2, StepsAreDeeds
<1> QED BY <1>1, <1>2, <1>3, BackendsInductive, PTL DEF Spec, KeepsBook, Promise!Spec

-----------------------------------------------------------------------------
(* What a call that takes its time has seen, and what it is told *)

(* Who is told something is the one that moved, and it is told what its call ends with. *)
LEMMA SaysAnswer ==
  ASSUME ToldListed, NEW c \in Clients, NEW a, Says(c, a)
  PROVE  Answer(c) = a
<1> DEFINE e == [op |-> Call(c).op, run |-> Call(c).run, answer |-> a]
<1>1. told' = [told EXCEPT ![c] = Append(told[c], e)] /\ DOMAIN told = Clients BY DEF Says, ToldListed
<1>2. PICK t : t = Append(told[c], e) OBVIOUS
<1>3. told'[c] = t BY <1>1, <1>2
<1>4. PICK m : m = Len(told[c]) + 1 OBVIOUS
<1>5. /\ Listed(t) /\ Len(told[c]) \in Nat /\ DOMAIN t = 1..m /\ t[m] = e
    BY <1>2, <1>4, Appended DEF ToldListed
<1>6. Len(t) = m BY <1>4, <1>5 DEF Listed
<1> QED BY <1>3, <1>5, <1>6 DEF Answer

LEMMA ToldAlone ==
  ASSUME Inv, ToldListed, NEW b \in Clients, Deed(b), NEW c \in Clients, told'[c] # told[c]
  PROVE  b = c /\ \E a : Says(c, a) /\ Answer(c) = a
<1>1. PICK a : Says(b, a) BY DeedsEnd
<1>2. b = c BY <1>1 DEF Says, ToldListed
<1> QED BY <1>1, <1>2, SaysAnswer

(* Nobody else's step moves a client, nor does time: it is where it was in its call. *)
Waits(c) ==
  /\ todo'[c] = todo[c] /\ Call(c)' = Call(c) /\ host'.backend = host.backend
  /\ at'[c].pc = at[c].pc /\ at'[c].got = at[c].got /\ at'[c].out = at[c].out
  /\ at'[c].looks = at[c].looks /\ at'[c].page = at[c].page /\ at'[c].cursor = at[c].cursor

LEMMA WaitsOrActs ==
  ASSUME Inv, [Next]_vars, NEW c \in Clients
  PROVE  Waits(c) \/ (Acts(c) /\ Deed(c))
<1>1. CASE Passing BY <1>1 DEF Passing, Waits, Call
<1>2. ASSUME NEW b \in Clients \ {c}, Deed(b) PROVE Waits(c)
  <2>1. todo'[c] = todo[c] /\ at'[c] = at[c] /\ host' = host
    <3>1. Alone(b) BY <1>2, DeedsEnd
    <3>2. todo'[c] = todo[c] BY <1>2, DeedsEnd DEF Inv
    <3> QED BY <1>2, <3>1, <3>2 DEF Alone
  <2> QED BY <2>1 DEF Waits, Call
<1> QED BY <1>1, <1>2, StepsAreDeeds

(* A step within a call, and its end. *)
LEMMA WithinOrEnd ==
  ASSUME Inv, NEW c \in Clients, Deed(c)
  PROVE  (Pauses(c) /\ todo'[c] = todo[c] /\ Call(c)' = Call(c)) \/ at'[c].pc = "call"
<1>1. Pauses(c) \/ Quits(c) \/ \E a : Says(c, a)
    BY DEF Deed, Idles, Starts, Commits, Rewrites, Reopens, Arrives, Delivers, Clears, Recrons, GoesOn
<1> QED BY <1>1 DEF Pauses, Quits, Says, Call

(* What a claim might take. *)
LEMMA PassesAlike ==
  ASSUME Inv, NEW arg, NEW r \in Runs
  PROVE  Passes(View(db), arg, r) <=> Passes(RowFacts(db, Runs), arg, r)
<1>1. /\ \A k \in Statuses : k \notin {"claimable", "leased", "ahead", "due", "cron"}
    BY DEF Statuses, Active, Terminal
<1>2. ASSUME NEW k \in Statuses, <<r, k>> \in View(db) PROVE <<r, k>> \in RowFacts(db, Runs)
  <2>1. <<r, k>> \notin JobFacts(db, Runs) BY <1>1 DEF JobFacts
  <2>2. <<r, k>> \notin TimerFacts(db, Runs)
    <3>1. ASSUME NEW q \in Set(db) PROVE db.timer[q] \in {"ahead", "due"}
        BY DEF Set, Inv, Fits, TimersFit
    <3> QED BY <1>1, <3>1 DEF TimerFacts
  <2>3. <<r, k>> \notin CronFacts(db) BY <1>1 DEF CronFacts
  <2> QED BY <1>2, <2>1, <2>2, <2>3 DEF View
<1>3. \A k : <<r, k>> \in RowFacts(db, Runs) => <<r, k>> \in View(db) BY DEF View
<1>4. Is(View(db), r, Statuses) <=> Is(RowFacts(db, Runs), r, Statuses) BY <1>2, <1>3 DEF Is
<1> QED BY <1>4 DEF Passes

LEMMA TruthOfClaim ==
  ASSUME Inv, NEW c, Call(c).op = "claim"
  PROVE  Truth(Call(c), db) = {<<r, "job">> : r \in Fit(c, Due(db))}
<1>1. Truth(Call(c), db) = {<<r, "job">> : r \in {r \in Due(db) : Passes(View(db), Call(c).arg, r)}}
    BY DEF Truth
<1>2. \A r \in Due(db) : r \in Runs BY DEF Due
<1>3. {r \in Due(db) : Passes(View(db), Call(c).arg, r)} = Fit(c, Due(db))
    BY <1>2, PassesAlike DEF Fit
<1> QED BY <1>1, <1>3

(* How far a claim is that has not answered: what it holds is what it may yet take. *)
Mind(c) ==
  todo[c] # <<>> /\ Call(c).op = "claim" /\ at[c].pc # "call" =>
    /\ host.backend \in {"mongodb", "dynamodb"} /\ at[c].pc \in {"names", "lease"}
    /\ at[c].pc = "names" => NeedsNames(Call(c))
    /\ watch[c].always \subseteq Truth(Call(c), db)
    /\ host.backend = "dynamodb" => \A f \in watch[c].always : f[1] \in at[c].got
    /\ host.backend = "mongodb" => NeedsNames(Call(c)) \/ \A r \in at[c].got : <<r, "job">> \in watch[c].ever

LEMMA ClaimsSort ==
  ASSUME Inv, NEW c \in Clients, Acts(c), todo[c] # <<>>, Call(c).op = "claim"
  PROVE  \/ host.backend = "mongodb" /\ ClaimThenLease(c, OneOf(Due(db)))
         \/ host.backend = "dynamodb" /\ ClaimThenLease(c, {Due(db)})
         \/ \E R : ClaimOneOf(c, R) /\ Fit(c, Due(db)) \subseteq R \cup Overlooked(c)
<1>1. ~Others(c) BY DEF Others, Watchful
<1>2. \A op, pc : On(c, op, pc) => op = "claim" BY DEF On
<1>3. CASE host.backend = "memory"
  <2>1. MemoryClaim(c)
      BY <1>1, <1>2, <1>3, MemorySorts
         DEF Acts, MemoryCheckpointStep, MemoryLoadRun, LoadAtOnce, LoadLogFirst, LoadMailFirst, Calls
  <2> QED BY <2>1 DEF MemoryClaim
<1>4. CASE host.backend = "postgres"
  <2>1. PostgresClaim(c)
      BY <1>1, <1>2, <1>4, PostgresSorts
         DEF Acts, PostgresCheckpointStep, PostgresLoadRun, LoadAtOnce, LoadLogFirst, LoadMailFirst, Calls
  <2> QED BY <2>1 DEF PostgresClaim
<1>5. CASE host.backend = "mysql"
  <2>1. MySqlClaim(c)
      BY <1>1, <1>2, <1>5, MySqlSorts
         DEF Acts, MySqlCheckpointStep, MySqlLoadRun, LoadAtOnce, LoadLogFirst, LoadMailFirst, Calls
  <2> QED BY <2>1 DEF MySqlClaim
<1>6. CASE host.backend = "sqlite"
  <2>1. SqliteClaim(c)
      BY <1>1, <1>2, <1>6, SqliteSorts
         DEF Acts, SqliteCheckpointStep, SqliteLoadRun, LoadAtOnce, LoadLogFirst, LoadMailFirst, Calls
  <2> QED BY <2>1 DEF SqliteClaim
<1>7. CASE host.backend = "redis"
  <2>1. RedisClaim(c)
      BY <1>1, <1>2, <1>7, RedisSorts
         DEF Acts, RedisCheckpointStep, RedisLoadRun, LoadAtOnce, LoadLogFirst, LoadMailFirst, Calls
  <2>2. Overlooked(c) = Runs \ RedisInWindow(db) BY <1>7 DEF Overlooked
  <2>3. Fit(c, Due(db)) \subseteq Fit(c, RedisInWindow(db) \cap Due(db)) \cup Overlooked(c)
      BY <2>2 DEF Fit, Due
  <2> QED BY <2>1, <2>3 DEF RedisClaim
<1>8. CASE host.backend = "mongodb"
  <2>1. MongoClaim(c)
      BY <1>1, <1>2, <1>8, MongoSorts
         DEF Acts, MongoCheckpointStep, MongoLoadRun, LoadAtOnce, LoadLogFirst, LoadMailFirst, Calls
  <2> QED BY <1>8, <2>1 DEF MongoClaim
<1>9. CASE host.backend = "dynamodb"
  <2>1. DynamoClaim(c)
      BY <1>1, <1>2, <1>9, DynamoSorts
         DEF Acts, DynamoCheckpointStep, DynamoLoadRun, LoadAtOnce, LoadLogFirst, LoadMailFirst, Calls
  <2> QED BY <1>9, <2>1 DEF DynamoClaim
<1> QED BY <1>3, <1>4, <1>5, <1>6, <1>7, <1>8, <1>9 DEF Acts

(* What is watched of a client that is in the middle of its call. *)
LEMMA WatchGrows ==
  ASSUME NEW c \in Clients, Watches, todo[c] # <<>>, Call(c).op = "claim", at'[c].pc # "call"
  PROVE  LET from == IF at[c].pc = "call" THEN [always |-> Truth(Call(c), db), ever |-> Truth(Call(c), db)]
                     ELSE watch[c]
         IN  /\ watch'[c].always = from.always \cap Truth(Call(c), db')
             /\ watch'[c].ever = from.ever \cup Truth(Call(c), db')
BY DEF Watches, Watched, Looking

(* A query and a write: what each step finds, reads on, and ends with. *)
LEMMA TakesInTwo ==
  ASSUME Inv, NEW c \in Clients, NEW picks, ClaimThenLease(c, picks)
  PROVE  \/ \E a : Says(c, a) /\ a = TRUE
         \/ /\ db' = db /\ Says(c, FALSE)
            /\ \/ at[c].pc = "call" /\ ({} \in picks \/ Call(c).arg = {})
               \/ at[c].pc = "names" /\ Fit(c, at[c].got) = {}
               \/ at[c].pc = "lease" /\ \E r \in Runs \ Due(db) : at[c].got = {r}
         \/ /\ db' = db /\ Pauses(c) /\ at'[c].pc \in {"names", "lease"}
            /\ \/ /\ at[c].pc = "call" /\ at'[c].got \in picks /\ Call(c).arg # {}
                  /\ at'[c].pc = "names" <=> NeedsNames(Call(c))
               \/ at[c].pc = "names" /\ at'[c].pc = "lease" /\ at'[c].got = Fit(c, at[c].got)
               \/ /\ at[c].pc = "lease" /\ at'[c].pc = "lease"
                  /\ \E r \in Runs \ Due(db) : at'[c].got = at[c].got \ {r}
<1>1. todo[c] # <<>> /\ Call(c).op = "claim" /\ at[c].got \subseteq Runs /\ DOMAIN at[c] = Fields
    BY DEF ClaimThenLease, Candidates, Calls, On, Inv, Hand
<1>2. ASSUME Ends(c, db, FALSE) PROVE db' = db /\ Says(c, FALSE) BY <1>1, <1>2, EndsSays
<1>3. ASSUME NEW pc, NEW got, Reads(c, pc, got)
      PROVE  db' = db /\ Pauses(c) /\ at'[c].pc = pc /\ at'[c].got = got
  <2> DEFINE x == [at[c] EXCEPT !.pc = pc, !.got = got]
  <2>1. x.pc = pc /\ x.got = got BY <1>1, Zenon DEF Fields
  <2>2. db' = db /\ Pauses(c) /\ at'[c] = x BY <1>1, <1>3, GoesPauses DEF Reads
  <2> QED BY <2>1, <2>2
<1>4. ASSUME NEW r, TakeLease(c, r) PROVE \E a : Says(c, a) /\ a = TRUE
  <2>1. DOMAIN Leased(c, r, ClaimedBy(db, r, c)) = Fields BY <1>1 DEF Leased
  <2>2. Says(c, TRUE) BY <1>1, <1>4, <2>1, EndsWithSays DEF TakeLease
  <2> QED BY <2>2
<1>5. CASE Candidates(c, picks) /\ at[c].pc = "call"
  <2>1. PICK found \in picks :
          IF found = {} \/ Call(c).arg = {} THEN Ends(c, db, FALSE)
          ELSE Reads(c, IF NeedsNames(Call(c)) THEN "names" ELSE "lease", found)
      BY <1>5 DEF Candidates, On
  <2>2. CASE found = {} \/ Call(c).arg = {} BY <1>2, <1>5, <2>1, <2>2
  <2>3. CASE ~(found = {} \/ Call(c).arg = {})
    <3>1. PICK pc : pc = (IF NeedsNames(Call(c)) THEN "names" ELSE "lease") OBVIOUS
    <3>2. Reads(c, pc, found) BY <2>1, <2>3, <3>1
    <3>3. db' = db /\ Pauses(c) /\ at'[c].pc = pc /\ at'[c].got = found BY <1>3, <3>2
    <3>4. pc \in {"names", "lease"} /\ (pc = "names" <=> NeedsNames(Call(c))) BY <3>1
    <3> QED BY <1>5, <2>3, <3>3, <3>4
  <2> QED BY <2>2, <2>3
<1>6. CASE Candidates(c, picks) /\ at[c].pc # "call"
  <2>1. /\ at[c].pc = "names"
        /\ IF Fit(c, at[c].got) = {} THEN Ends(c, db, FALSE) ELSE Reads(c, "lease", Fit(c, at[c].got))
      BY <1>6 DEF Candidates, Calls, On
  <2> QED BY <1>2, <1>3, <2>1
<1>7. CASE ~Candidates(c, picks)
  <2>1. at[c].pc = "lease" BY <1>7 DEF ClaimThenLease, On
  <2>2. PICK r \in at[c].got : IF r \in Due(db) THEN TakeLease(c, r)
                               ELSE IF at[c].got = {r} THEN Ends(c, db, FALSE)
                               ELSE Reads(c, "lease", at[c].got \ {r})
      BY <1>7 DEF ClaimThenLease
  <2>3. r \in Runs BY <1>1
  <2>4. CASE r \in Due(db) BY <1>4, <2>2, <2>4
  <2>5. CASE r \notin Due(db) /\ at[c].got = {r} BY <1>2, <2>1, <2>2, <2>3, <2>5
  <2>6. CASE r \notin Due(db) /\ at[c].got # {r} BY <1>3, <2>1, <2>2, <2>3, <2>6
  <2> QED BY <2>4, <2>5, <2>6
<1> QED BY <1>5, <1>6, <1>7

LEMMA MindAfter ==
  ASSUME NEW c, NEW call, NEW after, todo'[c] # <<>>, Call(c)' = call, call.op = "claim", at'[c].pc # "call",
         host'.backend = host.backend, after = Truth(call, db')
  PROVE  Mind(c)' <=>
           /\ host.backend \in {"mongodb", "dynamodb"} /\ at'[c].pc \in {"names", "lease"}
           /\ at'[c].pc = "names" => NeedsNames(call)
           /\ watch'[c].always \subseteq after
           /\ host.backend = "dynamodb" => \A f \in watch'[c].always : f[1] \in at'[c].got
           /\ host.backend = "mongodb" => NeedsNames(call) \/ \A r \in at'[c].got : <<r, "job">> \in watch'[c].ever
BY DEF Mind, Truth, View, RowFacts, JobFacts, TimerFacts, CronFacts

LEMMA MindKept ==
  ASSUME Inv, [Next]_vars, NEW c \in Clients, Mind(c)
  PROVE  Mind(c)'
<1> SUFFICES ASSUME todo'[c] # <<>>, Call(c)'.op = "claim", at'[c].pc # "call"
             PROVE  Mind(c)'
    BY DEF Mind
<1>1. CASE UNCHANGED vars
  <2>1. db' = db /\ todo' = todo /\ at' = at /\ host' = host /\ watch' = watch BY <1>1 DEF vars
  <2>2. PICK call, now : call = Call(c) /\ now = Truth(call, db) OBVIOUS
  <2>3. Call(c)' = call BY <2>1, <2>2 DEF Call
  <2>4. now = Truth(call, db') BY <2>1, <2>2
  <2> QED BY <2>1, <2>2, <2>3, <2>4, MindAfter DEF Mind
<1>2. CASE Next
  <2>1. Watches BY <1>2 DEF Next
  <2>2. todo'[c] = todo[c] /\ Call(c)' = Call(c) /\ host'.backend = host.backend
      BY WaitsOrActs, WithinOrEnd, DeedsEnd DEF Waits
  <2>3. PICK call : call = Call(c) OBVIOUS
  <2>4. PICK now, after : now = Truth(call, db) /\ after = Truth(call, db') OBVIOUS
  <2>5. LET from == IF at[c].pc = "call" THEN [always |-> now, ever |-> now] ELSE watch[c]
        IN  watch'[c].always = from.always \cap after /\ watch'[c].ever = from.ever \cup after
      BY <2>1, <2>2, <2>3, <2>4, WatchGrows
  <2>6. Mind(c)' <=>
          /\ host.backend \in {"mongodb", "dynamodb"} /\ at'[c].pc \in {"names", "lease"}
          /\ at'[c].pc = "names" => NeedsNames(call)
          /\ watch'[c].always \subseteq after
          /\ host.backend = "dynamodb" => \A f \in watch'[c].always : f[1] \in at'[c].got
          /\ host.backend = "mongodb" => NeedsNames(call) \/ \A r \in at'[c].got : <<r, "job">> \in watch'[c].ever
      BY <2>2, <2>3, <2>4, MindAfter
  <2>7. watch'[c].always \subseteq after BY <2>5
  <2>8. CASE Waits(c)
    <3>1. at'[c].pc = at[c].pc /\ at'[c].got = at[c].got BY <2>8 DEF Waits
    <3>2. /\ host.backend \in {"mongodb", "dynamodb"} /\ at[c].pc \in {"names", "lease"}
          /\ at[c].pc = "names" => NeedsNames(call)
          /\ host.backend = "dynamodb" => \A f \in watch[c].always : f[1] \in at[c].got
          /\ host.backend = "mongodb" => NeedsNames(call) \/ \A r \in at[c].got : <<r, "job">> \in watch[c].ever
        BY <2>2, <2>3, <3>1 DEF Mind
    <3>3. watch'[c].always \subseteq watch[c].always /\ watch[c].ever \subseteq watch'[c].ever
        BY <2>5, <3>1
    <3> QED BY <2>6, <2>7, <3>1, <3>2, <3>3
  <2>9. CASE Acts(c) /\ Deed(c)
    <3>1. todo[c] # <<>> /\ call.op = "claim" BY <2>2, <2>3
    <3>2. now = {<<r, "job">> : r \in Fit(c, Due(db))} /\ Due(db) \subseteq Runs
        BY <2>3, <2>4, <3>1, TruthOfClaim DEF Due
    <3>3. \/ host.backend = "mongodb" /\ ClaimThenLease(c, OneOf(Due(db)))
          \/ host.backend = "dynamodb" /\ ClaimThenLease(c, {Due(db)})
      <4>1. ASSUME NEW R, ClaimOneOf(c, R) PROVE FALSE
        <5>1. CASE Ends(c, db, FALSE) BY <2>2, <5>1, EndsSays DEF Says
        <5>2. ASSUME NEW r, TakeLease(c, r) PROVE FALSE
          <6>1. DOMAIN Leased(c, r, ClaimedBy(db, r, c)) = Fields BY DEF Leased, Inv, Hand
          <6> QED BY <2>2, <5>2, <6>1, EndsWithSays DEF TakeLease, Says
        <5> QED BY <4>1, <5>1, <5>2 DEF ClaimOneOf
      <4> QED BY <2>2, <2>3, <2>9, <3>1, <4>1, ClaimsSort
    <3>4. PICK picks : /\ ClaimThenLease(c, picks)
                       /\ picks = IF host.backend = "mongodb" THEN OneOf(Due(db)) ELSE {Due(db)}
        BY <3>3
    <3>5. /\ db' = db /\ at'[c].pc \in {"names", "lease"}
          /\ \/ /\ at[c].pc = "call" /\ at'[c].got \in picks /\ Call(c).arg # {}
                /\ at'[c].pc = "names" <=> NeedsNames(Call(c))
             \/ at[c].pc = "names" /\ at'[c].pc = "lease" /\ at'[c].got = Fit(c, at[c].got)
             \/ /\ at[c].pc = "lease" /\ at'[c].pc = "lease"
                /\ \E r \in Runs \ Due(db) : at'[c].got = at[c].got \ {r}
        BY <3>4, TakesInTwo DEF Says
    <3>6. after = now BY <2>4, <3>5
    <3>7. host.backend \in {"mongodb", "dynamodb"} BY <3>3
    <3>8. at[c].pc # "call" =>
            /\ at[c].pc = "names" => NeedsNames(call)
            /\ watch[c].always \subseteq now
            /\ host.backend = "dynamodb" => \A f \in watch[c].always : f[1] \in at[c].got
            /\ host.backend = "mongodb" => NeedsNames(call) \/ \A r \in at[c].got : <<r, "job">> \in watch[c].ever
        BY <2>3, <2>4, <3>1 DEF Mind
    <3>9. CASE at[c].pc = "call"
      <4>1. watch'[c].always = now /\ watch'[c].ever = now BY <2>5, <3>6, <3>9
      <4>2. at'[c].got \in picks /\ (at'[c].pc = "names" <=> NeedsNames(call)) BY <2>3, <3>5, <3>9
      <4>3. ASSUME host.backend = "dynamodb", NEW f \in watch'[c].always PROVE f[1] \in at'[c].got
        <5>1. at'[c].got = Due(db) BY <3>4, <4>2, <4>3
        <5> QED BY <3>2, <4>1, <4>3, <5>1 DEF Fit
      <4>4. ASSUME host.backend = "mongodb", ~NeedsNames(call), NEW r \in at'[c].got
            PROVE  <<r, "job">> \in watch'[c].ever
        <5>1. r \in Due(db) BY <3>4, <4>2, <4>4 DEF OneOf
        <5>2. Call(c).arg # {} BY <3>5, <3>9
        <5>3. r \in Fit(c, Due(db)) BY <2>3, <3>2, <4>4, <5>1, <5>2 DEF Fit, Passes, NeedsNames
        <5> QED BY <3>2, <4>1, <5>3
      <4> QED BY <2>6, <2>7, <3>5, <3>7, <4>2, <4>3, <4>4
    <3>10. CASE at[c].pc # "call"
      <4>1. watch'[c].always \subseteq watch[c].always /\ watch[c].ever \subseteq watch'[c].ever
          BY <2>5, <3>10
      <4>2. at'[c].pc = "lease" BY <3>5, <3>10
      <4>3. ASSUME host.backend = "dynamodb", NEW f \in watch'[c].always PROVE f[1] \in at'[c].got
        <5>1. f \in now /\ f[1] \in at[c].got BY <3>8, <3>10, <4>1, <4>3
        <5>2. f[1] \in Fit(c, Due(db)) BY <3>2, <5>1
        <5>3. f[1] \in Due(db) /\ f[1] \in Fit(c, at[c].got) BY <5>1, <5>2 DEF Fit
        <5> QED BY <3>5, <3>10, <5>1, <5>3
      <4>4. ASSUME host.backend = "mongodb", ~NeedsNames(call), NEW r \in at'[c].got
            PROVE  <<r, "job">> \in watch'[c].ever
        <5>1. r \in at[c].got BY <3>5, <3>10, <4>4 DEF Fit
        <5> QED BY <3>8, <3>10, <4>1, <4>4, <5>1
      <4> QED BY <2>6, <2>7, <3>7, <4>2, <4>3, <4>4
    <3> QED BY <3>9, <3>10
  <2> QED BY <2>8, <2>9, WaitsOrActs
<1> QED BY <1>1, <1>2

(* The step that ends a claim with nothing. *)
LEMMA EmptyClaims ==
  ASSUME Inv, ToldListed, Next, NEW c \in Clients, Mind(c), todo[c] # <<>>, Call(c).op = "claim", Answered(c),
         ~Answer(c), Witness(c).always = Witness(c).ever
  PROVE  {f[1] : f \in Witness(c).always} \subseteq Overlooked(c)
<1>1. Acts(c) /\ Deed(c)
  <2>1. ~Passing BY DEF Answered, Passing
  <2>2. \A b \in Clients : Deed(b) => b = c BY ToldAlone DEF Answered
  <2> QED BY <2>1, <2>2, StepsAreDeeds
<1>2. \A a : Says(c, a) => a # TRUE BY SaysAnswer
<1>3. PICK call, now : call = Call(c) /\ now = Truth(call, db) OBVIOUS
<1>4. now = {<<r, "job">> : r \in Fit(c, Due(db))} /\ Due(db) \subseteq Runs
    BY <1>3, TruthOfClaim DEF Due
<1>5. ASSUME db' = db
      PROVE  /\ at[c].pc = "call" => Witness(c).always = now
             /\ at[c].pc # "call" => Witness(c) = watch[c]
             /\ Witness(c).always \subseteq now
  <2>1. Truth(call, db') = now BY <1>3, <1>5
  <2>2. CASE at[c].pc = "call" BY <1>3, <2>1, <2>2 DEF Witness, Watched
  <2>3. CASE at[c].pc # "call" BY <1>3, <2>3 DEF Witness, Mind
  <2> QED BY <2>2, <2>3
<1>6. ASSUME NEW R, ClaimOneOf(c, R), Fit(c, Due(db)) \subseteq R \cup Overlooked(c)
      PROVE  {f[1] : f \in Witness(c).always} \subseteq Overlooked(c)
  <2>1. \A r : ~TakeLease(c, r)
    <3>1. \A r : DOMAIN Leased(c, r, ClaimedBy(db, r, c)) = Fields BY DEF Leased, Inv, Hand
    <3> QED BY <1>2, <3>1, EndsWithSays DEF TakeLease
  <2>2. R = {} /\ db' = db /\ at[c].pc = "call" BY <1>6, <2>1 DEF ClaimOneOf, Ends, EndsWith, Calls, On
  <2>3. \A f \in Witness(c).always : f[1] \in Fit(c, Due(db)) BY <1>4, <1>5, <2>2
  <2> QED BY <1>6, <2>2, <2>3
<1>7. ASSUME NEW picks, ClaimThenLease(c, picks),
             \/ host.backend = "mongodb" /\ picks = OneOf(Due(db))
             \/ host.backend = "dynamodb" /\ picks = {Due(db)}
      PROVE  {f[1] : f \in Witness(c).always} \subseteq Overlooked(c)
  <2>1. /\ db' = db /\ Says(c, FALSE)
        /\ \/ at[c].pc = "call" /\ ({} \in picks \/ Call(c).arg = {})
           \/ at[c].pc = "names" /\ Fit(c, at[c].got) = {}
           \/ at[c].pc = "lease" /\ \E r \in Runs \ Due(db) : at[c].got = {r}
    <3>1. at'[c].pc = "call" BY DEF Answered
    <3> QED BY <1>2, <1>7, <3>1, TakesInTwo
  <2>2. \A f \in Witness(c).always : f[1] \in Runs /\ f = <<f[1], "job">> /\ f \in now
      BY <1>4, <1>5, <2>1 DEF Fit
  <2>3. CASE at[c].pc = "call"
    <3>1. Due(db) = {} \/ Call(c).arg = {} BY <1>7, <2>1, <2>3 DEF OneOf
    <3>2. Fit(c, Due(db)) = {} BY <3>1 DEF Fit, Passes
    <3> QED BY <1>4, <2>2, <3>2
  <2>4. CASE at[c].pc # "call" /\ host.backend = "dynamodb"
    <3>1. \A f \in Witness(c).always : f[1] \in at[c].got BY <1>5, <2>1, <2>4 DEF Mind
    <3>2. \A f \in Witness(c).always : f[1] \in Fit(c, Due(db)) BY <1>4, <2>2
    <3>3. \A f \in Witness(c).always : f[1] \in Due(db) /\ f[1] \in Fit(c, at[c].got) BY <3>1, <3>2 DEF Fit
    <3> QED BY <2>1, <2>4, <3>1, <3>3
  <2>5. CASE at[c].pc # "call" /\ host.backend = "mongodb"
    <3>1. CASE NeedsNames(Call(c))
      <4>1. Overlooked(c) = Runs BY <2>5, <3>1 DEF Overlooked
      <4> QED BY <2>2, <4>1
    <3>2. CASE ~NeedsNames(Call(c))
      <4>1. at[c].pc = "lease" /\ \A r \in at[c].got : <<r, "job">> \in watch[c].ever
          BY <2>5, <3>2 DEF Mind
      <4>2. PICK r \in Runs \ Due(db) : at[c].got = {r} BY <2>1, <4>1
      <4>3. watch[c].ever \subseteq Witness(c).ever BY <2>5 DEF Witness
      <4>4. <<r, "job">> \in Witness(c).always BY <4>1, <4>2, <4>3
      <4>5. <<r, "job">> \in now BY <2>2, <4>4
      <4> QED BY <1>4, <4>2, <4>5 DEF Fit
    <3> QED BY <3>1, <3>2
  <2> QED BY <1>7, <2>3, <2>4, <2>5
<1> QED BY <1>1, <1>6, <1>7, ClaimsSort

(* ClaimFinds: a claim that comes back empty, while nothing changed of what it might take,   *)
(* has overlooked no job of its flows: on every backend, but for what MongoDB's one candidate *)
(* and Redis's window hide (ports/queue.ts: claim).                                       *)
THEOREM EmptyClaimsLeaveNothing == Spec => ClaimFinds
<1>1. Init => \A c \in Clients : Mind(c)
  <2>1. Init => \A c \in Clients : at[c].pc = "call" BY DEF Init, Ready
  <2> QED BY <2>1 DEF Mind
<1>2. Inv /\ (\A c \in Clients : Mind(c)) /\ [Next]_vars => (\A c \in Clients : Mind(c))'
    BY MindKept
<1>3. ASSUME Inv, ToldListed, \A c \in Clients : Mind(c), [Next]_vars
      PROVE  [\A c \in Clients : todo[c] # <<>> /\ Call(c).op = "claim" /\ Answered(c) =>
                LET seen == Witness(c)
                IN  ~Answer(c) /\ seen.always = seen.ever => {f[1] : f \in seen.always} \subseteq Overlooked(c)]_vars
    BY <1>3, EmptyClaims
<1> QED BY <1>1, <1>2, <1>3, BackendsInductive, ToldThroughout, PTL DEF Spec, ClaimFinds
=============================================================================
