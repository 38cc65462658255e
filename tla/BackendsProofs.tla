--------------------------- MODULE BackendsProofs ---------------------------
(***************************************************************************)
(* Whatever programs of port calls clients run on a backend, and however   *)
(* the steps of their calls interleave: the tables stay well formed, no    *)
(* wake is lost, no two clients hold a live lease of a run (where none is  *)
(* purged), no timer is lost or doubled (but in MongoDB, whose poller      *)
(* hands out what it found and somebody else may have taken), and a cron   *)
(* keeps to its schedule (but in Redis, whose score lives apart from the   *)
(* row).                                                                   *)
(*                                                                         *)
(* The argument has three layers.  What one statement makes of the tables  *)
(* is Sane: a legal table stays legal, and a job that still carries        *)
(* somebody's lease is as old as it was, or was enqueued since, and a live *)
(* lease lasts, unless the statement is its holder's or a purge.  A call   *)
(* that several backends share keeps the invariant because its statements  *)
(* are sane.  A backend keeps it because each of its calls does.           *)
(***************************************************************************)
EXTENDS Backends, WellFoundedInduction, TLAPS

Columns == {"row", "log", "mail", "sent", "left", "kids", "job", "timer", "key", "cron",
            "queue", "ripe", "owed", "alarms"}
Fields == {"pc", "got", "parts", "seen", "out", "looks", "page", "cursor", "run", "lease",
           "snap", "cron"}
Crons == [schedule : 0..2, next : Nat]

(* What is legal in each group of columns. *)
WholeRow == {row \in RunRow : row.status = "absent" => row = NoRun}
RowsFit(d) == d.row \in [Runs -> WholeRow] /\ d.left \in [Runs -> Int] /\ d.key \in Runs \cup {NoOne}
JobsFit(d) ==
  /\ d.job \in [Runs -> Job] /\ d.queue \subseteq Runs /\ d.owed \subseteq Runs
  /\ \A r \in Runs : WellFormed(d.job[r]) /\ (d.job[r].expires > 0 => d.job[r].token > 0)
  /\ \A r \in d.owed : d.job[r].queued
TimersFit(d) == d.timer \in [Runs -> {"none", "ahead", "due"}] /\ d.alarms \in [Runs -> Int]
OnTime(k) == host.backend # "redis" /\ k.schedule # 0 => k.next % 2 = k.schedule % 2
CronFits(d) == d.cron \in Crons /\ d.ripe \in Nat /\ OnTime(d.cron)
Fits(d) == DOMAIN d = Columns /\ RowsFit(d) /\ JobsFit(d) /\ TimersFit(d) /\ CronFits(d)

(* Each timer that is set counts for one alarm. *)
Counted(d) == \A r \in Runs : d.alarms[r] = IF d.timer[r] = "none" THEN 0 ELSE 1

(* A job that still carries a lease it carried before has been enqueued since, or owes    *)
(* nothing that it did not owe.                                                          *)
Spares(d, e) ==
  \A r \in Runs : e.job[r].token # 0 =>
    /\ e.job[r].token = d.job[r].token /\ e.job[r].version >= d.job[r].version
    /\ e.job[r].version = d.job[r].version /\ r \in e.owed => r \in d.owed

(* A live lease lasts, but on the runs of W. *)
LeasesLast(d, e, W) ==
  \A r \in Runs \ W : d.job[r].expires > 0 => e.job[r].token = d.job[r].token /\ e.job[r].expires > 0

Requests ==
  UNION {UNION {{k.calls[c][i] : i \in 1..Len(k.calls[c])} : c \in Clients} : k \in Cases}

(* A purge takes leases with the jobs. *)
Purges == \E q \in Requests : q.op = "purge"

RowsKept(d, e) == RowsFit(d) => RowsFit(e)
JobsKept(d, e, W) ==
  JobsFit(d) => JobsFit(e) /\ Spares(d, e) /\ (Purges \/ LeasesLast(d, e, W))
TimersKept(d, e) ==
  TimersFit(d) => TimersFit(e) /\ (host.backend # "mongodb" /\ Counted(d) => Counted(e))
CronStays(d, e) == CronFits(d) => CronFits(e)

(* What a statement may make of the tables, and one that ends leases of W. *)
SaneBut(d, e, W) ==
  DOMAIN d = Columns =>
    /\ DOMAIN e = Columns
    /\ RowsKept(d, e) /\ JobsKept(d, e, W) /\ TimersKept(d, e) /\ CronStays(d, e)
Sane(d, e) == SaneBut(d, e, {})

SameRows(d, e) == e.row = d.row /\ e.left = d.left /\ e.key = d.key
SameJobs(d, e) == e.job = d.job /\ e.queue = d.queue /\ e.owed = d.owed
SameTimers(d, e) == e.timer = d.timer /\ e.alarms = d.alarms
SameCron(d, e) == e.cron = d.cron /\ e.ripe = d.ripe

-----------------------------------------------------------------------------
(* What each statement makes of the tables *)

(* A group of columns that a statement leaves alone stays legal. *)
LEMMA SameIsKept ==
  ASSUME NEW d, NEW e
  PROVE  /\ SameRows(d, e) => RowsKept(d, e)
         /\ SameJobs(d, e) => \A W : JobsKept(d, e, W)
         /\ SameTimers(d, e) => TimersKept(d, e)
         /\ SameCron(d, e) => CronStays(d, e)
<1>1. SameRows(d, e) => RowsKept(d, e) BY DEF SameRows, RowsKept, RowsFit
<1>2. SameJobs(d, e) => \A W : JobsKept(d, e, W)
    BY DEF SameJobs, JobsKept, JobsFit, Spares, LeasesLast, Job
<1>3. SameTimers(d, e) => TimersKept(d, e) BY DEF SameTimers, TimersKept, TimersFit, Counted
<1>4. SameCron(d, e) => CronStays(d, e) BY DEF SameCron, CronStays, CronFits
<1> QED BY <1>1, <1>2, <1>3, <1>4

(* No statement at all, and one after another. *)
LEMMA SaneToStay == ASSUME NEW d PROVE Sane(d, d)
BY SameIsKept DEF Sane, SaneBut, SameRows, SameJobs, SameTimers, SameCron

LEMMA SaneButInTurn ==
  ASSUME NEW d, NEW e, NEW f, NEW W, SaneBut(d, e, W), SaneBut(e, f, W)
  PROVE  SaneBut(d, f, W)
<1> SUFFICES ASSUME DOMAIN d = Columns
             PROVE  /\ DOMAIN f = Columns
                    /\ RowsKept(d, f) /\ JobsKept(d, f, W) /\ TimersKept(d, f) /\ CronStays(d, f)
    BY DEF SaneBut
<1>1. DOMAIN f = Columns /\ RowsKept(d, f) /\ CronStays(d, f) BY DEF SaneBut, RowsKept, CronStays
<1>2. TimersKept(d, f) BY DEF SaneBut, TimersKept
<1>3. JobsKept(d, f, W)
  <2> SUFFICES ASSUME JobsFit(d)
               PROVE  JobsFit(f) /\ Spares(d, f) /\ (Purges \/ LeasesLast(d, f, W))
      BY DEF JobsKept
  <2>1. JobsFit(e) /\ Spares(d, e) /\ JobsFit(f) /\ Spares(e, f) BY DEF SaneBut, JobsKept
  <2>2. ASSUME NEW r \in Runs, f.job[r].token # 0
        PROVE  /\ f.job[r].token = d.job[r].token /\ f.job[r].version >= d.job[r].version
               /\ f.job[r].version = d.job[r].version /\ r \in f.owed => r \in d.owed
    <3>1. /\ f.job[r].token = e.job[r].token /\ f.job[r].version >= e.job[r].version
          /\ f.job[r].version = e.job[r].version /\ r \in f.owed => r \in e.owed
        BY <2>1, <2>2 DEF Spares
    <3>2. /\ e.job[r].token = d.job[r].token /\ e.job[r].version >= d.job[r].version
          /\ e.job[r].version = d.job[r].version /\ r \in e.owed => r \in d.owed
        BY <2>1, <2>2, <3>1 DEF Spares
    <3>3. d.job[r].version \in Nat /\ e.job[r].version \in Nat /\ f.job[r].version \in Nat
        BY <2>1 DEF JobsFit, Job
    <3> QED BY <3>1, <3>2, <3>3
  <2>3. Purges \/ (LeasesLast(d, e, W) /\ LeasesLast(e, f, W)) BY <2>1 DEF SaneBut, JobsKept
  <2>4. LeasesLast(d, e, W) /\ LeasesLast(e, f, W) => LeasesLast(d, f, W) BY DEF LeasesLast
  <2> QED BY <2>1, <2>2, <2>3, <2>4 DEF Spares
<1> QED BY <1>1, <1>2, <1>3 DEF SaneBut

LEMMA SaneInTurn ==
  ASSUME NEW d, NEW e, NEW f, Sane(d, e), Sane(e, f)
  PROVE  Sane(d, f)
BY SaneButInTurn DEF Sane

(* Who spares all leases spares those not in W. *)
LEMMA SaneEnough == ASSUME NEW d, NEW e, NEW W, Sane(d, e) PROVE SaneBut(d, e, W)
<1>1. SaneBut(d, e, {}) BY DEF Sane
<1>2. LeasesLast(d, e, {}) => LeasesLast(d, e, W) BY DEF LeasesLast
<1>3. JobsKept(d, e, {}) => JobsKept(d, e, W) BY <1>2 DEF JobsKept
<1> QED BY <1>1, <1>3 DEF SaneBut

(* Rows of runs *)

LEMMA PendingSane ==
  ASSUME NEW d, NEW R
  PROVE  Sane(d, Pending(d, R))
<1> DEFINE e == Pending(d, R)
<1>1. ASSUME DOMAIN d = Columns
      PROVE  /\ DOMAIN e = Columns /\ SameJobs(d, e) /\ SameTimers(d, e) /\ SameCron(d, e)
             /\ e.row = [r \in Runs |-> IF r \in R THEN Fresh ELSE d.row[r]]
             /\ e.left = d.left /\ e.key = d.key
    BY <1>1, Zenon DEF Pending, Columns, SameJobs, SameTimers, SameCron
<1>2. ASSUME DOMAIN d = Columns PROVE RowsKept(d, e)
  <2> HIDE DEF e
  <2> QED BY <1>1, <1>2 DEF RowsKept, RowsFit, WholeRow, RunRow, NoRun, Fresh, Active
<1> HIDE DEF e
<1>3. Sane(d, e) BY <1>1, <1>2, SameIsKept DEF Sane, SaneBut
<1> QED BY <1>3 DEF e

LEMMA BornSane ==
  ASSUME NEW d, NEW R
  PROVE  Sane(d, Born(d, R))
<1> DEFINE p == Pending(d, R)
           e == [p EXCEPT !.kids = @ \cup R]
<1>1. Born(d, R) = e BY DEF Born
<1>2. Sane(d, p) BY PendingSane
<1> HIDE DEF p
<1>3. ASSUME DOMAIN p = Columns
      PROVE  /\ DOMAIN e = Columns /\ SameRows(p, e) /\ SameJobs(p, e)
             /\ SameTimers(p, e) /\ SameCron(p, e)
    BY <1>3, Zenon DEF Columns, SameRows, SameJobs, SameTimers, SameCron
<1> HIDE DEF e
<1>4. Sane(p, e) BY <1>3, SameIsKept DEF Sane, SaneBut
<1> QED BY <1>1, <1>2, <1>4, SaneInTurn

(* One row is written over. *)
LEMMA RowSane ==
  ASSUME NEW d, NEW r \in Runs, NEW row, RowsFit(d) => row \in WholeRow
  PROVE  Sane(d, [d EXCEPT !.row[r] = row])
<1> DEFINE e == [d EXCEPT !.row[r] = row]
<1>1. ASSUME DOMAIN d = Columns
      PROVE  /\ DOMAIN e = Columns /\ SameJobs(d, e) /\ SameTimers(d, e) /\ SameCron(d, e)
             /\ e.row = [d.row EXCEPT ![r] = row]
             /\ e.left = d.left /\ e.key = d.key
    BY <1>1, Zenon DEF Columns, SameJobs, SameTimers, SameCron
<1> HIDE DEF e
<1>2. ASSUME DOMAIN d = Columns PROVE RowsKept(d, e)
    BY <1>1, <1>2 DEF RowsKept, RowsFit
<1>3. Sane(d, e) BY <1>1, <1>2, SameIsKept DEF Sane, SaneBut
<1> QED BY <1>3 DEF e

LEMMA LeftSane ==
  ASSUME NEW d, NEW r \in Runs, NEW n, RowsFit(d) => n \in Int
  PROVE  Sane(d, [d EXCEPT !.left[r] = n])
<1> DEFINE e == [d EXCEPT !.left[r] = n]
<1>1. ASSUME DOMAIN d = Columns
      PROVE  /\ DOMAIN e = Columns /\ SameJobs(d, e) /\ SameTimers(d, e) /\ SameCron(d, e)
             /\ e.left = [d.left EXCEPT ![r] = n]
             /\ e.row = d.row /\ e.key = d.key
    BY <1>1, Zenon DEF Columns, SameJobs, SameTimers, SameCron
<1> HIDE DEF e
<1>2. ASSUME DOMAIN d = Columns PROVE RowsKept(d, e)
    BY <1>1, <1>2 DEF RowsKept, RowsFit
<1>3. Sane(d, e) BY <1>1, <1>2, SameIsKept DEF Sane, SaneBut
<1> QED BY <1>3 DEF e

LEMMA StatusSane ==
  ASSUME NEW d, NEW R, NEW status \in Active \cup Terminal
  PROVE  Sane(d, StatusSet(d, R, status))
<1> DEFINE e == StatusSet(d, R, status)
<1>1. ASSUME DOMAIN d = Columns
      PROVE  /\ DOMAIN e = Columns /\ SameJobs(d, e) /\ SameTimers(d, e) /\ SameCron(d, e)
             /\ e.row = [r \in Runs |->
                            IF r \in R THEN [d.row[r] EXCEPT !.status = status] ELSE d.row[r]]
             /\ e.left = d.left /\ e.key = d.key
    BY <1>1, Zenon DEF StatusSet, Columns, SameJobs, SameTimers, SameCron
<1> HIDE DEF e
<1>2. ASSUME DOMAIN d = Columns PROVE RowsKept(d, e)
    BY <1>1, <1>2 DEF RowsKept, RowsFit, WholeRow, RunRow, Active, Terminal
<1>3. Sane(d, e) BY <1>1, <1>2, SameIsKept DEF Sane, SaneBut
<1> QED BY <1>3 DEF e

LEMMA StartedSane ==
  ASSUME NEW d, NEW c \in Clients
  PROVE  Sane(d, StartedAs(d, c))
<1> DEFINE p == Pending(d, {c})
           e == [p EXCEPT !.key = c]
<1>1. StartedAs(d, c) = e BY DEF StartedAs
<1>2. Sane(d, p) BY PendingSane
<1> HIDE DEF p
<1>3. ASSUME DOMAIN p = Columns
      PROVE  /\ DOMAIN e = Columns /\ SameJobs(p, e) /\ SameTimers(p, e) /\ SameCron(p, e)
             /\ e.row = p.row /\ e.left = p.left /\ e.key = c
    BY <1>3, Zenon DEF Columns, SameJobs, SameTimers, SameCron
<1> HIDE DEF e
<1>4. ASSUME DOMAIN p = Columns PROVE RowsKept(p, e) BY <1>3, <1>4 DEF RowsKept, RowsFit, Runs
<1>5. Sane(p, e) BY <1>3, <1>4, SameIsKept DEF Sane, SaneBut
<1> QED BY <1>1, <1>2, <1>5, SaneInTurn

(* Steps and inboxes *)

LEMMA PapersSane ==
  ASSUME NEW d, NEW e,
         DOMAIN d = Columns =>
           /\ DOMAIN e = Columns /\ SameRows(d, e) /\ SameJobs(d, e)
             /\ SameTimers(d, e) /\ SameCron(d, e)
  PROVE  Sane(d, e)
BY SameIsKept DEF Sane, SaneBut

LEMMA DeliveredSane == ASSUME NEW d, NEW r PROVE Sane(d, Delivered(d, r))
<1> DEFINE e == Delivered(d, r)
<1>1. ASSUME DOMAIN d = Columns
      PROVE  /\ DOMAIN e = Columns /\ SameRows(d, e) /\ SameJobs(d, e)
             /\ SameTimers(d, e) /\ SameCron(d, e)
    BY <1>1, Zenon DEF Delivered, Columns, SameRows, SameJobs, SameTimers, SameCron
<1> QED BY <1>1, PapersSane

LEMMA ConsumedSane == ASSUME NEW d, NEW r PROVE Sane(d, Consumed(d, r))
<1> DEFINE e == Consumed(d, r)
<1>1. ASSUME DOMAIN d = Columns
      PROVE  /\ DOMAIN e = Columns /\ SameRows(d, e) /\ SameJobs(d, e)
             /\ SameTimers(d, e) /\ SameCron(d, e)
    BY <1>1, Zenon DEF Consumed, Columns, SameRows, SameJobs, SameTimers, SameCron
<1> QED BY <1>1, PapersSane

LEMMA WrittenSane == ASSUME NEW d, NEW c PROVE Sane(d, Written(d, c))
<1> DEFINE e == Written(d, c)
<1>1. ASSUME DOMAIN d = Columns
      PROVE  /\ DOMAIN e = Columns /\ SameRows(d, e) /\ SameJobs(d, e)
             /\ SameTimers(d, e) /\ SameCron(d, e)
    BY <1>1, Zenon DEF Written, Columns, SameRows, SameJobs, SameTimers, SameCron
<1> QED BY <1>1, PapersSane

(* Jobs *)

(* A statement that makes of every job what Spares allows it. *)
LEMMA JobsSane ==
  ASSUME NEW d, NEW e,
         DOMAIN d = Columns =>
           DOMAIN e = Columns /\ SameRows(d, e) /\ SameTimers(d, e) /\ SameCron(d, e),
         NEW W, DOMAIN d = Columns => JobsKept(d, e, W)
  PROVE  SaneBut(d, e, W)
BY SameIsKept DEF SaneBut

LEMMA EnqueuedFields ==
  ASSUME NEW j
  PROVE  /\ Enqueued(j, 0).queued = TRUE /\ Enqueued(j, 0).version = j.version + 1
         /\ Enqueued(j, 0).expires = j.expires /\ Enqueued(j, 0).token = j.token
BY DEF Enqueued

LEMMA EnqueuingSane ==
  ASSUME NEW d, NEW R \in SUBSET Runs
  PROVE  Sane(d, Enqueuing(d, R))
<1> DEFINE e == Enqueuing(d, R)
<1>1. ASSUME DOMAIN d = Columns
      PROVE  /\ DOMAIN e = Columns /\ SameRows(d, e) /\ SameTimers(d, e) /\ SameCron(d, e)
             /\ e.job = [r \in Runs |-> IF r \in R THEN Enqueued(d.job[r], 0) ELSE d.job[r]]
             /\ e.owed = d.owed \cup R /\ e.queue = d.queue
    BY <1>1, Zenon DEF Enqueuing, Columns, SameRows, SameTimers, SameCron
<1> HIDE DEF e
<1>2. ASSUME DOMAIN d = Columns PROVE JobsKept(d, e, {})
  <2> SUFFICES ASSUME JobsFit(d) PROVE JobsFit(e) /\ Spares(d, e) /\ LeasesLast(d, e, {})
      BY DEF JobsKept
  <2>1. \A r \in Runs : d.job[r] \in Job BY DEF JobsFit
  <2>2. \A r \in Runs : e.job[r] = IF r \in R THEN Enqueued(d.job[r], 0) ELSE d.job[r] BY <1>1, <1>2
  <2>3. \A r \in Runs : Enqueued(d.job[r], 0) \in Job BY <2>1 DEF Enqueued, Job
  <2>4. e.job \in [Runs -> Job] BY <1>1, <1>2, <2>1, <2>3
  <2>5. \A r \in Runs : WellFormed(e.job[r]) /\ (e.job[r].expires > 0 => e.job[r].token > 0)
    <3> TAKE r \in Runs
    <3>1. d.job[r] \in Job /\ WellFormed(d.job[r]) /\ (d.job[r].expires > 0 => d.job[r].token > 0)
        BY <2>1 DEF JobsFit
    <3>2. CASE r \notin R BY <2>2, <3>1, <3>2
    <3>3. CASE r \in R
      <4>0. e.job[r] = Enqueued(d.job[r], 0) BY <2>2, <3>3
      <4>1. e.job[r].queued = TRUE /\ e.job[r].version = d.job[r].version + 1
            /\ e.job[r].expires = d.job[r].expires /\ e.job[r].token = d.job[r].token
          BY <4>0, EnqueuedFields
      <4>2. d.job[r].version \in Nat BY <3>1 DEF Job
      <4> QED BY <3>1, <4>1, <4>2 DEF WellFormed
    <3> QED BY <3>2, <3>3
  <2>6. \A r \in e.owed : e.job[r].queued
      BY <1>1, <1>2, <2>2 DEF JobsFit, Enqueued
  <2>7. e.queue \subseteq Runs /\ e.owed \subseteq Runs BY <1>1, <1>2 DEF JobsFit
  <2>8. Spares(d, e) BY <1>1, <1>2, <2>1, <2>2 DEF Spares, Enqueued, Job
  <2>9. LeasesLast(d, e, {}) BY <2>2, EnqueuedFields DEF LeasesLast
  <2> QED BY <2>4, <2>5, <2>6, <2>7, <2>8, <2>9 DEF JobsFit
<1>3. Sane(d, e) BY <1>1, <1>2, JobsSane DEF Sane
<1> QED BY <1>3 DEF e

(* The job of one run is written over, and nothing else of it. *)
LEMMA JobSane ==
  ASSUME NEW d, NEW r \in Runs, NEW j, NEW W,
         JobsFit(d) => /\ j \in Job /\ WellFormed(j) /\ (j.expires > 0 => j.token > 0)
                       /\ (r \in d.owed => j.queued)
                       /\ (j.token # 0 => j.token = d.job[r].token /\ j.version = d.job[r].version)
                       /\ (d.job[r].expires > 0 /\ r \notin W => j.token = d.job[r].token /\ j.expires > 0)
  PROVE  SaneBut(d, [d EXCEPT !.job[r] = j], W)
<1> DEFINE e == [d EXCEPT !.job[r] = j]
<1>1. ASSUME DOMAIN d = Columns
      PROVE  /\ DOMAIN e = Columns /\ SameRows(d, e) /\ SameTimers(d, e) /\ SameCron(d, e)
             /\ e.job = [d.job EXCEPT ![r] = j] /\ e.owed = d.owed /\ e.queue = d.queue
    BY <1>1, Zenon DEF Columns, SameRows, SameTimers, SameCron
<1> HIDE DEF e
<1>2. ASSUME DOMAIN d = Columns PROVE JobsKept(d, e, W)
  <2> SUFFICES ASSUME JobsFit(d) PROVE JobsFit(e) /\ Spares(d, e) /\ LeasesLast(d, e, W)
      BY DEF JobsKept
  <2>1. d.job \in [Runs -> Job] /\ j \in Job BY DEF JobsFit
  <2>2. e.job \in [Runs -> Job] /\ \A q \in Runs : e.job[q] = IF q = r THEN j ELSE d.job[q]
      BY <1>1, <1>2, <2>1
  <2>3. \A q \in Runs : WellFormed(e.job[q]) /\ (e.job[q].expires > 0 => e.job[q].token > 0)
      BY <2>2 DEF JobsFit
  <2>4. \A q \in e.owed : e.job[q].queued BY <1>1, <1>2, <2>2 DEF JobsFit
  <2>5. e.queue \subseteq Runs /\ e.owed \subseteq Runs BY <1>1, <1>2 DEF JobsFit
  <2>6. Spares(d, e)
    <3> SUFFICES ASSUME NEW q \in Runs, e.job[q].token # 0
                 PROVE  /\ e.job[q].token = d.job[q].token /\ e.job[q].version >= d.job[q].version
                        /\ e.job[q].version = d.job[q].version /\ q \in e.owed => q \in d.owed
        BY DEF Spares
    <3>1. d.job[q].version \in Nat BY <2>1 DEF Job
    <3>2. e.job[q].token = d.job[q].token /\ e.job[q].version = d.job[q].version
        BY <2>2
    <3> QED BY <1>1, <1>2, <3>1, <3>2
  <2>7. LeasesLast(d, e, W) BY <2>2 DEF LeasesLast
  <2> QED BY <2>2, <2>3, <2>4, <2>5, <2>6, <2>7 DEF JobsFit
<1>3. SaneBut(d, e, W) BY <1>1, <1>2, JobsSane
<1> QED BY <1>3 DEF e

LEMMA RenewedSane ==
  ASSUME NEW d, NEW r \in Runs, d.job[r].expires > 0
  PROVE  Sane(d, Renewed(d, r))
<1> DEFINE j == Extended(d.job[r], 1)
<1>1. ASSUME JobsFit(d)
      PROVE  /\ j \in Job /\ WellFormed(j) /\ (j.expires > 0 => j.token > 0)
             /\ (r \in d.owed => j.queued)
             /\ (j.token # 0 => j.token = d.job[r].token /\ j.version = d.job[r].version)
             /\ (d.job[r].expires > 0 /\ r \notin {} => j.token = d.job[r].token /\ j.expires > 0)
  <2>1. d.job[r] \in Job /\ WellFormed(d.job[r]) /\ (d.job[r].expires > 0 => d.job[r].token > 0)
      BY <1>1 DEF JobsFit
  <2>2. r \in d.owed => d.job[r].queued BY <1>1 DEF JobsFit
  <2> QED BY <2>1, <2>2 DEF Extended, Job, WellFormed, NoJob
<1>2. Renewed(d, r) = [d EXCEPT !.job[r] = j] BY DEF Renewed
<1> HIDE DEF j
<1>3. SaneBut(d, [d EXCEPT !.job[r] = j], {}) BY <1>1, JobSane
<1> QED BY <1>2, <1>3 DEF Sane

(* A job may go if nothing is owed to its run. *)
LEMMA DequeuedSane ==
  ASSUME NEW d, NEW r \in Runs, r \notin d.owed
  PROVE  SaneBut(d, Dequeued(d, r), {r})
<1>1. NoJob \in Job /\ WellFormed(NoJob) /\ NoJob.token = 0 /\ NoJob.expires = 0
    BY DEF NoJob, Job, WellFormed
<1>2. ASSUME JobsFit(d)
      PROVE  /\ NoJob \in Job /\ WellFormed(NoJob) /\ (NoJob.expires > 0 => NoJob.token > 0)
             /\ (r \in d.owed => NoJob.queued)
             /\ (NoJob.token # 0 => NoJob.token = d.job[r].token /\ NoJob.version = d.job[r].version)
             /\ (d.job[r].expires > 0 /\ r \notin {r} => NoJob.token = d.job[r].token /\ NoJob.expires > 0)
    BY <1>1
<1>3. Dequeued(d, r) = [d EXCEPT !.job[r] = NoJob] BY DEF Dequeued
<1> QED BY <1>2, <1>3, JobSane

LEMMA LetGoSane ==
  ASSUME NEW d, NEW r \in Runs, d.job[r].queued
  PROVE  SaneBut(d, LetGo(d, r), {r})
<1> DEFINE j == Released(d.job[r])
<1>1. ASSUME JobsFit(d)
      PROVE  /\ j \in Job /\ WellFormed(j) /\ (j.expires > 0 => j.token > 0)
             /\ (r \in d.owed => j.queued)
             /\ (j.token # 0 => j.token = d.job[r].token /\ j.version = d.job[r].version)
             /\ (d.job[r].expires > 0 /\ r \notin {r} => j.token = d.job[r].token /\ j.expires > 0)
  <2>1. d.job[r] \in Job /\ WellFormed(d.job[r]) BY <1>1 DEF JobsFit
  <2>2. 0 \in Nat OBVIOUS
  <2>3. j \in Job BY <2>1, <2>2, Zenon DEF Released, Job
  <2>4. j.token = 0 /\ j.expires = 0 /\ j.queued = d.job[r].queued /\ j.version = d.job[r].version
      BY <2>1, Zenon DEF Released, Job
  <2> HIDE DEF j
  <2> QED BY <2>1, <2>3, <2>4 DEF WellFormed
<1>2. LetGo(d, r) = [d EXCEPT !.job[r] = j] BY DEF LetGo
<1> HIDE DEF j
<1> QED BY <1>1, <1>2, JobSane

LEMMA QueuedSane == ASSUME NEW d, NEW R \in SUBSET Runs PROVE Sane(d, RedisQueued(d, R))
<1> DEFINE e == RedisQueued(d, R)
<1>1. ASSUME DOMAIN d = Columns
      PROVE  /\ DOMAIN e = Columns /\ SameRows(d, e) /\ SameTimers(d, e) /\ SameCron(d, e)
             /\ e.job = d.job /\ e.owed = d.owed /\ e.queue = d.queue \cup R
    BY <1>1, Zenon DEF RedisQueued, Columns, SameRows, SameTimers, SameCron
<1> HIDE DEF e
<1>2. ASSUME DOMAIN d = Columns PROVE JobsKept(d, e, {})
    BY <1>1, <1>2 DEF JobsKept, JobsFit, Spares, LeasesLast, Job
<1>3. Sane(d, e) BY <1>1, <1>2, JobsSane DEF Sane
<1> QED BY <1>3 DEF e

LEMMA UnqueuedSane == ASSUME NEW d, NEW R PROVE Sane(d, RedisUnqueued(d, R))
<1> DEFINE e == RedisUnqueued(d, R)
<1>1. ASSUME DOMAIN d = Columns
      PROVE  /\ DOMAIN e = Columns /\ SameRows(d, e) /\ SameTimers(d, e) /\ SameCron(d, e)
             /\ e.job = d.job /\ e.owed = d.owed /\ e.queue = d.queue \ R
    BY <1>1, Zenon DEF RedisUnqueued, Columns, SameRows, SameTimers, SameCron
<1> HIDE DEF e
<1>2. ASSUME DOMAIN d = Columns PROVE JobsKept(d, e, {})
    BY <1>1, <1>2 DEF JobsKept, JobsFit, Spares, LeasesLast, Job
<1>3. Sane(d, e) BY <1>1, <1>2, JobsSane DEF Sane
<1> QED BY <1>3 DEF e

(* Timers *)

LEMMA TimersSane ==
  ASSUME NEW d, NEW e,
         DOMAIN d = Columns => DOMAIN e = Columns /\ SameRows(d, e) /\ SameJobs(d, e) /\ SameCron(d, e),
         DOMAIN d = Columns => TimersKept(d, e)
  PROVE  Sane(d, e)
BY SameIsKept DEF Sane, SaneBut

LEMMA ScheduledSane == ASSUME NEW d, NEW r \in Runs PROVE Sane(d, Scheduled(d, r))
<1> DEFINE e == Scheduled(d, r)
<1>1. ASSUME DOMAIN d = Columns
      PROVE  /\ DOMAIN e = Columns /\ SameRows(d, e) /\ SameJobs(d, e) /\ SameCron(d, e)
             /\ e.timer = [d.timer EXCEPT ![r] = "ahead"]
             /\ e.alarms = [d.alarms EXCEPT ![r] = IF d.timer[r] = "none" THEN @ + 1 ELSE @]
    BY <1>1, Zenon DEF Scheduled, Columns, SameRows, SameJobs, SameCron
<1> HIDE DEF e
<1>2. ASSUME DOMAIN d = Columns PROVE TimersKept(d, e)
    BY <1>1, <1>2 DEF TimersKept, TimersFit, Counted
<1>3. Sane(d, e) BY <1>1, <1>2, TimersSane
<1> QED BY <1>3 DEF e

LEMMA UnscheduledSane == ASSUME NEW d, NEW R PROVE Sane(d, Unscheduled(d, R))
<1> DEFINE e == Unscheduled(d, R)
<1>1. ASSUME DOMAIN d = Columns
      PROVE  /\ DOMAIN e = Columns /\ SameRows(d, e) /\ SameJobs(d, e) /\ SameCron(d, e)
             /\ e.timer = [r \in Runs |-> IF r \in R THEN "none" ELSE d.timer[r]]
             /\ e.alarms = [r \in Runs |-> IF r \in R \cap Set(d) THEN d.alarms[r] - 1 ELSE d.alarms[r]]
    BY <1>1, Zenon DEF Unscheduled, TimerGone, Minus, Columns, SameRows, SameJobs, SameCron
<1> HIDE DEF e
<1>2. ASSUME DOMAIN d = Columns PROVE TimersKept(d, e)
    BY <1>1, <1>2 DEF TimersKept, TimersFit, Counted, Set
<1>3. Sane(d, e) BY <1>1, <1>2, TimersSane
<1> QED BY <1>3 DEF e

(* What is handed out is handed out once, if it was there. *)
LEMMA HandedOutSane ==
  ASSUME NEW d, NEW R, host.backend = "mongodb" \/ R \subseteq Set(d)
  PROVE  Sane(d, HandedOut(TimerGone(d, R), R))
<1> DEFINE e == HandedOut(TimerGone(d, R), R)
<1>1. ASSUME DOMAIN d = Columns
      PROVE  /\ DOMAIN e = Columns /\ SameRows(d, e) /\ SameJobs(d, e) /\ SameCron(d, e)
             /\ e.timer = [r \in Runs |-> IF r \in R THEN "none" ELSE d.timer[r]]
             /\ e.alarms = [r \in Runs |-> IF r \in R THEN d.alarms[r] - 1 ELSE d.alarms[r]]
    BY <1>1, Zenon DEF HandedOut, TimerGone, Minus, Columns, SameRows, SameJobs, SameCron
<1> HIDE DEF e
<1>2. ASSUME DOMAIN d = Columns PROVE TimersKept(d, e)
    BY <1>1, <1>2 DEF TimersKept, TimersFit, Counted, Set
<1>3. Sane(d, e) BY <1>1, <1>2, TimersSane
<1> QED BY <1>3 DEF e

(* A purge takes with a job what is owed to its run, and with a timer its alarm. *)
LEMMA WithoutSane == ASSUME Purges, NEW d, NEW R, NEW parts PROVE Sane(d, Without(d, R, parts))
<1> DEFINE e == Without(d, R, parts)
           cut(part, r) == r \in R /\ part \in parts
<1> HIDE DEF cut
<1>1. ASSUME DOMAIN d = Columns
      PROVE  /\ DOMAIN e = Columns /\ SameCron(d, e)
             /\ e.row = [r \in Runs |-> IF cut("row", r) THEN NoRun ELSE d.row[r]]
             /\ e.left = [r \in Runs |-> IF cut("row", r) THEN 0 ELSE d.left[r]]
             /\ e.key = IF d.key \in R /\ "key" \in parts THEN NoOne ELSE d.key
             /\ e.job = [r \in Runs |-> IF cut("job", r) THEN NoJob ELSE d.job[r]]
             /\ e.owed = (IF "job" \in parts THEN d.owed \ R ELSE d.owed) /\ e.queue = d.queue
             /\ e.timer = [r \in Runs |-> IF cut("timer", r) THEN "none" ELSE d.timer[r]]
             /\ e.alarms = [r \in Runs |-> IF cut("timer", r) THEN 0 ELSE d.alarms[r]]
    BY <1>1, Zenon DEF Without, Columns, SameCron, cut
<1> HIDE DEF e
<1>2. ASSUME DOMAIN d = Columns PROVE RowsKept(d, e)
    BY <1>1, <1>2 DEF RowsKept, RowsFit, WholeRow, RunRow, NoRun
<1>3. ASSUME DOMAIN d = Columns PROVE TimersKept(d, e)
    BY <1>1, <1>3 DEF TimersKept, TimersFit, Counted
<1>4. ASSUME DOMAIN d = Columns PROVE JobsKept(d, e, {})
  <2> SUFFICES ASSUME JobsFit(d) PROVE JobsFit(e) /\ Spares(d, e) BY DEF JobsKept
  <2>1. /\ NoJob \in Job /\ WellFormed(NoJob) /\ NoJob.token = 0 /\ NoJob.expires = 0
        /\ \A r \in Runs : d.job[r] \in Job
      BY DEF NoJob, Job, WellFormed, JobsFit
  <2>2. \A r \in Runs : e.job[r] = IF cut("job", r) THEN NoJob ELSE d.job[r] BY <1>1, <1>4
  <2>3. e.job \in [Runs -> Job] BY <1>1, <1>4, <2>1
  <2>4. \A r \in Runs : WellFormed(e.job[r]) /\ (e.job[r].expires > 0 => e.job[r].token > 0)
      BY <2>1, <2>2 DEF JobsFit
  <2>5. e.owed \subseteq d.owed /\ \A r \in e.owed : ~cut("job", r) BY <1>1, <1>4 DEF cut
  <2>6. \A r \in e.owed : e.job[r].queued BY <2>2, <2>5 DEF JobsFit
  <2>7. e.queue \subseteq Runs /\ e.owed \subseteq Runs BY <1>1, <1>4, <2>5 DEF JobsFit
  <2>8. Spares(d, e)
    <3> SUFFICES ASSUME NEW r \in Runs, e.job[r].token # 0
                 PROVE  /\ e.job[r].token = d.job[r].token /\ e.job[r].version >= d.job[r].version
                        /\ e.job[r].version = d.job[r].version /\ r \in e.owed => r \in d.owed
        BY DEF Spares
    <3>1. e.job[r] = d.job[r] BY <2>1, <2>2
    <3>2. d.job[r].version \in Nat BY <2>1 DEF Job
    <3> QED BY <2>5, <3>1, <3>2
  <2> QED BY <2>3, <2>4, <2>6, <2>7, <2>8 DEF JobsFit
<1>5. Sane(d, e) BY <1>1, <1>2, <1>3, <1>4, SameIsKept DEF Sane, SaneBut
<1> QED BY <1>5 DEF e

LEMMA ErasedSane == ASSUME Purges, NEW d, NEW R PROVE Sane(d, Erased(d, R))
BY WithoutSane DEF Erased

(* Crons *)

LEMMA CronSane ==
  ASSUME NEW d, NEW k, CronFits(d) => k \in Crons /\ OnTime(k)
  PROVE  Sane(d, [d EXCEPT !.cron = k])
<1> DEFINE e == [d EXCEPT !.cron = k]
<1>1. ASSUME DOMAIN d = Columns
      PROVE  /\ DOMAIN e = Columns /\ SameRows(d, e) /\ SameJobs(d, e) /\ SameTimers(d, e)
             /\ e.cron = k /\ e.ripe = d.ripe
    BY <1>1, Zenon DEF Columns, SameRows, SameJobs, SameTimers
<1> HIDE DEF e
<1>2. ASSUME DOMAIN d = Columns PROVE CronStays(d, e) BY <1>1, <1>2 DEF CronStays, CronFits
<1>3. Sane(d, e) BY <1>1, <1>2, SameIsKept DEF Sane, SaneBut
<1> QED BY <1>3 DEF e

LEMMA NoCronFits == NoCron \in Crons /\ OnTime(NoCron)
BY DEF NoCron, Crons, OnTime

(* The score that a Redis server keeps. *)
LEMMA RipeSane ==
  ASSUME NEW d, NEW n \in Nat
  PROVE  Sane(d, [d EXCEPT !.ripe = n])
<1> DEFINE e == [d EXCEPT !.ripe = n]
<1>1. ASSUME DOMAIN d = Columns
      PROVE  /\ DOMAIN e = Columns /\ SameRows(d, e) /\ SameJobs(d, e) /\ SameTimers(d, e)
             /\ e.cron = d.cron /\ e.ripe = n
    BY <1>1, Zenon DEF Columns, SameRows, SameJobs, SameTimers
<1> HIDE DEF e
<1>2. ASSUME DOMAIN d = Columns PROVE CronStays(d, e) BY <1>1, <1>2 DEF CronStays, CronFits
<1>3. Sane(d, e) BY <1>1, <1>2, SameIsKept DEF Sane, SaneBut
<1> QED BY <1>3 DEF e

(* A cron moves on by two, from a time that is its own. *)
LEMMA AdvancedSane ==
  ASSUME NEW d, NEW n, d.cron.next = n
  PROVE  Sane(d, [d EXCEPT !.cron.next = n + 2])
<1> DEFINE k == [d.cron EXCEPT !.next = n + 2]
<1>1. ASSUME CronFits(d) PROVE k \in Crons /\ OnTime(k)
  <2>1. /\ d.cron \in Crons /\ n \in Nat
        /\ host.backend # "redis" /\ d.cron.schedule # 0 => n % 2 = d.cron.schedule % 2
      BY <1>1 DEF CronFits, Crons, OnTime
  <2>2. k \in Crons /\ k.schedule = d.cron.schedule /\ k.next = n + 2 BY <2>1 DEF Crons
  <2>3. (n + 2) % 2 = n % 2 BY <2>1
  <2> HIDE DEF k
  <2> QED BY <2>1, <2>2, <2>3 DEF OnTime
<1>2. [d EXCEPT !.cron.next = n + 2] = [d EXCEPT !.cron = k] OBVIOUS
<1> HIDE DEF k
<1> QED BY <1>1, <1>2, CronSane

LEMMA CronOfFits ==
  ASSUME NEW d, NEW q, Request(q), q.op = "upsertCron", CronFits(d)
  PROVE  CronOf(d, q.arg) \in Crons /\ OnTime(CronOf(d, q.arg))
<1>1. q.arg \in [schedule : {1, 2}, next : Nat] /\ q.arg.next % 2 = q.arg.schedule % 2 BY DEF Request
<1>2. q.arg \in Crons /\ OnTime(q.arg) BY <1>1 DEF Crons, OnTime
<1> QED BY <1>2 DEF CronOf, CronFits

-----------------------------------------------------------------------------
(* The invariant *)

(* What a client holds: runs, and the lease of its last claim, if it has one still. *)
Hand(c, x) ==
  /\ DOMAIN x = Fields /\ x.got \subseteq Runs /\ x.run \in Runs
  /\ x.lease \in Lease /\ x.lease.token \in {0, c} /\ x.seen \in Crons /\ OnTime(x.seen)

(* A job that carries a client's lease has been enqueued since, or owes nothing: an       *)
(* acknowledgement that finds the version it claimed takes no wake with the job.          *)
Leases(d, x) ==
  x.lease.token # 0 /\ d.job[x.run].token = x.lease.token =>
    /\ d.job[x.run].version >= x.lease.version
    /\ d.job[x.run].version = x.lease.version => x.run \notin d.owed

(* A lease that its holder counts on, and is not letting go, is on the job. *)
Firm(d, x) ==
  x.lease.expires = 1 /\ x.pc # "release" =>
    x.lease.token # 0 /\ d.job[x.run].token = x.lease.token /\ d.job[x.run].expires > 0

Inv ==
  /\ DOMAIN host = {"backend", "lapse"}
  /\ Fits(db) /\ (host.backend # "mongodb" => Counted(db))
  /\ todo \in [Clients -> Seq(Requests)]
  /\ DOMAIN at = Clients /\ \A c \in Clients : Hand(c, at[c]) /\ Leases(db, at[c])
  /\ Purges \/ \A c \in Clients : Firm(db, at[c])

(* A client that is at a call, and not at the second half of an acknowledgement. *)
Busy(c) == todo[c] # <<>> /\ at[c].pc # "release"

(* A step of a client's program: it goes on with its call, ends it, or gives up. *)
Resumes(c) ==
  \/ todo' = todo
  \/ todo[c] # <<>> /\ todo' = [todo EXCEPT ![c] = Tail(@)]
  \/ todo' = [todo EXCEPT ![c] = <<>>]

LEMMA ClientsAreNumbers == \A c \in Clients : c \in Runs /\ c \in Nat /\ c # 0
BY BackendConstants DEF Runs

LEMMA CallsAreRequests ==
  ASSUME Inv, NEW c \in Clients, Busy(c)
  PROVE  Request(Call(c))
<1>1. Call(c) \in Requests BY DEF Inv, Call, Busy
<1>2. PICK k \in Cases, b \in Clients : \E i \in 1..Len(k.calls[b]) : Call(c) = k.calls[b][i]
    BY <1>1 DEF Requests
<1> QED BY <1>2, CasesAssumption DEF Program

LEMMA ResumesKeeps ==
  ASSUME Inv, NEW c \in Clients, Resumes(c)
  PROVE  todo' \in [Clients -> Seq(Requests)]
<1>1. todo \in [Clients -> Seq(Requests)] BY DEF Inv
<1>2. CASE todo' = todo BY <1>1, <1>2
<1>3. CASE todo[c] # <<>> /\ todo' = [todo EXCEPT ![c] = Tail(@)]
  <2>1. Tail(todo[c]) \in Seq(Requests) BY <1>1, <1>3
  <2> QED BY <1>1, <1>3, <2>1
<1>4. CASE todo' = [todo EXCEPT ![c] = <<>>]
  <2>1. <<>> \in Seq(Requests) OBVIOUS
  <2> QED BY <1>1, <1>4, <2>1
<1> QED BY <1>2, <1>3, <1>4 DEF Resumes

(* A sane statement leaves what is known of a lease as it was. *)
LEMMA LeasesStay ==
  ASSUME NEW d, NEW e, NEW c \in Clients, NEW x, Hand(c, x), Leases(d, x),
         JobsFit(d), JobsFit(e), Spares(d, e)
  PROVE  Leases(e, x)
<1> SUFFICES ASSUME x.lease.token # 0, e.job[x.run].token = x.lease.token
             PROVE  /\ e.job[x.run].version >= x.lease.version
                    /\ e.job[x.run].version = x.lease.version => x.run \notin e.owed
    BY DEF Leases
<1>1. x.run \in Runs /\ x.lease.version \in Nat BY DEF Hand, Lease
<1>2. d.job[x.run].version \in Nat /\ e.job[x.run].version \in Nat BY <1>1 DEF JobsFit, Job
<1>3. /\ e.job[x.run].token = d.job[x.run].token /\ e.job[x.run].version >= d.job[x.run].version
      /\ e.job[x.run].version = d.job[x.run].version /\ x.run \in e.owed => x.run \in d.owed
    BY <1>1 DEF Spares
<1>4. /\ d.job[x.run].version >= x.lease.version
      /\ d.job[x.run].version = x.lease.version => x.run \notin d.owed
    BY <1>3 DEF Leases
<1> QED BY <1>1, <1>2, <1>3, <1>4

(* A lease that is on its job stays there, if the statement ends none of that run's. *)
LEMMA FirmStays ==
  ASSUME NEW d, NEW e, NEW W, NEW x, x.run \in Runs \ W, Firm(d, x), LeasesLast(d, e, W)
  PROVE  Firm(e, x)
BY DEF Firm, LeasesLast

(* A lease is its client's: on a run that another client holds, nobody else's lease is. *)
LEMMA OneFirm ==
  ASSUME NEW d, NEW b \in Clients, NEW c \in Clients, NEW x, NEW y, Hand(b, x), Hand(c, y),
         x.lease.expires = 1, x.pc # "release", Firm(d, x),
         d.job[x.run].token = y.lease.token
  PROVE  b = c
<1>1. b # 0 /\ c # 0 BY ClientsAreNumbers
<1> QED BY <1>1 DEF Firm, Hand

(* What one step of a client may do to the leases: none ends but its own, and that only  *)
(* when it has let go of it.                                                             *)
MayEnd(c, x, W) ==
  \/ W = {}
  \/ /\ W = {at[c].run} /\ db.job[at[c].run].token = at[c].lease.token
     /\ x.lease = NoLease \/ x.pc = "release"

(* A step that makes one sane statement, and takes no lease. *)
LEMMA Turn ==
  ASSUME Inv, NEW c \in Clients, NEW d, NEW x, NEW W, SaneBut(db, d, W), Hand(c, x),
         x.run = at[c].run, x.lease = at[c].lease \/ x.lease = NoLease, MayEnd(c, x, W),
         at[c].pc # "release" \/ x.lease = NoLease,
         db' = d, at' = [at EXCEPT ![c] = x], Resumes(c), host' = host
  PROVE  Inv'
<1>1. /\ DOMAIN db = Columns /\ RowsFit(db) /\ JobsFit(db) /\ TimersFit(db) /\ CronFits(db)
      /\ (host.backend # "mongodb" => Counted(db))
    BY DEF Inv, Fits
<1>2. /\ DOMAIN d = Columns /\ RowsFit(d) /\ JobsFit(d) /\ TimersFit(d) /\ CronFits(d)
      /\ (host.backend # "mongodb" => Counted(d)) /\ Spares(db, d)
      /\ Purges \/ LeasesLast(db, d, W)
    BY <1>1 DEF SaneBut, RowsKept, JobsKept, TimersKept, CronStays
<1>3. (DOMAIN host = {"backend", "lapse"})' BY DEF Inv
<1>4. (Fits(db) /\ (host.backend # "mongodb" => Counted(db)))'
    BY <1>2 DEF Fits, RowsFit, JobsFit, TimersFit, CronFits, OnTime, Counted
<1>5. (todo \in [Clients -> Seq(Requests)])' BY ResumesKeeps
<1>6. DOMAIN at = Clients /\ \A b \in Clients : Hand(b, at[b]) /\ Leases(db, at[b]) BY DEF Inv
<1>7. DOMAIN at' = Clients /\ \A b \in Clients : at'[b] = IF b = c THEN x ELSE at[b] BY <1>6
<1>8. ASSUME NEW b \in Clients PROVE Hand(b, at'[b]) /\ Leases(d, at'[b])
  <2>1. CASE b # c BY <1>1, <1>2, <1>6, <1>7, <2>1, LeasesStay
  <2>2. CASE b = c
    <3>1. Leases(db, x)
      <4>1. CASE x.lease = NoLease BY <4>1 DEF Leases, NoLease
      <4>2. CASE x.lease = at[c].lease BY <1>6, <4>2 DEF Leases
      <4> QED BY <4>1, <4>2
    <3> QED BY <1>1, <1>2, <1>7, <2>2, <3>1, LeasesStay
  <2> QED BY <2>1, <2>2
<1>9. ASSUME ~Purges, NEW b \in Clients PROVE Firm(d, at'[b])
  <2>1. Firm(db, at[b]) /\ Firm(db, at[c]) /\ LeasesLast(db, d, W) BY <1>2, <1>9 DEF Inv
  <2>2. at[b].run \in Runs BY <1>6 DEF Hand
  <2>3. CASE b # c
    <3>1. at'[b] = at[b] BY <1>7, <2>3
    <3>2. CASE at[b].run \notin W BY <2>1, <2>2, <3>1, <3>2, FirmStays
    <3>3. CASE at[b].run \in W
      <4>1. db.job[at[b].run].token = at[c].lease.token BY <3>3 DEF MayEnd
      <4>2. ~(at[b].lease.expires = 1 /\ at[b].pc # "release") BY <1>6, <2>1, <2>3, <4>1, OneFirm
      <4> QED BY <3>1, <4>2 DEF Firm
    <3> QED BY <3>2, <3>3
  <2>4. CASE b = c
    <3>1. at'[b] = x BY <1>7, <2>4
    <3>2. CASE x.lease = NoLease \/ x.pc = "release" BY <3>1, <3>2 DEF Firm, NoLease
    <3>3. CASE x.lease = at[c].lease /\ at[c].pc # "release" /\ W = {}
      <4>1. Firm(db, x) BY <2>1, <3>3 DEF Firm
      <4> QED BY <2>1, <2>2, <2>4, <3>1, <3>3, <4>1, FirmStays
    <3> QED BY <3>2, <3>3 DEF MayEnd
  <2> QED BY <2>3, <2>4
<1>10. (\A b \in Clients : Hand(b, at[b]) /\ Leases(db, at[b]))'
    BY <1>8 DEF Hand, Leases, OnTime
<1>11. (Purges \/ \A b \in Clients : Firm(db, at[b]))' BY <1>9 DEF Firm, Purges, Requests
<1> QED BY <1>3, <1>4, <1>5, <1>7, <1>10, <1>11 DEF Inv

-----------------------------------------------------------------------------
(* The ways a step ends *)

(* The same hand, of a client that still has the run and the lease it had. *)
StillHolds(c, x) ==
  Hand(c, x) /\ x.run = at[c].run /\ (x.lease = at[c].lease \/ x.lease = NoLease)

LEMMA HandStays == ASSUME Inv, NEW c \in Clients PROVE StillHolds(c, at[c])
BY DEF Inv, StillHolds

LEMMA GoesKeeps ==
  ASSUME Inv, NEW c \in Clients, Busy(c), NEW d, NEW x, Sane(db, d), StillHolds(c, x), Goes(c, d, x)
  PROVE  Inv'
BY Turn DEF Goes, Resumes, StillHolds, Sane, Busy, MayEnd

LEMMA WritesKeeps ==
  ASSUME Inv, NEW c \in Clients, Busy(c), NEW d, NEW pc, Sane(db, d), Writes(c, d, pc)
  PROVE  Inv'
<1> DEFINE x == [at[c] EXCEPT !.pc = pc]
<1>1. Hand(c, at[c]) BY DEF Inv
<1>2. /\ DOMAIN x = Fields /\ x.got = at[c].got /\ x.run = at[c].run /\ x.lease = at[c].lease
      /\ x.seen = at[c].seen
    BY <1>1, Zenon DEF Hand, Fields
<1> HIDE DEF x
<1>3. StillHolds(c, x) BY <1>1, <1>2 DEF Hand, StillHolds
<1>4. Goes(c, d, x) BY DEF Writes, x
<1> QED BY <1>3, <1>4, GoesKeeps

LEMMA ReadsKeeps ==
  ASSUME Inv, NEW c \in Clients, Busy(c), NEW pc, NEW got \in SUBSET Runs, Reads(c, pc, got)
  PROVE  Inv'
<1> DEFINE x == [at[c] EXCEPT !.pc = pc, !.got = got]
<1>1. Hand(c, at[c]) BY DEF Inv
<1>2. /\ DOMAIN x = Fields /\ x.got = got /\ x.run = at[c].run /\ x.lease = at[c].lease
      /\ x.seen = at[c].seen
    BY <1>1, Zenon DEF Hand, Fields
<1> HIDE DEF x
<1>3. StillHolds(c, x) BY <1>1, <1>2 DEF Hand, StillHolds
<1>4. Goes(c, db, x) BY DEF Reads, x
<1> QED BY <1>3, <1>4, GoesKeeps, SaneToStay

(* A client that has read no more than what is left out here goes on. *)
LEMMA LooksKeep ==
  ASSUME Inv, NEW c \in Clients, Busy(c), NEW d, NEW x, Sane(db, d), Goes(c, d, x), DOMAIN x = Fields,
         x.got \subseteq Runs, x.run = at[c].run, x.lease = at[c].lease, x.seen = at[c].seen
  PROVE  Inv'
<1>1. Hand(c, at[c]) BY DEF Inv
<1>2. StillHolds(c, x) BY <1>1 DEF Hand, StillHolds
<1> QED BY <1>2, GoesKeeps

LEMMA EndsWithKeeps ==
  ASSUME Inv, NEW c \in Clients, NEW d, NEW x, NEW answer, Busy(c),
         Sane(db, d), StillHolds(c, x), EndsWith(c, d, x, answer)
  PROVE  Inv'
<1> DEFINE y == [x EXCEPT !.pc = "call", !.got = {}, !.parts = {}, !.seen = NoCron,
                          !.out = {}, !.looks = {}, !.cursor = Ready.cursor]
<1>1. Hand(c, x) BY DEF StillHolds
<1>2. /\ DOMAIN y = Fields /\ y.got = {} /\ y.run = x.run /\ y.lease = x.lease /\ y.seen = NoCron
    BY <1>1, Zenon DEF Hand, Fields
<1>3. db' = d /\ at' = [at EXCEPT ![c] = y] /\ Resumes(c) /\ host' = host
    BY DEF EndsWith, Resumes, Busy
<1> HIDE DEF y
<1>4. Hand(c, y) /\ y.run = at[c].run /\ (y.lease = at[c].lease \/ y.lease = NoLease)
    BY <1>1, <1>2, NoCronFits DEF Hand, StillHolds
<1>5. SaneBut(db, d, {}) /\ MayEnd(c, y, {}) /\ at[c].pc # "release" BY DEF Sane, MayEnd, Busy
<1> QED BY <1>3, <1>4, <1>5, Turn

LEMMA EndsKeeps ==
  ASSUME Inv, NEW c \in Clients, NEW d, NEW answer, Busy(c), Sane(db, d), Ends(c, d, answer)
  PROVE  Inv'
BY EndsWithKeeps, HandStays DEF Ends

(* A call that is answered from the tables, and leaves them alone. *)
LEMMA AnswerKeeps ==
  ASSUME Inv, NEW c \in Clients, NEW answer, Busy(c), Ends(c, db, answer)
  PROVE  Inv'
BY EndsKeeps, SaneToStay

LEMMA ThrowsKeeps == ASSUME Inv, NEW c \in Clients, Busy(c), Throws(c) PROVE Inv'
<1> DEFINE x == [at[c] EXCEPT !.pc = "call", !.got = {}]
<1>1. Hand(c, at[c]) BY DEF Inv
<1>2. /\ DOMAIN x = Fields /\ x.got = {} /\ x.run = at[c].run /\ x.lease = at[c].lease
      /\ x.seen = at[c].seen
    BY <1>1, Zenon DEF Hand, Fields
<1>3. at' = [at EXCEPT ![c] = x] /\ Resumes(c) /\ host' = host /\ db' = db BY DEF Throws, Resumes
<1> HIDE DEF x
<1>4. Hand(c, x) BY <1>1, <1>2 DEF Hand
<1>5. SaneBut(db, db, {}) /\ MayEnd(c, x, {}) /\ at[c].pc # "release"
    BY SaneToStay DEF Sane, MayEnd, Busy
<1> QED BY <1>2, <1>3, <1>4, <1>5, Turn

-----------------------------------------------------------------------------
(* What the calls make of the tables *)

LEMMA ReopenedSane ==
  ASSUME NEW d, NEW R \in SUBSET Runs
  PROVE  Sane(d, Reopened(d, R))
<1>1. Sane(d, Pending(d, R)) /\ Sane(Pending(d, R), Enqueuing(Pending(d, R), R))
    BY PendingSane, EnqueuingSane
<1> QED BY <1>1, SaneInTurn DEF Reopened

LEMMA OverSane ==
  ASSUME NEW d, NEW r \in Runs, NEW outcome \in Terminal
  PROVE  Sane(d, Over(d, r, outcome))
<1> DEFINE row == Terminated(d.row[r], outcome)
           over == [d EXCEPT !.row[r] = row]
<1>1. ASSUME RowsFit(d) PROVE row \in WholeRow
  <2>1. d.row[r] \in WholeRow BY <1>1 DEF RowsFit
  <2> QED BY <2>1 DEF Terminated, WholeRow, RunRow, NoRun, Terminal, Active
<1>2. Over(d, r, outcome) = IF ~LiveIn(d, r) THEN d
                            ELSE IF outcome = "canceled" THEN Unscheduled(over, {r}) ELSE over
    BY DEF Over
<1> HIDE DEF row
<1>3. Sane(d, over) BY <1>1, RowSane
<1> HIDE DEF over
<1>4. Sane(d, Unscheduled(over, {r})) BY <1>3, UnscheduledSane, SaneInTurn
<1> QED BY <1>2, <1>3, <1>4, SaneToStay

(* A park of a live run, and the timer it sets. *)
LEMMA ParkedSane ==
  ASSUME NEW d, NEW r \in Runs, NEW status \in Active
  PROVE  Sane(d, [d EXCEPT !.row[r] = Suspended(@, status)])
<1> DEFINE row == Suspended(d.row[r], status)
<1>1. ASSUME RowsFit(d) PROVE row \in WholeRow
  <2>1. d.row[r] \in WholeRow BY <1>1 DEF RowsFit
  <2> QED BY <2>1 DEF Suspended, WholeRow, RunRow, NoRun, Terminal, Active
<1>2. [d EXCEPT !.row[r] = Suspended(@, status)] = [d EXCEPT !.row[r] = row] OBVIOUS
<1> HIDE DEF row
<1> QED BY <1>1, <1>2, RowSane

LEMMA MarkedSane ==
  ASSUME NEW d, NEW r \in Runs
  PROVE  Sane(d, [d EXCEPT !.row[r] = MarkedRunning(@)])
<1> DEFINE row == MarkedRunning(d.row[r])
<1>1. ASSUME RowsFit(d) PROVE row \in WholeRow
  <2>1. d.row[r] \in WholeRow BY <1>1 DEF RowsFit
  <2> QED BY <2>1 DEF MarkedRunning, WholeRow, RunRow, NoRun, Terminal, Active
<1>2. [d EXCEPT !.row[r] = MarkedRunning(@)] = [d EXCEPT !.row[r] = row] OBVIOUS
<1> HIDE DEF row
<1> QED BY <1>1, <1>2, RowSane

LEMMA JoinedSane == ASSUME NEW d, NEW r \in Runs PROVE Sane(d, Joined(d, r))
<1>1. RowsFit(d) => 1 \in Int OBVIOUS
<1> QED BY <1>1, LeftSane DEF Joined

LEMMA OutboxedSane ==
  ASSUME NEW d, NEW c \in Clients, Call(c).run \in Runs
  PROVE  Sane(d, Outboxed(d, c)) /\ Sane(d, RedisApplyOutbox(d, c))
<1> DEFINE r == Call(c).run
           Spawned(R) == Enqueuing(Born(d, R), {c})
<1>1. \A f : Sane(f, Joined(f, r)) BY JoinedSane
<1>2. \A R : Sane(d, Spawned(R))
  <2> TAKE R
  <2>1. {c} \in SUBSET Runs BY ClientsAreNumbers
  <2>2. Sane(Born(d, R), Enqueuing(Born(d, R), {c})) BY <2>1, EnqueuingSane
  <2> QED BY <2>2, BornSane, SaneInTurn
<1>3. \A R : Sane(d, RedisQueued(Spawned(R), {c}))
  <2> TAKE R
  <2>1. {c} \in SUBSET Runs BY ClientsAreNumbers
  <2>2. Sane(Spawned(R), RedisQueued(Spawned(R), {c})) BY <2>1, QueuedSane
  <2> QED BY <1>2, <2>2, SaneInTurn
<1>4. Sane(d, Consumed(d, r)) BY ConsumedSane
<1>5. Outboxed(d, c) = IF Spawns(c) THEN Joined(Spawned(IF There(d, c) THEN {} ELSE {c}), r)
                       ELSE IF Uses(c) THEN Consumed(d, r) ELSE d
    BY DEF Outboxed
<1>6. RedisApplyOutbox(d, c) = IF Spawns(c) THEN Joined(RedisQueued(Spawned({c}), {c}), r)
                               ELSE IF Uses(c) THEN Consumed(d, r) ELSE d
    BY DEF RedisApplyOutbox
<1> HIDE DEF r, Spawned
<1>7. \A R : Sane(d, Joined(Spawned(R), r)) BY <1>1, <1>2, SaneInTurn
<1>8. \A R : Sane(d, Joined(RedisQueued(Spawned(R), {c}), r)) BY <1>1, <1>3, SaneInTurn
<1> QED BY <1>4, <1>5, <1>6, <1>7, <1>8, SaneToStay

-----------------------------------------------------------------------------
(* The calls that backends share *)

LEMMA OnHasCall ==
  ASSUME NEW c, NEW op, NEW pc, On(c, op, pc), pc # "release"
  PROVE  Busy(c) /\ Call(c).op = op
BY DEF On, Busy

(* A client that purges has a purge in its program. *)
LEMMA PurgeIsCalled == ASSUME Inv, NEW c \in Clients, Busy(c), Call(c).op = "purge" PROVE Purges
<1>1. Call(c) \in Requests BY DEF Inv, Call, Busy
<1> QED BY <1>1 DEF Purges

LEMMA RunOfCall ==
  ASSUME Inv, NEW c \in Clients, Busy(c)
  PROVE  Call(c).run \in Runs
BY CallsAreRequests DEF Request

LEMMA FindsHolderKeeps == ASSUME Inv, NEW c \in Clients, NEW op, FindsHolder(c, op) PROVE Inv'
BY AnswerKeeps, ThrowsKeeps, OnHasCall DEF FindsHolder

LEMMA StartOrFindKeeps == ASSUME Inv, NEW c \in Clients, NEW op, StartOrFind(c, op) PROVE Inv'
<1>1. CASE FindsHolder(c, op) BY <1>1, FindsHolderKeeps
<1>2. CASE Calls(c, op) /\ db.key = NoOne /\ Ends(c, StartedAs(db, c), c)
    BY <1>2, EndsKeeps, OnHasCall, StartedSane DEF Calls
<1>3. CASE Calls(c, op) /\ Writes(c, db, "hit") 
    BY <1>3, WritesKeeps, SaneToStay, OnHasCall DEF Calls
<1> QED BY <1>1, <1>2, <1>3 DEF StartOrFind

LEMMA StartAtOnceKeeps == ASSUME Inv, NEW c \in Clients, NEW op, StartAtOnce(c, op) PROVE Inv'
<1>1. Busy(c) BY OnHasCall DEF StartAtOnce, Calls
<1>2. CASE Ends(c, StartedAs(db, c), c) BY <1>1, <1>2, EndsKeeps, StartedSane
<1>3. CASE Ends(c, db, db.key) BY <1>1, <1>3, AnswerKeeps
<1>4. CASE Throws(c) BY <1>1, <1>4, ThrowsKeeps
<1> QED BY <1>2, <1>3, <1>4 DEF StartAtOnce

(* A snapshot of a run is not a lease on it. *)
LEMMA ShownHolds ==
  ASSUME Inv, NEW c \in Clients, NEW log, NEW mail
  PROVE  /\ StillHolds(c, Shown(c, log, mail))
         /\ \A pc : StillHolds(c, [Shown(c, log, mail) EXCEPT !.pc = pc])
<1> DEFINE x == Shown(c, log, mail)
<1>1. Hand(c, at[c]) BY DEF Inv
<1>2. /\ DOMAIN x = Fields /\ x.got = at[c].got /\ x.run = at[c].run /\ x.lease = at[c].lease
      /\ x.seen = at[c].seen
    BY <1>1, Zenon DEF Hand, Fields, Shown
<1> HIDE DEF x
<1>3. StillHolds(c, x) BY <1>1, <1>2 DEF Hand, StillHolds
<1>4. ASSUME NEW pc PROVE StillHolds(c, [x EXCEPT !.pc = pc])
  <2> DEFINE y == [x EXCEPT !.pc = pc]
  <2>1. /\ DOMAIN y = Fields /\ y.got = at[c].got /\ y.run = at[c].run /\ y.lease = at[c].lease
        /\ y.seen = at[c].seen
      BY <1>2, Zenon DEF Fields
  <2> HIDE DEF y
  <2>2. StillHolds(c, y) BY <1>1, <2>1 DEF Hand, StillHolds
  <2> QED BY <2>2 DEF y
<1> QED BY <1>3, <1>4 DEF x

LEMMA LoadKeeps ==
  ASSUME Inv, NEW c \in Clients, LoadAtOnce(c) \/ LoadLogFirst(c) \/ LoadMailFirst(c)
  PROVE  Inv'
<1>1. CASE \E log, mail, answer : Busy(c) /\ EndsWith(c, db, Shown(c, log, mail), answer)
    BY <1>1, EndsWithKeeps, ShownHolds, SaneToStay
<1>2. CASE \E log, mail, pc : Busy(c) /\ Goes(c, db, [Shown(c, log, mail) EXCEPT !.pc = pc])
    BY <1>2, GoesKeeps, ShownHolds, SaneToStay
<1>3. Busy(c) BY OnHasCall DEF LoadAtOnce, LoadLogFirst, LoadMailFirst, Calls
<1> QED BY <1>1, <1>2, <1>3 DEF LoadAtOnce, LoadLogFirst, LoadMailFirst

LEMMA MarkKeeps == ASSUME Inv, NEW c \in Clients, Busy(c), Mark(c) PROVE Inv'
BY EndsKeeps, RunOfCall, MarkedSane DEF Mark

LEMMA MarkAtOnceKeeps == ASSUME Inv, NEW c \in Clients, MarkAtOnce(c) PROVE Inv'
BY MarkKeeps, ThrowsKeeps, OnHasCall DEF MarkAtOnce, Calls

LEMMA MarkOrLookKeeps == ASSUME Inv, NEW c \in Clients, MarkOrLook(c) PROVE Inv'
<1>1. CASE Calls(c, "mark") BY <1>1, MarkKeeps, WritesKeeps, SaneToStay, OnHasCall DEF MarkOrLook, Calls, On
<1>2. CASE On(c, "mark", "cur") BY <1>2, AnswerKeeps, ThrowsKeeps, OnHasCall DEF MarkOrLook, Calls, On
<1> QED BY <1>1, <1>2 DEF MarkOrLook

(* A checkpoint writes its entry and its outbox together. *)
LEMMA CommitSane ==
  ASSUME Inv, NEW c \in Clients, Busy(c)
  PROVE  /\ Sane(db, Outboxed(Written(db, c), c))
         /\ Sane(db, RedisApplyOutbox(Written(db, c), c))
<1>1. Call(c).run \in Runs BY RunOfCall
<1> QED BY <1>1, WrittenSane, OutboxedSane, SaneInTurn

LEMMA CheckpointKeeps ==
  ASSUME Inv, NEW c \in Clients, Busy(c), NEW d, Sane(db, d),
         Throws(c) \/ Replayed(c) \/ Refused(c) \/ Committed(c, d)
  PROVE  Inv'
BY ThrowsKeeps, AnswerKeeps, EndsKeeps DEF Replayed, Refused, Committed

LEMMA CheckpointAtOnceKeeps ==
  ASSUME Inv, NEW c \in Clients, Busy(c), NEW d, Sane(db, d), CheckpointAtOnce(c, d)
  PROVE  Inv'
BY CheckpointKeeps DEF CheckpointAtOnce

LEMMA SuspendKeeps ==
  ASSUME Inv, NEW c \in Clients, Calls(c, "suspend"), SuspendAtOnce(c)
  PROVE  Inv'
<1> DEFINE r == Call(c).run
           parked == [db EXCEPT !.row[r] = Suspended(@, Call(c).arg)]
           d == IF ~LiveIn(db, r) THEN db ELSE IF Naps(c) THEN Scheduled(parked, r) ELSE parked
<1>1. Busy(c) /\ Call(c).op = "suspend" BY OnHasCall DEF Calls
<1>2. r \in Runs /\ Call(c).arg \in Active BY <1>1, CallsAreRequests DEF Request
<1>3. Sane(db, parked) BY <1>2, ParkedSane
<1>4. Ends(c, d, TRUE) BY DEF SuspendAtOnce
<1> HIDE DEF r, parked
<1>5. Sane(db, Scheduled(parked, r)) BY <1>2, <1>3, ScheduledSane, SaneInTurn
<1>6. Sane(db, d) BY <1>3, <1>5, SaneToStay
<1> QED BY <1>1, <1>4, <1>6, EndsKeeps

LEMMA FinishKeeps ==
  ASSUME Inv, NEW c \in Clients, Calls(c, "finish"), FinishAtOnce(c)
  PROVE  Inv'
<1>1. Busy(c) /\ Call(c).op = "finish" BY OnHasCall DEF Calls
<1>2. Call(c).run \in Runs /\ Call(c).arg \in Terminal BY <1>1, CallsAreRequests DEF Request
<1>3. Sane(db, Over(db, Call(c).run, Call(c).arg)) BY <1>2, OverSane
<1> QED BY <1>1, <1>3, EndsKeeps DEF FinishAtOnce

LEMMA ArriveKeeps == ASSUME Inv, NEW c \in Clients, ArriveAtOnce(c) PROVE Inv'
<1> DEFINE r == Call(c).run
<1>1. Busy(c) BY OnHasCall DEF ArriveAtOnce, Calls
<1>2. r \in Runs BY <1>1, RunOfCall
<1>3. ASSUME RowsFit(db) PROVE db.left[r] - 1 \in Int BY <1>2, <1>3 DEF RowsFit
<1>4. Sane(db, [db EXCEPT !.left[r] = db.left[r] - 1]) BY <1>2, <1>3, LeftSane
<1>5. [db EXCEPT !.left[r] = @ - 1] = [db EXCEPT !.left[r] = db.left[r] - 1] OBVIOUS
<1>6. CASE Ends(c, [db EXCEPT !.left[r] = @ - 1], db.left[r] - 1) BY <1>1, <1>4, <1>5, <1>6, EndsKeeps
<1>7. CASE Ends(c, db, 9) BY <1>1, <1>7, AnswerKeeps
<1> QED BY <1>6, <1>7 DEF ArriveAtOnce

LEMMA SignalledSane ==
  ASSUME NEW d, NEW r \in Runs
  PROVE  Sane(d, Enqueuing(Delivered(d, r), {r}))
<1>1. Sane(Delivered(d, r), Enqueuing(Delivered(d, r), {r})) BY EnqueuingSane
<1> QED BY <1>1, DeliveredSane, SaneInTurn

LEMMA SignalKeeps ==
  ASSUME Inv, NEW c \in Clients, Busy(c), SignalAtOnce(c)
  PROVE  Inv'
<1>1. Call(c).run \in Runs BY RunOfCall
<1>2. Sane(db, Enqueuing(Delivered(db, Call(c).run), {Call(c).run})) BY <1>1, SignalledSane
<1> QED BY <1>2, AnswerKeeps, EndsKeeps DEF SignalAtOnce

LEMMA RefusesKeeps == ASSUME Inv, NEW c \in Clients, Refuses(c) PROVE Inv'
BY OnHasCall, ThrowsKeeps DEF Refuses, Calls

LEMMA ChosenAreRuns ==
  ASSUME NEW c, NEW allowed
  PROVE  Chosen(c, allowed) \in SUBSET Runs /\ Victims(c) \in SUBSET Runs
BY DEF Chosen, Victims

LEMMA CancelAtOnceKeeps == ASSUME Inv, NEW c \in Clients, CancelAtOnce(c) PROVE Inv'
<1> DEFINE live == Chosen(c, Active)
<1>1. Busy(c) BY OnHasCall DEF CancelAtOnce, Asks, Calls
<1>2. Ends(c, StatusSet(Unscheduled(db, live), live, "canceled"), TRUE) BY DEF CancelAtOnce
<1> HIDE DEF live
<1>3. "canceled" \in Active \cup Terminal BY DEF Terminal
<1>4. Sane(Unscheduled(db, live), StatusSet(Unscheduled(db, live), live, "canceled"))
    BY <1>3, StatusSane
<1>5. Sane(db, StatusSet(Unscheduled(db, live), live, "canceled"))
    BY <1>4, UnscheduledSane, SaneInTurn
<1> QED BY <1>1, <1>2, <1>5, EndsKeeps

LEMMA RetryAllAtOnceKeeps == ASSUME Inv, NEW c \in Clients, RetryAllAtOnce(c) PROVE Inv'
<1>1. Busy(c) BY OnHasCall DEF RetryAllAtOnce, Asks, Calls
<1>2. Sane(db, Reopened(db, Chosen(c, {"failed"}))) BY ChosenAreRuns, ReopenedSane
<1> QED BY <1>1, <1>2, EndsKeeps DEF RetryAllAtOnce

LEMMA RetryAtOnceKeeps == ASSUME Inv, NEW c \in Clients, RetryAtOnce(c) PROVE Inv'
<1>1. Busy(c) BY OnHasCall DEF RetryAtOnce, Calls
<1>2. {Call(c).run} \in SUBSET Runs BY <1>1, RunOfCall
<1>3. Sane(db, Reopened(db, {Call(c).run})) BY <1>2, ReopenedSane
<1> QED BY <1>1, <1>3, EndsKeeps, AnswerKeeps DEF RetryAtOnce

LEMMA ScansKeeps ==
  ASSUME Inv, NEW c \in Clients, NEW op, NEW found \in SUBSET Runs, Scans(c, op, found)
  PROVE  Inv'
BY AnswerKeeps, ReadsKeeps, OnHasCall DEF Scans, Calls

LEMMA VisitsKeeps ==
  ASSUME Inv, NEW c \in Clients, Busy(c), NEW r, NEW d, Sane(db, d), Visits(c, r, d)
  PROVE  Inv'
<1> DEFINE x == [at[c] EXCEPT !.got = @ \ {r}]
<1>1. Hand(c, at[c]) BY DEF Inv
<1>2. /\ DOMAIN x = Fields /\ x.got = at[c].got \ {r} /\ x.run = at[c].run
      /\ x.lease = at[c].lease /\ x.seen = at[c].seen
    BY <1>1, Zenon DEF Hand, Fields
<1>3. Ends(c, d, TRUE) \/ Goes(c, d, x) BY DEF Visits
<1> HIDE DEF x
<1>4. x.got \subseteq Runs BY <1>1, <1>2 DEF Hand
<1> QED BY <1>2, <1>3, <1>4, EndsKeeps, LooksKeep

(* The runs that a call has read are runs. *)
LEMMA GotAreRuns == ASSUME Inv, NEW c \in Clients PROVE at[c].got \in SUBSET Runs
BY DEF Inv, Hand

LEMMA DeleteInPartsKeeps ==
  ASSUME Inv, NEW c \in Clients, NEW parts, DeleteInParts(c, parts)
  PROVE  Inv'
<1>1. Hand(c, at[c]) /\ Busy(c) /\ Purges
  <2>1. Busy(c) /\ Call(c).op = "purge" BY OnHasCall DEF DeleteInParts, Asks, Calls
  <2> QED BY <2>1, PurgeIsCalled DEF Inv
<1>2. CASE Ends(c, db, TRUE) BY <1>1, <1>2, AnswerKeeps
<1>3. CASE Goes(c, db, [at[c] EXCEPT !.pc = "delete", !.got = Victims(c), !.parts = parts])
  <2> DEFINE x == [at[c] EXCEPT !.pc = "delete", !.got = Victims(c), !.parts = parts]
  <2>1. /\ DOMAIN x = Fields /\ x.got = Victims(c) /\ x.run = at[c].run
        /\ x.lease = at[c].lease /\ x.seen = at[c].seen
      BY <1>1, Zenon DEF Hand, Fields
  <2> HIDE DEF x
  <2> QED BY <1>1, <1>3, <2>1, ChosenAreRuns, LooksKeep, SaneToStay DEF x
<1>4. ASSUME NEW part \in at[c].parts, Ends(c, Without(db, at[c].got, part), TRUE) PROVE Inv'
    BY <1>1, <1>4, WithoutSane, EndsKeeps
<1>5. ASSUME NEW part \in at[c].parts,
             Goes(c, Without(db, at[c].got, part), [at[c] EXCEPT !.parts = @ \ {part}])
      PROVE  Inv'
  <2> DEFINE x == [at[c] EXCEPT !.parts = @ \ {part}]
  <2>1. /\ DOMAIN x = Fields /\ x.got = at[c].got /\ x.run = at[c].run
        /\ x.lease = at[c].lease /\ x.seen = at[c].seen
      BY <1>1, Zenon DEF Hand, Fields
  <2>2. Goes(c, Without(db, at[c].got, part), x) BY <1>5
  <2> HIDE DEF x
  <2> QED BY <1>1, <2>1, <2>2, GotAreRuns, LooksKeep, WithoutSane
<1> QED BY <1>2, <1>3, <1>4, <1>5 DEF DeleteInParts

(* Crons *)

LEMMA UpsertKeeps == ASSUME Inv, NEW c \in Clients, UpsertAtOnce(c) PROVE Inv'
<1>1. Busy(c) /\ Call(c).op = "upsertCron" BY OnHasCall DEF UpsertAtOnce, Calls
<1>2. Request(Call(c)) BY <1>1, CallsAreRequests
<1>3. Sane(db, [db EXCEPT !.cron = CronOf(db, Call(c).arg)]) BY <1>1, <1>2, CronOfFits, CronSane
<1> QED BY <1>1, <1>3, EndsKeeps DEF UpsertAtOnce

LEMMA RemovedSane == ASSUME NEW d PROVE Sane(d, [d EXCEPT !.cron = NoCron])
BY NoCronFits, CronSane

LEMMA RemoveKeeps == ASSUME Inv, NEW c \in Clients, RemoveAtOnce(c) PROVE Inv'
BY RemovedSane, EndsKeeps, OnHasCall DEF RemoveAtOnce, Calls

(* A cron that a client was shown is not a lease. *)
LEMMA CronShownHolds ==
  ASSUME Inv, NEW c \in Clients, NEW k
  PROVE  StillHolds(c, [at[c] EXCEPT !.cron = k])
<1> DEFINE x == [at[c] EXCEPT !.cron = k]
<1>1. Hand(c, at[c]) BY DEF Inv
<1>2. /\ DOMAIN x = Fields /\ x.got = at[c].got /\ x.run = at[c].run
      /\ x.lease = at[c].lease /\ x.seen = at[c].seen
    BY <1>1, Zenon DEF Hand, Fields
<1> HIDE DEF x
<1>3. StillHolds(c, x) BY <1>1, <1>2 DEF Hand, StillHolds
<1> QED BY <1>3 DEF x

LEMMA DueCronsKeeps == ASSUME Inv, NEW c \in Clients, DueCronsAtOnce(c) PROVE Inv'
BY EndsWithKeeps, CronShownHolds, SaneToStay, OnHasCall DEF DueCronsAtOnce, Calls

LEMMA AdvanceKeeps == ASSUME Inv, NEW c \in Clients, AdvanceAtOnce(c) PROVE Inv'
<1> DEFINE expected == at[c].cron.next
<1>1. Busy(c) BY OnHasCall DEF AdvanceAtOnce, Calls
<1>2. CASE db.cron.next = expected /\ Ends(c, [db EXCEPT !.cron.next = expected + 2], expected)
    BY <1>1, <1>2, AdvancedSane, EndsKeeps
<1>3. CASE Ends(c, db, 0) BY <1>1, <1>3, AnswerKeeps
<1> QED BY <1>2, <1>3 DEF AdvanceAtOnce

(* Jobs and leases *)

LEMMA EnqueueKeeps == ASSUME Inv, NEW c \in Clients, EnqueueAtOnce(c) PROVE Inv'
<1>1. Busy(c) BY OnHasCall DEF EnqueueAtOnce, Calls
<1>2. {Call(c).run} \in SUBSET Runs BY <1>1, RunOfCall
<1> QED BY <1>1, <1>2, EnqueuingSane, EndsKeeps DEF EnqueueAtOnce

(* The holder of a lease holds a job that is there. *)
LEMMA HeldFacts ==
  ASSUME Inv, NEW c \in Clients, Held(c)
  PROVE  /\ at[c].run \in Runs /\ db.job[at[c].run].queued /\ db.job[at[c].run].expires > 0
         /\ db.job[at[c].run].token = at[c].lease.token
         /\ SameVersion(c) => at[c].run \notin db.owed
<1> DEFINE r == at[c].run
           j == db.job[r]
<1>1. Hand(c, at[c]) /\ Leases(db, at[c]) /\ JobsFit(db) BY DEF Inv, Fits
<1>2. j.queued /\ j.token = at[c].lease.token /\ j.expires > 0 BY DEF Held, Holds
<1>3. r \in Runs /\ (j.expires > 0 => j.token > 0) BY <1>1 DEF Hand, JobsFit
<1>4. at[c].lease.token # 0 BY <1>2, <1>3
<1>5. SameVersion(c) => r \notin db.owed BY <1>1, <1>2, <1>4 DEF SameVersion, Leases
<1> QED BY <1>2, <1>3, <1>5

LEMMA RenewKeeps == ASSUME Inv, NEW c \in Clients, RenewAtOnce(c) PROVE Inv'
<1>1. Busy(c) BY OnHasCall DEF RenewAtOnce, Calls
<1>2. CASE Held(c) /\ Ends(c, Renewed(db, at[c].run), TRUE)
    BY <1>1, <1>2, HeldFacts, RenewedSane, EndsKeeps
<1>3. CASE Throws(c) BY <1>1, <1>3, ThrowsKeeps
<1> QED BY <1>2, <1>3 DEF RenewAtOnce

(* What a client may make of the tables as it lets go of its lease. *)
LetsGo(c, d) ==
  \/ Sane(db, d)
  \/ SaneBut(db, d, {at[c].run}) /\ db.job[at[c].run].token = at[c].lease.token

LEMMA GoneKeeps ==
  ASSUME Inv, NEW c \in Clients, NEW d, NEW x, LetsGo(c, d), Hand(c, x), x.run = at[c].run,
         \/ x.lease = NoLease
         \/ x.lease = at[c].lease /\ x.pc = "release" /\ at[c].pc # "release",
         db' = d, at' = [at EXCEPT ![c] = x], Resumes(c), host' = host
  PROVE  Inv'
<1>1. CASE Sane(db, d)
  <2>1. SaneBut(db, d, {}) /\ MayEnd(c, x, {}) BY <1>1 DEF Sane, MayEnd
  <2> QED BY <2>1, Turn
<1>2. CASE SaneBut(db, d, {at[c].run}) /\ db.job[at[c].run].token = at[c].lease.token
  <2>1. MayEnd(c, x, {at[c].run}) BY <1>2 DEF MayEnd
  <2> QED BY <1>2, <2>1, Turn
<1> QED BY <1>1, <1>2 DEF LetsGo

(* A lease that is dropped, with the job or without. *)
LEMMA DroppedKeeps ==
  ASSUME Inv, NEW c \in Clients, todo[c] # <<>>, NEW d, LetsGo(c, d), LeaseDropped(c, d)
  PROVE  Inv'
<1> DEFINE x == [at[c] EXCEPT !.lease = NoLease]
           y == [x EXCEPT !.pc = "call", !.got = {}, !.parts = {}, !.seen = NoCron,
                          !.out = {}, !.looks = {}, !.cursor = Ready.cursor]
<1>1. Hand(c, at[c]) BY DEF Inv
<1>2. /\ DOMAIN x = Fields /\ x.run = at[c].run /\ x.lease = NoLease
    BY <1>1, Zenon DEF Hand, Fields
<1>3. db' = d /\ at' = [at EXCEPT ![c] = y] /\ Resumes(c) /\ host' = host
    BY DEF LeaseDropped, EndsWith, Resumes
<1> HIDE DEF x
<1>4. DOMAIN y = Fields /\ y.got = {} /\ y.run = x.run /\ y.lease = x.lease /\ y.seen = NoCron
    BY <1>2, Zenon DEF Fields
<1> HIDE DEF y
<1>5. NoLease \in Lease /\ NoLease.token = 0 BY DEF NoLease, Lease
<1>6. Hand(c, y) /\ y.run = at[c].run /\ y.lease = NoLease
    BY <1>1, <1>2, <1>4, <1>5, NoCronFits DEF Hand
<1> QED BY <1>3, <1>6, GoneKeeps

(* A lease that is kept by a client that will not use it any more. *)
LEMMA ReleasingKeeps ==
  ASSUME Inv, NEW c \in Clients, Busy(c), NEW d, LetsGo(c, d), Writes(c, d, "release")
  PROVE  Inv'
<1> DEFINE x == [at[c] EXCEPT !.pc = "release"]
<1>1. Hand(c, at[c]) BY DEF Inv
<1>2. /\ DOMAIN x = Fields /\ x.got = at[c].got /\ x.run = at[c].run /\ x.lease = at[c].lease
      /\ x.seen = at[c].seen /\ x.pc = "release"
    BY <1>1, Zenon DEF Hand, Fields
<1>3. db' = d /\ at' = [at EXCEPT ![c] = x] /\ Resumes(c) /\ host' = host
    BY DEF Writes, Goes, Resumes
<1> HIDE DEF x
<1>4. Hand(c, x) BY <1>1, <1>2 DEF Hand
<1> QED BY <1>2, <1>3, <1>4, GoneKeeps DEF Busy

(* What an acknowledgement makes of the tables. *)
LEMMA AckedSane ==
  ASSUME Inv, NEW c \in Clients
  PROVE  /\ Held(c) /\ SameVersion(c) => LetsGo(c, Dequeued(db, at[c].run))
         /\ Held(c) => LetsGo(c, LetGo(db, at[c].run))
         /\ LetsGo(c, db)
BY HeldFacts, DequeuedSane, LetGoSane, SaneToStay DEF LetsGo

LEMMA AckInTwoKeeps == ASSUME Inv, NEW c \in Clients, AckInTwo(c) PROVE Inv'
<1>1. CASE /\ Calls(c, "ack")
           /\ Writes(c, IF Held(c) /\ SameVersion(c) THEN Dequeued(db, at[c].run) ELSE db, "release")
    BY <1>1, OnHasCall, AckedSane, ReleasingKeeps DEF Calls
<1>2. CASE /\ On(c, "ack", "release")
           /\ LeaseDropped(c, IF Held(c) /\ ~SameVersion(c) THEN LetGo(db, at[c].run) ELSE db)
    BY <1>2, AckedSane, DroppedKeeps DEF On
<1> QED BY <1>1, <1>2 DEF AckInTwo

LEMMA AckOrReleaseKeeps == ASSUME Inv, NEW c \in Clients, AckOrRelease(c) PROVE Inv'
<1>1. todo[c] # <<>> BY DEF AckOrRelease, Calls, On
<1>2. CASE Held(c) /\ SameVersion(c) /\ LeaseDropped(c, Dequeued(db, at[c].run))
    BY <1>1, <1>2, AckedSane, DroppedKeeps
<1>3. CASE Calls(c, "ack") /\ Writes(c, db, "release")
    BY <1>3, OnHasCall, AckedSane, ReleasingKeeps DEF Calls
<1>4. CASE LeaseDropped(c, IF Held(c) /\ ~SameVersion(c) THEN LetGo(db, at[c].run) ELSE db)
    BY <1>1, <1>4, AckedSane, DroppedKeeps
<1> QED BY <1>2, <1>3, <1>4 DEF AckOrRelease

(* A claim: the job carries the client's lease from now on, and owes nothing. *)
LEMMA TakeLeaseKeeps ==
  ASSUME Inv, NEW c \in Clients, NEW r \in Due(db), Busy(c), TakeLease(c, r)
  PROVE  Inv'
<1> DEFINE d == ClaimedBy(db, r, c)
           x == Leased(c, r, d)
           y == [x EXCEPT !.pc = "call", !.got = {}, !.parts = {}, !.seen = NoCron,
                          !.out = {}, !.looks = {}, !.cursor = Ready.cursor]
           j == Claimed(db.job[r], c, 1)
<1>1. /\ r \in Runs /\ db.job[r].queued /\ Hand(c, at[c]) /\ DOMAIN db = Columns
      /\ RowsFit(db) /\ JobsFit(db) /\ TimersFit(db) /\ CronFits(db)
      /\ (host.backend # "mongodb" => Counted(db))
    BY DEF Inv, Fits, Due, Claimable
<1>2. /\ db' = d /\ at' = [at EXCEPT ![c] = y] /\ Resumes(c) /\ host' = host
    BY DEF TakeLease, EndsWith, Resumes, Busy
<1>3. /\ DOMAIN d = Columns /\ SameRows(db, d) /\ SameTimers(db, d) /\ SameCron(db, d)
      /\ d.job = [db.job EXCEPT ![r] = j] /\ d.owed = db.owed \ {r} /\ d.queue = db.queue
    BY <1>1, Zenon DEF ClaimedBy, Columns, SameRows, SameTimers, SameCron
<1>4. /\ DOMAIN x = Fields /\ x.run = r /\ x.lease = LeaseOn(d.job[r])
    BY <1>1, Zenon DEF Hand, Fields, Leased
<1> HIDE DEF d, x
<1>5. /\ DOMAIN y = Fields /\ y.got = {} /\ y.run = r /\ y.lease = LeaseOn(d.job[r]) /\ y.seen = NoCron
    BY <1>4, Zenon DEF Fields
<1> HIDE DEF y
<1>6. c \in Nat /\ c # 0 /\ c > 0 BY ClientsAreNumbers
<1>7. db.job[r] \in Job /\ WellFormed(db.job[r]) BY <1>1 DEF JobsFit
<1>8. /\ j \in Job /\ j.queued /\ j.token = c /\ j.version = db.job[r].version
      /\ WellFormed(j) /\ j.expires = 1
    BY <1>1, <1>6, <1>7 DEF Claimed, Job, WellFormed
<1> HIDE DEF j
<1>9. d.job \in [Runs -> Job] /\ \A q \in Runs : d.job[q] = IF q = r THEN j ELSE db.job[q]
    BY <1>1, <1>3, <1>8 DEF JobsFit
<1>10. JobsFit(d)
  <2>1. j.expires > 0 => j.token > 0 BY <1>6, <1>8
  <2> QED BY <1>1, <1>3, <1>8, <1>9, <2>1 DEF JobsFit
<1>11. RowsFit(d) /\ TimersFit(d) /\ CronFits(d) /\ (host.backend # "mongodb" => Counted(d))
    BY <1>1, <1>3 DEF SameRows, RowsFit, SameTimers, TimersFit, SameCron, CronFits, Counted
<1>12. (Fits(db) /\ (host.backend # "mongodb" => Counted(db)))'
    BY <1>2, <1>3, <1>10, <1>11 DEF Fits, RowsFit, JobsFit, TimersFit, CronFits, OnTime, Counted
<1>13. LeaseOn(d.job[r]) \in Lease /\ LeaseOn(d.job[r]).token = c
       /\ LeaseOn(d.job[r]).version = d.job[r].version
    BY <1>1, <1>8, <1>9 DEF LeaseOn, Lease, Job
<1>14. ASSUME NEW b \in Clients PROVE Hand(b, at'[b]) /\ Leases(d, at'[b])
  <2>1. DOMAIN at = Clients /\ Hand(b, at[b]) /\ Leases(db, at[b]) BY DEF Inv
  <2>2. CASE b = c
    <3>1. at'[b] = y BY <1>2, <2>1, <2>2
    <3>2. Hand(c, y) BY <1>1, <1>5, <1>13, NoCronFits DEF Hand
    <3>3. d.job[r].version \in Nat BY <1>1, <1>9 DEF Job
    <3>4. Leases(d, y) BY <1>3, <1>5, <1>13, <3>3 DEF Leases
    <3> QED BY <2>2, <3>1, <3>2, <3>4
  <2>3. CASE b # c
    <3>1. at'[b] = at[b] BY <1>2, <2>1, <2>3
    <3>2. CASE at[b].run = r BY <1>1, <1>6, <1>8, <1>9, <2>1, <2>3, <3>1, <3>2 DEF Hand, Leases
    <3>3. CASE at[b].run # r
      <4>1. at[b].run \in Runs BY <2>1 DEF Hand
      <4>2. d.job[at[b].run] = db.job[at[b].run] BY <1>9, <3>3, <4>1
      <4> QED BY <1>3, <2>1, <3>1, <4>2 DEF Leases
    <3> QED BY <3>2, <3>3
  <2> QED BY <2>2, <2>3
<1>15. \A b \in Clients : (Hand(b, at[b]) /\ Leases(db, at[b]))'
    BY <1>2, <1>14 DEF Hand, Leases, OnTime
<1>16. ASSUME ~Purges, NEW b \in Clients PROVE Firm(d, at'[b])
  <2>1. DOMAIN at = Clients /\ Hand(b, at[b]) /\ Firm(db, at[b]) BY <1>16 DEF Inv
  <2>2. CASE b = c
    <3>1. at'[b] = y BY <1>2, <2>1, <2>2
    <3> QED BY <1>1, <1>5, <1>6, <1>8, <1>9, <1>13, <3>1 DEF Firm
  <2>3. CASE b # c
    <3>1. at'[b] = at[b] BY <1>2, <2>1, <2>3
    <3>2. CASE at[b].run = r
      <4>1. ~(db.job[r].expires > 0) BY <1>7 DEF Due, Claimable, Job
      <4> QED BY <2>1, <3>1, <3>2, <4>1 DEF Firm
    <3>3. CASE at[b].run # r
      <4>1. at[b].run \in Runs BY <2>1 DEF Hand
      <4>2. d.job[at[b].run] = db.job[at[b].run] BY <1>9, <3>3, <4>1
      <4> QED BY <2>1, <3>1, <4>2 DEF Firm
    <3> QED BY <3>2, <3>3
  <2> QED BY <2>2, <2>3
<1>17. (Purges \/ \A b \in Clients : Firm(db, at[b]))' BY <1>2, <1>16 DEF Firm, Purges, Requests
<1>18. (DOMAIN host = {"backend", "lapse"} /\ todo \in [Clients -> Seq(Requests)])'
    BY <1>2, ResumesKeeps DEF Inv
<1>19. DOMAIN at' = Clients BY <1>2 DEF Inv
<1> QED BY <1>12, <1>15, <1>18, <1>19, <1>17 DEF Inv

(* Claims that look first *)

LEMMA CandidatesKeeps ==
  ASSUME Inv, NEW c \in Clients, NEW picks, \A found \in picks : found \subseteq Runs,
         Candidates(c, picks)
  PROVE  Inv'
<1>1. Busy(c) BY OnHasCall DEF Candidates, Calls
<1>2. CASE Ends(c, db, FALSE) BY <1>1, <1>2, AnswerKeeps
<1>3. ASSUME NEW pc, NEW found \in picks, Reads(c, pc, found) PROVE Inv' BY <1>1, <1>3, ReadsKeeps
<1>4. CASE Reads(c, "lease", Fit(c, at[c].got))
  <2>1. Fit(c, at[c].got) \in SUBSET Runs BY GotAreRuns DEF Fit
  <2> QED BY <1>1, <1>4, <2>1, ReadsKeeps
<1> QED BY <1>2, <1>3, <1>4 DEF Candidates

LEMMA ClaimThenLeaseKeeps ==
  ASSUME Inv, NEW c \in Clients, NEW picks, \A found \in picks : found \subseteq Runs,
         ClaimThenLease(c, picks)
  PROVE  Inv'
<1>1. CASE Candidates(c, picks) BY <1>1, CandidatesKeeps
<1>2. ASSUME NEW r \in at[c].got, On(c, "claim", "lease"),
             IF r \in Due(db) THEN TakeLease(c, r)
             ELSE IF at[c].got = {r} THEN Ends(c, db, FALSE)
             ELSE Reads(c, "lease", at[c].got \ {r})
      PROVE  Inv'
  <2>1. Busy(c) BY <1>2, OnHasCall
  <2>2. at[c].got \ {r} \in SUBSET Runs BY GotAreRuns
  <2> QED BY <1>2, <2>1, <2>2, TakeLeaseKeeps, AnswerKeeps, ReadsKeeps
<1> QED BY <1>1, <1>2 DEF ClaimThenLease

LEMMA ClaimOneOfKeeps ==
  ASSUME Inv, NEW c \in Clients, NEW R \in SUBSET Due(db), ClaimOneOf(c, R)
  PROVE  Inv'
<1>1. Busy(c) BY OnHasCall DEF ClaimOneOf, Calls
<1> QED BY <1>1, TakeLeaseKeeps, AnswerKeeps DEF ClaimOneOf

(* Timers *)

LEMMA ScheduleKeeps == ASSUME Inv, NEW c \in Clients, ScheduleAtOnce(c) PROVE Inv'
<1>1. Busy(c) BY OnHasCall DEF ScheduleAtOnce, Calls
<1> QED BY <1>1, RunOfCall, ScheduledSane, EndsKeeps DEF ScheduleAtOnce

LEMMA CancelTimerKeeps == ASSUME Inv, NEW c \in Clients, CancelTimerAtOnce(c) PROVE Inv'
BY OnHasCall, UnscheduledSane, EndsKeeps DEF CancelTimerAtOnce, Calls

LEMMA DueKeeps == ASSUME Inv, NEW c \in Clients, DueAtOnce(c) PROVE Inv'
<1>1. Busy(c) BY OnHasCall DEF DueAtOnce, Calls
<1>2. Past(db) \subseteq Set(db) BY DEF Past, Set
<1> QED BY <1>1, <1>2, HandedOutSane, EndsKeeps DEF DueAtOnce

(* Reads leave the tables alone, whatever they see *)

LEMMA AtOnceKeeps == ASSUME Inv, NEW c \in Clients, NEW op, AtOnce(c, op) PROVE Inv'
BY OnHasCall, AnswerKeeps DEF AtOnce, Calls

LEMMA BeginsKeeps ==
  ASSUME Inv, NEW c \in Clients, NEW op, NEW view, NEW looks, Begins(c, op, view, looks)
  PROVE  Inv'
<1> DEFINE x == [at[c] EXCEPT !.pc = "look", !.out = view, !.looks = looks]
<1>1. Hand(c, at[c]) /\ Busy(c) BY OnHasCall DEF Inv, Begins, Calls
<1>2. /\ DOMAIN x = Fields /\ x.got = at[c].got /\ x.run = at[c].run
      /\ x.lease = at[c].lease /\ x.seen = at[c].seen
    BY <1>1, Zenon DEF Hand, Fields
<1>3. Ends(c, db, Concluded(Call(c), view)) \/ Goes(c, db, x) BY DEF Begins
<1> HIDE DEF x
<1> QED BY <1>1, <1>2, <1>3, GotAreRuns, AnswerKeeps, LooksKeep, SaneToStay

LEMMA LooksKeeps ==
  ASSUME Inv, NEW c \in Clients, NEW op, NEW looks, Looks(c, op, looks)
  PROVE  Inv'
<1> DEFINE view == at[c].out \cup Found(db, looks)
           x == [at[c] EXCEPT !.out = view, !.looks = @ \ looks]
<1>1. Hand(c, at[c]) /\ Busy(c) BY OnHasCall DEF Inv, Looks
<1>2. Ends(c, db, Concluded(Call(c), view)) \/ Goes(c, db, x) BY DEF Looks
<1> HIDE DEF view
<1>3. /\ DOMAIN x = Fields /\ x.got = at[c].got /\ x.run = at[c].run
      /\ x.lease = at[c].lease /\ x.seen = at[c].seen
    BY <1>1, Zenon DEF Hand, Fields
<1> HIDE DEF x
<1> QED BY <1>1, <1>2, <1>3, GotAreRuns, AnswerKeeps, LooksKeep, SaneToStay

LEMMA LooksOnKeeps ==
  ASSUME Inv, NEW c \in Clients, NEW op, NEW table,
         LooksOn(c, op, table) \/ LooksThrough(c, op, table)
  PROVE  Inv'
BY LooksKeeps DEF LooksOn, LooksThrough

LEMMA LooksInTurnKeeps ==
  ASSUME Inv, NEW c \in Clients, NEW op, NEW tables, LooksInTurn(c, op, tables)
  PROVE  Inv'
BY LooksOnKeeps DEF LooksInTurn

(* A page that is turned, and a window that is read. *)
LEMMA TurnedHand ==
  ASSUME Inv, NEW c \in Clients, NEW r, NEW facts
  PROVE  LET x == Turned(c, r, facts)
         IN  /\ DOMAIN x = Fields /\ x.got = at[c].got /\ x.run = at[c].run
             /\ x.lease = at[c].lease /\ x.seen = at[c].seen
<1>1. Hand(c, at[c]) BY DEF Inv
<1> QED BY <1>1, Zenon DEF Hand, Fields, Turned

LEMMA TurnedKeeps ==
  ASSUME Inv, NEW c \in Clients, Busy(c), NEW r, NEW facts, Goes(c, db, Turned(c, r, facts))
  PROVE  Inv'
BY TurnedHand, GotAreRuns, LooksKeep, SaneToStay

LEMMA PagingHasCall == ASSUME NEW c, Paging(c) PROVE Busy(c)
BY OnHasCall DEF Paging, Calls

LEMMA ListKeeps ==
  ASSUME Inv, NEW c \in Clients, ListInPages(c) \/ ListByEntry(c)
  PROVE  Inv'
<1>1. CASE ListInPages(c)
    BY <1>1, PagingHasCall, AnswerKeeps, TurnedKeeps DEF ListInPages
<1>2. CASE ListByEntry(c)
    BY <1>2, PagingHasCall, AnswerKeeps, TurnedKeeps DEF ListByEntry
<1> QED BY <1>1, <1>2

(* There is a newest run among some: the least distance from the last number is one's. *)
LEMMA NewestIsOne ==
  ASSUME NEW R \in SUBSET Runs, R # {}
  PROVE  Newest(R) \in R
<1> DEFINE last == Cardinality(Clients)
           T == {n \in Nat : last - n \in R}
<1>1. last \in Nat /\ Runs = 0..last BY BackendConstants DEF Runs
<1> HIDE DEF last
<1>2. PICK r \in R : TRUE OBVIOUS
<1>3. last - r \in T BY <1>1, <1>2
<1>4. PICK x \in T : \A y \in T : ~(<<y, x>> \in OpToRel(<, Nat))
    BY <1>3, WFMin, NatLessThanWellFounded
<1>5. \A y \in T : ~(y < x) BY <1>4 DEF OpToRel
<1>6. last - x \in R /\ \A q \in R : q <= last - x
  <2>1. last - x \in R /\ x \in Nat BY <1>4
  <2>2. ASSUME NEW q \in R PROVE q <= last - x
    <3>1. q \in 0..last BY <1>1
    <3>2. last - q \in T BY <1>1, <3>1
    <3>3. ~(last - q < x) BY <1>5, <3>2
    <3> QED BY <1>1, <2>1, <3>1, <3>3
  <2> QED BY <2>1, <2>2
<1> QED BY <1>6 DEF Newest

-----------------------------------------------------------------------------
(* The backends, call by call *)

(* A thread of its own for every call. *)
LEMMA MemoryKeeps == ASSUME Inv, NEW c \in Clients, MemoryNext(c) PROVE Inv'
<1>1. CASE MemoryStartRun(c) \/ MemoryStartManyRuns(c)
    BY <1>1, StartAtOnceKeeps DEF MemoryStartRun, MemoryStartManyRuns
<1>2. CASE MemoryLoadRun(c)
    BY <1>2, LoadKeeps DEF MemoryLoadRun
<1>3. CASE MemoryMarkRunning(c)
    BY <1>3, MarkAtOnceKeeps DEF MemoryMarkRunning
<1>4. CASE MemoryCheckpointStep(c)
  <2>1. Busy(c) BY <1>4, OnHasCall DEF MemoryCheckpointStep, Calls
  <2>2. MemoryApplyOutbox(Written(db, c), c) = Outboxed(Written(db, c), c) BY DEF MemoryApplyOutbox
  <2>3. Sane(db, MemoryApplyOutbox(Written(db, c), c)) BY <2>1, <2>2, CommitSane
  <2> QED BY <1>4, <2>1, <2>3, CheckpointAtOnceKeeps DEF MemoryCheckpointStep
<1>5. CASE MemorySuspendRun(c) \/ MemoryMarkTerminal(c)
    BY <1>5, OnHasCall, SuspendKeeps, FinishKeeps, ThrowsKeeps DEF MemorySuspendRun, MemoryMarkTerminal,
       Calls
<1>6. CASE MemoryArriveAtJoin(c)
    BY <1>6, ArriveKeeps DEF MemoryArriveAtJoin
<1>7. CASE MemoryPostSignal(c)
    BY <1>7, OnHasCall, SignalKeeps, ThrowsKeeps DEF MemoryPostSignal, Calls
<1>8. CASE MemoryCancelRuns(c) \/ MemoryRetryRuns(c)
    BY <1>8, CancelAtOnceKeeps, RetryAllAtOnceKeeps DEF MemoryCancelRuns, MemoryRetryRuns
<1>9. CASE MemoryRetryRun(c)
  <2>1. Busy(c) BY <1>9, OnHasCall DEF MemoryRetryRun, Calls
  <2>2. {Call(c).run} \in SUBSET Runs BY <2>1, RunOfCall
  <2>3. Sane(db, Reopened(db, {Call(c).run})) BY <2>2, ReopenedSane
  <2> QED BY <1>9, <2>1, <2>3, EndsKeeps, AnswerKeeps, ThrowsKeeps DEF MemoryRetryRun
<1>10. CASE MemoryDeleteRuns(c)
    BY <1>10, OnHasCall, PurgeIsCalled, ErasedSane, EndsKeeps DEF MemoryDeleteRuns, Asks, Calls
<1>11. CASE MemoryUpsertCron(c) \/ MemoryRemoveCron(c) \/ MemoryDueCrons(c)
            \/ MemoryAdvanceCron(c)
    BY <1>11, UpsertKeeps, RemoveKeeps, DueCronsKeeps, AdvanceKeeps DEF MemoryUpsertCron,
       MemoryRemoveCron, MemoryDueCrons, MemoryAdvanceCron
<1>12. CASE MemoryEnqueue(c) \/ MemoryHeartbeat(c)
    BY <1>12, EnqueueKeeps, RenewKeeps DEF MemoryEnqueue, MemoryHeartbeat
<1>13. CASE MemoryClaim(c)
  <2>1. Fit(c, Due(db)) \in SUBSET Due(db) BY DEF Fit
  <2> QED BY <1>13, <2>1, ClaimOneOfKeeps DEF MemoryClaim
<1>14. CASE MemoryAck(c)
  <2> DEFINE d == IF ~Held(c) THEN db
                  ELSE IF SameVersion(c) THEN Dequeued(db, at[c].run) ELSE LetGo(db, at[c].run)
  <2>1. todo[c] # <<>> /\ LeaseDropped(c, d) BY <1>14 DEF MemoryAck, Calls, On
  <2>2. LetsGo(c, d) BY AckedSane
  <2> QED BY <2>1, <2>2, DroppedKeeps
<1>15. CASE MemorySchedule(c) \/ MemoryCancelTimer(c) \/ MemoryDueBatch(c)
    BY <1>15, ScheduleKeeps, CancelTimerKeeps, DueKeeps DEF MemorySchedule, MemoryCancelTimer,
       MemoryDueBatch
<1>16. CASE Refuses(c)
    BY <1>16, RefusesKeeps
<1>17. CASE MemoryLoadRunRows(c) \/ MemoryChildrenOf(c) \/ MemoryRunStats(c)
            \/ MemoryOrphanedRuns(c) \/ MemoryListCrons(c) \/ MemoryDueCronCount(c)
            \/ MemoryDepth(c) \/ MemoryDueCount(c) \/ MemoryNextDueAt(c) \/ MemoryListRuns(c)
    BY <1>17, AtOnceKeeps, ListKeeps DEF MemoryLoadRunRows, MemoryChildrenOf, MemoryRunStats,
       MemoryOrphanedRuns, MemoryListCrons, MemoryDueCronCount, MemoryDepth, MemoryDueCount,
       MemoryNextDueAt, MemoryListRuns
<1> QED BY <1>1, <1>2, <1>3, <1>4, <1>5, <1>6, <1>7, <1>8, <1>9, <1>10, <1>11, <1>12, <1>13,
   <1>14, <1>15, <1>16, <1>17 DEF MemoryNext

(* Statements that are atomic, in transactions that may be cut between them. *)
LEMMA PostgresKeeps == ASSUME Inv, NEW c \in Clients, PostgresNext(c) PROVE Inv'
<1>1. CASE PostgresStartRun(c) \/ PostgresStartManyRuns(c)
    BY <1>1, StartOrFindKeeps DEF PostgresStartRun, PostgresStartManyRuns
<1>2. CASE PostgresLoadRun(c)
    BY <1>2, LoadKeeps DEF PostgresLoadRun
<1>3. CASE PostgresMarkRunning(c)
    BY <1>3, MarkOrLookKeeps DEF PostgresMarkRunning
<1>4. CASE PostgresCheckpointStep(c)
  <2>1. Busy(c) BY <1>4, OnHasCall DEF PostgresCheckpointStep, Calls
  <2>2. PostgresApplyOutbox(Written(db, c), c) = Outboxed(Written(db, c), c) BY DEF PostgresApplyOutbox
  <2>3. Sane(db, PostgresApplyOutbox(Written(db, c), c)) BY <2>1, <2>2, CommitSane
  <2>4. ASSUME NEW pc, Writes(c, db, pc) PROVE Inv' BY <2>1, <2>4, WritesKeeps, SaneToStay
  <2> QED BY <1>4, <2>1, <2>3, <2>4, CheckpointKeeps DEF PostgresCheckpointStep
<1>5. CASE PostgresSuspendRun(c) \/ PostgresMarkTerminal(c)
    BY <1>5, SuspendKeeps, FinishKeeps DEF PostgresSuspendRun, PostgresMarkTerminal
<1>6. CASE PostgresArriveAtJoin(c)
    BY <1>6, ArriveKeeps DEF PostgresArriveAtJoin
<1>7. CASE PostgresPostSignal(c)
    BY <1>7, OnHasCall, SignalKeeps, ThrowsKeeps DEF PostgresPostSignal, Calls
<1>8. CASE PostgresCancelRuns(c) \/ PostgresRetryRuns(c) \/ PostgresRetryRun(c)
    BY <1>8, CancelAtOnceKeeps, RetryAllAtOnceKeeps, RetryAtOnceKeeps DEF PostgresCancelRuns,
       PostgresRetryRuns, PostgresRetryRun
<1>9. CASE PostgresDeleteRuns(c)
  <2>0. Busy(c) /\ Purges
    <3>1. Busy(c) /\ Call(c).op = "purge" BY <1>9, OnHasCall DEF PostgresDeleteRuns, Asks, Calls
    <3> QED BY <3>1, PurgeIsCalled
  <2>1. CASE Reads(c, "delete", Victims(c)) BY <2>0, <2>1, ChosenAreRuns, ReadsKeeps
  <2>2. CASE On(c, "purge", "delete") /\ Ends(c, Erased(db, at[c].got), TRUE)
      BY <2>0, <2>2, ErasedSane, EndsKeeps
  <2> QED BY <1>9, <2>1, <2>2 DEF PostgresDeleteRuns
<1>10. CASE PostgresUpsertCron(c) \/ PostgresRemoveCron(c) \/ PostgresDueCrons(c)
            \/ PostgresAdvanceCron(c)
    BY <1>10, UpsertKeeps, RemoveKeeps, DueCronsKeeps, AdvanceKeeps DEF PostgresUpsertCron,
       PostgresRemoveCron, PostgresDueCrons, PostgresAdvanceCron
<1>11. CASE PostgresEnqueue(c) \/ PostgresHeartbeat(c)
    BY <1>11, EnqueueKeeps, RenewKeeps DEF PostgresEnqueue, PostgresHeartbeat
<1>12. CASE PostgresClaim(c)
  <2>1. Fit(c, Due(db)) \in SUBSET Due(db) BY DEF Fit
  <2> QED BY <1>12, <2>1, ClaimOneOfKeeps DEF PostgresClaim
<1>13. CASE PostgresAck(c)
    BY <1>13, AckInTwoKeeps DEF PostgresAck
<1>14. CASE PostgresSchedule(c) \/ PostgresCancelTimer(c) \/ PostgresDueBatch(c)
    BY <1>14, ScheduleKeeps, CancelTimerKeeps, DueKeeps DEF PostgresSchedule,
       PostgresCancelTimer, PostgresDueBatch
<1>15. CASE Refuses(c)
    BY <1>15, RefusesKeeps
<1>16. CASE PostgresLoadRunRows(c) \/ PostgresChildrenOf(c) \/ PostgresRunStats(c)
            \/ PostgresOrphanedRuns(c) \/ PostgresListCrons(c) \/ PostgresDueCronCount(c)
            \/ PostgresDepth(c) \/ PostgresDueCount(c) \/ PostgresNextDueAt(c)
            \/ PostgresListRuns(c)
    BY <1>16, AtOnceKeeps, ListKeeps DEF PostgresLoadRunRows, PostgresChildrenOf,
       PostgresRunStats, PostgresOrphanedRuns, PostgresListCrons, PostgresDueCronCount,
       PostgresDepth, PostgresDueCount, PostgresNextDueAt, PostgresListRuns
<1> QED BY <1>1, <1>2, <1>3, <1>4, <1>5, <1>6, <1>7, <1>8, <1>9, <1>10, <1>11, <1>12, <1>13,
   <1>14, <1>15, <1>16 DEF PostgresNext

(* The same, where no foreign key ties a step to its run. *)
LEMMA MySqlKeeps == ASSUME Inv, NEW c \in Clients, MySqlNext(c) PROVE Inv'
<1>1. CASE MySqlStartRun(c) \/ MySqlStartManyRuns(c)
    BY <1>1, StartOrFindKeeps DEF MySqlStartRun, MySqlStartManyRuns
<1>2. CASE MySqlLoadRun(c)
    BY <1>2, LoadKeeps DEF MySqlLoadRun
<1>3. CASE MySqlMarkRunning(c)
    BY <1>3, MarkAtOnceKeeps DEF MySqlMarkRunning
<1>4. CASE MySqlCheckpointStep(c)
  <2>1. Busy(c) BY <1>4, OnHasCall DEF MySqlCheckpointStep, Calls
  <2>2. MySqlApplyOutbox(Written(db, c), c) = Outboxed(Written(db, c), c) BY DEF MySqlApplyOutbox
  <2>3. Sane(db, MySqlApplyOutbox(Written(db, c), c)) BY <2>1, <2>2, CommitSane
  <2>4. ASSUME NEW pc, Writes(c, db, pc) PROVE Inv' BY <2>1, <2>4, WritesKeeps, SaneToStay
  <2> QED BY <1>4, <2>1, <2>3, <2>4, CheckpointKeeps DEF MySqlCheckpointStep
<1>5. CASE MySqlSuspendRun(c) \/ MySqlMarkTerminal(c)
    BY <1>5, SuspendKeeps, FinishKeeps DEF MySqlSuspendRun, MySqlMarkTerminal
<1>6. CASE MySqlArriveAtJoin(c)
    BY <1>6, ArriveKeeps DEF MySqlArriveAtJoin
<1>7. CASE MySqlPostSignal(c)
    BY <1>7, OnHasCall, SignalKeeps, ThrowsKeeps DEF MySqlPostSignal, Calls
<1>8. CASE MySqlCancelRuns(c) \/ MySqlRetryRuns(c) \/ MySqlRetryRun(c)
    BY <1>8, CancelAtOnceKeeps, RetryAllAtOnceKeeps, RetryAtOnceKeeps DEF MySqlCancelRuns,
       MySqlRetryRuns, MySqlRetryRun
<1>9. CASE MySqlDeleteRuns(c)
  <2>0. Busy(c) /\ Purges
    <3>1. Busy(c) /\ Call(c).op = "purge" BY <1>9, OnHasCall DEF MySqlDeleteRuns, Asks, Calls
    <3> QED BY <3>1, PurgeIsCalled
  <2>1. CASE Reads(c, "delete", Victims(c)) BY <2>0, <2>1, ChosenAreRuns, ReadsKeeps
  <2>2. CASE On(c, "purge", "delete") /\ Ends(c, Erased(db, at[c].got), TRUE)
      BY <2>0, <2>2, ErasedSane, EndsKeeps
  <2> QED BY <1>9, <2>1, <2>2 DEF MySqlDeleteRuns
<1>10. CASE MySqlUpsertCron(c) \/ MySqlRemoveCron(c) \/ MySqlDueCrons(c) \/ MySqlAdvanceCron(c)
    BY <1>10, UpsertKeeps, RemoveKeeps, DueCronsKeeps, AdvanceKeeps DEF MySqlUpsertCron,
       MySqlRemoveCron, MySqlDueCrons, MySqlAdvanceCron
<1>11. CASE MySqlEnqueue(c) \/ MySqlHeartbeat(c)
    BY <1>11, EnqueueKeeps, RenewKeeps DEF MySqlEnqueue, MySqlHeartbeat
<1>12. CASE MySqlClaim(c)
  <2>1. Fit(c, Due(db)) \in SUBSET Due(db) BY DEF Fit
  <2> QED BY <1>12, <2>1, ClaimOneOfKeeps DEF MySqlClaim
<1>13. CASE MySqlAck(c)
    BY <1>13, AckInTwoKeeps DEF MySqlAck
<1>14. CASE MySqlSchedule(c) \/ MySqlCancelTimer(c) \/ MySqlDueBatch(c)
    BY <1>14, ScheduleKeeps, CancelTimerKeeps, DueKeeps DEF MySqlSchedule, MySqlCancelTimer,
       MySqlDueBatch
<1>15. CASE Refuses(c)
    BY <1>15, RefusesKeeps
<1>16. CASE MySqlLoadRunRows(c) \/ MySqlChildrenOf(c) \/ MySqlRunStats(c)
            \/ MySqlOrphanedRuns(c) \/ MySqlListCrons(c) \/ MySqlDueCronCount(c)
            \/ MySqlDepth(c) \/ MySqlDueCount(c) \/ MySqlNextDueAt(c) \/ MySqlListRuns(c)
    BY <1>16, AtOnceKeeps, ListKeeps DEF MySqlLoadRunRows, MySqlChildrenOf, MySqlRunStats,
       MySqlOrphanedRuns, MySqlListCrons, MySqlDueCronCount, MySqlDepth, MySqlDueCount,
       MySqlNextDueAt, MySqlListRuns
<1> QED BY <1>1, <1>2, <1>3, <1>4, <1>5, <1>6, <1>7, <1>8, <1>9, <1>10, <1>11, <1>12, <1>13,
   <1>14, <1>15, <1>16 DEF MySqlNext

(* Transactions one after the other, and calls of two statements. *)
LEMMA SqliteKeeps == ASSUME Inv, NEW c \in Clients, SqliteNext(c) PROVE Inv'
<1>1. CASE SqliteStartRun(c) \/ SqliteStartManyRuns(c)
    BY <1>1, StartOrFindKeeps, StartAtOnceKeeps DEF SqliteStartRun, SqliteStartManyRuns
<1>2. CASE SqliteLoadRun(c)
    BY <1>2, LoadKeeps DEF SqliteLoadRun
<1>3. CASE SqliteMarkRunning(c)
    BY <1>3, MarkOrLookKeeps DEF SqliteMarkRunning
<1>4. CASE SqliteCheckpointStep(c)
  <2>1. Busy(c) BY <1>4, OnHasCall DEF SqliteCheckpointStep, Calls
  <2>2. SqliteApplyOutbox(Written(db, c), c) = Outboxed(Written(db, c), c) BY DEF SqliteApplyOutbox
  <2>3. Sane(db, SqliteApplyOutbox(Written(db, c), c)) BY <2>1, <2>2, CommitSane
  <2> QED BY <1>4, <2>1, <2>3, CheckpointAtOnceKeeps DEF SqliteCheckpointStep
<1>5. CASE SqliteSuspendRun(c) \/ SqliteMarkTerminal(c)
    BY <1>5, SuspendKeeps, FinishKeeps DEF SqliteSuspendRun, SqliteMarkTerminal
<1>6. CASE SqliteArriveAtJoin(c)
    BY <1>6, ArriveKeeps DEF SqliteArriveAtJoin
<1>7. CASE SqlitePostSignal(c)
    BY <1>7, OnHasCall, SignalKeeps, ThrowsKeeps DEF SqlitePostSignal, Calls
<1>8. CASE SqliteCancelRuns(c) \/ SqliteRetryRuns(c) \/ SqliteRetryRun(c)
    BY <1>8, CancelAtOnceKeeps, RetryAllAtOnceKeeps, RetryAtOnceKeeps DEF SqliteCancelRuns,
       SqliteRetryRuns, SqliteRetryRun
<1>9. CASE SqliteDeleteRuns(c)
    BY <1>9, OnHasCall, PurgeIsCalled, ErasedSane, EndsKeeps DEF SqliteDeleteRuns, Asks, Calls
<1>10. CASE SqliteUpsertCron(c) \/ SqliteRemoveCron(c) \/ SqliteDueCrons(c)
            \/ SqliteAdvanceCron(c)
    BY <1>10, UpsertKeeps, RemoveKeeps, DueCronsKeeps, AdvanceKeeps DEF SqliteUpsertCron,
       SqliteRemoveCron, SqliteDueCrons, SqliteAdvanceCron
<1>11. CASE SqliteEnqueue(c) \/ SqliteHeartbeat(c)
    BY <1>11, EnqueueKeeps, RenewKeeps DEF SqliteEnqueue, SqliteHeartbeat
<1>12. CASE SqliteClaim(c)
  <2>1. Fit(c, Due(db)) \in SUBSET Due(db) BY DEF Fit
  <2> QED BY <1>12, <2>1, ClaimOneOfKeeps DEF SqliteClaim
<1>13. CASE SqliteAck(c)
    BY <1>13, AckInTwoKeeps DEF SqliteAck
<1>14. CASE SqliteSchedule(c) \/ SqliteCancelTimer(c) \/ SqliteDueBatch(c)
    BY <1>14, ScheduleKeeps, CancelTimerKeeps, DueKeeps DEF SqliteSchedule, SqliteCancelTimer,
       SqliteDueBatch
<1>15. CASE Refuses(c)
    BY <1>15, RefusesKeeps
<1>16. CASE SqliteLoadRunRows(c) \/ SqliteChildrenOf(c) \/ SqliteRunStats(c)
            \/ SqliteOrphanedRuns(c) \/ SqliteListCrons(c) \/ SqliteDueCronCount(c)
            \/ SqliteDepth(c) \/ SqliteDueCount(c) \/ SqliteNextDueAt(c) \/ SqliteListRuns(c)
    BY <1>16, AtOnceKeeps, ListKeeps DEF SqliteLoadRunRows, SqliteChildrenOf, SqliteRunStats,
       SqliteOrphanedRuns, SqliteListCrons, SqliteDueCronCount, SqliteDepth, SqliteDueCount,
       SqliteNextDueAt, SqliteListRuns
<1> QED BY <1>1, <1>2, <1>3, <1>4, <1>5, <1>6, <1>7, <1>8, <1>9, <1>10, <1>11, <1>12, <1>13,
   <1>14, <1>15, <1>16 DEF SqliteNext

(* Writes of one document, or of a transaction; what was read before may be stale. *)
LEMMA MongoKeeps == ASSUME Inv, NEW c \in Clients, host.backend = "mongodb", MongoNext(c) PROVE Inv'
<1>1. CASE MongoStartRun(c) \/ MongoStartManyRuns(c)
    BY <1>1, StartOrFindKeeps DEF MongoStartRun, MongoStartManyRuns
<1>2. CASE MongoLoadRun(c)
    BY <1>2, LoadKeeps DEF MongoLoadRun
<1>3. CASE MongoMarkRunning(c)
    BY <1>3, MarkAtOnceKeeps DEF MongoMarkRunning
<1>4. CASE MongoCheckpointStep(c)
  <2>1. Busy(c) BY <1>4, OnHasCall DEF MongoCheckpointStep, Calls
  <2>2. MongoApplyOutbox(Written(db, c), c) = Outboxed(Written(db, c), c) BY DEF MongoApplyOutbox
  <2>3. Sane(db, MongoApplyOutbox(Written(db, c), c)) BY <2>1, <2>2, CommitSane
  <2>4. ASSUME NEW pc, Writes(c, db, pc) PROVE Inv' BY <2>1, <2>4, WritesKeeps, SaneToStay
  <2>5. ASSUME NEW pc, NEW got \in SUBSET Runs, Reads(c, pc, got) PROVE Inv' BY <2>1, <2>5, ReadsKeeps
  <2>6. {r \in Runs : db.mail[r]} \in SUBSET Runs /\ {} \in SUBSET Runs OBVIOUS
  <2> QED BY <1>4, <2>1, <2>3, <2>4, <2>5, <2>6, CheckpointKeeps DEF MongoCheckpointStep
<1>5. CASE MongoSuspendRun(c)
  <2>1. Busy(c) BY <1>5, OnHasCall DEF MongoSuspendRun, Calls
  <2>2. ASSUME NEW pc, NEW got \in SUBSET Runs, Reads(c, pc, got) PROVE Inv' BY <2>1, <2>2, ReadsKeeps
  <2>3. CASE Ends(c, Scheduled(db, Call(c).run), TRUE)
      BY <2>1, <2>3, RunOfCall, ScheduledSane, EndsKeeps
  <2>4. Set(db) \in SUBSET Runs /\ {} \in SUBSET Runs BY DEF Set
  <2> QED BY <1>5, <2>1, <2>2, <2>3, <2>4, SuspendKeeps, ThrowsKeeps DEF MongoSuspendRun
<1>20. CASE MongoMarkTerminal(c)
    BY <1>20, OnHasCall, FinishKeeps, ThrowsKeeps DEF MongoMarkTerminal,
       Calls
<1>6. CASE MongoArriveAtJoin(c)
    BY <1>6, ArriveKeeps DEF MongoArriveAtJoin
<1>7. CASE MongoPostSignal(c)
    BY <1>7, OnHasCall, SignalKeeps, ThrowsKeeps DEF MongoPostSignal, Calls
<1>8. CASE MongoCancelRuns(c)
  <2>1. Busy(c) BY <1>8, OnHasCall DEF MongoCancelRuns, Asks, Calls
  <2>2. "canceled" \in Active \cup Terminal BY DEF Terminal
  <2>3. CASE Ends(c, db, TRUE) BY <2>1, <2>3, AnswerKeeps
  <2>4. CASE Reads(c, "timers", Chosen(c, Active)) BY <2>1, <2>4, ChosenAreRuns, ReadsKeeps
  <2>5. CASE Writes(c, Unscheduled(db, at[c].got), "rows") BY <2>1, <2>5, UnscheduledSane, WritesKeeps
  <2>6. CASE Ends(c, StatusSet(db, {r \in at[c].got : There(db, r)}, "canceled"), TRUE)
      BY <2>1, <2>2, <2>6, StatusSane, EndsKeeps
  <2> QED BY <1>8, <2>3, <2>4, <2>5, <2>6 DEF MongoCancelRuns
<1>9. CASE MongoRetryRuns(c)
  <2> DEFINE there == {r \in at[c].got : There(db, r)}
  <2>1. Busy(c) BY <1>9, OnHasCall DEF MongoRetryRuns, Asks, Calls
  <2>2. CASE Ends(c, db, TRUE) BY <2>1, <2>2, AnswerKeeps
  <2>3. CASE Reads(c, "rows", Chosen(c, {"failed"})) BY <2>1, <2>3, ChosenAreRuns, ReadsKeeps
  <2>4. CASE Ends(c, Enqueuing(Pending(db, there), at[c].got), TRUE)
    <3> HIDE DEF there
    <3>1. Sane(Pending(db, there), Enqueuing(Pending(db, there), at[c].got))
        BY GotAreRuns, EnqueuingSane
    <3>2. Sane(db, Enqueuing(Pending(db, there), at[c].got)) BY <3>1, PendingSane, SaneInTurn
    <3> QED BY <2>1, <2>4, <3>2, EndsKeeps
  <2> QED BY <1>9, <2>2, <2>3, <2>4 DEF MongoRetryRuns
<1>10. CASE MongoRetryRun(c)
    BY <1>10, RetryAtOnceKeeps DEF MongoRetryRun
<1>11. CASE MongoDeleteRuns(c)
    BY <1>11, DeleteInPartsKeeps DEF MongoDeleteRuns
<1>12. CASE MongoUpsertCron(c) \/ MongoRemoveCron(c) \/ MongoDueCrons(c) \/ MongoAdvanceCron(c)
    BY <1>12, UpsertKeeps, RemoveKeeps, DueCronsKeeps, AdvanceKeeps DEF MongoUpsertCron,
       MongoRemoveCron, MongoDueCrons, MongoAdvanceCron
<1>13. CASE MongoEnqueue(c) \/ MongoHeartbeat(c)
    BY <1>13, EnqueueKeeps, RenewKeeps DEF MongoEnqueue, MongoHeartbeat
<1>14. CASE MongoClaim(c)
  <2>1. \A found \in OneOf(Due(db)) : found \subseteq Runs BY DEF OneOf, Due
  <2> QED BY <1>14, <2>1, ClaimThenLeaseKeeps DEF MongoClaim
<1>15. CASE MongoAck(c)
    BY <1>15, AckOrReleaseKeeps DEF MongoAck
<1>16. CASE MongoSchedule(c) \/ MongoCancelTimer(c)
    BY <1>16, ScheduleKeeps, CancelTimerKeeps DEF MongoSchedule, MongoCancelTimer
<1>17. CASE host.backend = "mongodb" /\ MongoDueBatch(c)
  <2>1. Busy(c) BY <1>17, OnHasCall DEF MongoDueBatch, Calls
  <2>2. Past(db) \in SUBSET Runs BY DEF Past
  <2> QED BY <1>17, <2>1, <2>2, AnswerKeeps, ReadsKeeps, HandedOutSane, EndsKeeps DEF MongoDueBatch
<1>18. CASE Refuses(c)
    BY <1>18, RefusesKeeps
<1>19. CASE MongoLoadRunRows(c) \/ MongoChildrenOf(c) \/ MongoRunStats(c)
            \/ MongoOrphanedRuns(c) \/ MongoListCrons(c) \/ MongoDueCronCount(c)
            \/ MongoDepth(c) \/ MongoDueCount(c) \/ MongoNextDueAt(c) \/ MongoListRuns(c)
    BY <1>19, AtOnceKeeps, ListKeeps, BeginsKeeps, LooksOnKeeps DEF MongoLoadRunRows,
       MongoChildrenOf, MongoRunStats, MongoOrphanedRuns, MongoListCrons, MongoDueCronCount,
       MongoDepth, MongoDueCount, MongoNextDueAt, MongoListRuns
<1> QED BY <1>1, <1>2, <1>3, <1>4, <1>5, <1>6, <1>7, <1>8, <1>9, <1>10, <1>11, <1>12, <1>13,
   <1>14, <1>15, <1>16, <1>17, <1>18, <1>19, <1>20 DEF MongoNext

(* Conditional writes, one item or one transaction at a time. *)
LEMMA DynamoKeeps == ASSUME Inv, NEW c \in Clients, DynamoNext(c) PROVE Inv'
<1>1. CASE DynamoStartRun(c)
    BY <1>1, StartOrFindKeeps DEF DynamoStartRun
<1>2. CASE DynamoStartManyRuns(c)
  <2>1. CASE FindsHolder(c, "startMany") BY <2>1, FindsHolderKeeps
  <2>2. CASE Busy(c) /\ Ends(c, StartedAs(db, c), c) BY <2>2, StartedSane, EndsKeeps
  <2>3. CASE \E pc : Busy(c) /\ Writes(c, db, pc) BY <2>3, WritesKeeps, SaneToStay
  <2> QED BY <1>2, <2>1, <2>2, <2>3, OnHasCall DEF DynamoStartManyRuns, Calls
<1>3. CASE DynamoLoadRun(c)
    BY <1>3, LoadKeeps DEF DynamoLoadRun
<1>4. CASE DynamoMarkRunning(c)
    BY <1>4, MarkOrLookKeeps DEF DynamoMarkRunning
<1>5. CASE DynamoCheckpointStep(c)
  <2>1. Busy(c) BY <1>5, OnHasCall DEF DynamoCheckpointStep, Calls
  <2>2. DynamoApplyOutbox(Written(db, c), c) = Outboxed(Written(db, c), c) BY DEF DynamoApplyOutbox
  <2>3. Sane(db, DynamoApplyOutbox(Written(db, c), c)) BY <2>1, <2>2, CommitSane
  <2>4. ASSUME NEW pc, Writes(c, db, pc) PROVE Inv' BY <2>1, <2>4, WritesKeeps, SaneToStay
  <2>5. ASSUME NEW pc, Writes(c, DynamoApplyOutbox(Written(db, c), c), pc) PROVE Inv'
      BY <2>1, <2>3, <2>5, WritesKeeps
  <2>6. CASE Refused(c) \/ Replayed(c) BY <2>1, <2>6, AnswerKeeps DEF Refused, Replayed
  <2> QED BY <1>5, <2>1, <2>4, <2>5, <2>6, ThrowsKeeps DEF DynamoCheckpointStep
<1>6. CASE DynamoSuspendRun(c) \/ DynamoMarkTerminal(c)
    BY <1>6, SuspendKeeps, FinishKeeps DEF DynamoSuspendRun, DynamoMarkTerminal
<1>7. CASE DynamoArriveAtJoin(c)
    BY <1>7, ArriveKeeps DEF DynamoArriveAtJoin
<1>8. CASE DynamoPostSignal(c)
    BY <1>8, OnHasCall, SignalKeeps, ThrowsKeeps DEF DynamoPostSignal, Calls
<1>9. CASE DynamoCancelRuns(c)
  <2>1. CASE \E op, allowed : Scans(c, op, Chosen(c, allowed)) BY <2>1, ChosenAreRuns, ScansKeeps
  <2>2. ASSUME On(c, "cancelRuns", "each"), NEW r \in at[c].got, Visits(c, r, Over(db, r, "canceled"))
        PROVE  Inv'
    <3>1. Busy(c) BY <2>2, OnHasCall
    <3>2. r \in Runs /\ "canceled" \in Terminal BY <2>2, GotAreRuns DEF Terminal
    <3>3. Sane(db, Over(db, r, "canceled")) BY <3>2, OverSane
    <3> QED BY <2>2, <3>1, <3>3, VisitsKeeps
  <2> QED BY <1>9, <2>1, <2>2 DEF DynamoCancelRuns, DynamoMatching
<1>10. CASE DynamoRetryRuns(c)
  <2>1. CASE \E op, allowed : Scans(c, op, Chosen(c, allowed)) BY <2>1, ChosenAreRuns, ScansKeeps
  <2>2. ASSUME On(c, "retryRuns", "each"), NEW r \in at[c].got,
               Visits(c, r, Reopened(db, {r} \cap Failed(db)))
        PROVE  Inv'
    <3>1. Busy(c) BY <2>2, OnHasCall
    <3>2. {r} \cap Failed(db) \in SUBSET Runs BY DEF Failed
    <3>3. Sane(db, Reopened(db, {r} \cap Failed(db))) BY <3>2, ReopenedSane
    <3> QED BY <2>2, <3>1, <3>3, VisitsKeeps
  <2> QED BY <1>10, <2>1, <2>2 DEF DynamoRetryRuns, DynamoMatching
<1>11. CASE DynamoRetryRun(c)
    BY <1>11, RetryAtOnceKeeps DEF DynamoRetryRun
<1>12. CASE DynamoDeleteRuns(c)
    BY <1>12, DeleteInPartsKeeps DEF DynamoDeleteRuns
<1>13. CASE DynamoUpsertCron(c)
  <2>1. Hand(c, at[c]) /\ Busy(c) /\ Call(c).op = "upsertCron" /\ CronFits(db)
      BY <1>13, OnHasCall DEF DynamoUpsertCron, Calls, Inv, Fits
  <2>2. CASE Goes(c, db, [at[c] EXCEPT !.pc = "write", !.seen = db.cron])
    <3> DEFINE x == [at[c] EXCEPT !.pc = "write", !.seen = db.cron]
    <3>1. /\ DOMAIN x = Fields /\ x.got = at[c].got /\ x.run = at[c].run
          /\ x.lease = at[c].lease /\ x.seen = db.cron
        BY <2>1, Zenon DEF Hand, Fields
    <3> HIDE DEF x
    <3>2. StillHolds(c, x) BY <2>1, <3>1 DEF StillHolds, Hand, CronFits
    <3> QED BY <2>1, <2>2, <3>2, GoesKeeps, SaneToStay DEF x
  <2>3. CASE On(c, "upsertCron", "write")
    <3> DEFINE spec == Call(c).arg
               next == IF at[c].seen.schedule = spec.schedule THEN at[c].seen.next ELSE spec.next
               k == [schedule |-> spec.schedule, next |-> next]
    <3>1. Ends(c, [db EXCEPT !.cron = k], TRUE)
        BY <1>13, <2>3 DEF DynamoUpsertCron, Calls, On
    <3>2. spec \in [schedule : {1, 2}, next : Nat] /\ spec.next % 2 = spec.schedule % 2
        BY <2>1, CallsAreRequests DEF Request
    <3>3. at[c].seen \in Crons /\ OnTime(at[c].seen) BY <2>1 DEF Hand
    <3>4. k \in Crons /\ OnTime(k) BY <3>2, <3>3 DEF Crons, OnTime
    <3> HIDE DEF k
    <3>5. Sane(db, [db EXCEPT !.cron = k]) BY <3>4, CronSane
    <3> QED BY <2>1, <3>1, <3>5, EndsKeeps
  <2> QED BY <1>13, <2>2, <2>3 DEF DynamoUpsertCron
<1>14. CASE DynamoRemoveCron(c) \/ DynamoDueCrons(c) \/ DynamoAdvanceCron(c)
    BY <1>14, RemoveKeeps, DueCronsKeeps, AdvanceKeeps DEF DynamoRemoveCron, DynamoDueCrons,
       DynamoAdvanceCron
<1>15. CASE DynamoEnqueue(c) \/ DynamoHeartbeat(c)
    BY <1>15, EnqueueKeeps, RenewKeeps DEF DynamoEnqueue, DynamoHeartbeat
<1>16. CASE DynamoClaim(c)
  <2>1. \A found \in {Due(db)} : found \subseteq Runs BY DEF Due
  <2> QED BY <1>16, <2>1, ClaimThenLeaseKeeps DEF DynamoClaim
<1>17. CASE DynamoAck(c)
    BY <1>17, AckOrReleaseKeeps DEF DynamoAck
<1>18. CASE DynamoSchedule(c) \/ DynamoCancelTimer(c)
    BY <1>18, ScheduleKeeps, CancelTimerKeeps DEF DynamoSchedule, DynamoCancelTimer
<1>19. CASE DynamoDueBatch(c)
  <2>1. CASE Scans(c, "due", Past(db))
    <3>1. Past(db) \in SUBSET Runs BY DEF Past
    <3> QED BY <2>1, <3>1, ScansKeeps
  <2>2. ASSUME On(c, "due", "each"), NEW r \in at[c].got,
               Visits(c, r, HandedOut(TimerGone(db, {r} \cap Set(db)), {r} \cap Set(db)))
        PROVE  Inv'
    <3>1. Busy(c) BY <2>2, OnHasCall
    <3>2. {r} \cap Set(db) \subseteq Set(db) OBVIOUS
    <3>3. Sane(db, HandedOut(TimerGone(db, {r} \cap Set(db)), {r} \cap Set(db)))
        BY <3>2, HandedOutSane
    <3> QED BY <2>2, <3>1, <3>3, VisitsKeeps
  <2> QED BY <1>19, <2>1, <2>2 DEF DynamoDueBatch
<1>20. CASE Refuses(c)
    BY <1>20, RefusesKeeps
<1>21. CASE DynamoLoadRunRows(c) \/ DynamoChildrenOf(c) \/ DynamoRunStats(c)
            \/ DynamoOrphanedRuns(c) \/ DynamoListCrons(c) \/ DynamoDueCronCount(c)
            \/ DynamoDepth(c) \/ DynamoDueCount(c) \/ DynamoNextDueAt(c) \/ DynamoListRuns(c)
    BY <1>21, AtOnceKeeps, ListKeeps, BeginsKeeps, LooksOnKeeps, LooksInTurnKeeps DEF
       DynamoLoadRunRows, DynamoChildrenOf, DynamoRunStats, DynamoOrphanedRuns, DynamoListCrons,
       DynamoDueCronCount, DynamoDepth, DynamoDueCount, DynamoNextDueAt, DynamoListRuns,
       DynamoGathers
<1> QED BY <1>1, <1>2, <1>3, <1>4, <1>5, <1>6, <1>7, <1>8, <1>9, <1>10, <1>11, <1>12, <1>13,
   <1>14, <1>15, <1>16, <1>17, <1>18, <1>19, <1>20, <1>21 DEF DynamoNext

(* A Redis server keeps a sorted set beside the cron row, and may leave the two apart. *)
LEMMA ScoredSane ==
  ASSUME NEW d, NEW k, NEW n,
         host.backend = "redis", CronFits(d) => k \in Crons /\ n \in Nat
  PROVE  Sane(d, [d EXCEPT !.cron = k, !.ripe = n])
<1> DEFINE e == [d EXCEPT !.cron = k, !.ripe = n]
<1>1. ASSUME DOMAIN d = Columns
      PROVE  /\ DOMAIN e = Columns /\ SameRows(d, e) /\ SameJobs(d, e) /\ SameTimers(d, e)
             /\ e.cron = k /\ e.ripe = n
    BY <1>1, Zenon DEF Columns, SameRows, SameJobs, SameTimers
<1> HIDE DEF e
<1>2. ASSUME DOMAIN d = Columns PROVE CronStays(d, e) BY <1>1, <1>2 DEF CronStays, CronFits, OnTime
<1>3. Sane(d, e) BY <1>1, <1>2, SameIsKept DEF Sane, SaneBut
<1> QED BY <1>3 DEF e

LEMMA UpsertedSane ==
  ASSUME NEW d, NEW q, Request(q), q.op = "upsertCron", host.backend = "redis"
  PROVE  Sane(d, RedisUpserted(d, q.arg))
<1> DEFINE k == CronOf(d, q.arg)
           n == IF d.cron.schedule = q.arg.schedule /\ d.ripe # 0 THEN d.ripe ELSE q.arg.next
<1>1. CronFits(d) => k \in Crons BY CronOfFits
<1>2. CronFits(d) => n \in Nat BY DEF CronFits, Request
<1>3. RedisUpserted(d, q.arg) = [d EXCEPT !.cron = k, !.ripe = n] BY DEF RedisUpserted
<1> HIDE DEF k, n
<1>4. Sane(d, [d EXCEPT !.cron = k, !.ripe = n]) BY <1>1, <1>2, ScoredSane
<1> QED BY <1>3, <1>4

LEMMA RedisAdvancedSane ==
  ASSUME NEW d, NEW expected, host.backend = "redis"
  PROVE  Sane(d, RedisAdvanced(d, expected))
<1> DEFINE k == [d.cron EXCEPT !.next = expected + 2]
           n == expected + 2
<1>1. CASE d.ripe # expected BY <1>1, SaneToStay DEF RedisAdvanced
<1>2. CASE d.ripe = expected
  <2>1. CronFits(d) => k \in Crons /\ n \in Nat BY <1>2 DEF CronFits, Crons
  <2>2. [d EXCEPT !.cron.next = expected + 2, !.ripe = expected + 2] = [d EXCEPT !.cron = k, !.ripe = n]
      BY Zenon
  <2> HIDE DEF k, n
  <2>3. Sane(d, [d EXCEPT !.cron = k, !.ripe = n]) BY <2>1, ScoredSane
  <2> QED BY <2>2, <2>3, SaneToStay DEF RedisAdvanced
<1> QED BY <1>1, <1>2

LEMMA RetriedSane ==
  ASSUME NEW d, NEW r \in Runs
  PROVE  Sane(d, RedisRetried(d, r))
<1>1. Sane(d, Reopened(d, {r})) BY ReopenedSane
<1>2. Sane(Reopened(d, {r}), RedisQueued(Reopened(d, {r}), {r})) BY QueuedSane
<1> QED BY <1>1, <1>2, SaneInTurn, SaneToStay DEF RedisRetried

LEMMA PostedSane ==
  ASSUME NEW d, NEW r \in Runs
  PROVE  Sane(d, RedisPosted(d, r))
<1> DEFINE e == Enqueuing(Delivered(d, r), {r})
<1>1. RedisPosted(d, r) = IF d.sent[r] THEN d ELSE RedisQueued(e, {r}) BY DEF RedisPosted
<1>2. Sane(d, e) BY SignalledSane
<1> HIDE DEF e
<1>3. Sane(e, RedisQueued(e, {r})) BY QueuedSane
<1> QED BY <1>1, <1>2, <1>3, SaneInTurn, SaneToStay

(* A page of the index, and a window of rows. *)
LEMMA RedisListKeeps == ASSUME Inv, NEW c \in Clients, RedisListRuns(c) PROVE Inv'
<1>1. CASE Paging(c)
  <2>1. Busy(c) BY <1>1, PagingHasCall
  <2>2. Below(c) \in SUBSET Runs BY DEF Below
  <2>3. CASE Ends(c, db, at[c].out) BY <2>1, <2>3, AnswerKeeps
  <2>4. CASE Below(c) # {} /\ Reads(c, "row", IF RedisFilters(c) THEN Below(c) ELSE {Newest(Below(c))})
    <3>1. {Newest(Below(c))} \in SUBSET Runs BY <2>2, <2>4, NewestIsOne
    <3> QED BY <2>1, <2>2, <2>4, <3>1, ReadsKeeps
  <2>5. CASE On(c, "list", "row") BY <1>1, <2>5 DEF Paging, Calls, On
  <2> QED BY <1>1, <2>3, <2>4, <2>5 DEF RedisListRuns
<1>2. CASE On(c, "list", "row")
  <2> DEFINE r == Newest(at[c].got)
             page == at[c].page \cup Concluded(Call(c), RowFacts(db, {r}))
             last == Newest({f[1] : f \in page})
             x == [at[c] EXCEPT !.got = @ \ {r}, !.page = page]
             t == Turned(c, last, {f \in page : f[1] = last})
             u == Turned(c, r, {})
             y == [t EXCEPT !.got = {}, !.page = {}]
             z == [u EXCEPT !.got = {}]
  <2>0. ~Paging(c) BY <1>2 DEF Paging, Calls, On
  <2>1. Goes(c, db, x) \/ Goes(c, db, y) \/ Ends(c, db, at[c].out) \/ Goes(c, db, z)
      BY <1>2, <2>0 DEF RedisListRuns
  <2>2. Hand(c, at[c]) /\ Busy(c) BY <1>2, OnHasCall DEF Inv
  <2> HIDE DEF r, page, last
  <2>3. /\ DOMAIN x = Fields /\ x.got = at[c].got \ {r} /\ x.run = at[c].run
        /\ x.lease = at[c].lease /\ x.seen = at[c].seen
      BY <2>2, Zenon DEF Hand, Fields
  <2>4. /\ DOMAIN t = Fields /\ t.run = at[c].run /\ t.lease = at[c].lease /\ t.seen = at[c].seen
      BY TurnedHand
  <2>5. /\ DOMAIN u = Fields /\ u.run = at[c].run /\ u.lease = at[c].lease /\ u.seen = at[c].seen
      BY TurnedHand
  <2> HIDE DEF x, t, u
  <2>6. /\ DOMAIN y = Fields /\ y.got = {} /\ y.run = at[c].run
        /\ y.lease = at[c].lease /\ y.seen = at[c].seen
      BY <2>4, Zenon DEF Fields
  <2>7. /\ DOMAIN z = Fields /\ z.got = {} /\ z.run = at[c].run
        /\ z.lease = at[c].lease /\ z.seen = at[c].seen
      BY <2>5, Zenon DEF Fields
  <2> HIDE DEF y, z
  <2>8. x.got \subseteq Runs BY <2>3, GotAreRuns
  <2>9. CASE Goes(c, db, x) BY <2>2, <2>3, <2>8, <2>9, LooksKeep, SaneToStay
  <2>10. CASE Goes(c, db, y) BY <2>2, <2>6, <2>10, LooksKeep, SaneToStay
  <2>11. CASE Goes(c, db, z) BY <2>2, <2>7, <2>11, LooksKeep, SaneToStay
  <2>12. CASE Ends(c, db, at[c].out) BY <2>2, <2>12, AnswerKeeps
  <2> QED BY <2>1, <2>9, <2>10, <2>11, <2>12
<1> QED BY <1>1, <1>2 DEF RedisListRuns

(* Scripts that are atomic, and calls of several commands. *)
LEMMA RedisKeeps == ASSUME Inv, NEW c \in Clients, host.backend = "redis", RedisNext(c) PROVE Inv'
<1>1. CASE RedisStartRun(c) \/ RedisStartManyRuns(c)
    BY <1>1, StartOrFindKeeps DEF RedisStartRun, RedisStartManyRuns
<1>2. CASE RedisLoadRun(c)
    BY <1>2, LoadKeeps DEF RedisLoadRun
<1>3. CASE RedisMarkRunning(c)
    BY <1>3, MarkAtOnceKeeps DEF RedisMarkRunning
<1>4. CASE RedisCheckpointStep(c)
  <2>1. Busy(c) BY <1>4, OnHasCall DEF RedisCheckpointStep, Calls
  <2>2. Sane(db, RedisApplyOutbox(Written(db, c), c)) BY <2>1, CommitSane
  <2> QED BY <1>4, <2>1, <2>2, CheckpointAtOnceKeeps DEF RedisCheckpointStep
<1>5. CASE RedisSuspendRun(c) \/ RedisMarkTerminal(c)
    BY <1>5, OnHasCall, SuspendKeeps, FinishKeeps, ThrowsKeeps DEF RedisSuspendRun, RedisMarkTerminal,
       Calls
<1>6. CASE RedisArriveAtJoin(c)
    BY <1>6, ArriveKeeps DEF RedisArriveAtJoin
<1>7. CASE RedisPostSignal(c)
  <2>1. Busy(c) BY <1>7, OnHasCall DEF RedisPostSignal, Calls
  <2>2. Sane(db, RedisPosted(db, Call(c).run)) BY <2>1, RunOfCall, PostedSane
  <2> QED BY <1>7, <2>1, <2>2, EndsKeeps DEF RedisPostSignal
<1>8. CASE RedisCancelRuns(c)
  <2>1. CASE Scans(c, "cancelRuns", Chosen(c, Active)) BY <2>1, ChosenAreRuns, ScansKeeps
  <2>2. ASSUME On(c, "cancelRuns", "each"), NEW r \in at[c].got, Visits(c, r, Over(db, r, "canceled"))
        PROVE  Inv'
    <3>1. Busy(c) BY <2>2, OnHasCall
    <3>2. r \in Runs /\ "canceled" \in Terminal BY <2>2, GotAreRuns DEF Terminal
    <3>3. Sane(db, Over(db, r, "canceled")) BY <3>2, OverSane
    <3> QED BY <2>2, <3>1, <3>3, VisitsKeeps
  <2>3. CASE Busy(c) /\ Throws(c) BY <2>3, ThrowsKeeps
  <2> QED BY <1>8, <2>1, <2>2, <2>3, OnHasCall DEF RedisCancelRuns
<1>9. CASE RedisRetryRuns(c)
  <2>1. CASE Scans(c, "retryRuns", Chosen(c, {"failed"})) BY <2>1, ChosenAreRuns, ScansKeeps
  <2>2. ASSUME On(c, "retryRuns", "each"), NEW r \in at[c].got, Visits(c, r, RedisRetried(db, r))
        PROVE  Inv'
    <3>1. Busy(c) BY <2>2, OnHasCall
    <3>2. Sane(db, RedisRetried(db, r)) BY GotAreRuns, RetriedSane
    <3> QED BY <2>2, <3>1, <3>2, VisitsKeeps
  <2>3. CASE Busy(c) /\ Throws(c) BY <2>3, ThrowsKeeps
  <2> QED BY <1>9, <2>1, <2>2, <2>3, OnHasCall DEF RedisRetryRuns
<1>10. CASE RedisRetryRun(c)
  <2>1. Busy(c) BY <1>10, OnHasCall DEF RedisRetryRun, Calls
  <2>2. Sane(db, RedisRetried(db, Call(c).run)) BY <2>1, RunOfCall, RetriedSane
  <2> QED BY <1>10, <2>1, <2>2, EndsKeeps, ThrowsKeeps DEF RedisRetryRun
<1>11. CASE RedisDeleteRuns(c)
  <2>1. CASE Scans(c, "purge", Victims(c)) BY <2>1, ChosenAreRuns, ScansKeeps
  <2>2. ASSUME On(c, "purge", "each"), NEW r \in at[c].got, Visits(c, r, Erased(db, {r}))
        PROVE  Inv'
    BY <2>2, OnHasCall, PurgeIsCalled, ErasedSane, VisitsKeeps
  <2> QED BY <1>11, <2>1, <2>2 DEF RedisDeleteRuns
<1>12. CASE RedisUpsertCron(c)
  <2>1. Busy(c) /\ Call(c).op = "upsertCron" BY <1>12, OnHasCall DEF RedisUpsertCron, Calls
  <2>2. Sane(db, RedisUpserted(db, Call(c).arg)) BY <2>1, CallsAreRequests, UpsertedSane
  <2> QED BY <1>12, <2>1, <2>2, EndsKeeps DEF RedisUpsertCron
<1>13. CASE RedisRemoveCron(c)
  <2>1. CASE Busy(c) /\ Writes(c, [db EXCEPT !.cron = NoCron], "score") BY <2>1, RemovedSane, WritesKeeps
  <2>2. CASE Busy(c) /\ Ends(c, [db EXCEPT !.ripe = 0], TRUE) BY <2>2, RipeSane, EndsKeeps
  <2> QED BY <1>13, <2>1, <2>2, OnHasCall DEF RedisRemoveCron, Calls
<1>14. CASE RedisDueCrons(c)
  <2>1. CASE \E k : Busy(c) /\ EndsWith(c, db, [at[c] EXCEPT !.cron = k], TRUE)
      BY <2>1, EndsWithKeeps, CronShownHolds, SaneToStay
  <2>2. CASE Busy(c) /\ Writes(c, db, "rows") BY <2>2, WritesKeeps, SaneToStay
  <2> QED BY <1>14, <2>1, <2>2, OnHasCall DEF RedisDueCrons, Calls
<1>15. CASE RedisAdvanceCron(c)
    BY <1>15, OnHasCall, RedisAdvancedSane, EndsKeeps DEF RedisAdvanceCron, Calls
<1>16. CASE RedisEnqueue(c)
  <2> DEFINE R == {Call(c).run}
  <2>1. Busy(c) BY <1>16, OnHasCall DEF RedisEnqueue, Calls
  <2>2. R \in SUBSET Runs BY <2>1, RunOfCall
  <2>3. Sane(Enqueuing(db, R), RedisQueued(Enqueuing(db, R), R)) BY <2>2, QueuedSane
  <2>4. Sane(db, RedisQueued(Enqueuing(db, R), R)) BY <2>2, <2>3, EnqueuingSane, SaneInTurn
  <2> QED BY <1>16, <2>1, <2>4, EndsKeeps DEF RedisEnqueue
<1>17. CASE RedisClaim(c)
  <2>1. Fit(c, RedisInWindow(db) \cap Due(db)) \in SUBSET Due(db) BY DEF Fit
  <2> QED BY <1>17, <2>1, ClaimOneOfKeeps DEF RedisClaim
<1>18. CASE RedisHeartbeat(c)
    BY <1>18, RenewKeeps DEF RedisHeartbeat
<1>19. CASE RedisAck(c)
  <2> DEFINE r == at[c].run
             gone == RedisUnqueued(Dequeued(db, r), {r})
             back == RedisQueued(LetGo(db, r), {r})
             d == IF ~Held(c) THEN db ELSE IF SameVersion(c) THEN gone ELSE back
  <2>1. todo[c] # <<>> /\ LeaseDropped(c, d) BY <1>19 DEF RedisAck, Calls, On
  <2>2. ASSUME Held(c), SameVersion(c) PROVE LetsGo(c, gone)
    <3>1. SaneBut(db, Dequeued(db, r), {r}) /\ db.job[r].token = at[c].lease.token
        BY <2>2, HeldFacts, DequeuedSane
    <3>2. SaneBut(Dequeued(db, r), gone, {r}) BY UnqueuedSane, SaneEnough
    <3> QED BY <3>1, <3>2, SaneButInTurn DEF LetsGo
  <2>3. ASSUME Held(c) PROVE LetsGo(c, back)
    <3>1. /\ r \in Runs /\ SaneBut(db, LetGo(db, r), {r}) /\ db.job[r].token = at[c].lease.token
        BY <2>3, HeldFacts, LetGoSane
    <3>2. SaneBut(LetGo(db, r), back, {r}) BY <3>1, QueuedSane, SaneEnough
    <3> QED BY <3>1, <3>2, SaneButInTurn DEF LetsGo
  <2>4. LetsGo(c, d) BY <2>2, <2>3, AckedSane
  <2> QED BY <2>1, <2>4, DroppedKeeps
<1>20. CASE RedisSchedule(c) \/ RedisCancelTimer(c) \/ RedisDueBatch(c)
    BY <1>20, ScheduleKeeps, CancelTimerKeeps, DueKeeps DEF RedisSchedule, RedisCancelTimer,
       RedisDueBatch
<1>21. CASE Refuses(c)
    BY <1>21, RefusesKeeps
<1>22. CASE RedisListRuns(c)
    BY <1>22, RedisListKeeps
<1>23. CASE RedisDueCronCount(c)
  <2>1. CASE \E answer : Busy(c) /\ Ends(c, db, answer) BY <2>1, AnswerKeeps
  <2>2. CASE Busy(c) /\ Writes(c, db, "rows") BY <2>2, WritesKeeps, SaneToStay
  <2> QED BY <1>23, <2>1, <2>2, OnHasCall DEF RedisDueCronCount, Calls
<1>24. CASE RedisLoadRunRows(c) \/ RedisChildrenOf(c) \/ RedisRunStats(c) \/ RedisOrphanedRuns(c)
            \/ RedisListCrons(c) \/ RedisDepth(c) \/ RedisDueCount(c) \/ RedisNextDueAt(c)
    BY <1>24, AtOnceKeeps, BeginsKeeps, LooksOnKeeps, LooksInTurnKeeps DEF RedisLoadRunRows,
       RedisChildrenOf, RedisRunStats, RedisOrphanedRuns, RedisListCrons, RedisDepth,
       RedisDueCount, RedisNextDueAt
<1> QED BY <1>1, <1>2, <1>3, <1>4, <1>5, <1>6, <1>7, <1>8, <1>9, <1>10, <1>11, <1>12, <1>13,
   <1>14, <1>15, <1>16, <1>17, <1>18, <1>19, <1>20, <1>21, <1>22, <1>23, <1>24 DEF RedisNext

-----------------------------------------------------------------------------
(* Time, the start, and the theorems *)

(* A step of time makes of the tables what is sane, and asks nothing of the clients. *)
LEMMA TickKeeps ==
  ASSUME Inv, NEW d, Sane(db, d), db' = d, todo' = todo, at' = at, host' = host
  PROVE  Inv'
<1>1. /\ DOMAIN db = Columns /\ RowsFit(db) /\ JobsFit(db) /\ TimersFit(db) /\ CronFits(db)
      /\ (host.backend # "mongodb" => Counted(db))
    BY DEF Inv, Fits
<1>2. /\ DOMAIN d = Columns /\ RowsFit(d) /\ JobsFit(d) /\ TimersFit(d) /\ CronFits(d)
      /\ (host.backend # "mongodb" => Counted(d)) /\ Spares(db, d)
      /\ Purges \/ LeasesLast(db, d, {})
    BY <1>1 DEF Sane, SaneBut, RowsKept, JobsKept, TimersKept, CronStays
<1>3. (Fits(db) /\ (host.backend # "mongodb" => Counted(db)))'
    BY <1>2 DEF Fits, RowsFit, JobsFit, TimersFit, CronFits, OnTime, Counted
<1>4. ASSUME NEW c \in Clients PROVE Hand(c, at[c]) /\ Leases(d, at[c])
  <2>1. Hand(c, at[c]) /\ Leases(db, at[c]) BY DEF Inv
  <2> QED BY <1>1, <1>2, <2>1, LeasesStay
<1>5. \A c \in Clients : (Hand(c, at[c]) /\ Leases(db, at[c]))'
    BY <1>4 DEF Hand, Leases, OnTime
<1>6. (DOMAIN host = {"backend", "lapse"} /\ todo \in [Clients -> Seq(Requests)] /\ DOMAIN at = Clients)'
    BY DEF Inv
<1>7. ASSUME ~Purges, NEW c \in Clients PROVE Firm(d, at[c])
  <2>1. Hand(c, at[c]) /\ Firm(db, at[c]) BY <1>7 DEF Inv
  <2> QED BY <1>2, <1>7, <2>1, FirmStays DEF Hand
<1>8. (Purges \/ \A c \in Clients : Firm(db, at[c]))' BY <1>7 DEF Firm, Purges, Requests
<1> QED BY <1>3, <1>5, <1>6, <1>8 DEF Inv

LEMMA RipenKeeps == ASSUME Inv, NEW r \in Runs, Ripen(r) PROVE Inv'
<1> DEFINE e == [db EXCEPT !.timer[r] = "due"]
<1>1. db.timer[r] = "ahead" /\ db' = e /\ UNCHANGED <<todo, at, host>> BY DEF Ripen
<1>2. ASSUME DOMAIN db = Columns
      PROVE  /\ DOMAIN e = Columns /\ SameRows(db, e) /\ SameJobs(db, e) /\ SameCron(db, e)
             /\ e.timer = [db.timer EXCEPT ![r] = "due"] /\ e.alarms = db.alarms
    BY <1>2, Zenon DEF Columns, SameRows, SameJobs, SameCron
<1> HIDE DEF e
<1>3. ASSUME DOMAIN db = Columns PROVE TimersKept(db, e)
    BY <1>1, <1>2, <1>3 DEF TimersKept, TimersFit, Counted
<1>4. Sane(db, e) BY <1>2, <1>3, TimersSane
<1> QED BY <1>1, <1>4, TickKeeps

(* A lease expires in the table and in its holder's hands. *)
LEMMA LapseKeeps == ASSUME Inv, NEW c \in Clients, Lapse(c) PROVE Inv'
<1> DEFINE r == at[c].run
           ours == db.job[r].token = at[c].lease.token
           j == [db.job[r] EXCEPT !.expires = IF ours THEN 0 ELSE @]
           d == [db EXCEPT !.job[r] = j]
           l == [at[c].lease EXCEPT !.expires = 0]
           x == [at[c] EXCEPT !.lease = l]
           W == IF ours THEN {r} ELSE {}
<1>1. /\ DOMAIN host = {"backend", "lapse"} /\ DOMAIN at = Clients /\ Hand(c, at[c])
      /\ DOMAIN db = Columns /\ RowsFit(db) /\ JobsFit(db) /\ TimersFit(db) /\ CronFits(db)
      /\ (host.backend # "mongodb" => Counted(db))
    BY DEF Inv, Fits
<1>2. /\ db' = d /\ at' = [at EXCEPT ![c] = x] /\ todo' = todo /\ host' = [host EXCEPT !.lapse = FALSE]
    BY DEF Lapse
<1>3. DOMAIN host' = {"backend", "lapse"} /\ host'.backend = host.backend BY <1>1, <1>2
<1>4. r \in Runs /\ db.job[r] \in Job /\ WellFormed(db.job[r]) BY <1>1 DEF Hand, JobsFit
<1>5. j \in Job /\ j.queued = db.job[r].queued /\ j.token = db.job[r].token /\ j.version = db.job[r].version
      /\ (j.expires > 0 => j.expires = db.job[r].expires) /\ WellFormed(j)
    BY <1>4 DEF Job, WellFormed, NoJob
<1>6. ~ours => j.expires = db.job[r].expires BY <1>4 DEF Job
<1>7. l \in Lease /\ l.expires = 0 /\ l.token = at[c].lease.token /\ l.version = at[c].lease.version
    BY <1>1 DEF Hand, Lease
<1> HIDE DEF j, l
<1>8. /\ DOMAIN x = Fields /\ x.got = at[c].got /\ x.run = at[c].run /\ x.lease = l
      /\ x.seen = at[c].seen
    BY <1>1, Zenon DEF Hand, Fields
<1> HIDE DEF x
<1>9. JobsFit(db) => /\ j \in Job /\ WellFormed(j) /\ (j.expires > 0 => j.token > 0)
                     /\ (r \in db.owed => j.queued)
                     /\ (j.token # 0 => j.token = db.job[r].token /\ j.version = db.job[r].version)
                     /\ (db.job[r].expires > 0 /\ r \notin W => j.token = db.job[r].token /\ j.expires > 0)
    BY <1>4, <1>5, <1>6 DEF JobsFit
<1> HIDE DEF W
<1>10. SaneBut(db, d, W) BY <1>4, <1>9, JobSane
<1> HIDE DEF d
<1>11. /\ DOMAIN d = Columns /\ RowsFit(d) /\ JobsFit(d) /\ TimersFit(d) /\ CronFits(d)
       /\ (host.backend # "mongodb" => Counted(d)) /\ Spares(db, d)
       /\ Purges \/ LeasesLast(db, d, W)
    BY <1>1, <1>10 DEF SaneBut, RowsKept, JobsKept, TimersKept, CronStays
<1>12. (Fits(db) /\ (host.backend # "mongodb" => Counted(db)))'
    BY <1>2, <1>3, <1>11 DEF Fits, RowsFit, JobsFit, TimersFit, CronFits, OnTime, Counted
<1>13. ASSUME NEW b \in Clients PROVE Hand(b, at'[b]) /\ Leases(d, at'[b])
  <2>1. Hand(b, at[b]) /\ Leases(db, at[b]) BY DEF Inv
  <2>2. CASE b # c
    <3>1. at'[b] = at[b] BY <1>1, <1>2, <2>2
    <3> QED BY <1>1, <1>11, <2>1, <3>1, LeasesStay
  <2>3. CASE b = c
    <3>1. at'[b] = x BY <1>1, <1>2, <2>3
    <3>2. Hand(b, x) /\ Leases(db, x) BY <1>7, <1>8, <2>1, <2>3 DEF Hand, Leases
    <3> QED BY <1>1, <1>11, <3>1, <3>2, LeasesStay
  <2> QED BY <2>2, <2>3
<1>14. \A b \in Clients : (Hand(b, at[b]) /\ Leases(db, at[b]))'
    BY <1>2, <1>3, <1>13 DEF Hand, Leases, OnTime
<1>15. ASSUME ~Purges, NEW b \in Clients PROVE Firm(d, at'[b])
  <2>1. Hand(b, at[b]) /\ Firm(db, at[b]) /\ LeasesLast(db, d, W) BY <1>11, <1>15 DEF Inv
  <2>2. CASE b # c
    <3>1. at'[b] = at[b] /\ at[b].run \in Runs BY <1>1, <1>2, <2>1, <2>2 DEF Hand
    <3>2. CASE at[b].run \notin W BY <2>1, <3>1, <3>2, FirmStays
    <3>3. CASE at[b].run \in W
      <4>1. db.job[at[b].run].token = at[c].lease.token BY <3>3 DEF W
      <4>2. ~(at[b].lease.expires = 1 /\ at[b].pc # "release") BY <1>1, <2>1, <2>2, <4>1, OneFirm
      <4> QED BY <3>1, <4>2 DEF Firm
    <3> QED BY <3>2, <3>3
  <2>3. CASE b = c
    <3>1. at'[b] = x BY <1>1, <1>2, <2>3
    <3> QED BY <1>7, <1>8, <3>1 DEF Firm
  <2> QED BY <2>2, <2>3
<1>16. (Purges \/ \A b \in Clients : Firm(db, at[b]))' BY <1>2, <1>15 DEF Firm, Purges, Requests
<1>17. (todo \in [Clients -> Seq(Requests)] /\ DOMAIN at = Clients)' BY <1>1, <1>2 DEF Inv
<1> QED BY <1>3, <1>12, <1>14, <1>16, <1>17 DEF Inv

(* The programs that a behaviour is about are made of requests. *)
LEMMA ProgramsAreRequests ==
  ASSUME NEW k \in Cases
  PROVE  k.calls \in [Clients -> Seq(Requests)]
<1>1. k.calls = [c \in Clients |-> k.calls[c]] /\ \A c \in Clients : Program(k.calls[c])
    BY CasesAssumption
<1>2. ASSUME NEW c \in Clients PROVE k.calls[c] \in Seq(Requests)
  <2> DEFINE s == k.calls[c]
  <2>1. s = [i \in 1..Len(s) |-> s[i]] /\ Len(s) \in Nat BY <1>1 DEF Program
  <2>2. \A i \in 1..Len(s) : s[i] \in Requests BY DEF Requests
  <2> HIDE DEF s
  <2>3. s \in [1..Len(s) -> Requests] BY <2>1, <2>2
  <2>4. s \in Seq(Requests) BY <2>1, <2>3
  <2> QED BY <2>4 DEF s
<1> QED BY <1>1, <1>2

LEMMA InvAtFirst == Init => Inv
<1> SUFFICES ASSUME Init PROVE Inv OBVIOUS
<1>1. PICK k \in Cases : /\ host = [backend |-> k.backend, lapse |-> k.lapse]
                         /\ db = k.tables /\ todo = k.calls
    BY DEF Init
<1>2. LegalTables(db) BY <1>1, CasesAssumption
<1>3. /\ DOMAIN db = Columns /\ db.row \in [Runs -> RunRow] /\ db.left \in [Runs -> Int]
      /\ db.key \in Runs \cup {NoOne} /\ db.job \in [Runs -> Job] /\ db.queue \subseteq Runs
      /\ db.owed \subseteq Runs /\ db.timer \in [Runs -> {"none", "ahead", "due"}]
      /\ db.alarms \in [Runs -> Int] /\ db.cron \in Crons /\ db.ripe \in Nat
    BY <1>2, Zenon DEF LegalTables, Tables, Columns, Crons
<1>4. Fits(db) /\ Counted(db)
  <2>1. \A r \in Runs : db.row[r].status = "absent" => db.row[r] = NoRun BY <1>2 DEF LegalTables, There
  <2>2. RowsFit(db) BY <1>3, <2>1 DEF RowsFit, WholeRow
  <2> QED BY <1>2, <1>3, <2>2 DEF LegalTables, Fits, JobsFit, TimersFit, CronFits, OnTime, Counted
<1>5. DOMAIN host = {"backend", "lapse"} BY <1>1
<1>6. todo \in [Clients -> Seq(Requests)] BY <1>1, ProgramsAreRequests
<1>7. ASSUME NEW c \in Clients PROVE Hand(c, at[c]) /\ Leases(db, at[c])
  <2>1. at[c] = Ready BY DEF Init
  <2>2. /\ DOMAIN Ready = Fields /\ Ready.got = {} /\ Ready.run = 0 /\ Ready.lease = NoLease
        /\ Ready.seen = NoCron
      BY DEF Ready, Fields
  <2>3. NoLease \in Lease /\ NoLease.token = 0 /\ 0 \in Runs BY DEF NoLease, Lease, Runs
  <2> QED BY <2>1, <2>2, <2>3, NoCronFits DEF Hand, Leases
<1>8. DOMAIN at = Clients BY DEF Init
<1>9. \A c \in Clients : Firm(db, at[c]) BY DEF Init, Ready, NoLease, Firm
<1> QED BY <1>4, <1>5, <1>6, <1>7, <1>8, <1>9 DEF Inv

LEMMA InvKept == Inv /\ [Next]_vars => Inv'
<1> SUFFICES ASSUME Inv, [Next]_vars PROVE Inv' OBVIOUS
<1>1. CASE UNCHANGED vars BY <1>1, SaneToStay, TickKeeps DEF vars
<1>2. ASSUME NEW r \in Runs, Ripen(r) PROVE Inv' BY <1>2, RipenKeeps
<1>3. ASSUME NEW c \in Clients, Lapse(c) PROVE Inv' BY <1>3, LapseKeeps
<1>4. ASSUME NEW c \in Clients,
             \/ host.backend = "memory" /\ MemoryNext(c)
             \/ host.backend = "postgres" /\ PostgresNext(c)
             \/ host.backend = "mysql" /\ MySqlNext(c)
             \/ host.backend = "sqlite" /\ SqliteNext(c)
             \/ host.backend = "redis" /\ RedisNext(c)
             \/ host.backend = "mongodb" /\ MongoNext(c)
             \/ host.backend = "dynamodb" /\ DynamoNext(c)
      PROVE  Inv'
    BY <1>4, MemoryKeeps, PostgresKeeps, MySqlKeeps, SqliteKeeps, RedisKeeps, MongoKeeps, DynamoKeeps
<1> QED BY <1>1, <1>2, <1>3, <1>4 DEF Next, Moves

(* The invariant that the theorems rest on holds throughout, on every backend, whatever    *)
(* the clients call and however the steps of their calls interleave.                      *)
THEOREM BackendsInductive == Spec => []Inv
<1>1. Init => Inv BY InvAtFirst
<1>2. Inv /\ [Next]_vars => Inv' BY InvKept
<1> QED BY <1>1, <1>2, PTL DEF Spec

(* TypeOK: rows, jobs, timers and leases are of the kinds the ports know (ports/store.ts,  *)
(* ports/queue.ts), and a job that is leased is one that is queued.                       *)
THEOREM BackendsTypes == Spec => []TypeOK
<1>1. RowsFit(db) => db.row \in [Runs -> RunRow] BY DEF RowsFit, WholeRow
<1>2. Inv => TypeOK BY <1>1 DEF Inv, Fits, RowsFit, JobsFit, TimersFit, Hand, TypeOK
<1> QED BY <1>2, BackendsInductive, PTL

(* WakeKept: no backend loses the wake of a run that was enqueued since its last claim,    *)
(* whether its acknowledgement is one write or two (ports/queue.ts).                      *)
THEOREM NoWakeLost == Spec => []WakeKept
<1>1. Inv => WakeKept BY DEF Inv, Fits, JobsFit, WakeKept
<1> QED BY <1>1, BackendsInductive, PTL

(* SingleHolder, where no client purges: no two clients hold a live lease of one run, on   *)
(* any backend, though a claim may be a query and a conditional write, an acknowledgement  *)
(* two writes, and a lease may expire at any moment (ports/queue.ts).                      *)
THEOREM OneHolderEach == ASSUME ~Purges PROVE Spec => []SingleHolder
<1>1. Inv => SingleHolder
  <2> SUFFICES ASSUME Inv, NEW b \in Clients, NEW c \in Clients,
                      HoldsLease(b), HoldsLease(c), at[b].run = at[c].run
               PROVE  b = c
      BY DEF SingleHolder
  <2>1. Hand(b, at[b]) /\ Hand(c, at[c]) /\ Firm(db, at[b]) /\ Firm(db, at[c]) BY DEF Inv
  <2>2. db.job[at[b].run].token = at[c].lease.token BY <2>1 DEF Firm, HoldsLease
  <2> QED BY <2>1, <2>2, OneFirm DEF HoldsLease
<1> QED BY <1>1, BackendsInductive, PTL

(* TimerKept, but on MongoDB: a timer that was set is there until it is handed out or      *)
(* cancelled, and is handed out once (ports/timer.ts).  MongoDB's poller deletes what it  *)
(* has found and hands it out, though another may have handed it out in between.          *)
THEOREM TimersHandedOutOnce == Spec => [](host.backend # "mongodb" => TimerKept)
<1>1. Inv => (host.backend # "mongodb" => TimerKept) BY DEF Inv, Counted, TimerKept
<1> QED BY <1>1, BackendsInductive, PTL

(* CronTimes, but on Redis: the next time of a cron is one of its own schedule's,          *)
(* through registrations and advances that race (core/src/ports/store.ts).                *)
THEOREM CronsKeepTheirTimes == Spec => [](host.backend # "redis" => CronTimes)
<1>1. Inv => (host.backend # "redis" => CronTimes) BY DEF Inv, Fits, CronFits, OnTime, CronTimes
<1> QED BY <1>1, BackendsInductive, PTL
=============================================================================
