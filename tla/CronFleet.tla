------------------------------ MODULE CronFleet ------------------------------
(***************************************************************************)
(* Cron schedules on a fleet: deployments that register, change and remove *)
(* crons, and workers whose sweeps fire the occurrences that are due.      *)
(*                                                                         *)
(* A sweep works on the rows it read at its start, one after the other,    *)
(* and is cut at every store call: other sweeps, registrations, the clock  *)
(* and a crash land in between.  A schedule is an expression, and an       *)
(* occurrence is a cron and a minute.  The clock goes through the minutes  *)
(* of a calendar.  What becomes of a fired run is RunEngine's subject;     *)
(* here it is live until it ends.                                          *)
(***************************************************************************)
EXTENDS CronFields, FiniteSets

CONSTANTS Workers, Crons,
          Flows,        \* the flows, name and version, a cron may start
          Calendar,     \* the minutes the clock goes through, and one past its bound
          Expressions,  \* the expressions of the schedules, by name
          Meant,        \* the minutes that whoever wrote a schedule means by it
          Definitions,  \* what a deployment may register a cron as
          DueLimit,     \* how many due rows one sweep reads
          MaxTime       \* bound of the clock

Schedules == DOMAIN Expressions
Definition == [schedule : Schedules, flow : Flows, overlap : {"allow", "skip"}]

FireTimes == [s \in Schedules |-> {t \in DOMAIN Calendar : Matches(Expressions[s], Calendar[t])}]

ASSUME CronConstants ==
  /\ Definitions \subseteq Definition /\ IsFiniteSet(Crons) /\ IsFiniteSet(Flows)
  /\ DOMAIN Calendar = 0..MaxTime + 1 /\ DOMAIN Meant = Schedules
  /\ DueLimit \in Nat \ {0}
  /\ MaxTime \in Nat

(* The schedules a registration does not refuse, that they mean to this program what they *)
(* mean to their author, and that no two of them name the same minute.                    *)
Accepted == {d.schedule : d \in {e \in Definitions : Parses(Expressions[e.schedule])}}
Understood == \A s \in Accepted : Meant[s] = FireTimes[s]
Apart == \A s, u \in Accepted : s # u => FireTimes[s] \cap FireTimes[u] \cap (0..MaxTime) = {}

Row == [schedule : Schedules, flow : Flows, overlap : {"allow", "skip"}, next : Nat]

(* A cron nobody has registered, or has removed. *)
NoRow == [schedule |-> "none", next |-> 0]

Occurrences == Crons \X (0..MaxTime)

VARIABLES crons,     \* cron -> row, NoRow if it is not registered
          boot,      \* cron -> the row a registration is about to write, or NoRow
          runs,      \* the cron runs there are, by idempotency key
          sweep,     \* worker -> where its sweep stands, the rows it still has to treat
                     \* and the next fire time it computed for the first of them
          now,       \* the clock every process reads
          fired,     \* history: occurrence -> how many runs were created for it
          passed     \* history: occurrences a sweep passed over for a live run

vars == <<crons, boot, runs, sweep, now, fired, passed>>

Resting == [at |-> "idle", due |-> <<>>, next |-> 0]

Init ==
  /\ crons = [c \in Crons |-> NoRow]
  /\ boot = [c \in Crons |-> NoRow]
  /\ runs = [o \in Occurrences |-> [f \in Flows |-> "absent"]]
  /\ sweep = [w \in Workers |-> Resting]
  /\ now = 0
  /\ fired = [o \in Occurrences |-> 0]
  /\ passed = {}

-----------------------------------------------------------------------------

FirstOf(S) == CHOOSE f \in S : \A g \in S : f <= g

(* A next fire time that may be the present minute. *)
NextFrom(schedule, t) == FirstOf({f \in FireTimes[schedule] : f >= t})

(* The first fire time strictly after t. *)
NextAfter(schedule, t) == FirstOf({f \in FireTimes[schedule] : f > t})
Fires(schedule, t) == \E f \in FireTimes[schedule] : f > t

(* A re-registration that never touches the timing. *)
UpsertedKeepingTime(old, new) ==
  IF old # NoRow THEN [new EXCEPT !.next = old.next] ELSE new

(* A re-registration keeps its timing unless it changes the schedule. *)
Upserted(old, new) ==
  IF old # NoRow /\ old.schedule = new.schedule THEN [new EXCEPT !.next = old.next] ELSE new

(* An advance that does not compare. *)
AdvancedBlindly(row, expected, next) ==
  IF row # NoRow THEN [row EXCEPT !.next = next] ELSE row

(* Only the sweep that still sees the stored fire time moves it forward. *)
Advanced(row, expected, next) ==
  IF row # NoRow /\ row.next = expected THEN [row EXCEPT !.next = next] ELSE row

-----------------------------------------------------------------------------

(* registerCron computes the first fire time, and writes the row later; it throws if the *)
(* expression does not parse, or nothing is left for it to fire at.                      *)
RegisterCron(c, d) ==
  /\ boot[c] = NoRow
  /\ Parses(Expressions[d.schedule]) /\ Fires(d.schedule, now)
  /\ boot' = [boot EXCEPT ![c] =
       [schedule |-> d.schedule, flow |-> d.flow, overlap |-> d.overlap,
        next |-> NextAfter(d.schedule, now)]]
  /\ UNCHANGED <<crons, runs, sweep, now, fired, passed>>

UpsertCron(c) ==
  /\ boot[c] # NoRow
  /\ crons' = [crons EXCEPT ![c] = Upserted(@, boot[c])]
  /\ boot' = [boot EXCEPT ![c] = NoRow]
  /\ UNCHANGED <<runs, sweep, now, fired, passed>>

RemoveCron(c) ==
  /\ crons[c] # NoRow
  /\ crons' = [crons EXCEPT ![c] = NoRow]
  /\ UNCHANGED <<boot, runs, sweep, now, fired, passed>>

-----------------------------------------------------------------------------

Due == {c \in Crons : crons[c] # NoRow /\ crons[c].next <= now}

(* The rows a sweep reads: due ones, longest due first, as many as the limit allows. *)
IsDueList(list) ==
  /\ \A i, j \in DOMAIN list : i < j =>
       list[i].cron # list[j].cron /\ list[i].row.next <= list[j].row.next
  /\ \A i \in DOMAIN list : \A c \in Due \ {list[k].cron : k \in DOMAIN list} :
       list[i].row.next <= crons[c].next
  /\ \A i \in DOMAIN list : list[i].cron \in Due /\ list[i].row = crons[list[i].cron]

DueCrons(w) ==
  /\ sweep[w] = Resting
  /\ Due # {}
  /\ LET n == IF Cardinality(Due) < DueLimit THEN Cardinality(Due) ELSE DueLimit
     IN  \E list \in [1..n -> {[cron |-> c, row |-> crons[c]] : c \in Due}] :
           /\ IsDueList(list)
           /\ sweep' = [sweep EXCEPT ![w] = [@ EXCEPT !.at = "plan", !.due = list]]
  /\ UNCHANGED <<crons, boot, runs, now, fired, passed>>

Stands(w, at) == sweep[w].at = at

Cron(w) == Head(sweep[w].due).cron
Read(w) == Head(sweep[w].due).row
Treated(w) == <<Cron(w), Read(w).next>>

Goto(w, at) == sweep' = [sweep EXCEPT ![w].at = at]

(* The next fire time is taken from the clock before anything is asked of the store; if  *)
(* there is none, this throws and the sweep is over.                                     *)
Plan(w) ==
  /\ Stands(w, "plan") /\ Fires(Read(w).schedule, now)
  /\ sweep' = [sweep EXCEPT ![w] = [@ EXCEPT
       !.next = NextAfter(Read(w).schedule, now),
       !.at = IF Read(w).overlap = "skip" THEN "look" ELSE "start"]]
  /\ UNCHANGED <<crons, boot, runs, now, fired, passed>>

Live(c) == {o \in Occurrences : o[1] = c /\ \E f \in Flows : runs[o][f] \in {"pending", "queued"}}

(* A cron that must not overlap is consumed without a start while a run of it lives. *)
Look(w) ==
  /\ Stands(w, "look")
  /\ IF Live(Cron(w)) = {}
     THEN Goto(w, "start") /\ UNCHANGED passed
     ELSE Goto(w, "advance") /\ passed' = passed \cup {Treated(w)}
  /\ UNCHANGED <<crons, boot, runs, now, fired>>

(* A start that does not look for a run of the same occurrence. *)
AlwaysFresh(w) == TRUE

(* The idempotency key names the flow, the cron and the fire time; it stays taken     *)
(* after the run has ended.                                                           *)
Fresh(w) == runs[Treated(w)][Read(w).flow] = "absent"

(* A sweep that leaves the advance to whoever created the run. *)
LeftToStarter(w) == sweep' = [sweep EXCEPT ![w] = Resting]

(* Whoever created the run may not have lived to move the schedule on. *)
StartedBefore(w) == Goto(w, "advance")

Start(w) ==
  /\ Stands(w, "start")
  /\ IF Fresh(w)
     THEN /\ runs' = [runs EXCEPT ![Treated(w)][Read(w).flow] = "pending"]
          /\ fired' = [fired EXCEPT ![Treated(w)] = @ + 1]
          /\ Goto(w, "enqueue")
     ELSE StartedBefore(w) /\ UNCHANGED <<runs, fired>>
  /\ UNCHANGED <<crons, boot, now, passed>>

Enqueue(w) ==
  /\ Stands(w, "enqueue")
  /\ runs' = [runs EXCEPT ![Treated(w)][Read(w).flow] = IF @ = "pending" THEN "queued" ELSE @]
  /\ Goto(w, "advance")
  /\ UNCHANGED <<crons, boot, now, fired, passed>>

(* The schedule moves on if nobody moved it yet, and the sweep goes to its next row. *)
Advance(w) ==
  /\ Stands(w, "advance")
  /\ crons' = [crons EXCEPT ![Cron(w)] = Advanced(@, Read(w).next, sweep[w].next)]
  /\ sweep' = [sweep EXCEPT ![w] =
       IF Len(@.due) = 1 THEN Resting
       ELSE [at |-> "plan", due |-> Tail(@.due), next |-> 0]]
  /\ UNCHANGED <<boot, runs, now, fired, passed>>

(* A process dies, or a store call throws: the rest of the sweep is given up. *)
Abandon(w) ==
  /\ sweep[w] # Resting
  /\ sweep' = [sweep EXCEPT ![w] = Resting]
  /\ UNCHANGED <<crons, boot, runs, now, fired, passed>>

-----------------------------------------------------------------------------

(* A reconciler that leaves what nobody has queued to whoever started it. *)
OrphanedOnceQueued(o, f) == FALSE

(* A run created but not queued is an orphan the reconciler queues; the two calls it  *)
(* makes are apart in RunEngine.                                                       *)
Orphaned(o, f) == runs[o][f] = "pending"

Reconcile(o, f) ==
  /\ Orphaned(o, f)
  /\ runs' = [runs EXCEPT ![o][f] = "queued"]
  /\ UNCHANGED <<crons, boot, sweep, now, fired, passed>>

(* The engine carries a queued run to an outcome. *)
Finish(o, f) ==
  /\ runs[o][f] = "queued"
  /\ runs' = [runs EXCEPT ![o][f] = "ended"]
  /\ UNCHANGED <<crons, boot, sweep, now, fired, passed>>

Tick ==
  /\ now < MaxTime
  /\ now' = now + 1
  /\ UNCHANGED <<crons, boot, runs, sweep, fired, passed>>

SweepOn(w) == Plan(w) \/ Look(w) \/ Start(w) \/ Enqueue(w) \/ Advance(w)

Next ==
  \/ \E c \in Crons : \/ \E d \in Definitions : RegisterCron(c, d)
                      \/ UpsertCron(c) \/ RemoveCron(c)
  \/ \E w \in Workers : DueCrons(w) \/ SweepOn(w) \/ Abandon(w)
  \/ \E o \in Occurrences, f \in Flows : Reconcile(o, f) \/ Finish(o, f)
  \/ Tick

Spec == Init /\ [][Next]_vars

(* Some worker's maintenance timer starts a sweep as long as rows are due, a sweep    *)
(* goes on unless it is abandoned, which happens finitely often (the end of a sweep   *)
(* whose last advance came too late is no abandonment), and the reconciler and the    *)
(* engine treat every run.                                                            *)
Fairness ==
  /\ WF_vars(\E w \in Workers : DueCrons(w))
  /\ \A w \in Workers : WF_vars(SweepOn(w))
  /\ WF_vars(\E o \in Occurrences, f \in Flows : Reconcile(o, f))
  /\ WF_vars(\E o \in Occurrences, f \in Flows : Finish(o, f))
  /\ <>[][\A w \in Workers : Abandon(w) => SweepOn(w)]_vars

LiveSpec == Spec /\ Fairness

-----------------------------------------------------------------------------

(* Types, and: a sweep that stands before a store call has a row to treat, whose      *)
(* fire time has come, and past its plan has computed a fire time after that one.     *)
TypeOK ==
  /\ crons \in [Crons -> Row \cup {NoRow}] /\ boot \in [Crons -> Row \cup {NoRow}]
  /\ runs \in [Occurrences -> [Flows -> {"absent", "pending", "queued", "ended"}]]
  /\ fired \in [Occurrences -> Nat] /\ passed \subseteq Occurrences
  /\ now \in 0..MaxTime
  /\ \A w \in Workers : sweep[w] # Resting =>
       /\ sweep[w].at \in {"plan", "look", "start", "enqueue", "advance"}
       /\ sweep[w].due \in Seq([cron : Crons, row : Row]) /\ sweep[w].due # <<>>
       /\ \A i \in DOMAIN sweep[w].due : sweep[w].due[i].row.next <= now
       /\ sweep[w].at = "plan" \/ sweep[w].next > Read(w).next

(* However many sweeps hold the same due row, and however often one is abandoned and  *)
(* its occurrence driven again, one occurrence starts one run.                        *)
FiredOnce == \A o \in Occurrences : fired[o] <= 1

(* The schedule of a cron is never moved past an occurrence that neither started a    *)
(* run nor was passed over because a run of the cron was live.                        *)
NoneDropped ==
  [][\A c \in Crons :
       /\ crons[c] # NoRow /\ crons'[c] # NoRow
       /\ crons'[c].schedule = crons[c].schedule /\ crons'[c].next # crons[c].next
       => fired[<<c, crons[c].next>>] > 0 \/ <<c, crons[c].next>> \in passed]_vars

(* A cron is next fired at a minute that its own schedule means, and at none later than *)
(* the first such minute to come, whatever sweeps and registrations computed a time     *)
(* under an earlier schedule, or some minutes ago, and write it now.                    *)
ScheduleFollowed ==
  \A c \in Crons : crons[c] # NoRow =>
    /\ crons[c].next \in Meant[crons[c].schedule]
    /\ \A t \in Meant[crons[c].schedule] : now < t => crons[c].next <= t

(* A due occurrence is not stuck: the schedule moves on, or the cron is removed.      *)
MovesOn ==
  \A c \in Crons : (crons[c] # NoRow /\ crons[c].next <= now)
                     ~> (crons[c] = NoRow \/ crons[c].next > now)

(* A run the sweep created is carried to its outcome, even if the sweep was abandoned *)
(* before it queued the run.                                                          *)
FiredRunsEnd ==
  \A o \in Occurrences : fired[o] > 0 ~> \A f \in Flows : runs[o][f] \in {"absent", "ended"}
=============================================================================
