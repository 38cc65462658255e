-------------------------- MODULE CronFleetProofs --------------------------
(***************************************************************************)
(* CronFleet for every fleet, every set of crons, flows and schedules, and *)
(* every calendar: its types, that one occurrence starts one run, that no  *)
(* schedule is moved past an occurrence that was neither started nor       *)
(* passed over, and that a cron keeps to its own schedule.                 *)
(*                                                                         *)
(* None is inductive.  What connects the first ones is the run table: it   *)
(* keeps a run for every start that was counted, and none that was not,    *)
(* and a sweep that is past its start has left its mark there, or in       *)
(* passed, whoever created the run.  The last one rests on what a sweep    *)
(* holds of the schedule it read, which may no longer be the cron's.       *)
(***************************************************************************)
EXTENDS CronFleet, FiniteSetTheorems, SequenceTheorems, WellFoundedInduction, TLAPS

Item == [cron : Crons, row : Row]
Sweep == [at : {"idle", "plan", "look", "start", "enqueue", "advance"}, due : Seq(Item), next : Nat]

Sweeping == {"plan", "look", "start", "enqueue", "advance"}

(* What TypeOK says of a sweep that stands somewhere, and that it is a sweep. *)
SweepSound(s, t) ==
  s.at \in Sweeping =>
    /\ s.due # <<>> /\ \A i \in DOMAIN s.due : s.due[i].row.next <= t
    /\ s.at = "plan" \/ s.next > Head(s.due).row.next

Types ==
  /\ crons \in [Crons -> Row \cup {NoRow}] /\ boot \in [Crons -> Row \cup {NoRow}]
  /\ runs \in [Occurrences -> [Flows -> {"absent", "pending", "queued", "ended"}]]
  /\ fired \in [Occurrences -> Nat] /\ passed \subseteq Occurrences
  /\ now \in 0..MaxTime
  /\ sweep \in [Workers -> Sweep]
  /\ \A w \in Workers : sweep[w].at = "idle" => sweep[w] = Resting
  /\ \A w \in Workers : SweepSound(sweep[w], now)

(* What was counted are the runs there are: one of each flow the occurrence was started as. *)
StartedAs(o) == {f \in Flows : runs[o][f] # "absent"}
Counted == \A o \in Occurrences : fired[o] = Cardinality(StartedAs(o))

(* What a sweep that is past its start knows of the occurrence it treats. *)
Dealt(w) == fired[Treated(w)] > 0 \/ Treated(w) \in passed
Marked ==
  \A w \in Workers : /\ sweep[w].at = "enqueue" => fired[Treated(w)] > 0
                     /\ sweep[w].at = "advance" => Dealt(w)

IInv == Types /\ Counted /\ Marked

-----------------------------------------------------------------------------

LEMMA Constants ==
  /\ Definitions \subseteq Definition /\ IsFiniteSet(Crons) /\ IsFiniteSet(Flows)
  /\ DOMAIN Calendar = 0..MaxTime + 1 /\ DueLimit \in Nat /\ DueLimit > 0 /\ MaxTime \in Nat
BY CronConstants

(* A set of numbers has a first. *)
LEMMA FirstThereIs ==
  ASSUME NEW S, S \subseteq Nat, S # {}
  PROVE  FirstOf(S) \in S /\ \A y \in S : FirstOf(S) <= y
<1> DEFINE R == {ss \in Nat \X Nat : ss[1] < ss[2]}
<1>1. IsWellFoundedOn(R, Nat)
  BY NatLessThanWellFounded DEF OpToRel
<1>2. PICK x \in S : \A y \in S : ~(<<y, x>> \in R)
  BY <1>1, WFMin
<1>3. \A y \in S : x <= y
  <2> TAKE y \in S
  <2>1. x \in Nat /\ y \in Nat /\ ~(y < x)
    BY <1>2
  <2> QED BY <2>1
<1> QED BY <1>3 DEF FirstOf

(* The search for a fire time, where there is one, ends at one that is still to come. *)
LEMMA NextIsLater ==
  ASSUME NEW s \in Schedules, NEW t \in Nat, Fires(s, t)
  PROVE  NextAfter(s, t) \in Nat /\ NextAfter(s, t) > t
<1> DEFINE later == {f \in FireTimes[s] : f > t}
<1>1. FireTimes[s] \subseteq Nat
  BY Constants DEF FireTimes
<1>2. later \subseteq Nat /\ later # {}
  BY <1>1 DEF Fires
<1>3. FirstOf(later) \in later
  BY <1>2, FirstThereIs
<1> QED BY <1>2, <1>3 DEF NextAfter

-----------------------------------------------------------------------------

(* A sweep that stands somewhere treats a row, whose fire time has come. *)
LEMMA Standing ==
  ASSUME Types, NEW w \in Workers, sweep[w].at \in Sweeping
  PROVE  /\ sweep[w].due \in Seq(Item) /\ sweep[w].due # <<>>
         /\ Cron(w) \in Crons /\ Read(w) \in Row /\ Read(w).next <= now
         /\ Treated(w) \in Occurrences /\ now \in Nat
<1>1. sweep[w] \in Sweep /\ sweep[w].due # <<>> /\ now \in 0..MaxTime
  BY DEF Types, SweepSound
<1>2. sweep[w].due \in Seq(Item) /\ 1 \in DOMAIN sweep[w].due /\ Head(sweep[w].due) = sweep[w].due[1]
  BY <1>1 DEF Sweep
<1>3. Head(sweep[w].due) \in Item /\ sweep[w].due[1].row.next <= now
  BY <1>1, <1>2, HeadTailProperties DEF Types, SweepSound
<1>4. Cron(w) \in Crons /\ Read(w) \in Row /\ Read(w).next <= now
  BY <1>2, <1>3 DEF Item, Cron, Read
<1>5. Read(w).next \in 0..MaxTime
  BY <1>1, <1>4, Constants DEF Row
<1> QED BY <1>1, <1>2, <1>4, <1>5, Constants DEF Treated, Occurrences

(* The types of the sweeps, after a step that moves one of them. *)
SweepTypes ==
  /\ sweep \in [Workers -> Sweep]
  /\ \A w \in Workers : sweep[w].at = "idle" => sweep[w] = Resting
  /\ \A w \in Workers : SweepSound(sweep[w], now)
LEMMA SweepMoved ==
  ASSUME Types, NEW w \in Workers, NEW s \in Sweep, SweepSound(s, now), s.at = "idle" => s = Resting,
         sweep' = [sweep EXCEPT ![w] = s], now' = now
  PROVE  SweepTypes'
<1>1. \A u \in Workers : sweep'[u] = IF u = w THEN s ELSE sweep[u]
  BY DEF Types
<1>2. sweep' \in [Workers -> Sweep]
  BY DEF Types
<1>3. \A u \in Workers : SweepSound(sweep'[u], now')
  BY <1>1 DEF Types
<1>4. \A u \in Workers : sweep'[u].at = "idle" => sweep'[u] = Resting
  BY <1>1 DEF Types
<1> QED BY <1>2, <1>3, <1>4 DEF SweepTypes

LEMMA SweepLeft == Types => SweepTypes
BY DEF Types, SweepTypes

LEMMA RestingSound == Resting \in Sweep /\ \A t : SweepSound(Resting, t)
<1>1. <<>> \in Seq(Item) /\ 0 \in Nat
  OBVIOUS
<1> QED BY <1>1 DEF Resting, Sweep, SweepSound, Sweeping

(* A sweep goes on to another place with the row it treats. *)
LEMMA WentOn ==
  ASSUME Types, NEW w \in Workers, sweep[w].at \in Sweeping \ {"plan"}, NEW at \in Sweeping, Goto(w, at), now' = now
  PROVE  /\ SweepTypes' /\ sweep'[w].at = at
         /\ \A u \in Workers : sweep'[u].due = sweep[u].due /\ (u # w => sweep'[u] = sweep[u])
<1> DEFINE s == [sweep[w] EXCEPT !.at = at]
<1>1. sweep[w] \in Sweep /\ SweepSound(sweep[w], now)
  BY DEF Types
<1>2. s \in Sweep /\ s.at = at /\ s.due = sweep[w].due /\ s.next = sweep[w].next
  BY <1>1 DEF Sweep, Sweeping
<1>3. SweepSound(s, now)
  BY <1>1, <1>2 DEF SweepSound, Sweeping
<1>4. s.at # "idle"
  BY <1>2 DEF Sweeping
<1>5. sweep' = [sweep EXCEPT ![w] = s]
  BY DEF Goto
<1>6. SweepTypes'
  <2> HIDE DEF s
  <2> QED BY <1>2, <1>3, <1>4, <1>5, SweepMoved
<1>7. \A u \in Workers : sweep'[u] = IF u = w THEN s ELSE sweep[u]
  BY <1>5 DEF Types
<1> QED BY <1>2, <1>6, <1>7

-----------------------------------------------------------------------------

(* The types, action by action. *)
RowTypes == crons \in [Crons -> Row \cup {NoRow}] /\ boot \in [Crons -> Row \cup {NoRow}]
RunTypes ==
  /\ runs \in [Occurrences -> [Flows -> {"absent", "pending", "queued", "ended"}]]
  /\ fired \in [Occurrences -> Nat] /\ passed \subseteq Occurrences
LEMMA Parts == Types <=> RowTypes /\ RunTypes /\ now \in 0..MaxTime /\ SweepTypes
BY DEF Types, RowTypes, RunTypes, SweepTypes

LEMMA RegisterTypes ==
  ASSUME Types, NEW c \in Crons, NEW d \in Definitions, RegisterCron(c, d)
  PROVE  Types'
<1>1. d \in Definition /\ now \in Nat
  BY Constants DEF Types
<1>2. NextAfter(d.schedule, now) \in Nat
  BY <1>1, NextIsLater DEF Definition, RegisterCron
<1>3. [schedule |-> d.schedule, flow |-> d.flow, overlap |-> d.overlap, next |-> NextAfter(d.schedule, now)] \in Row
  BY <1>1, <1>2 DEF Definition, Row
<1>4. RowTypes'
  BY <1>3 DEF RegisterCron, Types, RowTypes
<1>5. RunTypes' /\ now' \in 0..MaxTime /\ SweepTypes'
  BY DEF RegisterCron, Types, RunTypes, SweepTypes
<1> QED BY <1>4, <1>5 DEF Types, RowTypes, RunTypes, SweepTypes

(* A row that is given another time is a row. *)
LEMMA Retimed == ASSUME NEW r \in Row, NEW n \in Nat PROVE [r EXCEPT !.next = n] \in Row
BY DEF Row

LEMMA UpsertedRow ==
  ASSUME NEW old \in Row \cup {NoRow}, NEW new \in Row
  PROVE  Upserted(old, new) \in Row
<1>1. old # NoRow => old.next \in Nat
  BY DEF Row
<1> QED BY <1>1, Retimed DEF Upserted

LEMMA AdvancedRow ==
  ASSUME NEW row \in Row \cup {NoRow}, NEW n \in Nat, NEW e
  PROVE  Advanced(row, e, n) \in Row \cup {NoRow}
BY Retimed DEF Advanced

(* A run that is in another state leaves the table well typed. *)
LEMMA RunMoved ==
  ASSUME Types, NEW o \in Occurrences, NEW f \in Flows, NEW status \in {"absent", "pending", "queued", "ended"},
         runs' = [runs EXCEPT ![o][f] = status]
  PROVE  runs' \in [Occurrences -> [Flows -> {"absent", "pending", "queued", "ended"}]]
<1>1. [runs[o] EXCEPT ![f] = status] \in [Flows -> {"absent", "pending", "queued", "ended"}]
  BY DEF Types
<1> QED BY <1>1 DEF Types

LEMMA UpsertTypes ==
  ASSUME Types, NEW c \in Crons, UpsertCron(c) \/ RemoveCron(c)
  PROVE  Types'
<1>1. RowTypes'
  <2>1. CASE UpsertCron(c)
    <3>1. Upserted(crons[c], boot[c]) \in Row
      BY <2>1, UpsertedRow DEF UpsertCron, Types
    <3> QED BY <2>1, <3>1 DEF UpsertCron, Types, RowTypes
  <2>2. CASE RemoveCron(c)
    BY <2>2 DEF RemoveCron, Types, RowTypes
  <2> QED BY <2>1, <2>2
<1>2. RunTypes' /\ now' \in 0..MaxTime /\ SweepTypes'
  BY DEF UpsertCron, RemoveCron, Types, RunTypes, SweepTypes
<1> QED BY <1>1, <1>2 DEF Types, RowTypes, RunTypes, SweepTypes

LEMMA DueCronsTypes ==
  ASSUME Types, NEW w \in Workers, DueCrons(w)
  PROVE  Types'
<1> DEFINE n == IF Cardinality(Due) < DueLimit THEN Cardinality(Due) ELSE DueLimit
<1>1. n \in Nat /\ n > 0
  <2>1. IsFiniteSet(Due) /\ Due # {}
    BY Constants, FS_Subset DEF Due, DueCrons
  <2>2. Cardinality(Due) \in Nat /\ Cardinality(Due) # 0
    BY <2>1, FS_CardinalityType, FS_EmptySet
  <2> QED BY <2>2, Constants
<1>2. PICK list \in [1..n -> {[cron |-> c, row |-> crons[c]] : c \in Due}] :
        sweep' = [sweep EXCEPT ![w] = [@ EXCEPT !.at = "plan", !.due = list]]
  BY DEF DueCrons
<1>3. \A i \in 1..n : list[i] \in Item /\ list[i].row.next <= now
  <2> TAKE i \in 1..n
  <2>1. PICK c \in Due : list[i] = [cron |-> c, row |-> crons[c]]
    BY <1>2
  <2>2. c \in Crons /\ crons[c] \in Row /\ crons[c].next <= now
    BY <2>1 DEF Due, Types
  <2> QED BY <2>1, <2>2 DEF Item
<1>4. list \in Seq(Item) /\ DOMAIN list = 1..n /\ list # <<>>
  <2> HIDE DEF n
  <2>1. list \in [1..n -> Item] /\ DOMAIN list = 1..n
    BY <1>2, <1>3
  <2>2. list \in Seq(Item)
    BY <1>1, <2>1
  <2> QED BY <1>1, <2>1, <2>2
<1> DEFINE s == [sweep[w] EXCEPT !.at = "plan", !.due = list]
<1>5. s \in Sweep /\ s.at = "plan" /\ s.due = list
  BY <1>4 DEF Types, Sweep
<1>6. SweepSound(s, now)
  <2> HIDE DEF n, s
  <2> QED BY <1>3, <1>4, <1>5 DEF SweepSound
<1>7. sweep' = [sweep EXCEPT ![w] = s] /\ now' = now
  BY <1>2 DEF DueCrons
<1>8. SweepTypes'
  <2> HIDE DEF s
  <2> QED BY <1>5, <1>6, <1>7, SweepMoved
<1>9. RowTypes' /\ RunTypes' /\ now' \in 0..MaxTime
  BY DEF DueCrons, Types, RowTypes, RunTypes
<1> QED BY <1>8, <1>9 DEF Types, RowTypes, RunTypes, SweepTypes

LEMMA PlanTypes ==
  ASSUME Types, NEW w \in Workers, Plan(w)
  PROVE  Types'
<1>1. sweep[w] \in Sweep /\ sweep[w].at \in Sweeping /\ SweepSound(sweep[w], now)
  BY DEF Plan, Stands, Types, Sweeping
<1>2. Read(w) \in Row /\ Read(w).next <= now /\ now \in Nat
  BY <1>1, Standing
<1>3. NextAfter(Read(w).schedule, now) \in Nat /\ NextAfter(Read(w).schedule, now) > Read(w).next
  <2>1. Read(w).schedule \in Schedules /\ Read(w).next \in Nat
    BY <1>2 DEF Row
  <2> QED BY <1>2, <2>1, NextIsLater DEF Plan
<1> DEFINE at == IF Read(w).overlap = "skip" THEN "look" ELSE "start"
           s == [sweep[w] EXCEPT !.next = NextAfter(Read(w).schedule, now), !.at = at]
<1>4. s \in Sweep /\ s.at = at /\ at \in Sweeping /\ s.due = sweep[w].due /\ s.next = NextAfter(Read(w).schedule, now)
  BY <1>1, <1>3 DEF Sweep, Sweeping
<1>5. SweepSound(s, now) /\ s.at # "idle"
  <2> HIDE DEF s
  <2> QED BY <1>1, <1>3, <1>4 DEF SweepSound, Read, Sweeping
<1>6. sweep' = [sweep EXCEPT ![w] = s] /\ now' = now
  BY DEF Plan
<1>7. SweepTypes'
  <2> HIDE DEF s
  <2> QED BY <1>4, <1>5, <1>6, SweepMoved
<1>8. RowTypes' /\ RunTypes' /\ now' \in 0..MaxTime
  BY DEF Plan, Types, RowTypes, RunTypes
<1> QED BY <1>7, <1>8 DEF Types, RowTypes, RunTypes, SweepTypes

LEMMA LookTypes ==
  ASSUME Types, NEW w \in Workers, Look(w)
  PROVE  Types'
<1>1. sweep[w].at \in Sweeping \ {"plan"} /\ now' = now
  BY DEF Look, Stands, Sweeping
<1>2. Treated(w) \in Occurrences
  BY <1>1, Standing
<1>3. SweepTypes'
  BY <1>1, WentOn DEF Look, Sweeping
<1>4. RowTypes' /\ RunTypes' /\ now' \in 0..MaxTime
  BY <1>2 DEF Look, Types, RowTypes, RunTypes
<1> QED BY <1>3, <1>4 DEF Types, RowTypes, RunTypes, SweepTypes

LEMMA StartTypes ==
  ASSUME Types, NEW w \in Workers, Start(w) \/ Enqueue(w)
  PROVE  Types'
<1>1. sweep[w].at \in Sweeping \ {"plan"} /\ now' = now
  BY DEF Start, Enqueue, Stands, Sweeping
<1>2. Treated(w) \in Occurrences /\ Read(w).flow \in Flows
  BY <1>1, Standing DEF Row
<1>3. SweepTypes'
  BY <1>1, WentOn DEF Start, Enqueue, StartedBefore, Sweeping
<1>4. RunTypes'
  <2>1. CASE Start(w) /\ Fresh(w)
    <3>1. runs' = [runs EXCEPT ![Treated(w)][Read(w).flow] = "pending"]
      BY <2>1 DEF Start
    <3>2. fired' \in [Occurrences -> Nat] /\ passed' = passed
      BY <1>2, <2>1 DEF Start, Types
    <3> QED BY <1>2, <3>1, <3>2, RunMoved DEF RunTypes, Types
  <2>2. CASE Start(w) /\ ~Fresh(w)
    BY <2>2 DEF Start, Types, RunTypes
  <2>3. CASE Enqueue(w)
    <3> DEFINE was == runs[Treated(w)][Read(w).flow]
               is == IF was = "pending" THEN "queued" ELSE was
    <3>1. is \in {"absent", "pending", "queued", "ended"}
      BY <1>2 DEF Types
    <3>2. runs' = [runs EXCEPT ![Treated(w)][Read(w).flow] = is]
      BY <2>3 DEF Enqueue
    <3>3. runs' \in [Occurrences -> [Flows -> {"absent", "pending", "queued", "ended"}]]
      <4> HIDE DEF is
      <4> QED BY <1>2, <3>1, <3>2, RunMoved
    <3> QED BY <2>3, <3>3 DEF Enqueue, Types, RunTypes
  <2> QED BY <2>1, <2>2, <2>3
<1>5. RowTypes' /\ now' \in 0..MaxTime
  BY DEF Start, Enqueue, Types, RowTypes
<1> QED BY <1>3, <1>4, <1>5 DEF Types, RowTypes, RunTypes, SweepTypes

(* What is left of a list of rows that is longer than one. *)
LEMMA RestOf ==
  ASSUME NEW s \in Seq(Item), s # <<>>, Len(s) # 1
  PROVE  /\ Tail(s) \in Seq(Item) /\ Tail(s) # <<>>
         /\ \A i \in DOMAIN Tail(s) : i + 1 \in DOMAIN s /\ Tail(s)[i] = s[i + 1]
<1>1. /\ Tail(s) \in Seq(Item) /\ Len(Tail(s)) = Len(s) - 1
      /\ \A i \in 1..Len(Tail(s)) : Tail(s)[i] = s[i + 1]
  BY HeadTailProperties
<1>2. Len(s) \in Nat /\ DOMAIN s = 1..Len(s)
  BY LenProperties
<1>3. Len(s) # 0
  BY EmptySeq
<1>4. Len(Tail(s)) \in Nat /\ Len(Tail(s)) > 0 /\ DOMAIN Tail(s) = 1..Len(Tail(s))
  <2>1. DOMAIN Tail(s) = 1..Len(Tail(s))
    BY <1>1, LenProperties
  <2> QED BY <1>1, <1>2, <1>3, <2>1
<1>5. Tail(s) # <<>>
  BY <1>1, <1>4, EmptySeq
<1> QED BY <1>1, <1>2, <1>4, <1>5

LEMMA AdvanceTypes ==
  ASSUME Types, NEW w \in Workers, Advance(w)
  PROVE  Types'
<1>1. sweep[w].at \in Sweeping /\ sweep[w] \in Sweep /\ SweepSound(sweep[w], now) /\ now' = now
  BY DEF Advance, Stands, Sweeping, Types
<1>2. sweep[w].due \in Seq(Item) /\ sweep[w].due # <<>> /\ Cron(w) \in Crons
  BY <1>1, Standing
<1>3. RowTypes'
  <2>1. crons[Cron(w)] \in Row \cup {NoRow} /\ sweep[w].next \in Nat
    BY <1>1, <1>2 DEF Types, Sweep
  <2>2. Advanced(crons[Cron(w)], Read(w).next, sweep[w].next) \in Row \cup {NoRow}
    BY <2>1, AdvancedRow
  <2> QED BY <1>2, <2>2 DEF Advance, Types, RowTypes
<1> DEFINE rest == [at |-> "plan", due |-> Tail(sweep[w].due), next |-> 0]
           s == IF Len(sweep[w].due) = 1 THEN Resting ELSE rest
<1>4. Len(sweep[w].due) # 1 => rest \in Sweep /\ SweepSound(rest, now)
  <2> SUFFICES ASSUME Len(sweep[w].due) # 1 PROVE rest \in Sweep /\ SweepSound(rest, now)
    OBVIOUS
  <2>1. /\ Tail(sweep[w].due) \in Seq(Item) /\ Tail(sweep[w].due) # <<>>
        /\ \A i \in DOMAIN Tail(sweep[w].due) :
             i + 1 \in DOMAIN sweep[w].due /\ Tail(sweep[w].due)[i] = sweep[w].due[i + 1]
    BY <1>2, RestOf
  <2>2. \A i \in DOMAIN Tail(sweep[w].due) : Tail(sweep[w].due)[i].row.next <= now
    BY <1>1, <2>1 DEF SweepSound
  <2>3. rest \in Sweep
    BY <2>1 DEF Sweep
  <2> QED BY <2>1, <2>2, <2>3 DEF SweepSound
<1>5. s \in Sweep /\ SweepSound(s, now) /\ (s.at = "idle" => s = Resting)
  BY <1>4, RestingSound
<1>6. sweep' = [sweep EXCEPT ![w] = s]
  BY DEF Advance
<1>7. SweepTypes'
  <2> HIDE DEF s
  <2> QED BY <1>1, <1>5, <1>6, SweepMoved
<1>8. RunTypes' /\ now' \in 0..MaxTime
  BY DEF Advance, Types, RunTypes
<1> QED BY <1>3, <1>7, <1>8 DEF Types, RowTypes, RunTypes, SweepTypes

LEMMA AbandonTypes ==
  ASSUME Types, NEW w \in Workers, Abandon(w)
  PROVE  Types'
<1>1. SweepTypes'
  BY RestingSound, SweepMoved DEF Abandon
<1>2. RowTypes' /\ RunTypes' /\ now' \in 0..MaxTime
  BY DEF Abandon, Types, RowTypes, RunTypes
<1> QED BY <1>1, <1>2 DEF Types, RowTypes, RunTypes, SweepTypes

LEMMA EngineTypes ==
  ASSUME Types, NEW o \in Occurrences, NEW f \in Flows, Reconcile(o, f) \/ Finish(o, f)
  PROVE  Types'
<1>1. RunTypes'
  BY RunMoved DEF Reconcile, Finish, Types, RunTypes
<1>2. RowTypes' /\ now' \in 0..MaxTime /\ SweepTypes'
  BY DEF Reconcile, Finish, Types, RowTypes, SweepTypes
<1> QED BY <1>1, <1>2 DEF Types, RowTypes, RunTypes, SweepTypes

LEMMA TickTypes == Types /\ Tick => Types'
<1> SUFFICES ASSUME Types, Tick PROVE Types'
  OBVIOUS
<1>1. now \in Nat /\ now' = now + 1 /\ now' \in 0..MaxTime
  BY Constants DEF Types, Tick
<1>2. \A w \in Workers : SweepSound(sweep'[w], now')
  <2> TAKE w \in Workers
  <2>1. sweep'[w] = sweep[w] /\ SweepSound(sweep[w], now)
    BY DEF Types, Tick
  <2> SUFFICES ASSUME sweep[w].at \in Sweeping PROVE SweepSound(sweep[w], now')
    BY <2>1 DEF SweepSound
  <2>2. \A i \in DOMAIN sweep[w].due : sweep[w].due[i].row.next \in Nat
    <3>1. sweep[w].due \in Seq(Item)
      BY Standing
    <3>2. \A i \in DOMAIN sweep[w].due : sweep[w].due[i] \in Item
      BY <3>1
    <3>3. \A x \in Item : x.row.next \in Nat
      BY DEF Item, Row
    <3> QED BY <3>2, <3>3
  <2> QED BY <1>1, <2>1, <2>2 DEF SweepSound
<1>3. SweepTypes'
  BY <1>2 DEF Types, SweepTypes, Tick
<1>4. RowTypes' /\ RunTypes'
  BY DEF Tick, Types, RowTypes, RunTypes
<1> QED BY <1>1, <1>3, <1>4 DEF Types, RowTypes, RunTypes, SweepTypes

LEMMA TypesStep == Types /\ [Next]_vars => Types'
<1> SUFFICES ASSUME Types, [Next]_vars PROVE Types'
  OBVIOUS
<1>1. ASSUME NEW c \in Crons, NEW d \in Definitions, RegisterCron(c, d) PROVE Types'
  BY <1>1, RegisterTypes
<1>2. ASSUME NEW c \in Crons, UpsertCron(c) \/ RemoveCron(c) PROVE Types'
  BY <1>2, UpsertTypes
<1>3. ASSUME NEW w \in Workers, DueCrons(w) \/ SweepOn(w) \/ Abandon(w) PROVE Types'
  BY <1>3, DueCronsTypes, PlanTypes, LookTypes, StartTypes, AdvanceTypes, AbandonTypes DEF SweepOn
<1>4. ASSUME NEW o \in Occurrences, NEW f \in Flows, Reconcile(o, f) \/ Finish(o, f) PROVE Types'
  BY <1>4, EngineTypes
<1>5. CASE UNCHANGED vars
  BY <1>5 DEF vars, Types
<1> QED BY <1>1, <1>2, <1>3, <1>4, <1>5, TickTypes DEF Next

-----------------------------------------------------------------------------

LEMMA StartedFinite == \A o : IsFiniteSet(StartedAs(o))
BY Constants, FS_Subset DEF StartedAs

(* A run that is there keeps its occurrence counted, whoever started it. *)
LEMMA Fired ==
  ASSUME Types, Counted, NEW o \in Occurrences, NEW f \in Flows, runs[o][f] # "absent"
  PROVE  fired[o] > 0
<1>1. StartedAs(o) # {} /\ IsFiniteSet(StartedAs(o))
  BY StartedFinite DEF StartedAs
<1>2. Cardinality(StartedAs(o)) # 0 /\ Cardinality(StartedAs(o)) \in Nat
  BY <1>1, FS_EmptySet, FS_CardinalityType
<1> QED BY <1>2 DEF Counted

(* The steps that leave the table of runs as it is, but for the state of one that is there. *)
LEMMA CountLeft ==
  ASSUME Types, Counted, fired' = fired,
         \A o \in Occurrences, f \in Flows : runs'[o][f] = "absent" <=> runs[o][f] = "absent"
  PROVE  Counted'
<1>1. \A o \in Occurrences : StartedAs(o)' = StartedAs(o)
  BY DEF StartedAs
<1> QED BY <1>1 DEF Counted

(* A start that found no run of its flow is counted, and is the run it counts. *)
LEMMA StartCounted ==
  ASSUME Types, Counted, NEW o \in Occurrences, NEW f \in Flows, runs[o][f] = "absent",
         runs' = [runs EXCEPT ![o][f] = "pending"], fired' = [fired EXCEPT ![o] = @ + 1]
  PROVE  Counted'
<1>1. runs[o] \in [Flows -> {"absent", "pending", "queued", "ended"}]
  BY DEF Types
<1>2. runs'[o] = [runs[o] EXCEPT ![f] = "pending"] /\ fired'[o] = fired[o] + 1
  BY DEF Types
<1>3. \A p \in Occurrences \ {o} : runs'[p] = runs[p] /\ fired'[p] = fired[p]
  BY DEF Types
<1>4. StartedAs(o)' = StartedAs(o) \cup {f} /\ f \notin StartedAs(o)
  BY <1>1, <1>2 DEF StartedAs
<1>5. Cardinality(StartedAs(o)') = Cardinality(StartedAs(o)) + 1
  BY <1>4, StartedFinite, FS_AddElement
<1>6. fired'[o] = Cardinality(StartedAs(o)')
  BY <1>2, <1>5 DEF Counted
<1>7. \A p \in Occurrences \ {o} : StartedAs(p)' = StartedAs(p)
  BY <1>3 DEF StartedAs
<1>8. \A p \in Occurrences \ {o} : fired'[p] = Cardinality(StartedAs(p)')
  BY <1>3, <1>7 DEF Counted
<1> QED BY <1>6, <1>8 DEF Counted

LEMMA StartCounts ==
  ASSUME Types, Counted, NEW w \in Workers, Start(w)
  PROVE  Counted'
<1>1. Treated(w) \in Occurrences /\ Read(w).flow \in Flows
  BY Standing DEF Row, Start, Stands, Sweeping
<1>2. CASE ~Fresh(w)
  BY <1>2, CountLeft DEF Start
<1>3. CASE Fresh(w)
  <2>1. PICK o \in Occurrences, f \in Flows : o = Treated(w) /\ f = Read(w).flow
    BY <1>1
  <2>2. /\ runs[o][f] = "absent"
        /\ runs' = [runs EXCEPT ![o][f] = "pending"] /\ fired' = [fired EXCEPT ![o] = @ + 1]
    BY <1>3, <2>1 DEF Start, Fresh
  <2> QED BY <2>2, StartCounted
<1> QED BY <1>2, <1>3

LEMMA CountedStep == Types /\ Counted /\ [Next]_vars => Counted'
<1> SUFFICES ASSUME Types, Counted, [Next]_vars PROVE Counted'
  OBVIOUS
<1>1. ASSUME runs' = runs, fired' = fired PROVE Counted'
  BY <1>1, CountLeft
<1>2. ASSUME NEW c \in Crons, NEW d \in Definitions, RegisterCron(c, d) \/ UpsertCron(c) \/ RemoveCron(c)
      PROVE  Counted'
  BY <1>1, <1>2 DEF RegisterCron, UpsertCron, RemoveCron
<1>3. ASSUME NEW c \in Crons, UpsertCron(c) \/ RemoveCron(c) PROVE Counted'
  BY <1>1, <1>3 DEF UpsertCron, RemoveCron
<1>4. ASSUME NEW w \in Workers, DueCrons(w) \/ Plan(w) \/ Look(w) \/ Advance(w) \/ Abandon(w) PROVE Counted'
  BY <1>1, <1>4 DEF DueCrons, Plan, Look, Advance, Abandon
<1>5. ASSUME NEW w \in Workers, Start(w) PROVE Counted'
  BY <1>5, StartCounts
<1>6. ASSUME NEW w \in Workers, Enqueue(w) PROVE Counted'
  <2>1. Treated(w) \in Occurrences /\ Read(w).flow \in Flows
    BY <1>6, Standing DEF Row, Enqueue, Stands, Sweeping
  <2>2. \A o \in Occurrences, f \in Flows : runs'[o][f] = "absent" <=> runs[o][f] = "absent"
    BY <1>6, <2>1 DEF Enqueue, Types
  <2> QED BY <1>6, <2>2, CountLeft DEF Enqueue
<1>7. ASSUME NEW o \in Occurrences, NEW f \in Flows, Reconcile(o, f) \/ Finish(o, f) PROVE Counted'
  <2>1. \A p \in Occurrences, g \in Flows : runs'[p][g] = "absent" <=> runs[p][g] = "absent"
    BY <1>7 DEF Reconcile, Finish, Orphaned, Types
  <2> QED BY <1>7, <2>1, CountLeft DEF Reconcile, Finish
<1>8. CASE Tick \/ UNCHANGED vars
  BY <1>1, <1>8 DEF Tick, vars
<1> QED BY <1>2, <1>3, <1>4, <1>5, <1>6, <1>7, <1>8 DEF Next, SweepOn

-----------------------------------------------------------------------------

(* Nothing that was fired or passed over is forgotten. *)
Grown ==
  passed \subseteq passed' /\ \A o \in Occurrences : fired[o] > 0 => fired'[o] > 0

(* A sweep that does not move keeps its mark, and so does one that only goes on. *)
LEMMA MarkKept ==
  ASSUME Types, Marked, Grown, NEW u \in Workers, sweep'[u].due = sweep[u].due,
         sweep'[u].at = sweep[u].at
  PROVE  /\ sweep'[u].at = "enqueue" => fired'[Treated(u)'] > 0
         /\ sweep'[u].at = "advance" => Dealt(u)'
<1>1. Treated(u)' = Treated(u)
  BY DEF Treated, Cron, Read
<1>2. sweep[u].at \in Sweeping => Treated(u) \in Occurrences
  BY Standing
<1> QED BY <1>1, <1>2 DEF Marked, Dealt, Grown, Sweeping

(* So much for those that do not move: what is left is the one that does. *)
LEMMA MarksKept ==
  ASSUME Types, Marked, Grown, NEW w \in Workers,
         \A u \in Workers \ {w} : sweep'[u] = sweep[u],
         sweep'[w].at = "enqueue" => fired'[Treated(w)'] > 0,
         sweep'[w].at = "advance" => Dealt(w)'
  PROVE  Marked'
<1>1. \A u \in Workers \ {w} : /\ sweep'[u].at = "enqueue" => fired'[Treated(u)'] > 0
                               /\ sweep'[u].at = "advance" => Dealt(u)'
  BY MarkKept
<1> QED BY <1>1 DEF Marked

LEMMA LookMarks ==
  ASSUME IInv, NEW w \in Workers, Look(w)
  PROVE  Marked'
<1>1. Types /\ Marked /\ sweep[w].at \in Sweeping \ {"plan"} /\ now' = now
  BY DEF IInv, Look, Stands, Sweeping
<1>2. \A u \in Workers : sweep'[u].due = sweep[u].due /\ (u # w => sweep'[u] = sweep[u])
  BY <1>1, WentOn DEF Look, Sweeping
<1>3. Treated(w)' = Treated(w)
  BY <1>2 DEF Treated, Cron, Read
<1>4. Grown
  BY DEF Look, Grown
<1>5. CASE Live(Cron(w)) = {}
  <2>1. sweep'[w].at = "start"
    BY <1>1, <1>5, WentOn DEF Look, Sweeping
  <2> QED BY <1>1, <1>2, <1>4, <2>1, MarksKept
<1>6. CASE Live(Cron(w)) # {}
  <2>1. sweep'[w].at = "advance" /\ Treated(w) \in passed'
    BY <1>1, <1>6, WentOn DEF Look, Sweeping
  <2> QED BY <1>1, <1>2, <1>3, <1>4, <2>1, MarksKept DEF Dealt
<1> QED BY <1>5, <1>6

LEMMA StartMarks ==
  ASSUME IInv, NEW w \in Workers, Start(w)
  PROVE  Marked'
<1>1. Types /\ Counted /\ Marked /\ sweep[w].at \in Sweeping \ {"plan"} /\ now' = now
  BY DEF IInv, Start, Stands, Sweeping
<1>2. \A u \in Workers : sweep'[u].due = sweep[u].due /\ (u # w => sweep'[u] = sweep[u])
  BY <1>1, WentOn DEF Start, StartedBefore, Sweeping
<1>3. Treated(w)' = Treated(w) /\ Treated(w) \in Occurrences /\ Read(w).flow \in Flows
  BY <1>1, <1>2, Standing DEF Treated, Cron, Read, Row
<1>4. fired'[Treated(w)] > 0 /\ Grown
  <2>1. CASE Fresh(w)
    <3>1. \A o \in Occurrences : fired[o] \in Nat /\ fired'[o] = IF o = Treated(w) THEN fired[o] + 1 ELSE fired[o]
      BY <1>1, <2>1 DEF Start, Types
    <3> QED BY <1>3, <3>1 DEF Start, Grown
  <2>2. CASE ~Fresh(w)
    <3>1. fired[Treated(w)] > 0
      BY <1>1, <1>3, <2>2, Fired DEF Fresh
    <3> QED BY <2>2, <3>1 DEF Start, Grown
  <2> QED BY <2>1, <2>2
<1> QED BY <1>1, <1>2, <1>3, <1>4, MarksKept DEF Dealt

LEMMA EnqueueMarks ==
  ASSUME IInv, NEW w \in Workers, Enqueue(w)
  PROVE  Marked'
<1>1. Types /\ Marked /\ sweep[w].at = "enqueue" /\ sweep[w].at \in Sweeping \ {"plan"} /\ now' = now
  BY DEF IInv, Enqueue, Stands, Sweeping
<1>2. \A u \in Workers : sweep'[u].due = sweep[u].due /\ (u # w => sweep'[u] = sweep[u])
  BY <1>1, WentOn DEF Enqueue, Sweeping
<1>3. Treated(w)' = Treated(w)
  BY <1>2 DEF Treated, Cron, Read
<1>4. Grown /\ fired'[Treated(w)] > 0
  BY <1>1 DEF Enqueue, Grown, Marked
<1> QED BY <1>1, <1>2, <1>3, <1>4, MarksKept DEF Dealt

LEMMA OtherMarks ==
  ASSUME IInv, NEW w \in Workers, DueCrons(w) \/ Plan(w) \/ Advance(w) \/ Abandon(w)
  PROVE  Marked'
<1>1. Types /\ Marked /\ fired' = fired /\ passed' = passed
  BY DEF IInv, DueCrons, Plan, Advance, Abandon
<1>2. \A u \in Workers \ {w} : sweep'[u] = sweep[u]
  BY <1>1 DEF DueCrons, Plan, Advance, Abandon, Types
<1>3. sweep'[w].at \in {"idle", "plan", "look", "start"}
  <2>1. sweep[w] \in Sweep /\ w \in DOMAIN sweep
    BY <1>1 DEF Types
  <2>2. CASE DueCrons(w)
    BY <2>1, <2>2 DEF DueCrons, Sweep
  <2>3. CASE Plan(w)
    BY <2>1, <2>3 DEF Plan, Sweep
  <2>4. CASE Advance(w) \/ Abandon(w)
    BY <2>1, <2>4 DEF Advance, Abandon, Resting
  <2> QED BY <2>2, <2>3, <2>4
<1>4. Grown
  BY <1>1 DEF Grown
<1> QED BY <1>1, <1>2, <1>3, <1>4, MarksKept

LEMMA MarkedStep == IInv /\ [Next]_vars => Marked'
<1> SUFFICES ASSUME IInv, [Next]_vars PROVE Marked'
  OBVIOUS
<1>1. ASSUME sweep' = sweep, fired' = fired, passed' = passed PROVE Marked'
  <2>1. Types /\ Marked /\ Grown
    BY <1>1 DEF IInv, Grown
  <2> QED BY <1>1, <2>1, MarkKept DEF Marked
<1>2. ASSUME NEW c \in Crons, NEW d \in Definitions, RegisterCron(c, d) PROVE Marked'
  BY <1>1, <1>2 DEF RegisterCron
<1>3. ASSUME NEW c \in Crons, UpsertCron(c) \/ RemoveCron(c) PROVE Marked'
  BY <1>1, <1>3 DEF UpsertCron, RemoveCron
<1>4. ASSUME NEW w \in Workers, DueCrons(w) \/ SweepOn(w) \/ Abandon(w) PROVE Marked'
  BY <1>4, LookMarks, StartMarks, EnqueueMarks, OtherMarks DEF SweepOn
<1>5. ASSUME NEW o \in Occurrences, NEW f \in Flows, Reconcile(o, f) \/ Finish(o, f) PROVE Marked'
  BY <1>1, <1>5 DEF Reconcile, Finish
<1>6. CASE Tick \/ UNCHANGED vars
  BY <1>1, <1>6 DEF Tick, vars
<1> QED BY <1>2, <1>3, <1>4, <1>5, <1>6 DEF Next

LEMMA InitHolds == Init => IInv
<1> SUFFICES ASSUME Init PROVE IInv
  OBVIOUS
<1>1. Types
  BY Constants, RestingSound DEF Init, Types, Resting
<1>2. Counted
  <2>1. \A o \in Occurrences : StartedAs(o) = {} /\ fired[o] = 0
    BY DEF Init, StartedAs
  <2> QED BY <2>1, FS_EmptySet DEF Counted
<1>3. Marked
  BY DEF Init, Marked, Resting
<1> QED BY <1>1, <1>2, <1>3 DEF IInv

-----------------------------------------------------------------------------

(* The three facts hold throughout. *)
THEOREM FleetInductive == Spec => []IInv
<1>1. IInv /\ [Next]_vars => IInv'
  BY TypesStep, CountedStep, MarkedStep DEF IInv
<1> QED BY InitHolds, <1>1, PTL DEF Spec

(* Rows, runs and sweeps keep their types; a sweep past its plan looks beyond the row it treats. *)
THEOREM FleetTypeCorrect == Spec => []TypeOK
<1>1. IInv => TypeOK
  <2> SUFFICES ASSUME Types PROVE TypeOK
    BY DEF IInv
  <2>1. ASSUME NEW w \in Workers, sweep[w] # Resting
        PROVE  /\ sweep[w].at \in Sweeping
               /\ sweep[w].due \in Seq(Item) /\ sweep[w].due # <<>>
               /\ \A i \in DOMAIN sweep[w].due : sweep[w].due[i].row.next <= now
               /\ sweep[w].at = "plan" \/ sweep[w].next > Read(w).next
    BY <2>1 DEF Types, Sweep, SweepSound, Sweeping, Read
  <2> QED BY <2>1 DEF Types, TypeOK, Sweeping, Item
<1> QED BY FleetInductive, <1>1, PTL

(* An occurrence is started at most once as each flow, version included (schedule.ts:   *)
(* the idempotency key names the occurrence), however many sweeps hold its row.         *)
THEOREM OncePerFlow == Spec => [](\A o \in Occurrences : fired[o] <= Cardinality(Flows))
<1>1. IInv => \A o \in Occurrences : fired[o] <= Cardinality(Flows)
  BY Constants, FS_Subset DEF IInv, Counted, StartedAs
<1> QED BY FleetInductive, <1>1, PTL

(* So that where a cron's flow keeps its version, an occurrence starts one run. *)
THEOREM FiresOnce == ASSUME Cardinality(Flows) = 1 PROVE Spec => []FiredOnce
<1>1. (\A o \in Occurrences : fired[o] <= Cardinality(Flows)) => FiredOnce
  BY DEF FiredOnce
<1> QED BY OncePerFlow, <1>1, PTL

(* A step that moves a schedule without changing it is the advance of a sweep that has   *)
(* dealt with the occurrence it moves past.                                              *)
THEOREM NoneIsDropped == Spec => NoneDropped
<1> DEFINE Moves(c) == /\ crons[c] # NoRow /\ crons'[c] # NoRow
                       /\ crons'[c].schedule = crons[c].schedule /\ crons'[c].next # crons[c].next
           Past(c) == fired[<<c, crons[c].next>>] > 0 \/ <<c, crons[c].next>> \in passed
<1>1. ASSUME IInv, [Next]_vars, NEW c \in Crons, Moves(c) PROVE Past(c)
  <2>1. Types /\ Marked
    BY <1>1 DEF IInv
  <2>2. crons' # crons
    BY <1>1
  <2>3. ASSUME NEW d \in Crons, UpsertCron(d) PROVE FALSE
    <3>1. crons'[c] = IF c = d THEN Upserted(crons[c], boot[c]) ELSE crons[c]
      BY <2>1, <2>3 DEF UpsertCron, Types
    <3>2. boot[c] \in Row \cup {NoRow} /\ (c = d => boot[c] # NoRow)
      BY <2>1, <2>3 DEF UpsertCron, Types
    <3> QED BY <1>1, <3>1, <3>2 DEF Upserted, Row
  <2>4. ASSUME NEW d \in Crons, RemoveCron(d) PROVE FALSE
    BY <1>1, <2>1, <2>4 DEF RemoveCron, Types
  <2>5. ASSUME NEW w \in Workers, Advance(w) PROVE Past(c)
    <3>1. Dealt(w) /\ Cron(w) \in Crons
      BY <2>1, <2>5, Standing DEF Advance, Stands, Marked, Sweeping
    <3>2. crons'[c] = IF c = Cron(w) THEN Advanced(crons[c], Read(w).next, sweep[w].next) ELSE crons[c]
      BY <2>1, <2>5, <3>1 DEF Advance, Types
    <3>3. c = Cron(w) /\ crons[c].next = Read(w).next
      BY <1>1, <3>2 DEF Advanced
    <3> QED BY <3>1, <3>3 DEF Dealt, Treated
  <2> QED BY <1>1, <2>2, <2>3, <2>4, <2>5
       DEF Next, SweepOn, RegisterCron, DueCrons, Plan, Look, Start, Enqueue, Abandon, Reconcile, Finish, Tick, vars
<1>2. IInv /\ [Next]_vars => [\A c \in Crons : Moves(c) => Past(c)]_vars
  BY <1>1
<1> QED BY FleetInductive, <1>2, PTL DEF Spec, NoneDropped

-----------------------------------------------------------------------------

(* A row as a registration wrote it or an advance left it: its schedule parses and fires *)
(* at its time, and at no earlier one that is still to come.                             *)
Scheduled(r) == r.schedule \in Accepted /\ r.next \in FireTimes[r.schedule]
Early(schedule, next, t) == \A f \in FireTimes[schedule] : t < f => next <= f
RowSound(r, t) == r # NoRow => Scheduled(r) /\ Early(r.schedule, r.next, t)

(* A sweep holds such rows, and a time of the schedule of the one it treats. *)
Bound(s) == Head(s.due).row.schedule
SweepTimed(s, t) ==
  /\ s.at \in Sweeping => \A i \in DOMAIN s.due : Scheduled(s.due[i].row)
  /\ s.at \in Sweeping \ {"plan"} => s.next \in FireTimes[Bound(s)] /\ Early(Bound(s), s.next, t)

RowsPunctual == \A c \in Crons : RowSound(crons[c], now) /\ RowSound(boot[c], now)
SweepsPunctual == \A w \in Workers : SweepTimed(sweep[w], now)
Punctual == RowsPunctual /\ SweepsPunctual

LEMMA NextIsFirst ==
  ASSUME NEW s \in Schedules, NEW t \in Nat, Fires(s, t)
  PROVE  NextAfter(s, t) \in FireTimes[s] /\ Early(s, NextAfter(s, t), t)
<1> DEFINE later == {f \in FireTimes[s] : f > t}
<1>1. FireTimes[s] \subseteq Nat
  BY Constants DEF FireTimes
<1>2. later \subseteq Nat /\ later # {}
  BY <1>1 DEF Fires
<1>3. FirstOf(later) \in later /\ \A f \in later : FirstOf(later) <= f
  BY <1>2, FirstThereIs
<1>4. \A f \in FireTimes[s] : t < f => f \in later
  BY <1>1
<1> QED BY <1>3, <1>4 DEF NextAfter, Early

LEMMA TimesAreNumbers == ASSUME NEW s \in Schedules PROVE FireTimes[s] \subseteq Nat
BY Constants DEF FireTimes

(* The clock only takes away from what is still to come. *)
LEMMA StaysEarly ==
  ASSUME NEW s \in Schedules, NEW n, NEW t \in Nat, NEW u \in Nat, t <= u, Early(s, n, t)
  PROVE  Early(s, n, u)
BY TimesAreNumbers DEF Early

(* What a registration writes: the time it computed, or the one it found. *)
LEMMA UpsertSound ==
  ASSUME NEW old \in Row \cup {NoRow}, NEW new \in Row, NEW t, RowSound(old, t), RowSound(new, t), new # NoRow
  PROVE  RowSound(Upserted(old, new), t)
<1>1. CASE old # NoRow /\ old.schedule = new.schedule
  <2>1. Upserted(old, new).schedule = old.schedule /\ Upserted(old, new).next = old.next
    BY <1>1 DEF Upserted, Row
  <2> QED BY <1>1, <2>1 DEF RowSound, Scheduled
<1>2. CASE ~(old # NoRow /\ old.schedule = new.schedule)
  BY <1>2 DEF Upserted
<1> QED BY <1>1, <1>2

(* An advance finds the fire time it expects only in a row of the schedule it read,      *)
(* because no other one fires at that minute.                                            *)
LEMMA AdvanceSound ==
  ASSUME Apart, NEW row \in Row \cup {NoRow}, NEW read \in Row, NEW t \in 0..MaxTime, NEW n \in FireTimes[read.schedule],
         RowSound(row, t), Scheduled(read), read.next <= t, Early(read.schedule, n, t)
  PROVE  RowSound(Advanced(row, read.next, n), t)
<1>1. CASE row # NoRow /\ row.next = read.next
  <2>1. row \in Row /\ Scheduled(row) /\ read.next \in 0..MaxTime
    BY <1>1, Constants DEF RowSound, Row
  <2>2. row.schedule = read.schedule
    BY <1>1, <2>1 DEF Apart, Scheduled
  <2>3. Advanced(row, read.next, n).schedule = row.schedule /\ Advanced(row, read.next, n).next = n
    BY <1>1, <2>1 DEF Advanced, Row
  <2> QED BY <2>1, <2>2, <2>3 DEF RowSound, Scheduled
<1>2. CASE ~(row # NoRow /\ row.next = read.next)
  BY <1>2 DEF Advanced
<1> QED BY <1>1, <1>2

LEMMA RegisterPunctual ==
  ASSUME Types, Punctual, NEW c \in Crons, NEW d \in Definitions, RegisterCron(c, d)
  PROVE  Punctual'
<1>1. d \in Definition /\ now \in Nat /\ d.schedule \in Schedules
  BY Constants DEF Types, Definition
<1>2. d.schedule \in Accepted /\ Fires(d.schedule, now)
  BY DEF RegisterCron, Accepted
<1> DEFINE r == [schedule |-> d.schedule, flow |-> d.flow, overlap |-> d.overlap,
                 next |-> NextAfter(d.schedule, now)]
<1>3. RowSound(r, now)
  BY <1>1, <1>2, NextIsFirst DEF RowSound, Scheduled
<1>4. boot' = [boot EXCEPT ![c] = r] /\ crons' = crons /\ now' = now /\ sweep' = sweep
  BY DEF RegisterCron
<1> HIDE DEF r
<1>5. RowsPunctual'
  BY <1>3, <1>4 DEF Types, Punctual, RowsPunctual
<1> QED BY <1>4, <1>5 DEF Punctual, SweepsPunctual

LEMMA UpsertPunctual ==
  ASSUME Types, Punctual, NEW c \in Crons, UpsertCron(c) \/ RemoveCron(c)
  PROVE  Punctual'
<1>1. sweep' = sweep /\ now' = now
  BY DEF UpsertCron, RemoveCron
<1>2. RowSound(NoRow, now)
  BY DEF RowSound
<1>3. CASE UpsertCron(c)
  <2>1. boot[c] \in Row /\ boot[c] # NoRow /\ crons[c] \in Row \cup {NoRow}
    BY <1>3 DEF UpsertCron, Types
  <2>2. RowSound(Upserted(crons[c], boot[c]), now)
    BY <2>1, UpsertSound DEF Punctual, RowsPunctual
  <2> QED BY <1>1, <1>2, <1>3, <2>2 DEF UpsertCron, Types, Punctual, RowsPunctual, SweepsPunctual
<1>4. CASE RemoveCron(c)
  BY <1>1, <1>2, <1>4 DEF RemoveCron, Types, Punctual, RowsPunctual, SweepsPunctual
<1> QED BY <1>3, <1>4

(* A step that moves one sweep and no row. *)
LEMMA SweepStaysTimed ==
  ASSUME Types, Punctual, NEW w \in Workers, NEW s, SweepTimed(s, now),
         sweep' = [sweep EXCEPT ![w] = s], crons' = crons, boot' = boot, now' = now
  PROVE  Punctual'
<1>1. \A u \in Workers : sweep'[u] = IF u = w THEN s ELSE sweep[u]
  BY DEF Types
<1>2. SweepsPunctual'
  BY <1>1 DEF Punctual, SweepsPunctual
<1> QED BY <1>2 DEF Punctual, RowsPunctual

LEMMA RestingTimed == \A t : SweepTimed(Resting, t)
BY DEF SweepTimed, Resting, Sweeping

LEMMA DueCronsPunctual ==
  ASSUME Types, Punctual, NEW w \in Workers, DueCrons(w)
  PROVE  Punctual'
<1> DEFINE n == IF Cardinality(Due) < DueLimit THEN Cardinality(Due) ELSE DueLimit
<1>1. PICK list \in [1..n -> {[cron |-> c, row |-> crons[c]] : c \in Due}] :
        sweep' = [sweep EXCEPT ![w] = [@ EXCEPT !.at = "plan", !.due = list]]
  BY DEF DueCrons
<1>2. \A i \in DOMAIN list : Scheduled(list[i].row)
  <2> TAKE i \in DOMAIN list
  <2>1. PICK c \in Due : list[i] = [cron |-> c, row |-> crons[c]]
    BY <1>1
  <2> QED BY <2>1 DEF Due, Punctual, RowsPunctual, RowSound
<1> DEFINE s == [sweep[w] EXCEPT !.at = "plan", !.due = list]
<1>3. s.at = "plan" /\ s.due = list
  BY DEF Types, Sweep
<1>4. SweepTimed(s, now)
  <2> HIDE DEF s
  <2> QED BY <1>2, <1>3 DEF SweepTimed
<1>5. sweep' = [sweep EXCEPT ![w] = s] /\ crons' = crons /\ boot' = boot /\ now' = now
  BY <1>1 DEF DueCrons
<1> HIDE DEF s
<1> QED BY <1>4, <1>5, SweepStaysTimed

LEMMA PlanPunctual ==
  ASSUME Types, Punctual, NEW w \in Workers, Plan(w)
  PROVE  Punctual'
<1>1. sweep[w] \in Sweep /\ sweep[w].at \in Sweeping
  BY DEF Plan, Stands, Types, Sweeping
<1>2. Read(w) \in Row /\ now \in Nat /\ Read(w).schedule \in Schedules
  BY <1>1, Standing DEF Row
<1> DEFINE at == IF Read(w).overlap = "skip" THEN "look" ELSE "start"
           s == [sweep[w] EXCEPT !.next = NextAfter(Read(w).schedule, now), !.at = at]
<1>3. s.due = sweep[w].due /\ s.next = NextAfter(Read(w).schedule, now)
  BY <1>1 DEF Sweep
<1>4. Bound(s) = Read(w).schedule
  BY <1>3 DEF Bound, Read
<1>5. s.next \in FireTimes[Bound(s)] /\ Early(Bound(s), s.next, now)
  BY <1>2, <1>3, <1>4, NextIsFirst DEF Plan
<1>6. \A i \in DOMAIN s.due : Scheduled(s.due[i].row)
  BY <1>1, <1>3 DEF Punctual, SweepsPunctual, SweepTimed
<1>7. sweep' = [sweep EXCEPT ![w] = s] /\ crons' = crons /\ boot' = boot /\ now' = now
  BY DEF Plan
<1> HIDE DEF s
<1>8. SweepTimed(s, now)
  BY <1>5, <1>6 DEF SweepTimed
<1> QED BY <1>7, <1>8, SweepStaysTimed

LEMMA GoesOnPunctual ==
  ASSUME Types, Punctual, NEW w \in Workers, Look(w) \/ Start(w) \/ Enqueue(w)
  PROVE  Punctual'
<1>1. sweep[w] \in Sweep /\ sweep[w].at \in Sweeping \ {"plan"}
  BY DEF Look, Start, Enqueue, Stands, Types, Sweeping
<1>2. PICK at \in Sweeping : Goto(w, at)
  BY DEF Look, Start, Enqueue, StartedBefore, Sweeping
<1> DEFINE s == [sweep[w] EXCEPT !.at = at]
<1>3. s.due = sweep[w].due /\ s.next = sweep[w].next
  BY <1>1 DEF Sweep
<1>4. SweepTimed(sweep[w], now)
  BY DEF Punctual, SweepsPunctual
<1>5. sweep' = [sweep EXCEPT ![w] = s] /\ crons' = crons /\ boot' = boot /\ now' = now
  BY <1>2 DEF Goto, Look, Start, Enqueue
<1> HIDE DEF s
<1>6. SweepTimed(s, now)
  BY <1>1, <1>3, <1>4 DEF SweepTimed, Bound
<1> QED BY <1>5, <1>6, SweepStaysTimed

LEMMA AdvancePunctual ==
  ASSUME Apart, Types, Punctual, NEW w \in Workers, Advance(w)
  PROVE  Punctual'
<1>1. sweep[w].at \in Sweeping \ {"plan"} /\ now' = now /\ boot' = boot /\ now \in 0..MaxTime
  BY DEF Advance, Stands, Sweeping, Types
<1>2. /\ sweep[w].due \in Seq(Item) /\ sweep[w].due # <<>> /\ Cron(w) \in Crons
      /\ Read(w) \in Row /\ Read(w).next <= now
  BY <1>1, Standing
<1>3. SweepTimed(sweep[w], now)
  BY DEF Punctual, SweepsPunctual
<1>4. Bound(sweep[w]) = Read(w).schedule /\ Scheduled(Read(w))
  <2>1. 1 \in DOMAIN sweep[w].due /\ Head(sweep[w].due) = sweep[w].due[1]
    BY <1>2
  <2> QED BY <1>1, <1>3, <2>1 DEF SweepTimed, Bound, Read
<1>5. RowsPunctual'
  <2>1. RowSound(crons[Cron(w)], now) /\ crons[Cron(w)] \in Row \cup {NoRow}
    BY <1>2 DEF Punctual, RowsPunctual, Types
  <2>2. sweep[w].next \in FireTimes[Read(w).schedule] /\ Early(Read(w).schedule, sweep[w].next, now)
    BY <1>1, <1>3, <1>4 DEF SweepTimed
  <2>3. RowSound(Advanced(crons[Cron(w)], Read(w).next, sweep[w].next), now)
    BY <1>1, <1>2, <1>4, <2>1, <2>2, AdvanceSound
  <2> QED BY <1>1, <1>2, <2>3 DEF Advance, Types, Punctual, RowsPunctual
<1> DEFINE rest == [at |-> "plan", due |-> Tail(sweep[w].due), next |-> 0]
           s == IF Len(sweep[w].due) = 1 THEN Resting ELSE rest
<1>6. SweepTimed(s, now)
  <2>1. CASE Len(sweep[w].due) = 1
    BY <2>1, RestingTimed
  <2>2. CASE Len(sweep[w].due) # 1
    <3>1. \A i \in DOMAIN Tail(sweep[w].due) :
            i + 1 \in DOMAIN sweep[w].due /\ Tail(sweep[w].due)[i] = sweep[w].due[i + 1]
      BY <1>2, <2>2, RestOf
    <3>2. \A i \in DOMAIN Tail(sweep[w].due) : Scheduled(Tail(sweep[w].due)[i].row)
      BY <1>1, <1>3, <3>1 DEF SweepTimed
    <3> QED BY <2>2, <3>2 DEF SweepTimed
  <2> QED BY <2>1, <2>2
<1>7. \A u \in Workers : sweep'[u] = IF u = w THEN s ELSE sweep[u]
  BY DEF Advance, Types
<1> HIDE DEF s
<1>8. SweepsPunctual'
  BY <1>1, <1>6, <1>7 DEF Punctual, SweepsPunctual
<1> QED BY <1>5, <1>8 DEF Punctual

LEMMA TickPunctual == Types /\ Punctual /\ Tick => Punctual'
<1> SUFFICES ASSUME Types, Punctual, Tick PROVE Punctual'
  OBVIOUS
<1>1. now \in Nat /\ now' \in Nat /\ now <= now'
  BY Constants DEF Types, Tick
<1>2. crons' = crons /\ boot' = boot /\ sweep' = sweep
  BY DEF Tick
<1>3. ASSUME NEW r \in Row \cup {NoRow}, RowSound(r, now) PROVE RowSound(r, now')
  BY <1>1, <1>3, StaysEarly DEF RowSound, Row
<1>4. ASSUME NEW w \in Workers PROVE SweepTimed(sweep[w], now')
  <2>1. SweepTimed(sweep[w], now)
    BY DEF Punctual, SweepsPunctual
  <2>2. sweep[w].at \in Sweeping => Bound(sweep[w]) \in Schedules
    BY Standing DEF Bound, Read, Row
  <2> QED BY <1>1, <2>1, <2>2, StaysEarly DEF SweepTimed
<1> QED BY <1>2, <1>3, <1>4 DEF Types, Punctual, RowsPunctual, SweepsPunctual

LEMMA PunctualStep == Apart /\ Types /\ Punctual /\ [Next]_vars => Punctual'
<1> SUFFICES ASSUME Apart, Types, Punctual, [Next]_vars PROVE Punctual'
  OBVIOUS
<1>1. ASSUME UNCHANGED <<crons, boot, sweep, now>> PROVE Punctual'
  BY <1>1 DEF Punctual, RowsPunctual, SweepsPunctual
<1>2. ASSUME NEW c \in Crons, NEW d \in Definitions, RegisterCron(c, d) PROVE Punctual'
  BY <1>2, RegisterPunctual
<1>3. ASSUME NEW c \in Crons, UpsertCron(c) \/ RemoveCron(c) PROVE Punctual'
  BY <1>3, UpsertPunctual
<1>4. ASSUME NEW w \in Workers, DueCrons(w) \/ SweepOn(w) PROVE Punctual'
  BY <1>4, DueCronsPunctual, PlanPunctual, GoesOnPunctual, AdvancePunctual DEF SweepOn
<1>5. ASSUME NEW w \in Workers, Abandon(w) PROVE Punctual'
  BY <1>5, RestingTimed, SweepStaysTimed DEF Abandon
<1>6. ASSUME NEW o \in Occurrences, NEW f \in Flows, Reconcile(o, f) \/ Finish(o, f) PROVE Punctual'
  BY <1>1, <1>6 DEF Reconcile, Finish
<1>7. CASE Tick \/ UNCHANGED vars
  BY <1>1, <1>7, TickPunctual DEF vars
<1> QED BY <1>2, <1>3, <1>4, <1>5, <1>6, <1>7 DEF Next

(* Where the schedules a deployment registers mean to the matcher what their author means, *)
(* and no two of them share a minute, a cron is next fired at a minute of its own schedule *)
(* and no later than the first to come (schedule.ts, and the compare in advanceCron): a    *)
(* sweep that read the row under another schedule does not get to write its time.          *)
THEOREM FollowsItsSchedule == ASSUME Understood, Apart PROVE Spec => []ScheduleFollowed
<1>1. Init => IInv /\ Punctual
  <2>1. Init => Punctual
    BY RestingTimed DEF Init, Punctual, RowsPunctual, SweepsPunctual, RowSound
  <2> QED BY <2>1, InitHolds
<1>2. (IInv /\ Punctual) /\ [Next]_vars => (IInv /\ Punctual)'
  BY TypesStep, CountedStep, MarkedStep, PunctualStep DEF IInv
<1>3. IInv /\ Punctual => ScheduleFollowed
  BY DEF Punctual, RowsPunctual, RowSound, Scheduled, Early, Understood, ScheduleFollowed
<1> QED BY <1>1, <1>2, <1>3, PTL DEF Spec
=============================================================================
