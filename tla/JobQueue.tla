------------------------------ MODULE JobQueue ------------------------------
(***************************************************************************)
(* The Queue port: one job row per run, workers that lease rows in         *)
(* batches, renew, acknowledge, stall past their lease and crash, and      *)
(* callers that enqueue at any time.                                       *)
(*                                                                         *)
(* A worker's own copy of a lease (held) and the row it was issued from    *)
(* (jobs) are different state: the copy outlives the row's lease when the  *)
(* worker stalls, and the row outlives the copy when the worker crashes.   *)
(***************************************************************************)
EXTENDS JobTable, FiniteSets

CONSTANTS Runs, Workers,
          Serves,     \* Serves[w]: the runs whose flow name worker w registered
          Priority,   \* Priority[r]: the run's own dispatch priority, lower is sooner
          BatchMax,   \* BatchMax[w]: how many rows worker w claims at once
          LeaseMs,    \* how long a claim or a heartbeat holds a row
          Delays,     \* how far ahead of now an enqueue may set runAt
          MaxTime, MaxSeq, MaxVersion   \* bounds of the clock and of the two counters

ASSUME QueueConstants ==
  /\ Serves \in [Workers -> SUBSET Runs]
  /\ Priority \in [Runs -> Nat]
  /\ BatchMax \in [Workers -> Nat \ {0}]
  /\ LeaseMs \in Nat \ {0}
  /\ Delays \subseteq Nat
  /\ MaxTime \in Nat /\ MaxSeq \in Nat /\ MaxVersion \in Nat

VARIABLES jobs,     \* run -> row
          held,     \* worker -> run -> its copy of a lease, NoLease if none
          seq,      \* last token issued
          now,      \* the clock every process reads
          wanted    \* history: runs enqueued since they were last claimed

vars == <<jobs, held, seq, now, wanted>>

Init ==
  /\ jobs = [r \in Runs |-> NoJob]
  /\ held = [w \in Workers |-> [r \in Runs |-> NoLease]]
  /\ seq = 0
  /\ now = 0
  /\ wanted = {}

-----------------------------------------------------------------------------

(* enqueue and enqueueMany: each run of the batch is upserted once. *)
EnqueueMany(S, at) ==
  /\ \A r \in S : jobs[r].version < MaxVersion
  /\ jobs' = [r \in Runs |-> IF r \in S THEN Enqueued(jobs[r], at) ELSE jobs[r]]
  /\ wanted' = wanted \cup S
  /\ UNCHANGED <<held, seq, now>>

(* The rows worker w may lease now, and their dispatch order. *)
Due(w) == {r \in Serves[w] : Claimable(jobs[r], now)}

Before(q, r) == \/ Priority[q] < Priority[r]
                \/ Priority[q] = Priority[r] /\ jobs[q].runAt < jobs[r].runAt

(* A batch: as many due rows as the limit allows, none passed over for a later one. *)
IsBatch(w, S) ==
  /\ S \subseteq Due(w) /\ S # {}
  /\ \/ S = Due(w) /\ Cardinality(S) <= BatchMax[w]
     \/ Cardinality(S) = BatchMax[w]
  /\ \A r \in S, q \in Due(w) \ S : ~Before(q, r)

(* A worker claims its next batch once it has finished the previous one.  Tokens    *)
(* are compared within one run only, so one number serves the whole batch.          *)
Claim(w, S) ==
  /\ \A r \in Runs : held[w][r] = NoLease
  /\ IsBatch(w, S)
  /\ seq < MaxSeq
  /\ seq' = seq + 1
  /\ jobs' = [r \in Runs |-> IF r \in S THEN Claimed(jobs[r], seq + 1, now + LeaseMs)
                             ELSE jobs[r]]
  /\ held' = [held EXCEPT ![w] = [r \in Runs |-> IF r \in S THEN LeaseOn(jobs'[r])
                                                 ELSE NoLease]]
  /\ wanted' = wanted \ S
  /\ UNCHANGED now

(* A renewal that lands: the row and the worker's copy move together. *)
Heartbeat(w, r) ==
  /\ held[w][r] # NoLease
  /\ Holds(jobs[r], held[w][r], now)
  /\ jobs' = [jobs EXCEPT ![r] = Extended(@, now + LeaseMs)]
  /\ held' = [held EXCEPT ![w][r] = Extended(@, now + LeaseMs)]
  /\ UNCHANGED <<seq, now, wanted>>

(* A renewal that throws, or a lease found spent before the run is started: the     *)
(* worker walks away from the run without acknowledging it.                          *)
LoseLease(w, r) ==
  /\ held[w][r] # NoLease
  /\ ~Holds(jobs[r], held[w][r], now) \/ held[w][r].expires <= now
  /\ held' = [held EXCEPT ![w][r] = NoLease]
  /\ UNCHANGED <<jobs, seq, now, wanted>>

Ack(w, r) ==
  /\ held[w][r] # NoLease
  /\ jobs' = [jobs EXCEPT ![r] = Acked(@, held[w][r], now)]
  /\ held' = [held EXCEPT ![w][r] = NoLease]
  /\ UNCHANGED <<seq, now, wanted>>

(* A process dies, or abandons a claim whose poll deadline passed: its copies are   *)
(* gone and the rows stay leased until they expire.                                 *)
Crash(w) ==
  /\ \E r \in Runs : held[w][r] # NoLease
  /\ held' = [held EXCEPT ![w] = [r \in Runs |-> NoLease]]
  /\ UNCHANGED <<jobs, seq, now, wanted>>

Tick ==
  /\ now < MaxTime
  /\ now' = now + 1
  /\ UNCHANGED <<jobs, held, seq, wanted>>

Next ==
  \/ \E S \in SUBSET Runs \ {{}}, d \in Delays : EnqueueMany(S, now + d)
  \/ \E w \in Workers : \/ \E S \in SUBSET Runs : Claim(w, S)
                        \/ \E r \in Runs : Heartbeat(w, r) \/ LoseLease(w, r) \/ Ack(w, r)
                        \/ Crash(w)
  \/ Tick

Spec == Init /\ [][Next]_vars

-----------------------------------------------------------------------------

(* Types, and: a deleted row leaves nothing behind, a row that exists has been      *)
(* enqueued at least once, and no token outruns the counter that issues them.       *)
TypeOK ==
  /\ jobs \in [Runs -> Job]
  /\ held \in [Workers -> [Runs -> Lease]]
  /\ seq \in Nat /\ now \in Nat
  /\ wanted \in SUBSET Runs
  /\ \A r \in Runs : WellFormed(jobs[r]) /\ jobs[r].token <= seq

(* A wake asked of a run is never lost: until a claim made after the request picks  *)
(* the run up, its row is there to be claimed, whatever the workers that hold or    *)
(* held it acknowledge, lose or renew meanwhile.                                    *)
WakeNotLost == \A r \in wanted : jobs[r].queued

(* Two workers never both hold a run on a lease neither has seen expire: a worker   *)
(* that checks its own copy against the clock need not ask the store.               *)
Unexpired(w, r) == held[w][r] # NoLease /\ held[w][r].expires > now

SingleHolder ==
  \A r \in Runs, v, w \in Workers : Unexpired(v, r) /\ Unexpired(w, r) => v = w

(* The queue implements the at-least-once promise: a run is in service while its    *)
(* row carries an unexpired lease, and is owed a dispatch when its row carries none *)
(* or has been enqueued since the claim.                                            *)
InService == {r \in Runs : jobs[r].expires > now}

Owed == {r \in Runs : jobs[r].queued /\ r \notin InService} \cup wanted

Promise == INSTANCE WakeDelivery WITH pending <- Owed, serving <- InService

KeepsPromise == Promise!Spec
=============================================================================
