--------------------------- MODULE JobQueueProofs ---------------------------
(***************************************************************************)
(* JobQueue for every set of runs and workers, every batch limit, lease    *)
(* length and priority: its types, its two safety invariants and its       *)
(* implementation of WakeDelivery.                                         *)
(*                                                                         *)
(* WakeNotLost and SingleHolder are not inductive.  What makes them so is  *)
(* LeaseInv: a token names one lease of one worker, a copy that has not    *)
(* expired is the row's current lease, and the row's version has moved     *)
(* past the copy's exactly when a wake is outstanding.                     *)
(***************************************************************************)
EXTENDS JobQueue, TLAPS

HeldLease(w, r) == held[w][r] # NoLease

(* A worker's copy of a lease: its token was issued; while it has not expired it is *)
(* the row's lease; and while the row carries its token, the row's version tells    *)
(* whether a wake has been asked since the claim.                                   *)
CopyInv(w, r) ==
  HeldLease(w, r) =>
    /\ held[w][r].token > 0 /\ held[w][r].token <= seq
    /\ held[w][r].expires > now => /\ jobs[r].token = held[w][r].token
                                   /\ jobs[r].expires = held[w][r].expires
    /\ jobs[r].token = held[w][r].token =>
         /\ held[w][r].version <= jobs[r].version
         /\ r \in wanted <=> held[w][r].version < jobs[r].version

(* Two workers' copies of leases on one run never share a token. *)
Distinct(v, w, r) ==
  HeldLease(v, r) /\ HeldLease(w, r) /\ held[v][r].token = held[w][r].token => v = w

LeaseInv ==
  /\ \A w \in Workers, r \in Runs : CopyInv(w, r)
  /\ \A v, w \in Workers, r \in Runs : Distinct(v, w, r)
  /\ WakeNotLost

IInv == TypeOK /\ LeaseInv

-----------------------------------------------------------------------------

(* What the row operators return: rows again, whose fields are the ones expected. *)
LEMMA EmptyRows == NoJob \in Job /\ WellFormed(NoJob) /\ NoLease \in Lease
BY DEF Job, NoJob, Lease, NoLease, WellFormed

(* An enqueue bumps the version and leaves the lease alone. *)
LEMMA EnqueuedRow ==
  ASSUME NEW j \in Job, NEW t \in Nat
  PROVE  /\ Enqueued(j, t) \in Job
         /\ WellFormed(Enqueued(j, t))
         /\ Enqueued(j, t).queued
         /\ Enqueued(j, t).version = j.version + 1
         /\ Enqueued(j, t).token = j.token
         /\ Enqueued(j, t).expires = j.expires
BY DEF Job, Enqueued, WellFormed

(* A claim sets the token and the expiry, and nothing else. *)
LEMMA ClaimedRow ==
  ASSUME NEW j \in Job, WellFormed(j), j.queued, NEW k \in Nat, NEW t \in Nat
  PROVE  /\ Claimed(j, k, t) \in Job
         /\ WellFormed(Claimed(j, k, t))
         /\ Claimed(j, k, t).queued
         /\ Claimed(j, k, t).token = k
         /\ Claimed(j, k, t).expires = t
         /\ Claimed(j, k, t).version = j.version
BY DEF Job, Claimed, WellFormed

(* A renewal moves the expiry alone. *)
LEMMA ExtendedRow ==
  ASSUME NEW j \in Job, WellFormed(j), j.queued, NEW t \in Nat
  PROVE  /\ Extended(j, t) \in Job
         /\ WellFormed(Extended(j, t))
         /\ Extended(j, t).queued
         /\ Extended(j, t).token = j.token
         /\ Extended(j, t).expires = t
         /\ Extended(j, t).version = j.version
BY DEF Job, Extended, WellFormed

(* The copy of a lease carries the token, version and expiry of its row. *)
LEMMA LeaseOnRow ==
  ASSUME NEW j \in Job
  PROVE  /\ LeaseOn(j) \in Lease
         /\ LeaseOn(j).token = j.token
         /\ LeaseOn(j).expires = j.expires
         /\ LeaseOn(j).version = j.version
BY DEF Job, Lease, LeaseOn

(* An acknowledgement leaves the row alone, releases it or deletes it. *)
LEMMA AckedRow ==
  ASSUME NEW j \in Job, WellFormed(j), NEW l \in Lease, NEW t \in Nat
  PROVE  /\ Acked(j, l, t) \in Job
         /\ WellFormed(Acked(j, l, t))
         /\ ~Holds(j, l, t) => Acked(j, l, t) = j
         /\ Holds(j, l, t) => /\ Acked(j, l, t).token = 0
                              /\ Acked(j, l, t).expires = 0
                              /\ Acked(j, l, t).queued <=> j.version # l.version
<1>1. CASE ~Holds(j, l, t)
  BY <1>1 DEF Acked
<1>2. CASE Holds(j, l, t) /\ j.version # l.version
  <2>1. Acked(j, l, t) = Released(j) /\ j.queued
    BY <1>2 DEF Acked, Holds
  <2>2. /\ Released(j) \in Job /\ Released(j).queued
        /\ Released(j).token = 0 /\ Released(j).expires = 0
        /\ Released(j).version = j.version
    BY <2>1 DEF Released, Job
  <2>3. WellFormed(Released(j))
    BY <2>1, <2>2 DEF WellFormed
  <2> QED
    BY <1>2, <2>1, <2>2, <2>3
<1>3. CASE Holds(j, l, t) /\ j.version = l.version
  BY <1>3, EmptyRows DEF Acked, NoJob
<1> QED
  BY <1>1, <1>2, <1>3

-----------------------------------------------------------------------------

(* The types hold initially and are kept by every step. *)
LEMMA TypeInit == Init => TypeOK
BY EmptyRows DEF Init, TypeOK, NoJob

(* Every step keeps the types, one case per action. *)
LEMMA TypeStep == TypeOK /\ [Next]_vars => TypeOK'
<1> SUFFICES ASSUME TypeOK, [Next]_vars PROVE TypeOK'
  OBVIOUS
<1> USE QueueConstants
<1>1. ASSUME NEW S \in SUBSET Runs, NEW d \in Delays, EnqueueMany(S, now + d)
      PROVE  TypeOK'
  <2>1. now + d \in Nat
    BY DEF TypeOK
  <2> QED
    BY <1>1, <2>1, EnqueuedRow DEF TypeOK, EnqueueMany
<1>2. ASSUME NEW w \in Workers, NEW S \in SUBSET Runs, Claim(w, S)
      PROVE  TypeOK'
  <2>1. /\ seq + 1 \in Nat /\ now + LeaseMs \in Nat
        /\ \A r \in S : jobs[r].queued
    BY <1>2 DEF TypeOK, Claim, IsBatch, Due, Claimable
  <2>2. /\ jobs' \in [Runs -> Job]
        /\ \A r \in Runs : WellFormed(jobs'[r]) /\ jobs'[r].token <= seq'
    <3> DEFINE c(r) == Claimed(jobs[r], seq + 1, now + LeaseMs)
    <3>1. ASSUME NEW r \in S
          PROVE  c(r) \in Job /\ WellFormed(c(r)) /\ c(r).token = seq + 1
      <4>1. jobs[r] \in Job /\ WellFormed(jobs[r]) /\ jobs[r].queued
        BY <2>1 DEF TypeOK
      <4> QED
        BY <2>1, <4>1, ClaimedRow
    <3>2. \A r \in Runs : jobs[r] \in Job /\ WellFormed(jobs[r]) /\ jobs[r].token <= seq
      BY DEF TypeOK
    <3>3. /\ jobs' = [r \in Runs |-> IF r \in S THEN c(r) ELSE jobs[r]]
          /\ seq' = seq + 1 /\ seq \in Nat
      BY <1>2 DEF Claim, TypeOK
    <3>4. \A r \in Runs : jobs[r].token \in Nat
      BY <3>2 DEF Job
    <3> HIDE DEF c
    <3> QED
      BY <3>1, <3>2, <3>3, <3>4
  <2>3. held' \in [Workers -> [Runs -> Lease]]
    BY <1>2, <2>2, LeaseOnRow, EmptyRows DEF TypeOK, Claim
  <2> QED
    BY <1>2, <2>1, <2>2, <2>3 DEF TypeOK, Claim
<1>3. ASSUME NEW w \in Workers, NEW r \in Runs, Heartbeat(w, r)
      PROVE  TypeOK'
  <2>1. now + LeaseMs \in Nat /\ jobs[r].queued
    BY <1>3 DEF TypeOK, Heartbeat, Holds
  <2>2. held' \in [Workers -> [Runs -> Lease]]
    <3> DEFINE l == Extended(held[w][r], now + LeaseMs)
    <3>1. held[w] \in [Runs -> Lease] /\ l \in Lease
      <4>1. held[w] \in [Runs -> Lease] /\ held[w][r] \in Lease
        BY DEF TypeOK
      <4>2. \A h \in Lease, t \in Nat : Extended(h, t) \in Lease
        BY DEF Lease, Extended
      <4> QED
        BY <2>1, <4>1, <4>2
    <3>2. held' = [held EXCEPT ![w] = [held[w] EXCEPT ![r] = l]]
      BY <1>3 DEF Heartbeat
    <3> HIDE DEF l
    <3> QED
      BY <3>1, <3>2 DEF TypeOK
  <2> DEFINE e == Extended(jobs[r], now + LeaseMs)
  <2>3. e \in Job /\ WellFormed(e) /\ e.token <= seq
    BY <2>1, ExtendedRow DEF TypeOK
  <2>4. jobs' = [jobs EXCEPT ![r] = e] /\ UNCHANGED <<seq, now, wanted>>
    BY <1>3 DEF Heartbeat
  <2> HIDE DEF e
  <2> QED
    BY <2>2, <2>3, <2>4 DEF TypeOK
<1>4. ASSUME NEW w \in Workers, NEW r \in Runs, LoseLease(w, r)
      PROVE  TypeOK'
  BY <1>4, EmptyRows DEF TypeOK, LoseLease
<1>5. ASSUME NEW w \in Workers, NEW r \in Runs, Ack(w, r)
      PROVE  TypeOK'
  <2> DEFINE a == Acked(jobs[r], held[w][r], now)
  <2>0. /\ jobs[r] \in Job /\ WellFormed(jobs[r]) /\ jobs[r].token <= seq
        /\ held[w][r] \in Lease /\ now \in Nat /\ seq \in Nat
    BY DEF TypeOK
  <2>1. a \in Job /\ WellFormed(a) /\ a.token <= seq
    <3>1. a \in Job /\ WellFormed(a)
      BY <2>0, AckedRow
    <3>2. a = jobs[r] \/ a.token = 0
      BY <2>0, AckedRow
    <3> QED
      BY <2>0, <3>1, <3>2
  <2>2. held' \in [Workers -> [Runs -> Lease]]
    BY <1>5, EmptyRows DEF TypeOK, Ack
  <2>3. jobs' = [jobs EXCEPT ![r] = a] /\ UNCHANGED <<seq, now, wanted>>
    BY <1>5 DEF Ack
  <2> HIDE DEF a
  <2> QED
    BY <2>1, <2>2, <2>3 DEF TypeOK
<1>6. ASSUME NEW w \in Workers, Crash(w)
      PROVE  TypeOK'
  BY <1>6, EmptyRows DEF TypeOK, Crash
<1>7. CASE Tick
  BY <1>7 DEF TypeOK, Tick
<1>8. CASE UNCHANGED vars
  BY <1>8 DEF TypeOK, vars
<1> QED
  BY <1>1, <1>2, <1>3, <1>4, <1>5, <1>6, <1>7, <1>8 DEF Next

(* Every reachable state has the declared types, well-formed rows, and no token     *)
(* above the counter that claims issue them from.                                   *)
THEOREM TypeCorrect == Spec => []TypeOK
BY TypeInit, TypeStep, PTL DEF Spec

-----------------------------------------------------------------------------

(* The fields of a row and of a copy are numbers. *)
LEMMA Fields ==
  ASSUME TypeOK
  PROVE  /\ seq \in Nat /\ now \in Nat /\ wanted \subseteq Runs
         /\ \A r \in Runs : /\ jobs[r] \in Job /\ WellFormed(jobs[r])
                            /\ jobs[r].version \in Nat /\ jobs[r].token \in Nat
                            /\ jobs[r].expires \in Nat /\ jobs[r].token <= seq
         /\ \A w \in Workers, r \in Runs :
              /\ held[w][r] \in Lease
              /\ held[w][r].version \in Nat /\ held[w][r].token \in Nat
              /\ held[w][r].expires \in Nat
BY DEF TypeOK, Job, Lease

(* No copy and no wake is there at the start. *)
LEMMA LeaseInit == Init => LeaseInv
BY DEF Init, LeaseInv, CopyInv, Distinct, HeldLease, WakeNotLost

(* An enqueue moves versions only, and wants what it moves. *)
LEMMA EnqueueKeepsLeases ==
  ASSUME IInv, NEW S \in SUBSET Runs, NEW d \in Delays, EnqueueMany(S, now + d)
  PROVE  LeaseInv'
<1>1. now + d \in Nat
  BY QueueConstants DEF IInv, TypeOK
<1>2. \A r \in Runs :
        /\ jobs'[r].token = jobs[r].token /\ jobs'[r].expires = jobs[r].expires
        /\ jobs'[r].version = IF r \in S THEN jobs[r].version + 1 ELSE jobs[r].version
        /\ r \in S \/ jobs[r].queued => jobs'[r].queued
  <2> TAKE r \in Runs
  <2>1. CASE r \in S
    BY <1>1, <2>1, EnqueuedRow, Fields DEF EnqueueMany, IInv
  <2>2. CASE r \notin S
    BY <2>2 DEF EnqueueMany
  <2> QED
    BY <2>1, <2>2
<1>3. wanted' = wanted \cup S /\ UNCHANGED <<held, seq, now>>
  BY DEF EnqueueMany
<1>4. ASSUME NEW w \in Workers, NEW r \in Runs
      PROVE  CopyInv(w, r)'
  BY <1>2, <1>3, Fields DEF IInv, LeaseInv, CopyInv, HeldLease
<1>5. WakeNotLost'
  BY <1>2, <1>3, Fields DEF IInv, LeaseInv, WakeNotLost
<1>6. ASSUME NEW v \in Workers, NEW w \in Workers, NEW r \in Runs
      PROVE  Distinct(v, w, r)'
  BY <1>3 DEF IInv, LeaseInv, Distinct, HeldLease
<1> QED
  BY <1>4, <1>5, <1>6 DEF LeaseInv

(* A claim issues a token no copy carries, on rows whose last lease has expired. *)
LEMMA ClaimKeepsLeases ==
  ASSUME IInv, NEW c \in Workers, NEW S \in SUBSET Runs, Claim(c, S)
  PROVE  LeaseInv'
<1>1. /\ \A r \in S : jobs[r].queued /\ jobs[r].expires <= now
      /\ \A r \in Runs : ~HeldLease(c, r)
      /\ wanted' = wanted \ S /\ seq' = seq + 1 /\ now' = now
      /\ now + LeaseMs \in Nat /\ now + LeaseMs > now
  BY QueueConstants DEF Claim, IsBatch, Due, Claimable, HeldLease, IInv, TypeOK
<1>2. \A r \in Runs :
        /\ r \in S => /\ jobs'[r].token = seq + 1 /\ jobs'[r].expires = now + LeaseMs
                      /\ jobs'[r].version = jobs[r].version
                      /\ jobs'[r].queued /\ jobs'[r] \in Job
        /\ r \notin S => jobs'[r] = jobs[r]
  <2> TAKE r \in Runs
  <2>1. CASE r \in S
    <3>1. jobs'[r] = Claimed(jobs[r], seq + 1, now + LeaseMs)
      BY <2>1 DEF Claim
    <3>2. seq + 1 \in Nat /\ jobs[r] \in Job /\ WellFormed(jobs[r]) /\ jobs[r].queued
      BY <1>1, <2>1, Fields DEF IInv
    <3>3. LET k == Claimed(jobs[r], seq + 1, now + LeaseMs)
          IN  /\ k \in Job /\ k.queued /\ k.token = seq + 1
              /\ k.expires = now + LeaseMs /\ k.version = jobs[r].version
      BY <1>1, <3>2, ClaimedRow
    <3> QED
      BY <2>1, <3>1, <3>3
  <2>2. CASE r \notin S
    BY <2>2 DEF Claim
  <2> QED
    BY <2>1, <2>2
<1>3. \A w \in Workers, r \in Runs :
        IF w = c THEN IF r \in S THEN /\ held'[w][r].token = seq + 1
                                      /\ held'[w][r].expires = now + LeaseMs
                                      /\ held'[w][r].version = jobs[r].version
                               ELSE ~HeldLease(w, r)'
        ELSE held'[w][r] = held[w][r]
  <2> TAKE w \in Workers, r \in Runs
  <2>1. held' = [held EXCEPT ![c] = [q \in Runs |-> IF q \in S THEN LeaseOn(jobs'[q])
                                                     ELSE NoLease]]
    BY DEF Claim
  <2>2. held[c] \in [Runs -> Lease] /\ held \in [Workers -> [Runs -> Lease]]
    BY DEF IInv, TypeOK
  <2>3. r \in S => /\ LeaseOn(jobs'[r]).token = jobs'[r].token
                   /\ LeaseOn(jobs'[r]).expires = jobs'[r].expires
                   /\ LeaseOn(jobs'[r]).version = jobs'[r].version
    BY <1>2, LeaseOnRow
  <2> QED
    BY <1>2, <2>1, <2>2, <2>3 DEF HeldLease
<1>4. ASSUME NEW w \in Workers, NEW r \in Runs
      PROVE  CopyInv(w, r)'
  <2>1. CASE w = c /\ r \in S
    BY <1>1, <1>2, <1>3, <2>1, Fields DEF IInv, CopyInv
  <2>2. CASE w = c /\ r \notin S
    BY <1>3, <2>2 DEF CopyInv
  <2>3. CASE w # c /\ r \in S
    <3>1. HeldLease(w, r) => held[w][r].token <= seq /\ held[w][r].token > 0
                             /\ ~(held[w][r].expires > now)
      BY <1>1, <2>3, Fields DEF IInv, LeaseInv, CopyInv
    <3> QED
      BY <1>1, <1>2, <1>3, <2>3, <3>1, Fields DEF IInv, CopyInv, HeldLease
  <2>4. CASE w # c /\ r \notin S
    <3>1. CopyInv(w, r) /\ (r \in wanted' <=> r \in wanted)
      BY <1>1, <2>4 DEF IInv, LeaseInv
    <3> QED
      BY <1>1, <1>2, <1>3, <2>4, <3>1, Fields DEF IInv, CopyInv, HeldLease
  <2> QED
    BY <2>1, <2>2, <2>3, <2>4
<1>5. WakeNotLost'
  BY <1>1, <1>2 DEF IInv, LeaseInv, WakeNotLost, TypeOK
<1>6. ASSUME NEW v \in Workers, NEW w \in Workers, NEW r \in Runs
      PROVE  Distinct(v, w, r)'
  <2>1. \A x \in Workers : HeldLease(x, r) => held[x][r].token < seq + 1
    BY Fields DEF IInv, LeaseInv, CopyInv
  <2> QED
    BY <1>3, <2>1, Fields DEF IInv, LeaseInv, Distinct, HeldLease
<1> QED
  BY <1>4, <1>5, <1>6 DEF LeaseInv

(* A renewal moves the expiry of the row and of its holder's copy, and nobody       *)
(* else's copy is of this lease.                                                    *)
LEMMA HeartbeatKeepsLeases ==
  ASSUME IInv, NEW c \in Workers, NEW q \in Runs, Heartbeat(c, q)
  PROVE  LeaseInv'
<1>1. /\ HeldLease(c, q) /\ jobs[q].queued /\ jobs[q].token = held[c][q].token
      /\ now + LeaseMs \in Nat /\ now + LeaseMs > now
      /\ UNCHANGED <<seq, now, wanted>>
  BY QueueConstants DEF Heartbeat, Holds, HeldLease, IInv, TypeOK
<1>2. /\ \A r \in Runs : /\ jobs'[r].token = jobs[r].token
                         /\ jobs'[r].version = jobs[r].version
                         /\ jobs'[r].queued = jobs[r].queued
      /\ jobs'[q].expires = now + LeaseMs
      /\ \A r \in Runs \ {q} : jobs'[r] = jobs[r]
  <2>1. jobs' = [jobs EXCEPT ![q] = Extended(jobs[q], now + LeaseMs)]
    BY DEF Heartbeat
  <2>2. jobs \in [Runs -> Job] /\ jobs[q] \in Job /\ WellFormed(jobs[q])
    BY DEF IInv, TypeOK
  <2>3. LET e == Extended(jobs[q], now + LeaseMs)
        IN  /\ e.token = jobs[q].token /\ e.version = jobs[q].version
            /\ e.queued = jobs[q].queued /\ e.expires = now + LeaseMs
    BY <1>1, <2>2, ExtendedRow
  <2> QED
    BY <2>1, <2>2, <2>3
<1>3. \A w \in Workers, r \in Runs :
        IF w = c /\ r = q THEN /\ held'[w][r].token = held[w][r].token
                               /\ held'[w][r].version = held[w][r].version
                               /\ held'[w][r].expires = now + LeaseMs
        ELSE held'[w][r] = held[w][r]
  <2> TAKE w \in Workers, r \in Runs
  <2>1. held' = [held EXCEPT ![c] = [held[c] EXCEPT ![q] = Extended(held[c][q], now + LeaseMs)]]
    BY DEF Heartbeat
  <2>2. held[c] \in [Runs -> Lease] /\ held \in [Workers -> [Runs -> Lease]]
    BY DEF IInv, TypeOK
  <2>3. LET e == Extended(held[c][q], now + LeaseMs)
        IN  /\ e.token = held[c][q].token /\ e.version = held[c][q].version
            /\ e.expires = now + LeaseMs
    BY <2>2 DEF Extended, Lease
  <2> QED
    BY <2>1, <2>2, <2>3
<1>4. ASSUME NEW w \in Workers, NEW r \in Runs
      PROVE  CopyInv(w, r)'
  <2>1. CopyInv(w, r) /\ CopyInv(c, q) /\ Distinct(c, w, r)
    BY DEF IInv, LeaseInv
  <2>2. CASE w = c /\ r = q
    BY <1>1, <1>2, <1>3, <2>1, <2>2, Fields DEF IInv, CopyInv
  <2>3. CASE r # q
    BY <1>1, <1>2, <1>3, <2>1, <2>3 DEF CopyInv, HeldLease
  <2>4. CASE w # c /\ r = q
    BY <1>1, <1>2, <1>3, <2>1, <2>4 DEF CopyInv, Distinct, HeldLease
  <2> QED
    BY <2>2, <2>3, <2>4
<1>5. WakeNotLost'
  BY <1>1, <1>2 DEF IInv, LeaseInv, WakeNotLost, TypeOK
<1>6. ASSUME NEW v \in Workers, NEW w \in Workers, NEW r \in Runs
      PROVE  Distinct(v, w, r)'
  <2>1. \A x \in Workers : /\ HeldLease(x, r)' => HeldLease(x, r)
                           /\ held'[x][r].token = held[x][r].token
    BY <1>1, <1>3 DEF HeldLease
  <2> QED
    BY <2>1 DEF IInv, LeaseInv, Distinct
<1> QED
  BY <1>4, <1>5, <1>6 DEF LeaseInv

(* A worker that only forgets copies leaves the rest of the invariant alone. *)
LEMMA ForgettingKeepsLeases ==
  ASSUME IInv, UNCHANGED <<jobs, seq, now, wanted>>,
         \A w \in Workers, r \in Runs : held'[w][r] \in {held[w][r], NoLease}
  PROVE  LeaseInv'
<1>1. ASSUME NEW w \in Workers, NEW r \in Runs
      PROVE  CopyInv(w, r)'
  BY DEF IInv, LeaseInv, CopyInv, HeldLease
<1>2. ASSUME NEW v \in Workers, NEW w \in Workers, NEW r \in Runs
      PROVE  Distinct(v, w, r)'
  BY DEF IInv, LeaseInv, Distinct, HeldLease
<1>3. WakeNotLost'
  BY DEF IInv, LeaseInv, WakeNotLost
<1> QED
  BY <1>1, <1>2, <1>3 DEF LeaseInv

(* An acknowledgement deletes a row no wake is owed on, or frees it of its token.   *)
LEMMA AckKeepsLeases ==
  ASSUME IInv, NEW c \in Workers, NEW q \in Runs, Ack(c, q)
  PROVE  LeaseInv'
<1> DEFINE a == Acked(jobs[q], held[c][q], now)
<1>1. /\ HeldLease(c, q) /\ UNCHANGED <<seq, now, wanted>>
      /\ jobs' = [jobs EXCEPT ![q] = a]
      /\ held' = [held EXCEPT ![c] = [held[c] EXCEPT ![q] = NoLease]]
  BY DEF Ack, HeldLease
<1>2. /\ jobs \in [Runs -> Job] /\ held \in [Workers -> [Runs -> Lease]]
      /\ jobs[q] \in Job /\ WellFormed(jobs[q]) /\ held[c][q] \in Lease /\ now \in Nat
  BY DEF IInv, TypeOK
<1>3. \A w \in Workers, r \in Runs : held'[w][r] \in {held[w][r], NoLease}
  BY <1>1, <1>2
<1>4. CASE ~Holds(jobs[q], held[c][q], now)
  <2>1. jobs' = jobs
    BY <1>1, <1>2, <1>4, AckedRow
  <2> QED
    BY <1>1, <1>3, <2>1, ForgettingKeepsLeases
<1>5. CASE Holds(jobs[q], held[c][q], now)
  <2>1. a.token = 0 /\ (a.queued <=> jobs[q].version # held[c][q].version)
    BY <1>2, <1>5, AckedRow
  <2>2. jobs[q].token = held[c][q].token
    BY <1>5 DEF Holds
  <2>3. CopyInv(c, q) /\ \A w \in Workers, r \in Runs : CopyInv(w, r) /\ Distinct(w, c, r)
    BY DEF IInv, LeaseInv
  <2>4. q \in wanted => a.queued
    BY <1>1, <2>1, <2>2, <2>3, Fields DEF IInv, CopyInv
  <2>5. \A r \in Runs : jobs'[r] = IF r = q THEN a ELSE jobs[r]
    BY <1>1, <1>2
  <2> HIDE DEF a
  <2>6. ASSUME NEW w \in Workers, NEW r \in Runs
        PROVE  CopyInv(w, r)'
    <3>1. CASE r # q
      BY <1>1, <1>3, <2>3, <2>5, <3>1 DEF CopyInv, HeldLease
    <3>2. CASE r = q /\ w = c
      BY <1>1, <1>2, <3>2 DEF CopyInv, HeldLease
    <3>3. CASE r = q /\ w # c
      <4>1. HeldLease(w, r) => /\ held[w][r].token # jobs[r].token
                               /\ held[w][r].token > 0 /\ held[w][r].token <= seq
                               /\ ~(held[w][r].expires > now)
        BY <1>1, <2>2, <2>3, <3>3 DEF CopyInv, Distinct
      <4> QED
        BY <1>1, <1>3, <2>1, <2>5, <3>3, <4>1, Fields DEF IInv, CopyInv, HeldLease
    <3> QED
      BY <3>1, <3>2, <3>3
  <2>7. ASSUME NEW v \in Workers, NEW w \in Workers, NEW r \in Runs
        PROVE  Distinct(v, w, r)'
    BY <1>3 DEF IInv, LeaseInv, Distinct, HeldLease
  <2>8. WakeNotLost'
    BY <1>1, <2>4, <2>5, Fields DEF IInv, LeaseInv, WakeNotLost
  <2> QED
    BY <2>6, <2>7, <2>8 DEF LeaseInv
<1> QED
  BY <1>4, <1>5

(* Every step keeps what the copies say of their rows, one case per action.         *)
LEMMA LeaseStep == IInv /\ [Next]_vars => LeaseInv'
<1> SUFFICES ASSUME IInv, [Next]_vars PROVE LeaseInv'
  OBVIOUS
<1>1. ASSUME NEW S \in SUBSET Runs, NEW d \in Delays, EnqueueMany(S, now + d)
      PROVE  LeaseInv'
  BY <1>1, EnqueueKeepsLeases
<1>2. ASSUME NEW w \in Workers, NEW S \in SUBSET Runs, Claim(w, S)
      PROVE  LeaseInv'
  BY <1>2, ClaimKeepsLeases
<1>3. ASSUME NEW w \in Workers, NEW r \in Runs, Heartbeat(w, r)
      PROVE  LeaseInv'
  BY <1>3, HeartbeatKeepsLeases
<1>4. ASSUME NEW w \in Workers, NEW r \in Runs, LoseLease(w, r)
      PROVE  LeaseInv'
  <2>1. \A v \in Workers, q \in Runs : held'[v][q] \in {held[v][q], NoLease}
    BY <1>4 DEF LoseLease, IInv, TypeOK
  <2> QED
    BY <1>4, <2>1, ForgettingKeepsLeases DEF LoseLease
<1>5. ASSUME NEW w \in Workers, NEW r \in Runs, Ack(w, r)
      PROVE  LeaseInv'
  BY <1>5, AckKeepsLeases
<1>6. ASSUME NEW w \in Workers, Crash(w)
      PROVE  LeaseInv'
  <2>1. \A v \in Workers, q \in Runs : held'[v][q] \in {held[v][q], NoLease}
    BY <1>6 DEF Crash, IInv, TypeOK
  <2> QED
    BY <1>6, <2>1, ForgettingKeepsLeases DEF Crash
<1>7. CASE Tick
  <2>1. now \in Nat /\ now' = now + 1 /\ UNCHANGED <<jobs, held, seq, wanted>>
    BY <1>7 DEF Tick, IInv, TypeOK
  <2> QED
    BY <2>1, Fields DEF IInv, LeaseInv, CopyInv, Distinct, HeldLease, WakeNotLost
<1>8. CASE UNCHANGED vars
  BY <1>8 DEF vars, IInv, LeaseInv, CopyInv, Distinct, HeldLease, WakeNotLost
<1> QED
  BY <1>1, <1>2, <1>3, <1>4, <1>5, <1>6, <1>7, <1>8 DEF Next

(* The inductive invariant: TypeOK with what a copy of a lease says of its row.     *)
THEOREM Inductive == Spec => []IInv
<1>1. Init => IInv
  BY TypeInit, LeaseInit DEF IInv
<1>2. IInv /\ [Next]_vars => IInv'
  BY TypeStep, LeaseStep DEF IInv
<1> QED
  BY <1>1, <1>2, PTL DEF Spec

(* A wake asked of a run stays in the table until a later claim picks the run up,   *)
(* for every number of workers and every interleaving of their acknowledgements.    *)
THEOREM WakesAreNotLost == Spec => []WakeNotLost
<1>1. IInv => WakeNotLost
  BY DEF IInv, LeaseInv
<1> QED
  BY <1>1, Inductive, PTL

(* No two workers both hold an unexpired lease on one run. *)
THEOREM OneHolder == Spec => []SingleHolder
<1>1. IInv => SingleHolder
  BY DEF IInv, LeaseInv, SingleHolder, CopyInv, Distinct, HeldLease, Unexpired
<1> QED
  BY <1>1, Inductive, PTL

-----------------------------------------------------------------------------

(* Every step of the queue is a step of the at-least-once promise, or none.         *)
LEMMA StepKeepsPromise ==
  ASSUME IInv, [Next]_vars
  PROVE  [Promise!Next]_(Promise!vars)
<1> USE QueueConstants
<1>1. ASSUME NEW S \in SUBSET Runs, NEW d \in Delays, EnqueueMany(S, now + d)
      PROVE  Promise!Request(S)
  <2>1. \A r \in Runs : /\ jobs'[r].expires = jobs[r].expires
                        /\ jobs'[r].queued <=> (r \in S \/ jobs[r].queued)
    <3> TAKE r \in Runs
    <3>1. now + d \in Nat /\ jobs[r] \in Job
      BY DEF IInv, TypeOK
    <3>2. /\ Enqueued(jobs[r], now + d).expires = jobs[r].expires
          /\ Enqueued(jobs[r], now + d).queued
      BY <3>1, EnqueuedRow
    <3> QED
      BY <1>1, <3>2 DEF EnqueueMany
  <2>2. InService' = InService
    BY <1>1, <2>1 DEF InService, EnqueueMany
  <2>3. Owed' = Owed \cup S
    BY <1>1, <2>1, <2>2 DEF Owed, EnqueueMany
  <2> QED
    BY <2>2, <2>3 DEF Promise!Request
<1>2. ASSUME NEW w \in Workers, NEW S \in SUBSET Runs, Claim(w, S)
      PROVE  Promise!Dispatch(S)
  <2>1. /\ \A r \in S : jobs[r].queued /\ jobs[r].expires <= now
        /\ wanted' = wanted \ S /\ now' = now
        /\ now + LeaseMs \in Nat /\ now + LeaseMs > now
    BY <1>2 DEF Claim, IsBatch, Due, Claimable, IInv, TypeOK
  <2>2. \A r \in Runs : /\ r \in S => jobs'[r].expires = now + LeaseMs
                        /\ r \notin S => jobs'[r] = jobs[r]
    <3> TAKE r \in Runs
    <3>1. /\ jobs'[r] = IF r \in S THEN Claimed(jobs[r], seq + 1, now + LeaseMs) ELSE jobs[r]
          /\ jobs[r] \in Job
      BY <1>2 DEF Claim, IInv, TypeOK
    <3>2. Claimed(jobs[r], seq + 1, now + LeaseMs).expires = now + LeaseMs
      BY <3>1 DEF Claimed, Job
    <3> QED
      BY <3>1, <3>2
  <2>3. InService' = InService \cup S /\ S \cap InService = {}
    <3>1. \A r \in Runs : /\ r \in S => jobs'[r].expires > now' /\ ~(jobs[r].expires > now)
                          /\ r \notin S => (jobs'[r].expires > now' <=> jobs[r].expires > now)
      <4> TAKE r \in Runs
      <4>1. jobs[r].expires \in Nat /\ now \in Nat
        BY Fields DEF IInv
      <4> QED
        BY <2>1, <2>2, <4>1
    <3>2. \A r \in Runs : /\ r \in InService' <=> jobs'[r].expires > now'
                          /\ r \in InService <=> jobs[r].expires > now
      BY DEF InService
    <3>3. InService \subseteq Runs /\ InService' \subseteq Runs /\ S \subseteq Runs
      BY DEF InService
    <3>4. \A r \in Runs : /\ r \in InService' <=> (r \in InService \/ r \in S)
                          /\ r \in S => r \notin InService
      BY <3>1, <3>2, Zenon
    <3> QED
      BY <3>3, <3>4, Zenon
  <2>4. S \subseteq Owed /\ Owed' = Owed \ S
    BY <2>1, <2>2, <2>3 DEF Owed
  <2> QED
    BY <2>3, <2>4 DEF Promise!Dispatch
<1>3. ASSUME NEW w \in Workers, NEW r \in Runs, Heartbeat(w, r)
      PROVE  UNCHANGED Promise!vars
  <2>1. /\ jobs[r].queued /\ jobs[r].expires > now /\ now + LeaseMs > now
        /\ UNCHANGED <<now, wanted>>
    BY <1>3 DEF Heartbeat, Holds, IInv, TypeOK
  <2> DEFINE e == Extended(jobs[r], now + LeaseMs)
  <2>2. /\ jobs' = [jobs EXCEPT ![r] = e] /\ jobs \in [Runs -> Job] /\ jobs[r] \in Job
    BY <1>3 DEF Heartbeat, IInv, TypeOK
  <2>3. e.queued /\ e.expires > now
    BY <2>1, <2>2 DEF Extended, Job
  <2> HIDE DEF e
  <2>4. \A q \in Runs : jobs'[q] = IF q = r THEN e ELSE jobs[q]
    BY <2>2
  <2>5. InService' = InService
    BY <2>1, <2>3, <2>4 DEF InService
  <2>6. Owed' = Owed
    BY <2>1, <2>3, <2>4, <2>5 DEF Owed
  <2> QED
    BY <2>5, <2>6 DEF Promise!vars
<1>4. ASSUME UNCHANGED <<jobs, now, wanted>>
      PROVE  UNCHANGED Promise!vars
  BY <1>4 DEF Promise!vars, Owed, InService
<1>5. ASSUME NEW w \in Workers, NEW r \in Runs, Ack(w, r)
      PROVE  Promise!Complete(r) \/ UNCHANGED Promise!vars
  <2> DEFINE a == Acked(jobs[r], held[w][r], now)
  <2>1. /\ HeldLease(w, r) /\ UNCHANGED <<seq, now, wanted>>
        /\ jobs' = [jobs EXCEPT ![r] = a]
    BY <1>5 DEF Ack, HeldLease
  <2>2. /\ jobs \in [Runs -> Job] /\ jobs[r] \in Job /\ WellFormed(jobs[r])
        /\ held[w][r] \in Lease /\ now \in Nat
    BY DEF IInv, TypeOK
  <2>3. CASE ~Holds(jobs[r], held[w][r], now)
    BY <1>4, <2>1, <2>2, <2>3, AckedRow
  <2>4. CASE Holds(jobs[r], held[w][r], now)
    <3>1. a.expires = 0 /\ (a.queued <=> jobs[r].version # held[w][r].version)
      BY <2>2, <2>4, AckedRow
    <3>2. /\ jobs[r].queued /\ jobs[r].expires > now /\ CopyInv(w, r)
          /\ jobs[r].token = held[w][r].token
      BY <2>4 DEF Holds, IInv, LeaseInv
    <3>3. a.queued <=> r \in wanted
      <4>1. /\ held[w][r].version <= jobs[r].version
            /\ r \in wanted <=> held[w][r].version < jobs[r].version
        BY <2>1, <3>2 DEF CopyInv
      <4>2. held[w][r].version \in Nat /\ jobs[r].version \in Nat
        BY Fields DEF IInv
      <4> HIDE DEF a
      <4> QED
        BY <3>1, <4>1, <4>2
    <3>4. \A q \in Runs : jobs'[q] = IF q = r THEN a ELSE jobs[q]
      BY <2>1, <2>2
    <3> HIDE DEF a
    <3>5. r \in InService /\ InService' = InService \ {r}
      BY <2>1, <2>2, <3>1, <3>2, <3>4 DEF InService
    <3>6. Owed' = Owed
      BY <2>1, <3>3, <3>4, <3>5 DEF Owed
    <3> QED
      BY <3>5, <3>6 DEF Promise!Complete
  <2> QED
    BY <2>3, <2>4
<1>6. CASE Tick
  <2> DEFINE T == {r \in Runs : jobs[r].expires = now + 1}
  <2>1. now \in Nat /\ now' = now + 1 /\ UNCHANGED <<jobs, wanted>>
    BY <1>6 DEF Tick, IInv, TypeOK
  <2>2. T \subseteq InService /\ InService' = InService \ T
    <3>1. \A r \in Runs : /\ jobs[r].expires = now + 1 => jobs[r].expires > now
                          /\ jobs[r].expires > now + 1 <=>
                               jobs[r].expires > now /\ jobs[r].expires # now + 1
      <4> TAKE r \in Runs
      <4>1. jobs[r].expires \in Nat
        BY Fields DEF IInv
      <4> QED
        BY <2>1, <4>1
    <3> QED
      BY <2>1, <3>1 DEF InService
  <2>3. \A r \in T : jobs[r].queued
    BY <2>1, Fields DEF IInv, WellFormed, NoJob
  <2>4. Owed' = Owed \cup T
    BY <2>1, <2>2, <2>3 DEF Owed
  <2>5. Promise!Redeliver(T) /\ T \in SUBSET Runs
    BY <2>2, <2>4 DEF Promise!Redeliver
  <2> QED
    BY <2>5 DEF Promise!Next
<1>7. CASE UNCHANGED vars
  BY <1>4, <1>7 DEF vars
<1>8. ASSUME NEW w \in Workers, NEW r \in Runs, LoseLease(w, r)
      PROVE  UNCHANGED Promise!vars
  BY <1>4, <1>8 DEF LoseLease
<1>9. ASSUME NEW w \in Workers, Crash(w)
      PROVE  UNCHANGED Promise!vars
  BY <1>4, <1>9 DEF Crash
<1> QED
  BY <1>1, <1>2, <1>3, <1>5, <1>6, <1>7, <1>8, <1>9 DEF Next, Promise!Next

(* The queue implements WakeDelivery: a run that is owed a dispatch is given out    *)
(* once at a time, and given out again unless the dispatch completes.               *)
THEOREM ImplementsPromise == Spec => KeepsPromise
<1>1. Init => Promise!Init
  BY DEF Init, Promise!Init, Owed, InService, NoJob
<1>2. IInv /\ [Next]_vars => [Promise!Next]_(Promise!vars)
  BY StepKeepsPromise
<1> QED
  BY <1>1, <1>2, Inductive, PTL DEF Spec, KeepsPromise, Promise!Spec

=============================================================================
