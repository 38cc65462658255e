---------------------------- MODULE FanOutProofs ----------------------------
(***************************************************************************)
(* FanOut for every number of children and workers, every chunk size and   *)
(* every set of flows and troubles: that ctx.invoke keeps the promise of   *)
(* Nursery, and the types.                                                 *)
(*                                                                         *)
(* The promise is not inductive.  Once is due to the log: while the parent *)
(* is there, a position that is not written has spawned nobody, whoever    *)
(* stands at it.  Earned is due to what a worker can have read: a call it  *)
(* counts as answered, a join that is logged, or that it saw logged, rests *)
(* on outcomes the children have had, and those are never taken back.      *)
(***************************************************************************)
EXTENDS FanOut, FiniteSetTheorems, WellFoundedInduction, TLAPS

(* The children whose outcome lets the parent's call go on. *)
Paid == {k \in Kids : "done" \in ended[k] \/ (flow.settle /\ ended[k] # {})}

Rows ==
  /\ flow \in {s.flow : s \in Scenarios}
  /\ row \in [Runs -> RunRow] /\ \A r \in Runs : row[r].attempts = 0
  /\ births \in [Kids -> Nat] /\ \A k \in Kids : births[k] <= 1
  /\ \A k \in Kids : births[k] = 0 => row[k] = NoRun
  /\ ended \in [Kids -> SUBSET Terminal]
  /\ \A k \in Kids : Over(k) => row[k].status \in ended[k]

(* What the log vouches for: unborn children at the positions not written, and the       *)
(* outcomes a logged join was made from.                                                 *)
Logs ==
  /\ ~Lost(0) => \A p \in Positions \ log : \A k \in SpawnedAt(p) : births[k] = 0
  /\ JoinAt \in log => Kids \subseteq Paid

Holding == {"pc", "run", "lease", "seen", "call", "first", "wake", "out", "target", "todo", "live"}

(* What a process holds, and what it may take for granted of the children that paid. *)
Sound(x, calls, mode, paid) ==
  /\ DOMAIN x = Holding /\ x.run \in Runs /\ x.target \in Runs /\ x.todo \subseteq Kids
  /\ x.pc \in {"body", "join"} /\ x.run = 0 =>
       /\ DOMAIN x.call = calls
       /\ mode # "many" => \A q \in calls \cap Kids : x.call[q] = "ok" => q \in paid
  /\ x.pc = "join" => Kids \subseteq paid
  /\ x.run = 0 /\ JoinAt \in x.seen => Kids \subseteq paid

Ticks == DOMAIN at = Procs /\ \A p \in Procs : Sound(at[p], Calls, flow.mode, Paid)

IInv == Rows /\ Logs /\ Ticks

-----------------------------------------------------------------------------

LEMMA Constants ==
  /\ IsFiniteSet(Kids) /\ Cardinality(Kids) \in Nat /\ Kids = 1..Cardinality(Kids)
  /\ IsFiniteSet(Workers) /\ Workers \subseteq Nat \ {0}
  /\ ChunkSize \in Nat /\ ChunkSize > 0 /\ 0 \notin Kids /\ JoinAt \notin Runs
  /\ Kids \subseteq Nat /\ 0 \in Runs /\ Kids \subseteq Runs
<1>1. IsFiniteSet(Kids) /\ Cardinality(Kids) \in Nat /\ Kids = 1..Cardinality(Kids)
  BY FanOutConstants, FS_CardinalityType
<1> QED BY <1>1, FanOutConstants DEF Runs, JoinAt

LEMMA FlowTyped ==
  ASSUME Rows
  PROVE  /\ flow.mode \in Modes /\ flow.settle \in BOOLEAN /\ flow.naps \in BOOLEAN
         /\ flow.waits \subseteq Kids /\ Per \in Nat /\ Per > 0
BY FanOutConstants, Constants DEF Rows, Per

(* No two positions spawn the same child. *)
LEMMA Between ==
  ASSUME NEW p \in Nat, NEW q \in Nat, NEW c \in Nat, NEW k \in Nat,
         k <= p * c, (q - 1) * c < k, p < q
  PROVE  FALSE
<1>1. PICK d \in Nat : q - 1 = p + d
  <2>1. q - 1 - p \in Nat /\ q - 1 = p + (q - 1 - p)
    OBVIOUS
  <2> QED BY <2>1
<1>2. (p + d) * c = p * c + d * c /\ d * c \in Nat /\ p * c \in Nat
  OBVIOUS
<1> QED BY <1>1, <1>2

LEMMA SpawnedApart ==
  ASSUME Rows, NEW p \in Positions, NEW q \in Positions, NEW k \in Kids, k \in SpawnedAt(p), k \in SpawnedAt(q)
  PROVE  p = q
<1>1. p \in Nat /\ q \in Nat /\ k \in Nat /\ Per \in Nat
  BY Constants, FlowTyped DEF Positions
<1>2. k <= p * Per /\ (q - 1) * Per < k /\ k <= q * Per /\ (p - 1) * Per < k
  BY DEF SpawnedAt
<1>3. ~(p < q)
  BY <1>1, <1>2, Between
<1>4. ~(q < p)
  BY <1>1, <1>2, Between
<1> QED BY <1>1, <1>3, <1>4

(* Where a call invokes one child, every child has its call, and the call is its number. *)
LEMMA OneEach ==
  ASSUME Rows, flow.mode # "many"
  PROVE  Positions = Kids /\ \A p \in Kids : SpawnedAt(p) = {p}
<1>1. \A p, k \in Kids : (p - 1) * 1 < k /\ k <= p * 1 <=> k = p
  BY Constants
<1> QED BY <1>1 DEF Positions, SpawnedAt, Per

LEMMA CallsTyped ==
  ASSUME Rows
  PROVE  Positions \subseteq Calls /\ Calls \subseteq Runs /\ JoinAt \notin Calls /\ \A p \in Calls : p # NapAt => p \in Positions
BY Constants DEF Calls, Positions, NapAt, Runs

-----------------------------------------------------------------------------
(* What the step makes of what a process holds *)

LEMMA MorePaid ==
  ASSUME NEW x, NEW c, NEW m, NEW P, NEW Q, P \subseteq Q, Sound(x, c, m, P)
  PROVE  Sound(x, c, m, Q)
BY DEF Sound

LEMMA Records ==
  ASSUME NEW x, NEW c, NEW m, NEW P, Sound(x, c, m, P)
  PROVE  /\ Sound(Idle, c, m, P) /\ Sound(Kept(x), c, m, P) /\ Sound(Acking(x), c, m, P)
         /\ \A pc : pc \notin {"body", "join"} =>
              /\ Sound([x EXCEPT !.pc = pc], c, m, P) /\ Sound([Kept(x) EXCEPT !.pc = pc], c, m, P)
              /\ Sound([Idle EXCEPT !.pc = pc], c, m, P)
              /\ \A o : /\ Sound([Kept(x) EXCEPT !.out = o, !.pc = pc], c, m, P)
                        /\ Sound([x EXCEPT !.pc = pc, !.out = o], c, m, P)
         /\ \A r \in Runs : Sound(Looked(x, r), c, m, P) /\ Sound(Looked(Idle, r), c, m, P)
         /\ Sound(Onward(x), c, m, P)
         /\ \A S : S \subseteq Kids => Sound(Onward([x EXCEPT !.todo = S]), c, m, P)
<1>1. Sound(Idle, c, m, P) /\ Idle.pc = "idle" /\ DOMAIN Idle = Holding
  BY Constants DEF Sound, Idle, Holding
<1>2. ASSUME NEW y, Sound(y, c, m, P)
      PROVE  Sound(Kept(y), c, m, P) /\ Kept(y).pc = "idle" /\ Kept(y).seen = {}
             /\ Kept(y).todo = {} /\ Kept(y).target = 0 /\ Kept(y).run = y.run
  BY <1>2, Constants DEF Sound, Idle, Holding, Kept
<1>3. ASSUME NEW y, Sound(y, c, m, P), NEW pc, pc \notin {"body", "join"}
      PROVE  /\ Sound([y EXCEPT !.pc = pc], c, m, P)
             /\ \A o : Sound([y EXCEPT !.pc = pc, !.out = o], c, m, P) /\ Sound([y EXCEPT !.out = o, !.pc = pc], c, m, P)
             /\ \A r \in Runs : \A b : Sound([y EXCEPT !.pc = pc, !.target = r, !.live = b], c, m, P)
             /\ \A S : S \subseteq Kids => Sound([y EXCEPT !.pc = pc, !.todo = S], c, m, P)
  BY <1>3 DEF Sound, Holding
<1>4. ASSUME NEW y, Sound(y, c, m, P) PROVE Sound(Acking(y), c, m, P)
  BY <1>2, <1>3, <1>4 DEF Acking
<1>5. ASSUME NEW y, Sound(y, c, m, P) PROVE Sound(Onward(y), c, m, P)
  <2>1. y.todo \subseteq Kids
    BY <1>5 DEF Sound
  <2> QED BY <1>1, <1>2, <1>3, <1>4, <1>5, <2>1 DEF Onward
<1>6. ASSUME NEW S, S \subseteq Kids PROVE Sound([x EXCEPT !.todo = S], c, m, P)
  BY <1>6 DEF Sound, Holding
<1> QED BY <1>1, <1>2, <1>3, <1>4, <1>5, <1>6 DEF Looked

(* A step of one process, and of nobody else. *)
LEMMA Moved ==
  ASSUME Ticks, NEW p \in Procs, NEW x, Goes(p, x), flow' = flow, Paid \subseteq Paid',
         Sound(x, Calls, flow.mode, Paid')
  PROVE  Ticks'
<1>1. Calls' = Calls
  BY DEF Calls, Positions, SpawnedAt, Per
<1>2. \A q \in Procs : at'[q] = IF q = p THEN x ELSE at[q]
  BY DEF Ticks, Goes
<1>3. \A q \in Procs : Sound(at[q], Calls, flow.mode, Paid')
  BY MorePaid DEF Ticks
<1>4. DOMAIN at' = Procs
  BY DEF Ticks, Goes
<1> QED BY <1>1, <1>2, <1>3, <1>4 DEF Ticks

LEMMA NobodyMoved ==
  ASSUME Ticks, at' = at, flow' = flow, Paid \subseteq Paid'
  PROVE  Ticks'
<1>1. Calls' = Calls
  BY DEF Calls, Positions, SpawnedAt, Per
<1>2. \A q \in Procs : Sound(at[q], Calls, flow.mode, Paid')
  BY MorePaid DEF Ticks
<1> QED BY <1>1, <1>2 DEF Ticks

-----------------------------------------------------------------------------
(* What the step makes of rows and log *)

LEMMA RowOps ==
  ASSUME NEW r \in RunRow
  PROVE  /\ MarkedRunning(r) \in RunRow /\ Fresh \in RunRow /\ NoRun \in RunRow
         /\ \A s \in Active : Suspended(r, s) \in RunRow
         /\ \A o \in Terminal : Terminated(r, o) \in RunRow
BY DEF RunRow, MarkedRunning, Fresh, NoRun, Suspended, Terminated, Active, Terminal

LEMMA PutRows ==
  ASSUME Rows, NEW r \in Runs, NEW rec \in RunRow, Put(r, rec), flow' = flow, births' = births,
         r \in Kids => births[r] # 0
  PROVE  /\ Rows' /\ Paid \subseteq Paid' /\ row'[r].status = rec.status
         /\ \A q \in Runs : q # r => row'[q] = row[q]
<1>1. \A q \in Runs : row'[q] = IF q = r THEN [rec EXCEPT !.attempts = 0] ELSE row[q]
  BY DEF Put, Rows
<1>2. [rec EXCEPT !.attempts = 0] \in RunRow /\ [rec EXCEPT !.attempts = 0].attempts = 0
      /\ [rec EXCEPT !.attempts = 0].status = rec.status
  BY DEF RunRow
<1>3. row' \in [Runs -> RunRow] /\ \A q \in Runs : row'[q].attempts = 0
  BY <1>1, <1>2 DEF Put, Rows
<1>4. \A k \in Kids : ended'[k] = IF k = r /\ rec.status \in Terminal THEN ended[k] \cup {rec.status}
                                   ELSE ended[k]
  BY DEF Put
<1>5. ended' \in [Kids -> SUBSET Terminal]
  <2>1. \A k \in Kids : (IF k = r /\ rec.status \in Terminal THEN ended[k] \cup {rec.status} ELSE ended[k]) \in SUBSET Terminal
    BY DEF Rows
  <2> QED BY <2>1 DEF Put
<1>6. \A k \in Kids : Over(k)' => row'[k].status \in ended'[k]
  BY <1>1, <1>2, <1>4, Constants DEF Rows, Over
<1>7. \A k \in Kids : births'[k] = 0 => row'[k] = NoRun
  BY <1>1, Constants DEF Rows
<1>8. Paid \subseteq Paid'
  BY <1>4 DEF Paid
<1> QED BY <1>1, <1>2, <1>3, <1>5, <1>6, <1>7, <1>8 DEF Rows

(* The log keeps its word while the parent is there and nobody is born. *)
LEMMA LogsKept ==
  ASSUME Logs, flow' = flow, births' = births, Paid \subseteq Paid', ~Lost(0)' => ~Lost(0) /\ log \subseteq log',
         JoinAt \in log' => JoinAt \in log \/ Kids \subseteq Paid'
  PROVE  Logs'
<1>1. \A p \in Kids : SpawnedAt(p)' = SpawnedAt(p)
  BY DEF SpawnedAt, Per
<1>2. Positions' = Positions /\ Positions \subseteq Kids
  BY <1>1 DEF Positions
<1> QED BY <1>1, <1>2 DEF Logs

LEMMA PutKeeps ==
  ASSUME Rows, Logs, NEW r \in Runs, ~Lost(r), NEW rec \in RunRow, Put(r, rec), flow' = flow, births' = births,
         log' = log \/ (r = 0 /\ rec = NoRun /\ log' = {})
  PROVE  Rows' /\ Logs' /\ Paid \subseteq Paid'
<1>1. r \in Kids => births[r] # 0
  BY DEF Rows, Lost
<1>2. Rows' /\ Paid \subseteq Paid' /\ \A q \in Runs : q # r => row'[q] = row[q]
  BY <1>1, PutRows
<1>3. ~Lost(0)' => ~Lost(0) /\ log \subseteq log'
  <2>1. CASE log' = log
    BY <1>2, <2>1, Constants DEF Lost
  <2>2. CASE r = 0 /\ rec = NoRun
    <3>1. row'[0] = NoRun
      BY <2>2, Constants DEF Put, Rows, NoRun
    <3> QED BY <3>1 DEF Lost
  <2> QED BY <2>1, <2>2
<1> QED BY <1>2, <1>3, LogsKept

LEMMA RowsLeft ==
  ASSUME Rows, Logs, UNCHANGED <<flow, row, births, ended>>, log' = log
  PROVE  Rows' /\ Logs' /\ Paid \subseteq Paid'
<1>1. Rows' /\ Paid' = Paid
  BY DEF Rows, Paid, Over
<1> QED BY <1>1, LogsKept DEF Lost

(* The first worker at a position spawns its children, and none of another's. *)
LEMMA SpawnedKeeps ==
  ASSUME Rows, Logs, ~Lost(0), NEW w, NEW p \in Positions, p \notin log, Spawned(w, p), flow' = flow, ended' = ended
  PROVE  /\ Rows' /\ Logs' /\ Paid \subseteq Paid'
         /\ \A k \in Kids : IF k \in SpawnedAt(p) THEN births[k] = 0 /\ births'[k] = 1 /\ row'[k] = Fresh
                            ELSE births'[k] = births[k] /\ row'[k] = row[k]
         /\ row'[0] = row[0]
<1>1. /\ log' = log \cup {p}
      /\ births' = [k \in Kids |-> IF k \in SpawnedAt(p) THEN births[k] + 1 ELSE births[k]]
      /\ row' = [r \in Runs |-> IF r \in SpawnedAt(p) THEN Fresh ELSE row[r]]
  BY DEF Spawned
<1>2. \A k \in SpawnedAt(p) : k \in Kids /\ births[k] = 0
  BY DEF Logs, SpawnedAt
<1>3. /\ \A k \in Kids : IF k \in SpawnedAt(p) THEN births[k] = 0 /\ births'[k] = 1 /\ row'[k] = Fresh
                         ELSE births'[k] = births[k] /\ row'[k] = row[k]
      /\ row'[0] = row[0]
  BY <1>1, <1>2, Constants
<1>4. Rows'
  <2>1. row' \in [Runs -> RunRow] /\ \A r \in Runs : row'[r].attempts = 0
    BY <1>1, RowOps DEF Rows, Fresh
  <2>2. births' \in [Kids -> Nat] /\ \A k \in Kids : births'[k] <= 1
    <3>1. \A k \in Kids : births[k] \in Nat /\ births[k] <= 1
      BY DEF Rows
    <3>2. \A k \in Kids : births'[k] \in Nat /\ births'[k] <= 1
      BY <1>3, <3>1
    <3> QED BY <1>1, <3>2
  <2>3. \A k \in Kids : births'[k] = 0 => row'[k] = NoRun
    BY <1>3 DEF Rows
  <2>4. \A k \in Kids : Over(k)' => row'[k].status \in ended'[k]
    BY <1>3 DEF Rows, Over, Fresh, Terminal
  <2> QED BY <2>1, <2>2, <2>3, <2>4 DEF Rows
<1>5. Paid' = Paid
  BY DEF Paid
<1>6. Positions' = Positions /\ \A q : SpawnedAt(q)' = SpawnedAt(q)
  BY DEF Positions, SpawnedAt, Per
<1>7. \A q \in Positions \ log' : \A k \in SpawnedAt(q) : births'[k] = 0
  <2> TAKE q \in Positions \ log'
  <2> TAKE k \in SpawnedAt(q)
  <2>1. k \in Kids /\ q # p /\ q \notin log
    BY <1>1 DEF SpawnedAt
  <2>2. k \notin SpawnedAt(p)
    BY <2>1, SpawnedApart
  <2> QED BY <1>3, <2>1, <2>2 DEF Logs
<1>8. JoinAt \in log' => JoinAt \in log
  BY <1>1, CallsTyped
<1>9. Logs'
  BY <1>3, <1>5, <1>6, <1>7, <1>8 DEF Logs
<1> QED BY <1>3, <1>4, <1>5, <1>9


-----------------------------------------------------------------------------
(* What Nursery sees of the step *)

ParentBar == IF Live(0) THEN "live" ELSE IF Lost(0) THEN "gone" ELSE row[0].status
KidBar == [k \in Kids |-> IF births[k] = 0 THEN "unborn" ELSE IF births[k] > 1 THEN "twins"
                          ELSE IF Live(k) THEN "live" ELSE IF Lost(k) THEN "gone"
                          ELSE row[k].status]

(* It is shown only what happens to the parent, to the children and to their outcomes. *)
LEMMA Seen ==
  /\ flow' = flow /\ ParentBar' = ParentBar /\ KidBar' = KidBar /\ ended' = ended => UNCHANGED Promise!vars
  /\ \A k \in Kids, o \in Terminal :
       /\ KidBar[k] = "live" /\ flow' = flow /\ ParentBar' = ParentBar
       /\ KidBar' = [KidBar EXCEPT ![k] = o] /\ ended' = [ended EXCEPT ![k] = @ \cup {o}]
       => Promise!Next
  /\ \A k \in Kids :
       /\ KidBar[k] = "failed" /\ KidBar' = [KidBar EXCEPT ![k] = "live"]
       /\ flow' = flow /\ ParentBar' = ParentBar /\ ended' = ended
       => Promise!Next
  /\ \A k \in Kids :
       /\ KidBar[k] \in Terminal /\ KidBar' = [KidBar EXCEPT ![k] = "gone"]
       /\ flow' = flow /\ ParentBar' = ParentBar /\ ended' = ended
       => Promise!Next
  /\ \A S \in SUBSET Kids :
       /\ S # {} /\ (\A k \in S : KidBar[k] = "unborn")
       /\ KidBar' = [k \in Kids |-> IF k \in S THEN "live" ELSE KidBar[k]]
       /\ flow' = flow /\ ParentBar' = ParentBar /\ ended' = ended
       => Promise!Next
  /\ /\ flow' = flow /\ KidBar' = KidBar /\ ended' = ended
     /\ \/ ParentBar = "live" /\ ParentBar' \in Terminal /\ (ParentBar' = "done" => Kids \subseteq Paid)
        \/ ParentBar = "failed" /\ ParentBar' = "live"
        \/ ParentBar \in Terminal /\ ParentBar' = "gone"
     => Promise!Next
<1> USE DEF ParentBar, KidBar, Terminal
<1>1. ASSUME flow' = flow, ParentBar' = ParentBar, KidBar' = KidBar, ended' = ended
      PROVE  UNCHANGED Promise!vars
  BY <1>1 DEF Promise!vars
<1>2. ASSUME NEW k \in Kids, NEW o \in Terminal,
             KidBar[k] = "live", flow' = flow, ParentBar' = ParentBar,
             KidBar' = [KidBar EXCEPT ![k] = o], ended' = [ended EXCEPT ![k] = @ \cup {o}]
      PROVE  Promise!Next
  BY <1>2 DEF Promise!Next, Promise!Ends, Promise!Outcomes
<1>3. ASSUME NEW k \in Kids, KidBar[k] = "failed", KidBar' = [KidBar EXCEPT ![k] = "live"],
             flow' = flow, ParentBar' = ParentBar, ended' = ended
      PROVE  Promise!Next
  BY <1>3 DEF Promise!Next, Promise!Revive
<1>4. ASSUME NEW k \in Kids, KidBar[k] \in Terminal, KidBar' = [KidBar EXCEPT ![k] = "gone"],
             flow' = flow, ParentBar' = ParentBar, ended' = ended
      PROVE  Promise!Next
  BY <1>4 DEF Promise!Next, Promise!Forget, Promise!Outcomes
<1>5. ASSUME NEW S \in SUBSET Kids, S # {}, \A k \in S : KidBar[k] = "unborn",
             KidBar' = [k \in Kids |-> IF k \in S THEN "live" ELSE KidBar[k]],
             flow' = flow, ParentBar' = ParentBar, ended' = ended
      PROVE  Promise!Next
  BY <1>5 DEF Promise!Next, Promise!Spawn
<1>6. ASSUME flow' = flow, KidBar' = KidBar, ended' = ended,
             \/ ParentBar = "live" /\ ParentBar' \in Terminal /\ (ParentBar' = "done" => Kids \subseteq Paid)
             \/ ParentBar = "failed" /\ ParentBar' = "live"
             \/ ParentBar \in Terminal /\ ParentBar' = "gone"
      PROVE  Promise!Next
  BY <1>6 DEF Promise!Next, Promise!Close, Promise!Reopen, Promise!ForgetParent, Promise!Earned,
              Promise!Outcomes, Paid
<1> HIDE DEF ParentBar, KidBar, Terminal
<1> QED BY <1>1, <1>2, <1>3, <1>4, <1>5, <1>6


(* What may become of a row that is there. *)
Turns(from, to) ==
  \/ from = to /\ from # "absent"
  \/ from \in Active /\ to \in Active \cup Terminal
  \/ from = "failed" /\ to = "pending"
  \/ from \in Terminal /\ to = "absent"

(* A child's row is turned. *)
LEMMA KidTurned ==
  ASSUME Rows, NEW r \in Kids, births[r] # 0, NEW rec \in RunRow, Put(r, rec), flow' = flow, births' = births,
         Turns(row[r].status, rec.status)
  PROVE  Promise!Next \/ UNCHANGED Promise!vars
<1>1. r \in Runs /\ births[r] = 1 /\ row[r] \in RunRow /\ row[r].attempts = 0
  BY Constants DEF Rows
<1>2. /\ \A q \in Runs : q # r => row'[q] = row[q]
      /\ row'[r].status = rec.status /\ Rows'
  BY <1>1, PutRows
<1>3. row'[r] \in RunRow /\ row'[r].attempts = 0
  BY <1>1, <1>2 DEF Rows
<1>4. /\ Lost(r) <=> row[r].status = "absent"
      /\ Lost(r)' <=> row'[r].status = "absent"
  BY <1>1, <1>3 DEF Lost, RunRow, NoRun
<1> DEFINE Bar(s) == IF s \in Active THEN "live" ELSE IF s = "absent" THEN "gone" ELSE s
<1>5. KidBar[r] = Bar(row[r].status) /\ KidBar'[r] = Bar(rec.status)
  BY <1>1, <1>2, <1>4 DEF KidBar, Live
<1>6. KidBar' = [KidBar EXCEPT ![r] = Bar(rec.status)]
  <2>1. \A k \in Kids : k # r => KidBar'[k] = KidBar[k]
    BY <1>2, Constants DEF KidBar, Live, Lost
  <2>2. DOMAIN KidBar' = Kids /\ DOMAIN KidBar = Kids
    BY DEF KidBar
  <2>3. KidBar' = [k \in Kids |-> KidBar'[k]] /\ KidBar = [k \in Kids |-> KidBar[k]]
    BY DEF KidBar
  <2> HIDE DEF Bar
  <2> QED BY <1>5, <2>1, <2>2, <2>3
<1>7. ParentBar' = ParentBar
  BY <1>2, Constants DEF ParentBar, Live, Lost
<1>8. ended' = IF rec.status \in Terminal THEN [ended EXCEPT ![r] = @ \cup {rec.status}] ELSE ended
  <2>1. \A k \in Kids : ended'[k] = IF k = r /\ rec.status \in Terminal THEN ended[k] \cup {rec.status} ELSE ended[k]
    BY DEF Put
  <2>2. ended' = [k \in Kids |-> ended'[k]] /\ ended = [k \in Kids |-> ended[k]]
    BY DEF Put, Rows
  <2> QED BY <2>1, <2>2
<1>9. CASE row[r].status = rec.status
  <2>1. ended' = ended
    <3>1. rec.status \in Terminal => ended[r] \cup {rec.status} = ended[r]
      BY <1>1, <1>9 DEF Rows, Over
    <3> QED BY <1>8, <3>1 DEF Rows
  <2>2. KidBar' = KidBar
    <3>1. KidBar = [k \in Kids |-> KidBar[k]]
      BY DEF KidBar
    <3> HIDE DEF Bar
    <3> QED BY <1>5, <1>6, <1>9, <3>1
  <2> QED BY <1>7, <2>1, <2>2, Seen
<1>10. CASE row[r].status \in Active /\ rec.status \in Active
  <2>1. ended' = ended /\ Bar(row[r].status) = Bar(rec.status)
    BY <1>8, <1>10 DEF Active, Terminal
  <2>2. KidBar' = KidBar
    <3>1. KidBar = [k \in Kids |-> KidBar[k]]
      BY DEF KidBar
    <3> HIDE DEF Bar
    <3> QED BY <1>5, <1>6, <2>1, <3>1
  <2> QED BY <1>7, <2>1, <2>2, Seen
<1>11. CASE row[r].status \in Active /\ rec.status \in Terminal
  <2>1. KidBar[r] = "live" /\ Bar(rec.status) = rec.status /\ ended' = [ended EXCEPT ![r] = @ \cup {rec.status}]
    BY <1>5, <1>8, <1>11 DEF Active, Terminal
  <2> QED BY <1>6, <1>7, <1>11, <2>1, Seen
<1>12. CASE row[r].status = "failed" /\ rec.status = "pending"
  <2>1. KidBar[r] = "failed" /\ Bar(rec.status) = "live" /\ ended' = ended
    BY <1>5, <1>8, <1>12 DEF Active, Terminal
  <2> QED BY <1>6, <1>7, <2>1, Seen
<1>13. CASE row[r].status \in Terminal /\ rec.status = "absent"
  <2>1. KidBar[r] \in Terminal /\ Bar(rec.status) = "gone" /\ ended' = ended
    BY <1>5, <1>8, <1>13 DEF Active, Terminal
  <2> QED BY <1>6, <1>7, <2>1, Seen
<1> QED BY <1>9, <1>10, <1>11, <1>12, <1>13 DEF Turns

(* The parent's row is turned; to done only when its children paid. *)
LEMMA ParentTurned ==
  ASSUME Rows, NEW rec \in RunRow, Put(0, rec), flow' = flow, births' = births, ~Lost(0),
         Turns(row[0].status, rec.status),
         row[0].status \in Active /\ rec.status = "done" => Kids \subseteq Paid
  PROVE  Promise!Next \/ UNCHANGED Promise!vars
<1>1. 0 \in Runs /\ 0 \notin Kids /\ row[0] \in RunRow /\ row[0].attempts = 0
  BY Constants DEF Rows
<1>2. /\ \A q \in Kids : row'[q] = row[q]
      /\ row'[0].status = rec.status /\ Rows'
  BY <1>1, Constants, PutRows
<1>3. row'[0] \in RunRow /\ row'[0].attempts = 0
  BY <1>1, <1>2 DEF Rows
<1>4. Lost(0)' <=> row'[0].status = "absent"
  BY <1>3 DEF Lost, RunRow, NoRun
<1> DEFINE Bar(s) == IF s \in Active THEN "live" ELSE IF s = "absent" THEN "gone" ELSE s
<1>5. ParentBar = Bar(row[0].status) /\ ParentBar' = Bar(rec.status)
  <2>1. row[0].status # "absent"
    BY <1>1 DEF Lost, RunRow, NoRun
  <2> QED BY <1>2, <1>4, <2>1 DEF ParentBar, Live
<1>6. KidBar' = KidBar
  BY <1>2 DEF KidBar, Live, Lost
<1>7. ended' = ended
  BY <1>1 DEF Put, Rows
<1>8. CASE Bar(rec.status) = Bar(row[0].status)
  BY <1>5, <1>6, <1>7, <1>8, Seen
<1>9. CASE row[0].status \in Active /\ rec.status \in Terminal
  <2>1. ParentBar = "live" /\ ParentBar' = rec.status
    BY <1>5, <1>9 DEF Active, Terminal
  <2> QED BY <1>6, <1>7, <1>9, <2>1, Seen
<1>10. CASE row[0].status = "failed" /\ rec.status = "pending"
  <2>1. ParentBar = "failed" /\ ParentBar' = "live"
    BY <1>5, <1>10 DEF Active, Terminal
  <2> QED BY <1>6, <1>7, <2>1, Seen
<1>11. CASE row[0].status \in Terminal /\ rec.status = "absent"
  <2>1. ParentBar \in Terminal /\ ParentBar' = "gone"
    BY <1>5, <1>11 DEF Active, Terminal
  <2> QED BY <1>6, <1>7, <2>1, Seen
<1>12. row[0].status \in Active /\ rec.status \in Active => Bar(rec.status) = Bar(row[0].status)
  OBVIOUS
<1> QED BY <1>8, <1>9, <1>10, <1>11, <1>12 DEF Turns

(* What there is to say of a step that turns one row, and of one that turns none. *)
Advances == Rows' /\ Logs' /\ Paid \subseteq Paid' /\ flow' = flow /\ (Promise!Next \/ UNCHANGED Promise!vars)

LEMMA PutAdvances ==
  ASSUME Rows, Logs, NEW r \in Runs, ~Lost(r), NEW rec \in RunRow, Put(r, rec), flow' = flow, births' = births,
         log' = log \/ (r = 0 /\ rec = NoRun /\ log' = {}),
         Turns(row[r].status, rec.status),
         r = 0 /\ row[0].status \in Active /\ rec.status = "done" => Kids \subseteq Paid
  PROVE  Advances
<1>1. Rows' /\ Logs' /\ Paid \subseteq Paid'
  BY PutKeeps
<1>2. CASE r = 0
  BY <1>1, <1>2, ParentTurned DEF Advances
<1>3. CASE r # 0
  <2>1. r \in Kids /\ births[r] # 0
    BY <1>3 DEF Runs, Rows, Lost
  <2> QED BY <1>1, <2>1, KidTurned DEF Advances
<1> QED BY <1>2, <1>3

LEMMA LeftAdvances ==
  ASSUME Rows, Logs, UNCHANGED <<flow, row, births, ended>>, ~Lost(0) => log \subseteq log',
         JoinAt \in log' => JoinAt \in log \/ Kids \subseteq Paid
  PROVE  Advances
<1>1. Rows' /\ Paid' = Paid
  BY DEF Rows, Paid, Over
<1>2. Logs'
  BY <1>1, LogsKept DEF Lost
<1>3. ParentBar' = ParentBar /\ KidBar' = KidBar
  BY DEF ParentBar, KidBar, Live, Lost
<1> QED BY <1>1, <1>2, <1>3, Seen DEF Advances

LEMMA SpawnAdvances ==
  ASSUME Rows, Logs, ~Lost(0), NEW w, NEW p \in Positions, p \notin log, Spawned(w, p), flow' = flow, ended' = ended
  PROVE  Advances
<1>1. /\ Rows' /\ Logs' /\ Paid \subseteq Paid'
      /\ \A k \in Kids : IF k \in SpawnedAt(p) THEN births[k] = 0 /\ births'[k] = 1 /\ row'[k] = Fresh
                         ELSE births'[k] = births[k] /\ row'[k] = row[k]
      /\ row'[0] = row[0]
  BY SpawnedKeeps
<1>2. ParentBar' = ParentBar
  BY <1>1 DEF ParentBar, Live, Lost
<1>3. SpawnedAt(p) \in SUBSET Kids /\ SpawnedAt(p) # {}
  BY DEF Positions, SpawnedAt
<1>4. \A k \in SpawnedAt(p) : KidBar[k] = "unborn"
  BY <1>1, <1>3 DEF KidBar
<1>5. KidBar' = [k \in Kids |-> IF k \in SpawnedAt(p) THEN "live" ELSE KidBar[k]]
  <2>1. \A k \in Kids : k \in SpawnedAt(p) => KidBar'[k] = "live"
    BY <1>1 DEF KidBar, Live, Fresh, Active
  <2>2. \A k \in Kids : k \notin SpawnedAt(p) => KidBar'[k] = KidBar[k]
    BY <1>1 DEF KidBar, Live, Lost
  <2>3. KidBar' = [k \in Kids |-> KidBar'[k]]
    BY DEF KidBar
  <2> QED BY <2>1, <2>2, <2>3
<1> QED BY <1>1, <1>2, <1>3, <1>4, <1>5, Seen DEF Advances


-----------------------------------------------------------------------------
(* Action by action: first those that turn no row *)

LEMMA OfProcs == Workers \subseteq Procs /\ User \in Procs
BY DEF Procs

(* A process that moves on while the rows, and what was born and ended, stay. *)
LEMMA Quietly ==
  ASSUME IInv, NEW p \in Procs, NEW x, Goes(p, x), UNCHANGED <<flow, row, births, ended>>,
         ~Lost(0) => log \subseteq log', JoinAt \in log' => JoinAt \in log \/ Kids \subseteq Paid,
         Sound(x, Calls, flow.mode, Paid)
  PROVE  Advances /\ Ticks'
<1>1. Rows /\ Logs /\ Ticks /\ Paid' = Paid
  BY DEF IInv, Paid
<1>2. Advances
  BY <1>1, LeftAdvances
<1>3. Paid \subseteq Paid' /\ Sound(x, Calls, flow.mode, Paid')
  BY <1>1
<1> QED BY <1>1, <1>2, <1>3, Moved

LEMMA Unmoved ==
  ASSUME IInv, UNCHANGED <<flow, row, births, ended, log, at>>
  PROVE  Advances /\ Ticks'
<1>1. Rows /\ Logs /\ Ticks /\ Paid' = Paid
  BY DEF IInv, Paid
<1> QED BY <1>1, LeftAdvances, NobodyMoved

LEMMA Facts ==
  ASSUME IInv, NEW p \in Procs
  PROVE  /\ Sound(at[p], Calls, flow.mode, Paid)
         /\ at[p].run \in Runs /\ at[p].target \in Runs /\ at[p].todo \subseteq Kids
         /\ \A k \in Kids : Answer(k) = "ok" => k \in Paid
<1>1. Sound(at[p], Calls, flow.mode, Paid)
  BY DEF IInv, Ticks
<1>2. ASSUME NEW k \in Kids, Answer(k) = "ok" PROVE k \in Paid
  <2>1. \/ row[k].status = "done"
        \/ row[k].status \in {"failed", "canceled"} /\ flow.settle
    BY <1>2 DEF Answer, Fallen
  <2>2. row[k].status \in ended[k]
    BY <2>1 DEF IInv, Rows, Over, Terminal
  <2> QED BY <2>1, <2>2 DEF Paid
<1> QED BY <1>1, <1>2 DEF Sound

LEMMA ClaimMoves ==
  ASSUME IInv, NEW w \in Workers, NEW r \in Runs, Claim(w, r)
  PROVE  Advances /\ Ticks'
<1> DEFINE x == [Idle EXCEPT !.pc = "load", !.run = r, !.lease = LeaseOn(job'[r])]
<1>1. Sound(x, Calls, flow.mode, Paid)
  BY Constants DEF Sound, Idle, Holding
<1>2. Goes(w, x) /\ UNCHANGED <<flow, row, births, ended, log>>
  BY DEF Claim, store
<1> HIDE DEF x
<1> QED BY <1>1, <1>2, OfProcs, Quietly

LEMMA LoadMoves ==
  ASSUME IInv, NEW w \in Workers, Load(w)
  PROVE  Advances /\ Ticks'
<1> DEFINE r == at[w].run
           next == IF r = 0 THEN "mark" ELSE "pull"
           seen == IF r = 0 THEN log ELSE told \cap {r}
           y == [Kept(at[w]) EXCEPT !.pc = next, !.seen = seen]
           x == IF Lost(r) \/ Over(r) THEN Acking(at[w]) ELSE y
<1>1. Sound(at[w], Calls, flow.mode, Paid)
  BY Facts, OfProcs
<1>2. Sound(Kept(at[w]), Calls, flow.mode, Paid) /\ Kept(at[w]).run = r
  BY <1>1, Records DEF Kept, Idle
<1>3. Sound(y, Calls, flow.mode, Paid)
  <2>1. JoinAt \in log => Kids \subseteq Paid
    BY DEF IInv, Logs
  <2> QED BY <1>2, <2>1 DEF Sound, Holding
<1>4. Sound(x, Calls, flow.mode, Paid)
  BY <1>1, <1>3, Records
<1>5. Goes(w, x) /\ UNCHANGED <<flow, row, births, ended, log>>
  BY DEF Load, store
<1> HIDE DEF x
<1> QED BY <1>4, <1>5, OfProcs, Quietly

LEMMA PullMoves ==
  ASSUME IInv, NEW w \in Workers, PullCheck(w) \/ CancelSelf(w) \/ Ack(w) \/ DrainTimer(w)
  PROVE  Advances /\ Ticks'
<1>1. Sound(at[w], Calls, flow.mode, Paid) /\ at[w].run \in Runs
  BY Facts, OfProcs
<1>2. UNCHANGED <<flow, row, births, ended, log>>
  BY DEF PullCheck, CancelSelf, Ack, DrainTimer, store
<1>3. \E x : Goes(w, x) /\ Sound(x, Calls, flow.mode, Paid)
  <2>1. CASE PullCheck(w)
    <3> DEFINE x == IF Fallen(0) THEN [Kept(at[w]) EXCEPT !.pc = "fallen"] ELSE [at[w] EXCEPT !.pc = "mark"]
    <3>1. Sound(x, Calls, flow.mode, Paid)
      BY <1>1, <2>1, Records
    <3>2. Goes(w, x)
      BY <2>1 DEF PullCheck, Pull
    <3> QED BY <3>1, <3>2
  <2>2. CASE CancelSelf(w)
    <3> DEFINE x == Looked(at[w], at[w].run)
    <3>1. Sound(x, Calls, flow.mode, Paid)
      BY <1>1, <2>2, Records
    <3>2. Goes(w, x)
      BY <2>2 DEF CancelSelf
    <3> QED BY <3>1, <3>2
  <2>3. CASE Ack(w)
    <3> DEFINE x == Idle
    <3>1. Sound(x, Calls, flow.mode, Paid)
      BY <1>1, <2>3, Records
    <3>2. Goes(w, x)
      BY <2>3 DEF Ack
    <3> QED BY <3>1, <3>2
  <2>4. CASE DrainTimer(w)
    <3> DEFINE x == [Idle EXCEPT !.pc = "wake"]
    <3>1. Sound(x, Calls, flow.mode, Paid)
      BY <1>1, <2>4, Records
    <3>2. Goes(w, x)
      BY <2>4 DEF DrainTimer
    <3> QED BY <3>1, <3>2
  <2> QED BY <2>1, <2>2, <2>3, <2>4
<1> QED BY <1>2, <1>3, OfProcs, Quietly

LEMMA CancelMoves ==
  ASSUME IInv, NEW p \in Procs,
         Arrival(p) \/ Wake(p) \/ TellParent(p) \/ ListKids(p) \/ CancelKid(p) \/ RunGone(p) \/ Crash(p)
  PROVE  Advances /\ Ticks'
<1>1. Sound(at[p], Calls, flow.mode, Paid) /\ at[p].run \in Runs
  BY Facts
<1>2. UNCHANGED <<flow, row, births, ended, log>>
  BY DEF Arrival, Wake, TellParent, ListKids, CancelKid, RunGone, Crash, store
<1>3. \E x : Goes(p, x) /\ Sound(x, Calls, flow.mode, Paid)
  <2>1. CASE Arrival(p)
    <3> DEFINE pc == IF at[p].out # "done" \/ (~Lost(0) /\ left <= 1) THEN "wake" ELSE "ack"
               x == [at[p] EXCEPT !.pc = pc]
    <3>1. Goes(p, x) /\ pc \notin {"body", "join"}
      BY <2>1 DEF Arrival, Arrive
    <3>2. Sound(x, Calls, flow.mode, Paid)
      <4> HIDE DEF pc
      <4> QED BY <1>1, <3>1, Records
    <3> QED BY <3>1, <3>2
  <2>2. CASE Wake(p)
    <3> DEFINE x == Onward(at[p])
    <3>1. Sound(x, Calls, flow.mode, Paid)
      BY <1>1, <2>2, Records
    <3>2. Goes(p, x)
      BY <2>2 DEF Wake
    <3> QED BY <3>1, <3>2
  <2>3. CASE TellParent(p)
    <3> DEFINE x == IF Live(0) THEN [at[p] EXCEPT !.pc = "arrive", !.out = "canceled"] ELSE Onward(at[p])
    <3>1. Sound(x, Calls, flow.mode, Paid)
      BY <1>1, <2>3, Records
    <3>2. Goes(p, x)
      BY <2>3 DEF TellParent
    <3> QED BY <3>1, <3>2
  <2>4. CASE ListKids(p)
    <3> DEFINE x == Onward([at[p] EXCEPT !.todo = {k \in Kids : Live(k)}])
    <3>1. Sound(x, Calls, flow.mode, Paid)
      BY <1>1, <2>4, Records
    <3>2. Goes(p, x)
      BY <2>4 DEF ListKids
    <3> QED BY <3>1, <3>2
  <2>5. CASE CancelKid(p)
    <3>1. PICK k \in at[p].todo : Goes(p, Looked([at[p] EXCEPT !.todo = @ \ {k}], k))
      BY <2>5 DEF CancelKid
    <3> DEFINE y == [at[p] EXCEPT !.todo = @ \ {k}]
    <3>2. Sound(y, Calls, flow.mode, Paid)
      BY <1>1 DEF Sound, Holding
    <3>3. k \in Runs
      BY Facts, Constants
    <3> HIDE DEF y
    <3>4. Sound(Looked(y, k), Calls, flow.mode, Paid)
      BY <3>2, <3>3, Records
    <3> QED BY <3>1, <3>4 DEF y
  <2>6. CASE RunGone(p) \/ Crash(p)
    BY <1>1, <2>6, Records DEF RunGone, Crash
  <2> QED BY <2>1, <2>2, <2>3, <2>4, <2>5, <2>6
<1> QED BY <1>2, <1>3, Quietly

LEMMA CallerMoves ==
  ASSUME IInv, NEW r \in Runs, CancelRun(r)
  PROVE  Advances /\ Ticks'
<1>1. Sound(at[User], Calls, flow.mode, Paid)
  BY Facts, OfProcs
<1>2. Sound(Looked(Idle, r), Calls, flow.mode, Paid)
  BY <1>1, Records
<1> QED BY <1>2, OfProcs, Quietly DEF CancelRun, store


-----------------------------------------------------------------------------
(* The parent's body *)

LEMMA Calling ==
  ASSUME NEW x, NEW c, NEW m, NEW P, Sound(x, c, m, P), x.pc = "body", NEW p \in c, NEW ph,
         m # "many" /\ p \in Kids /\ ph = "ok" => p \in P
  PROVE  /\ Sound(Sets(x, p, ph), c, m, P) /\ \A b : Sound([Sets(x, p, ph) EXCEPT !.wake = b], c, m, P)
         /\ \A f : Sound([x EXCEPT !.first = f], c, m, P)
         /\ Kids \subseteq P => Sound([x EXCEPT !.pc = "join"], c, m, P)
<1> DEFINE first == IF x.first = "none" /\ ph \notin {"ok", "read"} THEN ph ELSE x.first
           y == [x EXCEPT !.call = [x.call EXCEPT ![p] = ph], !.first = first]
<1>1. Sets(x, p, ph) = y
  BY DEF Sets, Sound, Holding
<1>2. Sound(y, c, m, P) /\ \A b : Sound([y EXCEPT !.wake = b], c, m, P)
  <2> HIDE DEF first
  <2> QED BY DEF Sound, Holding
<1>3. \A f : Sound([x EXCEPT !.first = f], c, m, P)
  BY DEF Sound, Holding
<1>4. Kids \subseteq P => Sound([x EXCEPT !.pc = "join"], c, m, P)
  BY DEF Sound, Holding
<1> HIDE DEF y
<1> QED BY <1>1, <1>2, <1>3, <1>4

LEMMA ReadMoves ==
  ASSUME IInv, NEW w \in Workers, NEW p \in Calls, ReadChild(w, p)
  PROVE  Advances /\ Ticks'
<1>1. Sound(at[w], Calls, flow.mode, Paid) /\ at[w].pc = "body" /\ (Answer(p) = "ok" /\ p \in Kids => p \in Paid)
  BY Facts, OfProcs DEF ReadChild, Doing, InParent
<1>2. Sound(Sets(at[w], p, Answer(p)), Calls, flow.mode, Paid)
  BY <1>1, Calling
<1> QED BY <1>2, OfProcs, Quietly DEF ReadChild, store

LEMMA ReadAllMoves ==
  ASSUME IInv, NEW w \in Workers, ReadChildren(w)
  PROVE  Advances /\ Ticks'
<1>1. Sound(at[w], Calls, flow.mode, Paid) /\ at[w].pc = "body" /\ (Undecided = {} => Kids \subseteq Paid)
  BY Facts, OfProcs DEF ReadChildren, InParent, Undecided
<1> DEFINE x == IF Undecided = {} THEN [at[w] EXCEPT !.pc = "join"]
                ELSE [at[w] EXCEPT !.first = Answer(FirstOf(Undecided))]
<1>2. Sound(x, Calls, flow.mode, Paid)
  <2>1. Kids \subseteq Paid => Sound([at[w] EXCEPT !.pc = "join"], Calls, flow.mode, Paid)
    BY <1>1 DEF Sound, Holding
  <2>2. \A f : Sound([at[w] EXCEPT !.first = f], Calls, flow.mode, Paid)
    BY <1>1 DEF Sound, Holding
  <2> QED BY <1>1, <2>1, <2>2
<1>3. Goes(w, x) /\ UNCHANGED <<flow, row, births, ended, log>>
  BY DEF ReadChildren, store
<1> HIDE DEF x
<1> QED BY <1>2, <1>3, OfProcs, Quietly

LEMMA JoinMoves ==
  ASSUME IInv, NEW w \in Workers, LogJoin(w)
  PROVE  Advances /\ Ticks'
<1>1. Sound(at[w], Calls, flow.mode, Paid) /\ at[w].pc = "join"
  BY Facts, OfProcs DEF LogJoin
<1>2. Kids \subseteq Paid
  BY <1>1 DEF Sound
<1>3. Sound([at[w] EXCEPT !.pc = "body", !.seen = @ \cup {JoinAt}], Calls, flow.mode, Paid)
  BY <1>1, <1>2 DEF Sound, Holding
<1> QED BY <1>2, <1>3, OfProcs, Quietly DEF LogJoin

LEMMA SleepMoves ==
  ASSUME IInv, NEW w \in Workers, Sleep(w)
  PROVE  Advances /\ Ticks'
<1>1. Sound(at[w], Calls, flow.mode, Paid) /\ at[w].pc = "body" /\ NapAt \in Calls /\ NapAt \notin Kids /\ NapAt # JoinAt
  BY Facts, OfProcs, Constants DEF Sleep, Doing, InParent, NapAt
<1> DEFINE x == IF nap = "past" /\ NapAt \in at[w].seen THEN Sets(at[w], NapAt, "ok")
                ELSE [Sets(at[w], NapAt, "nap") EXCEPT !.wake = TRUE]
<1>2. Sound(x, Calls, flow.mode, Paid)
  BY <1>1, Calling
<1>3. Goes(w, x) /\ UNCHANGED <<flow, row, births, ended>> /\ log' = log \cup {NapAt}
  BY DEF Sleep
<1> HIDE DEF x
<1> QED BY <1>1, <1>2, <1>3, OfProcs, Quietly

LEMMA InvokeMoves ==
  ASSUME IInv, NEW w \in Workers, NEW p \in Calls, Invoke(w, p)
  PROVE  Advances /\ Ticks'
<1>1. /\ Rows /\ Logs /\ Ticks /\ ~Lost(0) /\ flow' = flow /\ ended' = ended
      /\ Sound(at[w], Calls, flow.mode, Paid) /\ at[w].pc = "body"
  BY Facts, OfProcs DEF IInv, Invoke, Doing, InParent
<1>2. p \in Positions
  BY <1>1, CallsTyped DEF Invoke
<1>3. Advances
  <2>1. CASE UNCHANGED <<log, births, row>>
    BY <1>1, <2>1, LeftAdvances
  <2>2. CASE p \notin log /\ Spawned(w, p)
    BY <1>1, <1>2, <2>2, SpawnAdvances
  <2> QED BY <2>1, <2>2 DEF Invoke, Spawned
<1>4. Paid' = Paid
  BY <1>1 DEF Paid
<1>5. Sound(Sets(at[w], p, Written), Calls, flow.mode, Paid)
  <2>1. flow.mode # "many" => Written # "ok"
    BY DEF Written
  <2> QED BY <1>1, <2>1, Calling
<1>6. Ticks'
  BY <1>1, <1>4, <1>5, OfProcs, Moved DEF Invoke
<1> QED BY <1>3, <1>6

-----------------------------------------------------------------------------
(* The steps that turn a row *)

LEMMA Turned ==
  ASSUME NEW r \in RunRow, r.status # "absent"
  PROVE  /\ Turns(r.status, MarkedRunning(r).status)
         /\ \A s \in Active : Turns(r.status, Suspended(r, s).status)
         /\ \A o \in Terminal : /\ Turns(r.status, Terminated(r, o).status)
                                /\ r.status \in Active => Terminated(r, o).status = o
BY DEF Turns, MarkedRunning, Suspended, Terminated, RunRow, Active, Terminal

(* A row that is there may be put as the row operators make it. *)
LEMMA Puts ==
  ASSUME IInv, NEW r \in Runs, ~Lost(r), flow' = flow, births' = births, log' = log,
         \/ Put(r, MarkedRunning(row[r]))
         \/ \E s \in Active : Put(r, Suspended(row[r], s))
         \/ \E o \in Terminal : Put(r, Terminated(row[r], o)) /\ (r = 0 /\ o = "done" => Kids \subseteq Paid)
  PROVE  Advances
<1>1. Rows /\ Logs /\ row[r] \in RunRow /\ row[r].attempts = 0
  BY DEF IInv, Rows
<1>2. row[r].status # "absent"
  BY <1>1 DEF Lost, NoRun, RunRow
<1>3. CASE Put(r, MarkedRunning(row[r]))
  <2>1. MarkedRunning(row[r]).status = "done" => row[r].status \notin Active
    BY DEF MarkedRunning, Active, Terminal
  <2> QED BY <1>1, <1>2, <1>3, <2>1, RowOps, Turned, PutAdvances
<1>4. ASSUME NEW s \in Active, Put(r, Suspended(row[r], s)) PROVE Advances
  <2>1. Suspended(row[r], s).status = "done" => row[r].status \notin Active
    BY DEF Suspended, Active, Terminal
  <2> QED BY <1>1, <1>2, <1>4, <2>1, RowOps, Turned, PutAdvances
<1>5. ASSUME NEW o \in Terminal, Put(r, Terminated(row[r], o)), r = 0 /\ o = "done" => Kids \subseteq Paid
      PROVE  Advances
  BY <1>1, <1>2, <1>5, RowOps, Turned, PutAdvances
<1> QED BY <1>3, <1>4, <1>5

LEMMA MovedToo ==
  ASSUME IInv, Advances, NEW p \in Procs, NEW x, Goes(p, x), Sound(x, Calls, flow.mode, Paid)
  PROVE  Ticks'
<1>1. Ticks /\ Paid \subseteq Paid' /\ flow' = flow
  BY DEF IInv, Advances
<1> QED BY <1>1, MorePaid, Moved

LEMMA MarkMoves ==
  ASSUME IInv, NEW w \in Workers, NEW spent, MarkRunning(w, spent)
  PROVE  Advances /\ Ticks'
<1>1. Sound(at[w], Calls, flow.mode, Paid) /\ at[w].run \in Runs /\ at[w].pc = "mark"
  BY Facts, OfProcs DEF MarkRunning
<1>2. Advances
  BY <1>1, Puts DEF MarkRunning
<1> DEFINE call == IF at[w].run = 0 THEN [p \in Calls |-> "due"] ELSE <<>>
           y == [at[w] EXCEPT !.pc = "body", !.call = call]
           x == IF spent THEN [Kept(at[w]) EXCEPT !.pc = "spent"] ELSE y
<1>3. Sound(y, Calls, flow.mode, Paid)
  BY <1>1 DEF Sound, Holding
<1>4. Sound(x, Calls, flow.mode, Paid)
  BY <1>1, <1>3, Records
<1>5. Goes(w, x)
  BY DEF MarkRunning
<1> HIDE DEF x
<1> QED BY <1>2, <1>4, <1>5, OfProcs, MovedToo

LEMMA FinishMoves ==
  ASSUME IInv, NEW w \in Workers, NEW out \in Terminal, Finish(w, out), ~Lost(at[w].run),
         at[w].run = 0 /\ out = "done" => Kids \subseteq Paid
  PROVE  Advances /\ Ticks'
<1>1. Sound(at[w], Calls, flow.mode, Paid) /\ at[w].run \in Runs
  BY Facts, OfProcs
<1>2. Advances
  BY <1>1, Puts DEF Finish
<1> DEFINE told1 == IF at[w].run = 0 THEN "none" ELSE out
           pc == IF at[w].run # 0 THEN "arrive" ELSE IF out = "failed" THEN "kids" ELSE "ack"
           x == [Kept(at[w]) EXCEPT !.out = told1, !.pc = pc]
<1>3. Goes(w, x) /\ pc \notin {"body", "join"}
  BY DEF Finish
<1>4. Sound(x, Calls, flow.mode, Paid)
  <2> HIDE DEF told1, pc
  <2> QED BY <1>1, <1>3, Records
<1> HIDE DEF x
<1> QED BY <1>2, <1>3, <1>4, OfProcs, MovedToo

LEMMA SuspendMoves ==
  ASSUME IInv, NEW w \in Workers, NEW status \in Active, Suspend(w, status), ~Lost(at[w].run)
  PROVE  Advances /\ Ticks'
<1>1. Sound(at[w], Calls, flow.mode, Paid) /\ at[w].run \in Runs
  BY Facts, OfProcs
<1>2. Advances
  BY <1>1, Puts DEF Suspend
<1>3. Goes(w, Acking(at[w])) /\ Sound(Acking(at[w]), Calls, flow.mode, Paid)
  BY <1>1, Records DEF Suspend
<1> QED BY <1>2, <1>3, OfProcs, MovedToo

(* The parent is done on calls that were answered, or on a join that was logged. *)
LEMMA EndsMoves ==
  ASSUME IInv, NEW w \in Workers, ParentEnds(w)
  PROVE  Advances /\ Ticks'
<1>1. /\ Sound(at[w], Calls, flow.mode, Paid) /\ at[w].pc = "body" /\ at[w].run = 0 /\ ~Lost(at[w].run)
      /\ Rows
  BY Facts, OfProcs DEF ParentEnds, InParent, IInv
<1>2. CASE Answered(w) /\ (flow.mode = "many" => JoinAt \in at[w].seen) /\ Finish(w, "done")
  <2>1. Kids \subseteq Paid
    <3>1. CASE flow.mode = "many"
      BY <1>1, <1>2, <3>1 DEF Sound
    <3>2. CASE flow.mode # "many"
      <4>1. Kids \subseteq Calls
        BY <1>1, <3>2, OneEach, CallsTyped
      <4> QED BY <1>1, <1>2, <3>2, <4>1 DEF Sound, Answered
    <3> QED BY <3>1, <3>2
  <2> QED BY <1>1, <1>2, <2>1, FinishMoves DEF Terminal
<1>3. CASE Finish(w, "failed")
  BY <1>1, <1>3, FinishMoves DEF Terminal
<1>4. CASE Suspend(w, "awaiting_child") \/ Suspend(w, "sleeping")
  BY <1>1, <1>4, SuspendMoves DEF Active
<1> QED BY <1>2, <1>3, <1>4 DEF ParentEnds

LEMMA ChildMoves ==
  ASSUME IInv, NEW w \in Workers,
         FinishSpent(w) \/ ChildParks(w) \/ \E out \in {"done", "failed"} : ChildEnds(w, out)
  PROVE  Advances /\ Ticks'
<1>1. 0 \notin Kids
  BY Constants
<1>2. CASE FinishSpent(w)
  BY <1>2, FinishMoves DEF FinishSpent, Terminal
<1>3. CASE ChildParks(w)
  BY <1>3, SuspendMoves DEF ChildParks, InChild, Active
<1>4. ASSUME NEW out \in {"done", "failed"}, ChildEnds(w, out) PROVE Advances /\ Ticks'
  BY <1>1, <1>4, FinishMoves DEF ChildEnds, InChild, Terminal
<1> QED BY <1>2, <1>3, <1>4

LEMMA StrikeMoves ==
  ASSUME IInv, NEW p \in Procs, Strike(p)
  PROVE  Advances /\ Ticks'
<1>1. Sound(at[p], Calls, flow.mode, Paid) /\ at[p].target \in Runs
  BY Facts
<1>2. Advances
  BY <1>1, Puts DEF Strike, Terminal
<1> DEFINE x == IF at[p].target = 0 THEN [at[p] EXCEPT !.pc = "kids"]
                ELSE IF at[p].live THEN [at[p] EXCEPT !.pc = "tell"] ELSE Onward(at[p])
<1>3. Goes(p, x)
  BY DEF Strike
<1>4. Sound(x, Calls, flow.mode, Paid)
  BY <1>1, Records
<1> HIDE DEF x
<1> QED BY <1>2, <1>3, <1>4, MovedToo

LEMMA OperatorMoves ==
  ASSUME IInv, NEW r \in Runs, BulkCancel(r) \/ RetryRun(r) \/ PurgeRun(r)
  PROVE  Advances /\ Ticks'
<1>1. Rows /\ Logs /\ Ticks /\ row[r] \in RunRow /\ at' = at /\ flow' = flow /\ births' = births
  BY DEF IInv, Rows, BulkCancel, RetryRun, PurgeRun
<1>2. ~Lost(r)
  BY DEF BulkCancel, RetryRun, PurgeRun, Lost, Live, Over, NoRun, Active, Terminal
<1>3. Advances
  <2>1. CASE BulkCancel(r)
    BY <1>2, <2>1, Puts DEF BulkCancel, Terminal
  <2>2. CASE RetryRun(r)
    <3>1. Turns(row[r].status, Fresh.status) /\ Fresh.status # "done"
      BY <2>2 DEF RetryRun, Turns, Fresh
    <3> QED BY <1>1, <1>2, <2>2, <3>1, RowOps, PutAdvances DEF RetryRun
  <2>3. CASE PurgeRun(r)
    <3>1. Turns(row[r].status, NoRun.status) /\ NoRun.status # "done"
      BY <2>3 DEF PurgeRun, Turns, Over, NoRun
    <3> QED BY <1>1, <1>2, <2>3, <3>1, RowOps, PutAdvances DEF PurgeRun
  <2> QED BY <2>1, <2>2, <2>3
<1>4. Ticks'
  BY <1>1, <1>3, NobodyMoved DEF Advances
<1> QED BY <1>3, <1>4

-----------------------------------------------------------------------------

LEMMA StepMoves == IInv /\ [Next]_vars => Advances /\ Ticks'
<1> SUFFICES ASSUME IInv, [Next]_vars PROVE Advances /\ Ticks'
  OBVIOUS
<1>1. ASSUME NEW w \in Workers, Body(w) PROVE Advances /\ Ticks'
  BY <1>1, InvokeMoves, ReadMoves, ReadAllMoves, JoinMoves, SleepMoves, EndsMoves, ChildMoves DEF Body
<1>2. ASSUME NEW p \in Procs, Canceling(p) PROVE Advances /\ Ticks'
  BY <1>2, StrikeMoves, CancelMoves DEF Canceling
<1>3. ASSUME NEW w \in Workers, Work(w) PROVE Advances /\ Ticks'
  BY <1>1, <1>2, <1>3, OfProcs, LoadMoves, PullMoves, MarkMoves, ChildMoves DEF Work
<1>4. ASSUME NEW w \in Workers, DrainTimer(w) \/ \E r \in Runs : Claim(w, r) PROVE Advances /\ Ticks'
  BY <1>4, PullMoves, ClaimMoves
<1>5. ASSUME NEW r \in Runs, Operators(r) \/ Expire(r) PROVE Advances /\ Ticks'
  BY <1>5, CallerMoves, OperatorMoves, Unmoved DEF Operators, Expire, store
<1>6. ASSUME NEW k \in Kids, SignalChild(k) PROVE Advances /\ Ticks'
  BY <1>6, Unmoved DEF SignalChild
<1>7. ASSUME NapOver \/ ReconcileScan \/ ReconcileEnqueue \/ UNCHANGED vars PROVE Advances /\ Ticks'
  BY <1>7, Unmoved DEF NapOver, ReconcileScan, ReconcileEnqueue, store, vars
<1>8. ASSUME NEW p \in Procs, Crash(p) PROVE Advances /\ Ticks'
  BY <1>8, CancelMoves
<1> QED BY <1>2, <1>3, <1>4, <1>5, <1>6, <1>7, <1>8, OfProcs DEF Next

LEMMA InitHolds == Init => IInv /\ Promise!Init
<1> SUFFICES ASSUME Init PROVE IInv /\ Promise!Init
  OBVIOUS
<1>1. row[0] = Fresh /\ \A k \in Kids : row[k] = NoRun /\ births[k] = 0 /\ ended[k] = {}
  BY Constants DEF Init
<1>2. flow \in {s.flow : s \in Scenarios}
  BY DEF Init
<1>3. Rows
  <2>1. \A r \in Runs : row[r] \in RunRow /\ row[r].attempts = 0
    BY DEF Init, Fresh, NoRun, RunRow, Active, Terminal
  <2> QED BY <1>1, <1>2, <2>1 DEF Init, Rows, Over, NoRun, Terminal
<1>4. Logs
  BY <1>1 DEF Init, Logs, SpawnedAt
<1>5. Ticks
  <2>1. Sound(Idle, Calls, flow.mode, Paid)
    BY Constants DEF Sound, Idle, Holding
  <2> QED BY <2>1 DEF Init, Ticks
<1>6. Promise!Init
  BY <1>1, <1>3, FlowTyped DEF Init, Promise!Init, Live, Fresh, Active
<1> QED BY <1>3, <1>4, <1>5, <1>6 DEF IInv

(* The inductive invariant holds throughout. *)
THEOREM FanOutInductive == Spec => []IInv
<1>1. Init => IInv
  BY InitHolds
<1>2. IInv /\ [Next]_vars => IInv'
  BY StepMoves DEF IInv, Advances
<1> QED BY <1>1, <1>2, PTL DEF Spec

(* However its flow invokes, whatever crashes, stalls, replays, retries, cancellations and  *)
(* purges come between (context.ts: invokeOne, invokeMany, childResult; the stores'         *)
(* checkpointAndSpawn): a child is spawned once, and the parent is done only on outcomes    *)
(* each of its children reached.                                                            *)
THEOREM FanOutKeepsPromise == Spec => KeepsPromise
<1>1. Init => Promise!Init
  BY InitHolds
<1>2. IInv /\ [Next]_vars => [Promise!Next]_(Promise!vars)
  BY StepMoves DEF Advances
<1> QED BY FanOutInductive, <1>1, <1>2, PTL DEF Spec, KeepsPromise, Promise!Spec


-----------------------------------------------------------------------------
(* The types *)

JobTypes == job \in [Runs -> Job] /\ \A r \in Runs : WellFormed(job[r])
StoreTypes ==
  /\ trouble \subseteq Troubles /\ log \subseteq Calls \cup {JoinAt}
  /\ left \in Nat /\ left <= Cardinality(Kids)
  /\ nap \in {"unset", "ahead", "past"} /\ timer \in BOOLEAN /\ told \subseteq Kids /\ sweep \subseteq Runs

LEMMA TypesAre == TypeOK <=> /\ flow \in {s.flow : s \in Scenarios} /\ row \in [Runs -> RunRow]
                             /\ births \in [Kids -> Nat] /\ JobTypes /\ StoreTypes
BY DEF TypeOK, JobTypes, StoreTypes

(* A set of numbers has a first. *)
LEMMA FirstThereIs ==
  ASSUME NEW S, S \subseteq Nat, S # {}
  PROVE  \E x \in S : \A y \in S : x <= y
<1> DEFINE R == {ss \in Nat \X Nat : ss[1] < ss[2]}
<1>1. IsWellFoundedOn(R, Nat)
  BY NatLessThanWellFounded DEF OpToRel
<1>2. PICK x \in S : \A y \in S : ~(<<y, x>> \in R)
  BY <1>1, WFMin
<1>3. \A y \in S : x <= y
  <2> TAKE y \in S
  <2>1. x \in Nat /\ y \in Nat /\ ~(y < x)
    BY <1>2
  <2> QED BY <2>1
<1> QED BY <1>3

(* The leases in hand are too few to carry every version there is to choose from. *)
LEMMA VersionThereIs ==
  ASSUME NEW r
  PROVE  /\ NextVersion(r) \in Nat /\ NextVersion(r) > 0
         /\ \A w \in Workers : at[w].run = r => at[w].lease.version # NextVersion(r)
<1> DEFINE N == Cardinality(Workers)
           holders == {w \in Workers : at[w].run = r}
           taken == {at[w].lease.version : w \in holders}
           free == (1..N + 1) \ taken
<1>1. IsFiniteSet(Workers) /\ N \in Nat
  BY Constants, FS_CardinalityType
<1>2. IsFiniteSet(holders) /\ Cardinality(holders) \in Nat /\ Cardinality(holders) <= N
  BY <1>1, FS_Subset, FS_CardinalityType
<1>3. IsFiniteSet(taken) /\ Cardinality(taken) <= Cardinality(holders) /\ Cardinality(taken) \in Nat
  <2> DEFINE v(w) == at[w].lease.version
             f == [w \in holders |-> v(w)]
  <2>1. f \in Surjection(holders, taken)
    BY DEF Surjection
  <2> HIDE DEF f, taken
  <2> QED BY <1>2, <2>1, FS_Surjection, FS_CardinalityType
<1>4. IsFiniteSet(1..N + 1) /\ Cardinality(1..N + 1) = N + 1
  BY <1>1, FS_Interval
<1>5. free # {}
  <2> SUFFICES ASSUME free = {} PROVE FALSE
    OBVIOUS
  <2>1. 1..N + 1 \subseteq taken
    OBVIOUS
  <2>2. Cardinality(1..N + 1) <= Cardinality(taken)
    BY <1>3, <2>1, FS_Subset
  <2> QED BY <1>1, <1>2, <1>3, <1>4, <2>2
<1>6. PICK v \in free : \A u \in free : v <= u
  <2>1. free \subseteq Nat
    BY <1>1
  <2> HIDE DEF free
  <2> QED BY <1>5, <2>1, FirstThereIs
<1> DEFINE Serves(x) == /\ \A w \in Workers : at[w].run = r => at[w].lease.version # x
                        /\ \A u \in 1..x - 1 : \E w \in Workers : at[w].run = r /\ at[w].lease.version = u
<1>7. v \in 1..N + 1 /\ Serves(v)
  <2>1. \A u \in 1..v - 1 : u \in taken
    BY <1>1, <1>6
  <2> QED BY <1>6, <2>1
<1>8. NextVersion(r) \in 1..N + 1 /\ Serves(NextVersion(r))
  BY <1>7 DEF NextVersion
<1> QED BY <1>1, <1>8

LEMMA JobOps ==
  ASSUME JobTypes, NEW r \in Runs
  PROVE  /\ Queued(r) \in Job /\ WellFormed(Queued(r))
         /\ NoJob \in Job /\ WellFormed(NoJob)
         /\ job[r] \in Job /\ WellFormed(job[r])
         /\ \A l : Acked(job[r], l, 0) \in Job /\ WellFormed(Acked(job[r], l, 0))
         /\ \A w \in Nat : job[r].queued => Claimed(job[r], w, 1) \in Job /\ WellFormed(Claimed(job[r], w, 1))
         /\ job[r].expires = 1 => [job[r] EXCEPT !.expires = 0, !.token = 0] \in Job
                                  /\ WellFormed([job[r] EXCEPT !.expires = 0, !.token = 0])
<1>1. job[r] \in Job /\ WellFormed(job[r])
  BY DEF JobTypes
<1>2. Queued(r) \in Job /\ WellFormed(Queued(r))
  <2> DEFINE v == NextVersion(r)
  <2>1. v \in Nat /\ v > 0
    BY VersionThereIs
  <2>2. Enqueued(job[r], 0) \in Job /\ Enqueued(job[r], 0).queued
    BY <1>1 DEF Enqueued, Job
  <2> HIDE DEF v
  <2>3. [Enqueued(job[r], 0) EXCEPT !.version = v] \in Job /\ WellFormed([Enqueued(job[r], 0) EXCEPT !.version = v])
    BY <2>1, <2>2 DEF Job, WellFormed
  <2> QED BY <2>3 DEF Queued, v
<1>3. NoJob \in Job /\ WellFormed(NoJob)
  BY DEF NoJob, Job, WellFormed
<1>4. ASSUME NEW l PROVE Acked(job[r], l, 0) \in Job /\ WellFormed(Acked(job[r], l, 0))
  <2>1. job[r].queued => Released(job[r]) \in Job /\ WellFormed(Released(job[r]))
    BY <1>1 DEF Released, Job, WellFormed
  <2> QED BY <1>1, <1>3, <2>1 DEF Acked, Holds
<1>5. ASSUME NEW w \in Nat, job[r].queued PROVE Claimed(job[r], w, 1) \in Job /\ WellFormed(Claimed(job[r], w, 1))
  BY <1>1, <1>5 DEF Claimed, Job, WellFormed
<1>6. ASSUME job[r].expires = 1
      PROVE  [job[r] EXCEPT !.expires = 0, !.token = 0] \in Job /\ WellFormed([job[r] EXCEPT !.expires = 0, !.token = 0])
  <2>1. job[r].queued
    BY <1>1, <1>6 DEF WellFormed, NoJob
  <2> QED BY <1>1, <2>1 DEF Job, WellFormed
<1> QED BY <1>1, <1>2, <1>3, <1>4, <1>5, <1>6

LEMMA OneJob ==
  ASSUME JobTypes, NEW r \in Runs, NEW j \in Job, WellFormed(j), job' = [job EXCEPT ![r] = j]
  PROVE  JobTypes'
BY DEF JobTypes

LEMMA SomeQueued ==
  ASSUME JobTypes, NEW S, job' = [r \in Runs |-> IF r \in S THEN Queued(r) ELSE job[r]]
  PROVE  JobTypes'
<1>1. \A r \in Runs : Queued(r) \in Job /\ WellFormed(Queued(r)) /\ job[r] \in Job /\ WellFormed(job[r])
  BY JobOps
<1> QED BY <1>1 DEF JobTypes

LEMMA JobStep == IInv /\ JobTypes /\ [Next]_vars => JobTypes'
<1> SUFFICES ASSUME IInv, JobTypes, [Next]_vars PROVE JobTypes'
  OBVIOUS
<1>1. ASSUME job' = job PROVE JobTypes'
  BY <1>1 DEF JobTypes
<1>2. ASSUME NEW w \in Workers, NEW r \in Runs, Claim(w, r) PROVE JobTypes'
  BY <1>2, Constants, JobOps, OneJob DEF Claim, Claimable
<1>3. ASSUME NEW w \in Workers, NEW p \in Calls, Invoke(w, p) PROVE JobTypes'
  BY <1>1, <1>3, SomeQueued DEF Invoke, Spawned
<1>4. ASSUME NEW p \in Procs, Wake(p) PROVE JobTypes'
  BY <1>4, Constants, JobOps, OneJob DEF Wake, Enqueue
<1>5. ASSUME NEW w \in Workers, Ack(w) PROVE JobTypes'
  <2>1. at[w].run \in Runs
    BY OfProcs, Facts
  <2> QED BY <1>5, <2>1, JobOps, OneJob DEF Ack
<1>6. ASSUME NEW r \in Runs, Operators(r) PROVE JobTypes'
  BY <1>1, <1>6, JobOps, OneJob DEF Operators, CancelRun, BulkCancel, RetryRun, PurgeRun, Enqueue
<1>7. ASSUME NEW k \in Kids, SignalChild(k) PROVE JobTypes'
  BY <1>7, Constants, JobOps, OneJob DEF SignalChild, Enqueue
<1>8. ASSUME NEW r \in Runs, Expire(r) PROVE JobTypes'
  BY <1>8, JobOps, OneJob DEF Expire
<1>9. ASSUME ReconcileEnqueue PROVE JobTypes'
  BY <1>9, SomeQueued DEF ReconcileEnqueue
<1>10. ASSUME NEW w \in Workers, NEW out, Finish(w, out) \/ Suspend(w, out) PROVE JobTypes'
  BY <1>1, <1>10 DEF Finish, Suspend
<1>11. ASSUME NEW w \in Workers, Body(w) PROVE JobTypes'
  BY <1>1, <1>3, <1>10, <1>11 DEF Body, ReadChild, ReadChildren, LogJoin, Sleep, ParentEnds, ChildParks, ChildEnds
<1>12. ASSUME NEW p \in Procs, Canceling(p) \/ Crash(p) PROVE JobTypes'
  BY <1>1, <1>4, <1>12 DEF Canceling, Strike, TellParent, ListKids, CancelKid, Arrival, RunGone, Crash
<1>13. ASSUME NEW w \in Workers, Work(w) \/ DrainTimer(w) PROVE JobTypes'
  BY <1>1, <1>5, <1>10, <1>11, <1>12, <1>13, OfProcs DEF Work, Load, PullCheck, FinishSpent, CancelSelf, MarkRunning, DrainTimer
<1>14. CASE NapOver \/ ReconcileScan \/ UNCHANGED vars
  BY <1>1, <1>14 DEF NapOver, ReconcileScan, vars
<1> QED BY <1>2, <1>6, <1>7, <1>8, <1>9, <1>12, <1>13, <1>14, OfProcs DEF Next

LEMMA StoreStep == IInv /\ StoreTypes /\ [Next]_vars => StoreTypes'
<1> SUFFICES ASSUME IInv, StoreTypes, [Next]_vars PROVE StoreTypes'
  OBVIOUS
<1>0. Calls' = Calls
  BY StepMoves DEF Advances, Calls, Positions, SpawnedAt, Per
<1>1. ASSUME trouble' \subseteq trouble, UNCHANGED <<log, left, nap, told, sweep>>, timer' \in BOOLEAN PROVE StoreTypes'
  BY <1>0, <1>1 DEF StoreTypes
<1>2. ASSUME NEW t, Meets(t) PROVE trouble' \subseteq trouble
  BY <1>2 DEF Meets
<1>3. timer \in BOOLEAN
  BY DEF StoreTypes
<1>4. ASSUME NEW w \in Workers, NEW p \in Calls, Invoke(w, p) PROVE StoreTypes'
  <2>1. p \in Kids /\ Cardinality(Kids) \in Nat /\ 1 <= Cardinality(Kids)
    BY <1>4, CallsTyped, Constants DEF IInv, Invoke, Positions
  <2>2. log' \subseteq Calls \cup {JoinAt} /\ left' \in Nat /\ left' <= Cardinality(Kids)
    BY <1>4, <2>1 DEF Invoke, Spawned, StoreTypes
  <2> QED BY <1>0, <1>4, <2>2 DEF Invoke, StoreTypes
<1>5. ASSUME NEW p \in Procs, Arrival(p) PROVE StoreTypes'
  <2>1. left' \in Nat /\ left' <= Cardinality(Kids)
    BY <1>5, Constants DEF Arrival, Arrive, StoreTypes
  <2> QED BY <1>0, <1>5, <2>1 DEF Arrival, StoreTypes
<1>6. ASSUME NEW w \in Workers, LogJoin(w) PROVE StoreTypes'
  BY <1>0, <1>6 DEF LogJoin, StoreTypes
<1>7. ASSUME NEW w \in Workers, Sleep(w) PROVE StoreTypes'
  BY <1>0, <1>7 DEF Sleep, StoreTypes
<1>8. ASSUME NEW w \in Workers, NEW out, Finish(w, out) \/ Suspend(w, out) PROVE StoreTypes'
  <2>1. timer' \in BOOLEAN
    BY <1>3, <1>8 DEF Finish, Suspend
  <2> QED BY <1>1, <1>8, <2>1 DEF Finish, Suspend
<1>9. ASSUME NEW w \in Workers, Body(w) PROVE StoreTypes'
  <2>1. ASSUME NEW p \in Calls, ReadChild(w, p) PROVE StoreTypes'
    BY <1>1, <1>3, <2>1 DEF ReadChild, store
  <2>2. ASSUME ReadChildren(w) PROVE StoreTypes'
    BY <1>1, <1>3, <2>2 DEF ReadChildren, store
  <2> QED BY <1>4, <1>6, <1>7, <1>8, <1>9, <2>1, <2>2 DEF Body, ParentEnds, ChildParks, ChildEnds
<1>10. ASSUME NEW p \in Procs, Canceling(p) \/ Crash(p) PROVE StoreTypes'
  <2>1. ASSUME Strike(p) PROVE StoreTypes'
    <3>1. timer' \in BOOLEAN
      BY <1>3, <2>1 DEF Strike
    <3> QED BY <1>1, <2>1, <3>1 DEF Strike
  <2>2. ASSUME TellParent(p) \/ ListKids(p) \/ CancelKid(p) \/ Wake(p) \/ RunGone(p) PROVE StoreTypes'
    BY <1>1, <1>3, <2>2 DEF TellParent, ListKids, CancelKid, Wake, RunGone, store
  <2>3. ASSUME Crash(p) PROVE StoreTypes'
    BY <1>1, <1>2, <1>3, <2>3 DEF Crash, store
  <2> QED BY <1>5, <1>10, <2>1, <2>2, <2>3 DEF Canceling
<1>11. ASSUME NEW w \in Workers, Work(w) \/ DrainTimer(w) \/ \E r \in Runs : Claim(w, r) PROVE StoreTypes'
  <2>1. ASSUME Load(w) \/ PullCheck(w) \/ CancelSelf(w) \/ Ack(w) \/ \E r \in Runs : Claim(w, r) PROVE StoreTypes'
    BY <1>1, <1>3, <2>1 DEF Load, PullCheck, CancelSelf, Ack, Claim, store
  <2>2. ASSUME DrainTimer(w) PROVE StoreTypes'
    BY <1>1, <2>2 DEF DrainTimer
  <2>3. ASSUME NEW spent \in BOOLEAN, MarkRunning(w, spent) PROVE StoreTypes'
    BY <1>1, <1>2, <1>3, <2>3 DEF MarkRunning
  <2> QED BY <1>8, <1>9, <1>10, <1>11, <2>1, <2>2, <2>3, OfProcs DEF Work, FinishSpent
<1>12. ASSUME NEW r \in Runs, Operators(r) \/ Expire(r) PROVE StoreTypes'
  <2>1. ASSUME CancelRun(r) \/ RetryRun(r) \/ Expire(r) PROVE StoreTypes'
    BY <1>1, <1>2, <1>3, <2>1 DEF CancelRun, RetryRun, Expire, store
  <2>2. ASSUME BulkCancel(r) PROVE StoreTypes'
    <3>1. timer' \in BOOLEAN
      BY <1>3, <2>2 DEF BulkCancel
    <3> QED BY <1>1, <1>2, <2>2, <3>1 DEF BulkCancel
  <2>3. ASSUME PurgeRun(r) PROVE StoreTypes'
    <3>1. trouble' \subseteq Troubles
      BY <1>2, <2>3 DEF PurgeRun, StoreTypes
    <3>2. CASE r = 0
      <4>1. timer' \in BOOLEAN
        BY <2>3, <3>2, Zenon DEF PurgeRun
      <4> QED BY <1>0, <2>3, <3>1, <3>2, <4>1, Constants DEF PurgeRun, StoreTypes
    <3>3. CASE r # 0
      BY <1>0, <2>3, <3>1, <3>3 DEF PurgeRun, StoreTypes
    <3> QED BY <3>2, <3>3
  <2> QED BY <1>12, <2>1, <2>2, <2>3 DEF Operators
<1>13. ASSUME NEW k \in Kids, SignalChild(k) PROVE StoreTypes'
  BY <1>0, <1>13 DEF SignalChild, StoreTypes
<1>14. CASE NapOver
  BY <1>0, <1>14 DEF NapOver, StoreTypes
<1>15. CASE ReconcileScan \/ ReconcileEnqueue \/ UNCHANGED vars
  BY <1>0, <1>15 DEF ReconcileScan, ReconcileEnqueue, Orphans, vars, store, StoreTypes
<1> QED BY <1>10, <1>11, <1>12, <1>13, <1>14, <1>15, OfProcs DEF Next

LEMMA TypesInit == Init => JobTypes /\ StoreTypes
<1> SUFFICES ASSUME Init PROVE JobTypes /\ StoreTypes
  OBVIOUS
<1>1. StoreTypes
  <2>1. trouble \subseteq Troubles
    BY FanOutConstants DEF Init
  <2>2. timer \in BOOLEAN
    BY Zenon DEF Init
  <2>3. left \in Nat /\ left <= Cardinality(Kids)
    BY Constants DEF Init
  <2> QED BY <2>1, <2>2, <2>3 DEF Init, StoreTypes
<1>2. Enqueued(NoJob, 0) \in Job /\ WellFormed(Enqueued(NoJob, 0)) /\ NoJob \in Job /\ WellFormed(NoJob)
  BY DEF Enqueued, NoJob, Job, WellFormed
<1>3. JobTypes
  BY <1>2 DEF Init, JobTypes
<1> QED BY <1>1, <1>3

(* Rows, jobs, log, join counter, deadline and what the reconciler found keep their types: *)
(* a job row that exists was enqueued, and the join never counts more than the children.   *)
THEOREM FanOutTypes == Spec => []TypeOK
<1>1. Init => JobTypes /\ StoreTypes
  BY TypesInit
<1>2. IInv /\ JobTypes /\ StoreTypes /\ [Next]_vars => JobTypes' /\ StoreTypes'
  BY JobStep, StoreStep
<1>3. IInv /\ JobTypes /\ StoreTypes => TypeOK
  BY TypesAre DEF IInv, Rows
<1> QED BY FanOutInductive, <1>1, <1>2, <1>3, PTL DEF Spec

-----------------------------------------------------------------------------
(***************************************************************************)
(* That no join of FanOut is left waiting, for every number of children    *)
(* and workers, every chunk size and every flow, with children kept while  *)
(* their parent lives.                                                     *)
(*                                                                         *)
(* JoinWakes speaks of a parent that has let go of its queue row.  Whether *)
(* it may is settled earlier, by what a worker read when it decided to     *)
(* wait and by what has been enqueued since: so HopeInv says of a worker   *)
(* that is about to let go what JoinWakes says of the parent, as long as   *)
(* its lease is as it was claimed.  That an arrival which wakes nobody     *)
(* leaves somebody to arrive is a count: LeftInv.                          *)
(***************************************************************************)

(* What the theorem takes for granted.  Children are kept while their parent lives.  No   *)
(* failed run is retried by hand: a cancelRun that looked at a failed child may strike it *)
(* after its retry, and then tells nobody.  Where the parent sleeps beside its invokes,   *)
(* its leases last: two workers of one parent may decide on different waits, and the one  *)
(* that parks last names a wait which the other has not looked into.                      *)
Orderly ==
  /\ KeepKids
  /\ \A s \in Scenarios : "retry" \notin s.troubles /\ (s.flow.naps => "stall" \notin s.troubles)

Tame == "retry" \notin trouble /\ (flow.naps => "stall" \notin trouble)

BornKids == {k \in Kids : births[k] # 0}
LiveRuns == {r \in Runs : Live(r)}
Shares == [p \in Positions |-> SpawnedAt(p)]

(* What was written is born, what is born stays while the parent lives, and a list is    *)
(* begun at its beginning.                                                               *)
BornInv ==
  /\ \A p \in Positions \cap log : SpawnedAt(p) \subseteq BornKids
  /\ Live(0) => \A k \in BornKids : ~Lost(k)
  /\ flow.mode = "many" /\ BornKids # {} => 1 \in BornKids

Leased == {"load", "pull", "mark", "body", "join", "spent", "fallen", "ack"}
Executing == {"load", "mark", "body", "join", "spent", "ack"}

(* What process p, holding x, knows: of the children that are born, and of the runs that *)
(* live.  A worker that executes a live parent does nothing else.                        *)
Mind(p, x, sp, calls, born, live) ==
  /\ x.lease # NoLease => x.lease.token = p
  /\ x.pc \in Leased \/ (x.pc = "arrive" /\ x.out = "done") => x.lease # NoLease
  /\ x.run = 0 => \A q \in DOMAIN sp : q \in x.seen => sp[q] \subseteq born
  /\ x.run = 0 /\ x.pc \in {"body", "join"} => \A q \in DOMAIN sp : x.call[q] # "due" => sp[q] \subseteq born
  /\ x.run = 0 /\ x.lease # NoLease /\ 0 \in live => x.pc \in Executing
  /\ x.pc \in {"pull", "fallen"} => x.run \in born
  /\ x.pc = "strike" /\ x.target # 0 => x.target \in born /\ (~x.live => x.target \notin live)
  /\ x.todo \subseteq born
  /\ x.pc \in {"pull", "mark", "join"} => x.first = "none"
  /\ x.pc = "body" /\ x.first = "nap" => NapAt \in calls

Minds == \A p \in Procs : Mind(p, at[p], Shares, Calls, BornKids, LiveRuns)

(* The join counts no more than those that are still to arrive. *)
Arrives(x) == x.pc \in {"tell", "arrive"}
NotOver == {k \in Kids : ~Over(k)}
Arriving == {p \in Procs : Arrives(at[p])}
LeftInv ==
  /\ flow.mode # "many" => left <= 1
  /\ flow.mode = "many" /\ clean /\ Live(0) => left <= Cardinality(NotOver) + Cardinality(Arriving)

(* Where a status is decided by the last to park, one worker executes the parent. *)
OnParent(x) == x.run = 0 /\ x.lease # NoLease
ExclInv == flow.naps /\ clean /\ Live(0) => \A w \in Workers : OnParent(at[w]) => Holds(job[0], at[w].lease, 0)

(* Somebody will wake the parent: a child that lives, or one on its way. *)
Carries(x) == Arrives(x) \/ x.pc = "wake"
Hope ==
  /\ (\E k \in Kids : Live(k)) \/ \E p \in Procs : Carries(at[p])
  /\ flow.mode = "many" => BornKids = Kids

(* A parent that waits, and a worker that will leave it waiting: its acknowledgement     *)
(* deletes the row if nothing was enqueued since the claim.                              *)
ToWait == flow.naps => row[0].status = "awaiting_child"
Waits(x, toWait) == (x.pc = "body" /\ x.first = "wait") \/ (x.pc = "ack" /\ toWait)
Deletes(j, x) == Holds(j, x.lease, 0) /\ j.version = x.lease.version
HopeInv ==
  clean /\ Live(0) =>
    /\ ~job[0].queued /\ ToWait => Hope
    /\ \A w \in Workers : OnParent(at[w]) /\ Waits(at[w], ToWait) /\ Deletes(job[0], at[w]) => Hope

JInv == Tame /\ BornInv /\ Minds /\ LeftInv /\ ExclInv /\ HopeInv
Known == IInv /\ JobTypes /\ StoreTypes /\ JInv

-----------------------------------------------------------------------------
(* What a step leaves as it is *)

Steps(p, x) == \A q \in Procs : at'[q] = IF q = p THEN x ELSE at[q]

(* Children are born for good, and nobody comes back to life. *)
NoneRevived ==
  /\ flow' = flow /\ BornKids \subseteq BornKids'
  /\ \A r \in BornKids \cup {0} : r \in LiveRuns' => r \in LiveRuns

LEMMA Stepping ==
  ASSUME IInv, NEW p \in Procs
  PROVE  /\ \A x : Goes(p, x) => Steps(p, x)
         /\ at' = at => Steps(p, at[p])
         /\ DOMAIN at[p] = Holding /\ at[p].run \in Runs
BY DEF IInv, Ticks, Sound, Goes, Steps

LEMMA SameFlow ==
  ASSUME flow' = flow
  PROVE  Positions' = Positions /\ Shares' = Shares /\ \A p : SpawnedAt(p)' = SpawnedAt(p)
<1>1. \A p : SpawnedAt(p)' = SpawnedAt(p)
  BY DEF SpawnedAt, Per
<1>2. Positions' = Positions
  BY DEF Positions, SpawnedAt, Per
<1>3. Shares' = Shares
  BY DEF Shares, Positions, SpawnedAt, Per
<1> QED BY <1>1, <1>2, <1>3

LEMMA Wiser ==
  ASSUME NEW p, NEW x, NEW sp, NEW calls, NEW born, NEW live, NEW born2, NEW live2,
         born \subseteq born2, \A r \in born \cup {0} : r \in live2 => r \in live,
         Mind(p, x, sp, calls, born, live)
  PROVE  Mind(p, x, sp, calls, born2, live2)
BY DEF Mind

LEMMA MindsKept ==
  ASSUME Minds, NoneRevived, NEW p \in Procs, NEW x, Steps(p, x),
         Mind(p, x, Shares, Calls, BornKids', LiveRuns')
  PROVE  Minds'
<1>1. Shares' = Shares /\ Calls' = Calls
  BY SameFlow DEF NoneRevived, Calls
<1>2. \A q \in Procs : Mind(q, at[q], Shares, Calls, BornKids', LiveRuns')
  BY Wiser DEF Minds, NoneRevived
<1>3. \A q \in Procs : Mind(q, at'[q], Shares, Calls, BornKids', LiveRuns')
  BY <1>2 DEF Steps
<1> QED BY <1>1, <1>3 DEF Minds

LEMMA BornKept ==
  ASSUME BornInv, flow' = flow, births' = births, log' \cap Kids \subseteq log,
         Live(0)' => Live(0) /\ \A k \in Kids : Lost(k)' => Lost(k)
  PROVE  BornInv'
<1>1. BornKids' = BornKids
  BY DEF BornKids
<1>2. Positions' = Positions /\ \A p : SpawnedAt(p)' = SpawnedAt(p)
  BY SameFlow
<1>3. \A p \in Positions \cap log' : SpawnedAt(p) \subseteq BornKids
  BY DEF BornInv, Positions
<1>4. Live(0)' => \A k \in BornKids : ~Lost(k)'
  BY DEF BornInv, BornKids
<1> QED BY <1>1, <1>2, <1>3, <1>4 DEF BornInv

(* Counting those who are still to arrive. *)
LEMMA ProcsFinite == IsFiniteSet(Procs) /\ IsFiniteSet(Kids)
<1>1. IsFiniteSet(Workers) /\ IsFiniteSet({User})
  BY Constants, FS_Singleton
<1> QED BY <1>1, Constants, FS_Union DEF Procs

LEMMA Wider ==
  ASSUME NEW A, NEW A2, A2 \subseteq Kids, NEW R, NEW R2, R2 \subseteq Procs, A \subseteq A2, R \subseteq R2
  PROVE  /\ Cardinality(A) + Cardinality(R) <= Cardinality(A2) + Cardinality(R2)
         /\ Cardinality(A) \in Nat /\ Cardinality(R) \in Nat /\ Cardinality(A2) \in Nat /\ Cardinality(R2) \in Nat
<1>1. IsFiniteSet(A2) /\ IsFiniteSet(R2)
  BY ProcsFinite, FS_Subset
<1>2. IsFiniteSet(A) /\ IsFiniteSet(R) /\ Cardinality(A) <= Cardinality(A2) /\ Cardinality(R) <= Cardinality(R2)
  BY <1>1, FS_Subset
<1>3. Cardinality(A) \in Nat /\ Cardinality(R) \in Nat /\ Cardinality(A2) \in Nat /\ Cardinality(R2) \in Nat
  BY <1>1, <1>2, FS_CardinalityType
<1> QED BY <1>2, <1>3

LEMMA SwapIn ==
  ASSUME NEW A, A \subseteq Kids, NEW A2, A2 \subseteq Kids, NEW R, NEW R2, R2 \subseteq Procs,
         NEW k, NEW p, A \ {k} \subseteq A2, R \subseteq R2, p \in R2, p \notin R
  PROVE  Cardinality(A) + Cardinality(R) <= Cardinality(A2) + Cardinality(R2)
<1>1. IsFiniteSet(A) /\ IsFiniteSet(R) /\ IsFiniteSet(A \ {k}) /\ IsFiniteSet(R2) /\ IsFiniteSet(A2)
  BY ProcsFinite, FS_Subset
<1>2. Cardinality(A) \in Nat /\ Cardinality(R) \in Nat /\ Cardinality(R2) \in Nat /\ Cardinality(A2) \in Nat
      /\ Cardinality(A \ {k}) \in Nat
  BY <1>1, FS_CardinalityType
<1>3. Cardinality(A) <= Cardinality(A \ {k}) + 1
  BY <1>1, <1>2, FS_RemoveElement
<1>4. Cardinality(A \ {k}) <= Cardinality(A2)
  BY <1>1, FS_Subset
<1>5. Cardinality(R \cup {p}) = Cardinality(R) + 1 /\ Cardinality(R \cup {p}) <= Cardinality(R2)
  <2>1. R \cup {p} \subseteq R2
    OBVIOUS
  <2> QED BY <1>1, <2>1, FS_AddElement, FS_Subset
<1> QED BY <1>2, <1>3, <1>4, <1>5

LEMMA OneArrived ==
  ASSUME NEW A, A \subseteq Kids, NEW R, R \subseteq Procs, NEW p
  PROVE  /\ Cardinality(A) + Cardinality(R) <= Cardinality(A) + Cardinality(R \ {p}) + 1
         /\ Cardinality(A) + Cardinality(R) > 1 => A # {} \/ R \ {p} # {}
<1>1. IsFiniteSet(A) /\ IsFiniteSet(R) /\ IsFiniteSet(R \ {p})
  BY ProcsFinite, FS_Subset
<1>2. Cardinality(A) \in Nat /\ Cardinality(R) \in Nat /\ Cardinality(R \ {p}) \in Nat
  BY <1>1, FS_CardinalityType
<1>3. Cardinality(R) <= Cardinality(R \ {p}) + 1
  BY <1>1, <1>2, FS_RemoveElement
<1>4. A = {} => Cardinality(A) = 0
  BY FS_EmptySet
<1>5. R \ {p} = {} => Cardinality(R \ {p}) = 0
  BY FS_EmptySet
<1> QED BY <1>2, <1>3, <1>4, <1>5

LEMMA LeftKept ==
  ASSUME LeftInv, left \in Nat, flow' = flow, left' = left, NEW p \in Procs, NEW x, Steps(p, x),
         clean' /\ Live(0)' => /\ clean /\ Live(0) /\ \A k \in Kids : Over(k)' => Over(k)
                               /\ (Arrives(at[p]) => Arrives(x))
  PROVE  LeftInv'
<1>1. ASSUME flow.mode = "many", clean', Live(0)' PROVE left <= Cardinality(NotOver') + Cardinality(Arriving')
  <2>1. NotOver \subseteq NotOver' /\ NotOver' \subseteq Kids
    BY <1>1 DEF NotOver
  <2>2. Arriving \subseteq Arriving' /\ Arriving' \subseteq Procs
    BY <1>1 DEF Arriving, Steps
  <2>3. left <= Cardinality(NotOver) + Cardinality(Arriving)
    BY <1>1 DEF LeftInv
  <2> QED BY <2>1, <2>2, <2>3, Wider
<1> QED BY <1>1 DEF LeftInv

LEMMA ExclKept ==
  ASSUME ExclInv, flow' = flow, NEW p \in Procs, NEW x, Steps(p, x),
         clean' /\ Live(0)' => clean /\ Live(0) /\ \A l : Holds(job[0], l, 0) => Holds(job'[0], l, 0),
         OnParent(x) => OnParent(at[p]) /\ x.lease = at[p].lease
  PROVE  ExclInv'
<1> SUFFICES ASSUME flow.naps, clean', Live(0)', NEW w \in Workers, OnParent(at'[w])
             PROVE  Holds(job'[0], at'[w].lease, 0)
  BY DEF ExclInv
<1>1. OnParent(at[w]) /\ at'[w].lease = at[w].lease
  BY OfProcs DEF Steps
<1> QED BY <1>1 DEF ExclInv

LEMMA HopeKept ==
  ASSUME HopeInv, flow' = flow, job'[0] = job[0], NEW p \in Procs, NEW x, Steps(p, x),
         clean' /\ Live(0)' =>
           /\ clean /\ Live(0) /\ (ToWait' => ToWait) /\ (Hope => Hope')
           /\ OnParent(x) /\ Waits(x, ToWait') =>
                Hope \/ (OnParent(at[p]) /\ Waits(at[p], ToWait) /\ x.lease = at[p].lease)
  PROVE  HopeInv'
<1> SUFFICES ASSUME clean', Live(0)'
             PROVE  /\ ~job'[0].queued /\ ToWait' => Hope'
                    /\ \A w \in Workers : OnParent(at'[w]) /\ Waits(at'[w], ToWait') /\ Deletes(job'[0], at'[w]) => Hope'
  BY DEF HopeInv
<1>1. ~job'[0].queued /\ ToWait' => Hope'
  BY DEF HopeInv
<1>2. ASSUME NEW w \in Workers, OnParent(at'[w]), Waits(at'[w], ToWait'), Deletes(job'[0], at'[w]) PROVE Hope'
  <2>1. Hope \/ (OnParent(at[w]) /\ Waits(at[w], ToWait) /\ at'[w].lease = at[w].lease)
    BY <1>2, OfProcs DEF Steps, Waits
  <2> QED BY <1>2, <2>1 DEF HopeInv, Deletes
<1> QED BY <1>1, <1>2


-----------------------------------------------------------------------------
(* Steps that change no row, no counter, and nothing about the parent's dispatch *)

LEMMA Quiet ==
  ASSUME Known, NEW p \in Procs, NEW x, Steps(p, x), UNCHANGED <<flow, row, births, left, clean>>, job'[0] = job[0],
         trouble' \subseteq trouble, log' \cap Kids \subseteq log,
         Mind(p, x, Shares, Calls, BornKids, LiveRuns),
         Live(0) => (Arrives(at[p]) => Arrives(x)) /\ (Carries(at[p]) => Carries(x)),
         OnParent(x) => OnParent(at[p]) /\ x.lease = at[p].lease,
         Live(0) /\ OnParent(x) /\ Waits(x, ToWait) => Hope \/ Waits(at[p], ToWait)
  PROVE  JInv'
<1>1. BornKids' = BornKids /\ LiveRuns' = LiveRuns /\ Live(0)' = Live(0) /\ ToWait' = ToWait
  BY DEF BornKids, LiveRuns, Live, ToWait
<1>2. \A k \in Kids : Lost(k)' = Lost(k) /\ Over(k)' = Over(k) /\ Live(k)' = Live(k)
  BY DEF Lost, Over, Live
<1>3. left \in Nat /\ Tame /\ BornInv /\ Minds /\ LeftInv /\ ExclInv /\ HopeInv
  BY DEF Known, StoreTypes, JInv
<1>4. Tame' /\ BornInv' /\ Minds'
  BY <1>1, <1>2, <1>3, BornKept, MindsKept DEF Tame, NoneRevived
<1>5. LeftInv'
  BY <1>1, <1>2, <1>3, LeftKept
<1>6. ExclInv'
  BY <1>1, <1>3, ExclKept
<1>7. Live(0) /\ Hope => Hope'
  BY <1>1, <1>2 DEF Hope, Steps
<1>8. HopeInv'
  BY <1>1, <1>3, <1>7, HopeKept
<1> QED BY <1>4, <1>5, <1>6, <1>8 DEF JInv

LEMMA NobodyQuiet ==
  ASSUME Known, UNCHANGED <<flow, row, births, left, clean, at>>, job'[0] = job[0], trouble' \subseteq trouble, log' \cap Kids \subseteq log
  PROVE  JInv'
<1>1. IInv /\ User \in Procs /\ Minds
  BY OfProcs DEF Known, JInv
<1>2. Steps(User, at[User]) /\ Mind(User, at[User], Shares, Calls, BornKids, LiveRuns)
  BY <1>1, Stepping DEF Minds
<1> QED BY <1>1, <1>2, Quiet

(* What is known of a process. *)
LEMMA Minding ==
  ASSUME Known, NEW p \in Procs
  PROVE  /\ Mind(p, at[p], Shares, Calls, BornKids, LiveRuns) /\ DOMAIN at[p] = Holding
         /\ at[p].run \in Runs /\ at[p].target \in Runs /\ at[p].todo \subseteq Kids
         /\ DOMAIN Shares = Positions /\ \A q \in Positions : Shares[q] = SpawnedAt(q)
         /\ \A r : 0 \in LiveRuns <=> Live(0)
         /\ \A k \in Kids : (k \in LiveRuns <=> Live(k)) /\ (~Lost(k) => k \in BornKids) /\ (Live(k) => k \in BornKids)
<1>1. IInv /\ Minds /\ Rows
  BY DEF Known, JInv, IInv
<1>2. \A k \in Kids : ~Lost(k) => k \in BornKids
  BY <1>1 DEF Rows, Lost, BornKids
<1>3. \A k \in Kids : Live(k) => ~Lost(k)
  BY DEF Live, Lost, NoRun, Active
<1> QED BY <1>1, <1>2, <1>3, Facts, Stepping, Constants DEF Minds, Shares, LiveRuns

(* Where a process goes next, as what it knows. *)
LEMMA Steered ==
  ASSUME NEW p, NEW x, NEW sp, NEW calls, NEW born, NEW live, Mind(p, x, sp, calls, born, live), DOMAIN x = Holding
  PROVE  /\ Mind(p, Idle, sp, calls, born, live)
         /\ x.lease # NoLease => Mind(p, Acking(x), sp, calls, born, live)
         /\ \A S : S \subseteq born /\ (x.run = 0 /\ x.lease # NoLease => 0 \notin live)
                   => Mind(p, Onward([x EXCEPT !.todo = S]), sp, calls, born, live)
         /\ (x.run = 0 /\ x.lease # NoLease => 0 \notin live) => Mind(p, Onward(x), sp, calls, born, live)
<1>1. Mind(p, Idle, sp, calls, born, live)
  BY DEF Mind, Idle, Leased, Executing, NoLease
<1>2. ASSUME NEW y, Mind(p, y, sp, calls, born, live), DOMAIN y = Holding
      PROVE  /\ y.lease # NoLease => Mind(p, Acking(y), sp, calls, born, live)
             /\ (y.run = 0 /\ y.lease # NoLease => 0 \notin live) =>
                  Mind(p, [Kept(y) EXCEPT !.pc = "next", !.todo = y.todo], sp, calls, born, live)
  BY <1>2 DEF Mind, Acking, Kept, Idle, Leased, Executing
<1>3. ASSUME NEW y, Mind(p, y, sp, calls, born, live), DOMAIN y = Holding, y.run = 0 /\ y.lease # NoLease => 0 \notin live
      PROVE  Mind(p, Onward(y), sp, calls, born, live)
  BY <1>1, <1>2, <1>3 DEF Onward
<1>4. ASSUME NEW S, S \subseteq born
      PROVE  Mind(p, [x EXCEPT !.todo = S], sp, calls, born, live) /\ DOMAIN [x EXCEPT !.todo = S] = Holding
             /\ [x EXCEPT !.todo = S].run = x.run /\ [x EXCEPT !.todo = S].lease = x.lease
  BY <1>4 DEF Mind, Holding
<1> QED BY <1>1, <1>2, <1>3, <1>4

(* Records that end a tick or go on with a cancellation await nothing, and are on the    *)
(* parent only with the lease they were on it with.                                      *)
LEMMA Bearings ==
  ASSUME NEW x, DOMAIN x = Holding
  PROVE  /\ ~OnParent(Idle) /\ ~Carries(Idle) /\ \A b : ~Waits(Idle, b)
         /\ Acking(x).run = x.run /\ Acking(x).lease = x.lease /\ Acking(x).pc = "ack" /\ ~Carries(Acking(x))
         /\ OnParent(Onward(x)) => OnParent(x) /\ Onward(x).lease = x.lease
BY DEF OnParent, Idle, NoLease, Carries, Arrives, Waits, Acking, Kept, Onward, Holding

LEMMA TakesLoad ==
  ASSUME Known, NEW w \in Workers, Load(w)
  PROVE  JInv'
<1> DEFINE r == at[w].run
           next == IF r = 0 THEN "mark" ELSE "pull"
           seen == IF r = 0 THEN log ELSE told \cap {r}
           y == [Kept(at[w]) EXCEPT !.pc = next, !.seen = seen]
           x == IF Lost(r) \/ Over(r) THEN Acking(at[w]) ELSE y
           Knows(z) == Mind(w, z, Shares, Calls, BornKids, LiveRuns)
<1>1. w \in Procs /\ at[w].pc = "load" /\ at[w].lease # NoLease /\ Goes(w, x)
  BY OfProcs, Minding DEF Load, Mind, Leased
<1>2. Knows(at[w]) /\ DOMAIN at[w] = Holding
  BY <1>1, Minding
<1>3. ~Lost(r) => Knows(y)
  <2>1. \A q \in DOMAIN Shares : q \in log => Shares[q] \subseteq BornKids
    BY <1>1, Minding DEF Known, JInv, BornInv
  <2>2. r # 0 /\ ~Lost(r) => r \in BornKids
    BY <1>1, Minding DEF Runs
  <2>3. y.run = r /\ y.lease = at[w].lease /\ y.pc = next /\ y.seen = seen /\ y.todo = {} /\ y.first = "none"
    BY DEF Kept, Idle
  <2> HIDE DEF y
  <2> QED BY <1>1, <1>2, <2>1, <2>2, <2>3 DEF Mind, Leased, Executing
<1>4. Knows(x)
  BY <1>1, <1>2, <1>3, Steered
<1>5. /\ x.run = r /\ x.lease = at[w].lease /\ ~Carries(at[w])
      /\ Live(0) /\ r = 0 => x = y /\ x.pc # "ack" /\ x.pc # "body"
  BY <1>1 DEF Kept, Idle, Acking, Carries, Arrives, Live, Lost, Over, NoRun, Active, Terminal
<1>6. UNCHANGED <<flow, row, births, left, job, clean, log, trouble>>
  BY DEF Load, store
<1> HIDE DEF x, y
<1>7. Steps(w, x)
  BY <1>1, Stepping DEF Known
<1> QED BY <1>1, <1>4, <1>5, <1>6, <1>7, Quiet DEF OnParent, Waits, Carries

(* A cancellation on its way through a family. *)
LEMMA TakesPull ==
  ASSUME Known, NEW w \in Workers, PullCheck(w) \/ CancelSelf(w) \/ DrainTimer(w)
  PROVE  JInv'
<1> DEFINE Knows(z) == Mind(w, z, Shares, Calls, BornKids, LiveRuns)
<1>1. w \in Procs /\ Knows(at[w]) /\ DOMAIN at[w] = Holding
  BY OfProcs, Minding
<1>2. UNCHANGED <<flow, row, births, left, job, clean, log, trouble>>
  BY DEF PullCheck, CancelSelf, DrainTimer, store
<1>3. CASE PullCheck(w)
  <2> DEFINE x == IF Fallen(0) THEN [Kept(at[w]) EXCEPT !.pc = "fallen"] ELSE [at[w] EXCEPT !.pc = "mark"]
  <2>1. at[w].pc = "pull" /\ Goes(w, x)
    BY <1>3 DEF PullCheck, Pull
  <2>2. at[w].run \in BornKids /\ at[w].run # 0 /\ at[w].lease # NoLease
    BY <1>1, <2>1, Constants DEF Mind, Leased, BornKids
  <2>3. x.run = at[w].run /\ x.pc \in {"fallen", "mark"}
    BY <1>1 DEF Kept, Idle, Holding
  <2>4. Knows(x)
    BY <1>1, <2>1, <2>2 DEF Mind, Kept, Idle, Leased, Executing, Holding
  <2>5. ~Carries(at[w]) /\ ~OnParent(x)
    BY <2>1, <2>2, <2>3 DEF Carries, Arrives, OnParent
  <2> HIDE DEF x
  <2>6. Steps(w, x)
    BY <1>1, <2>1, Stepping DEF Known
  <2> QED BY <1>1, <1>2, <2>4, <2>5, <2>6, Quiet DEF Carries
<1>4. CASE CancelSelf(w)
  <2> DEFINE x == Looked(at[w], at[w].run)
  <2>1. at[w].pc = "fallen" /\ Goes(w, x)
    BY <1>4 DEF CancelSelf
  <2>2. at[w].run \in BornKids /\ at[w].run # 0
    BY <1>1, <2>1, Constants DEF Mind, BornKids
  <2>3. x.run = at[w].run /\ x.pc = "strike"
    BY <1>1 DEF Looked, Holding
  <2>4. Knows(x)
    <3>1. ~Live(at[w].run) => at[w].run \notin LiveRuns
      BY DEF LiveRuns
    <3> QED BY <1>1, <2>1, <2>2, <3>1 DEF Mind, Looked, Leased, Executing, Holding
  <2>5. ~Carries(at[w]) /\ ~OnParent(x)
    BY <2>1, <2>2, <2>3 DEF Carries, Arrives, OnParent
  <2> HIDE DEF x
  <2>6. Steps(w, x)
    BY <1>1, <2>1, Stepping DEF Known
  <2> QED BY <1>1, <1>2, <2>4, <2>5, <2>6, Quiet DEF Carries
<1>5. CASE DrainTimer(w)
  <2> DEFINE x == [Idle EXCEPT !.pc = "wake"]
  <2>1. at[w].pc = "idle" /\ Goes(w, x)
    BY <1>5 DEF DrainTimer
  <2>2. Knows(x) /\ ~OnParent(x) /\ ~Carries(at[w])
    BY <2>1 DEF Mind, Idle, Leased, Executing, NoLease, OnParent, Carries, Arrives
  <2> HIDE DEF x
  <2>3. Steps(w, x)
    BY <1>1, <2>1, Stepping DEF Known
  <2> QED BY <1>1, <1>2, <2>2, <2>3, Quiet DEF Carries
<1> QED BY <1>3, <1>4, <1>5

LEMMA TakesCancel ==
  ASSUME Known, NEW p \in Procs, TellParent(p) \/ ListKids(p) \/ CancelKid(p)
  PROVE  JInv'
<1> DEFINE Knows(z) == Mind(p, z, Shares, Calls, BornKids, LiveRuns)
<1>1. Knows(at[p]) /\ DOMAIN at[p] = Holding /\ (0 \in LiveRuns <=> Live(0))
  BY Minding
<1>2. UNCHANGED <<flow, row, births, left, job, clean, log, trouble>>
  BY DEF TellParent, ListKids, CancelKid, store
<1>3. at[p].run = 0 /\ at[p].lease # NoLease => ~Live(0)
  BY <1>1 DEF Mind, Executing, TellParent, ListKids, CancelKid
<1>4. CASE TellParent(p)
  <2> DEFINE x == IF Live(0) THEN [at[p] EXCEPT !.pc = "arrive", !.out = "canceled"] ELSE Onward(at[p])
  <2>1. at[p].pc = "tell" /\ Goes(p, x)
    BY <1>4 DEF TellParent
  <2>2. Knows(x)
    <3>1. Live(0) => Knows([at[p] EXCEPT !.pc = "arrive", !.out = "canceled"])
      BY <1>1, <1>3, <2>1 DEF Mind, Leased, Executing, Holding
    <3> QED BY <1>1, <1>3, <3>1, Steered
  <2>3. /\ OnParent(x) => OnParent(at[p]) /\ x.lease = at[p].lease
        /\ Live(0) => x.pc = "arrive"
    BY <1>1, Bearings DEF OnParent, Holding
  <2> HIDE DEF x
  <2>4. Steps(p, x)
    BY <2>1, Stepping DEF Known
  <2> QED BY <1>1, <1>2, <2>2, <2>3, <2>4, Quiet DEF Carries, Arrives, Waits
<1>5. CASE ListKids(p)
  <2> DEFINE S == {k \in Kids : Live(k)}
             x == Onward([at[p] EXCEPT !.todo = S])
  <2>1. at[p].pc = "kids" /\ Goes(p, x)
    BY <1>5 DEF ListKids
  <2>2. Knows(x)
    <3>1. S \subseteq BornKids
      BY Minding
    <3> QED BY <1>1, <1>3, <3>1, Steered
  <2>3. OnParent(x) => OnParent(at[p]) /\ x.lease = at[p].lease
    <3>1. /\ DOMAIN [at[p] EXCEPT !.todo = S] = Holding
          /\ [at[p] EXCEPT !.todo = S].run = at[p].run /\ [at[p] EXCEPT !.todo = S].lease = at[p].lease
      BY <1>1 DEF Holding
    <3> QED BY <3>1, Bearings DEF OnParent
  <2>4. ~Carries(at[p]) /\ (Live(0) => ~OnParent(x))
    BY <1>3, <2>1, <2>3 DEF Carries, Arrives, OnParent
  <2> HIDE DEF x
  <2>5. Steps(p, x)
    BY <2>1, Stepping DEF Known
  <2> QED BY <1>1, <1>2, <2>2, <2>3, <2>4, <2>5, Quiet DEF Carries
<1>6. CASE CancelKid(p)
  <2>1. PICK k \in at[p].todo : Goes(p, Looked([at[p] EXCEPT !.todo = @ \ {k}], k))
    BY <1>6 DEF CancelKid
  <2> DEFINE x == Looked([at[p] EXCEPT !.todo = @ \ {k}], k)
  <2>2. k \in BornKids /\ k \in Kids /\ at[p].pc = "next" /\ (~Live(k) => k \notin LiveRuns)
    BY <1>1, <1>6, Minding DEF Mind, CancelKid
  <2>3. x.run = at[p].run /\ x.lease = at[p].lease /\ x.pc = "strike"
    BY <1>1 DEF Looked, Holding
  <2>4. Knows(x)
    BY <1>1, <1>3, <2>2 DEF Mind, Looked, Leased, Executing, Holding
  <2>5. ~Carries(at[p]) /\ (Live(0) => ~OnParent(x))
    BY <1>3, <2>2, <2>3 DEF Carries, Arrives, OnParent
  <2> HIDE DEF x
  <2>6. Steps(p, x)
    BY <2>1, Stepping DEF Known, x
  <2> QED BY <1>1, <1>2, <2>3, <2>4, <2>5, <2>6, Quiet DEF Carries, OnParent
<1> QED BY <1>4, <1>5, <1>6

LEMMA TakesOther ==
  ASSUME Known, NEW p \in Procs, RunGone(p) \/ (p = User /\ \E r \in Runs : CancelRun(r))
  PROVE  JInv'
<1> DEFINE Knows(z) == Mind(p, z, Shares, Calls, BornKids, LiveRuns)
<1>1. Knows(at[p]) /\ DOMAIN at[p] = Holding
  BY Minding
<1>2. UNCHANGED <<flow, row, births, left, job, clean, log>> /\ trouble' \subseteq trouble
  BY DEF RunGone, CancelRun, store, Meets
<1>3. CASE RunGone(p)
  <2>1. Steps(p, Idle) /\ ~Carries(at[p])
    BY <1>3, Stepping DEF RunGone, Known, Carries, Arrives
  <2> QED BY <1>1, <1>2, <2>1, Steered, Bearings, Quiet DEF Carries
<1>4. ASSUME NEW r \in Runs, p = User, CancelRun(r) PROVE JInv'
  <2> DEFINE x == Looked(Idle, r)
  <2>1. Goes(p, x) /\ at[p].pc = "idle" /\ ~Lost(r)
    BY <1>4 DEF CancelRun
  <2>2. r # 0 => r \in BornKids /\ (~Live(r) => r \notin LiveRuns)
    BY <2>1, Minding DEF Runs
  <2>3. x.run = 0 /\ x.lease = NoLease /\ x.pc = "strike" /\ x.target = r /\ x.live = Live(r) /\ x.todo = {}
        /\ x.seen = {} /\ x.first = "none"
    BY DEF Looked, Idle
  <2> HIDE DEF x
  <2>4. Knows(x) /\ ~OnParent(x) /\ ~Carries(at[p])
    BY <2>1, <2>2, <2>3 DEF Mind, Leased, Executing, OnParent, Carries, Arrives
  <2>5. Steps(p, x)
    BY <2>1, Stepping DEF Known
  <2> QED BY <1>1, <1>2, <2>4, <2>5, Quiet DEF Carries
<1> QED BY <1>3, <1>4

-----------------------------------------------------------------------------
(* The parent's body *)

(* Every child is spawned at some position. *)
LEMMA Covered ==
  ASSUME Rows, NEW k \in Kids
  PROVE  \E p \in Positions : k \in SpawnedAt(p)
<1> DEFINE S == {p \in Nat : k <= p * Per}
<1>1. k \in Nat /\ k >= 1 /\ Per \in Nat /\ Per >= 1 /\ Kids = 1..Cardinality(Kids) /\ Cardinality(Kids) \in Nat
  BY Constants, FlowTyped
<1>2. k \in S
  <2>1. \A c \in Nat : c >= 1 => k <= k * c
    BY <1>1
  <2> QED BY <1>1, <2>1
<1>3. PICK p \in S : \A q \in S : p <= q
  BY <1>2, FirstThereIs
<1>4. p \in Nat /\ p <= k /\ p # 0
  BY <1>1, <1>2, <1>3
<1>5. p - 1 \in Nat /\ ~(p <= p - 1)
  BY <1>4
<1>6. p - 1 \notin S
  BY <1>3, <1>5
<1>7. (p - 1) * Per \in Nat
  BY <1>1, <1>5
<1>8. (p - 1) * Per < k
  BY <1>1, <1>5, <1>6, <1>7
<1>9. p \in Kids
  BY <1>1, <1>4
<1>10. k \in SpawnedAt(p)
  BY <1>3, <1>8 DEF SpawnedAt
<1> QED BY <1>9, <1>10 DEF Positions

LEMMA InBody ==
  ASSUME Known, NEW w \in Workers, InParent(w)
  PROVE  /\ w \in Procs /\ Mind(w, at[w], Shares, Calls, BornKids, LiveRuns) /\ DOMAIN at[w] = Holding
         /\ at[w].pc = "body" /\ at[w].run = 0 /\ at[w].lease # NoLease /\ OnParent(at[w]) /\ ~Carries(at[w])
         /\ \A p \in Positions : at[w].call[p] # "due" => SpawnedAt(p) \subseteq BornKids
         /\ \A p \in Calls : p # NapAt => p \in Positions
         /\ Positions \subseteq Calls /\ DOMAIN at[w].call = Calls
<1>1. w \in Procs /\ at[w].pc = "body" /\ at[w].run = 0
  BY OfProcs DEF InParent
<1>2. Mind(w, at[w], Shares, Calls, BornKids, LiveRuns) /\ DOMAIN at[w] = Holding
      /\ DOMAIN Shares = Positions /\ \A q \in Positions : Shares[q] = SpawnedAt(q)
  BY <1>1, Minding
<1>3. at[w].lease # NoLease /\ \A p \in Positions : at[w].call[p] # "due" => SpawnedAt(p) \subseteq BornKids
  BY <1>1, <1>2 DEF Mind, Leased
<1>4. IInv /\ Rows
  BY DEF Known, IInv
<1>5. DOMAIN at[w].call = Calls
  BY <1>1, <1>4, Facts DEF Sound
<1> QED BY <1>1, <1>2, <1>3, <1>4, <1>5, CallsTyped DEF OnParent, Carries, Arrives

(* A call of the parent goes on to its next phase. *)
Makes(x, z, p, ph) ==
  /\ z.pc = "body" /\ z.run = 0 /\ z.lease = x.lease /\ z.seen = x.seen /\ z.todo = x.todo
  /\ \A q \in DOMAIN x.call : z.call[q] = IF q = p THEN ph ELSE x.call[q]
  /\ z.first = IF x.first = "none" /\ ph \notin {"ok", "read"} THEN ph ELSE x.first

LEMMA Setting ==
  ASSUME NEW x, DOMAIN x = Holding, x.pc = "body", x.run = 0, NEW p, NEW ph
  PROVE  /\ Makes(x, Sets(x, p, ph), p, ph)
         /\ \A b : Makes(x, [Sets(x, p, ph) EXCEPT !.wake = b], p, ph)
<1> DEFINE first == IF x.first = "none" /\ ph \notin {"ok", "read"} THEN ph ELSE x.first
           call == [x.call EXCEPT ![p] = ph]
           y == [x EXCEPT !.call = call, !.first = first]
<1>1. Sets(x, p, ph) = y
  BY DEF Sets, Holding
<1>2. \A q \in DOMAIN x.call : call[q] = IF q = p THEN ph ELSE x.call[q]
  OBVIOUS
<1> HIDE DEF call
<1>3. /\ y.pc = "body" /\ y.run = 0 /\ y.lease = x.lease /\ y.seen = x.seen /\ y.todo = x.todo
      /\ y.call = call /\ y.first = first /\ DOMAIN y = Holding
  <2> HIDE DEF first
  <2> QED BY DEF Holding
<1> HIDE DEF y
<1>4. ASSUME NEW b
      PROVE  /\ [y EXCEPT !.wake = b].pc = y.pc /\ [y EXCEPT !.wake = b].run = y.run
             /\ [y EXCEPT !.wake = b].lease = y.lease /\ [y EXCEPT !.wake = b].seen = y.seen
             /\ [y EXCEPT !.wake = b].todo = y.todo /\ [y EXCEPT !.wake = b].call = y.call
             /\ [y EXCEPT !.wake = b].first = y.first
  BY <1>3 DEF Holding
<1> QED BY <1>1, <1>2, <1>3, <1>4 DEF Makes

LEMMA Called ==
  ASSUME NEW w, NEW x, NEW sp, NEW calls, NEW born, NEW live, NEW p, NEW ph, NEW z,
         Mind(w, x, sp, calls, born, live), x.pc = "body", x.run = 0, DOMAIN sp \subseteq DOMAIN x.call,
         p \in DOMAIN sp => sp[p] \subseteq born, ph = "nap" => NapAt \in calls, Makes(x, z, p, ph)
  PROVE  /\ Mind(w, z, sp, calls, born, live)
         /\ z.pc = "body" /\ z.run = 0 /\ z.lease = x.lease
         /\ z.first = "wait" => x.first = "wait" \/ ph = "wait"
<1>1. \A q \in DOMAIN sp : z.call[q] # "due" => q = p \/ x.call[q] # "due"
  BY DEF Makes
<1>2. z.first = "nap" => NapAt \in calls
  BY DEF Mind, Makes
<1>3. \A q \in DOMAIN sp : z.call[q] # "due" => sp[q] \subseteq born
  BY <1>1 DEF Mind
<1> QED BY <1>2, <1>3 DEF Mind, Leased, Executing, Makes

(* A child that has no answer yet, and is born, lives. *)
LEMMA Unanswered ==
  ASSUME Known, Live(0), NEW k \in BornKids, Answer(k) = "wait"
  PROVE  Live(k)
<1>1. k \in Runs /\ row[k] \in RunRow /\ row[k].attempts = 0 /\ ~Lost(k)
  BY Constants DEF Known, JInv, BornInv, BornKids, IInv, Rows
<1>2. row[k].status # "absent"
  BY <1>1 DEF RunRow, Lost, NoRun
<1>3. row[k].status \notin Terminal
  BY DEF Answer, Fallen, Terminal
<1> QED BY <1>1, <1>2, <1>3 DEF RunRow, Live

LEMMA TakesReadOne ==
  ASSUME Known, NEW w \in Workers, NEW p \in Calls, ReadChild(w, p)
  PROVE  JInv'
<1> DEFINE x == Sets(at[w], p, Answer(p))
<1>1. InParent(w) /\ flow.mode # "many" /\ p # NapAt /\ at[w].call[p] = "read" /\ Goes(w, x)
  BY DEF ReadChild, Doing
<1>2. p \in Positions /\ p \in Kids /\ SpawnedAt(p) \subseteq BornKids /\ SpawnedAt(p) = {p} /\ Positions = Kids
  BY <1>1, InBody, OneEach DEF Known, IInv
<1>3. Answer(p) # "nap" /\ Answer(p) \in {"ok", "wait", "throw"}
  BY DEF Answer
<1>4. DOMAIN Shares = Positions /\ Shares[p] = SpawnedAt(p)
  BY <1>2 DEF Shares
<1>5. Mind(w, x, Shares, Calls, BornKids, LiveRuns)
      /\ x.pc = "body" /\ x.run = 0 /\ x.lease = at[w].lease
      /\ (x.first = "wait" => at[w].first = "wait" \/ Answer(p) = "wait")
  <2>1. /\ Mind(w, at[w], Shares, Calls, BornKids, LiveRuns) /\ DOMAIN at[w] = Holding
        /\ at[w].pc = "body" /\ at[w].run = 0 /\ DOMAIN Shares \subseteq DOMAIN at[w].call
    BY <1>1, <1>4, InBody
  <2>2. Makes(at[w], x, p, Answer(p))
    BY <2>1, Setting
  <2> HIDE DEF x
  <2>3. ASSUME NEW a, a # "nap", Makes(at[w], x, p, a)
        PROVE  /\ Mind(w, x, Shares, Calls, BornKids, LiveRuns)
               /\ x.pc = "body" /\ x.run = 0 /\ x.lease = at[w].lease
               /\ x.first = "wait" => at[w].first = "wait" \/ a = "wait"
    <3>1. Shares[p] \subseteq BornKids
      BY <1>2, <1>4
    <3>2. Mind(w, x, Shares, Calls, BornKids, LiveRuns)
      BY <2>1, <2>3, <3>1, Called
    <3> QED BY <2>1, <2>3, <3>2 DEF Makes
  <2> QED BY <1>3, <2>2, <2>3
<1>6. Live(0) /\ Answer(p) = "wait" => Hope
  BY <1>1, <1>2, Unanswered DEF Hope
<1> HIDE DEF x
<1>7. Steps(w, x)
  BY <1>1, InBody, Stepping DEF Known
<1> QED BY <1>1, <1>5, <1>6, <1>7, InBody, Quiet DEF ReadChild, store, OnParent, Waits, Carries

LEMMA TakesReadAll ==
  ASSUME Known, NEW w \in Workers, ReadChildren(w)
  PROVE  JInv'
<1> DEFINE a == Answer(FirstOf(Undecided))
           x == IF Undecided = {} THEN [at[w] EXCEPT !.pc = "join"] ELSE [at[w] EXCEPT !.first = a]
<1>1. InParent(w) /\ at[w].first = "none" /\ Goes(w, x) /\ \A p \in Calls : at[w].call[p] = "ok"
  BY DEF ReadChildren
<1>2. BornKids = Kids
  <2>1. \A p \in Positions : SpawnedAt(p) \subseteq BornKids
    BY <1>1, InBody
  <2> QED BY <2>1, Covered DEF BornKids, Known, IInv
<1>3. Undecided # {} => FirstOf(Undecided) \in Kids
  <2>1. Undecided \subseteq Nat /\ Undecided \subseteq Kids
    BY Constants DEF Undecided
  <2>2. Undecided # {} => \E k \in Undecided : \A q \in Undecided : k <= q
    BY <2>1, FirstThereIs
  <2> QED BY <2>1, <2>2 DEF FirstOf
<1>4. a # "nap"
  BY DEF Answer
<1>5. Live(0) /\ Undecided # {} /\ a = "wait" => Hope
  BY <1>2, <1>3, Unanswered DEF Hope
<1>6. /\ Mind(w, x, Shares, Calls, BornKids, LiveRuns)
      /\ x.run = 0 /\ x.lease = at[w].lease /\ x.pc \in {"body", "join"}
      /\ x.pc = "body" /\ x.first = "wait" => Undecided # {} /\ a = "wait"
  <2> HIDE DEF a
  <2>1. x.run = 0 /\ x.lease = at[w].lease /\ x.pc \in {"body", "join"} /\ x.call = at[w].call /\ x.seen = at[w].seen
        /\ x.todo = at[w].todo /\ (x.pc = "join" => x.first = "none") /\ (x.pc = "body" => x.first = a /\ Undecided # {})
    BY <1>1, InBody DEF Holding
  <2> HIDE DEF x
  <2> QED BY <1>1, <1>4, <2>1, InBody DEF Mind, Leased, Executing
<1> HIDE DEF x
<1>7. Steps(w, x)
  BY <1>1, InBody, Stepping DEF Known
<1> QED BY <1>1, <1>5, <1>6, <1>7, InBody, Quiet DEF ReadChildren, store, OnParent, Waits, Carries

LEMMA TakesJoin ==
  ASSUME Known, NEW w \in Workers, LogJoin(w)
  PROVE  JInv'
<1> DEFINE x == [at[w] EXCEPT !.pc = "body", !.seen = @ \cup {JoinAt}]
<1>1. w \in Procs /\ at[w].pc = "join" /\ Goes(w, x) /\ DOMAIN at[w] = Holding
      /\ Mind(w, at[w], Shares, Calls, BornKids, LiveRuns) /\ DOMAIN Shares = Positions
  BY OfProcs, Minding DEF LogJoin
<1>2. JoinAt \notin Positions /\ JoinAt \notin Kids
  BY Constants DEF Positions
<1>3. /\ Mind(w, x, Shares, Calls, BornKids, LiveRuns)
      /\ x.run = at[w].run /\ x.lease = at[w].lease /\ x.pc = "body" /\ x.first = "none"
  BY <1>1, <1>2 DEF Mind, Leased, Executing, Holding
<1> HIDE DEF x
<1>4. Steps(w, x)
  BY <1>1, Stepping DEF Known
<1> QED BY <1>1, <1>2, <1>3, <1>4, Quiet DEF LogJoin, OnParent, Waits, Carries, Arrives

LEMMA TakesSleep ==
  ASSUME Known, NEW w \in Workers, Sleep(w)
  PROVE  JInv'
<1> DEFINE x == IF nap = "past" /\ NapAt \in at[w].seen THEN Sets(at[w], NapAt, "ok")
                ELSE [Sets(at[w], NapAt, "nap") EXCEPT !.wake = TRUE]
<1>1. InParent(w) /\ Goes(w, x) /\ NapAt \in Calls
  BY DEF Sleep, Doing
<1>2. NapAt \notin Kids /\ NapAt \notin Positions /\ flow.naps
  BY <1>1, Constants DEF NapAt, Calls, Positions
<1>3. DOMAIN Shares = Positions
  BY DEF Shares
<1>4. /\ Mind(w, x, Shares, Calls, BornKids, LiveRuns)
      /\ x.pc = "body" /\ x.run = 0 /\ x.lease = at[w].lease /\ (x.first = "wait" => at[w].first = "wait")
  <2>1. /\ Mind(w, at[w], Shares, Calls, BornKids, LiveRuns) /\ DOMAIN at[w] = Holding
        /\ at[w].pc = "body" /\ at[w].run = 0 /\ DOMAIN Shares \subseteq DOMAIN at[w].call
    BY <1>1, <1>3, InBody
  <2>2. Makes(at[w], x, NapAt, "ok") \/ Makes(at[w], x, NapAt, "nap")
    BY <2>1, Setting
  <2> HIDE DEF x
  <2>3. ASSUME NEW ph \in {"ok", "nap"}, Makes(at[w], x, NapAt, ph)
        PROVE  /\ Mind(w, x, Shares, Calls, BornKids, LiveRuns)
               /\ x.pc = "body" /\ x.run = 0 /\ x.lease = at[w].lease /\ (x.first = "wait" => at[w].first = "wait")
    <3>1. NapAt \notin DOMAIN Shares /\ NapAt \in Calls
      BY <1>1, <1>2, <1>3
    <3> QED BY <2>1, <2>3, <3>1, Called
  <2> QED BY <2>2, <2>3
<1> HIDE DEF x
<1>5. Steps(w, x)
  BY <1>1, InBody, Stepping DEF Known
<1>6. log' \cap Kids \subseteq log
  BY <1>2 DEF Sleep
<1> QED BY <1>1, <1>4, <1>5, <1>6, InBody, Quiet DEF Sleep, OnParent, Waits, Carries

(* A position is written, by the first worker there, or found written. *)
LEMMA Placed ==
  ASSUME Known, NEW w \in Workers, NEW p \in Calls, Invoke(w, p)
  PROVE  /\ InParent(w) /\ p \in Positions /\ p \in Kids /\ at[w].call[p] = "due" /\ Turn(w, p)
         /\ Makes(at[w], Sets(at[w], p, Written), p, Written) /\ Written # "wait" /\ Written # "nap"
         /\ Steps(w, Sets(at[w], p, Written))
<1>1. InParent(w) /\ p # NapAt /\ at[w].call[p] = "due" /\ Turn(w, p) /\ Goes(w, Sets(at[w], p, Written))
  BY DEF Invoke, Doing
<1> QED BY <1>1, InBody, Setting, Stepping DEF Known, Written, Positions

LEMMA TakesInvokeAgain ==
  ASSUME Known, NEW w \in Workers, NEW p \in Calls, Invoke(w, p), p \in at[w].seen \/ p \in log
  PROVE  JInv'
<1> DEFINE x == Sets(at[w], p, Written)
<1>1. InParent(w) /\ p \in Positions /\ Makes(at[w], x, p, Written) /\ Written # "wait" /\ Written # "nap" /\ Steps(w, x)
  BY Placed
<1>2. SpawnedAt(p) \subseteq BornKids /\ DOMAIN Shares = Positions /\ Shares[p] = SpawnedAt(p)
  <2>1. DOMAIN Shares = Positions /\ Shares[p] = SpawnedAt(p)
    BY <1>1 DEF Shares
  <2>2. p \in at[w].seen => SpawnedAt(p) \subseteq BornKids
    BY <1>1, <2>1, InBody DEF Mind
  <2> QED BY <1>1, <2>1, <2>2 DEF Known, JInv, BornInv
<1> HIDE DEF x
<1>3. /\ Mind(w, at[w], Shares, Calls, BornKids, LiveRuns)
      /\ at[w].pc = "body" /\ at[w].run = 0 /\ DOMAIN Shares \subseteq DOMAIN at[w].call
  BY <1>1, <1>2, InBody
<1>4. /\ Mind(w, x, Shares, Calls, BornKids, LiveRuns)
      /\ x.pc = "body" /\ x.run = 0 /\ x.lease = at[w].lease /\ (x.first = "wait" => at[w].first = "wait")
  BY <1>1, <1>2, <1>3, Called
<1>5. UNCHANGED <<log, births, row, job, left>>
  BY DEF Invoke, Spawned
<1> QED BY <1>1, <1>4, <1>5, InBody, Quiet DEF Invoke, OnParent, Waits, Carries

LEMMA TakesSpawn ==
  ASSUME Known, NEW w \in Workers, NEW p \in Calls, Invoke(w, p), p \notin at[w].seen, p \notin log
  PROVE  JInv'
<1> DEFINE x == Sets(at[w], p, Written)
<1>1. /\ InParent(w) /\ p \in Positions /\ p \in Kids /\ at[w].call[p] = "due" /\ Turn(w, p)
      /\ Makes(at[w], x, p, Written) /\ Written # "wait" /\ Written # "nap" /\ Steps(w, x)
  BY Placed
<1>2. /\ Rows /\ Logs /\ left \in Nat /\ Tame /\ BornInv /\ Minds /\ LeftInv /\ ExclInv /\ HopeInv
      /\ Spawned(w, p) /\ UNCHANGED <<flow, trouble, clean, ended>> /\ ~Lost(0)
  BY DEF Known, StoreTypes, JInv, IInv, Invoke, Doing, InParent
<1>3. /\ \A k \in Kids : IF k \in SpawnedAt(p) THEN births[k] = 0 /\ births'[k] = 1 /\ row'[k] = Fresh
                         ELSE births'[k] = births[k] /\ row'[k] = row[k]
      /\ row'[0] = row[0] /\ log' = log \cup {p} /\ SpawnedAt(p) \subseteq Kids
  BY <1>1, <1>2, SpawnedKeeps DEF Spawned, SpawnedAt
<1>4. /\ BornKids' = BornKids \cup SpawnedAt(p) /\ \A k \in BornKids : k \notin SpawnedAt(p)
      /\ Live(0)' = Live(0) /\ ToWait' = ToWait
  BY <1>2, <1>3 DEF BornKids, Live, ToWait
<1>5. \A k \in Kids : /\ Live(k) => Live(k)'
                      /\ k \in BornKids => (Live(k)' <=> Live(k)) /\ (Lost(k)' <=> Lost(k))
                      /\ k \in SpawnedAt(p) => ~Lost(k)'
                      /\ Over(k)' => Over(k)
  <2>1. Fresh.status \in Active /\ Fresh.status \notin Terminal /\ Fresh # NoRun
    BY DEF Fresh, Active, Terminal, NoRun
  <2> QED BY <1>3, <1>4, <2>1 DEF Live, Lost, Over
<1>6. NoneRevived
  BY <1>2, <1>4, <1>5 DEF NoneRevived, LiveRuns, BornKids
<1>7. DOMAIN Shares = Positions /\ Shares[p] = SpawnedAt(p)
  BY <1>1 DEF Shares
<1> HIDE DEF x
<1>8. /\ Mind(w, at[w], Shares, Calls, BornKids', LiveRuns')
      /\ at[w].pc = "body" /\ at[w].run = 0 /\ DOMAIN Shares \subseteq DOMAIN at[w].call
  BY <1>1, <1>6, <1>7, InBody, Wiser DEF NoneRevived
<1>9. /\ Mind(w, x, Shares, Calls, BornKids', LiveRuns')
      /\ x.pc = "body" /\ x.run = 0 /\ x.lease = at[w].lease /\ (x.first = "wait" => at[w].first = "wait")
  <2>1. Shares[p] \subseteq BornKids'
    BY <1>4, <1>7
  <2>2. ASSUME NEW b, NEW l, Mind(w, at[w], Shares, Calls, b, l), Shares[p] \subseteq b
        PROVE  /\ Mind(w, x, Shares, Calls, b, l)
               /\ x.pc = "body" /\ x.run = 0 /\ x.lease = at[w].lease /\ (x.first = "wait" => at[w].first = "wait")
    BY <1>1, <1>8, <2>2, Called
  <2> QED BY <1>8, <2>1, <2>2
<1>10. Minds'
  BY <1>1, <1>2, <1>6, <1>9, OfProcs, MindsKept
<1>11. 1 \in Kids /\ 1 \in Positions /\ 1 \in SpawnedAt(1)
  <2>1. 1 \in Kids
    BY <1>1, Constants
  <2>2. (1 - 1) * Per < 1 /\ 1 <= 1 * Per
    BY <1>2, FlowTyped
  <2> QED BY <2>1, <2>2 DEF SpawnedAt, Positions
<1>12. flow.mode = "many" => 1 \in BornKids'
  <2>1. CASE p = 1
    BY <1>4, <1>11, <2>1
  <2>2. ASSUME p # 1, flow.mode = "many" PROVE 1 \in BornKids
    <3>1. at[w].call[1] = "ok"
      BY <1>1, <1>11, <2>2, Constants, InBody DEF Turn
    <3> QED BY <1>1, <1>11, <3>1, InBody
  <2> QED BY <1>4, <2>1, <2>2
<1>13. BornInv'
  <2>1. Positions' = Positions /\ \A q : SpawnedAt(q)' = SpawnedAt(q)
    BY <1>2, SameFlow
  <2>2. \A q \in Positions \cap log' : SpawnedAt(q) \subseteq BornKids'
    BY <1>2, <1>3, <1>4 DEF BornInv
  <2>3. Live(0)' => \A k \in BornKids' : ~Lost(k)'
    BY <1>2, <1>3, <1>4, <1>5 DEF BornInv, BornKids
  <2> QED BY <1>2, <1>12, <2>1, <2>2, <2>3 DEF BornInv
<1>14. LeftInv'
  <2>1. NotOver \subseteq NotOver' /\ NotOver' \subseteq Kids
    BY <1>5 DEF NotOver
  <2>2. Arriving \subseteq Arriving' /\ Arriving' \subseteq Procs
    BY <1>1, InBody DEF Arriving, Steps, Carries
  <2>3. left' = IF flow.mode # "many" THEN 1 ELSE IF p = 1 THEN Cardinality(Kids) ELSE left
    BY <1>2 DEF Spawned
  <2>4. ASSUME flow.mode = "many", clean, Live(0), p = 1
        PROVE  Cardinality(Kids) <= Cardinality(NotOver') + Cardinality(Arriving')
    <3>1. BornKids = {}
      BY <1>2, <1>4, <1>11, <2>4 DEF BornInv
    <3>2. \A k \in Kids : row[k] = NoRun
      BY <1>2, <3>1 DEF Rows, BornKids
    <3>3. NotOver = Kids
      BY <3>2 DEF NotOver, Over, NoRun, Terminal
    <3>4. Cardinality(Kids) + Cardinality(Arriving) <= Cardinality(NotOver') + Cardinality(Arriving')
          /\ Cardinality(Kids) \in Nat /\ Cardinality(Arriving) \in Nat
          /\ Cardinality(NotOver') \in Nat /\ Cardinality(Arriving') \in Nat
      BY <2>1, <2>2, <3>3, Wider
    <3> QED BY <3>4
  <2>5. ASSUME flow.mode = "many", clean, Live(0)
        PROVE  left <= Cardinality(NotOver') + Cardinality(Arriving')
    BY <1>2, <2>1, <2>2, <2>5, Wider DEF LeftInv
  <2> QED BY <1>2, <1>4, <2>3, <2>4, <2>5 DEF LeftInv
<1>15. job'[0] = job[0]
  BY <1>2, <1>3, Constants DEF Spawned
<1>16. ExclInv'
  BY <1>1, <1>2, <1>4, <1>9, <1>15, InBody, ExclKept
<1>17. Hope => Hope'
  BY <1>1, <1>2, <1>3, <1>4, <1>5, InBody DEF Hope, Steps, BornKids
<1>18. HopeInv'
  BY <1>1, <1>2, <1>4, <1>9, <1>15, <1>17, InBody, HopeKept DEF Waits
<1> QED BY <1>2, <1>10, <1>13, <1>14, <1>16, <1>18 DEF JInv, Tame

-----------------------------------------------------------------------------
(* Steps that turn a row *)

(* Nothing is asked once the parent is over, a process has died, or a bulk cancel was made. *)
LEMMA Moot ==
  ASSUME ~Live(0)' \/ ~clean', flow' = flow, flow.mode # "many" => left' <= 1
  PROVE  LeftInv' /\ ExclInv' /\ HopeInv'
BY DEF LeftInv, ExclInv, HopeInv

LEMMA Turning ==
  ASSUME Known, NEW r \in Runs, ~Lost(r), NEW rec \in RunRow, rec.status # "absent",
         Over(r) => rec.status = row[r].status, Put(r, rec), UNCHANGED <<flow, births, log>>
  PROVE  /\ NoneRevived /\ BornInv' /\ BornKids' = BornKids
         /\ \A q \in Runs : q # r => row'[q] = row[q] /\ (Live(q)' <=> Live(q)) /\ (Over(q)' <=> Over(q))
         /\ row'[r].status = rec.status /\ (Live(r)' <=> rec.status \in Active) /\ (Over(r)' <=> rec.status \in Terminal)
         /\ (Live(r)' => Live(r)) /\ (Over(r) => Over(r)') /\ (Live(r) \/ Over(r))
<1>1. Rows /\ row[r] \in RunRow /\ row[r].attempts = 0 /\ BornInv
  BY DEF Known, IInv, Rows, JInv
<1>2. r \in Kids => births[r] # 0
  BY <1>1 DEF Rows, Lost
<1>3. /\ Rows' /\ row'[r].status = rec.status
      /\ \A q \in Runs : q # r => row'[q] = row[q]
  BY <1>1, <1>2, PutRows
<1>4. BornKids' = BornKids
  BY DEF BornKids
<1>5. Live(r) \/ Over(r)
  BY <1>1 DEF Lost, Live, Over, RunRow, NoRun
<1>6. /\ Live(r)' <=> rec.status \in Active
      /\ Over(r)' <=> rec.status \in Terminal
      /\ Live(r)' => Live(r)
      /\ Over(r) => Over(r)'
  BY <1>3, <1>5 DEF Live, Over, Active, Terminal
<1>7. \A q \in Runs : q # r => (Live(q)' <=> Live(q)) /\ (Over(q)' <=> Over(q)) /\ (Lost(q)' <=> Lost(q))
  BY <1>3 DEF Live, Over, Lost
<1>8. ~Lost(r)'
  BY <1>3 DEF Lost, NoRun
<1>9. NoneRevived
  BY <1>4, <1>6, <1>7, Constants DEF NoneRevived, LiveRuns, BornKids
<1>10. BornInv'
  <2>1. Live(0)' => Live(0)
    BY <1>6, <1>7, Constants
  <2>2. \A k \in Kids : Lost(k)' => Lost(k)
    BY <1>7, <1>8, Constants
  <2> QED BY <1>1, <2>1, <2>2, BornKept
<1> QED BY <1>3, <1>4, <1>5, <1>6, <1>7, <1>9, <1>10

(* The row of r alone is written: it goes on to status, unless it is over. *)
Becomes(r, status) ==
  /\ NoneRevived /\ BornInv' /\ BornKids' = BornKids /\ (Live(r) \/ Over(r))
  /\ \A q \in Runs : q # r => row'[q] = row[q] /\ (Live(q)' <=> Live(q)) /\ (Over(q)' <=> Over(q))
  /\ Over(r) => row'[r].status = row[r].status /\ Over(r)' /\ ~Live(r)'
  /\ Live(r) => row'[r].status = status /\ (Live(r)' <=> status \in Active) /\ (Over(r)' <=> status \in Terminal)

LEMMA RowsTurn ==
  ASSUME Known, NEW r \in Runs, ~Lost(r), UNCHANGED <<flow, births, log>>
  PROVE  /\ Put(r, MarkedRunning(row[r])) => Becomes(r, "running")
         /\ \A s \in Active : Put(r, Suspended(row[r], s)) => Becomes(r, s)
         /\ \A o \in Terminal : Put(r, Terminated(row[r], o)) => Becomes(r, o)
<1>1. row[r] \in RunRow /\ row[r].attempts = 0 /\ row[r].status # "absent"
  <2>1. row[r] \in RunRow /\ row[r].attempts = 0
    BY DEF Known, IInv, Rows
  <2> QED BY <2>1 DEF Lost, NoRun, RunRow
<1>2. ASSUME NEW rec \in RunRow, NEW s \in Active \cup Terminal, Put(r, rec),
             rec.status = IF Over(r) THEN row[r].status ELSE s
      PROVE  Becomes(r, s)
  <2>1. rec.status # "absent" /\ (Over(r) => rec.status = row[r].status)
    BY <1>1, <1>2 DEF Active, Terminal, RunRow
  <2>2. /\ NoneRevived /\ BornInv' /\ BornKids' = BornKids
        /\ \A q \in Runs : q # r => row'[q] = row[q] /\ (Live(q)' <=> Live(q)) /\ (Over(q)' <=> Over(q))
        /\ row'[r].status = rec.status /\ (Live(r)' <=> rec.status \in Active) /\ (Over(r)' <=> rec.status \in Terminal)
        /\ (Live(r)' => Live(r)) /\ (Over(r) => Over(r)') /\ (Live(r) \/ Over(r))
    BY <1>2, <2>1, Turning
  <2>3. ~(Live(r) /\ Over(r))
    BY DEF Live, Over, Active, Terminal
  <2> QED BY <1>2, <2>2, <2>3 DEF Becomes
<1>3. MarkedRunning(row[r]) \in RunRow /\ MarkedRunning(row[r]).status = IF Over(r) THEN row[r].status ELSE "running"
  BY <1>1, RowOps DEF MarkedRunning, Over
<1>4. ASSUME NEW s \in Active
      PROVE  Suspended(row[r], s) \in RunRow /\ Suspended(row[r], s).status = IF Over(r) THEN row[r].status ELSE s
  BY <1>1, <1>4, RowOps DEF Suspended, Over
<1>5. ASSUME NEW o \in Terminal
      PROVE  Terminated(row[r], o) \in RunRow /\ Terminated(row[r], o).status = IF Over(r) THEN row[r].status ELSE o
  BY <1>1, <1>5, RowOps DEF Terminated, Over, RunRow
<1>6. "running" \in Active
  BY DEF Active
<1> QED BY <1>2, <1>3, <1>4, <1>5, <1>6

LEMMA TakesMark ==
  ASSUME Known, NEW w \in Workers, NEW spent \in BOOLEAN, MarkRunning(w, spent)
  PROVE  JInv'
<1>0. PICK r \in Runs : r = at[w].run
  BY OfProcs, Minding
<1> DEFINE call == IF r = 0 THEN [p \in Calls |-> "due"] ELSE <<>>
           y == [at[w] EXCEPT !.pc = "body", !.call = call]
           x == IF spent THEN [Kept(at[w]) EXCEPT !.pc = "spent"] ELSE y
<1>1. /\ w \in Procs /\ at[w].pc = "mark" /\ ~Lost(r) /\ Goes(w, x)
      /\ UNCHANGED <<flow, births, log, left, job, clean>> /\ trouble' \subseteq trouble
      /\ Put(r, MarkedRunning(row[r]))
  BY <1>0, OfProcs DEF MarkRunning, Meets
<1>2. /\ Mind(w, at[w], Shares, Calls, BornKids, LiveRuns) /\ DOMAIN at[w] = Holding
      /\ DOMAIN Shares = Positions /\ Positions \subseteq Calls
  BY <1>1, Minding, CallsTyped DEF Known, IInv
<1>3. left \in Nat /\ Tame /\ Minds /\ LeftInv /\ ExclInv /\ HopeInv
  BY DEF Known, StoreTypes, JInv
<1>4. Becomes(r, "running")
  BY <1>1, RowsTurn
<1>5. Steps(w, x) /\ ~Carries(at[w])
  BY <1>1, Stepping DEF Known, Carries, Arrives
<1>6. /\ Mind(w, x, Shares, Calls, BornKids, LiveRuns) /\ x.run = at[w].run /\ x.lease = at[w].lease
      /\ \A b : ~Waits(x, b)
  <2>1. /\ y.run = at[w].run /\ y.lease = at[w].lease /\ y.pc = "body" /\ y.call = call /\ y.seen = at[w].seen
        /\ y.todo = at[w].todo /\ y.first = at[w].first
    <3> HIDE DEF call
    <3> QED BY <1>2 DEF Holding
  <2>2. r = 0 => \A q \in DOMAIN Shares : call[q] = "due"
    BY <1>2
  <2> HIDE DEF y, call
  <2>3. Mind(w, y, Shares, Calls, BornKids, LiveRuns) /\ \A b : ~Waits(y, b)
    BY <1>0, <1>1, <1>2, <2>1, <2>2 DEF Mind, Leased, Executing, Waits
  <2>4. Mind(w, [Kept(at[w]) EXCEPT !.pc = "spent"], Shares, Calls, BornKids, LiveRuns)
    BY <1>1, <1>2 DEF Mind, Kept, Idle, Leased, Executing
  <2> QED BY <2>1, <2>3, <2>4 DEF Kept, Idle, Waits
<1> HIDE DEF x
<1>7. \A q \in Runs : (Live(q)' <=> Live(q)) /\ (Over(q)' <=> Over(q))
  <2> TAKE q \in Runs
  <2>1. CASE q # r
    BY <1>4, <2>1 DEF Becomes
  <2>2. CASE q = r
    BY <1>4, <2>2 DEF Becomes, Live, Over, Active, Terminal
  <2> QED BY <2>1, <2>2
<1>8. Live(0)' /\ ToWait' => ToWait
  <2>1. CASE r # 0
    BY <1>1, <1>4, <2>1, Constants DEF Becomes, ToWait
  <2>2. CASE r = 0
    BY <1>1, <1>4, <1>7, <2>2, Constants DEF Becomes, ToWait
  <2> QED BY <2>1, <2>2
<1>9. NoneRevived /\ BornInv' /\ BornKids' = BornKids
  BY <1>4 DEF Becomes
<1>10. Mind(w, x, Shares, Calls, BornKids', LiveRuns')
  BY <1>6, <1>9, Wiser DEF NoneRevived
<1>11. Minds'
  BY <1>1, <1>3, <1>5, <1>9, <1>10, MindsKept
<1>12. LeftInv'
  BY <1>1, <1>3, <1>5, <1>7, Constants, LeftKept DEF Carries
<1>13. ExclInv'
  BY <1>1, <1>3, <1>5, <1>6, <1>7, Constants, ExclKept DEF OnParent
<1>14. Hope => Hope'
  BY <1>1, <1>5, <1>7, <1>9, Constants DEF Hope, Steps
<1>15. HopeInv'
  BY <1>1, <1>3, <1>5, <1>6, <1>7, <1>8, <1>14, Constants, HopeKept
<1> QED BY <1>1, <1>3, <1>9, <1>11, <1>12, <1>13, <1>15 DEF JInv, Tame

(* Parking: a run that parks is neither more nor less alive. *)
LEMMA TakesSuspend ==
  ASSUME Known, NEW w \in Workers, NEW status \in Active, Suspend(w, status), at[w].pc = "body", ~Lost(at[w].run),
         at[w].run = 0 => \/ status = "awaiting_child" /\ at[w].first = "wait"
                          \/ status = "sleeping" /\ at[w].first = "nap"
  PROVE  JInv'
<1>0. PICK r \in Runs : r = at[w].run
  BY OfProcs, Minding
<1> DEFINE x == Acking(at[w])
<1>1. /\ w \in Procs /\ Goes(w, x) /\ Put(r, Suspended(row[r], status))
      /\ UNCHANGED <<flow, births, log, left, job, clean>> /\ trouble' \subseteq trouble
  BY <1>0, OfProcs DEF Suspend
<1>2. /\ Mind(w, at[w], Shares, Calls, BornKids, LiveRuns) /\ DOMAIN at[w] = Holding /\ at[w].lease # NoLease
  BY <1>1, Minding DEF Mind, Leased
<1>3. left \in Nat /\ Tame /\ Minds /\ LeftInv /\ ExclInv /\ HopeInv
  BY DEF Known, StoreTypes, JInv
<1>4. Becomes(r, status)
  BY <1>0, <1>1, RowsTurn
<1>5. Steps(w, x) /\ ~Carries(at[w])
  BY <1>1, Stepping DEF Known, Carries, Arrives
<1>6. /\ Mind(w, x, Shares, Calls, BornKids, LiveRuns) /\ x.run = at[w].run /\ x.lease = at[w].lease
      /\ x.pc = "ack"
  BY <1>2, Steered, Bearings
<1> HIDE DEF x
<1>7. \A q \in Runs : (Live(q)' <=> Live(q)) /\ (Over(q)' <=> Over(q))
  <2> TAKE q \in Runs
  <2>1. CASE q # r
    BY <1>4, <2>1 DEF Becomes
  <2>2. CASE q = r
    BY <1>4, <2>2 DEF Becomes, Live, Over, Active, Terminal
  <2> QED BY <2>1, <2>2
<1>8. NoneRevived /\ BornInv' /\ BornKids' = BornKids
  BY <1>4 DEF Becomes
<1>9. Mind(w, x, Shares, Calls, BornKids', LiveRuns')
  BY <1>6, <1>8, Wiser DEF NoneRevived
<1>10. Minds'
  BY <1>1, <1>3, <1>5, <1>8, <1>9, MindsKept
<1>11. LeftInv'
  BY <1>1, <1>3, <1>5, <1>7, Constants, LeftKept DEF Carries
<1>12. ExclInv'
  BY <1>1, <1>3, <1>5, <1>6, <1>7, Constants, ExclKept DEF OnParent
<1>13. Hope => Hope'
  BY <1>1, <1>5, <1>7, <1>8, Constants DEF Hope, Steps
<1>14. HopeInv'
  <2>1. CASE at[w].run # 0
    <3>1. row'[0] = row[0]
      BY <1>0, <1>4, <2>1, Constants DEF Becomes
    <3> QED BY <1>1, <1>3, <1>5, <1>6, <1>7, <1>13, <2>1, <3>1, Constants, HopeKept DEF OnParent, ToWait
  <2>2. CASE at[w].run = 0 /\ ~flow.naps
    <3>1. at[w].first = "wait"
      <4>1. NapAt \notin Calls
        BY <2>2, Constants DEF Calls, NapAt, Positions
      <4> QED BY <1>2, <2>2, <4>1 DEF Mind
    <3>2. OnParent(at[w]) /\ Waits(at[w], ToWait) /\ (ToWait' => ToWait)
      BY <1>2, <2>2, <3>1 DEF OnParent, Waits, ToWait
    <3> QED BY <1>1, <1>3, <1>5, <1>6, <1>7, <1>13, <3>2, Constants, HopeKept
  <2>3. CASE at[w].run = 0 /\ flow.naps
    <3> SUFFICES ASSUME clean', Live(0)'
                 PROVE  /\ ~job'[0].queued /\ ToWait' => Hope'
                        /\ \A v \in Workers : OnParent(at'[v]) /\ Waits(at'[v], ToWait') /\ Deletes(job'[0], at'[v]) => Hope'
      BY DEF HopeInv
    <3>1. clean /\ Live(0) /\ OnParent(at[w])
      BY <1>1, <1>2, <1>7, <2>3, Constants DEF OnParent
    <3>2. Holds(job[0], at[w].lease, 0) /\ job[0].queued
      BY <1>3, <2>3, <3>1 DEF ExclInv, Holds
    <3>3. ASSUME NEW v \in Workers, OnParent(at'[v]), Waits(at'[v], ToWait'), Deletes(job'[0], at'[v]) PROVE Hope'
      <4>1. v = w
        <5>1. CASE v # w
          <6>1. at'[v] = at[v] /\ OnParent(at[v]) /\ v \in Procs
            BY <1>5, <3>3, <5>1, OfProcs DEF Steps
          <6>2. Holds(job[0], at[v].lease, 0)
            BY <1>3, <2>3, <3>1, <6>1 DEF ExclInv
          <6>3. at[v].lease.token = v /\ at[w].lease.token = w
            BY <1>2, <1>3, <6>1 DEF Minds, Mind, OnParent
          <6> QED BY <3>2, <5>1, <6>2, <6>3 DEF Holds
        <5> QED BY <5>1
      <4>2. at'[w] = x
        BY <1>1, <1>5 DEF Steps
      <4>3. ToWait'
        BY <1>6, <3>3, <4>1, <4>2 DEF Waits
      <4>4. row'[0].status = status
        BY <1>0, <1>4, <2>3, <3>1 DEF Becomes
      <4>5. at[w].first = "wait"
        BY <1>1, <2>3, <4>3, <4>4 DEF ToWait
      <4>6. Waits(at[w], ToWait)
        BY <4>5 DEF Waits
      <4>7. Deletes(job[0], at[w])
        BY <1>1, <1>6, <3>3, <4>1, <4>2 DEF Deletes
      <4> QED BY <1>3, <1>13, <3>1, <4>6, <4>7 DEF HopeInv
    <3> QED BY <1>1, <3>2, <3>3
  <2> QED BY <2>1, <2>2, <2>3
<1> QED BY <1>1, <1>3, <1>8, <1>10, <1>11, <1>12, <1>14 DEF JInv, Tame

(* A parent that is over leaves nothing to ask; a child's outcome is on its way. *)
LEMMA TakesFinish ==
  ASSUME Known, NEW w \in Workers, NEW out \in {"done", "failed"}, Finish(w, out),
         at[w].pc \in {"body", "spent"}, ~Lost(at[w].run)
  PROVE  JInv'
<1>0. PICK r \in Runs : r = at[w].run
  BY OfProcs, Minding
<1> DEFINE x == [Kept(at[w]) EXCEPT !.out = IF r = 0 THEN "none" ELSE out,
                    !.pc = IF r # 0 THEN "arrive" ELSE IF out = "failed" THEN "kids" ELSE "ack"]
<1>1. /\ w \in Procs /\ Goes(w, x) /\ Put(r, Terminated(row[r], out)) /\ out \in Terminal
      /\ UNCHANGED <<flow, births, log, left, job, clean>> /\ trouble' \subseteq trouble
  BY <1>0, OfProcs DEF Finish, Terminal
<1>2. /\ Mind(w, at[w], Shares, Calls, BornKids, LiveRuns) /\ DOMAIN at[w] = Holding /\ at[w].lease # NoLease
  BY <1>1, Minding DEF Mind, Leased
<1>3. left \in Nat /\ Tame /\ Minds /\ LeftInv /\ ExclInv /\ HopeInv
  BY DEF Known, StoreTypes, JInv
<1>4. Becomes(r, out)
  BY <1>0, <1>1, RowsTurn
<1>5. Steps(w, x) /\ ~Carries(at[w])
  BY <1>1, Stepping DEF Known, Carries, Arrives
<1>6. /\ x.run = r /\ x.lease = at[w].lease /\ x.todo = {} /\ x.seen = {}
      /\ IF r # 0 THEN x.pc = "arrive" ELSE x.pc \in {"kids", "ack"}
  BY <1>0 DEF Kept, Idle
<1> HIDE DEF x
<1>7. NoneRevived /\ BornInv' /\ BornKids' = BornKids /\ Over(r)'
  BY <1>4 DEF Becomes, Active, Terminal
<1>8. r = 0 => ~Live(0)' /\ 0 \notin LiveRuns'
  BY <1>7 DEF Live, Over, Active, Terminal, LiveRuns
<1>9. Mind(w, x, Shares, Calls, BornKids', LiveRuns')
  <2>1. ASSUME NEW b, NEW l, r = 0 => 0 \notin l PROVE Mind(w, x, Shares, Calls, b, l)
    BY <1>2, <1>6, <2>1 DEF Mind, Leased, Executing
  <2> QED BY <1>8, <2>1
<1>10. Minds'
  BY <1>1, <1>3, <1>5, <1>7, <1>9, MindsKept
<1>11. CASE r = 0
  <2>1. LeftInv' /\ ExclInv' /\ HopeInv'
    BY <1>1, <1>3, <1>8, <1>11, Moot DEF LeftInv
  <2> QED BY <1>1, <1>3, <1>7, <1>10, <2>1 DEF JInv, Tame
<1>12. CASE r # 0
  <2>1. r \in Kids /\ x.pc = "arrive" /\ ~OnParent(x) /\ Carries(x) /\ Arrives(x)
    BY <1>1, <1>6, <1>12 DEF Runs, OnParent, Carries, Arrives
  <2>2. row'[0] = row[0] /\ (Live(0)' <=> Live(0)) /\ \A q \in Kids : q # r => (Live(q)' <=> Live(q)) /\ (Over(q)' <=> Over(q))
    BY <1>4, <1>12, Constants DEF Becomes
  <2>3. LeftInv'
    <3>1. NotOver \subseteq Kids /\ NotOver' \subseteq Kids /\ NotOver \ {r} \subseteq NotOver'
      BY <2>2 DEF NotOver
    <3>2. Arriving \subseteq Arriving' /\ Arriving' \subseteq Procs /\ w \in Arriving' /\ w \notin Arriving
      BY <1>1, <1>5, <2>1 DEF Arriving, Steps, Carries
    <3>3. Cardinality(NotOver) + Cardinality(Arriving) <= Cardinality(NotOver') + Cardinality(Arriving')
      BY <3>1, <3>2, SwapIn
    <3>4. /\ Cardinality(NotOver) \in Nat /\ Cardinality(Arriving) \in Nat
          /\ Cardinality(NotOver') \in Nat /\ Cardinality(Arriving') \in Nat
      BY <3>1, <3>2, ProcsFinite, FS_Subset, FS_CardinalityType
    <3> QED BY <1>1, <1>3, <2>2, <3>3, <3>4 DEF LeftInv
  <2>4. ExclInv'
    BY <1>1, <1>3, <1>5, <2>1, <2>2, ExclKept
  <2>5. Hope => Hope'
    BY <1>1, <1>5, <1>7, <2>1 DEF Hope, Steps
  <2>6. HopeInv'
    BY <1>1, <1>3, <1>5, <2>1, <2>2, <2>5, HopeKept DEF ToWait
  <2> QED BY <1>1, <1>3, <1>7, <1>10, <2>3, <2>4, <2>6 DEF JInv, Tame
<1> QED BY <1>11, <1>12

(* A cancellation strikes the parent, or a child whose outcome is then on its way. *)
LEMMA TakesStrike ==
  ASSUME Known, NEW p \in Procs, Strike(p)
  PROVE  JInv'
<1>0. PICK t \in Runs : t = at[p].target
  BY Minding
<1> DEFINE x == IF t = 0 THEN [at[p] EXCEPT !.pc = "kids"]
                ELSE IF at[p].live THEN [at[p] EXCEPT !.pc = "tell"] ELSE Onward(at[p])
<1>1. /\ at[p].pc = "strike" /\ ~Lost(t) /\ Goes(p, x) /\ Put(t, Terminated(row[t], "canceled"))
      /\ UNCHANGED <<flow, births, log, left, job, clean>> /\ trouble' \subseteq trouble
  BY <1>0 DEF Strike
<1>2. /\ Mind(p, at[p], Shares, Calls, BornKids, LiveRuns) /\ DOMAIN at[p] = Holding /\ (0 \in LiveRuns <=> Live(0))
  BY Minding
<1>3. left \in Nat /\ Tame /\ Minds /\ LeftInv /\ ExclInv /\ HopeInv
  BY DEF Known, StoreTypes, JInv
<1>4. Becomes(t, "canceled")
  BY <1>1, RowsTurn DEF Terminal
<1>5. Steps(p, x) /\ ~Carries(at[p])
  BY <1>1, Stepping DEF Known, Carries, Arrives
<1>6. /\ NoneRevived /\ BornInv' /\ BornKids' = BornKids /\ Over(t)' /\ ~Live(t)'
      /\ Mind(p, at[p], Shares, Calls, BornKids', LiveRuns')
  <2>1. NoneRevived /\ BornInv' /\ BornKids' = BornKids /\ Over(t)' /\ ~Live(t)'
    BY <1>4 DEF Becomes, Active, Terminal
  <2> QED BY <1>2, <2>1, Wiser DEF NoneRevived
<1>7. OnParent(at[p]) => ~Live(0) /\ 0 \notin LiveRuns'
  <2>1. OnParent(at[p]) => ~Live(0)
    BY <1>1, <1>2 DEF Mind, OnParent, Executing
  <2> QED BY <1>2, <1>6, <2>1 DEF NoneRevived
<1>8. /\ Mind(p, [at[p] EXCEPT !.pc = "kids"], Shares, Calls, BornKids', LiveRuns')
      /\ Mind(p, [at[p] EXCEPT !.pc = "tell"], Shares, Calls, BornKids', LiveRuns')
      /\ Mind(p, Onward(at[p]), Shares, Calls, BornKids', LiveRuns')
  <2>1. ASSUME NEW b, NEW l, Mind(p, at[p], Shares, Calls, b, l), OnParent(at[p]) => 0 \notin l
        PROVE  /\ Mind(p, [at[p] EXCEPT !.pc = "kids"], Shares, Calls, b, l)
               /\ Mind(p, [at[p] EXCEPT !.pc = "tell"], Shares, Calls, b, l)
               /\ Mind(p, Onward(at[p]), Shares, Calls, b, l)
    <3>1. Mind(p, Onward(at[p]), Shares, Calls, b, l)
      BY <1>2, <2>1, Steered DEF OnParent
    <3> QED BY <1>1, <1>2, <2>1, <3>1 DEF Mind, Leased, Executing, Holding, OnParent
  <2> QED BY <1>6, <1>7, <2>1
<1>9. Minds'
  BY <1>1, <1>3, <1>5, <1>6, <1>8, MindsKept
<1>10. OnParent(x) => OnParent(at[p]) /\ x.lease = at[p].lease
  BY <1>2, Bearings DEF OnParent, Holding
<1>11. CASE t = 0
  <2>1. LeftInv' /\ ExclInv' /\ HopeInv'
    BY <1>1, <1>3, <1>6, <1>11, Moot DEF LeftInv
  <2> QED BY <1>1, <1>3, <1>6, <1>9, <2>1 DEF JInv, Tame
<1>12. CASE t # 0
  <2>1. t \in Kids
    BY <1>12 DEF Runs
  <2>2. row'[0] = row[0] /\ (Live(0)' <=> Live(0)) /\ \A q \in Kids : q # t => (Live(q)' <=> Live(q)) /\ (Over(q)' <=> Over(q))
    BY <1>4, <1>12, Constants DEF Becomes
  <2>3. ExclInv'
    BY <1>1, <1>3, <1>5, <1>10, <2>2, ExclKept
  <2>4. CASE at[p].live
    <3>1. x.pc = "tell"
      BY <1>2, <1>12, <2>4 DEF Holding
    <3> HIDE DEF x
    <3>2. LeftInv'
      <4>1. NotOver \subseteq Kids /\ NotOver' \subseteq Kids /\ NotOver \ {t} \subseteq NotOver'
        BY <2>2 DEF NotOver
      <4>2. Arriving \subseteq Arriving' /\ Arriving' \subseteq Procs /\ p \in Arriving' /\ p \notin Arriving
        BY <1>5, <3>1 DEF Arriving, Steps, Carries, Arrives
      <4>3. Cardinality(NotOver) + Cardinality(Arriving) <= Cardinality(NotOver') + Cardinality(Arriving')
        BY <4>1, <4>2, SwapIn
      <4>4. /\ Cardinality(NotOver) \in Nat /\ Cardinality(Arriving) \in Nat
            /\ Cardinality(NotOver') \in Nat /\ Cardinality(Arriving') \in Nat
        BY <4>1, <4>2, ProcsFinite, FS_Subset, FS_CardinalityType
      <4> QED BY <1>1, <1>3, <2>2, <4>3, <4>4 DEF LeftInv
    <3>3. Hope => Hope'
      BY <1>1, <1>5, <1>6, <3>1 DEF Hope, Steps, Carries, Arrives
    <3>4. HopeInv'
      BY <1>1, <1>3, <1>5, <2>2, <3>1, <3>3, HopeKept DEF ToWait, Waits
    <3> QED BY <1>1, <1>3, <1>6, <1>9, <2>3, <3>2, <3>4 DEF JInv, Tame
  <2>5. CASE ~at[p].live
    <3>1. ~Live(t) /\ Over(t)
      BY <1>0, <1>1, <1>2, <1>4, <1>12, <2>1, <2>5, Minding DEF Becomes, Mind
    <3>2. \A q \in Kids : (Live(q)' <=> Live(q)) /\ (Over(q)' <=> Over(q))
      BY <1>6, <2>2, <3>1
    <3> HIDE DEF x
    <3>3. LeftInv'
      BY <1>1, <1>3, <1>5, <2>2, <3>2, LeftKept DEF Carries
    <3>4. Hope => Hope'
      BY <1>1, <1>5, <1>6, <3>2 DEF Hope, Steps
    <3>5. HopeInv'
      BY <1>1, <1>3, <1>5, <1>7, <1>10, <2>2, <3>4, HopeKept DEF ToWait
    <3> QED BY <1>1, <1>3, <1>6, <1>9, <2>3, <3>3, <3>5 DEF JInv, Tame
  <2> QED BY <2>4, <2>5
<1> QED BY <1>11, <1>12

(* The join counts an arrival; one that wakes nobody leaves somebody to arrive. *)
LEMMA TakesArrival ==
  ASSUME Known, NEW p \in Procs, Arrival(p)
  PROVE  JInv'
<1> DEFINE wakes == at[p].out # "done" \/ (~Lost(0) /\ left <= 1)
           x == [at[p] EXCEPT !.pc = IF wakes THEN "wake" ELSE "ack"]
<1>1. /\ at[p].pc = "arrive" /\ Goes(p, x) /\ UNCHANGED <<flow, trouble, row, log, job, births, clean>>
      /\ left' = IF Lost(0) \/ left = 0 THEN left ELSE left - 1
  BY DEF Arrival, Arrive
<1>2. /\ Mind(p, at[p], Shares, Calls, BornKids, LiveRuns) /\ DOMAIN at[p] = Holding /\ (0 \in LiveRuns <=> Live(0))
  BY Minding
<1>3. left \in Nat /\ Tame /\ BornInv /\ Minds /\ LeftInv /\ ExclInv /\ HopeInv /\ Rows
  BY DEF Known, StoreTypes, JInv, IInv
<1>4. BornKids' = BornKids /\ LiveRuns' = LiveRuns /\ Live(0)' = Live(0) /\ ToWait' = ToWait /\ NotOver' = NotOver
      /\ (Live(0) => ~Lost(0))
  BY <1>1 DEF BornKids, LiveRuns, Live, ToWait, NotOver, Over, Lost, NoRun, Active
<1>5. \A k \in Kids : Lost(k)' = Lost(k) /\ Over(k)' = Over(k) /\ Live(k)' = Live(k)
  BY <1>1 DEF Lost, Over, Live
<1>6. /\ x.run = at[p].run /\ x.lease = at[p].lease /\ x.seen = at[p].seen /\ x.todo = at[p].todo
      /\ IF wakes THEN x.pc = "wake" ELSE x.pc = "ack"
  BY <1>2 DEF Holding
<1>7. OnParent(at[p]) => ~Live(0)
  BY <1>1, <1>2 DEF Mind, OnParent, Executing
<1> HIDE DEF x
<1>8. Mind(p, x, Shares, Calls, BornKids, LiveRuns)
  BY <1>1, <1>2, <1>6, <1>7 DEF Mind, Leased, Executing, OnParent
<1>9. Steps(p, x) /\ (OnParent(x) => OnParent(at[p]) /\ x.lease = at[p].lease)
  BY <1>1, <1>6, Stepping DEF Known, OnParent
<1>10. Tame' /\ BornInv' /\ Minds'
  BY <1>1, <1>3, <1>4, <1>5, <1>8, <1>9, BornKept, MindsKept DEF Tame, NoneRevived
<1>11. NotOver \subseteq Kids /\ Arriving \subseteq Procs /\ Arriving' = Arriving \ {p}
  BY <1>6, <1>9 DEF NotOver, Arriving, Steps, Arrives
<1>12. /\ Cardinality(NotOver) \in Nat /\ Cardinality(Arriving) \in Nat /\ Cardinality(Arriving') \in Nat
       /\ Cardinality(NotOver) + Cardinality(Arriving) <= Cardinality(NotOver) + Cardinality(Arriving') + 1
       /\ Cardinality(NotOver) + Cardinality(Arriving) > 1 => NotOver # {} \/ Arriving \ {p} # {}
  <2>1. Arriving \ {p} \subseteq Procs
    BY <1>11
  <2> QED BY <1>11, <2>1, OneArrived, ProcsFinite, FS_Subset, FS_CardinalityType
<1>13. LeftInv'
  <2>1. left' \in Nat /\ (left' = 0 \/ left' = left - 1 \/ Lost(0)) /\ left' <= left
    BY <1>1, <1>3
  <2> QED BY <1>1, <1>3, <1>4, <1>12, <2>1 DEF LeftInv
<1>14. ExclInv'
  BY <1>1, <1>3, <1>4, <1>9, ExclKept
<1>15. clean /\ Live(0) /\ Hope => Hope'
  <2> SUFFICES ASSUME clean, Live(0), Hope PROVE Hope'
    OBVIOUS
  <2>1. flow'.mode = "many" => BornKids' = Kids
    BY <1>1, <1>4 DEF Hope
  <2>2. CASE wakes
    <3>1. Carries(at'[p])
      BY <1>6, <1>9, <2>2 DEF Steps, Carries
    <3> QED BY <2>1, <3>1 DEF Hope
  <2>3. CASE ~wakes
    <3>1. left > 1 /\ flow.mode = "many" /\ BornKids = Kids
      BY <1>3, <1>4, <2>3 DEF LeftInv, Hope
    <3>2. NotOver # {} \/ Arriving \ {p} # {}
      BY <1>3, <1>12, <3>1 DEF LeftInv
    <3>3. \A k \in NotOver : Live(k)'
      <4> TAKE k \in NotOver
      <4>1. k \in Kids /\ k \in Runs /\ ~Lost(k) /\ ~Over(k) /\ row[k] \in RunRow /\ row[k].attempts = 0
        BY <1>3, <3>1, Constants DEF NotOver, BornInv, Rows
      <4>2. Live(k)
        BY <4>1 DEF Live, Over, Lost, RunRow, NoRun
      <4> QED BY <1>5, <4>1, <4>2
    <3>4. \A q \in Arriving \ {p} : q \in Procs /\ Carries(at'[q])
      BY <1>9 DEF Arriving, Carries, Steps
    <3> QED BY <1>11, <2>1, <3>2, <3>3, <3>4 DEF Hope
  <2> QED BY <2>2, <2>3
<1>16. HopeInv'
  BY <1>1, <1>3, <1>4, <1>7, <1>9, <1>15, HopeKept
<1> QED BY <1>10, <1>13, <1>14, <1>16 DEF JInv

-----------------------------------------------------------------------------
(* Steps on the parent's dispatch *)

(* What the queue does to a job leaves rows and counters, and so all but what is said    *)
(* of the job itself.                                                                    *)
LEMMA Dispatching ==
  ASSUME Known, NEW p \in Procs, NEW x, Steps(p, x), UNCHANGED <<flow, row, births, left, log, clean>>,
         trouble' \subseteq trouble, Mind(p, x, Shares, Calls, BornKids, LiveRuns), Arrives(at[p]) => Arrives(x)
  PROVE  /\ Tame' /\ BornInv' /\ Minds' /\ LeftInv'
         /\ Live(0)' = Live(0) /\ ToWait' = ToWait /\ (Hope /\ (Carries(at[p]) => Carries(x)) => Hope')
<1>1. BornKids' = BornKids /\ LiveRuns' = LiveRuns /\ Live(0)' = Live(0) /\ ToWait' = ToWait
  BY DEF BornKids, LiveRuns, Live, ToWait
<1>2. \A k \in Kids : Lost(k)' = Lost(k) /\ Over(k)' = Over(k) /\ Live(k)' = Live(k)
  BY DEF Lost, Over, Live
<1>3. left \in Nat /\ Tame /\ BornInv /\ Minds /\ LeftInv
  BY DEF Known, StoreTypes, JInv
<1>4. Tame' /\ BornInv' /\ Minds'
  BY <1>1, <1>2, <1>3, BornKept, MindsKept DEF Tame, NoneRevived
<1>5. LeftInv'
  BY <1>1, <1>2, <1>3, LeftKept
<1>6. Hope /\ (Carries(at[p]) => Carries(x)) => Hope'
  BY <1>1, <1>2 DEF Hope, Steps
<1> QED BY <1>1, <1>4, <1>5, <1>6

(* An enqueue of the parent: no lease in hand carries its version. *)
LEMMA Requeues ==
  ASSUME Known, NEW p \in Procs, NEW x, Steps(p, x), UNCHANGED <<flow, row, births, left, log, clean>>,
         OnParent(x) => OnParent(at[p]) /\ x.lease = at[p].lease, job'[0] = Queued(0)
  PROVE  ExclInv' /\ HopeInv'
<1>1. /\ job'[0].queued /\ job'[0].version = NextVersion(0)
      /\ \A l : Holds(job[0], l, 0) => Holds(job'[0], l, 0)
  BY DEF Queued, Enqueued, Holds
<1>2. \A v \in Workers : OnParent(at'[v]) => OnParent(at[v]) /\ at'[v].lease = at[v].lease
  BY OfProcs DEF Steps
<1>3. ExclInv'
  <2>1. Live(0)' = Live(0)
    BY DEF Live
  <2> QED BY <1>1, <2>1, ExclKept DEF Known, JInv
<1>4. \A v \in Workers : OnParent(at'[v]) => ~Deletes(job'[0], at'[v])
  BY <1>1, <1>2, VersionThereIs DEF OnParent, Deletes
<1> QED BY <1>1, <1>3, <1>4 DEF HopeInv

LEMMA TakesWake ==
  ASSUME Known, NEW p \in Procs, Wake(p)
  PROVE  JInv'
<1> DEFINE x == Onward(at[p])
<1>1. at[p].pc = "wake" /\ Goes(p, x) /\ UNCHANGED <<flow, trouble, row, births, left, log, clean>> /\ Enqueue(0)
  BY DEF Wake, store
<1>2. /\ Mind(p, at[p], Shares, Calls, BornKids, LiveRuns) /\ DOMAIN at[p] = Holding /\ (0 \in LiveRuns <=> Live(0))
  BY Minding
<1>3. Mind(p, x, Shares, Calls, BornKids, LiveRuns) /\ (OnParent(x) => OnParent(at[p]) /\ x.lease = at[p].lease)
  <2>1. at[p].run = 0 /\ at[p].lease # NoLease => 0 \notin LiveRuns
    BY <1>1, <1>2 DEF Mind, Executing
  <2> QED BY <1>2, <2>1, Steered, Bearings
<1> HIDE DEF x
<1>4. Steps(p, x)
  BY <1>1, Stepping DEF Known
<1>5. job'[0] = Queued(0)
  BY <1>1, Constants DEF Enqueue, Known, JobTypes
<1>6. ExclInv' /\ HopeInv'
  BY <1>1, <1>3, <1>4, <1>5, Requeues
<1>7. Tame' /\ BornInv' /\ Minds' /\ LeftInv'
  BY <1>1, <1>3, <1>4, Dispatching DEF Arrives
<1> QED BY <1>6, <1>7 DEF JInv

LEMMA TakesSweep ==
  ASSUME Known, ReconcileEnqueue
  PROVE  JInv'
<1>1. UNCHANGED <<flow, trouble, row, births, left, log, clean, at>>
      /\ job'[0] = IF 0 \in sweep THEN Queued(0) ELSE job[0]
  BY Constants DEF ReconcileEnqueue, store
<1>2. CASE 0 \notin sweep
  BY <1>1, <1>2, NobodyQuiet
<1>3. CASE 0 \in sweep
  <2> DEFINE x == at[User]
  <2>1. User \in Procs /\ Steps(User, x) /\ Mind(User, x, Shares, Calls, BornKids, LiveRuns)
    BY <1>1, OfProcs, Stepping, Minding DEF Known
  <2>2. ExclInv' /\ HopeInv'
    BY <1>1, <1>3, <2>1, Requeues
  <2>3. Tame' /\ BornInv' /\ Minds' /\ LeftInv'
    BY <1>1, <2>1, Dispatching
  <2> QED BY <2>2, <2>3 DEF JInv
<1> QED BY <1>2, <1>3

LEMMA TakesAck ==
  ASSUME Known, NEW w \in Workers, Ack(w)
  PROVE  JInv'
<1>0. w \in Procs /\ DOMAIN at[w] = Holding /\ Mind(w, at[w], Shares, Calls, BornKids, LiveRuns)
  BY OfProcs, Minding
<1>1. at[w].pc = "ack" /\ Goes(w, Idle) /\ UNCHANGED <<flow, trouble, row, births, left, log, clean>>
      /\ job' = [job EXCEPT ![at[w].run] = Acked(@, at[w].lease, 0)] /\ at[w].lease # NoLease
  BY <1>0 DEF Ack, store, Mind, Leased
<1>2. Steps(w, Idle) /\ Mind(w, Idle, Shares, Calls, BornKids, LiveRuns) /\ ~Carries(at[w])
      /\ ~OnParent(Idle) /\ \A b : ~Waits(Idle, b)
  BY <1>0, <1>1, Stepping, Steered, Bearings DEF Known, Carries, Arrives
<1>3. JobTypes /\ Tame /\ Minds /\ ExclInv /\ HopeInv
  BY DEF Known, JInv
<1>4. CASE at[w].run # 0 \/ ~Holds(job[0], at[w].lease, 0)
  <2>1. job'[0] = job[0]
    BY <1>1, <1>3, <1>4, Constants DEF JobTypes, Acked
  <2> QED BY <1>0, <1>1, <1>2, <2>1, Quiet DEF Carries
<1>5. CASE at[w].run = 0 /\ Holds(job[0], at[w].lease, 0)
  <2>1. /\ Tame' /\ BornInv' /\ Minds' /\ LeftInv'
        /\ Live(0)' = Live(0) /\ ToWait' = ToWait /\ (Hope => Hope')
    BY <1>0, <1>1, <1>2, Dispatching DEF Carries
  <2>2. OnParent(at[w]) /\ (ToWait => Waits(at[w], ToWait))
    BY <1>1, <1>5 DEF OnParent, Waits
  <2>3. /\ job'[0] = IF job[0].version # at[w].lease.version THEN Released(job[0]) ELSE NoJob
        /\ \A l : ~Holds(job'[0], l, 0)
    <3>1. job'[0] = IF job[0].version # at[w].lease.version THEN Released(job[0]) ELSE NoJob
      BY <1>1, <1>3, <1>5, Constants DEF JobTypes, Acked
    <3> QED BY <3>1 DEF Holds, Released, NoJob
  <2>4. \A v \in Workers : OnParent(at'[v]) => v # w /\ OnParent(at[v]) /\ at'[v] = at[v]
    BY <1>2, OfProcs DEF Steps
  <2>5. ExclInv'
    <3> SUFFICES ASSUME flow.naps, clean, Live(0), NEW v \in Workers, OnParent(at'[v]) PROVE FALSE
      BY <1>1, <2>1 DEF ExclInv
    <3>1. v # w /\ v \in Procs /\ OnParent(at[v]) /\ Holds(job[0], at[v].lease, 0)
      BY <1>3, <2>4, OfProcs DEF ExclInv
    <3>2. at[v].lease.token = v /\ at[w].lease.token = w
      BY <1>0, <1>1, <1>3, <3>1 DEF Minds, Mind, OnParent
    <3> QED BY <1>5, <3>1, <3>2 DEF Holds
  <2>6. clean /\ Live(0) /\ ~job'[0].queued /\ ToWait => Hope
    <3>1. job[0].queued
      BY <1>5 DEF Holds
    <3>2. ~job'[0].queued => Deletes(job[0], at[w])
      BY <1>5, <2>3, <3>1 DEF Deletes, Released
    <3> QED BY <1>3, <2>2, <3>2 DEF HopeInv
  <2>7. HopeInv'
    BY <1>1, <2>1, <2>3, <2>6 DEF HopeInv, Deletes
  <2> QED BY <2>1, <2>5, <2>7 DEF JInv
<1> QED BY <1>4, <1>5

LEMMA TakesClaim ==
  ASSUME Known, NEW w \in Workers, NEW r \in Runs, Claim(w, r)
  PROVE  JInv'
<1> DEFINE x == [Idle EXCEPT !.pc = "load", !.run = r, !.lease = LeaseOn(job'[r])]
<1>1. /\ w \in Procs /\ at[w].pc = "idle" /\ Goes(w, x) /\ UNCHANGED <<flow, trouble, row, births, left, log, clean>>
      /\ Claimable(job[r], 0) /\ job' = [job EXCEPT ![r] = Claimed(@, w, 1)]
  BY OfProcs DEF Claim, store
<1>2. JobTypes /\ Minds /\ ExclInv /\ HopeInv /\ w \in Nat /\ w # 0
  BY Constants DEF Known, JInv
<1>3. job'[r] = Claimed(job[r], w, 1) /\ job'[r].token = w
  BY <1>1, <1>2 DEF JobTypes, Claimed, Job
<1>4. /\ x.run = r /\ x.lease = LeaseOn(job'[r]) /\ x.lease.token = w /\ x.lease # NoLease /\ x.pc = "load"
      /\ x.seen = {} /\ x.todo = {}
  BY <1>2, <1>3 DEF Idle, LeaseOn, NoLease
<1> HIDE DEF x
<1>5. Steps(w, x) /\ Mind(w, x, Shares, Calls, BornKids, LiveRuns) /\ ~Carries(at[w])
      /\ \A b : ~Waits(x, b)
  BY <1>1, <1>4, Stepping DEF Known, Carries, Arrives, Mind, Leased, Executing, Waits
<1>6. CASE r # 0
  <2>1. job'[0] = job[0] /\ ~OnParent(x)
    BY <1>1, <1>2, <1>4, <1>6, Constants DEF JobTypes, OnParent
  <2> QED BY <1>1, <1>5, <2>1, Quiet DEF Carries
<1>7. CASE r = 0
  <2>1. /\ Tame' /\ BornInv' /\ Minds' /\ LeftInv'
        /\ Live(0)' = Live(0) /\ ToWait' = ToWait /\ (Hope => Hope')
    BY <1>1, <1>5, Dispatching DEF Carries
  <2>2. job[0] \in Job /\ job[0].queued /\ job[0].expires <= 0 /\ job'[0] = Claimed(job[0], w, 1)
    BY <1>1, <1>2, <1>3, <1>7 DEF JobTypes, Claimable
  <2>3. /\ job'[0].queued /\ job'[0].token = w /\ job'[0].expires = 1
        /\ \A l : ~Holds(job[0], l, 0)
    BY <2>2 DEF Claimed, Job, Holds
  <2>4. \A v \in Workers : v # w /\ OnParent(at'[v]) => OnParent(at[v]) /\ at'[v].lease.token = v
    BY <1>2, <1>5, OfProcs DEF Steps, Minds, Mind, OnParent
  <2>5. at'[w] = x
    BY <1>1, <1>5 DEF Steps
  <2>6. ExclInv'
    <3> SUFFICES ASSUME flow.naps, clean, Live(0), NEW v \in Workers, OnParent(at'[v])
                 PROVE  Holds(job'[0], at'[v].lease, 0)
      BY <1>1, <2>1 DEF ExclInv
    <3>1. v = w
      BY <1>2, <2>3, <2>4 DEF ExclInv
    <3> QED BY <1>4, <2>3, <2>5, <3>1 DEF Holds
  <2>7. \A v \in Workers : ~(OnParent(at'[v]) /\ Waits(at'[v], ToWait) /\ Deletes(job'[0], at'[v]))
    <3> TAKE v \in Workers
    <3>1. CASE v = w
      BY <1>5, <2>5, <3>1
    <3>2. CASE v # w
      BY <2>3, <2>4, <3>2 DEF Deletes, Holds
    <3> QED BY <3>1, <3>2
  <2>8. HopeInv'
    BY <2>1, <2>3, <2>7 DEF HopeInv
  <2> QED BY <2>1, <2>6, <2>8 DEF JInv
<1> QED BY <1>6, <1>7

LEMMA TakesExpire ==
  ASSUME Known, NEW r \in Runs, Expire(r)
  PROVE  JInv'
<1> DEFINE x == at[User]
<1>1. /\ UNCHANGED <<flow, row, births, left, log, clean, at>> /\ trouble' \subseteq trouble /\ job[r].expires = 1
      /\ Deserted(r) \/ "stall" \in trouble
      /\ job' = [job EXCEPT ![r].expires = 0, ![r].token = 0]
  BY DEF Expire, store, Meets
<1>2. JobTypes /\ Tame /\ ExclInv
  BY DEF Known, JInv
<1>3. CASE r # 0
  <2>1. job'[0] = job[0]
    BY <1>1, <1>2, <1>3, Constants DEF JobTypes
  <2> QED BY <1>1, <2>1, NobodyQuiet
<1>4. CASE r = 0
  <2>1. User \in Procs /\ Steps(User, x) /\ Mind(User, x, Shares, Calls, BornKids, LiveRuns)
    BY <1>1, OfProcs, Stepping, Minding DEF Known
  <2>2. /\ Tame' /\ BornInv' /\ Minds' /\ LeftInv'
        /\ Live(0)' = Live(0) /\ ToWait' = ToWait
    BY <1>1, <2>1, Dispatching
  <2>3. job[0] \in Job /\ job[0].queued
    BY <1>1, <1>2, <1>4 DEF JobTypes, WellFormed, NoJob
  <2>4. job'[0].queued /\ \A l : ~Holds(job'[0], l, 0)
    <3>1. job'[0] = [job[0] EXCEPT !.expires = 0, !.token = 0]
      BY <1>1, <1>2, <1>4 DEF JobTypes
    <3> QED BY <2>3, <3>1 DEF Job, Holds
  <2>5. ExclInv'
    <3> SUFFICES ASSUME flow.naps, clean, Live(0), NEW v \in Workers, OnParent(at[v]) PROVE FALSE
      BY <1>1, <2>2 DEF ExclInv
    <3>1. Deserted(0)
      BY <1>1, <1>2, <1>4 DEF Tame
    <3>2. Holds(job[0], at[v].lease, 0)
      BY <1>2 DEF ExclInv
    <3> QED BY <3>1, <3>2 DEF Deserted, Holds, OnParent
  <2>6. HopeInv'
    BY <2>4 DEF HopeInv, Deletes
  <2> QED BY <2>2, <2>5, <2>6 DEF JInv
<1> QED BY <1>3, <1>4

LEMMA TakesSignal ==
  ASSUME Known, NEW k \in Kids, SignalChild(k)
  PROVE  JInv'
<1>1. /\ UNCHANGED <<flow, trouble, row, births, left, log, clean, at>> /\ Enqueue(k)
  BY DEF SignalChild
<1>2. job'[0] = job[0]
  BY <1>1, Constants DEF Enqueue, Known, JobTypes
<1> QED BY <1>1, <1>2, NobodyQuiet

-----------------------------------------------------------------------------
(* Troubles *)

LEMMA TakesTrouble ==
  ASSUME Known, KeepKids, NEW r \in Runs, BulkCancel(r) \/ RetryRun(r) \/ PurgeRun(r)
  PROVE  JInv'
<1> DEFINE x == at[User]
<1>1. /\ UNCHANGED <<flow, births, at>> /\ trouble' \subseteq trouble /\ ~RetryRun(r)
  BY DEF BulkCancel, RetryRun, PurgeRun, Meets, Known, JInv, Tame
<1>2. User \in Procs /\ Steps(User, x) /\ Mind(User, x, Shares, Calls, BornKids, LiveRuns)
  BY <1>1, OfProcs, Stepping, Minding DEF Known
<1>3. Rows /\ Tame /\ BornInv /\ Minds /\ LeftInv
  BY DEF Known, JInv, IInv
<1>4. CASE BulkCancel(r)
  <2>1. /\ ~Lost(r) /\ Put(r, Terminated(row[r], "canceled")) /\ UNCHANGED <<log, left>> /\ ~clean'
    BY <1>4 DEF BulkCancel, Live, Lost, NoRun, Active
  <2>2. Becomes(r, "canceled")
    BY <1>1, <2>1, RowsTurn DEF Terminal
  <2>3. NoneRevived /\ BornInv'
    BY <2>2 DEF Becomes
  <2>4. Mind(User, x, Shares, Calls, BornKids', LiveRuns')
    BY <1>2, <2>3, Wiser DEF NoneRevived
  <2>5. Minds'
    BY <1>2, <1>3, <2>3, <2>4, MindsKept
  <2>6. LeftInv' /\ ExclInv' /\ HopeInv'
    BY <1>1, <1>3, <2>1, Moot DEF LeftInv
  <2> QED BY <1>1, <1>3, <2>3, <2>5, <2>6 DEF JInv, Tame
<1>5. CASE PurgeRun(r)
  <2>1. /\ Over(r) /\ (r # 0 => ~Live(0)) /\ Put(r, NoRun) /\ clean' = clean
        /\ left' = 0 \/ left' = left
        /\ log' \subseteq log
    BY <1>5 DEF PurgeRun
  <2>2. NoRun \in RunRow /\ (r \in Kids => births[r] # 0)
    BY <1>3, <2>1 DEF Rows, Over, NoRun, Terminal, RunRow
  <2>3. row'[r].status = "absent" /\ \A q \in Runs : q # r => row'[q] = row[q]
    BY <1>1, <1>3, <2>1, <2>2, PutRows DEF NoRun
  <2>4. ~Live(r)' /\ (\A q \in Runs : q # r => (Live(q)' <=> Live(q))) /\ ~Live(0)'
    <3>1. ~Live(r)' /\ \A q \in Runs : q # r => (Live(q)' <=> Live(q))
      BY <2>3 DEF Live, Active
    <3>2. CASE r = 0
      BY <2>3, <3>2 DEF Live, Active
    <3>3. CASE r # 0
      BY <2>1, <3>1, <3>3, Constants
    <3> QED BY <3>1, <3>2, <3>3
  <2>5. BornKids' = BornKids
    BY <1>1 DEF BornKids
  <2>6. NoneRevived
    <3>1. \A q \in Runs : q \in LiveRuns' => q \in LiveRuns
      BY <2>4 DEF LiveRuns
    <3> QED BY <1>1, <2>5, <3>1, Constants DEF NoneRevived, BornKids
  <2>7. BornInv'
    BY <1>1, <1>3, <2>1, <2>4, BornKept
  <2>8. Mind(User, x, Shares, Calls, BornKids', LiveRuns')
    BY <1>2, <2>6, Wiser DEF NoneRevived
  <2>9. Minds'
    BY <1>2, <1>3, <2>6, <2>8, MindsKept
  <2>10. LeftInv' /\ ExclInv' /\ HopeInv'
    <3>1. flow.mode # "many" => left' <= 1
      BY <1>3, <2>1 DEF LeftInv
    <3> QED BY <1>1, <2>4, <3>1, Moot
  <2> QED BY <1>1, <1>3, <2>7, <2>9, <2>10 DEF JInv, Tame
<1> QED BY <1>1, <1>4, <1>5

LEMMA TakesCrash ==
  ASSUME Known, NEW p \in Procs, Crash(p)
  PROVE  JInv'
<1>1. /\ Goes(p, Idle) /\ ~clean' /\ UNCHANGED <<flow, row, births, left, log>> /\ trouble' \subseteq trouble
  BY DEF Crash, store, Meets
<1>2. Tame /\ BornInv /\ Minds /\ LeftInv
  BY DEF Known, JInv
<1>3. BornKids' = BornKids /\ LiveRuns' = LiveRuns /\ Live(0)' = Live(0) /\ \A k \in Kids : Lost(k)' = Lost(k)
  BY <1>1 DEF BornKids, LiveRuns, Live, Lost
<1>4. Steps(p, Idle) /\ Mind(p, Idle, Shares, Calls, BornKids, LiveRuns)
  BY <1>1, Stepping, Minding, Steered DEF Known
<1>5. BornInv' /\ Minds'
  BY <1>1, <1>2, <1>3, <1>4, BornKept, MindsKept DEF NoneRevived
<1>6. LeftInv' /\ ExclInv' /\ HopeInv'
  BY <1>1, <1>2, Moot DEF LeftInv
<1> QED BY <1>1, <1>2, <1>5, <1>6 DEF JInv, Tame

-----------------------------------------------------------------------------
(* Every step *)

LEMMA TakesBody ==
  ASSUME Known, NEW w \in Workers, Body(w)
  PROVE  JInv'
<1>1. ASSUME NEW p \in Calls, Invoke(w, p) PROVE JInv'
  BY <1>1, TakesInvokeAgain, TakesSpawn
<1>2. ASSUME ParentEnds(w) PROVE JInv'
  <2>1. at[w].pc = "body" /\ at[w].run = 0 /\ ~Lost(at[w].run)
    BY <1>2 DEF ParentEnds, InParent
  <2>2. \/ Finish(w, "done") \/ Finish(w, "failed")
        \/ at[w].first = "wait" /\ Suspend(w, "awaiting_child")
        \/ at[w].first = "nap" /\ Suspend(w, "sleeping")
    BY <1>2 DEF ParentEnds
  <2> QED BY <2>1, <2>2, TakesFinish, TakesSuspend DEF Active
<1>3. ASSUME ChildParks(w) PROVE JInv'
  <2>1. at[w].pc = "body" /\ at[w].run # 0 /\ ~Lost(at[w].run) /\ Suspend(w, "awaiting_signal")
    BY <1>3, Constants DEF ChildParks, InChild
  <2> QED BY <2>1, TakesSuspend DEF Active
<1>4. ASSUME NEW out \in {"done", "failed"}, ChildEnds(w, out) PROVE JInv'
  BY <1>4, TakesFinish DEF ChildEnds, InChild
<1> QED BY <1>1, <1>2, <1>3, <1>4, TakesReadOne, TakesReadAll, TakesJoin, TakesSleep DEF Body

LEMMA TakesProcess ==
  ASSUME Known, NEW p \in Procs, Canceling(p) \/ Crash(p)
  PROVE  JInv'
BY TakesStrike, TakesCancel, TakesArrival, TakesWake, TakesOther, TakesCrash DEF Canceling

LEMMA TakesWork ==
  ASSUME Known, NEW w \in Workers, Work(w) \/ DrainTimer(w) \/ \E r \in Runs : Claim(w, r)
  PROVE  JInv'
<1>1. ASSUME FinishSpent(w) PROVE JInv'
  BY <1>1, TakesFinish DEF FinishSpent
<1>2. ASSUME NEW spent \in BOOLEAN, MarkRunning(w, spent) PROVE JInv'
  BY <1>2, TakesMark
<1>3. ASSUME Load(w) \/ PullCheck(w) \/ CancelSelf(w) \/ Ack(w) \/ DrainTimer(w) PROVE JInv'
  BY <1>3, TakesLoad, TakesPull, TakesAck
<1> QED BY <1>1, <1>2, <1>3, TakesBody, TakesProcess, TakesClaim, OfProcs DEF Work

LEMMA JoinStep == Known /\ KeepKids /\ [Next]_vars => JInv'
<1> SUFFICES ASSUME Known, KeepKids, [Next]_vars PROVE JInv'
  OBVIOUS
<1>1. ASSUME NEW r \in Runs, Operators(r) \/ Expire(r) PROVE JInv'
  BY <1>1, TakesOther, TakesTrouble, TakesExpire, OfProcs DEF Operators
<1>2. CASE NapOver \/ ReconcileScan \/ UNCHANGED vars
  <2>1. UNCHANGED <<flow, trouble, row, births, left, log, job, clean, at>>
    BY <1>2 DEF NapOver, ReconcileScan, vars, store
  <2> QED BY <2>1, NobodyQuiet
<1> QED BY <1>1, <1>2, TakesWork, TakesProcess, TakesSweep, TakesSignal, OfProcs DEF Next

LEMMA JoinInit == Orderly /\ Init => JInv
<1> SUFFICES ASSUME Orderly, Init PROVE JInv
  OBVIOUS
<1>1. row[0] = Fresh /\ \A k \in Kids : row[k] = NoRun /\ births[k] = 0
  BY Constants DEF Init
<1>2. BornKids = {} /\ log = {} /\ left = 0 /\ job[0].queued /\ \A p \in Procs : at[p] = Idle
  BY <1>1, Constants DEF Init, BornKids, Enqueued
<1>3. Tame
  BY DEF Init, Orderly, Tame
<1>4. BornInv
  BY <1>2 DEF BornInv
<1>5. Minds
  <2>1. \A p : Mind(p, Idle, Shares, Calls, BornKids, LiveRuns)
    BY DEF Mind, Idle, Leased, Executing, NoLease
  <2> QED BY <1>2, <2>1 DEF Minds
<1>6. LeftInv
  <2>1. Cardinality(NotOver) \in Nat /\ Cardinality(Arriving) \in Nat
    BY ProcsFinite, FS_Subset, FS_CardinalityType DEF NotOver, Arriving
  <2> QED BY <1>2, <2>1 DEF LeftInv
<1>7. \A w \in Workers : ~OnParent(at[w])
  BY <1>2, OfProcs DEF OnParent, Idle
<1> QED BY <1>2, <1>3, <1>4, <1>5, <1>6, <1>7 DEF JInv, ExclInv, HopeInv

(* No join is left waiting (context.ts: invokeOne, invokeMany; executor.ts: arriveAtJoin,  *)
(* wakeParent): a parent that has parked on its children, and has nothing in the queue,    *)
(* has a live child or somebody on the way to wake it, for as long as no process has died  *)
(* and no bulk cancel was made.                                                            *)
THEOREM JoinNeverStrands ==
  ASSUME Orderly
  PROVE  Spec => []JoinWakes
<1>1. Init => IInv /\ JobTypes /\ StoreTypes /\ JInv
  BY InitHolds, TypesInit, JoinInit
<1>2. Known /\ [Next]_vars => Known'
  <2>1. KeepKids
    BY DEF Orderly
  <2> QED BY <2>1, StepMoves, JobStep, StoreStep, JoinStep DEF Known, IInv, Advances
<1>3. Known => JoinWakes
  <2> SUFFICES ASSUME Known, clean, Parked, \A p \in Procs : ~ToWake(p) PROVE \E k \in Kids : Live(k)
    BY DEF JoinWakes
  <2>1. Live(0) /\ ~job[0].queued /\ ToWait
    BY DEF Parked, Live, Active, ToWait
  <2>2. Hope
    BY <2>1 DEF Known, JInv, HopeInv
  <2>3. \A p \in Procs : ~Carries(at[p])
    BY DEF ToWake, Carries, Arrives
  <2> QED BY <2>2, <2>3 DEF Hope
<1> QED BY <1>1, <1>2, <1>3, PTL DEF Spec, Known

=============================================================================
