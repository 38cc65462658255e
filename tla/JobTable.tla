------------------------------ MODULE JobTable ------------------------------
(***************************************************************************)
(* The job row of the dispatch queue and what each queue operation makes   *)
(* of it, as operators on rows.  A row is keyed by its run; the state      *)
(* machines that own rows (JobQueue, RunEngine) apply these operators.     *)
(*                                                                         *)
(* An instant is a natural number.  An absent row is NoJob; because its    *)
(* version is 0 and its token 0, "(prior?.version ?? 0) + 1" and "keep the *)
(* prior lease" need no case split.  An unleased row has token 0 and       *)
(* expires 0, which no instant is before.                                  *)
(***************************************************************************)
EXTENDS Naturals

Job == [queued  : BOOLEAN,   \* a row exists
        runAt   : Nat,       \* earliest instant it may be claimed
        version : Nat,       \* bumped by every enqueue
        token   : Nat,       \* 0: unleased
        expires : Nat]       \* the instant the lease is no longer valid

NoJob == [queued |-> FALSE, runAt |-> 0, version |-> 0, token |-> 0, expires |-> 0]

(* A row that is gone leaves nothing behind; one that exists was enqueued. *)
WellFormed(j) == IF j.queued THEN j.version > 0 ELSE j = NoJob

Lease == [token : Nat, version : Nat, expires : Nat]

NoLease == [token |-> 0, version |-> 0, expires |-> 0]

(* An enqueue that replaces the row outright, lease included. *)
EnqueuedAfresh(j, at) ==
  [queued |-> TRUE, runAt |-> at, version |-> j.version + 1, token |-> 0, expires |-> 0]

(* Upsert: the schedule and the version move, an active lease stays. *)
Enqueued(j, at) ==
  [queued |-> TRUE, runAt |-> at, version |-> j.version + 1,
   token |-> j.token, expires |-> j.expires]

(* Whether a claim at instant t may lease the row. *)
Claimable(j, t) == j.queued /\ j.runAt <= t /\ j.expires <= t

Claimed(j, token, expires) == [j EXCEPT !.token = token, !.expires = expires]

(* The lease a claim hands to its caller. *)
LeaseOn(j) == [token |-> j.token, version |-> j.version, expires |-> j.expires]

(* An ownership test that looks at the token alone. *)
HoldsUntilReclaimed(j, l, t) == j.queued /\ j.token = l.token

(* The test heartbeat and ack share: the row still carries this lease. *)
Holds(j, l, t) == j.queued /\ j.token = l.token /\ j.expires > t

(* A renewal moves the expiry of the row, and of the holder's copy of the lease. *)
Extended(j, expires) == [j EXCEPT !.expires = expires]

(* A row that was enqueued again while leased is released, not deleted. *)
Released(j) == [j EXCEPT !.token = 0, !.expires = 0, !.runAt = 0]

(* An acknowledgement that ticks the row off and leaves it in the table. *)
AckedKeepsRow(j, l, t) ==
  IF ~Holds(j, l, t) THEN j
  ELSE IF j.version # l.version THEN Released(j) ELSE [j EXCEPT !.queued = FALSE]

(* An acknowledgement that does not compare versions. *)
AckedClobbersWake(j, l, t) == IF ~Holds(j, l, t) THEN j ELSE NoJob

Acked(j, l, t) ==
  IF ~Holds(j, l, t) THEN j
  ELSE IF j.version # l.version THEN Released(j) ELSE NoJob
=============================================================================
