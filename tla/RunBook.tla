------------------------------ MODULE RunBook ------------------------------
(***************************************************************************)
(* What a store promises of each run, whoever calls it and however its     *)
(* tables are kept: a run is created, comes to an outcome and keeps it; it *)
(* is live again only by the retry of a failure, and forgotten only when   *)
(* it is over.  A position of its log is written once.  Its signal is      *)
(* delivered once and consumed once, by the entry that records it, and a   *)
(* timeout is never recorded over a signal that waits.                     *)
(***************************************************************************)
CONSTANTS Runs, Positions, Nothing

Outcomes == {"done", "failed", "canceled"}

VARIABLE book   \* run -> its life, its memo (position -> what was recorded), its mail

Blank == [life |-> "absent", memo |-> [p \in Positions |-> Nothing], mail |-> "unsent"]

Created(b, n) == b.life = "absent" /\ n = [b EXCEPT !.life = "live"]
Concluded(b, n) == b.life = "live" /\ \E o \in Outcomes : n = [b EXCEPT !.life = o]
Reopened(b, n) == b.life = "failed" /\ n = [b EXCEPT !.life = "live"]

(* Forgotten at once, or piece by piece. *)
Forgotten(b, n) ==
  /\ b.life \in Outcomes \cup {"absent"} /\ n.life \in {b.life, "absent"}
  /\ n.memo \in {b.memo, Blank.memo} /\ n.mail \in {b.mail, Blank.mail}

Delivered(b, n) == b.mail = "unsent" /\ n = [b EXCEPT !.mail = "waiting"]

Recorded(b, n) ==
  \E p \in Positions :
    /\ b.life # "absent" /\ b.memo[p] = Nothing /\ n.memo[p] # Nothing
    /\ n.memo = [b.memo EXCEPT ![p] = n.memo[p]] /\ n.life = b.life
    /\ CASE n.memo[p].what = "signal"  -> b.mail = "waiting" /\ n.mail = "used"
         [] n.memo[p].what = "timeout" -> b.mail # "waiting" /\ n.mail = b.mail
         [] OTHER                      -> n.mail = b.mail

(* One write may touch several runs. *)
Next ==
  \A r \in Runs :
    LET b == book[r]
        n == book'[r]
    IN  n = b \/ Created(b, n) \/ Concluded(b, n) \/ Reopened(b, n) \/ Forgotten(b, n)
        \/ Delivered(b, n) \/ Recorded(b, n)

Spec == [][Next]_book
=============================================================================
