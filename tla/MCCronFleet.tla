---------------------------- MODULE MCCronFleet ----------------------------
(***************************************************************************)
(* Definitions a cron is deployed with, and the minutes of June 2026 that  *)
(* they name.  The minute past the bound of the clock stands for the rest  *)
(* of a schedule.                                                          *)
(***************************************************************************)
EXTENDS CronFleet

On(hour, dom, month, dow) == [minute |-> 0, hour |-> hour, dom |-> dom, month |-> month, dow |-> dow]
Minutes == <<On(9, 31, 5, 0), On(9, 1, 6, 1), On(12, 2, 6, 2), On(9, 8, 6, 1), On(9, 15, 6, 1)>>
Summer == [t \in 0..MaxTime + 1 |-> Minutes[t + 1]]

(* 0 9 1,15 * 1, then 0 9-12/3 2/13,15 6,7 *, then *)
(* 0,30 */3 1-2 6 *, and one with a day of the week that there is not: 0 9 1 * 7.        *)
Written ==
  [mondays |-> [minute |-> {Part(<<0>>)}, hour |-> {Part(<<9>>)}, dom |-> {Part(<<1>>), Part(<<15>>)},
                month |-> Star, dow |-> {Part(<<1>>)}],
   noons   |-> [minute |-> {Part(<<0>>)}, hour |-> {Every(<<9, 12>>, 3)}, dom |-> {Every(<<2>>, 13), Part(<<15>>)},
                month |-> {Part(<<6>>), Part(<<7>>)}, dow |-> Star],
   start   |-> [minute |-> {Part(<<0>>), Part(<<30>>)}, hour |-> {Every(<<>>, 3)}, dom |-> {Part(<<1, 2>>)},
                month |-> {Part(<<6>>)}, dow |-> Star],
   eighth  |-> [minute |-> {Part(<<0>>)}, hour |-> {Part(<<9>>)}, dom |-> {Part(<<1>>)},
                month |-> Star, dow |-> {Part(<<7>>)}]]

(* The first and the fifteenth, and every Monday besides; noon of the second, and nine   *)
(* o'clock of the fifteenth; the first two days of June; nothing.                        *)
Intended == [mondays |-> {1, 3, 4}, noons |-> {2, 4}, start |-> {1, 2}, eighth |-> {}]

As(schedule, overlap) == [schedule |-> schedule, flow |-> 1, overlap |-> overlap]

(* Two schedules with no fire time in common but the last, one of them in both modes. *)
Disjoint == {As("mondays", "allow"), As("noons", "allow"), As("noons", "skip"),
             As("eighth", "allow")}

Once == {As("start", "skip")}

(* What FollowsItsSchedule assumes of the schedules holds of these. *)
ASSUME DefinitionsApart == Understood /\ Apart
=============================================================================
