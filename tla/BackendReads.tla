---------------------------- MODULE BackendReads ----------------------------
(***************************************************************************)
(* The reads of the ports. What is seen of the tables is a set of facts,   *)
(* pairs of a run and what is said of it, and an answer is a set of facts. *)
(* A backend that has a query for a read answers from the tables as they   *)
(* are; one that has none gathers the facts a key, or a table, at a time,  *)
(* and its answer may be of no single moment.                              *)
(*                                                                         *)
(* Limits are past what there is to find, except that a page of runs is of *)
(* one run. The runs that are listed are numbered as they were created.    *)
(***************************************************************************)
EXTENDS BackendTables

Statuses == Active \cup Terminal

(* Run 3 is of a flow of its own; a filter is a set of names, or any name. *)
Flow(r) == IF r = 3 THEN "g" ELSE "f"
CronFlow == "f"
AnyName == {"any"}

(* What there is to be seen of a set of runs, table by table. *)
RowFacts(d, R) ==
  {<<r, d.row[r].status>> : r \in {q \in R : There(d, q)}} \cup {<<r, "child">> : r \in R \cap d.kids}
JobFacts(d, R) ==
  {<<r, IF d.job[r].expires > 0 THEN "leased" ELSE "claimable">> : r \in {q \in R : d.job[q].queued}}
TimerFacts(d, R) == {<<r, d.timer[r]>> : r \in R \cap Set(d)}
CronFacts(d) == IF d.cron = NoCron THEN {} ELSE {<<0, "cron">>}
View(d) == RowFacts(d, Runs) \cup JobFacts(d, Runs) \cup TimerFacts(d, Runs) \cup CronFacts(d)

Is(view, r, kinds) == \E kind \in kinds : <<r, kind>> \in view
HasJob(view, r) == Is(view, r, {"claimable", "leased"})
HasTimer(view, r) == Is(view, r, {"ahead", "due"})
Kids(view) == {r \in Runs : <<r, "child">> \in view}

(* The runs a reconciler is to drive again, and why: a run the engine itself should be   *)
(* moving, with no job and no timer to move it; a parent whose join is resolved, by one  *)
(* child or by all, and whose wake was lost; a live child of a parent that is over       *)
(* without success.                                                                      *)
NonSuccess == {"failed", "canceled"}
Stranded(view) == {r \in Runs : Is(view, r, Reconcilable) /\ ~HasJob(view, r) /\ ~HasTimer(view, r)}
Waiting(view) == {r \in {0} : Is(view, r, {"awaiting_child"}) /\ ~HasJob(view, r)}
Reasons(view) ==
  {<<r, "stranded", r>> : r \in Stranded(view)} \cup
  {<<r, "failing", k>> : r \in Waiting(view), k \in {k \in Kids(view) : Is(view, k, NonSuccess)}} \cup
  {<<r, "joined", r>> : r \in {r \in Waiting(view) :
     Kids(view) # {} /\ \A k \in Kids(view) : Is(view, k, Terminal)}} \cup
  {<<r, "left", 0>> : r \in {r \in Kids(view) : Is(view, r, Active) /\ Is(view, 0, NonSuccess)}}
Orphans(reasons) == {<<why[1], "orphan">> : why \in reasons}

(* A filter by name lets a row pass whose run is gone, so that somebody clears it up; a   *)
(* filter that names nothing lets nothing pass.                                           *)
Passes(view, names, r) ==
  names # {} /\ (names = AnyName \/ ~Is(view, r, Statuses) \/ Flow(r) \in names)

NeedsNames(call) == call.arg \notin {AnyName, {}}

(* The answer of a read to what was seen. *)
Concluded(call, view) ==
  LET rows == {f \in view : f[2] \in Statuses}
      Named(kinds) == {f \in view : f[2] \in kinds /\ Passes(view, call.arg, f[1])}
  IN  CASE call.op \in {"rows", "stats"} -> rows
        [] call.op = "list" -> {f \in rows : f[2] \in call.arg}
        [] call.op = "children" -> {f \in rows : f[1] \in Kids(view)}
        [] call.op = "orphans" -> Orphans(Reasons(view))
        [] call.op = "depth" -> Named({"claimable", "leased"})
        [] call.op = "dueCount" -> Named({"due"})
        [] call.op = "nextDue" -> {f \in view : f[2] = "ahead"}
        [] call.op = "listCrons" -> view \cap {<<0, "cron">>}
        [] call.op = "cronCount" -> {f \in view : f[2] = "cron" /\ call.arg \cap {CronFlow, "any"} # {}}

-----------------------------------------------------------------------------
(* Claims: the jobs that are due, of the flows the claim is for *)

(* A filter that a job whose run is gone does not pass. *)
FitKnown(c, R) == {r \in R : Call(c).arg = AnyName \/ (There(db, r) /\ Flow(r) \in Call(c).arg)}

Fit(c, R) == {r \in R : Passes(RowFacts(db, Runs), Call(c).arg, r)}

(* The first thing a query finds. *)
OneOf(R) == IF R = {} THEN {{}} ELSE {{r} : r \in R}

Candidates(c, picks) ==
  \/ /\ Calls(c, "claim")
     /\ \E found \in picks :
          IF found = {} \/ Call(c).arg = {} THEN Ends(c, db, FALSE)
          ELSE Reads(c, IF NeedsNames(Call(c)) THEN "names" ELSE "lease", found)
  \/ /\ On(c, "claim", "names")
     /\ LET fit == Fit(c, at[c].got) IN IF fit = {} THEN Ends(c, db, FALSE) ELSE Reads(c, "lease", fit)

(* A lease that is taken on the strength of the query. *)
ClaimOnSight(c, picks) ==
  Candidates(c, picks) \/ (On(c, "claim", "lease") /\ \E r \in at[c].got : TakeLease(c, r))

(* A query finds candidates, and another one their names if the claim is for some flows; *)
(* a conditional write, that looks at the lease alone, takes the first that is free.      *)
ClaimThenLease(c, picks) ==
  \/ Candidates(c, picks)
  \/ /\ On(c, "claim", "lease")
     /\ \E r \in at[c].got :
          IF r \in Due(db) THEN TakeLease(c, r)
          ELSE IF at[c].got = {r} THEN Ends(c, db, FALSE)
          ELSE Reads(c, "lease", at[c].got \ {r})

-----------------------------------------------------------------------------
(* Reads, as one statement or as many *)

AtOnce(c, op) == Calls(c, op) /\ Ends(c, db, Concluded(Call(c), View(db)))

(* What is found first, and what is to be looked at after it: pairs of a table and a run. *)
Begins(c, op, view, looks) ==
  /\ Calls(c, op)
  /\ IF looks = {} THEN Ends(c, db, Concluded(Call(c), view))
     ELSE Goes(c, db, [at[c] EXCEPT !.pc = "look", !.out = view, !.looks = looks])

Found(d, looks) ==
  LET In(table) == {look[2] : look \in {l \in looks : l[1] = table}}
  IN  RowFacts(d, In("row")) \cup JobFacts(d, In("job")) \cup TimerFacts(d, In("timer"))

Looks(c, op, looks) ==
  LET view == at[c].out \cup Found(db, looks)
  IN  /\ On(c, op, "look") /\ looks # {}
      /\ IF at[c].looks = looks THEN Ends(c, db, Concluded(Call(c), view))
         ELSE Goes(c, db, [at[c] EXCEPT !.out = view, !.looks = @ \ looks])

(* A table in one query, or a run at a time; one table after another, or side by side. *)
LookIn(c, table) == {look \in at[c].looks : look[1] = table}
LooksThrough(c, op, table) == Looks(c, op, LookIn(c, table))
LooksOn(c, op, table) ==
  Looks(c, op, {look \in LookIn(c, table) : \A l \in LookIn(c, table) : look[2] <= l[2]})
LooksInTurn(c, op, tables) ==
  \E i \in DOMAIN tables :
    (\A j \in 1..i - 1 : LookIn(c, tables[j]) = {}) /\ LooksOn(c, op, tables[i])

(* A listing is a walk down the pages, each from where the last one ended. *)
Paging(c) == Calls(c, "list") \/ On(c, "list", "page")
(* A cursor that leaves out the run after the one it ends at. *)
BelowNext(c) == {r \in Runs : There(db, r) /\ r < at[c].cursor - 1}

Below(c) == {r \in Runs : There(db, r) /\ r < at[c].cursor}
Newest(R) == CHOOSE r \in R : \A q \in R : q <= r
Turned(c, r, facts) == [at[c] EXCEPT !.pc = "page", !.cursor = r, !.out = @ \cup facts]

(* A page is the newest run that is asked for, and has not been listed. *)
ListInPages(c) ==
  LET asked == {r \in Below(c) : db.row[r].status \in Call(c).arg}
  IN  /\ Paging(c)
      /\ IF asked = {} THEN Ends(c, db, at[c].out)
         ELSE Goes(c, db, Turned(c, Newest(asked), {<<Newest(asked), db.row[Newest(asked)].status>>}))

(* A page reads the index until it finds one. *)
ListByEntry(c) ==
  LET r == Newest(Below(c))
  IN  /\ Paging(c)
      /\ IF Below(c) = {} THEN Ends(c, db, at[c].out)
         ELSE Goes(c, db, Turned(c, r, Concluded(Call(c), RowFacts(db, {r}))))
=============================================================================
