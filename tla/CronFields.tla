------------------------------ MODULE CronFields ------------------------------
(***************************************************************************)
(* Five-field cron expressions: minute, hour, day of month, month, day of  *)
(* week, each a set of parts (the comma list of the text).  A part is a    *)
(* range, <<>> for *, <<n>> or <<a, b>>, and the step after its slash, if  *)
(* there is one: {} or {n}.                                                *)
(***************************************************************************)
EXTENDS Integers, Sequences

Part(range) == [range |-> range, step |-> {}]
Every(range, n) == [range |-> range, step |-> {n}]
Star == {Part(<<>>)}

Stride(p) == IF p.step = {} THEN 1 ELSE CHOOSE n \in p.step : TRUE
Lo(p, min) == IF p.range = <<>> THEN min ELSE p.range[1]

(* A lone n is itself; n with a step goes on to the end of the field. *)
Hi(p, max) ==
  CASE p.range = <<>>    -> max
    [] Len(p.range) = 2  -> p.range[2]
    [] OTHER             -> IF p.step = {} THEN p.range[1] ELSE max

InRange(field, min, max) ==
  \A p \in field : Stride(p) >= 1 /\ min <= Lo(p, min) /\ Lo(p, min) <= Hi(p, max) /\ Hi(p, max) <= max

Expand(field, min, max) ==
  UNION {{n \in Lo(p, min)..Hi(p, max) : (n - Lo(p, min)) % Stride(p) = 0} : p \in field}

Ranges == [minute |-> <<0, 59>>, hour |-> <<0, 23>>, dom |-> <<1, 31>>, month |-> <<1, 12>>, dow |-> <<0, 6>>]
Parses(expr) == \A f \in DOMAIN Ranges : InRange(expr[f], Ranges[f][1], Ranges[f][2])
Fields(expr) == [f \in DOMAIN Ranges |-> Expand(expr[f], Ranges[f][1], Ranges[f][2])]

(* A minute of the calendar is matched field by field; where the expression restricts    *)
(* both the day of the month and the day of the week, one of the two is enough.          *)
DayMatches(expr, minute) ==
  LET fields == Fields(expr)
      dom == minute.dom \in fields.dom
      dow == minute.dow \in fields.dow
  IN  IF expr.dom # Star /\ expr.dow # Star THEN dom \/ dow ELSE dom /\ dow
Matches(expr, minute) ==
  /\ \A f \in {"minute", "hour", "month"} : minute[f] \in Fields(expr)[f]
  /\ DayMatches(expr, minute)
=============================================================================
