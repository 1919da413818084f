----------------------------- MODULE Accumulators -----------------------------
(* The accumulators shared by the native aggregate operators: what a row, a   *)
(* run of appended rows and another accumulator do to COUNT, SUM, AVG, MIN    *)
(* and MAX, with and without DISTINCT, and what of them is stored. A row is   *)
(* [key, value, pass], pass being the value of a FILTER clause.               *)
EXTENDS Changelog

CONSTANTS
  NULL,      \* SQL NULL, and an absent accumulator value
  Width,     \* integers of the aggregated type are taken modulo Width
  MaxDecimal \* the largest value of the decimal type

AccumulatorsAssumption ==
  Width \in Nat \ {0} /\ MaxDecimal \in Nat /\ NULL \notin Int

Call(function, distinct, filtered, retractable, type) ==
  [function |-> function, distinct |-> distinct, filtered |-> filtered,
   retractable |-> retractable, type |-> type]

Arithmetic(call) == call.function \in {"Sum", "Sum0", "Avg"}
Extreme(call) == call.function \in {"Min", "Max"}

Kind(call) ==
  CASE Extreme(call) -> IF call.retractable THEN "Extremum" ELSE "AppendExtremum"
    [] call.distinct -> "Distinct"
    [] OTHER -> "Plain"

\* Calls the planner lets through: only an argument can be DISTINCT, and only a
\* number can be summed.
EnsureSumType(type) == type \in {"int", "decimal"}
EnsureExtremumType(type) == type \in {"int", "decimal", "text"}
LowerCall(call) ==
  /\ call.function = "CountStar" => ~call.distinct
  /\ Arithmetic(call) => EnsureSumType(call.type)
  /\ Extreme(call) => EnsureExtremumType(call.type)

\* One accumulator: a counter, a value and the signed multiplicity of values.
NewAccumulator(call) ==
  [count |-> 0, value |-> IF call.function = "Avg" THEN 0 ELSE NULL, values |-> NoRows]

New(calls) ==
  [rowCount |-> 0, accumulators |-> [i \in DOMAIN calls |-> NewAccumulator(calls[i])]]

-----------------------------------------------------------------------------
(* Arithmetic of the aggregated type.                                         *)

\* Integers wrap; a decimal that no longer fits its precision is NULL. AVG sums
\* in a wider type.
Fit(call, n) ==
  CASE call.type = "decimal" -> IF n \in (-MaxDecimal)..MaxDecimal THEN n ELSE NULL
    [] call.function = "Avg" -> n
    [] OTHER -> ((n + Width \div 2) % Width) - Width \div 2

AggregateAdd(call, a, b) == Fit(call, a + b)
AggregateSub(call, a, b) == Fit(call, a - b)

\* Division that truncates towards zero.
Quotient(a, b) ==
  LET Abs(n) == IF n < 0 THEN -n ELSE n
      q == Abs(a) \div Abs(b)
  IN  IF (a < 0) = (b < 0) THEN q ELSE -q

AverageValue(acc) ==
  IF acc.count = 0 \/ acc.value = NULL THEN NULL ELSE Quotient(acc.value, acc.count)

\* The extremum of a value that may be missing and one that is there.
AppendExtremum(call, current, v) ==
  CASE current = NULL -> v
    [] call.function = "Min" -> IF v < current THEN v ELSE current
    [] OTHER -> IF v > current THEN v ELSE current

AggregateFilter(call, row) == ~call.filtered \/ row.pass

-----------------------------------------------------------------------------
(* One row.                                                                   *)

\* A sum takes its first value as it is; an AVG that has lost its sum stays so.
SumRow(call, sum, v, accumulate) ==
  CASE sum # NULL -> IF accumulate THEN AggregateAdd(call, sum, v) ELSE AggregateSub(call, sum, v)
    [] call.function = "Avg" -> NULL
    [] OTHER -> IF accumulate THEN v ELSE AggregateSub(call, 0, v)

ApplyPlain(call, acc, v, accumulate) ==
  LET delta == IF accumulate THEN 1 ELSE -1
  IN  [acc EXCEPT !.count = @ + delta,
                  !.value = IF Arithmetic(call) THEN SumRow(call, @, v, accumulate) ELSE @]

\* A value counts when it enters or leaves the multiset, never in between.
ApplyDistinct(call, acc, v, accumulate) ==
  LET delta == IF accumulate THEN 1 ELSE -1
      previous == Count(acc.values, v)
      changes == IF accumulate THEN previous = 0 ELSE previous + delta = 0
      counted == IF changes THEN ApplyPlain(call, acc, v, accumulate) ELSE acc
  IN  [counted EXCEPT !.values = AddTo(@, v, delta)]

\* MIN and MAX over appended rows remember one value and cannot take one back.
ApplyExtremum(call, acc, v, accumulate) ==
  IF Kind(call) = "Extremum"
  THEN [acc EXCEPT !.values = AddTo(@, v, IF accumulate THEN 1 ELSE -1)]
  ELSE [acc EXCEPT !.value = IF accumulate THEN AppendExtremum(call, @, v) ELSE @]

ApplyCall(call, acc, row, accumulate) ==
  CASE ~AggregateFilter(call, row) -> acc
    [] row.value = NULL /\ call.function # "CountStar" -> acc
    [] Extreme(call) -> ApplyExtremum(call, acc, row.value, accumulate)
    [] Kind(call) = "Distinct" -> ApplyDistinct(call, acc, row.value, accumulate)
    [] OTHER -> ApplyPlain(call, acc, row.value, accumulate)

Apply(calls, state, row, accumulate) ==
  [rowCount |-> state.rowCount + (IF accumulate THEN 1 ELSE -1),
   accumulators |-> [i \in DOMAIN calls |-> ApplyCall(calls[i], state.accumulators[i], row, accumulate)]]

-----------------------------------------------------------------------------
(* Another accumulator.                                                       *)

\* One distinct value: it counts while its multiplicity is positive, whichever
\* of the two sides saw it first.
MergeValue(call, acc, v, n) ==
  LET previous == Count(acc.values, v)
      enters == previous <= 0 /\ previous + n > 0
      leaves == previous > 0 /\ previous + n <= 0
      sum == CASE ~Arithmetic(call) -> acc.value
               [] acc.value = NULL -> IF enters /\ acc.count = 0 /\ call.function # "Avg" THEN v ELSE NULL
               [] enters -> AggregateAdd(call, acc.value, v)
               [] leaves -> AggregateSub(call, acc.value, v)
  IN  [count |-> acc.count + (IF enters THEN 1 ELSE IF leaves THEN -1 ELSE 0),
       value |-> IF enters \/ leaves THEN sum ELSE acc.value,
       values |-> AddTo(acc.values, v, n)]

MergeDistinct(call, acc, other) ==
  FoldLeft(LAMBDA a, v : MergeValue(call, a, v, other.values[v]),
           acc, SetToSortSeq(DOMAIN other.values, <))

\* A partial SUM may replace one value by another and leave the count alone. A
\* populated SUM without a value has overflowed, and stays so.
MergeSum(call, acc, other) ==
  IF other.value = NULL /\ other.count = 0 THEN acc
  ELSE [acc EXCEPT
          !.count = @ + other.count,
          !.value = CASE @ # NULL /\ other.value # NULL -> AggregateAdd(call, @, other.value)
                      [] @ = NULL /\ acc.count = 0 /\ call.function # "Avg" -> other.value
                      [] OTHER -> NULL]

MergeExtremum(call, acc, other) ==
  IF Kind(call) = "Extremum"
  THEN [acc EXCEPT !.values = FoldSet(LAMBDA v, b : AddTo(b, v, other.values[v]), @, DOMAIN other.values)]
  ELSE [acc EXCEPT !.value = IF other.value = NULL THEN @ ELSE AppendExtremum(call, @, other.value)]

MergeCall(call, acc, other) ==
  CASE Extreme(call) -> MergeExtremum(call, acc, other)
    [] Kind(call) = "Distinct" -> MergeDistinct(call, acc, other)
    [] Arithmetic(call) -> MergeSum(call, acc, other)
    [] OTHER -> [acc EXCEPT !.count = @ + other.count]

Merge(calls, state, other) ==
  [rowCount |-> state.rowCount + other.rowCount,
   accumulators |-> [i \in DOMAIN calls |->
                       MergeCall(calls[i], state.accumulators[i], other.accumulators[i])]]

-----------------------------------------------------------------------------
(* A run of rows.                                                             *)

\* Calls whose contribution one vectorised kernel computes for a whole run.
Reusable(call) ==
  /\ ~call.distinct
  /\ Arithmetic(call) => call.type = "int"
  /\ Extreme(call) => ~call.retractable

\* What the kernel returns: NULL for a sum of nothing, AVG included.
Contribution(call, rows) ==
  LET acc == FoldLeft(LAMBDA a, r : ApplyCall(call, a, r, TRUE), NewAccumulator(call), rows)
  IN  [acc EXCEPT !.value = IF acc.count = 0 /\ Arithmetic(call) THEN NULL ELSE @]

\* A run of appended rows of one group.
ApplyAppendBatch(calls, state, rows) ==
  [rowCount |-> state.rowCount + Len(rows),
   accumulators |-> [i \in DOMAIN calls |->
     IF Reusable(calls[i])
     THEN MergeCall(calls[i], state.accumulators[i], Contribution(calls[i], rows))
     ELSE FoldLeft(LAMBDA a, r : ApplyCall(calls[i], a, r, TRUE), state.accumulators[i], rows)]]

\* The changes of one group: appended rows in runs, retractions one by one. A
\* retraction that meets an empty group is dropped where the plan says so.
ApplyInputRows(calls, state, changes, ignoreEmptyRetract) ==
  LET Runs == FoldLeft(LAMBDA runs, c :
                IF Accumulates(c.kind) /\ runs # <<>> /\ Accumulates(Last(runs)[1].kind)
                THEN Front(runs) \o <<Append(Last(runs), c)>>
                ELSE Append(runs, <<c>>), <<>>, changes)
      Step(st, run) ==
        CASE Accumulates(run[1].kind) -> ApplyAppendBatch(calls, st, [i \in DOMAIN run |-> run[i].row])
          [] ignoreEmptyRetract /\ st.rowCount = 0 -> st
          [] OTHER -> Apply(calls, st, run[1].row, FALSE)
  IN  FoldLeft(Step, state, Runs)

-----------------------------------------------------------------------------
(* Results and stored form.                                                   *)

PositiveValues(acc) == {v \in DOMAIN acc.values : acc.values[v] > 0}

AccumulatorValue(call, acc) ==
  CASE Kind(call) = "AppendExtremum" -> acc.value
    [] Kind(call) = "Extremum" ->
         IF PositiveValues(acc) = {} THEN NULL
         ELSE IF call.function = "Min" THEN Min(PositiveValues(acc)) ELSE Max(PositiveValues(acc))
    [] call.function = "Avg" -> AverageValue(acc)
    [] Arithmetic(call) ->
         IF acc.count # 0 THEN acc.value
         ELSE IF call.function = "Sum0" /\ ~call.distinct THEN 0 ELSE NULL
    [] OTHER -> acc.count

ValuesOf(calls, state) ==
  [i \in DOMAIN calls |-> AccumulatorValue(calls[i], state.accumulators[i])]

AccumulatorIsNeutral(call, acc) ==
  IF Extreme(call) THEN acc.value = NULL /\ acc.values = NoRows
  ELSE acc.count = 0 /\ acc.values = NoRows /\ acc.value \in {NULL, 0}

Neutral == [neutral |-> TRUE]

\* Stored, a neutral accumulator is a tag; read back, it is a new one.
EncodeState(calls, state) ==
  [state EXCEPT !.accumulators =
     [i \in DOMAIN calls |-> IF AccumulatorIsNeutral(calls[i], @[i]) THEN Neutral ELSE @[i]]]

DecodeState(calls, bytes) ==
  [bytes EXCEPT !.accumulators =
     [i \in DOMAIN calls |-> IF @[i] = Neutral THEN NewAccumulator(calls[i]) ELSE @[i]]]

-----------------------------------------------------------------------------
(* Reference: SQL aggregation of a bag of rows.                               *)

Selected(call, bag) ==
  {r \in DOMAIN bag : AggregateFilter(call, r) /\ (call.function = "CountStar" \/ r.value # NULL)}

SqlValue(call, bag) ==
  LET rows == Selected(call, bag)
      values == {r.value : r \in rows}
      Total(f(_)) == FoldSet(LAMBDA x, n : n + f(x), 0, IF call.distinct THEN values ELSE rows)
      Times(x) == IF call.distinct THEN 1 ELSE bag[x]
      Value(x) == IF call.distinct THEN x ELSE x.value
      number == Total(Times)
      sum == Total(LAMBDA x : Times(x) * Value(x))
  IN  CASE call.function \in {"CountStar", "Count"} -> number
        [] rows = {} -> IF call.function = "Sum0" THEN 0 ELSE NULL
        [] call.function = "Avg" -> Quotient(sum, number)
        [] call.function \in {"Sum", "Sum0"} -> Fit(call, sum)
        [] call.function = "Min" -> Min(values)
        [] OTHER -> Max(values)

SqlValues(calls, bag) == [i \in DOMAIN calls |-> SqlValue(calls[i], bag)]
=============================================================================
