----------------------------- MODULE Aggregates -----------------------------
(***************************************************************************)
(* The aggregation states of godb (src/godb/agg_state.go) as values.  Each *)
(* state is a record of the fields its struct accumulates; Init, AddTuple  *)
(* and Finalize are operators on it.  AddTuple is given the value the      *)
(* state's expression evaluates to on the tuple: a DBValue, an IntField or *)
(* a StringField.  Copy is a copy of the struct, i.e. the same record.     *)
(*                                                                         *)
(* int64 arithmetic is kept as IntWidth-bit two's complement: the sums     *)
(* wrap as Go's do, and MinInt/MaxInt are the seeds -1<<63 and 1<<63-1 of  *)
(* the narrower type.  A Go string is a sequence of bytes and < compares   *)
(* it byte by byte.                                                        *)
(***************************************************************************)
EXTENDS Integers, Sequences

CONSTANT IntWidth

ASSUME IntWidth \in Nat \ {0}

MinInt == -(2 ^ (IntWidth - 1))
MaxInt == 2 ^ (IntWidth - 1) - 1

\* Two's complement wrap-around of an int64 (IntWidth-bit) result.
Wrap(x) == ((x - MinInt) % (2 ^ IntWidth)) + MinInt

\* Go's integer division: the quotient truncated toward zero.
GoQuo(a, b) ==
  LET q == (IF a >= 0 THEN a ELSE -a) \div (IF b >= 0 THEN b ELSE -b)
  IN IF (a >= 0) = (b > 0) THEN q ELSE -q

\* A DBValue as a tagged record: IntField{Value} or StringField{Value},
\* the field of the other type at its zero value.
IntField(x) == [type |-> "int", int |-> x, str |-> <<>>]
StringField(s) == [type |-> "string", int |-> 0, str |-> s]

\* Go's s < t on strings: the first differing byte decides, a proper
\* prefix is smaller.
RECURSIVE StrLess(_, _)
StrLess(s, t) ==
  IF t = <<>> THEN FALSE
  ELSE IF s = <<>> THEN TRUE
  ELSE IF Head(s) # Head(t) THEN Head(s) < Head(t)
  ELSE StrLess(Tail(s), Tail(t))

(***************************************************************************)
(* COUNT: count++ whatever the expression gives.                          *)
(***************************************************************************)
CountInit == [count |-> 0]
CountAddTuple(st, x) == [st EXCEPT !.count = @ + 1]
CountFinalize(st) == IntField(st.count)

(***************************************************************************)
(* SUM: only an IntField adds, with int64 wrap-around.                    *)
(***************************************************************************)
SumInit == [sum |-> 0]
SumAddTuple(st, x) ==
  IF x.type = "int" THEN [st EXCEPT !.sum = Wrap(@ + x.int)] ELSE st
SumFinalize(st) == IntField(st.sum)

(***************************************************************************)
(* AVG: sum and count of the IntFields; Finalize is a.sum / a.count, a     *)
(* run-time panic (integer divide by zero) when count is 0.                *)
(***************************************************************************)
AvgInit == [sum |-> 0, count |-> 0]
AvgAddTuple(st, x) ==
  IF x.type = "int" THEN [st EXCEPT !.sum = Wrap(@ + x.int), !.count = @ + 1] ELSE st
AvgFinalize(st) ==
  IF st.count = 0 THEN "panic" ELSE IntField(GoQuo(st.sum, st.count))

(***************************************************************************)
(* MAX: seeded at the smallest int64, raised by a larger IntField.        *)
(***************************************************************************)
\* Mutant: the seed is the zero value of max instead of -1 << 63.
MaxInitZero == [max |-> 0]

MaxInit == [max |-> MinInt]
MaxAddTuple(st, x) ==
  IF x.type = "int" /\ x.int > st.max THEN [st EXCEPT !.max = x.int] ELSE st
MaxFinalize(st) == IntField(st.max)

(***************************************************************************)
(* MIN: the seed follows the expression's type, the field of the other    *)
(* type keeps its Go zero value; AddTuple switches on the value's type;   *)
(* Finalize returns the field of the expression's type.                   *)
(***************************************************************************)
MinStringSeed == [i \in 1..10 |-> 127]

MinInit(ftype) ==
  [ftype     |-> ftype,
   min       |-> IF ftype = "int" THEN MaxInt ELSE 0,
   minstring |-> IF ftype = "string" THEN MinStringSeed ELSE <<>>]
MinAddTuple(st, x) ==
  CASE x.type = "int" /\ x.int < st.min -> [st EXCEPT !.min = x.int]
    [] x.type = "string" /\ StrLess(x.str, st.minstring) -> [st EXCEPT !.minstring = x.str]
    [] OTHER -> st
MinFinalize(st) ==
  IF st.ftype = "int" THEN IntField(st.min) ELSE StringField(st.minstring)

=============================================================================
