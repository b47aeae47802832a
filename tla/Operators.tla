----------------------------- MODULE Operators -----------------------------
(***************************************************************************)
(* The pull-based operators of godb (limit_op.go, project_op.go,          *)
(* join_op.go, order_by_op.go) and the aggregation states driven over a   *)
(* child stream, one query at a time.  The child is a scan of a table     *)
(* that does not change during the query: a sequence of tuples            *)
(* [a |-> int64, b |-> string], pulled through the cursor pos.  The       *)
(* Iterator call of an operator is its Open action, each call of the      *)
(* returned function (or each turn of the loop inside it) a Pull action.  *)
(*                                                                         *)
(*   status  "new" before Iterator, "open", then "end" once the function  *)
(*           returned (nil, nil), "error" once Iterator or the function   *)
(*           returned an error                                            *)
(*   fail    the child's pull that returns an error (a failed page read), *)
(*           0 for none; chosen with the child                            *)
(*   out     the tuples the function has returned, in order               *)
(***************************************************************************)
EXTENDS TupleSchema, FiniteSets

LOCAL INSTANCE SequencesExt

CONSTANTS
  IntVals,       \* int64 values of column a
  StrVals,       \* strings (byte sequences) of column b
  MaxRows,       \* bound on the length of the child stream
  LimitArgs,     \* Int values of the limit expression of LimitOp
  SelectLists,   \* field lists of a Project
  OrderLists,    \* expression lists of an OrderBy
  Aliases,       \* table aliases of the FROM clause
  ResolveLists   \* field-type lists given to Tuple.project

\* sort.Sort is an insertion sort up to 6 elements in every Go release.
ASSUME MaxRows \in 0..6

Tuples == [a : IntVals, b : StrVals]
Inputs == UNION {[1..n -> Tuples] : n \in 0..MaxRows}
Fields == {"a", "b"}
Plans == {"limit", "project", "join", "orderby", "agg", "resolve", "store"}

\* A field expression evaluated on a tuple (FieldExpr.EvalExpr), and the
\* type GetExprType gives it.
EvalExpr(t, e) == IF e = "a" THEN IntField(t.a) ELSE StringField(t.b)
ExprType(e) == IF e = "a" THEN "int" ELSE "string"

\* The child's TupleDesc, and a child tuple as its field values.
TableDesc == <<FieldType("a", "", "int"), FieldType("b", "", "string")>>
Row(t) == <<IntField(t.a), StringField(t.b)>>

VARIABLES child, fail, plan, status, pos, out, lim, proj, jn, ob, agg, tc

vars == <<child, fail, plan, status, pos, out, lim, proj, jn, ob, agg, tc>>

ChildAtEnd == pos > Len(child)

\* The pull about to be made returns an error.
ChildFails == pos = fail

\* The operators whose pull functions the child's errors reach.
FaultPlans == {"limit", "project", "join"}

(***************************************************************************)
(* Parameters of each operator, chosen for the query that runs.           *)
(***************************************************************************)
LimitInit == [n |-> IntField(0), cur |-> 0]
ProjectInit == [fields |-> <<"a">>, distinct |-> FALSE, seen |-> {}]
JoinInit == [lf |-> "a", rf |-> "a", right |-> <<>>, left |-> <<>>, cur |-> 0]
OrderByInit == [exprs |-> <<"a">>, asc |-> <<TRUE>>, tuples |-> <<>>, idx |-> 0]
AggInit == [expr |-> "a", count |-> CountInit, sum |-> SumInit, avg |-> AvgInit,
            max |-> MaxInit, min |-> MinInit("int")]

TupleCallInit == [desc |-> <<>>, fields |-> <<>>, err |-> "none", buf |-> <<>>, n |-> 0]

\* The TupleDesc of a scan of the table under an alias, and of the join
\* of two such scans (the left's fields, then the right's).
ScanDescs == {TableDesc} \cup {SetTableAlias(TableDesc, x) : x \in Aliases}
ResolveDescs == ScanDescs \cup {Merge(l, r) : l, r \in ScanDescs \ {TableDesc}}

Params(p, choices, default) == IF plan = p THEN choices ELSE {default}

Init ==
  /\ plan \in Plans
  /\ child \in IF plan = "resolve" THEN {<<>>} ELSE Inputs
  /\ fail \in IF plan \in FaultPlans THEN 0..(Len(child) + 1) ELSE {0}
  /\ status = "new"
  /\ pos = 1
  /\ out = <<>>
  /\ IF plan = "limit"
     THEN \/ \E k \in LimitArgs : lim = [LimitInit EXCEPT !.n = IntField(k)]
          \/ lim = [LimitInit EXCEPT !.n = StringField(<<>>)]
     ELSE lim = LimitInit
  /\ proj \in Params("project", {[ProjectInit EXCEPT !.fields = f, !.distinct = d] :
                                   f \in SelectLists, d \in BOOLEAN}, ProjectInit)
  /\ jn \in Params("join", {[JoinInit EXCEPT !.lf = l, !.rf = r] : l, r \in Fields}, JoinInit)
  /\ ob \in Params("orderby", {[OrderByInit EXCEPT !.exprs = e, !.asc = a] :
                                 e \in OrderLists, a \in [1..2 -> BOOLEAN]}, OrderByInit)
  /\ agg \in Params("agg", {[AggInit EXCEPT !.expr = e] : e \in Fields}, AggInit)
  /\ tc \in Params("resolve", {[TupleCallInit EXCEPT !.desc = d, !.fields = f] :
                                 d \in ResolveDescs, f \in ResolveLists}, TupleCallInit)

Return(t) == out' = Append(out, t)

\* Mutant: the child's error is taken as the end of the stream.
OnChildErrorEnd == status' = "end" /\ UNCHANGED out

\* if err != nil { return nil, err }
OnChildError == status' = "error" /\ UNCHANGED out
EndOfStream == status' = "end" /\ UNCHANGED out

(***************************************************************************)
(* LimitOp                                                                *)
(***************************************************************************)
\* Mutant: Iterator does not check the type of the limit.
LimitOpenUnchecked ==
  /\ plan = "limit" /\ status = "new"
  /\ status' = "open"
  /\ UNCHANGED <<child, fail, plan, pos, out, lim, proj, jn, ob, agg, tc>>

\* Iterator: the limit expression must evaluate to an IntField.
LimitOpen ==
  /\ plan = "limit" /\ status = "new"
  /\ status' = IF lim.n.type = "int" THEN "open" ELSE "error"
  /\ UNCHANGED <<child, fail, plan, pos, out, lim, proj, jn, ob, agg, tc>>

\* Mutant: the limit test lets one tuple too many through.
LimitReachedLate == lim.cur > lim.n.int

\* currentNum >= int(num.(IntField).Value)
LimitReached == lim.cur >= lim.n.int

\* The pull function: end once the limit is reached, else the child's next.
LimitPull ==
  /\ plan = "limit" /\ status = "open"
  /\ \/ /\ LimitReached
        /\ EndOfStream /\ UNCHANGED <<pos, lim>>
     \/ /\ ~LimitReached /\ ChildFails
        /\ OnChildError /\ UNCHANGED <<pos, lim>>
     \/ /\ ~LimitReached /\ ~ChildFails /\ ChildAtEnd
        /\ EndOfStream /\ UNCHANGED <<pos, lim>>
     \/ /\ ~LimitReached /\ ~ChildFails /\ ~ChildAtEnd
        /\ Return(child[pos])
        /\ pos' = pos + 1
        /\ lim' = [lim EXCEPT !.cur = @ + 1]
        /\ UNCHANGED status
  /\ UNCHANGED <<child, fail, plan, proj, jn, ob, agg, tc>>

(***************************************************************************)
(* Project                                                                *)
(***************************************************************************)
\* The projected tuple: the select expressions evaluated on t.
Projected(t) == [i \in 1..Len(proj.fields) |-> EvalExpr(t, proj.fields[i])]

\* Mutant: the key of an emitted tuple is never entered in seenTuples.
RememberNothing(p, k) == p

\* With distinct, the key of the tuple about to be returned is recorded.
Remember(p, k) == IF p.distinct THEN [p EXCEPT !.seen = @ \cup {k}] ELSE p

\* One turn of the pull function's loop: end of child, a duplicate
\* skipped (continue), or the projected tuple returned.
ProjectPull ==
  /\ plan = "project" /\ status = "open"
  /\ \/ /\ ChildFails
        /\ OnChildError /\ UNCHANGED <<pos, proj>>
     \/ /\ ~ChildFails /\ ChildAtEnd
        /\ EndOfStream /\ UNCHANGED <<pos, proj>>
     \/ /\ ~ChildFails /\ ~ChildAtEnd
        /\ pos' = pos + 1
        /\ LET pt == Projected(child[pos])
               k  == TupleKey(pt)
           IN \/ /\ proj.distinct /\ k \in proj.seen
                 /\ UNCHANGED <<out, proj>>
              \/ /\ ~(proj.distinct /\ k \in proj.seen)
                 /\ Return(pt)
                 /\ proj' = Remember(proj, k)
        /\ UNCHANGED status
  /\ UNCHANGED <<child, fail, plan, lim, jn, ob, agg, tc>>

\* Iterator: the child's iterator and an empty seenTuples.
ProjectOpen ==
  /\ plan = "project" /\ status = "new"
  /\ status' = "open"
  /\ UNCHANGED <<child, fail, plan, pos, out, lim, proj, jn, ob, agg, tc>>

(***************************************************************************)
(* EqualityJoin                                                           *)
(***************************************************************************)
\* Iterator: the left and right iterators, then the right child read
\* into rightTuples (a second scan of the same table: a self-join).
JoinOpen ==
  /\ plan = "join" /\ status = "new"
  /\ jn' = [jn EXCEPT !.right = child]
  /\ status' = "open"
  /\ UNCHANGED <<child, fail, plan, pos, out, lim, proj, ob, agg, tc>>

\* leftValue == rightValue on two DBValue interfaces: same type and value.
JoinMatch(l, r) == EvalExpr(l, jn.lf) = EvalExpr(r, jn.rf)

\* joinTuples: the fields of l followed by the fields of r.
JoinTuples(l, r) == <<l, r>>

\* Mutant: a new left tuple keeps curRightIndex where the last one ended.
NewLeftKeepIndex(j, t) == [j EXCEPT !.left = t]

\* A new left tuple, and the right buffer from its start.
NewLeft(j, t) == [j EXCEPT !.left = t, !.cur = 0]

\* One turn of the pull function's loop: fetch a left tuple, test the next
\* right tuple (returning the joined tuple on a match), or drop the left
\* tuple once the right buffer is exhausted.  No left tuple is <<>>.
JoinPull ==
  /\ plan = "join" /\ status = "open"
  /\ \/ /\ jn.left = <<>> /\ ChildFails
        /\ OnChildError /\ UNCHANGED <<pos, jn>>
     \/ /\ jn.left = <<>> /\ ~ChildFails /\ ChildAtEnd
        /\ EndOfStream /\ UNCHANGED <<pos, jn>>
     \/ /\ jn.left = <<>> /\ ~ChildFails /\ ~ChildAtEnd
        /\ jn' = NewLeft(jn, child[pos])
        /\ pos' = pos + 1
        /\ UNCHANGED <<status, out>>
     \/ /\ jn.left # <<>> /\ jn.cur < Len(jn.right)
        /\ jn' = [jn EXCEPT !.cur = @ + 1]
        /\ IF JoinMatch(jn.left, jn.right[jn.cur + 1])
           THEN Return(JoinTuples(jn.left, jn.right[jn.cur + 1]))
           ELSE UNCHANGED out
        /\ UNCHANGED <<status, pos>>
     \/ /\ jn.left # <<>> /\ jn.cur >= Len(jn.right)
        /\ jn' = [jn EXCEPT !.left = <<>>]
        /\ UNCHANGED <<status, pos, out>>
  /\ UNCHANGED <<child, fail, plan, lim, proj, ob, agg, tc>>

(***************************************************************************)
(* OrderBy                                                                *)
(***************************************************************************)
\* compareIntFields / compareStringFields: -1, 0 or 1.
Compare(x, y) ==
  IF x.type = "int"
  THEN IF x.int < y.int THEN -1 ELSE IF x.int > y.int THEN 1 ELSE 0
  ELSE IF StrLess(x.str, y.str) THEN -1 ELSE IF StrLess(y.str, x.str) THEN 1 ELSE 0

Cmp(t, u, k) == Compare(EvalExpr(t, ob.exprs[k]), EvalExpr(u, ob.exprs[k]))

\* Mutant: the comparison stops after the first expression.
LessFirstKeyOnly(t, u) ==
  LET c == Cmp(t, u, 1)
  IN IF c < 0 THEN ob.asc[1] ELSE IF c > 0 THEN ~ob.asc[1] ELSE FALSE

\* orderByProcessor.Less from expression k on: the first unequal
\* expression decides by its ascending flag; all equal is not less.
RECURSIVE LessFrom(_, _, _)
LessFrom(t, u, k) ==
  IF k > Len(ob.exprs) THEN FALSE
  ELSE LET c == Cmp(t, u, k)
       IN IF c < 0 THEN ob.asc[k] ELSE IF c > 0 THEN ~ob.asc[k] ELSE LessFrom(t, u, k + 1)

Less(t, u) == LessFrom(t, u, 1)

\* sort.Sort on at most 6 elements, Go's insertionSort: for each i from the
\* second on, swap it down while Less(data[j], data[j-1]).
RECURSIVE SiftDown(_, _)
SiftDown(s, j) ==
  IF j > 1 /\ Less(s[j], s[j - 1])
  THEN SiftDown([s EXCEPT ![j] = s[j - 1], ![j - 1] = s[j]], j - 1)
  ELSE s
RECURSIVE InsertionSortFrom(_, _)
InsertionSortFrom(s, i) == IF i > Len(s) THEN s ELSE InsertionSortFrom(SiftDown(s, i), i + 1)
SortTuples(s) == InsertionSortFrom(s, 2)

\* Iterator: pull every child tuple into tuples, then sortTuples.
OrderByOpen ==
  /\ plan = "orderby" /\ status = "new"
  /\ ob' = [ob EXCEPT !.tuples = SortTuples(child)]
  /\ pos' = Len(child) + 1
  /\ status' = "open"
  /\ UNCHANGED <<child, fail, plan, out, lim, proj, jn, agg, tc>>

\* iterateFunc: the next sorted tuple, or end.
OrderByPull ==
  /\ plan = "orderby" /\ status = "open"
  /\ \/ /\ ob.idx >= Len(ob.tuples)
        /\ EndOfStream /\ UNCHANGED ob
     \/ /\ ob.idx < Len(ob.tuples)
        /\ Return(ob.tuples[ob.idx + 1])
        /\ ob' = [ob EXCEPT !.idx = @ + 1]
        /\ UNCHANGED status
  /\ UNCHANGED <<child, fail, plan, pos, lim, proj, jn, agg, tc>>

(***************************************************************************)
(* The aggregation states over the child: Init on each state with the     *)
(* query's expression, AddTuple per child tuple, Finalize at the end.     *)
(***************************************************************************)
AggOpen ==
  /\ plan = "agg" /\ status = "new"
  /\ agg' = [agg EXCEPT !.count = CountInit, !.sum = SumInit, !.avg = AvgInit,
                        !.max = MaxInit, !.min = MinInit(ExprType(agg.expr))]
  /\ status' = "open"
  /\ UNCHANGED <<child, fail, plan, pos, out, lim, proj, jn, ob, tc>>

AggPull ==
  /\ plan = "agg" /\ status = "open"
  /\ \/ /\ ChildAtEnd
        /\ EndOfStream /\ UNCHANGED <<pos, agg>>
     \/ /\ ~ChildAtEnd
        /\ LET x == EvalExpr(child[pos], agg.expr)
           IN agg' = [agg EXCEPT !.count = CountAddTuple(@, x), !.sum = SumAddTuple(@, x),
                                 !.avg = AvgAddTuple(@, x), !.max = MaxAddTuple(@, x),
                                 !.min = MinAddTuple(@, x)]
        /\ pos' = pos + 1
        /\ UNCHANGED <<status, out>>
  /\ UNCHANGED <<child, fail, plan, lim, proj, jn, ob, tc>>

(***************************************************************************)
(* The Tuple methods under a query: project, as FieldExpr.EvalExpr calls  *)
(* it on a tuple of the join of aliased scans (tuple.go:309), and the     *)
(* page image: toBuffer's writeTo of every used slot, then the loop of    *)
(* initFromBuffer that reads them back with readTupleFrom.                *)
(***************************************************************************)
\* A tuple of descriptor d whose i-th field holds a value no other does.
Tagged(d) == [i \in DOMAIN d |-> IF d[i].ftype = "int" THEN IntField(i) ELSE StringField(<<i>>)]

\* t.project(fields): the projected tuple, or the error of findFieldInTd.
ResolveCall ==
  /\ plan = "resolve" /\ status = "new"
  /\ LET r == ProjectTuple(Tagged(tc.desc), tc.desc, tc.fields)
     IN \/ /\ r.ok
           /\ status' = "end" /\ Return(r.vals) /\ UNCHANGED tc
        \/ /\ ~r.ok
           /\ status' = "error" /\ tc' = [tc EXCEPT !.err = r.err] /\ UNCHANGED out
  /\ UNCHANGED <<child, fail, plan, pos, lim, proj, jn, ob, agg>>

\* toBuffer: the child tuples written one after another.
StoreOpen ==
  /\ plan = "store" /\ status = "new"
  /\ tc' = [tc EXCEPT !.buf = FlattenSeq([i \in DOMAIN child |-> WriteTo(Row(child[i]))])]
  /\ status' = "open"
  /\ UNCHANGED <<child, fail, plan, pos, out, lim, proj, jn, ob, agg>>

\* One turn of initFromBuffer's loop over the used slots: readTupleFrom
\* on what is left of the buffer; a failed read fails the page.
StorePull ==
  /\ plan = "store" /\ status = "open"
  /\ \/ /\ tc.n >= Len(child)
        /\ EndOfStream /\ UNCHANGED tc
     \/ /\ tc.n < Len(child)
        /\ LET r == ReadTupleFrom(tc.buf, TableDesc)
           IN /\ status' = IF r.ok THEN "open" ELSE "error"
              /\ out' = IF r.ok THEN Append(out, [a |-> r.vals[1].int, b |-> r.vals[2].str])
                        ELSE out
              /\ tc' = [tc EXCEPT !.buf = r.rest, !.n = @ + 1]
  /\ UNCHANGED <<child, fail, plan, pos, lim, proj, jn, ob, agg>>

Next ==
  \/ ResolveCall \/ StoreOpen \/ StorePull
  \/ LimitOpen \/ LimitPull
  \/ ProjectOpen \/ ProjectPull
  \/ JoinOpen \/ JoinPull
  \/ OrderByOpen \/ OrderByPull
  \/ AggOpen \/ AggPull

Spec == Init /\ [][Next]_vars

(***************************************************************************)
(* Reference definitions, from spec.md 4.5, 4.6 and 8.                    *)
(***************************************************************************)
\* The child tuples, projected, with every tuple whose serialised form was
\* already emitted left out when distinct.
ProjectRef ==
  LET ps   == [i \in 1..Len(child) |-> Projected(child[i])]
      keep == {i \in DOMAIN ps : ~proj.distinct \/
                                 \A j \in 1..(i - 1) : TupleKey(ps[j]) # TupleKey(ps[i])}
      idx  == SetToSortSeq(keep, <)
  IN [k \in DOMAIN idx |-> ps[idx[k]]]

\* Left-major: for each left tuple, the right tuples with an equal key.
JoinRef ==
  FlattenSeq([i \in 1..Len(child) |->
    LET m == SelectSeq(child, LAMBDA r : JoinMatch(child[i], r))
    IN [k \in DOMAIN m |-> JoinTuples(child[i], m[k])]])

\* t sorts before u: at the first expression where they differ, the smaller
\* first if ascending; ties keep the input order.
KeyBefore(t, u) ==
  \E k \in 1..Len(ob.exprs) :
    /\ \A m \in 1..(k - 1) : Cmp(t, u, m) = 0
    /\ Cmp(t, u, k) # 0
    /\ (Cmp(t, u, k) < 0) = ob.asc[k]
StableOrder ==
  LET n       == Len(child)
      Rank(i) == Cardinality({j \in 1..n : \/ KeyBefore(child[j], child[i])
                                           \/ j < i /\ ~KeyBefore(child[i], child[j])})
  IN [k \in 1..n |-> child[CHOOSE i \in 1..n : Rank(i) = k - 1]]

\* The Int values the aggregate expression takes over the child.
AggInts ==
  LET xs == [i \in 1..Len(child) |-> EvalExpr(child[i], agg.expr)]
      is == SelectSeq(xs, LAMBDA x : x.type = "int")
  IN [i \in DOMAIN is |-> is[i].int]

\* spec.md 3, findField: the single index whose name matches and whose
\* type matches or is Unknown; Ambiguous for an unqualified query with
\* several candidates; Incompatible with none; a candidate with the
\* query's qualifier wins (spec.md 9 leaves the rest open: any candidate).
SpecResolve(field, d) ==
  LET C == {i \in DOMAIN d : d[i].fname = field.fname
                             /\ (d[i].ftype = field.ftype \/ field.ftype = "unknown")}
      Q == {i \in C : d[i].qual = field.qual}
  IN IF C = {} THEN {Failed("IncompatibleTypes")}
     ELSE IF field.qual = "" /\ Cardinality(C) > 1 THEN {Failed("AmbiguousName")}
     ELSE {Found(i) : i \in IF Q # {} THEN Q ELSE C}

\* spec.md 3: a string is cut to StringLength bytes on write and its
\* trailing zero bytes are trimmed on read; an int64 is kept.
StoredString(s) ==
  LET c == IF Len(s) > StringLength THEN SubSeq(s, 1, StringLength) ELSE s
      k == Max({j \in 0..Len(c) : j = 0 \/ c[j] # 0})
  IN SubSeq(c, 1, k)
StoredRows == [i \in DOMAIN child |-> [child[i] EXCEPT !.b = StoredString(@)]]

(***************************************************************************)
(* Properties.                                                            *)
(***************************************************************************)
TypeOK ==
  /\ child \in Inputs
  /\ plan \in Plans
  /\ status \in {"new", "open", "end", "error"}
  /\ pos \in 1..(MaxRows + 1)
  /\ fail \in 0..(MaxRows + 1)
  /\ lim.cur \in 0..MaxRows
  /\ plan = "limit" /\ status = "open" => lim.n.type = "int"

(* spec.md 8: Limit(N) yields the first min(N, |child|) child tuples: the  *)
(* pull function stops at currentNum = N without pulling further.         *)
LimitYieldsFirstN ==
  plan = "limit" =>
    /\ IsPrefix(out, child)
    /\ status = "end" => Len(out) = Min({lim.n.int, Len(child)})

(* spec.md 4.5: Project yields the projected child tuples in order and,   *)
(* with distinct, each serialised form once (seenTuples across calls).    *)
ProjectYieldsFirstOccurrences ==
  plan = "project" =>
    /\ IsPrefix(out, ProjectRef)
    /\ status = "end" => out = ProjectRef

(* spec.md 4.5: the join yields every matching pair, left-major, right    *)
(* order preserved within a left tuple (curRightIndex reset per left).    *)
JoinYieldsLeftMajorMatches ==
  plan = "join" =>
    /\ IsPrefix(out, JoinRef)
    /\ status = "end" => out = JoinRef

(* Limit, Project and Join return their child's error (limit_op.go,     *)
(* project_op.go, join_op.go: if err != nil { return nil, err }): once    *)
(* the pull that fails has been made, the stream never reports its end,   *)
(* so a caller cannot take the tuples before the error for the whole      *)
(* result.  Only a Limit that reached N ends without making that pull.    *)
ChildErrorsPropagate ==
  plan \in FaultPlans /\ fail > 0 /\ status = "end" =>
    \/ pos < fail
    \/ plan = "limit" /\ LimitReached

(* spec.md 4.5 and 8: OrderBy yields a permutation of its input, ordered  *)
(* lexicographically by the expressions with their ascending flags, ties  *)
(* in input order, as sort.Sort over orderByProcessor.Less leaves it.     *)
OrderByIsStableSort ==
  plan = "orderby" /\ status # "new" =>
    /\ ob.tuples = StableOrder
    /\ IsPrefix(out, StableOrder)
    /\ status = "end" => out = StableOrder

(* spec.md 4.6: after the last AddTuple, COUNT is the number of tuples,   *)
(* SUM the int64 sum of the Int values, and AVG, MAX and MIN over Int     *)
(* their int64 mean, largest and smallest, whatever the order of input;   *)
(* MIN over String, from its seed, the lexicographically smallest value.  *)
AggregatesAgreeWithFolds ==
  plan = "agg" /\ status = "end" =>
    LET total == Wrap(FoldLeft(LAMBDA x, y : x + y, 0, AggInts))
    IN /\ CountFinalize(agg.count) = IntField(Len(child))
       /\ SumFinalize(agg.sum) = IntField(total)
       /\ AggInts # <<>> =>
            /\ AvgFinalize(agg.avg) = IntField(GoQuo(total, Len(AggInts)))
            /\ MaxFinalize(agg.max) = IntField(Max(ToSet(AggInts)))
            /\ MinFinalize(agg.min) = IntField(Min(ToSet(AggInts)))
       /\ ExprType(agg.expr) = "string" /\ child # <<>> =>
            LET strs == {child[i].b : i \in DOMAIN child}
            IN MinFinalize(agg.min) = StringField(CHOOSE s \in strs : \A t \in strs : ~StrLess(t, s))

(* spec.md 4.1 and 3: project resolves every target field by findField   *)
(* and copies that field's value, or fails with the error of the first    *)
(* target that does not resolve.  findFieldInTd's best/-1 bookkeeping     *)
(* over the join of two aliased scans is what decides it.                 *)
ProjectResolvesAsSpecified ==
  plan = "resolve" /\ status # "new" =>
    LET S(i) == SpecResolve(tc.fields[i], tc.desc)
        bad  == {i \in DOMAIN tc.fields : \E r \in S(i) : ~r.ok}
    IN IF bad = {}
       THEN /\ status = "end"
            /\ \A i \in DOMAIN tc.fields : \E r \in S(i) : out[1][i] = Tagged(tc.desc)[r.idx]
       ELSE status = "error" /\ Failed(tc.err) \in S(Min(bad))

(* spec.md 8: deserialize(serialize(t)) = t modulo string trailing-zero   *)
(* trimming: the tuples initFromBuffer reads back from the bytes toBuffer *)
(* wrote are the child's, each in its stored form, in slot order.         *)
StoredTuplesReadBack ==
  plan = "store" =>
    /\ status # "error"
    /\ IsPrefix(out, StoredRows)
    /\ status = "end" => out = StoredRows

=============================================================================
