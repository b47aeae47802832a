----------------------------- MODULE FieldSum ------------------------------
(***************************************************************************)
(* computeFieldSum (lab1_query.go) over the heap file and loader of       *)
(* CsvLoader.  A call opens ./test1.dat with NewHeapFile over a pool of   *)
(* its own (Restart: the file's pages re-read from disk), runs            *)
(* LoadFromCSV(f, true, ",", false) through CsvLoader's LoadLine and      *)
(* LoadFlush, looks the field up in the TupleDesc, and sums it over       *)
(* HeapFile.Iterator, one FieldSumStep per pull.  Other callers wait      *)
(* while it runs.                                                         *)
(*                                                                         *)
(*   fs  the running call: phase, the field asked for, the scan cursor    *)
(*       [page, slot], fieldIndex, sum; file and fresh (test1.dat was     *)
(*       empty at the call) are history; err and val are what the last    *)
(*       call returned ("none" and 0 after any other call)                *)
(***************************************************************************)
EXTENDS CsvLoader

LOCAL INSTANCE SequencesExt

CONSTANT SumFields   \* the sumField names a caller passes

VARIABLE fs

fvars == <<lvars, fs>>

SumIdle == [running |-> FALSE, phase |-> "load", field |-> "", file |-> <<>>,
            fresh |-> FALSE, page |-> 0, slot |-> 0, idx |-> 0, sum |-> 0,
            err |-> "none", val |-> 0]

\* field.(IntField).Value of a scanned tuple; the all-zero tuple toBuffer
\* writes for a deleted slot reads back with 0 in its Int fields.
FieldInt(t, i) == IF t = Zero THEN 0 ELSE t[i].int

\* The for loop over td.Fields: the first field named sumField.
Named(name) == {i \in DOMAIN Desc : Desc[i].fname = name}

\* Mutant: the field's type is not checked.
IsIntFieldAny(i) == TRUE

\* field.Ftype == IntType.
IsIntField(i) == Desc[i].ftype = "int"

SumReturn(e, v) == fs' = [SumIdle EXCEPT !.err = e, !.val = v]

\* The call, up to LoadFromCSV: a new pool and NewHeapFile("./test1.dat"),
\* then the load of f, which has a header and a comma separator.  The
\* file may grow by a page in the load (MaxPages bounds it).
FieldSumCall ==
  /\ Idle /\ ~ld.running /\ ~fs.running
  /\ fileLen < MaxPages
  /\ Restart
  /\ \E f \in {g \in CSVFiles : g.hasHeader /\ ~g.skipLastField}, name \in SumFields :
       /\ ld' = [LoadIdle EXCEPT !.running = TRUE, !.file = f, !.before = ToBag(DurableSeq)]
       /\ fs' = [SumIdle EXCEPT !.running = TRUE, !.field = name, !.file = f,
                                !.fresh = (fileLen = 0)]
  /\ returned' = NoneReturned
  /\ UNCHANGED <<iop, dop>>

\* After LoadFromCSV returned: its error, or the field lookup and the
\* Iterator call.
FieldSumLoaded ==
  /\ fs.running /\ fs.phase = "load" /\ ~ld.running
  /\ \/ ld.err # "nil" /\ SumReturn(ld.err, 0)
     \/ ld.err = "nil" /\ Named(fs.field) = {} /\ SumReturn("NotFound", 0)
     \/ /\ ld.err = "nil" /\ Named(fs.field) # {}
        /\ LET i == Min(Named(fs.field))
           IN IF IsIntField(i) THEN fs' = [fs EXCEPT !.phase = "scan", !.idx = i]
              ELSE SumReturn("NotInt", 0)
  /\ UNCHANGED lvars

\* One turn of the sum loop: a pull of the scan; nil ends the loop.
FieldSumStep ==
  /\ fs.running /\ fs.phase = "scan"
  /\ \/ ScanAtEnd(fs) /\ SumReturn("nil", fs.sum)
     \/ ScanPageDone(fs) /\ fs' = ScanNextPage(fs)
     \/ /\ ~ScanAtEnd(fs) /\ ~ScanPageDone(fs)
        /\ ScanTuple(fs) = Nil
        /\ SumReturn("nil", fs.sum)
     \/ /\ ~ScanAtEnd(fs) /\ ~ScanPageDone(fs)
        /\ ScanTuple(fs) # Nil
        /\ fs' = [fs EXCEPT !.slot = @ + 1,
                            !.sum = Wrap(@ + FieldInt(ScanTuple(fs), fs.idx))]
  /\ UNCHANGED lvars

FNext ==
  \/ ~fs.running /\ LNext /\ fs' = SumIdle
  \/ fs.running /\ (LoadLine \/ LoadFlush) /\ UNCHANGED fs
  \/ FieldSumCall \/ FieldSumLoaded \/ FieldSumStep

FInit == LInit /\ fs = SumIdle

\* The steps a running call takes in its caller's goroutine, which the Go
\* scheduler runs: the statements' loops and computeFieldSum's steps
\* after its load.  LoadFromCSV's steps get none; its loop is bounded by
\* the file's lines and its return is not stated.
StatementStep ==
  /\ ~fs.running /\ ~ld.running /\ ld' = LoadIdle /\ fs' = SumIdle
  /\ (InsertOpStep \/ InsertOpReturn \/ DeleteOpStep)

SumStep == FieldSumLoaded \/ FieldSumStep

FSpec == FInit /\ [][FNext]_fvars /\ WF_fvars(StatementStep) /\ WF_fvars(SumStep)

(***************************************************************************)
(* Properties.                                                             *)
(***************************************************************************)
\* The sum spec.md 8 scenario 2 computes: the int64 sum of the column.
RefSum(rows, i) == Wrap(FoldLeft(LAMBDA acc, r : acc + r[i].int, 0, rows))

(* The comment on computeFieldSum (lab1_query.go): it returns the error   *)
(* of the load, an error when no field is named sumField or the field is  *)
(* not an integer, and otherwise the sum of the field; on a test1.dat     *)
(* that was empty at the call, the sum of the CSV's rows as spec.md 6     *)
(* parses them.                                                           *)
FieldSumFollowsSpec ==
  [][fs.running /\ ~fs'.running =>
       LET ref   == RefLoad(fs.file)
           ints  == {i \in DOMAIN Desc : Desc[i].fname = fs.field /\ Desc[i].ftype = "int"}
           exist == \E i \in DOMAIN Desc : Desc[i].fname = fs.field
       IN /\ fs'.err = CASE ref.err # "nil" -> ref.err
                         [] ~exist        -> "NotFound"
                         [] ints = {}     -> "NotInt"
                         [] OTHER         -> "nil"
          /\ fs'.err = "nil" /\ fs.fresh =>
               \E i \in ints : fs'.val = RefSum(ref.rows, i)]_fvars

(* Every loop over a scan of the table, run in its caller's goroutine,  *)
(* returns: the Insert and Delete functions, DeleteOp scanning the table  *)
(* it deletes from (the scan re-reads NumPages and UsedSlotsNum on every  *)
(* pull), and computeFieldSum's sum over the file it has just loaded.     *)
CallsReturn ==
  /\ iop.running ~> ~iop.running
  /\ dop.running ~> ~dop.running
  /\ fs.running /\ fs.phase = "scan" ~> ~fs.running

=============================================================================
