----------------------------- MODULE CsvLoader -----------------------------
(***************************************************************************)
(* HeapFile.LoadFromCSV (heap_file.go) over the heap file of QueryOps.    *)
(* A CSV file is its lines, as bufio.Scanner hands them over (line ends   *)
(* removed), each a byte sequence; the file's TupleDesc is Desc.  Each    *)
(* line is one LoadLine step: strings.Split on Sep, the arity check, the  *)
(* header skip, the parse of every field, then insertTuple, whose error   *)
(* is dropped; LoadFlush is the FlushAllPages that follows.  Statements   *)
(* and the heap file's other callers run only while no load is running.  *)
(*                                                                         *)
(*   ld  the running load: the file, cnt lines scanned, phase, before     *)
(*       (the tuples on disk when it was called, a history variable) and  *)
(*       err, what the last load returned ("none" after any other call)   *)
(***************************************************************************)
EXTENDS QueryOps, TupleSchema

LOCAL INSTANCE SequencesExt

CONSTANTS
  Desc,      \* the heap file's TupleDesc
  Sep,       \* the separator, one byte
  CSVFiles   \* the files loaded: [lines, hasHeader, skipLastField]

VARIABLE ld

lvars == <<vars, qvars, ld>>

LoadIdle == [running |-> FALSE, file |-> <<>>, cnt |-> 0, phase |-> "line",
             before |-> <<>>, err |-> "none"]

(***************************************************************************)
(* Parsing a line.                                                        *)
(***************************************************************************)
\* strings.Split(line, sep): the pieces between separators, at least one.
RECURSIVE Split(_, _)
Split(s, sep) ==
  LET k == SelectInSeq(s, LAMBDA b : b = sep)
  IN IF k = 0 THEN <<s>> ELSE <<SubSeq(s, 1, k - 1)>> \o Split(SubSeq(s, k + 1, Len(s)), sep)

SplitLine(line, f) ==
  LET fields == Split(line, Sep)
  IN IF f.skipLastField THEN SubSeq(fields, 1, Len(fields) - 1) ELSE fields

\* strings.TrimSpace: ASCII white space removed at both ends.
Space == {9, 10, 11, 12, 13, 32}
RECURSIVE TrimSpace(_)
TrimSpace(s) ==
  IF s # <<>> /\ s[1] \in Space THEN TrimSpace(Tail(s))
  ELSE IF s # <<>> /\ Last(s) \in Space THEN TrimSpace(Front(s))
  ELSE s

IsDigits(s) == \A i \in DOMAIN s : s[i] \in 48..57
DigitsValue(s) == FoldLeft(LAMBDA acc, d : 10 * acc + d - 48, 0, s)

\* int(strconv.ParseFloat(s, 64)) for a signed decimal with an optional
\* fraction: the conversion truncates toward zero, leaving the integer
\* part with its sign.  Exponents, inf and hex floats are not among the
\* fields of CSVFiles.
ParseInt(s) ==
  LET signed == s # <<>> /\ s[1] \in {43, 45}
      body   == IF signed THEN Tail(s) ELSE s
      dot    == SelectInSeq(body, LAMBDA b : b = 46)
      ip     == IF dot = 0 THEN body ELSE SubSeq(body, 1, dot - 1)
      fp     == IF dot = 0 THEN <<>> ELSE SubSeq(body, dot + 1, Len(body))
      mag    == DigitsValue(ip)
  IN [ok  |-> IsDigits(ip) /\ IsDigits(fp) /\ Len(ip) + Len(fp) > 0,
      val |-> IF signed /\ s[1] = 45 THEN -mag ELSE mag]

\* One field by the type of its column: an IntField, or a StringField cut
\* to StringLength bytes.
ParseField(field, ftype) ==
  IF ftype = "int"
  THEN LET r == ParseInt(TrimSpace(field)) IN [ok |-> r.ok, val |-> IntField(r.val)]
  ELSE [ok |-> TRUE, val |-> StringField(IF Len(field) > StringLength
                                         THEN SubSeq(field, 1, StringLength) ELSE field)]

Parsed(fields) == [i \in DOMAIN fields |-> ParseField(fields[i], Desc[i].ftype)]

\* Mutant: every line of a file with a header is skipped.
HeaderLineAny(cnt, f) == f.hasHeader

\* cnt == 1 && hasHeader: the first line is the header.
HeaderLine(cnt, f) == cnt = 1 /\ f.hasHeader

(***************************************************************************)
(* The load.                                                              *)
(***************************************************************************)
\* Called with no transaction's page dirty in the pool, as computeFieldSum
\* and the tests call it, and with room in the file for the page the load
\* may append (each file has at most SlotNum data lines).
LoadCall ==
  /\ Idle /\ ~ld.running
  /\ DirtyCached = {} /\ pageCount < MaxPages
  /\ \E f \in CSVFiles :
       ld' = [LoadIdle EXCEPT !.running = TRUE, !.file = f, !.before = ToBag(DurableSeq)]
  /\ UNCHANGED <<vars, qvars>>

Finish(e) == ld' = [LoadIdle EXCEPT !.err = e]

\* One turn of the scanner loop: end of file, or the next line.
LoadLine ==
  /\ ld.running /\ ld.phase = "line"
  /\ \/ /\ ld.cnt >= Len(ld.file.lines)
        /\ Finish("nil") /\ UNCHANGED vars
     \/ /\ ld.cnt < Len(ld.file.lines)
        /\ LET k      == ld.cnt + 1
               fields == SplitLine(ld.file.lines[k], ld.file)
               p      == Parsed(fields)
           IN \/ /\ Len(fields) # Len(Desc)
                 /\ Finish("MalformedData") /\ UNCHANGED vars
              \/ /\ Len(fields) = Len(Desc) /\ HeaderLine(k, ld.file)
                 /\ ld' = [ld EXCEPT !.cnt = k] /\ UNCHANGED vars
              \/ /\ Len(fields) = Len(Desc) /\ ~HeaderLine(k, ld.file)
                 /\ \E i \in DOMAIN p : ~p[i].ok
                 /\ Finish("TypeMismatch") /\ UNCHANGED vars
              \/ /\ Len(fields) = Len(Desc) /\ ~HeaderLine(k, ld.file)
                 /\ \A i \in DOMAIN p : p[i].ok
                 /\ Insert([i \in DOMAIN p |-> p[i].val])
                 /\ ld' = [ld EXCEPT !.cnt = k, !.phase = "flush"]
  /\ UNCHANGED qvars

\* bp.FlushAllPages() after the line's insertTuple.
LoadFlush ==
  /\ ld.running /\ ld.phase = "flush"
  /\ FlushAllPages
  /\ ld' = [ld EXCEPT !.phase = "line"]
  /\ UNCHANGED qvars

LNext ==
  \/ ~ld.running /\ QNext /\ ld' = LoadIdle
  \/ LoadCall \/ LoadLine \/ LoadFlush

LInit == QInit /\ ld = LoadIdle

LSpec == LInit /\ [][LNext]_lvars

(***************************************************************************)
(* Reference, from spec.md 6: each line of CSVFiles carries the meaning   *)
(* the spec gives it, a row or the error it fails with.                   *)
(***************************************************************************)
\* What the load of f returns and the rows it adds: the header is skipped;
\* data lines up to the first that fails.
RefLoad(f) ==
  LET data == IF f.hasHeader THEN Tail(f.meanings) ELSE f.meanings
      bad  == {i \in DOMAIN data : data[i].kind # "row"}
      n    == IF bad = {} THEN Len(data) ELSE Min(bad) - 1
  IN [err  |-> IF bad = {} THEN "nil" ELSE data[n + 1].kind,
      rows |-> [i \in 1..n |-> data[i].row]]

(* spec.md 6: every data line a load inserts is the row the spec parses  *)
(* it to (Int fields trimmed and truncated toward zero, String fields cut *)
(* to StringLength, the last field dropped with skipLastField), and the   *)
(* load returns the error of its first bad data line, the header skipped, *)
(* or nil: MalformedData for a line whose field count does not match the  *)
(* TupleDesc, TypeMismatch for an Int field that is no decimal.           *)
LoadFollowsSpec ==
  [][/\ ld.phase = "line" /\ ld'.phase = "flush" =>
          result'.val = ld.file.meanings[ld'.cnt].row
     /\ ld.running /\ ~ld'.running => ld'.err = RefLoad(ld.file).err]_lvars

(* The comment before FlushAllPages in LoadFromCSV: every data line before *)
(* the one that ends the load is on disk when it returns, each parsed as   *)
(* spec.md 6 says (ints truncated toward zero, strings cut to             *)
(* StringLength).                                                          *)
LoadedLinesDurable ==
  [][ld.running /\ ~ld'.running =>
       ToBag(DurableSeq') = ld.before (+) ToBag(RefLoad(ld.file).rows)]_lvars

=============================================================================
