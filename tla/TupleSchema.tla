---------------------------- MODULE TupleSchema ----------------------------
(***************************************************************************)
(* tuple.go: tuple descriptors, field resolution, projection and the byte *)
(* form of a tuple.  A descriptor is a sequence of field types            *)
(* [fname, qual, ftype], qual "" when the field has no table qualifier,   *)
(* ftype "int", "string" or "unknown"; a tuple's fields are the DBValues  *)
(* of Aggregates.  An int64 occupies one byte here (IntWidth <= 8), in    *)
(* two's complement as binary.Write leaves it; a string StringLength.     *)
(***************************************************************************)
EXTENDS Aggregates

LOCAL INSTANCE SequencesExt

CONSTANT StringLength

ASSUME StringLength \in Nat \ {0} /\ IntWidth <= 8

FieldType(n, q, t) == [fname |-> n, qual |-> q, ftype |-> t]

\* setTableAlias: every field's qualifier becomes alias.
SetTableAlias(td, alias) == [i \in DOMAIN td |-> [td[i] EXCEPT !.qual = alias]]

\* merge: the fields of desc2 appended to those of desc.
Merge(desc, desc2) == desc \o desc2

(***************************************************************************)
(* findFieldInTd.  An index is 1-based; best = 0 stands for best == -1.    *)
(***************************************************************************)
Found(i) == [ok |-> TRUE, idx |-> i, err |-> "none"]
Failed(e) == [ok |-> FALSE, idx |-> 0, err |-> e]

\* Same name, and same type unless the query's type is unknown.
Candidate(f, field) ==
  f.fname = field.fname /\ (f.ftype = field.ftype \/ field.ftype = "unknown")

\* Mutant: the qualifier is ignored, the first candidate kept.
NextBestFirst(f, field, i, best) == IF best = 0 THEN i ELSE best

\* A candidate becomes best when its qualifier matches or none was found.
NextBest(f, field, i, best) == IF f.qual = field.qual \/ best = 0 THEN i ELSE best

\* The loop over desc.Fields from i on: a second candidate of an
\* unqualified query is ambiguous; at the end best, or not found.
RECURSIVE FindFrom(_, _, _, _)
FindFrom(field, desc, i, best) ==
  IF i > Len(desc)
  THEN IF best # 0 THEN Found(best) ELSE Failed("IncompatibleTypes")
  ELSE IF ~Candidate(desc[i], field) THEN FindFrom(field, desc, i + 1, best)
  ELSE IF field.qual = "" /\ best # 0 THEN Failed("AmbiguousName")
  ELSE FindFrom(field, desc, i + 1, NextBest(desc[i], field, i, best))

FindFieldInTd(field, desc) == FindFrom(field, desc, 1, 0)

\* project: each field resolved in desc and its value copied; the first
\* field that fails to resolve fails the call.
ProjectTuple(vals, desc, fields) ==
  LET r   == [i \in DOMAIN fields |-> FindFieldInTd(fields[i], desc)]
      bad == {i \in DOMAIN fields : ~r[i].ok}
  IN IF bad = {}
     THEN [ok |-> TRUE, vals |-> [i \in DOMAIN fields |-> vals[r[i].idx]], err |-> "none"]
     ELSE [ok |-> FALSE, vals |-> <<>>, err |-> r[Min(bad)].err]

(***************************************************************************)
(* writeTo and readTupleFrom.                                             *)
(***************************************************************************)
\* One field as writeTo writes it: an int64's two's complement bytes, a
\* string cut or zero-padded to StringLength bytes.
FieldBytes(x) ==
  IF x.type = "int" THEN <<x.int % (2 ^ IntWidth)>>
  ELSE IF Len(x.str) >= StringLength THEN SubSeq(x.str, 1, StringLength)
  ELSE x.str \o [i \in 1..(StringLength - Len(x.str)) |-> 0]

WriteTo(vals) == FlattenSeq([i \in DOMAIN vals |-> FieldBytes(vals[i])])

\* tupleKey: the bytes writeTo produces.
TupleKey(pt) == WriteTo(pt)

FieldWidth(ftype) == IF ftype = "int" THEN 1 ELSE StringLength

\* Mutant: the int64 is read back as an unsigned value.
DecodeIntUnsigned(b) == b

\* binary.Read of an int64: the two's complement bytes as a signed value.
DecodeInt(b) == IF b >= 2 ^ (IntWidth - 1) THEN b - 2 ^ IntWidth ELSE b

\* bytes.TrimRight(strBytes, "\x00").
RECURSIVE TrimZeros(_)
TrimZeros(s) == IF s # <<>> /\ Last(s) = 0 THEN TrimZeros(Front(s)) ELSE s

ReadField(buf, ftype) ==
  IF ftype = "int" THEN IntField(DecodeInt(buf[1]))
  ELSE StringField(TrimZeros(SubSeq(buf, 1, StringLength)))

\* readTupleFrom's loop from field i on: each field consumes its width
\* from the buffer; too few bytes, or an unknown type, fail the read.
RECURSIVE ReadFieldsFrom(_, _, _, _)
ReadFieldsFrom(buf, desc, i, vals) ==
  IF i > Len(desc) THEN [ok |-> TRUE, vals |-> vals, rest |-> buf]
  ELSE IF desc[i].ftype \notin {"int", "string"} \/ Len(buf) < FieldWidth(desc[i].ftype)
  THEN [ok |-> FALSE, vals |-> <<>>, rest |-> buf]
  ELSE ReadFieldsFrom(SubSeq(buf, FieldWidth(desc[i].ftype) + 1, Len(buf)), desc, i + 1,
                      Append(vals, ReadField(buf, desc[i].ftype)))

ReadTupleFrom(buf, desc) == ReadFieldsFrom(buf, desc, 1, <<>>)

=============================================================================
