------------------------------ MODULE HeapPage ------------------------------
(***************************************************************************)
(* The heap page of godb (src/godb/heap_page.go) as a value: the slot      *)
(* directory and the methods that change or read it.  A page is a record   *)
(*   slotNum  h.SlotNum                                                    *)
(*   used     h.UsedSlotsNum                                               *)
(*   tuples   h.Tuples, the Go slice; Nil is a nil *Tuple                  *)
(*   dirty    h.IsDirty                                                    *)
(* Slot s of the code (0-based) is tuples[s + 1].  A tuple is a model      *)
(* value of Vals; Zero is the all-zero tuple toBuffer writes into a slot   *)
(* that holds no tuple, which a caller never inserts.                      *)
(*                                                                         *)
(* The serialised page is an image [slotNum, used, slots]: the two int32   *)
(* header words and the SlotNum fixed-width tuples that follow them.       *)
(***************************************************************************)
EXTENDS Naturals, Sequences

CONSTANTS Vals, SlotNum, Nil, Zero

ASSUME SlotNum \in Nat \ {0}

TupleVals == Vals \cup {Zero}

\* newHeapPage: SlotNum = (PageSize - 8) / tupleWidth, no tuples, clean.
NewHeapPage == [slotNum |-> SlotNum, used |-> 0, tuples |-> <<>>, dirty |-> FALSE]

Slot(pg, s) == pg.tuples[s + 1]

\* Mutant: the full-page test is off by one.
CanInsertOffByOne(pg) == pg.used <= pg.slotNum

\* heapPage.insertTuple succeeds unless UsedSlotsNum >= SlotNum.
CanInsert(pg) == pg.used < pg.slotNum

\* Mutant: the returned rid is UsedSlotsNum after the increment.
InsertedSlotPastEnd(pg) == pg.used + 1

\* The slot in the rid insertTuple returns: UsedSlotsNum - 1 after ++.
InsertedSlot(pg) == pg.used

\* heapPage.insertTuple: append to the slice, count the slot.
InsertTuple(pg, v) == [pg EXCEPT !.tuples = Append(@, v), !.used = @ + 1]

\* heapPage.deleteTuple succeeds for a slot below UsedSlotsNum that is not nil.
CanDelete(pg, s) == s < pg.used /\ Slot(pg, s) # Nil

DeleteTuple(pg, s) == [pg EXCEPT !.tuples[s + 1] = Nil]

\* setDirty(tid, d): the tid is ignored.
SetDirty(pg, d) == [pg EXCEPT !.dirty = d]

\* Slots tupleIter yields, in ascending order: below UsedSlotsNum, not nil.
LiveSlots(pg) == {s \in 0..(pg.used - 1) : Slot(pg, s) # Nil}

\* The tuples tupleIter yields, in order.
TupleIter(pg) == SelectSeq(SubSeq(pg.tuples, 1, pg.used), LAMBDA t : t # Nil)

\* toBuffer: header, then for each of SlotNum slots the tuple if the slot is
\* below UsedSlotsNum and not nil, else a zero tuple; UsedSlotsNum is kept.
ToBuffer(pg) ==
  [slotNum |-> pg.slotNum,
   used    |-> pg.used,
   slots   |-> [i \in 1..pg.slotNum |->
                  IF i <= pg.used /\ pg.tuples[i] # Nil THEN pg.tuples[i] ELSE Zero]]

\* PageSize zero bytes: a page beyond the end of the file, which readPage
\* gets when io.ReadFull's error is ignored.
ZeroImage == [slotNum |-> 0, used |-> 0, slots |-> <<>>]

\* initFromBuffer: read the header, make Tuples of length SlotNum, fill the
\* first UsedSlotsNum from the image.  IsDirty is left as it was.
InitFromBuffer(pg, img) ==
  [pg EXCEPT !.slotNum = img.slotNum,
             !.used = img.used,
             !.tuples = [i \in 1..img.slotNum |-> IF i <= img.used THEN img.slots[i] ELSE Nil]]

=============================================================================
