----------------------------- MODULE PageObject -----------------------------
(***************************************************************************)
(* One heapPage object in memory, driven by a caller that inserts tuples   *)
(* and deletes by record id (any slot number, as a caller holding a stale  *)
(* or foreign Tuple.Rid may pass), and shown to implement PageContents.    *)
(***************************************************************************)
EXTENDS HeapPage

VARIABLES page, result

vars == <<page, result>>

NoResult == [op |-> "none", rid |-> Nil, val |-> Nil, ok |-> FALSE]

TypeOK ==
  /\ page.slotNum = SlotNum
  /\ page.used \in 0..SlotNum
  /\ page.tuples \in Seq(Vals \cup {Nil})
  /\ result.op \in {"none", "insert", "delete"}

Init ==
  /\ page = NewHeapPage
  /\ result = NoResult

\* heapPage.insertTuple(t): the rid, or "no free slots available".
Insert(v) ==
  \/ /\ CanInsert(page)
     /\ page' = InsertTuple(page, v)
     /\ result' = [op |-> "insert", rid |-> InsertedSlot(page), val |-> v, ok |-> TRUE]
  \/ /\ ~CanInsert(page)
     /\ result' = [op |-> "insert", rid |-> Nil, val |-> v, ok |-> FALSE]
     /\ UNCHANGED page

\* heapPage.deleteTuple(RID{PageNo, s}): "invalid record ID" for a slot at
\* or past UsedSlotsNum, "already deleted" for a nil slot.
Delete(s) ==
  \/ /\ CanDelete(page, s)
     /\ page' = DeleteTuple(page, s)
     /\ result' = [op |-> "delete", rid |-> s, val |-> Slot(page, s), ok |-> TRUE]
  \/ /\ ~CanDelete(page, s)
     /\ result' = [op |-> "delete", rid |-> s, val |-> Nil, ok |-> FALSE]
     /\ UNCHANGED page

Next == (\E v \in Vals : Insert(v)) \/ (\E s \in 0..(SlotNum - 1) : Delete(s))

Spec == Init /\ [][Next]_vars

Contents == INSTANCE PageContents
              WITH rows <- [s \in LiveSlots(page) |-> Slot(page, s)],
                   issued <- 0..(page.used - 1),
                   Capacity <- SlotNum,
                   Rids <- 0..(SlotNum - 1)

(* The page implements PageContents: the record id insertTuple returns     *)
(* addresses the inserted tuple, ids are never reused, deleteTuple removes *)
(* exactly the tuple of a live id, and tupleIter yields the live tuples.   *)
RefinesPageContents == Contents!Spec

=============================================================================
