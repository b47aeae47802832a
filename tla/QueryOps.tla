------------------------------ MODULE QueryOps ------------------------------
(***************************************************************************)
(* InsertOp and DeleteOp (insert_op.go, delete_op.go) driving the heap    *)
(* file of the HeapFile module.  InsertOp's child is a stream Src of      *)
(* tuples (a VALUES list or a scan of another table); DeleteOp's child is *)
(* HeapFile.Iterator over the same file (DELETE FROM t).  Each call of    *)
(* the function an Iterator returns runs its whole loop: the Call action  *)
(* starts it, one Step per tuple pulled, Return hands back the count      *)
(* tuple.  Between statements every action of HeapFile may run: other    *)
(* callers' inserts and deletes, commit, abort, GetPage, a restart.       *)
(*                                                                         *)
(*   iop       the running insert loop: pos in Src, num counted, ok the   *)
(*             number of insertTuple calls that succeeded (history)        *)
(*   dop       the running delete loop: the scan's currentPageNo and      *)
(*             currentSlotNo, num, and removed, the number of tuples the  *)
(*             scan no longer yields after its deletes (history); both    *)
(*             are back at their idle values once the call has returned   *)
(*   returned  the count tuple a statement has just returned, with the    *)
(*             number of successes behind it; none after any other call    *)
(***************************************************************************)
EXTENDS HeapFile

CONSTANT Src  \* the tuples InsertOp's child yields

VARIABLES iop, dop, returned

qvars == <<iop, dop, returned>>
allVars == <<vars, qvars>>

Idle == ~iop.running /\ ~dop.running

IdleInsert == [running |-> FALSE, pos |-> 1, num |-> 0, ok |-> 0]
IdleDelete == [running |-> FALSE, page |-> 0, slot |-> 0, num |-> 0, removed |-> 0]
NoneReturned == [op |-> "none", count |-> 0, successes |-> 0]

QInit ==
  /\ Init
  /\ iop = IdleInsert
  /\ dop = IdleDelete
  /\ returned = NoneReturned

(***************************************************************************)
(* InsertOp: every call pulls the whole child again, inserts a copy of    *)
(* each tuple, ignores insertTuple's error, and returns num.              *)
(***************************************************************************)
\* Room for the statement's appends: each page it appends stays dirty and
\* cached until the transaction ends, and insertPage evicts only clean
\* pages, so one statement appends at most NumPages pages.
RoomForStatement == pageCount + NumPages <= MaxPages

InsertOpCall ==
  /\ Idle /\ RoomForStatement
  /\ iop' = [running |-> TRUE, pos |-> 1, num |-> 0, ok |-> 0]
  /\ UNCHANGED <<vars, dop, returned>>

InsertOpStep ==
  /\ iop.running /\ iop.pos <= Len(Src)
  /\ Insert(Src[iop.pos])
  /\ iop' = [iop EXCEPT !.pos = @ + 1, !.num = @ + 1,
                        !.ok = @ + (IF result'.ok THEN 1 ELSE 0)]
  /\ UNCHANGED <<dop, returned>>

InsertOpReturn ==
  /\ iop.running /\ iop.pos > Len(Src)
  /\ returned' = [op |-> "insert", count |-> iop.num, successes |-> iop.ok]
  /\ iop' = IdleInsert
  /\ UNCHANGED <<vars, dop>>

(***************************************************************************)
(* HeapFile.Iterator as DeleteOp's child: a cursor [page, slot] over the  *)
(* HeapPages, read afresh on every pull.  Below UsedSlotsNum it returns   *)
(* Tuples[slot], a nil one included, which DeleteOp takes as the end.     *)
(* A scanned tuple carries the Rid insertTuple or initFromBuffer gave it: *)
(* its page and slot.                                                     *)
(***************************************************************************)
ScanAtEnd(c) == c.page >= pageCount
ScanPageDone(c) == ~ScanAtEnd(c) /\ c.slot >= heapPages[c.page].used
\* Mutant: the cursor goes back to slot 0 of the same page.
ScanNextPageStay(c) == [c EXCEPT !.slot = 0]

ScanNextPage(c) == [c EXCEPT !.page = @ + 1, !.slot = 0]
ScanTuple(c) == Slot(heapPages[c.page], c.slot)

ScanRid(c) == <<c.page, c.slot>>

\* The number of tuples tupleIter yields over all pages.
LiveCount == Len(LiveSeq)

DeleteOpCall ==
  /\ Idle
  /\ dop' = [running |-> TRUE, page |-> 0, slot |-> 0, num |-> 0, removed |-> 0]
  /\ UNCHANGED <<vars, iop, returned>>

DeleteOpReturn ==
  /\ returned' = [op |-> "delete", count |-> dop.num, successes |-> dop.removed]
  /\ dop' = IdleDelete
  /\ UNCHANGED <<vars, iop>>

\* One turn of DeleteOp's loop: one pull of the scan and, for a tuple,
\* deleteTuple by its Rid (whose error, if any, is nil) and num++.
DeleteOpStep ==
  /\ dop.running
  /\ \/ /\ ScanAtEnd(dop)
        /\ DeleteOpReturn
     \/ /\ ScanPageDone(dop)
        /\ dop' = ScanNextPage(dop)
        /\ UNCHANGED <<vars, iop, returned>>
     \/ /\ ~ScanAtEnd(dop) /\ ~ScanPageDone(dop)
        /\ ScanTuple(dop) = Nil
        /\ DeleteOpReturn
     \/ /\ ~ScanAtEnd(dop) /\ ~ScanPageDone(dop)
        /\ ScanTuple(dop) # Nil
        /\ Delete(ScanRid(dop)[1], ScanRid(dop)[2])
        /\ dop' = [dop EXCEPT !.slot = @ + 1, !.num = @ + 1,
                              !.removed = @ + LiveCount - LiveCount']
        /\ UNCHANGED <<iop, returned>>

\* Between statements the heap file serves other callers: single inserts
\* and deletes, commit, abort, FlushAllPages, GetPage and a restart.  The
\* last count tuple is forgotten once another call has run.
Between ==
  /\ Idle /\ Next
  /\ returned' = NoneReturned
  /\ UNCHANGED <<iop, dop>>

QNext ==
  \/ InsertOpCall \/ InsertOpStep \/ InsertOpReturn
  \/ DeleteOpCall \/ DeleteOpStep
  \/ Between

QSpec == QInit /\ [][QNext]_allVars

(* spec.md 4.5: InsertOp inserts every child tuple through the heap file  *)
(* and its count tuple counts the successful inserts.                     *)
InsertCountsSuccesses ==
  returned.op = "insert" => returned.count = returned.successes

=============================================================================
