------------------------------ MODULE HeapFile ------------------------------
(***************************************************************************)
(* A heap file of godb (src/godb/heap_file.go) with its page objects, the  *)
(* buffer pool's page store and the backing file, driven by one caller.    *)
(* The heap file takes no locks and touches HeapPages directly, so its     *)
(* effect does not depend on which transaction calls; the lock table is   *)
(* the BufferPool module's.                                                *)
(*                                                                         *)
(*   heapPages  f.HeapPages, pageNo -> the one heapPage object of the page *)
(*   pageCount  f.PageCount                                                *)
(*   disk       the page images in the OS file, at offset pageNo*PageSize *)
(*   fileLen    the size of the file in pages                              *)
(*   cached     the page numbers in bp.pages;  usedPages  bp.UsedPages     *)
(*   result     what the last call returned (a history variable)          *)
(***************************************************************************)
EXTENDS HeapPage, FiniteSets, TLC

LOCAL INSTANCE SequencesExt

CONSTANTS
  MaxPages,  \* bound on f.PageCount
  NumPages   \* bp.NumPages

PageNos == 0..(MaxPages - 1)

VARIABLES heapPages, pageCount, disk, fileLen, cached, usedPages, result

vars == <<heapPages, pageCount, disk, fileLen, cached, usedPages, result>>

Pages == 0..(pageCount - 1)

NoResult == [op |-> "none", rid |-> Nil, val |-> Nil, ok |-> FALSE]
Returned(op, rid, v, ok) == [op |-> op, rid |-> rid, val |-> v, ok |-> ok]

TypeOK ==
  /\ pageCount \in 0..MaxPages
  /\ DOMAIN heapPages = Pages
  /\ disk \in [PageNos -> [slotNum : {0, SlotNum}, used : 0..SlotNum,
                           slots : Seq(TupleVals)]]
  /\ fileLen \in 0..MaxPages
  /\ cached \subseteq Pages
  /\ usedPages \in Nat
  /\ result.op \in {"none", "insert", "delete", "commit", "flushall",
                    "abort", "getpage", "restart"}

Init ==
  /\ heapPages = [p \in {} |-> NewHeapPage]
  /\ pageCount = 0
  /\ disk = [p \in PageNos |-> ZeroImage]
  /\ fileLen = 0
  /\ cached = {}
  /\ usedPages = 0
  /\ result = NoResult

\* flushPage of every page in S: write toBuffer at the page's offset,
\* growing the file if needed, and clear IsDirty.
FlushedDisk(S) == [q \in PageNos |-> IF q \in S THEN ToBuffer(heapPages[q]) ELSE disk[q]]
LenAfter(S) ==
  LET ends == {fileLen} \cup {q + 1 : q \in S}
  IN CHOOSE n \in ends : \A m \in ends : n >= m
Cleaned(S) == [q \in Pages |-> IF q \in S THEN SetDirty(heapPages[q], FALSE) ELSE heapPages[q]]

\* Mutant: eviction takes any page, dirty or not.
EvictableAny(v) == TRUE

\* The eviction loops take the first page in map order with !p.isDirty().
Evictable(v) == ~heapPages[v].dirty

\* Flush victim v through the file and put page n in its frame.
Evict(v, n) ==
  /\ disk' = FlushedDisk({v})
  /\ fileLen' = LenAfter({v})
  /\ cached' = (cached \ {v}) \cup {n}

\* Mutant: the eviction branch also counts a frame.
InsertPageCountsEvicted(n) ==
  \/ /\ usedPages < NumPages
     /\ usedPages' = usedPages + 1
     /\ cached' = cached \cup {n}
     /\ UNCHANGED <<disk, fileLen>>
  \/ /\ usedPages >= NumPages
     /\ \E v \in cached : Evictable(v) /\ Evict(v, n)
     /\ usedPages' = usedPages + 1

\* bp.insertPage(hp, f, n): a free frame, or evict a clean page.
InsertPage(n) ==
  \/ /\ usedPages < NumPages
     /\ usedPages' = usedPages + 1
     /\ cached' = cached \cup {n}
     /\ UNCHANGED <<disk, fileLen>>
  \/ /\ usedPages >= NumPages
     /\ \E v \in cached : Evictable(v) /\ Evict(v, n)
     /\ UNCHANGED usedPages

PoolFullOfDirty == usedPages >= NumPages /\ \A v \in cached : ~Evictable(v)

FreePages == {p \in Pages : CanInsert(heapPages[p])}

(***************************************************************************)
(* HeapFile.insertTuple(t, tid): the first page in map order with a free   *)
(* slot; else a new page through newHeapPage (which calls insertPage),     *)
(* then registered in HeapPages and bp.pages; the page is marked dirty.   *)
(***************************************************************************)
Insert(v) ==
  \/ /\ \E p \in FreePages :
          /\ heapPages' = [heapPages EXCEPT ![p] = SetDirty(InsertTuple(@, v), TRUE)]
          /\ result' = Returned("insert", <<p, InsertedSlot(heapPages[p])>>, v, TRUE)
     /\ UNCHANGED <<pageCount, disk, fileLen, cached, usedPages>>
  \/ /\ FreePages = {}
     /\ pageCount < MaxPages
     /\ InsertPage(pageCount)
     /\ heapPages' = heapPages @@ (pageCount :> SetDirty(InsertTuple(NewHeapPage, v), TRUE))
     /\ pageCount' = pageCount + 1
     /\ result' = Returned("insert", <<pageCount, InsertedSlot(NewHeapPage)>>, v, TRUE)
  \/ /\ FreePages = {}
     /\ PoolFullOfDirty
     /\ result' = Returned("insert", Nil, v, FALSE)
     /\ UNCHANGED <<heapPages, pageCount, disk, fileLen, cached, usedPages>>

\* HeapFile.deleteTuple(t, tid) with t.Rid = RID{p, s}: heapPage.deleteTuple's
\* error is dropped, the page is marked dirty and nil is returned.
Delete(p, s) ==
  /\ \/ /\ CanDelete(heapPages[p], s)
        /\ heapPages' = [heapPages EXCEPT ![p] = SetDirty(DeleteTuple(@, s), TRUE)]
        /\ result' = Returned("delete", <<p, s>>, Slot(heapPages[p], s), TRUE)
     \/ /\ ~CanDelete(heapPages[p], s)
        /\ heapPages' = [heapPages EXCEPT ![p] = SetDirty(@, TRUE)]
        /\ result' = Returned("delete", <<p, s>>, Nil, TRUE)
  /\ UNCHANGED <<pageCount, disk, fileLen, cached, usedPages>>

DirtyCached == {p \in cached : heapPages[p].dirty}

\* CommitTransaction: flush every dirty page in bp.pages.
Commit ==
  /\ disk' = FlushedDisk(DirtyCached)
  /\ fileLen' = LenAfter(DirtyCached)
  /\ heapPages' = Cleaned(DirtyCached)
  /\ result' = Returned("commit", Nil, Nil, TRUE)
  /\ UNCHANGED <<pageCount, cached, usedPages>>

\* FlushAllPages: flush every page in bp.pages, dirty or not.
FlushAllPages ==
  /\ disk' = FlushedDisk(cached)
  /\ fileLen' = LenAfter(cached)
  /\ heapPages' = Cleaned(cached)
  /\ result' = Returned("flushall", Nil, Nil, TRUE)
  /\ UNCHANGED <<pageCount, cached, usedPages>>

\* Mutant: abort only clears the dirty flags, as the comment above it says.
AbortKeepMemory ==
  /\ heapPages' = Cleaned(DirtyCached)
  /\ result' = Returned("abort", Nil, Nil, TRUE)
  /\ UNCHANGED <<pageCount, disk, fileLen, cached, usedPages>>

\* AbortTransaction: readPage re-initialises every dirty page in bp.pages
\* from the file, then its dirty flag is cleared.
Abort ==
  /\ heapPages' = [q \in Pages |->
                     IF q \in DirtyCached
                     THEN SetDirty(InitFromBuffer(heapPages[q], disk[q]), FALSE)
                     ELSE heapPages[q]]
  /\ result' = Returned("abort", Nil, Nil, TRUE)
  /\ UNCHANGED <<pageCount, disk, fileLen, cached, usedPages>>

\* GetPage of a page not in bp.pages: readPage re-initialises the object
\* (IsDirty kept), then a clean page is evicted or BufferPoolFull returned.
\* The pool is always full here: every page entered it through insertPage.
GetPage(p) ==
  /\ p \notin cached
  /\ heapPages' = [heapPages EXCEPT ![p] = InitFromBuffer(@, disk[p])]
  /\ \/ /\ \E v \in cached : Evictable(v) /\ Evict(v, p)
        /\ result' = Returned("getpage", Nil, Nil, TRUE)
     \/ /\ \A v \in cached : ~Evictable(v)
        /\ result' = Returned("getpage", Nil, Nil, FALSE)
        /\ UNCHANGED <<disk, fileLen, cached>>
  /\ UNCHANGED <<pageCount, usedPages>>

(***************************************************************************)
(* The process restarts and reopens the file with NewBufferPool and        *)
(* NewHeapFile: one page object per PageSize bytes, each registered with   *)
(* insertPage and then read with initFromBuffer.  insertPage keeps the     *)
(* last page and evicts earlier (clean, unchanged) ones in map order.     *)
(* The commit in progress is not interrupted (the code assumes no crash   *)
(* during commit).                                                         *)
(***************************************************************************)
Restart ==
  LET n == fileLen
      fits == IF n < NumPages THEN n ELSE NumPages
  IN /\ heapPages' = [q \in 0..(n - 1) |-> InitFromBuffer(NewHeapPage, disk[q])]
     /\ pageCount' = n
     /\ \E S \in SUBSET (0..(n - 1)) :
          /\ Cardinality(S) = fits
          /\ n > 0 => n - 1 \in S
          /\ cached' = S
     /\ usedPages' = fits
     /\ result' = Returned("restart", Nil, Nil, TRUE)
     /\ UNCHANGED <<disk, fileLen>>

Next ==
  \/ \E v \in Vals : Insert(v)
  \/ \E p \in Pages, s \in 0..(SlotNum - 1) : Delete(p, s)
  \/ Commit
  \/ FlushAllPages
  \/ Abort
  \/ \E p \in Pages : GetPage(p)
  \/ Restart

Spec == Init /\ [][Next]_vars

(***************************************************************************)
(* Views of the state.                                                     *)
(***************************************************************************)

\* The tuples of every page as tupleIter yields them, pages in order.
LiveSeq == FlattenSeq([i \in 1..pageCount |-> TupleIter(heapPages[i - 1])])

\* What NewHeapFile would read back from the file.
DurableSeq ==
  FlattenSeq([i \in 1..fileLen |-> TupleIter(InitFromBuffer(NewHeapPage, disk[i - 1]))])

\* HeapFile.Iterator: for each page in order, Tuples[slot] for every slot
\* below UsedSlotsNum, nil included; the caller takes nil as end of scan.
RawScan ==
  FlattenSeq([i \in 1..pageCount |-> SubSeq(heapPages[i - 1].tuples, 1, heapPages[i - 1].used)])
FileScan ==
  LET k == SelectInSeq(RawScan, LAMBDA t : t = Nil)
  IN IF k = 0 THEN RawScan ELSE SubSeq(RawScan, 1, k - 1)

Table == INSTANCE TableContents
           WITH live <- ToBag(LiveSeq),
                durable <- ToBag(DurableSeq),
                result <- [op |-> result.op, val |-> result.val, ok |-> result.ok]

(***************************************************************************)
(* Properties.                                                             *)
(***************************************************************************)

(* insertPage and GetPage keep bp.UsedPages equal to the number of cached  *)
(* pages and never above NumPages, across appends, evictions and restarts. *)
CacheWithinCapacity == usedPages = Cardinality(cached) /\ usedPages <= NumPages

(* A page object that is not dirty serialises to exactly the bytes in the *)
(* file: every path that clears IsDirty (commit, FlushAllPages, abort's    *)
(* readPage, NewHeapFile) leaves memory and disk equal.                    *)
CleanPageMatchesDisk ==
  \A p \in Pages : ~heapPages[p].dirty => ToBuffer(heapPages[p]) = disk[p]

(* NO-STEAL at the file: only CommitTransaction and FlushAllPages change   *)
(* the bytes on disk; the evictions of insertPage and GetPage rewrite a    *)
(* clean page with the bytes already there.                                *)
DiskWrittenOnlyAtCommit ==
  [][disk' # disk => result'.op \in {"commit", "flushall"}]_vars

(* spec.md 4.2: insertTuple sets t.rid = (pageNo, slot) and the tuple is   *)
(* found at that record id.                                                *)
ReturnedRidLocatesTuple ==
  [][result'.op = "insert" /\ result'.ok =>
       Slot(heapPages'[result'.rid[1]], result'.rid[2]) = result'.val]_vars

(* spec.md 4.3: a sequential scan yields the live tuples of every page in  *)
(* page and slot order.                                                    *)
ScanYieldsLiveTuples == FileScan = LiveSeq

(* The heap file implements TableContents: successful inserts and deletes  *)
(* change what a scan sees, commit makes it durable, abort and restart     *)
(* bring back exactly what was committed.                                  *)
RefinesTableContents == Table!Spec

=============================================================================
