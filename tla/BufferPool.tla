----------------------------- MODULE BufferPool -----------------------------
(***************************************************************************)
(* The buffer manager of godb (src/godb/buffer_pool.go): a bounded cache   *)
(* of heap pages, the page-level reader/writer lock table, and the         *)
(* transaction operations BeginTransaction, GetPage, CommitTransaction and *)
(* AbortTransaction.  Every transaction id is one thread of the caller.    *)
(*                                                                         *)
(* Page data is abstracted to the set of transactions whose writes it      *)
(* reflects.  There is one page object per (file, pageNo), as in the code: *)
(* HeapFile.HeapPages holds it for the life of the file, bp.pages caches a *)
(* pointer to it, and readPage re-initialises that same object from disk.  *)
(*                                                                         *)
(* acquireLock is split where the code releases bp.lock: it looks the      *)
(* pageLock up (or creates it) under bp.lock, then updates it under the    *)
(* pageLock's own mutex.  Commit and abort hold bp.lock throughout, which  *)
(* shuts out BeginTransaction and both bp.lock sections of GetPage, but    *)
(* not the second half of acquireLock nor a caller writing a page it holds *)
(* (neither takes bp.lock).  Their loop over bp.pages is therefore one     *)
(* step per page and per setDirty(-1, false); the lock release loop, whose *)
(* per-entry sections commute with acquireLock's second half, is one.      *)
(***************************************************************************)
EXTENDS Naturals, FiniteSets, Functions

CONSTANTS
  Tids,      \* transaction ids, one caller thread each
  Files,     \* heap files sharing the pool
  PageNos,   \* page numbers present in every file
  NumPages,  \* BufferPool.NumPages, the capacity of the cache
  NoTid,     \* pageLock.writer == 0: no writer
  NoLock     \* no entry in bp.pageLocks / a nil *pageLock

ASSUME NumPages \in Nat \ {0}

Pages == Files \X PageNos              \* heapHash{File, PageNo}
FileOf(p) == p[1]
PageNoOf(p) == p[2]
Perms == {"ReadPerm", "WritePerm"}
\* Enough pageLock objects for one per table entry plus one per thread
\* that has dropped bp.lock while holding a pointer to an entry.
LockIds == 1..(Cardinality(Pages) + Cardinality(Tids))
NoReq == [page |-> NoLock, perm |-> "none"]

VARIABLES
  disk,       \* disk[p]: contents of page p in its backing file
  content,    \* content[p]: contents of the heapPage object of p
  dirty,      \* dirty[p]: heapPage.IsDirty of that object
  cached,     \* DOMAIN bp.pages
  usedPages,  \* bp.UsedPages
  pageLocks,  \* bp.pageLocks: page -> pageLock object
  readers,    \* pageLock.readers of each object
  writer,     \* pageLock.writer of each object
  running,    \* bp.running
  pc,         \* where each caller thread is
  req,        \* arguments of the GetPage call in progress
  ptr,        \* pl, the *pageLock acquireLock holds after bp.lock.Unlock()
  todo,       \* pages of bp.pages the commit or abort loop has yet to visit
  clearing,   \* {page} whose setDirty(-1, false) the loop does next, or {}
  \* history, used only by the properties
  held,       \* locks acquireLock reported granted to the transaction
  got,        \* pages GetPage returned to the transaction
  wrote,      \* pages the transaction modified
  outcome     \* "none", "committed" or "aborted"

poolVars == <<disk, content, dirty, cached, usedPages>>
lockVars == <<pageLocks, readers, writer, running>>
threadVars == <<pc, req, ptr, todo, clearing>>
historyVars == <<held, got, wrote, outcome>>
vars == <<poolVars, lockVars, threadVars, historyVars>>

TypeOK ==
  /\ disk \in [Pages -> SUBSET Tids]
  /\ content \in [Pages -> SUBSET Tids]
  /\ dirty \in [Pages -> BOOLEAN]
  /\ cached \subseteq Pages
  /\ usedPages \in 0..NumPages
  /\ pageLocks \in [Pages -> LockIds \cup {NoLock}]
  /\ readers \in [LockIds -> SUBSET Tids]
  /\ writer \in [LockIds -> Tids \cup {NoTid}]
  /\ running \subseteq Tids
  /\ pc \in [Tids -> {"init", "idle", "lock", "fetch", "commit", "abort", "done"}]
  /\ req \in [Tids -> [page : Pages, perm : Perms] \cup {NoReq}]
  /\ ptr \in [Tids -> LockIds \cup {NoLock}]
  /\ todo \in [Tids -> SUBSET Pages]
  /\ clearing \in [Tids -> SUBSET Pages]
  /\ held \in [Tids -> SUBSET (Pages \X Perms)]
  /\ got \in [Tids -> SUBSET Pages]
  /\ wrote \in [Tids -> SUBSET Pages]
  /\ outcome \in [Tids -> {"none", "committed", "aborted"}]

(***************************************************************************)
(* NewHeapFile creates one page object per page of the file and registers *)
(* each with insertPage, which fills the pool up to NumPages and then      *)
(* replaces a clean page: the pool starts holding as many pages as fit.    *)
(***************************************************************************)
Init ==
  /\ disk = [p \in Pages |-> {}]
  /\ content = [p \in Pages |-> {}]
  /\ dirty = [p \in Pages |-> FALSE]
  /\ cached \in {S \in SUBSET Pages :
                   Cardinality(S) = IF NumPages < Cardinality(Pages)
                                    THEN NumPages ELSE Cardinality(Pages)}
  /\ usedPages = Cardinality(cached)
  /\ pageLocks = [p \in Pages |-> NoLock]
  /\ readers = [e \in LockIds |-> {}]
  /\ writer = [e \in LockIds |-> NoTid]
  /\ running = {}
  /\ pc = [t \in Tids |-> "init"]
  /\ req = [t \in Tids |-> NoReq]
  /\ ptr = [t \in Tids |-> NoLock]
  /\ todo = [t \in Tids |-> {}]
  /\ clearing = [t \in Tids |-> {}]
  /\ held = [t \in Tids |-> {}]
  /\ got = [t \in Tids |-> {}]
  /\ wrote = [t \in Tids |-> {}]
  /\ outcome = [t \in Tids |-> "none"]

-----------------------------------------------------------------------------
(* A commit or abort of some thread holds bp.lock for its whole loop. *)
PoolLocked == \E u \in Tids : pc[u] \in {"commit", "abort"}

(* BeginTransaction: fails if tid is already running. *)
BeginTransaction(t) ==
  /\ pc[t] = "init" /\ ~PoolLocked
  /\ t \notin running
  /\ running' = running \cup {t}
  /\ pc' = [pc EXCEPT ![t] = "idle"]
  /\ UNCHANGED <<poolVars, pageLocks, readers, writer, req, ptr, todo, clearing,
                 historyVars>>

(* A pageLock object no table entry and no thread refers to: what a fresh *)
(* &pageLock{} is indistinguishable from.                                 *)
FreeLockId == CHOOSE e \in LockIds : e \notin Range(pageLocks) \cup Range(ptr)

(***************************************************************************)
(* GetPage, first half of acquireLock: under bp.lock, find the pageLock of *)
(* the page or create an empty one, then release bp.lock keeping pl.       *)
(***************************************************************************)
GetPage(t, p, perm) ==
  LET new == pageLocks[p] = NoLock
      e   == IF new THEN FreeLockId ELSE pageLocks[p]
  IN /\ pc[t] = "idle" /\ ~PoolLocked
     /\ pageLocks' = [pageLocks EXCEPT ![p] = e]
     /\ readers' = IF new THEN [readers EXCEPT ![e] = {}] ELSE readers
     /\ writer' = IF new THEN [writer EXCEPT ![e] = NoTid] ELSE writer
     /\ ptr' = [ptr EXCEPT ![t] = e]
     /\ req' = [req EXCEPT ![t] = [page |-> p, perm |-> perm]]
     /\ pc' = [pc EXCEPT ![t] = "lock"]
     /\ UNCHANGED <<poolVars, running, todo, clearing, historyVars>>

(* Mutant: upgrade granted whenever tid is among the readers. *)
CanGrantAnyReader(e, t, perm) ==
  IF perm = "ReadPerm"
  THEN writer[e] \in {NoTid, t}
  ELSE \/ writer[e] = t
       \/ writer[e] = NoTid /\ (readers[e] = {} \/ t \in readers[e])

(* The no-wait compatibility test of acquireLock under pl.mu. *)
CanGrant(e, t, perm) ==
  IF perm = "ReadPerm"
  THEN writer[e] \in {NoTid, t}
  ELSE \/ writer[e] = t
       \/ writer[e] = NoTid /\ (readers[e] = {} \/ readers[e] = {t})

(* Second half of acquireLock, granted: record tid in the pageLock object *)
(* pl points to, which may no longer be the page's table entry.           *)
LockGranted(t) ==
  LET e == ptr[t]
  IN /\ pc[t] = "lock"
     /\ CanGrant(e, t, req[t].perm)
     /\ IF req[t].perm = "ReadPerm"
        THEN /\ readers' = [readers EXCEPT ![e] = @ \cup {t}]
             /\ UNCHANGED writer
        ELSE /\ writer' = [writer EXCEPT ![e] = t]
             /\ UNCHANGED readers
     /\ held' = [held EXCEPT ![t] = @ \cup {<<req[t].page, req[t].perm>>}]
     /\ ptr' = [ptr EXCEPT ![t] = NoLock]
     /\ pc' = [pc EXCEPT ![t] = "fetch"]
     /\ UNCHANGED <<poolVars, pageLocks, running, req, todo, clearing, got, wrote,
                    outcome>>

(* Mutant: a blocking acquire that spins on pl until the lock is free. *)
LockRefusedSpinning(t) ==
  /\ pc[t] = "lock"
  /\ ~CanGrant(ptr[t], t, req[t].perm)
  /\ UNCHANGED vars

(* Second half of acquireLock, refused: GetPage returns LockUnavailable. *)
LockRefused(t) ==
  /\ pc[t] = "lock"
  /\ ~CanGrant(ptr[t], t, req[t].perm)
  /\ ptr' = [ptr EXCEPT ![t] = NoLock]
  /\ pc' = [pc EXCEPT ![t] = "idle"]
  /\ UNCHANGED <<poolVars, lockVars, req, todo, clearing, historyVars>>

(* GetPage under bp.lock, page cached: return it. *)
FetchCached(t) ==
  /\ pc[t] = "fetch" /\ ~PoolLocked
  /\ req[t].page \in cached
  /\ got' = [got EXCEPT ![t] = @ \cup {req[t].page}]
  /\ pc' = [pc EXCEPT ![t] = "idle"]
  /\ UNCHANGED <<poolVars, lockVars, req, ptr, todo, clearing, held, wrote, outcome>>

(* readPage re-initialises the file's page object from disk; IsDirty is *)
(* left as it was.                                                       *)
ReadPage(p) == content' = [content EXCEPT ![p] = disk[p]]

(* Mutant: the eviction path also counts the new page in UsedPages. *)
FetchEvictingCountsFrame(t) ==
  LET p == req[t].page
  IN /\ pc[t] = "fetch" /\ ~PoolLocked
     /\ p \notin cached
     /\ ReadPage(p)
     /\ usedPages >= NumPages
     /\ \E v \in cached :
          /\ ~dirty[v]
          /\ disk' = [disk EXCEPT ![<<FileOf(p), PageNoOf(v)>>] = content[v]]
          /\ cached' = (cached \ {v}) \cup {p}
     /\ usedPages' = usedPages + 1
     /\ got' = [got EXCEPT ![t] = @ \cup {p}]
     /\ pc' = [pc EXCEPT ![t] = "idle"]
     /\ UNCHANGED <<dirty, lockVars, req, ptr, todo, clearing, held, wrote, outcome>>

(***************************************************************************)
(* GetPage, pool full: the first clean page in map order is flushed with  *)
(* file.flushPage, the file of the page being fetched, which writes it at *)
(* its own page number in that file; it is then replaced by the new page. *)
(* Locks held on the victim are not consulted.                            *)
(***************************************************************************)
FetchEvicting(t) ==
  LET p == req[t].page
  IN /\ pc[t] = "fetch" /\ ~PoolLocked
     /\ p \notin cached
     /\ ReadPage(p)
     /\ usedPages >= NumPages
     /\ \E v \in cached :
          /\ ~dirty[v]
          /\ disk' = [disk EXCEPT ![<<FileOf(p), PageNoOf(v)>>] = content[v]]
          /\ cached' = (cached \ {v}) \cup {p}
     /\ got' = [got EXCEPT ![t] = @ \cup {p}]
     /\ pc' = [pc EXCEPT ![t] = "idle"]
     /\ UNCHANGED <<dirty, usedPages, lockVars, req, ptr, todo, clearing, held,
                    wrote, outcome>>

(* GetPage, pool full of dirty pages: BufferPoolFull.  The lock stays held *)
(* and the page object has already been re-read from disk.                 *)
FetchPoolFull(t) ==
  LET p == req[t].page
  IN /\ pc[t] = "fetch" /\ ~PoolLocked
     /\ p \notin cached
     /\ ReadPage(p)
     /\ usedPages >= NumPages
     /\ \A v \in cached : dirty[v]
     /\ pc' = [pc EXCEPT ![t] = "idle"]
     /\ UNCHANGED <<disk, dirty, cached, usedPages, lockVars, req, ptr, todo, clearing,
                    historyVars>>

(***************************************************************************)
(* The caller modifies a page GetPage returned under a write lock (e.g.    *)
(* heapPage.insertTuple or deleteTuple) and calls setDirty(tid, true).     *)
(* It writes through its pointer whether or not the page is still cached.  *)
(***************************************************************************)
WritePage(t, p) ==
  /\ pc[t] = "idle"
  /\ p \in got[t]
  /\ <<p, "WritePerm">> \in held[t]
  /\ content' = [content EXCEPT ![p] = @ \cup {t}]
  /\ dirty' = [dirty EXCEPT ![p] = TRUE]
  /\ wrote' = [wrote EXCEPT ![t] = @ \cup {p}]
  /\ UNCHANGED <<disk, cached, usedPages, lockVars, threadVars, held, got,
                 outcome>>

-----------------------------------------------------------------------------
(***************************************************************************)
(* Lock release shared by commit and abort: under each pageLock's mutex,   *)
(* drop tid from the readers and as writer, then delete every table entry  *)
(* left with no readers and no writer, including entries another thread   *)
(* has just created and not yet locked.                                   *)
(***************************************************************************)
Holds(e, t) == t \in readers[e] \/ writer[e] = t

(* Mutant: the writer field is not reset on release. *)
ReleaseLocksKeepWriter(t) ==
  LET inTable == Range(pageLocks)
      readers1 == [e \in LockIds |->
                     IF e \in inTable THEN readers[e] \ {t} ELSE readers[e]]
  IN /\ readers' = readers1
     /\ writer' = writer
     /\ pageLocks' = [p \in Pages |->
                        IF /\ pageLocks[p] # NoLock
                           /\ readers1[pageLocks[p]] = {}
                           /\ writer[pageLocks[p]] = NoTid
                        THEN NoLock ELSE pageLocks[p]]

ReleaseLocks(t) ==
  LET inTable == Range(pageLocks)
      readers1 == [e \in LockIds |->
                     IF e \in inTable THEN readers[e] \ {t} ELSE readers[e]]
      writer1 == [e \in LockIds |->
                    IF e \in inTable /\ writer[e] = t THEN NoTid ELSE writer[e]]
  IN /\ readers' = readers1
     /\ writer' = writer1
     /\ pageLocks' = [p \in Pages |->
                        IF /\ pageLocks[p] # NoLock
                           /\ readers1[pageLocks[p]] = {}
                           /\ writer1[pageLocks[p]] = NoTid
                        THEN NoLock ELSE pageLocks[p]]

(* The pages commit flushes and abort reloads: every dirty cached page,   *)
(* whichever transaction dirtied it.  isDirty is read when the range loop *)
(* reaches the page.                                                      *)
DirtyCached == {v \in cached : dirty[v]}

Outcome == [commit |-> "committed", abort |-> "aborted"]

(***************************************************************************)
(* The loop `for hash, page := range bp.pages` of commit and abort, one    *)
(* turn per step.  Taking bp.lock is merged into the first turn and the    *)
(* lock release loop and bp.lock.Unlock into the last (acquiring a lock    *)
(* commutes to the right, releasing one to the left, with every step of   *)
(* another thread), so the states a model checker sees inside the loop are *)
(* the ones between a page's flush or re-read and its setDirty(-1, false). *)
(* bp.pages is never empty (the pool starts full and eviction replaces).   *)
(***************************************************************************)
Unvisited(t) == IF pc[t] = "idle" THEN cached ELSE todo[t]

(* A turn of the loop may start: bp.lock free (first turn) or held here. *)
LoopTurn(t, kind, v) ==
  /\ \/ pc[t] = "idle" /\ ~PoolLocked
     \/ pc[t] = kind /\ clearing[t] = {}
  /\ v \in Unvisited(t)

(* After the loop: release tid's locks (ReleaseLocks), forget tid, unlock. *)
EndLoop(t, kind) ==
  /\ ReleaseLocks(t)
  /\ running' = running \ {t}
  /\ pc' = [pc EXCEPT ![t] = "done"]
  /\ held' = [held EXCEPT ![t] = {}]
  /\ got' = [got EXCEPT ![t] = {}]
  /\ outcome' = [outcome EXCEPT ![t] = Outcome[kind]]

(* The loop goes on with the pages rest, and clr to mark clean, or ends. *)
LoopGoesOn(t, kind, rest, clr) ==
  /\ todo' = [todo EXCEPT ![t] = rest]
  /\ clearing' = [clearing EXCEPT ![t] = clr]
  /\ \/ rest = {} /\ clr = {} /\ EndLoop(t, kind)
     \/ /\ rest # {} \/ clr # {}
        /\ pc' = [pc EXCEPT ![t] = kind]
        /\ UNCHANGED <<lockVars, held, got, outcome>>

(* A turn of commit's loop: a dirty page is flushed to its own file       *)
(* (flushPage: toBuffer, then the write at its offset).                   *)
CommitFlushPage(t, v) ==
  /\ LoopTurn(t, "commit", v)
  /\ \/ /\ dirty[v]
        /\ disk' = [disk EXCEPT ![v] = content[v]]
        /\ LoopGoesOn(t, "commit", Unvisited(t) \ {v}, {v})
     \/ /\ ~dirty[v]
        /\ UNCHANGED disk
        /\ LoopGoesOn(t, "commit", Unvisited(t) \ {v}, {})
  /\ UNCHANGED <<content, dirty, cached, usedPages, req, ptr, wrote>>

(* readPage of the dirty page: its object re-initialised from disk. *)
AbortReload(v) == content' = [content EXCEPT ![v] = disk[v]]

(* A turn of abort's loop: a dirty page is re-read from its file. *)
AbortReloadPage(t, v) ==
  /\ LoopTurn(t, "abort", v)
  /\ \/ /\ dirty[v]
        /\ AbortReload(v)
        /\ LoopGoesOn(t, "abort", Unvisited(t) \ {v}, {v})
     \/ /\ ~dirty[v]
        /\ UNCHANGED content
        /\ LoopGoesOn(t, "abort", Unvisited(t) \ {v}, {})
  /\ UNCHANGED <<disk, dirty, cached, usedPages, req, ptr, wrote>>

(* page.setDirty(-1, false), the end of that turn: whatever was written  *)
(* to the page since the flush or the re-read is now marked clean.       *)
ClearDirty(t) ==
  /\ pc[t] \in {"commit", "abort"} /\ clearing[t] # {}
  /\ dirty' = [v \in Pages |-> IF v \in clearing[t] THEN FALSE ELSE dirty[v]]
  /\ LoopGoesOn(t, pc[t], todo[t], {})
  /\ UNCHANGED <<disk, content, cached, usedPages, req, ptr, wrote>>

CommitTransaction(t) ==
  \/ \E v \in Pages : CommitFlushPage(t, v)
  \/ pc[t] = "commit" /\ ClearDirty(t)

AbortTransaction(t) ==
  \/ \E v \in Pages : AbortReloadPage(t, v)
  \/ pc[t] = "abort" /\ ClearDirty(t)

(* Every caller thread has finished its transaction. *)
Finished ==
  /\ \A t \in Tids : pc[t] = "done"
  /\ UNCHANGED vars

(* The steps of a GetPage call once it has started. *)
GetPageStep(t) ==
  \/ LockGranted(t) \/ LockRefused(t)
  \/ FetchCached(t) \/ FetchEvicting(t)
  \/ FetchPoolFull(t)

(* The steps of a commit or abort once it holds bp.lock. *)
PoolLoopStep(t) ==
  /\ pc[t] \in {"commit", "abort"}
  /\ CommitTransaction(t) \/ AbortTransaction(t)

Next ==
  \/ \E t \in Tids :
       \/ BeginTransaction(t)
       \/ \E p \in Pages, perm \in Perms : GetPage(t, p, perm)
       \/ GetPageStep(t)
       \/ \E p \in Pages : WritePage(t, p)
       \/ CommitTransaction(t)
       \/ AbortTransaction(t)
  \/ Finished

(* The steps a thread takes inside a call: its pc tells GetPage's from   *)
(* commit's and abort's, so weak fairness of their union is weak fairness *)
(* of each.                                                               *)
ThreadStep(t) == GetPageStep(t) \/ PoolLoopStep(t)

(* Goroutines are scheduled fairly: a GetPage call, once started, and a    *)
(* commit or abort that holds bp.lock run to their end.  When to begin,    *)
(* write, commit or abort is the caller's choice and is not assumed.       *)
Spec == Init /\ [][Next]_vars /\ \A t \in Tids : WF_vars(ThreadStep(t))

-----------------------------------------------------------------------------
(* The transactions whose writes a page may hold on disk. *)
Committed == {t \in Tids : outcome[t] = "committed"}
Ended == {t \in Tids : outcome[t] # "none"}

(***************************************************************************)
(* A clean cached page holds what its file holds: commit flushes, abort    *)
(* re-reads and eviction writes back only clean pages, so no interleaving  *)
(* of them leaves a clean cached page that differs from disk.              *)
(***************************************************************************)
CleanPageMatchesDisk ==
  \A v \in cached : ~dirty[v] => content[v] = disk[v]

(***************************************************************************)
(* The acquireLock rules on one pageLock object: a writer excludes every   *)
(* other reader, however grants, upgrades and releases interleave.         *)
(***************************************************************************)
LockEntryCompatible ==
  \A p \in Pages :
    pageLocks[p] # NoLock /\ writer[pageLocks[p]] # NoTid
      => readers[pageLocks[p]] \subseteq {writer[pageLocks[p]]}

(***************************************************************************)
(* Commit and abort release every lock of the transaction: no entry of the *)
(* lock table names an ended transaction, so an ended transaction never    *)
(* blocks a later one.                                                     *)
(***************************************************************************)
NoLockOfEndedTransaction ==
  \A p \in Pages :
    pageLocks[p] # NoLock => \A t \in Ended : ~Holds(pageLocks[p], t)

(***************************************************************************)
(* No-wait locking: every GetPage call returns, with the page or with an   *)
(* error, whatever the other transactions hold.                            *)
(***************************************************************************)
GetPageReturns ==
  \A t \in Tids : pc[t] \in {"lock", "fetch"} ~> pc[t] = "idle"

(***************************************************************************)
(* The lock protocol of spec section 4.4: while one transaction holds a    *)
(* write lock on a page, no other transaction holds any lock on it.        *)
(***************************************************************************)
WriteLockExclusive ==
  \A p \in Pages, t, u \in Tids :
    t # u /\ <<p, "WritePerm">> \in held[t]
      => \A perm \in Perms : <<p, perm>> \notin held[u]

(***************************************************************************)
(* FORCE/NO-STEAL, as AbortTransaction relies on: the disk holds writes of *)
(* committed transactions only.                                            *)
(***************************************************************************)
DiskHoldsOnlyCommitted ==
  \A p \in Pages : disk[p] \subseteq Committed

(***************************************************************************)
(* FORCE: once a transaction has committed, every page it modified holds   *)
(* its writes on disk.                                                     *)
(***************************************************************************)
CommittedWritesDurable ==
  \A t \in Committed : \A p \in wrote[t] : t \in disk[p]

(***************************************************************************)
(* flushPage writes a page at its own place: a page on disk holds only     *)
(* writes made to that page of that file.                                  *)
(***************************************************************************)
DiskHoldsOnlyOwnWrites ==
  \A p \in Pages : \A t \in disk[p] : p \in wrote[t]
====
