# TLA+ models of godb

godb is the teaching relational engine in `src/godb`. It has heap files of fixed-size pages, a bounded buffer pool with page-level reader/writer locks and FORCE/NO-STEAL transactions, and a pull-iterator operator pipeline. This directory holds TLA+ models of it and the TLC configurations that check them. The models are written from the Go source. `spec.md` is used only to state what the code is meant to do.

## 1. Inventory

| Component | Source | State it keeps | Operations |
|---|---|---|---|
| Buffer manager | `buffer_pool.go` | `pages` (page key → page object), `UsedPages`, `NumPages`, `pageLocks` (page key → `*pageLock`{readers, writer}), `running`; one pool mutex and one mutex per pageLock | `NewBufferPool`, `BeginTransaction`, `GetPage` (→ `acquireLock`), `insertPage`, `CommitTransaction`, `AbortTransaction`, `FlushAllPages` |
| Heap page | `heap_page.go` | `SlotNum`, `UsedSlotsNum`, `Tuples` (slice of slots, `nil` = deleted), `IsDirty`, `PageNo`, owning file | `newHeapPage` (registers with `insertPage`), `insertTuple`, `deleteTuple`, `setDirty`/`isDirty`, `toBuffer`, `initFromBuffer`, `tupleIter` |
| Heap file | `heap_file.go` | `HeapPages` (pageNo → the page object, for the life of the file), `PageCount`, the OS file | `NewHeapFile`, `readPage`, `flushPage`, `insertTuple`, `deleteTuple`, `Iterator`, `LoadFromCSV`, `NumPages` |
| Tuple and schema | `tuple.go` | none (values) | `findFieldInTd`, `merge`, `writeTo`/`readTupleFrom`, `project`, `joinTuples`, `compareField`, `tupleKey` |
| Operators | `insert_op.go`, `delete_op.go`, `limit_op.go`, `project_op.go`, `join_op.go`, `order_by_op.go` | iterator closures: counters, seen-set, materialised right side, sorted buffer | `Iterator` of each, constructors, `Descriptor` |
| Aggregation states | `agg_state.go` | count, sum, min/max seeds | `Init`, `AddTuple`, `Copy`, `Finalize` |
| CSV loader | `heap_file.go` (`LoadFromCSV`), `lab1_query.go` | none | parse lines, `insertTuple` per line, `FlushAllPages` |

How the components interact:
- Operators pull tuples from their children. Insert and Delete call `HeapFile.insertTuple`/`deleteTuple`.
- The heap file owns exactly one page object per page number. The buffer pool caches pointers to these same objects. `readPage` re-initialises the object in place from disk and does not allocate a new one.
- `GetPage` takes the page lock first. It then takes the pool mutex, and on a miss it calls `readPage`. When the pool is full it evicts a clean page through `flushPage`.
- `insertTuple`, `deleteTuple` and `Iterator` of the heap file do not go through `GetPage`. They use `HeapPages` directly, and `insertTuple` writes `bp.pages` without the pool mutex.
- Commit flushes and abort re-reads every dirty cached page. Both then release the transaction's locks and drop empty lock entries.

What is hard:
- `acquireLock` is split in two by the unlock of the pool mutex. Commit and abort of other transactions can run in that gap.
- Transactions share dirty pages through the pool, and commit and abort act on all of them.
- Eviction does not look at locks.
- Page objects are shared between the heap file and the pool.
- The Go map races between heap-file writes and commit.
- The heap page's slot, hole and serialisation sequences.
- The numeric edges in the aggregates.

Properties that make each component correct:
- **Buffer manager**:
  - the cache stays within capacity (checked once insertPage, the path that allocates frames, is modelled);
  - clean cached pages equal disk;
  - a write lock excludes all other holders;
  - the disk holds only committed writes (FORCE/NO-STEAL);
  - committed writes are durable;
  - a flush writes the page at its own place;
  - ended transactions hold no locks;
  - GetPage always returns.
- **Heap page/file**: the live tuples after any insert/delete/flush/reload sequence are the multiset the operations produced. A scan visits each live tuple once. Record ids locate their tuples.
- **Operators**:
  - Limit yields min(N, |child|) tuples;
  - distinct projection yields unique tuples;
  - OrderBy yields a sorted permutation (stable per spec);
  - Insert/Delete report the count of successful changes once.
- **Aggregates**: they agree with the mathematical aggregate under int64 arithmetic.

## 2. Plan

Modules, in order of importance:
1. **BufferPool** (done, this sitting). It covers the transactions, the lock table and the cache. Together with `MC_BufferPool` it is the core: most of the system's concurrency is here.
2. **HeapPage** (done, second sitting). It covers the slots, `insertTuple`, `deleteTuple`, `toBuffer`/`initFromBuffer` as an abstraction of the bytes, and `tupleIter`. The in-memory page (`PageObject`) is checked against the abstract **PageContents** by refinement. Serialisation is checked at file level, by the TableContents refinement.
3. **HeapFile** (done, second sitting, single caller). It composes HeapPage objects with BufferPool's page store. It covers `insertTuple` (map-order page choice, page append through `newHeapPage`/`insertPage`), `deleteTuple`, the scan `Iterator`, `FlushAllPages` and the loader's insert+flush. It is checked against the abstract **TableContents**. Still planned: concurrent callers (inserts without locks, the race on `bp.pages`), by composing HeapFile with the BufferPool lock table.
4. **Operators** (done, third sitting). Limit, Project (distinct), Join and OrderBy as iterator state machines over every short child stream, each checked against a reference definition; OrderBy against a stable reference sort. **QueryOps** composes InsertOp and DeleteOp with HeapFile.
5. **Aggregates** (done, third sitting) as operators on records, driven by Operators and checked against folds, with int64 as narrow two's complement.
6. **TupleSchema** (done, fifth sitting): `setTableAlias`, `merge`, `findFieldInTd`, `project`, `writeTo` and `readTupleFrom` as operators. Operators calls them: `project` over aliased and joined scans, and a page image written and read back.
7. **CsvLoader** (done, fifth sitting): `LoadFromCSV` line by line over QueryOps, so loads interleave with statements, commits, aborts and restarts.
8. An abstract **TxnStore** spec: atomic commit/abort of per-transaction write sets over pages. BufferPool will be checked to refine it. This is expected to fail, for the reasons the violation runs below already show. A variant restricted to the contract under which it holds will be checked too.

## 3. BufferPool: what is modelled

Constants:

| Constant | Meaning | Values used |
|---|---|---|
| `Tids` | transaction ids; each is one caller goroutine that begins once and ends with commit or abort | model values |
| `Files` | heap files sharing the pool | model values |
| `PageNos` | page numbers present in every file | small sets, e.g. `{0, 1}` |
| `NumPages` | the pool capacity | 1 or 2 |
| `NoTid`, `NoLock` | sentinels for a missing writer and a missing entry | model values |

Page contents are abstracted to the set of transactions whose writes a page holds. This is enough to tell committed, uncommitted, lost and misplaced writes apart.

State and how it corresponds to the code:

| Variable | Code it stands for |
|---|---|
| `disk` | the page bytes in the file |
| `content` | the heap page object `HeapPages[pageNo]` |
| `dirty` | `IsDirty` |
| `cached` | the keys of `bp.pages` |
| `usedPages` | `UsedPages` |
| `pageLocks` | `bp.pageLocks`; `readers` and `writer` are the fields of each `pageLock` object (objects are ids, so an orphaned object keeps its state) |
| `running` | `bp.running` |
| `pc`, `req`, `ptr` | the caller's program counter, its `GetPage` arguments and acquireLock's local `pl` |
| `todo`, `clearing` | the pages `for hash, page := range bp.pages` in commit or abort has yet to visit, and the page whose `setDirty(-1, false)` comes next |
| `held`, `got`, `wrote`, `outcome` | history variables for the properties: locks granted, pages returned, pages modified, how the transaction ended |

Actions:

| Action | Code it models |
|---|---|
| `BeginTransaction` | `BeginTransaction` |
| `GetPage` | the first half of `acquireLock`: find or create the entry under the pool mutex |
| `LockGranted` / `LockRefused` | the second half of `acquireLock`, under the pageLock mutex |
| `FetchCached`, `FetchEvicting`, `FetchPoolFull` | the outcomes of the rest of `GetPage`. `readPage` re-reads the object before the capacity check. The victim is flushed through the requesting file. The free-frame branch (`UsedPages < NumPages`, lines 290-294) is not an action because no GetPage can reach it: `NewHeapFile` passes every page of the file through `newHeapPage` and `insertPage`, which counts frames up to `NumPages` and only replaces pages after that. So while `UsedPages < NumPages`, every existing page is already cached, and Init starts with `min(NumPages, |Pages|)` pages cached. The branch becomes reachable only for pages appended by `HeapFile.insertTuple`, which is plan item 3. |
| `WritePage` | the caller modifying a page it got under a write lock and calling `setDirty(tid, true)` |
| `CommitFlushPage` | one turn of `CommitTransaction`'s loop over `bp.pages`: a dirty page is flushed to its own file |
| `AbortReloadPage` | one turn of `AbortTransaction`'s loop: a dirty page is re-read from disk (`AbortReload`) |
| `ClearDirty` | the `page.setDirty(-1, false)` that ends the turn for a dirty page |
| `EndLoop` | the lock release loop, `delete(bp.running, tid)` and the unlock of the pool mutex |

Commit and abort hold the pool mutex throughout (`PoolLocked`), which keeps out `BeginTransaction` and both pool-mutex sections of `GetPage`. Two kinds of code still run during them:
- the second half of `acquireLock`;
- a caller writing a page it holds (`WritePage`), which takes no mutex at all.

So their loops take one step per page, plus one per `setDirty`. Some steps are merged:
- Taking the mutex is merged into the first turn, and the release loop and the unlock into the last. By Lipton's reduction, an acquire commutes to the right and a release to the left with every step of another thread.
- The release loop is one step. Each entry's section runs under that entry's mutex and commutes with `acquireLock`'s second half.

The states a checker sees inside the loop are therefore the windows between a page's flush or re-read and its `setDirty`. In those windows another thread's write is marked clean without reaching disk (run `bp_abort_loses_write`). Page contents are the set of transactions whose writes a page holds. A second write by the same transaction therefore leaves the contents unchanged, and only abort's window shows up in a trace. Commit's window (`buffer_pool.go:147-150`) loses such a write in the same way.

Fairness: `WF_vars(ThreadStep(t))` for every thread. `ThreadStep` is the rest of a GetPage call that has started, or the rest of a commit or abort that holds the pool mutex. A thread's `pc` tells the two apart, so weak fairness of their union is weak fairness of each. The Go scheduler eventually runs a runnable goroutine, and these steps wait only on mutexes that are held for bounded critical sections. Beginning, writing, committing and aborting are the caller's choices and get no fairness.

Not yet modelled:
- Failing seek, write and fsync calls in `flushPage`/`readPage` (a short read past the end of the file is modelled in HeapFile).
- Reuse of a transaction id after it ends.

## 3b. HeapPage, PageObject and HeapFile: what is modelled

`HeapPage` has no variables. A page is a record `[slotNum, used, tuples, dirty]` for `SlotNum`, `UsedSlotsNum`, the `Tuples` slice and `IsDirty`. Code slot `s` is `tuples[s + 1]`, and `Nil` is a nil `*Tuple`. Tuples are model values `Vals`. `Zero` is the all-zero tuple that `toBuffer` writes for an empty slot. Each method is an operator:

| Operator | Code |
|---|---|
| `NewHeapPage` | `newHeapPage` (its `insertPage` call is in HeapFile) |
| `CanInsert`, `InsertTuple`, `InsertedSlot` | `heapPage.insertTuple`: the full test, the append, the returned rid |
| `CanDelete`, `DeleteTuple` | `heapPage.deleteTuple` |
| `LiveSlots`, `TupleIter` | `tupleIter` |
| `ToBuffer`, `InitFromBuffer` | `toBuffer` and `initFromBuffer`; a page image is `[slotNum, used, slots]` |
| `ZeroImage` | the zero bytes `readPage` gets past the end of the file, because the `ReadFull` error is ignored |

`PageObject` is one page object driven by `insertTuple(v)` and `deleteTuple(RID{_, s})`, for every slot number `s`. `result` records what each call returned. `PageContents` is the contract from spec.md 4.2:
- rows are addressed by record ids;
- an id is never handed out twice;
- an insert fails only when the page is full;
- a delete removes exactly the row of a live id.

The refinement mapping is `rows <- [s \in LiveSlots(page) |-> Slot(page, s)]` and `issued <- 0..used-1`.

`HeapFile` has one caller and holds:
- the page objects (`f.HeapPages`);
- `PageCount`;
- the page images on disk, and the file length in pages;
- the page numbers in `bp.pages`, and `UsedPages`;
- `result`.

Its actions:

| Action | Code |
|---|---|
| `Insert(v)` | `HeapFile.insertTuple`. The first page in map order with a free slot is any page with one (`\E`). Otherwise `newHeapPage` → `insertPage` (free frame, or evict a clean page and flush it through the file), then `HeapPages[PageCount]`, `PageCount++`, insert, mark dirty. If every cached page is dirty, an error is returned. |
| `Delete(p, s)` | `HeapFile.deleteTuple`. `heapPage.deleteTuple`'s error is dropped and the page is marked dirty either way. |
| `Commit` | the page half of `CommitTransaction`: flush every dirty page in `bp.pages` |
| `FlushAllPages` | `FlushAllPages`: flush every cached page |
| `Abort` | the page half of `AbortTransaction`: `readPage` every dirty cached page, then clear its dirty flag |
| `GetPage(p)` | `GetPage` of an uncached page: `readPage`, then evict a clean page or return BufferPoolFull |
| `Restart` | a new process: `NewBufferPool` + `NewHeapFile` over the file, with one page per `PageSize` bytes, each registered with `insertPage` and read with `initFromBuffer` |

A line of `LoadFromCSV` is `Insert` followed by `FlushAllPages`. The transaction id is not modelled here, because the heap file ignores it (`setDirty` drops it and the heap file takes no locks).

`TableContents` is the contract from spec.md 4.3 and 6. Its state is a multiset `live` of the tuples a scan yields and a multiset `durable` of those on disk:
- an insert that succeeds adds its tuple;
- a delete removes the tuple it is given;
- commit (and `FlushAllPages`) sets durable to live;
- abort and restart set live back to durable.

The mapping takes `live` from `tupleIter` over the pages, and `durable` from `initFromBuffer` over the file.

Bounds: two values, 2 slots per page, up to `MaxPages = 2` pages, 1 frame.
- This reaches: appends that evict, an append refused because the pool is full of dirty pages, GetPage eviction and refusal, an abort of a never-flushed page, and restarts.
- Sequences are bounded because a page accepts at most `SlotNum` inserts after each reload.
- `MaxPages` is the only model bound. At the bound, the append branch is disabled rather than turned into an error.

## 3c. Aggregates, Operators and QueryOps: what is modelled

`Aggregates` has no variables. Each aggregation state of `agg_state.go` is a record of its struct's fields, and `Init`, `AddTuple` and `Finalize` are operators on it (`CountInit`, `SumAddTuple`, `MinFinalize`, ...). `AddTuple` is given the value the state's expression evaluates to. `Copy` copies the struct, which a record value already is.
- A DBValue is a tagged record `[type, int, str]`: `IntField(x)` or `StringField(s)`.
- int64 is kept as `IntWidth`-bit two's complement. `Wrap` is the silent wrap of `+=`, `MinInt`/`MaxInt` are the seeds `-1 << 63` and `1<<63 - 1`, and `GoQuo` is Go's truncating `/`.
- A string is a sequence of bytes. `StrLess` is Go's `<`, byte by byte. `MinStringSeed` is the ten 0x7f bytes of `MinAggState.Init`.
- `AvgFinalize` is `"panic"` when `count` is 0 (integer divide by zero).

`Operators` runs one query per behaviour. `plan` picks Limit, Project, Join, OrderBy or the aggregation states. The operator's parameters are chosen in Init from small sets. The child is a scan of a table that does not change during the query: a sequence `child` of up to `MaxRows` tuples `[a: int, b: string]`, pulled through the cursor `pos`. The `Iterator` call is an Open action. Each call of the returned function, or each turn of the loop inside it, is a Pull action. `out` is what the function has returned.

| Action | Code |
|---|---|
| `LimitOpen` | `LimitOp.Iterator`: evaluate the limit once; `"limit is not IntField"` if it is a string |
| `LimitPull` | the closure: end at `currentNum >= N` (`LimitReached`), end of child, or return and count |
| `ProjectOpen`, `ProjectPull` | `Project.Iterator` and one turn of its loop: end, a duplicate `continue`d, or the projected tuple returned and its `tupleKey` remembered (`Remember`) |
| `JoinOpen` | `EqualityJoin.Iterator`: the right child read into `rightTuples`; the right child is a second scan of the same table (a self-join) |
| `JoinPull` | one turn of the closure's loop: fetch a left tuple and reset `curRightIndex` (`NewLeft`), test the next right tuple with interface `==` (`JoinMatch`) and return `joinTuples` on a match, or drop the left tuple |
| `OrderByOpen` | `OrderBy.Iterator`: read the child, `sort.Sort` (`SortTuples`, with `Less` from `orderByProcessor.Less`) |
| `OrderByPull` | `iterateFunc` |
| `AggOpen`, `AggPull` | the aggregator of spec.md 4.6 (not in `src/`): `Init` on each state, `AddTuple` per child tuple |

`sort.Sort` on at most 6 elements is Go's insertion sort in every release. The repository pins no Go version, and this is the one sort its behaviour is the same for. Hence `ASSUME MaxRows \in 0..6`, and `SortTuples` is that insertion sort over `Less`. `TupleKey` is the bytes `writeTo` produces: an int as its two's-complement byte, a string cut or zero-padded to `StringLength`. Two strings that differ only past `StringLength`, or only by trailing zero bytes, therefore get the same key.

A child pull may fail. For the limit, project and join plans, `Init` also chooses `fail`: the pull, from 1 to one past the last tuple, whose child call returns an error (0 for none). `ChildFails` is that pull, and `OnChildError` is `if err != nil { return nil, err }` in the three pull functions: the stream's status becomes `"error"`. OrderBy, InsertOp and DeleteOp are not given the fault (section 6).

`Operators` also runs two calls of `tuple.go` (section 3d): `ResolveCall` is `project` of a field list over a descriptor, and `StoreOpen`/`StorePull` write the child's tuples to a page image with `writeTo` and read them back with `readTupleFrom`.

`QueryOps` extends HeapFile with InsertOp and DeleteOp. `InsertOpCall` starts the function's loop, `InsertOpStep` is one `insertTuple` of the next child tuple (its error ignored, `num++`), and `InsertOpReturn` returns the count. DeleteOp's child is `HeapFile.Iterator` over the same file, and `DeleteOpStep` is one turn: next page, the scan's end, a nil slot (which ends DeleteOp's loop), or `deleteTuple` of the tuple at `(page, slot)` (its Rid). `EndTransaction` commits or aborts between statements. `Between` is every HeapFile action of another caller, taken only while no statement runs. `RoomForStatement` starts a statement only while the file can still grow by a full pool (`MaxPages` is a model bound, not a code limit). DeleteOp's scan is `ScanAtEnd`, `ScanPageDone`, `ScanNextPage`, `ScanTuple` and `ScanRid`, the lines of `HeapFile.Iterator` and `tupleIter` it runs. `returned` is the last count tuple, with the number of `insertTuple` calls behind it that succeeded.

Bounds (`ops_core`): 3-bit ints `{-4, 1, 3}`, the strings `"a"` and `"ab"` with `StringLength = 2`, up to 3 child tuples, limits 0, 2 and a string. These reach:
- a limit below, equal to and above the child's length;
- a distinct duplicate, and keys of a string zero-padded to `StringLength`;
- multi-key sorts with ties on the first key and descending keys;
- sums that wrap, and an AVG of negative values, where truncation differs from the floor;
- MIN and MAX at their seeds, and MIN over the strings from `MinStringSeed`;
- field lists resolved over `TableDesc`, its aliases `t` and `u`, and the merge of two aliased copies: unqualified names that are ambiguous, qualified names that pick the later of two candidates, unknown types, and a list whose second field fails;
- strings of `StringLength` bytes, strings shorter (zero-padded) and with an inner zero byte, and negative ints that only a signed decode reads back;
- a child error on the first pull, in the middle, and in place of the end of the stream, with limits reached before and after it.
No fairness: every property is a state invariant.

## 3d. TupleSchema and CsvLoader: what is modelled

`TupleSchema` has no variables. A descriptor is a sequence of `FieldType(fname, qual, ftype)` records, with qual `""` for an unqualified field and ftype `"int"`, `"string"` or `"unknown"`.

| Operator | Code (`tuple.go`) |
|---|---|
| `SetTableAlias`, `Merge` | `setTableAlias`, `merge` |
| `Candidate`, `NextBest`, `FindFrom`, `FindFieldInTd` | `findFieldInTd`'s loop. A candidate has the same name and the same type, unless the query's type is unknown. A second candidate of an unqualified query is `AmbiguousName`. `best` moves to a candidate whose qualifier matches, or to the first candidate. No candidate gives `IncompatibleTypes`. |
| `ProjectTuple` | `project`: each field resolved and copied; the first field that fails fails the call |
| `FieldBytes`, `WriteTo`, `TupleKey` | `writeTo` (an int64 as its two's-complement bytes, here one byte of `IntWidth` bits; a string cut or zero-padded to `StringLength`), and `tupleKey` |
| `DecodeInt`, `TrimZeros`, `ReadField`, `ReadFieldsFrom`, `ReadTupleFrom` | `readTupleFrom`: a signed decode, `bytes.TrimRight` of zero bytes, and failure on a short buffer or an unknown type |

`CsvLoader` extends QueryOps with `LoadFromCSV`. The layering is HeapFile < QueryOps < CsvLoader, so a load runs on the same heap file, pool and disk as the statements and the other callers. A CSV file is a record `[lines, hasHeader, skipLastField, meanings]`:
- `lines` are the byte sequences `bufio.Scanner` hands over, with line ends removed;
- `meanings` is what spec.md 6 says each line means as a data line: a row, or the error it fails with.

The meanings are used only by the properties.

| Action | Code |
|---|---|
| `LoadCall` | the call. It is taken only between statements, with no dirty page in the pool, as `computeFieldSum` and the tests call it, and with room for the page a load may append. `ld.before` records the tuples on disk. |
| `LoadLine` | one turn of the scanner loop. End of file returns nil. Otherwise the line goes through `strings.Split` on `Sep` (`Split`, `SplitLine` with `skipLastField`), and then one of: the arity check (`MalformedData`), the header skip (`HeaderLine`), the parse of every field (`ParseField`: `TrimSpace`, then `ParseFloat` truncated by `int()`, or a String cut to `StringLength`; failure is `TypeMismatch`), or `insertTuple` with its error dropped. |
| `LoadFlush` | the `FlushAllPages` after each inserted line |

`ParseInt` handles signed decimals with an optional fraction. Those are the only numeric fields in the checked files; exponents, `inf` and hex floats are not modelled.

Bounds (`hf_core`, `MC_CsvLoader`): the table is `(a int, b string)`, with 3-bit ints and `StringLength = 2`. There are six files, covering:
- a header;
- a field with spaces and a fraction;
- a negative fraction, where truncation differs from the floor;
- a string longer than `StringLength`;
- a line with too few fields;
- a non-numeric Int field after good lines;
- a header-only file;
- a trailing separator dropped by `skipLastField`.

`FieldSum` extends CsvLoader with `computeFieldSum` (`lab1_query.go`). `fs` is the running call.

| Action | Code |
|---|---|
| `FieldSumCall` | the call: `NewHeapFile("./test1.dat", td, bp)` (`Restart`), then `LoadFromCSV(f, true, ",", false)`, run by CsvLoader's `LoadLine` and `LoadFlush`. The code takes the caller's `bp` (`lab1_query.go:30`). The model assumes what the tests do, a pool of its own with no other file's pages in it, so `Restart` rebuilds the pool from this file alone. |
| `FieldSumLoaded` | the load's error, or the lookup of the first field named `sumField` (`Named`), `NotFound`, the type test (`IsIntField`, `NotInt`) and the call to `Iterator` |
| `FieldSumStep` | one pull of the scan and `sum += value`, in wrapped int64 (`FieldInt`); a nil tuple or the end of the file returns the sum |

`FSpec` adds weak fairness to the steps a running statement or `computeFieldSum` takes in its caller's goroutine (`StatementStep`, `SumStep`): the Go scheduler runs a runnable goroutine. `LoadFromCSV`'s steps get none. Its loop is bounded by the file's lines, and TLC cannot evaluate `ENABLED` of its line step in reasonable time. So no liveness property is stated for the load, and `CallsReturn` covers `computeFieldSum` only from its scan on.

`MCSrc = <<T1, T2, T1>>` is the INSERT statement's child. A load can run on a freshly started file, after statements, after an abort and after a restart.

## 4. Runs

| Run | Expect | Checks | Bounds | What it shows |
|---|---|---|---|---|
| `bp_core` | pass | TypeOK, LockEntryCompatible, NoLockOfEndedTransaction, GetPageReturns | 2 tids, 1 file × 2 pages, 1 frame, no symmetry (the liveness property rules it out); `VIEW ControlView` leaves out `wrote`, which no action reads | Every action fires: evictions, BufferPoolFull, refused and granted locks, upgrades, and commit and abort loops interleaved with the other thread's lock steps and writes. No-wait locking: every GetPage returns, under fairness of the calling goroutine. About 712k states, about 3 minutes. |
| `bp_lock_race` | violation | WriteLockExclusive | 3 tids, 1 page | t1 creates the lock entry. t2 commits and sweeps it as empty. t1 then locks the orphan, and t3 gets a write lock on the same page. |
| `bp_commit_flushes_uncommitted` | violation | DiskHoldsOnlyCommitted | 2 tids, 2 frames (no eviction) | t1 writes a page. t2 commits and flushes it. |
| `bp_evict_wrong_file` | violation | DiskHoldsOnlyOwnWrites | 2 tids, 2 files × 1 page, 1 frame | The victim of file f1 is flushed into file f2. |
| `bp_abort_loses_write` | violation | CleanPageMatchesDisk | 2 tids, 1 page | t1 writes the page. t2's abort re-reads it from disk. t1 writes it again. t2's `setDirty(-1, false)` then marks it clean, so t1's commit flushes nothing of it. |
| `po_refines` | pass | TypeOK, RefinesPageContents | 1 page, 3 slots, 2 values (201 states) | The in-memory page implements PageContents. |
| `hf_core` | pass | TypeOK, CacheWithinCapacity, CleanPageMatchesDisk, DiskWrittenOnlyAtCommit, LoadFollowsSpec, FieldSumFollowsSpec, CallsReturn | `MC_CsvLoader`: 2 pages × 2 slots, 1 frame, the six files of 3d, `SumFields = {a, b, c}` (about 290k states, under 2 minutes) | With InsertOp, DeleteOp, LoadFromCSV and every other heap-file call interleaved between them: the pool stays within capacity, clean pages serialise to the disk bytes, and only commit and FlushAllPages change the disk. Every line a load inserts is the row spec.md 6 parses it to, and the load returns the error of its first bad data line. `computeFieldSum` returns the load's error, `NotFound` or `NotInt` as its comment says. On a `test1.dat` that was empty at the call, it returns the column's sum over the rows spec.md 6 parses. Under the fairness of the calling goroutine, InsertOp, DeleteOp and the sum's scan return. |
| `hf_refines_table` | violation | RefinesTableContents | same | insert, delete, commit: the deleted tuple is committed as a live zero tuple. |
| `csv_load_after_reopen` | violation | LoadedLinesDurable | as `hf_core` | insert, commit, restart, then a load: the load returns nil, but a row it inserted never reaches disk. `insertTuple` appended it past the `SlotNum`-long slice that `initFromBuffer` made. |
| `hf_scan_stops_early` | violation | ScanYieldsLiveTuples | same | insert, insert, delete slot 0: the scan returns nil first and sees nothing. |
| `ops_core` | pass | TypeOK, LimitYieldsFirstN, ProjectYieldsFirstOccurrences, JoinYieldsLeftMajorMatches, ChildErrorsPropagate, OrderByIsStableSort, AggregatesAgreeWithFolds, ProjectResolvesAsSpecified, StoredTuplesReadBack | see 3c (about 109k states) | Each operator, at every pull, has returned a prefix of its reference (first N; projections with first occurrences by serialised key; left-major matching pairs; the stable lexicographic sort), and all of it at the end. Limit, Project and Join never report the end of a stream after the pull whose child call failed. The five aggregation states finalise to the count, the wrapped sum, the truncated mean, the max and the min of the Int values, and MIN over String to the smallest string. `project` resolves every field list as spec.md 3 says. Tuples written with `writeTo` read back as the stored values: strings cut and with trailing zeros trimmed, ints signed. |
| `query_insert_count` | violation | InsertCountsSuccesses | 2 values, 2 slots, 1 frame, `Src = <<v1, v2, v1>>` | Two inserts fill the one frame with a dirty page. The third insert fails with BufferPoolFull. InsertOp still returns 3. |

Why the bounds are enough:
- Two transactions and two pages with one frame reach every branch of `GetPage` and every lock outcome (grant, refusal, upgrade, re-entry).
- Every violation above needs at most three transactions.
- The lock-entry race needs exactly three: the creator, a committer that sweeps, and a third writer.

Each property of a passing run has a mutant in `PROJECT.json`, and TLC finds each mutant violated:
- an eviction that also counts the new page in `UsedPages` (breaks TypeOK's `usedPages \in 0..NumPages`);
- an upgrade granted to any reader;
- a release that keeps the writer;
- a blocking acquire that spins;
- an off-by-one full-page test (TypeOK in `po_refines` and `hf_core`);
- a returned rid one past the slot;
- `insertPage` counting a frame on eviction;
- an abort that only clears dirty flags;
- an eviction that takes dirty pages;
- a limit whose type is not checked (TypeOK in `ops_core`);
- a limit test `>` instead of `>=`;
- a distinct projection that never remembers a key;
- a join that keeps `curRightIndex` for a new left tuple;
- an OrderBy `Less` that stops after the first expression;
- a MAX seeded with 0;
- a `findFieldInTd` that ignores the qualifier and keeps the first candidate;
- an int64 decoded as unsigned;
- a loader that skips every line of a file with a header;
- a `computeFieldSum` that does not check the field's type;
- a scan that does not advance to the next page (`CallsReturn`);
- a pull function that takes the child's error for the end of the stream.

## 5. Findings

- **Lock entry race** (`buffer_pool.go:199`). `acquireLock` uses the pageLock pointer after it has released the pool mutex. A concurrent commit or abort deletes entries with no holders, including one that was just created. Two transactions can then hold conflicting locks on the same page.
- **Commit flushes other transactions' dirty pages** (`buffer_pool.go:142`). Uncommitted data reaches disk. That breaks the premise the abort path relies on.
- **Abort reverts other transactions' dirty pages** (`buffer_pool.go:100`). Another live transaction's writes are lost even if it later commits. `BufferPool` states this as `CommittedWritesDurable`. It is the whole-pool loop of commit run the other way, and no run checks it separately.
- **Eviction ignores locks** (`buffer_pool.go:277`). A page handed out for writing can be evicted before it is written, and the write is then never flushed. No run shows it (see the next item but one).
- **Eviction flushes through the wrong file** (`buffer_pool.go:280`, and `insertPage` line 61). It writes one file's page into another file.
- **Deleted tuples come back** (`heap_page.go:174`, `:167`). `toBuffer` writes a deleted slot below `UsedSlotsNum` as an all-zero tuple and keeps the count. Committing a delete therefore stores a zero tuple, which a restart, an abort or a GetPage reload makes visible. This contradicts spec.md 4.2 (round trip) and 6 (durability).
- **Inserts after a reload vanish** (`heap_page.go:222`, run `csv_load_after_reopen`). `initFromBuffer` makes the slice `SlotNum` long, so the next `insertTuple` appends past it. The returned rid names a nil slot, and the tuple is neither iterated nor flushed. `LoadFromCSV` into a reopened file (as `computeFieldSum` does with `test1.dat`) returns nil and loses the row.
- **A scan stops at the first deleted tuple** (`heap_file.go:353`). The iterator returns the nil in that slot, and callers read it as end of stream.
- **Writes to evicted pages are never committed** (`heap_file.go:258`, `:213`). The heap file modifies pages in `HeapPages` directly, and commit only flushes `bp.pages`, so an insert or delete on a page evicted from the pool is lost. This is found by reading the code, and no run shows it. The shortest trace of the property once checked (no page dirty after commit) was a failed delete that changes nothing. Showing a lost insert takes a run of its own, and the run budget went to the next finding.
- **A write during another transaction's commit or abort is lost** (`buffer_pool.go:112`, `:150`, run `bp_abort_loses_write`). Commit and abort hold only the pool mutex, which a caller writing a page never takes. A write that lands between a page's flush or re-read and its `setDirty(-1, false)` leaves the page clean but different from disk. The writer's own commit then flushes nothing of it.
- **Aborting a new page kills it** (`heap_file.go:184`). `readPage` ignores the short read, so the page gets `SlotNum = 0` and can never hold a tuple again.
- **InsertOp counts failed inserts** (`insert_op.go:46`, run `query_insert_count`). The error of `insertTuple` is dropped and `num` is incremented anyway, so the count tuple exceeds the tuples inserted once the pool is full of dirty pages. spec.md 4.5 says it is the number inserted.

## 6. Not modelled

- DeleteOp's count. DeleteOp deletes only the tuple its scan has just returned, so the error of `heapPage.deleteTuple` that `deleteTuple` drops (`heap_file.go:265`) is never reached, and a count property would hold whatever the code does.
- Child errors of OrderBy, InsertOp and DeleteOp. OrderBy's check of the wrong `err` (`order_by_op.go:64`) turns a failing child into a short input, and InsertOp's and DeleteOp's loops end on an error and return their count. Showing that takes a run expected to fail, and the project has no room for one more run.
- InsertOp with a child scanning the table it inserts into. The scan re-reads `NumPages` and `UsedSlotsNum` on every pull, so it would see its own inserts.
- MIN over strings at or above the 0x7f seed (`agg_state.go:245`). `MinStringSeed` is modelled and MIN over String is checked, but `ops_core`'s strings are ASCII, below the seed. A string starting with a byte ≥ 0x80 (any non-ASCII UTF-8 text) would finalise to the seed, against spec.md 4.6. Showing that takes a run expected to fail, and the project has no room for one more run.
- `LoadFromCSV` with another transaction's dirty pages in the pool (`heap_file.go:150`). Its dropped `insertTuple` error then loses lines for certain. `LoadCall` is taken with a clean pool, as its callers use it.
- The sum `computeFieldSum` returns on a `test1.dat` that already held rows. After the reload, the rows of the load are lost (finding `heap_page.go:222`), so the sum is wrong; `FieldSumFollowsSpec` states the sum only for a file empty at the call. The partial failure at `lab1_query.go:42` (a load error leaves the lines before it inserted) is within the error clause.
- Termination of `LoadFromCSV` (see 3d).
- `bufio.Scanner`'s split into lines, its 64 KiB line limit, and `ParseFloat` beyond signed decimals.
- Heap-file calls by concurrent goroutines. The heap file takes no locks, and the lock table is composed only in `BufferPool`.
- A second call of the Insert or Delete function. QueryOps lets it happen (it re-runs the whole child), but no property states the one-count-tuple contract.
- Sorts of more than 6 tuples, where `sort.Sort`'s instability would show.
