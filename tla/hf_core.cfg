\* The heap file with InsertOp (INSERT of <<T1, T2, T1>>), DeleteOp
\* (DELETE FROM t) and LoadFromCSV of five small CSV files, between its
\* other callers' single inserts, deletes, commits, aborts, flushes, page
\* fetches and restarts.  Two pages of two slots sharing one frame:
\* appends evict, GetPage re-reads, abort reloads, restarts reopen the
\* file, and a statement fills the pool with dirty pages.  int64 as 3-bit
\* two's complement, strings of 2 bytes.
CONSTANTS
  Vals <- MCVals
  Src <- MCSrc
  SlotNum = 2
  MaxPages = 2
  NumPages = 1
  Nil = Nil
  Zero = Zero
  IntWidth = 3
  StringLength = 2
  Desc <- MCDesc
  Sep = 44
  CSVFiles <- MCFiles
  SumFields = {"a", "b", "c"}
SPECIFICATION FSpec
INVARIANTS
  TypeOK
  CacheWithinCapacity
  CleanPageMatchesDisk
PROPERTIES
  DiskWrittenOnlyAtCommit
  LoadFollowsSpec
  FieldSumFollowsSpec
  CallsReturn
