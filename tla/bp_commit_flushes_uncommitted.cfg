\* Two transactions, no eviction: commit flushes every dirty page, including pages of a live transaction.
CONSTANTS
  Tids = {t1, t2}
  Files = {f1}
  PageNos = {0, 1}
  NumPages = 2
  NoTid = NoTid
  NoLock = NoLock
SPECIFICATION Spec
SYMMETRY Symmetry
INVARIANT DiskHoldsOnlyCommitted
