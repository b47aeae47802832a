\* Two files, one frame: the evicted page is flushed through the file of the page being fetched.
CONSTANTS
  Tids = {t1, t2}
  Files = {f1, f2}
  PageNos = {0}
  NumPages = 1
  NoTid = NoTid
  NoLock = NoLock
SPECIFICATION Spec
SYMMETRY Symmetry
INVARIANT DiskHoldsOnlyOwnWrites
