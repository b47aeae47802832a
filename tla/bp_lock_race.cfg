\* Three transactions on one page: a commit sweeps a lock entry another thread has created but not yet locked.
CONSTANTS
  Tids = {t1, t2, t3}
  Files = {f1}
  PageNos = {0}
  NumPages = 1
  NoTid = NoTid
  NoLock = NoLock
SPECIFICATION Spec
SYMMETRY Symmetry
INVARIANT WriteLockExclusive
