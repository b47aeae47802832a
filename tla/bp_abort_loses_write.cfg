\* Two transactions on one page: one writes the page while the other's
\* abort is between re-reading it and clearing its dirty flag.
CONSTANTS
  Tids = {t1, t2}
  Files = {f1}
  PageNos = {0}
  NumPages = 1
  NoTid = NoTid
  NoLock = NoLock
SPECIFICATION Spec
SYMMETRY Symmetry
INVARIANT CleanPageMatchesDisk
