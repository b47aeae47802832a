\* Two concurrent transactions on one file of two pages, with room for one
\* page in the pool: every fetch outcome and lock outcome is reachable, and
\* every GetPage call returns under weak fairness of the calling thread (no
\* symmetry, as the liveness property is checked in the same run).
CONSTANTS
  Tids = {t1, t2}
  Files = {f1}
  PageNos = {0, 1}
  NumPages = 1
  NoTid = NoTid
  NoLock = NoLock
SPECIFICATION Spec
VIEW ControlView
INVARIANTS
  TypeOK
  LockEntryCompatible
  NoLockOfEndedTransaction
PROPERTY GetPageReturns
