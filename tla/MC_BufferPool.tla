--------------------------- MODULE MC_BufferPool ---------------------------
(***************************************************************************)
(* Model-checking instance of BufferPool: transaction ids and files are    *)
(* model values given in the .cfg files; they are interchangeable, so the *)
(* safety runs check up to their permutations.                            *)
(***************************************************************************)
EXTENDS BufferPool, TLC

\* Transactions are symmetric: no definition tells two of them apart. Files are
\* not, since a flush writes through the file of the page being fetched.
Symmetry == Permutations(Tids)

\* Every variable but wrote, which no action reads: only DiskHoldsOnlyOwnWrites
\* and CommittedWritesDurable do, and runs that check neither may merge
\* states that differ in it alone.
ControlView == <<poolVars, lockVars, threadVars, held, got, outcome>>
====
