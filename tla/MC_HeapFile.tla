---------------------------- MODULE MC_HeapFile ----------------------------
EXTENDS HeapFile

\* Tuple values are interchangeable: no definition tells two apart.
Symmetry == Permutations(Vals)
=============================================================================
