--------------------------- MODULE MC_PageObject ---------------------------
EXTENDS PageObject, TLC

\* Tuple values are interchangeable: no definition tells two apart.
Symmetry == Permutations(Vals)
=============================================================================
