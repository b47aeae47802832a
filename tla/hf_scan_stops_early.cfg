\* Scans after deletes.
CONSTANTS
  Vals = {v1, v2}
  SlotNum = 2
  MaxPages = 2
  NumPages = 1
  Nil = Nil
  Zero = Zero
SPECIFICATION Spec
SYMMETRY Symmetry
INVARIANT ScanYieldsLiveTuples
