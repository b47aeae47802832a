\* The heap file against the TableContents contract.
CONSTANTS
  Vals = {v1, v2}
  SlotNum = 2
  MaxPages = 2
  NumPages = 1
  Nil = Nil
  Zero = Zero
SPECIFICATION Spec
SYMMETRY Symmetry
PROPERTY RefinesTableContents
