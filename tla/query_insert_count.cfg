\* INSERT of three tuples into an empty file of pages of two slots, with one
\* frame in the pool: the third insert finds the pool full of dirty pages.
CONSTANTS
  v1 = v1
  v2 = v2
  Vals = {v1, v2}
  Src <- MCSrc
  SlotNum = 2
  MaxPages = 2
  NumPages = 1
  Nil = Nil
  Zero = Zero
SPECIFICATION QSpec
INVARIANT InsertCountsSuccesses
