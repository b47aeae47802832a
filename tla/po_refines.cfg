\* One page of three slots and two tuple values: inserts until full,
\* deletes of live, deleted and never-used slots.
CONSTANTS
  Vals = {v1, v2}
  SlotNum = 3
  Nil = Nil
  Zero = Zero
SPECIFICATION Spec
INVARIANT TypeOK
PROPERTY RefinesPageContents
