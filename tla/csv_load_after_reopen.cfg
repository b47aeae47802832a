\* LoadFromCSV into a heap file whose pages were re-read from disk (a
\* reopened file, as computeFieldSum's NewHeapFile of ./test1.dat, or a
\* page reloaded by abort or GetPage), with the hf_core bounds.
CONSTANTS
  Vals <- MCVals
  Src <- MCSrc
  SlotNum = 2
  MaxPages = 2
  NumPages = 1
  Nil = Nil
  Zero = Zero
  IntWidth = 3
  StringLength = 2
  Desc <- MCDesc
  Sep = 44
  CSVFiles <- MCFiles
  SumFields = {"a", "b", "c"}
SPECIFICATION FSpec
PROPERTIES
  LoadedLinesDurable
