SPECIFICATION KernelSpec
CONSTANTS
  BlockSize = 2
  TileM = 2
  TileN = 4
  NumHeads = 2
  NumKvHeads = 1
  NumBlocks = 5
  Batches <- MCBatches
  Scores <- MCScores
  MaxScore = 2
  Exp <- MCExp
INVARIANTS
  KernelMatchesReference
  NoNaN
PROPERTIES
  RowsWrittenOnce
