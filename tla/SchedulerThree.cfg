SPECIFICATION Spec
CONSTANTS
  s1 = s1
  s2 = s2
  s3 = s3
  Seqs <- MCThreeSeqs
  Tokens = {0, 1}
  SampledTokens = {0, 1}
  Prompts <- MCPrompts
  NumBlocks = 2
  BlockSize = 2
  MaxModelLen = 6
  EnablePrefixCaching = TRUE
  MaxNumSeqs = 2
  MaxNumBatchedTokens = 2
  EnableChunkedPrefill = TRUE
  MaxTokensChoices = {1, 3}
  StopTokens = {1}
  ShareParams = FALSE
  AllowAbort = TRUE
  AllowFork = TRUE
SYMMETRY SeqSymmetry
INVARIANTS
  QueuesPartition
  TableExact
PROPERTIES
  BatchWithinLimits
  FIFO
  Lossless
  LengthAsAsked
  KVSpec
