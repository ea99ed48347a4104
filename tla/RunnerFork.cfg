SPECIFICATION RunnerSpec
CONSTANTS
  s1 = s1
  s2 = s2
  s3 = s3
  Seqs <- MCThreeSeqs
  Tokens = {0, 1}
  SampledTokens = {0, 1}
  Prompts <- MCOnePrompt
  NumBlocks = 3
  BlockSize = 2
  MaxModelLen = 6
  EnablePrefixCaching = TRUE
  MaxNumSeqs = 3
  MaxNumBatchedTokens = 3
  EnableChunkedPrefill = TRUE
  MaxTokensChoices = {2}
  StopTokens = {1}
  ShareParams = FALSE
  AllowAbort = TRUE
  AllowFork = TRUE
  Weights <- MCWeights
  Params <- MCParams
SYMMETRY SeqSymmetry
INVARIANTS
  SchedulerTypeOK
  KVFaithful
  CacheFaithful
PROPERTIES
  SchedulerSpec
  ImplementsDense
