SPECIFICATION RunnerSpec
CONSTANTS
  s1 = s1
  s2 = s2
  s3 = s3
  Seqs <- MCTwoSeqs
  Tokens = {0, 1}
  SampledTokens = {0, 1}
  Prompts <- MCMixedPrompts
  NumBlocks = 3
  BlockSize = 2
  MaxModelLen = 6
  EnablePrefixCaching = FALSE
  MaxNumSeqs = 3
  MaxNumBatchedTokens = 3
  EnableChunkedPrefill = FALSE
  MaxTokensChoices = {3}
  StopTokens = {1}
  ShareParams = FALSE
  AllowAbort = TRUE
  AllowFork = TRUE
  Weights <- MCWeights
  Params <- MCParams
INVARIANTS
  UnchunkedWhole
  KVFaithful
  BackendsAgree
  SchedInv
