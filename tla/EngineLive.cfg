SPECIFICATION EngineSpec
CONSTANTS
  s1 = s1
  s2 = s2
  s3 = s3
  Seqs <- MCTwoSeqs
  Tokens = {0, 1}
  SampledTokens = {0, 1}
  Prompts <- MCTwoPrompts
  NumBlocks = 2
  BlockSize = 2
  MaxModelLen = 4
  EnablePrefixCaching = TRUE
  MaxNumSeqs = 2
  MaxNumBatchedTokens = 2
  EnableChunkedPrefill = TRUE
  MaxTokensChoices = {3}
  StopTokens = {1}
  ShareParams = FALSE
  AllowAbort = TRUE
  AllowFork = FALSE
  Weights <- MCWeights
  Params <- MCParams
  BadPrompts <- MCBad
  MaxPrompts = 2
INVARIANTS
  OutputsAreDense
  StepsMakeProgress
PROPERTIES
  EveryRequestEnds
  GenerateReturns
