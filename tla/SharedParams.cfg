SPECIFICATION EngineSpec
CONSTANTS
  s1 = s1
  s2 = s2
  s3 = s3
  Seqs <- MCTwoSeqs
  Tokens = {0, 1}
  SampledTokens = {0, 1}
  Prompts <- MCTwoPrompts
  NumBlocks = 3
  BlockSize = 2
  MaxModelLen = 5
  EnablePrefixCaching = TRUE
  MaxNumSeqs = 2
  MaxNumBatchedTokens = 2
  EnableChunkedPrefill = TRUE
  MaxTokensChoices = {3}
  StopTokens = {}
  ShareParams = TRUE
  AllowAbort = FALSE
  AllowFork = FALSE
  Weights <- MCWeights
  Params <- MCParams
  BadPrompts <- MCBad
  MaxPrompts = 2
PROPERTIES
  LengthAsAsked
