SPECIFICATION FairSpec
CONSTANTS
  s1 = s1
  s2 = s2
  s3 = s3
  Seqs <- MCTwoSeqs
  Tokens = {0, 1}
  SampledTokens = {0, 1}
  Prompts <- MCShortPrompt
  NumBlocks = 4
  BlockSize = 2
  MaxModelLen = 6
  EnablePrefixCaching = FALSE
  MaxNumSeqs = 2
  MaxNumBatchedTokens = 3
  EnableChunkedPrefill = FALSE
  MaxTokensChoices = {4}
  StopTokens = {1}
  ShareParams = FALSE
  AllowAbort = FALSE
  AllowFork = FALSE
PROPERTIES
  EveryRequestEnds
