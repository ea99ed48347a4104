SPECIFICATION BMSpec
CONSTANTS
  s1 = s1
  s2 = s2
  s3 = s3
  Seqs <- MCTwoSeqs
  Tokens = {0, 1}
  SampledTokens = {0}
  Prompts <- MCLongPrompts
  NumBlocks = 3
  BlockSize = 2
  MaxModelLen = 6
  EnablePrefixCaching = TRUE
SYMMETRY SeqSymmetry
PROPERTIES
  FailedAllocationChangesNothing
