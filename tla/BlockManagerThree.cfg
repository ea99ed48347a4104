SPECIFICATION BMSpec
CONSTANTS
  s1 = s1
  s2 = s2
  s3 = s3
  Seqs <- MCThreeSeqs
  Tokens = {0, 1}
  SampledTokens = {0, 1}
  Prompts <- MCPrompts
  NumBlocks = 3
  BlockSize = 2
  MaxModelLen = 4
  EnablePrefixCaching = TRUE
SYMMETRY SeqSymmetry
INVARIANTS
  RefCountExact
  HashMatchesHolder
  IndInv
  WritesExclusive
  CopiesWellDefined
  CopyTargetsScheduled
