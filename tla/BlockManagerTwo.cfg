SPECIFICATION BMSpec
CONSTANTS
  s1 = s1
  s2 = s2
  s3 = s3
  Seqs <- MCTwoSeqs
  Tokens = {0, 1}
  SampledTokens = {0}
  Prompts <- MCChainPrompts
  NumBlocks = 3
  BlockSize = 1
  MaxModelLen = 4
  EnablePrefixCaching = TRUE
SYMMETRY SeqSymmetry
INVARIANTS
  TypeOK
  FreeIffUnreferenced
  CacheConsistent
  SharedPrefixAgrees
  CachePrefixClosed
  EvictionOrder
