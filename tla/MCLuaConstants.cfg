SPECIFICATION Spec
CONSTANTS
  Chunks <- MCConstantChunks
  Meanings <- MCConstantMeanings
  Cut <- MCNoCut
  LFIELDS_PER_FLUSH = 2
  MAXTAGLOOP = 10
  Collation <- MCCollation
  Numerals <- MCNumerals
INVARIANT SameResult
