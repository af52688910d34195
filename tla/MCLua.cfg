SPECIFICATION Spec
CONSTANTS
  Chunks <- MCChunks
  Meanings <- MCMeanings
  Cut <- MCCut
  LFIELDS_PER_FLUSH = 2
  MAXTAGLOOP = 10
  Collation <- MCCollation
  Numerals <- MCNumerals
INVARIANTS SameResult Verified StackDiscipline OpenUpvalues ChunksWhole
