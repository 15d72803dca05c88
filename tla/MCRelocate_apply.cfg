SPECIFICATION RelocateSpec
CONSTANTS
  Programs <- MCPrograms
  Deltas <- MCDeltas
  Page <- MCPage
  Short <- MCShort
  Narrow <- MCNarrow
  Wide <- MCWide
INVARIANTS
  SlotsRight
  PairsMeet
  FailsForCause
