SPECIFICATION PipelineSpec
CONSTANTS
  Jobs <- MCJobs
  Names <- MCNames
  Deltas <- MCDeltas
  Page <- MCPage
  Short <- MCShort
  Narrow <- MCNarrow
  Wide <- MCWide
  Inputs <- MCInputs
  Options <- MCOptions
  NameOrder <- MCOrder
  RelocSizes <- MCRelocSizes
INVARIANTS
  PipelineTypeOK
  AddressesMeant
  EntryMeant
  VerdictRight
PROPERTY
  LinkReturns
