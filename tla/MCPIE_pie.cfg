SPECIFICATION PIESpec
CONSTANTS
  Files <- MCFiles
  Options <- MCOptions
  Biases <- MCBiases
  Narrow <- MCNarrow
INVARIANTS
  RebaseAgrees
  PIEApart
  HeadersFree
  PIEFailsForCause
