SPECIFICATION ReadSpec
CONSTANTS
  Files <- MCFiles
  Names <- MCNames
INVARIANTS
  ReadTypeOK
  RelocsNameSymbols
  KeptWhole
