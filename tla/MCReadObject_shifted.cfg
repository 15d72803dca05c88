SPECIFICATION ReadSpec
CONSTANTS
  Files <- MCFiles
  Names <- MCNames
INVARIANT
  SymbolsHome
