SPECIFICATION ResolveSpec
CONSTANTS
  Names <- MCNames
  Programs <- MCPrograms
INVARIANTS
  ResolveTypeOK
  AllMissingListed
  LookupFinds
PROPERTIES
  EntriesFinal
  ImplementsPromise
