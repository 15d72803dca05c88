SPECIFICATION InstrSpec
CONSTANT
  Idioms <- AllIdioms
INVARIANTS
  Lands
  OpcodeKept
  RefusedForCause
