SPECIFICATION FwSpec
CONSTANTS
  Jobs <- MCJobs
  Byte <- MCByte
INVARIANTS
  FlattenFaithful
  RecordsAccepted
  MemoryRebuilt
