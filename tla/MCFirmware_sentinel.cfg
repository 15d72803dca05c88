SPECIFICATION FwSpec
CONSTANTS
  Jobs <- ResetJobs
  Byte <- MCByte
INVARIANT
  UpperAnnounced
