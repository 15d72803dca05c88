SPECIFICATION AppendSpec
CONSTANTS
  Images <- MCImages
  SectionLists <- MCLists
  SectionNames <- MCNames
  LongNames <- MCLong
  MaxCalls <- ThreeCalls
INVARIANTS
  AppendTypeOK
  ImageSound
  DataHeld
  BeforeNamed
PROPERTY
  OldSectionsKept
CHECK_DEADLOCK FALSE
