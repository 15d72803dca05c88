SPECIFICATION RelocSpec
CONSTANTS
  EntryLists <- MCEntryLists
INVARIANTS
  RoundTrip
  BlocksReadable
