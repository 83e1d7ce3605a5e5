SPECIFICATION PipeSpec
CONSTANTS
  Capacity = 2
  MaxSeq = 3
  MaxFrame = 2
  MaxFlaps = 2
  Lengths <- MCLengths
INVARIANTS ArchiveGenuine ArchiveOrdered SentCoversArchive
