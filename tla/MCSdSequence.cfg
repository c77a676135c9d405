SPECIFICATION Spec
CONSTANTS
  MaxSequence = 3
  Cursors = {1}
  MaxReserve = 1
  Faults = {"journal_io", "short_write", "mount_io"}
  Tolerated = 1
  SwapRule = "documented"
  NoFile = NoFile
INVARIANTS
  NextIsFresh
  JournalKeepsPromise
  DurableRecordsSurvive
PROPERTIES
  RecordAboveServerFloor
