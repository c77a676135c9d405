SPECIFICATION Spec
CONSTANTS
  MaxOp = 2
  None = None
  MaxInterval = 2
  MaxEvent = 1
  MaxOffset = 1
  MaxCrash = 1
  MaxFault = 1
INVARIANTS DrainedExactlyOnce GenerationsSeparated CompletedIsWhole EventsPreserved UnfinishedDrainBoots
PROPERTIES ImplementsTransaction AuthorizedEnds
CHECK_DEADLOCK FALSE
