SPECIFICATION FairSpec
CONSTANTS
  Records = {r1, r2, r3}
  MaxRequests = 3
INVARIANTS
  TypeOK
  ResumedOnceAfterItsFunction
  NoRequestLost
  RecordHasOneOwner
  NoRecordLeaks
  UnlockedCheckHolds
PROPERTIES
  NoWriteToPublishedRecord
  ImplementsHandoff
\* A crash ends the program.
CHECK_DEADLOCK FALSE
