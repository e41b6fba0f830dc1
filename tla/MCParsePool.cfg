SPECIFICATION FairSpec
CONSTANTS
  JobCount = 3
  WorkerCount = 2
  Timeout = 3
  MaxTime = 5
INVARIANTS
  TypeOK
  OneResultPerTable
  ResultsAreTrue
PROPERTIES
  RefinesTableReading
  LoopEnds
CHECK_DEADLOCK FALSE
