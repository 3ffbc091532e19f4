SPECIFICATION MCSpec
CONSTANTS
  Provider = {"v1", "v2", "v3"}
  Hash = {"a", "b"}
  Proc = {"daemon", "cli"}
  PageLimit = 3
  RecordLimit = 1
  MaxFaults = 3
CHECK_DEADLOCK FALSE
INVARIANT RecordsSound
INVARIANT FailureHasCause
INVARIANT QuorumBehindPass
PROPERTY GroupVerdictFinal
PROPERTY QuorumDecided
 
