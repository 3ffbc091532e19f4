SPECIFICATION FairSpec
CONSTANTS
  Slots = 2
  Backends = {"docker", "vllm", "ray"}
  Challenged = TRUE
  MaxFaults = 2
CHECK_DEADLOCK FALSE
INVARIANT ExecutedOnce
INVARIANT EvidenceKept
PROPERTY AssignedJobStarts
PROPERTY WorkDelivered
