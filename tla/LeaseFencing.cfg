SPECIFICATION Spec
CONSTANTS
    None = None
    Schedulers = {s1, s2, s3}
    Releasing = {s1, s2, s3}
    TTL = 1
    MaxToken = 2
INVARIANT StaleLeaderFenced
