SPECIFICATION FairSpec
CONSTANTS
    None = None
    Schedulers = {s1, s2}
    Releasing = {s1, s2}
    TTL = 1
    MaxToken = 4
 
PROPERTY LeaseRecovered
