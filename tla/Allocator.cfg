\* Two streaming threads and two others, up to two buffers.
SPECIFICATION FairSpec
CONSTANTS
    MaxCount = 2
    Threads = {t1, t2, t3, t4}
    Streamers = {t1, t2}
INVARIANTS
    TypeOK
    AllocatorLives
    NoSampleLost
    NoWakeupLost
PROPERTY DecommitFreesWaiters
