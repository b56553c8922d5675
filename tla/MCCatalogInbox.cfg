\* Two workers; two videos, one with an ordering key and a broken event, the other
\* without a key; one message of each video repeats an event, two faults, and a
\* message is delivered twice at most.
SPECIFICATION FairSpec
CONSTANTS
    v1 = v1
    v2 = v2
    Workers = {w1, w2}
    Videos = {v1, v2}
    Keyed = {v1}
    Fields <- Columns
    Catalog <- TwoVideos
    MaxAttempts = 2
    MaxRepeats <- OneRepeat
    MaxFaults = 2
    None = None
INVARIANTS
    TypeOK
    ProjectionIsReplay
    AckedIsProcessed
PROPERTIES
    ImplementsReplica
    EveryEventIsProcessed
