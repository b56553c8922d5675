\* Two publishers, three events, batches of up to two, two faults.
SPECIFICATION FairSpec
CONSTANTS
    Publishers = {server, task}
    Events = {e1, e2, e3}
    Tokens <- FiveTokens
    NoToken = NoToken
    BatchSize = 2
    MaxFaults = 2
INVARIANTS
    TypeOK
    MarkedIsSent
    CopiesNeedFaults
PROPERTIES
    TokensFence
    EveryEventIsPublished
