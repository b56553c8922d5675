\* Three calls, two users, both kinds, one video: every interleaving.
SPECIFICATION Spec
CONSTANTS
    Calls = {c1, c2, c3}
    Users = {u1, u2}
    Videos = {v1}
    ClientTimes = {}
    None = None
SYMMETRY Symmetry
INVARIANTS
    TypeOK
    SnapshotsFormAChain
    RowsFollowEvents
    OneEventPerCommittedCall
    AnswerReflectsMutation
    AnswerStatsNotOlder
    NoLockCycle
PROPERTY ImplementsLedger
