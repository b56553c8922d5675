\* Two mutations, one report and one batch query of one user about one video,
\* over a pool of two connections.
SPECIFICATION FirstLikesSpec
CONSTANTS
    m1 = m1
    v1 = v1
    Mutations = {m1, m2}
    Reports = {r1}
    Users = {u1}
    Videos = {v1}
    ClientTimes = {}
    Ratios = {30}
    Totals = {1}
    None = None
    Reader = u1
    Batch <- OneVideo
    PoolSize = 2
INVARIANTS
    StatsAreSums
    BatchNotOlder
PROPERTY EveryCallEnds
