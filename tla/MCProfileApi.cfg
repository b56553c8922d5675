\* Three calls of both kinds on one user, from the empty table: eleven requests
\* that reach the service and three that do not.
SPECIFICATION ApiSpec
CONSTANTS
    Calls = {c1, c2, c3}
    PrefKeys = {"learning_goal", "daily_quota_minutes", "theme"}
    Versions = {1, 2}
    Requests <- FewRequests
    Me = "me"
    None = None
SYMMETRY Symmetry
INVARIANTS
    TypeOK
    RowsBuiltOnLoaded
    OneRowPerCommittedCall
    MaskConfines
