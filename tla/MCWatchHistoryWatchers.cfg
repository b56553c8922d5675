\* unique_watchers against two first reports of one viewer.
SPECIFICATION Spec
CONSTANTS
    Calls = {c1, c2}
    Users = {u1}
    Videos = {v1}
    Ratios = {30}
    Totals = {1}
    None = None
INVARIANT UniqueWatchersCountsUsers
