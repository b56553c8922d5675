\* The versions of a video's events against the order of their effects.
SPECIFICATION Spec
CONSTANTS
    Calls = {c1, c2}
    Users = {u1}
    Videos = {v1}
    ClientTimes = {}
    None = None
INVARIANT VersionsOnlyGrow
