\* like_count against the number of likes.
SPECIFICATION Spec
CONSTANTS
    Calls = {c1, c2}
    Users = {u1}
    Videos = {v1}
    ClientTimes = {}
    None = None
INVARIANT LikeCountIsNumberOfLikes
