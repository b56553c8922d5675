\* Three reports of two viewers of one video: below the 5 percent, above them,
\* and one step of exactly 5 percent; fewer and more seconds,
\* and a count below zero.
SPECIFICATION Spec
CONSTANTS
    Calls = {c1, c2, c3}
    Users = {u1, u2}
    Videos = {v1}
    Ratios = {2, 30, 35}
    Totals <- Reported
    None = None
SYMMETRY Symmetry
INVARIANTS
    TypeOK
    SecondsAgree
    WatchersExactUnlessOvertaken
    EventsInOrder
    AnswerIsCoherent
PROPERTY TotalsOnlyGrow
