\* The version lock against overlapping calls.
SPECIFICATION Spec
CONSTANTS
    Calls = {c1, c2, c3}
    PrefKeys = {goal}
    Versions = {1}
    None = None
SYMMETRY Symmetry
INVARIANT ExpectedVersionIsReplaced
