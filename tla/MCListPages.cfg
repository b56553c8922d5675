\* Up to three items, pages of one or two, two changes in between, one of them a projection perhaps.
SPECIFICATION Spec
CONSTANTS
    Items <- Three
    PageSizes <- Sizes
    DefaultPageSize = 1
    MaxPageSize = 2
    MaxTime = 4
    MaxChanges = 2
    MaxVersion = 2
INVARIANTS
    TypeOK
    ShownUnlessShrunk
    ShownOnceUnlessGrown
    ShownInOrder
    ShownWithItsVideo
