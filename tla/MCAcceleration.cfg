SPECIFICATION Spec
CONSTANTS
    Lengths <- SomeLengths
    Feeds <- SomeFeeds
    FEED_BASE = 16
    FEED_MAX = 80
    Gain = 8
    UINT = 256
INVARIANTS
    FeedWithin
    ArrivesSlow
PROPERTIES
    BrakesGently
    RisesGentlyFirst
