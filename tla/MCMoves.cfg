SPECIFICATION FairSpec
CONSTANTS
    LineSteps <- SomeLineSteps
    Travel = 2
    ArcSteps <- SomeArcSteps
INVARIANTS
    TypeOK
    Straight
    Exact
    Arrived
PROPERTIES
    LineStopsInTime
    LineEnds
