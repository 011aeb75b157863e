SPECIFICATION Spec
CONSTANTS
    LineSteps <- LongLineSteps
    Travel = 2
    ArcSteps <- SomeArcSteps
PROPERTY
    NeverThroughStop
