CONSTANTS
    Creators = {"default"}
    MaxRuns = 2
SPECIFICATION Spec
\* The pass object is run a bounded number of times and then stops.
CHECK_DEADLOCK FALSE
INVARIANT NoDanglingMetadata
