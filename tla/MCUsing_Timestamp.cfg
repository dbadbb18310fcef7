SPECIFICATION Spec
CONSTANTS
    Durations <- MCDurations
    Times <- MCTimes
INVARIANTS
    NamedTimestampStays
