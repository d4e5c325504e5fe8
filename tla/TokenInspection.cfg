SPECIFICATION Spec
CONSTANTS
    MaxSessions = 2
    MaxLegs = 2
    Tokens <- MCTokens
    Faults = {"open", "disk", "docker", "interrupt"}
    MaxFaults = 1
    BufferSize = 4
    LineWidth = 2
INVARIANTS TypeOK LastSessionFirst CopyIsCurrent PrintsBuffer ShownIsWhole
