SPECIFICATION FairSpec
CONSTANTS
    MaxInits = 1
    Failures = {}
    MaxServers = 2
    MaxRounds = 1
    MaxRestarts = 0
PROPERTY RoundSucceeds
