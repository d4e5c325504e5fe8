SPECIFICATION FairSpec
CONSTANTS
    MaxInits = 2
    Failures = {"docker", "interrupt", "session"}
    MaxServers = 4
    MaxRounds = 3
    MaxRestarts = 1
INVARIANTS TypeOK VerdictHonest InitMeansCurrent HangNeedsOrphan RoundKeepsKey
PROPERTIES RoundEnds
