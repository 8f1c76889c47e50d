SPECIFICATION FairSpec
CONSTANTS
    Contracts <- MappingFirst
    ExtMessages <- SampleExtMessages
    IntMessages <- SampleIntMessages
    Owner = owner
    Other = other
    Keys = {owner, other}
    NoKey = noKey
    MsPerSecond = 2
    Interval = 2
    MaxNow = 1
    MaxWrites = 2
    Gas = 3
PROPERTY ExitSavesState
