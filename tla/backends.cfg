\* Every method of every backend that searches, over a few traces.
SPECIFICATION Spec
CONSTANTS
    Cases <- MCCases
    MaxValues = 2
    MaxFilters = 1
    Text <- MCText
    MaxQueryLimit = 2
    OddFields <- MCOddFields
    OddIds <- MCOddIds
    MaxHydrate = 2
    PageSize = 3
    MaxPages = 2
    MaxRows = 4
    MaxUniques = 1
    MaxBatchPages = 2
    MaxBatch = 1
    SampleSize = 2
    MaxServiceRows = 2
    MaxOperationRows = 1
    OldName <- MCOldName
    NewName <- MCNewName
    RootRows = 2
INVARIANTS
    RequestsBounded
    NothingMissed
    OutageIsNotEmpty
    OppositesSplit
PROPERTIES
    KeepsPromises
    EveryCallEnds
