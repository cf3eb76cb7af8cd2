\* A search of Datadog for traces by a list of statuses finds none.
SPECIFICATION Spec
CONSTANTS
    Cases <- MCStatusLists
    MaxValues = 2
    MaxFilters = 1
    Text <- MCText
    MaxQueryLimit = 2
    OddFields <- MCOddFields
    OddIds <- MCOddIds
    MaxHydrate = 2
    PageSize = 3
    MaxPages = 2
    MaxRows = 4
    MaxUniques = 1
    MaxBatchPages = 2
    MaxBatch = 1
    SampleSize = 2
    MaxServiceRows = 2
    MaxOperationRows = 1
    OldName <- MCOldName
    NewName <- MCNewName
    RootRows = 2
INVARIANT
    AllFound
