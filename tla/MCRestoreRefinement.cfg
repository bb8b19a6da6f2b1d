\* Three restores with distinct ids, validators and push able to fail, callers
\* cancelling only restores they have seen past Planning.
CONSTANTS
    r1 = r1
    r2 = r2
    r3 = r3
    NoEntry = NoEntry
    RestoreIds <- MCRestoreIds
    MaxStarts = 3
    SyncPolls = 1
    AutoSync = TRUE
    UniqueIds = TRUE
    MetadataOutcomes = {TRUE}
    ValidatorOutcomes = {TRUE, FALSE}
    CloneOutcomes = {TRUE}
    PushOutcomes = {TRUE, FALSE}
    CancelAfterPlanning = TRUE
SPECIFICATION Spec
PROPERTY RefinesLifecycle
\* The orchestrator is idle once every accepted restore has ended.
CHECK_DEADLOCK FALSE
