\* Two restores with distinct ids, every collaborator succeeding.
CONSTANTS
    r1 = r1
    r2 = r2
    r3 = r3
    RestoreIds <- MCTwoIds
    UniqueIds = TRUE
    PushOutcomes = {TRUE}
    CancelAfterPlanning = FALSE
    NoEntry = NoEntry
    MaxStarts = 2
    SyncPolls = 1
    AutoSync = TRUE
    MetadataOutcomes = {TRUE}
    ValidatorOutcomes = {TRUE}
    CloneOutcomes = {TRUE}
SPECIFICATION Spec
INVARIANT EveryRestoreSucceeds
CHECK_DEADLOCK FALSE
