\* One restore, every collaborator succeeding, a caller that may cancel.
CONSTANTS
    r1 = r1
    r2 = r2
    r3 = r3
    RestoreIds <- MCTwoIds
    UniqueIds = TRUE
    PushOutcomes = {TRUE}
    CancelAfterPlanning = FALSE
    NoEntry = NoEntry
    MaxStarts = 1
    SyncPolls = 1
    AutoSync = TRUE
    MetadataOutcomes = {TRUE}
    ValidatorOutcomes = {TRUE}
    CloneOutcomes = {TRUE}
SPECIFICATION Spec
PROPERTY AcceptedRestoreRecorded
CHECK_DEADLOCK FALSE
