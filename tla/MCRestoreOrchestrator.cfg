\* Three restores with distinct ids, every external call able to fail,
\* auto_sync on, a two-poll sync monitor.
CONSTANTS
    r1 = r1
    r2 = r2
    r3 = r3
    NoEntry = NoEntry
    RestoreIds <- MCRestoreIds
    MaxStarts = 3
    SyncPolls = 2
    AutoSync = TRUE
    UniqueIds = TRUE
    MetadataOutcomes = {TRUE, FALSE}
    ValidatorOutcomes = {TRUE, FALSE}
    CloneOutcomes = {TRUE, FALSE}
    PushOutcomes = {TRUE, FALSE}
    CancelAfterPlanning = FALSE
SPECIFICATION Spec
INVARIANT TypeOK
INVARIANT ActiveEntryIsLive
INVARIANT HistoryRecordsTerminal
PROPERTY ProgressNeverRegresses
PROPERTY TaskTerminates
\* The orchestrator is idle once every accepted restore has ended.
CHECK_DEADLOCK FALSE
