\* Two config paths, one of which may hold a file with a cluster section
\* written with no body; load_without_validation() and load().
CONSTANTS
    p1 = p1
    p2 = p2
    Null = Null
    Unset = Unset
    Missing = Missing
    Unparsable = Unparsable
    Files <- MCFiles
    Paths <- MCPaths
    FileChoices <- MCWithNullSection
    EnvChoices <- MCEnvChoices
SPECIFICATION Spec
INVARIANT FailedFileLeavesNoTrace
CHECK_DEADLOCK FALSE

