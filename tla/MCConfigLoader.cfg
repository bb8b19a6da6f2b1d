\* Two config paths over well-formed files, four environments, load() and
\* load_without_validation().
CONSTANTS
    p1 = p1
    p2 = p2
    Null = Null
    Unset = Unset
    Missing = Missing
    Unparsable = Unparsable
    Files <- MCFiles
    Paths <- MCPaths
    FileChoices <- MCWellFormed
    EnvChoices <- MCEnvChoices
SPECIFICATION Spec
INVARIANT TypeOK
INVARIANT LaterSourceWins
CHECK_DEADLOCK FALSE

