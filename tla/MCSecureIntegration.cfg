\* Two sources sending the configured key, a wrong key or none, in
\* non-strict mode; one request per source in a 2-second window, cleanup
\* due at every new second, so a client idle for two windows is forgotten
\* within five seconds; the wall clock may be stepped back once.
CONSTANTS
    s1 = s1
    s2 = s2
    NoRecord = NoRecord
    Sources <- MCSources
    Creds = {"key_ok", "key_bad", "none"}
    Bodies <- MCBodies
    StrictMode = FALSE
    ApiKeySet = TRUE
    EventComplete = TRUE
    MaxRequests = 1
    Window = 2
    CleanupInterval = 0
    ClockJumps <- MCStepBack
    MaxJumps = 1
    MaxTime = 5
    MaxServed = 5
SPECIFICATION Spec
SYMMETRY MCSymmetry
INVARIANT TypeOK
INVARIANT AdmittedWithinLimit
INVARIANT LimiterExact
INVARIANT BodyVerdictMatchesReference
\* The bounds end every behaviour; a server no longer called idles.
CHECK_DEADLOCK FALSE
