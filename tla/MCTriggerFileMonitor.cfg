\* Three events with distinct file names, e3 always failing, automation
\* enabled (the loader never reads it).
CONSTANTS
    e1 = e1
    e2 = e2
    e3 = e3
    n1 = n1
    n2 = n2
    n3 = n3
    NoFile = NoFile
    Events <- MCEvents
    Names <- MCNames
    NameOf <- MCDistinctNames
    FailingEvents <- MCFailing
SPECIFICATION Spec
INVARIANT TypeOK
INVARIANT NoTriggerDropped
PROPERTY EveryTriggerHandled
