CONSTANTS
    Cases <- MCCases
    MaxFailures = 2
SPECIFICATION Spec
INVARIANTS
    TypeOK
    NextCallHandlesLive
    LeakOnlyOnFailure
    DeriveRequestConsistent
    EveryVectorReported
    IInv
    ProgressInv
PROPERTIES
    ImplementsSubcaseRunner
    Termination
