CONSTANTS
    CaseIds <- MCCaseIds
    MaxCalls <- MCMaxCalls
SPECIFICATION Spec
INVARIANTS
    TypeOK
    ContextClosedBetweenCommands
    EachCaseRunOnce
    SuccessMeansSuitePassed
