CONSTANTS
    Cases <- MCCases
    MaxFailures = 1
SPECIFICATION Spec
INVARIANTS
    NoLeakAtSubcaseEnd
