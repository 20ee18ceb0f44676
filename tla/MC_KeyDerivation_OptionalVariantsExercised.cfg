CONSTANTS
    Cases <- MCCases
    MaxFailures = 0
SPECIFICATION Spec
INVARIANTS
    OptionalVariantsExercised
