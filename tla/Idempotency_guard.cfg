SPECIFICATION Spec
CONSTANTS
    NoRecord = NoRecord
    Callers = {c1, c2, c3}
    Hashes = {h1, h2}
    MaxCrashes = 2
    MaxAttempts = 2
INVARIANT OncePerLostAnswer
INVARIANT ResultsAgree
PROPERTY ResultIsFinal
PROPERTY KeepsPromise
CHECK_DEADLOCK FALSE
