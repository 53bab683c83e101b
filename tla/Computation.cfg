SPECIFICATION Spec
CONSTANTS
    r1 = r1
    r2 = r2
    r3 = r3
    Base = 11
    WordLen = 2
    Program <- Programs
    Content <- Contents
    Resource = {r1, r2, r3}
    Near <- SomeNear
CHECK_DEADLOCK FALSE
INVARIANTS
    ResultAsWritten
    FailsOnlyAsWritten
    OnlyEntrypointRefused
