CONSTANTS
    Null = Null
    Pid = {p1, p2, p3}
    Line <- MCLines
    MaxLines = 2
    Faults = {"fork", "signal", "open", "exec", "pipe"}
    MaxFaults = 1
SPECIFICATION FairSpec
INVARIANTS
    TypeOK
    PromptIsClean
PROPERTIES
    BackgroundSurvives
    PromptReturns
