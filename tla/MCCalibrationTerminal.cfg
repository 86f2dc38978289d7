\* One calibration run as it stands, against what its harness says of a run that
\* has its terminal record.
SPECIFICATION RunSpec
CONSTANTS
    NoFile = NoFile
    Torn = Torn
    MaxCalls = 4
    MaxResets = 2
    MaxAttempts = 2
INVARIANT TerminalRunCannotAct
CHECK_DEADLOCK FALSE
