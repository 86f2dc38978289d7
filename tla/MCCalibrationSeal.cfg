\* One calibration run as it stands, against what calibration/README.md says of
\* sealing after the serving process has ended.
SPECIFICATION RunSpec
CONSTANTS
    NoFile = NoFile
    Torn = Torn
    MaxCalls = 4
    MaxResets = 2
    MaxAttempts = 2
INVARIANT EndedRunSeals
CHECK_DEADLOCK FALSE
