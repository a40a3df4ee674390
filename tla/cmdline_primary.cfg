CONSTANTS
    Cmdlines <- MCCmdlines
    BaudMax = 65535
    MaxCalls = 3
SPECIFICATION Spec
INVARIANT PrimaryIsLast
CHECK_DEADLOCK FALSE
