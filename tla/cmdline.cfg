CONSTANTS
    Cmdlines <- MCCmdlines
    BaudMax = 65535
    MaxCalls = 3
SPECIFICATION Spec
INVARIANT ParsedAsSpecified
CHECK_DEADLOCK FALSE
