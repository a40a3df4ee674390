CONSTANTS
    Cmdlines <- MCCmdlines
    BaudMax = 65535
    MaxCalls = 3
SPECIFICATION Spec
INVARIANT RootDeviceReported
CHECK_DEADLOCK FALSE
