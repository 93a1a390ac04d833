\* A shell, a command and a forward share two permits while the API shuts down.
SPECIFICATION EFairSpec
CHECK_DEADLOCK FALSE
CONSTANTS
    Shells = {shell}
    Commands = {command}
    Forwards = {forward}
    Permits = 2
    MaxOutput = 1
INVARIANTS ETypeOK NoSessionCutOff  SuccessIsComplete
PROPERTY ShutdownEnds
