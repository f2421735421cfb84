CONSTANTS
    a = a  b = b  s1 = s1  s2 = s2
    NoServer = NoServer
    Tools <- MCTools
    BuiltIn = a
    Configs <- MCConfigs
    MaxRails = 2
    MaxIterations = 2
    MaxCalls = 2
SPECIFICATION Spec
INVARIANTS
    GuardrailsDecide
    CallsAreAnswered
    UsageIsWhole
    LeftOpenHasCause
CHECK_DEADLOCK FALSE
