SPECIFICATION Spec
CONSTANTS
    f1 = f1  f2 = f2  f3 = f3
    m1 = m1  m2 = m2  o1 = o1
    Files = {f1, f2}
    Models = {m1, m2}
    Operators = {o1}
    Registry <- ActiveAndCanary
    Pasts <- PastSamples
    FailureThreshold = 2
    ShadowThreshold = 1
    HaltMin = 2
    HaltWindow = 2
    PromoteMin = 2
    MaxCommands = 2
    MaxFaults = 1
PROPERTY NewCanaryIsSpared
CHECK_DEADLOCK FALSE
