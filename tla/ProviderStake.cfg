SPECIFICATION Spec
CONSTANTS
    p1 = p1
    p2 = p2
    Providers = {p1, p2}
    Amounts = {0, 1, 2}
    Endowment = 3
    COOLDOWN = 2
    MaxTime = 5
SYMMETRY Symmetry
CHECK_DEADLOCK FALSE
INVARIANT StakeSound
PROPERTY ExitWasAtRisk
