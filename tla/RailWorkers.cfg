SPECIFICATION Spec
CONSTANTS
    c1 = c1
    c2 = c2
    r1 = r1
    r2 = r2
    Conns = {c1, c2}
    Rails = {r1, r2}
    Bits = {0, 1}
    Emulation = {r1}
    FailsLate = {r2}
    RailOf <- OneToOne
    Installable <- NotAll
INVARIANTS
    TypeOK
    SuccessMeansInstalled
    BeliefIsAccurate
PROPERTY
    EveryRequestAnswered
CHECK_DEADLOCK FALSE
