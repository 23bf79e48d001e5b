SPECIFICATION Spec
CONSTANTS
    Workers = {w1, w2}
    Socks = {s1, s2, s3}
    MaxLines = 1
INVARIANTS
    TypeOK
    NoLostWakeup
    EachSocketOnce
PROPERTIES
    ShutdownCompletes
    EveryConnectionServed
CHECK_DEADLOCK FALSE
