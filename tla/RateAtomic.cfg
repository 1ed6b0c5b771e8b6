\* One request of an address breaks off between INCR and EXPIRE.
SPECIFICATION RateSpec
CONSTANTS
    Callers = {c1, c2}
    AuthMax = 1
    OtherMax = 2
    Window = 2
    CountCap = 3
INVARIANT AtomicWithExpiry
CHECK_DEADLOCK FALSE
