SPECIFICATION Spec
CONSTANTS
    outer = outer
    inner = inner
    Arch = {outer, inner}
    Local = Local
    Within <- MCWithin
    Ids <- MCIds
    MaxRewrites = 1
CONSTRAINT Sound
INVARIANTS
    TypeOK
    CollectorSound
    StampedWhenLeft
PROPERTY Released
\* A use of freed memory ends the behaviour.
CHECK_DEADLOCK FALSE
