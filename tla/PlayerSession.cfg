SPECIFICATION Spec
CONSTANTS
    Accept = {a1, a2}
    Request = {r1}
    Fd = {d1}
    NoFd = NoFd
    NilFd = NilFd
INVARIANT OldAfkHarmless
CHECK_DEADLOCK FALSE
