\* One recipient after the other, one of them without a domain and one whose
\* address is not ASCII, over two hosts.
CONSTANTS
    Rcpts = {r1, r2, r3}
    NoDomain = {r3}
    Internationalized = {r2}
    Hosts = {h1, h2}
    MaxHosts = 2
    NoRcpt = noRcpt
    NoHost = noHost
SPECIFICATION Spec
\* The relay returns.
CHECK_DEADLOCK FALSE
INVARIANTS VerdictSound OneCopyPerWalk NeverInTheClear StopEndsWalk
PROPERTIES UnreachedOutranksRefusal
