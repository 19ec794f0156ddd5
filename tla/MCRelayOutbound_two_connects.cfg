\* One recipient, one host that cannot complete the handshake.
CONSTANTS
    Rcpts = {r1}
    NoDomain = {}
    Internationalized = {}
    Hosts = {h1}
    MaxHosts = 1
    NoRcpt = noRcpt
    NoHost = noHost
SPECIFICATION Spec
\* The relay returns.
CHECK_DEADLOCK FALSE
INVARIANTS OneConnectAfterStop
