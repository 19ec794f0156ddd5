\* MAIL is refused for now, RCPT for being out of sequence.
CONSTANTS
    Rcpts = {r1}
    NoDomain = {}
    Internationalized = {}
    Hosts = {h1, h2}
    MaxHosts = 2
    NoRcpt = noRcpt
    NoHost = noHost
SPECIFICATION Spec
\* The relay returns.
CHECK_DEADLOCK FALSE
INVARIANTS FirstRefusalDecides
