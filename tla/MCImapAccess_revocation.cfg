\* One connection, one account, one change of its password.
CONSTANTS
    c1 = c1
    c2 = c2
    s1 = s1
    s2 = s2
    here = here
    there = there
    Conns = {c1, c2}
    Logins = {l1}
    Ips = {here, there}
    Submitters = {}
    Ip <- Apart
    Sizes = {}
    MaxLiteral = 1
    MaxInflight = 1
    Shares = 1
    MaxFailures = 1
    Cap = 1
    Managed = {l1}
    Nobody = nobody
    MaxCreds = 2
    MaxFails = 1
    MaxAhead = 0
SPECIFICATION Spec
\* The operator may always act; nothing else need.
CHECK_DEADLOCK FALSE
PROPERTIES ReplacedCredentialEnds
