\* Two connections, one of them from the address of a submission handler, two
\* accounts, one change of credentials;
\* uploads of one or two octets, two at most per login and three in all.
CONSTANTS
    c1 = c1
    c2 = c2
    s1 = s1
    s2 = s2
    here = here
    there = there
    Conns = {c1, c2}
    Logins = {l1, l2}
    Ips = {here, there}
    Submitters = {s1}
    Ip <- Mixed
    Sizes = {1, 2}
    MaxLiteral = 2
    MaxInflight = 3
    Shares = 2
    MaxFailures = 1
    Cap = 1
    Nobody = nobody
    MaxCreds = 2
    MaxFails = 2
    Managed = {l1}
    MaxAhead = 0
SPECIFICATION Spec
\* The operator may always act; nothing else need.
CHECK_DEADLOCK FALSE
INVARIANTS BudgetExact GuessesBounded SessionOwnsHandle
PROPERTIES RevokedEnds
