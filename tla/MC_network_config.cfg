\* Two servers, any number of attempts, messages of every age.
SPECIFICATION FairSpec
CONSTANTS
    Servers = {s1, s2}
    Ips = {a, b, c}
    UsableIps = {a, b}
    Absent = Absent
    StaticIp = StaticIp
    StaticParam = StaticParam
    MaxRetry = 3
INVARIANTS OneSource LeaseRequested
PROPERTIES ConfigEnds
