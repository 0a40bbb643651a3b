\* A worker with the TCP lane, two workers, a worker with a push-object lane,
\* and a worker with the manifest consumer in either mode.
SPECIFICATION FairSpec
CONSTANTS
    w1 = w1
    w2 = w2
    tcp = tcp
    obj = obj
    c1 = c1
    c2 = c2
    s1 = s1
    beef = beef
    Workers = {w1, w2}
    Tcp = tcp
    Object = obj
    Conns = {c1, c2}
    Ifaces = 1
    Pool = 2
    MaxFaults = 1
    Nil = Nil
    Domains = {beef}
    Views <- AllViews
    Configs <- AllConfigs
INVARIANTS TypeOK EgressScoped AdoptionApplied
PROPERTIES ReadyHonest ExitReached
