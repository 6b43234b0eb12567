SPECIFICATION Spec
CONSTANTS
    TableSize = 2
    MaxAge = 3
    MaxPending = 2
    Ctimes = 4
    Nodes = {q1, q2}
    Hosts = {"pc", "gw", "host"}
    Gateway = "gw"
    Macs = {m1, m2}
    Preempt = FALSE
INVARIANTS TypeOK RightAddress QueuesSound
PROPERTIES PendingEnds
