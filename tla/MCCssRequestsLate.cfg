SPECIFICATION Spec
CONSTANTS
    Users = {u1}
    Driver = driver
    Nobody = nobody
    Devices = {d1}
    Slow = {d1}
    MaxAttentions = 1
    Patience = 0
    Asks <- ReadAsks
    Fresh <- NoDone
    InOrder = TRUE
INVARIANTS SuccessMeansCompleted
