SPECIFICATION DeliverySpec
CONSTANTS
    i1 = i1
    i2 = i2
    i3 = i3
    t1 = t1
    t2 = t2
    alice = alice
    d1 = d1
    r1 = r1
    r2 = r2
    w1 = w1
    w2 = w2
    None = None
    Unused = Unused
    Ids = {i1}
    Tenants = {t1, t2}
    Users = {alice}
    Decides = {d1}
    DeciderOf <- Approver
    Resumes = {r1, r2}
    Sweepers = {w1}
    Dialects = {"postgresql"}
    TTL = 1
    BatchSize = 1
    ChunkSize = 1
    MaxClock = 2
    MaxAborts = 0
    Clients = {r1}
    WaitTimeout = 2
CHECK_DEADLOCK FALSE
INVARIANTS
    DeliveryTypeOK
    ClientKept
    SinkAccounts
    RunsKept
PROPERTIES
    BacklogResolved
    WaitsEnd
