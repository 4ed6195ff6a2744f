SPECIFICATION Spec
CONSTANTS
    alice = alice
    bob = bob
    d1 = d1
    d2 = d2
    Ids = {i1, i2}
    Tenants = {t1}
    Users = {alice, bob}
    Decides = {d1, d2}
    DeciderOf <- TwoApprovers
    Resumes = {r1}
    Sweepers = {w1, w2}
    Dialects = {"postgresql", "mysql"}
    TTL = 1
    BatchSize = 2
    ChunkSize = 1
    MaxClock = 1
    MaxAborts = 1
    None = None
CHECK_DEADLOCK FALSE
SYMMETRY TableSymmetry
INVARIANTS
    ExpiryRespected
    ReplayApproved
    WonMeansDecided
    ReturningDecides
PROPERTY ImplementsLifecycle
