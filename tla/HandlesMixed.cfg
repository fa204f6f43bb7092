CONSTANTS
    t1 = t1
    t2 = t2
    t3 = t3
    c1 = c1
    e1 = e1
    r1 = r1
    rh = rh
    Tasks = {t1, t2, t3}
    Closers = {c1}
    Registries = {r1, rh}
    Execs = {e1}
    NoExec = NoExec
    RegistryOf <- MixedRegistryOf
    ControlOf <- SharedControlOf
    Fast = {t3}
    OpenFiles = 2
    MaxOpenFiles = 1
    Workers = 1
    CleanupThreads = 1
SYMMETRY TaskSymmetry
SPECIFICATION Spec
INVARIANTS
    TypeOK
    ConsumedOnce
    AdmissionCoversBackend
    NoneStranded
    NothingLeaks
