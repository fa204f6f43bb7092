CONSTANTS
    t1 = t1
    t2 = t2
    t3 = t3
    c1 = c1
    e1 = e1
    r1 = r1
    rh = rh
    Tasks = {t1, t2}
    Closers = {c1}
    Registries = {r1, rh}
    Execs = {e1}
    NoExec = NoExec
    RegistryOf <- SharedRegistryOf
    ControlOf <- SharedControlOf
    Fast = {}
    OpenFiles = 1
    MaxOpenFiles = 1
    Workers = 1
    CleanupThreads = 1
SPECIFICATION FairSpec
PROPERTIES Releases AdmissionImplemented
