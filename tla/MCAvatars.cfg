SPECIFICATION Spec
CONSTANTS
    User = {u1}
    File = {f1, f2, f3}
    NoFile = NoFile
    w1 = w1
    w2 = w2
    r1 = r1
    r2 = r2
    r3 = r3
    Request = {r1, r2, r3}
    Worker = {w1, w2}
    WorkerOf <- OneAlone
    Faults = {"db", "disk", "crash"}
SYMMETRY NamesAndThreads
INVARIANTS
    PhotoIsThere
    OrphansHaveCause
