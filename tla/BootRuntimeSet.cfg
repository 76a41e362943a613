\* Three GPUs, so that clearing the active one leaves a choice, one of them without a PCI
\* address; two clients.
CONSTANTS
    Gpus = {g1, g2, g3}
    Profiles = {stock, tuned}
    Stock = stock
    NoGpu = NoGpu
    Clients = {c1, c2}
    Addressed = {g1, g2}
    Absent = Absent
    Idle = Idle
SPECIFICATION Spec
INVARIANTS FileLoads HintsFindWork
PROPERTY ImplementsIntent
