\* Two threads, one listening watch and one timeout registered by the
\* backend, one piece of data, one slot.
CONSTANTS
  NoThread = NoThread
  NoData = NoData
  Threads = {t1, t2}
  Creator = t1
  Data = {d1}
  Watches = {w1}
  Timeouts = {m1}
  Slots = {s1}
  DupResults = {TRUE}
  MaxRef = 2
SPECIFICATION Spec
SYMMETRY MCSymmetry
INVARIANTS
  RegistryExclusive
  RefcountAccounting
