\* Two threads: t1 got the server from dbus_server_listen and may share
\* references with t2. One listening watch, no timeouts, one slot.
CONSTANTS
  NoThread = NoThread
  NoData = NoData
  Threads = {t1, t2}
  Creator = t1
  Data = {d1, d2}
  Watches = {w1}
  Timeouts = {}
  Slots = {s1}
  DupResults = {TRUE}
  MaxRef = 3
SPECIFICATION Spec
SYMMETRY MCSymmetry
INVARIANTS
  TypeOK
  NoCalloutUnderLock
  RegistryExclusive
  DestructorsSafe
  NoLeakAtFinalize
  LifetimeSafe
  RefcountAccounting
