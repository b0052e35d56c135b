\* The refinement of Lifecycle, with its fairness, under the fairness of
\* FairSpec. No symmetry (it is unsound for liveness). Two threads, one
\* listening watch, one datum and one slot.
CONSTANTS
  NoThread = NoThread
  NoData = NoData
  Threads = {t1, t2}
  Creator = t1
  Data = {d1}
  Watches = {w1}
  Timeouts = {}
  Slots = {s1}
  DupResults = {TRUE}
  MaxRef = 2
SPECIFICATION FairSpec
PROPERTY
  ImplementsLifecycle
\* A state where nothing can happen before finalize is what the fairness
\* of Lifecycle rules out, so the property, not the deadlock check, is the
\* test here (server_lifecycle checks for deadlock).
CHECK_DEADLOCK FALSE
