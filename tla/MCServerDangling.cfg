\* Two threads, one listening watch: an application thread installing watch
\* functions while another disconnects the server.
CONSTANTS
  NoThread = NoThread
  NoData = NoData
  Threads = {t1, t2}
  Creator = t1
  Data = {d1}
  Watches = {w1}
  Timeouts = {}
  Slots = {}
  DupResults = {TRUE}
  MaxRef = 2
SPECIFICATION Spec
INVARIANT NoDanglingWatch
