\* dbus_server_set_auth_mechanisms may fail to copy the mechanism array.
CONSTANTS
  NoThread = NoThread
  NoData = NoData
  Threads = {t1, t2}
  Creator = t1
  Data = {d1}
  Watches = {w1}
  Timeouts = {}
  Slots = {}
  DupResults = {TRUE, FALSE}
  MaxRef = 2
SPECIFICATION Spec
INVARIANT LockReleasedOnReturn
