------------------------- MODULE ServerSafetyProofs -------------------------
(***************************************************************************)
(* Safety of the Server module for every instance: the locking discipline *)
(* (when _dbus_dup_string_array never fails: see finding auth_lock_leak   *)
(* for what happens when it does), and the destructor discipline of the   *)
(* data the application hands to the server.                              *)
(***************************************************************************)
EXTENDS ServerProofs

\* The steps at which the code holds server->mutex across a step boundary:
\* the backend's disconnect method and the backend after a wrapper call.
LockedPcs == {"disc_backend", "disc_watch_freed", "disc_unlock",
              "backend_done"}

\* Where protected_change_* and finalize may return to.
RetPcs == {"idle", "backend_done", "disc_watch_freed"}
WindowPcs == {"pcw_call", "pcw_relock"}

(***************************************************************************)
(* The mutex is held only by a thread at one of those steps; a thread      *)
(* inside protected_change_* returns to one of them (so that the relock    *)
(* there keeps the first conjunct), and a finalize returns to idle or to   *)
(* one of them (never back into the unlocked window).                      *)
(***************************************************************************)
LockInv ==
  /\ \A t \in Threads : lockOwner = t => pc[t] \in LockedPcs
  /\ \A t \in Threads : pc[t] \in WindowPcs => ret[t] \in RetPcs \ {"idle"}
  /\ \A t \in Threads : pc[t] \in FinalizePcs => ret[t] \in RetPcs

USE DEF LockedPcs, RetPcs, WindowPcs, FinalizePcs, Goto, CanCall, LockFree,
        FreshData, Reg, Items, Ops, Pcs, Arg, NoArg

LEMMA InitLockInv == Init => LockInv
BY ThreadsAssumption DEF Init, LockInv

(***************************************************************************)
(* A step of thread t that neither takes nor releases the mutex, taken    *)
(* while t does not hold it, and that leaves t outside the unlocked window *)
(* and finalizing only towards a return point, keeps LockInv.              *)
(***************************************************************************)
LEMMA QuietStep ==
  ASSUME LockInv, NEW t \in Threads,
         pc[t] \notin LockedPcs,
         lockOwner' = lockOwner,
         \A u \in Threads \ {t} : pc'[u] = pc[u] /\ ret'[u] = ret[u],
         pc'[t] \notin WindowPcs,
         pc'[t] \in FinalizePcs => ret'[t] \in RetPcs
  PROVE  LockInv'
BY DEF LockInv

(***************************************************************************)
(* A call of protected_change_* with a return point of the backend: it    *)
(* either unlocks and enters the window, or keeps the mutex and returns.   *)
(***************************************************************************)
LEMMA ProtectedChangeLock ==
  ASSUME IInv, LockInv, NEW t \in Threads, NEW k \in Reg,
         NEW i \in Watches \cup Timeouts, NEW op \in Ops,
         NEW rp \in {"backend_done", "disc_watch_freed"},
         ProtectedChange(t, k, i, op, rp)
  PROVE  LockInv'
<1>1. \A u \in Threads \ {t} : pc'[u] = pc[u] /\ ret'[u] = ret[u]
  BY ProtectedChangeType
<1>2. ret'[t] = rp
  BY DEF ProtectedChange, IInv, TypeOK
<1>3. CASE attached[k]
  <2>1. lockOwner' = NoThread /\ pc' = [pc EXCEPT ![t] = "pcw_call"]
    BY <1>3 DEF ProtectedChange
  <2>2. QED
    BY <1>1, <1>2, <2>1, ThreadsAssumption DEF LockInv, IInv, TypeOK
<1>4. CASE ~attached[k]
  <2>1. lockOwner' = t /\ pc' = [pc EXCEPT ![t] = rp]
    BY <1>4 DEF ProtectedChange
  <2>2. QED
    BY <1>1, <1>2, <2>1 DEF LockInv, IInv, TypeOK
<1>5. QED
  BY <1>3, <1>4
(***************************************************************************)
(* Every step keeps LockInv when set_auth_mechanisms cannot fail: one step *)
(* per action of Next.                                                     *)
(***************************************************************************)
THEOREM NextLockInv ==
  ASSUME DupResults = {TRUE}
  PROVE  IInv /\ LockInv /\ [Next]_vars => LockInv'
<1> SUFFICES ASSUME IInv, LockInv, [Next]_vars PROVE LockInv'
  OBVIOUS
<1> USE DEF IInv, TypeOK
<1>1. ASSUME NEW t \in Threads, NEW u \in Threads, Ref(t, u) PROVE LockInv'
  BY <1>1 DEF Ref, LockInv
<1>2. ASSUME NEW t \in Threads, Unref(t) PROVE LockInv'
  <2>1. DropRef(t) /\ pc[t] = "idle" /\ lockOwner' = lockOwner
    BY <1>2 DEF Unref
  <2>2. QED
    BY <2>1, DropRefType, QuietStep
<1>3. ASSUME NEW t \in Threads, BackendCall(t) PROVE LockInv'
  <2>1. PICK k \in Reg, i \in Watches \cup Timeouts, op \in Ops :
              ProtectedChange(t, k, i, op, "backend_done")
    BY <1>3 DEF BackendCall, AddWatch, RemoveWatch, ToggleWatch,
                AddTimeout, RemoveTimeout, ToggleTimeout
  <2>2. QED
    BY <2>1, ProtectedChangeLock
<1>4. ASSUME NEW t \in Threads, PcwCall(t) PROVE LockInv'
  BY <1>4 DEF PcwCall, LockInv
<1>5. ASSUME NEW t \in Threads, PcwRelock(t) PROVE LockInv'
  <2>1. ret[t] \in {"backend_done", "disc_watch_freed"}
    BY <1>5 DEF PcwRelock, LockInv
  <2>2. CASE refcount = 1
    <3>1. lockOwner' = NoThread /\ pc' = [pc EXCEPT ![t] = "fin_slots"]
          /\ ret' = ret
      BY <1>5, <2>2 DEF PcwRelock
    <3>2. QED
      BY <2>1, <3>1, ThreadsAssumption DEF LockInv
  <2>3. CASE refcount # 1
    <3>1. lockOwner' = t /\ pc' = [pc EXCEPT ![t] = ret[t]] /\ ret' = ret
      BY <1>5, <2>3 DEF PcwRelock
    <3>2. QED
      BY <1>5, <2>1, <3>1 DEF PcwRelock, LockInv
  <2>4. QED
    BY <2>2, <2>3
<1>6. ASSUME NEW t \in Threads, BackendDone(t) PROVE LockInv'
  BY <1>6, ThreadsAssumption DEF BackendDone, LockInv
<1>7. ASSUME NEW t \in Threads, Disconnect(t) PROVE LockInv'
  BY <1>7 DEF Disconnect, LockInv
<1>8. ASSUME NEW t \in Threads, DiscBackend(t) PROVE LockInv'
  <2>1. CASE live["watch"] # {}
    <3> DEFINE w == CHOOSE w \in live["watch"] : TRUE
    <3>1. w \in Watches \cup Timeouts
      BY <2>1
    <3>2. ProtectedChange(t, "watch", w, "remove", "disc_watch_freed")
      BY <1>8, <2>1 DEF DiscBackend, RemoveWatch
    <3>3. QED
      BY <3>1, <3>2, ProtectedChangeLock
  <2>2. CASE live["watch"] = {}
    BY <1>8, <2>2 DEF DiscBackend, LockInv
  <2>3. QED
    BY <2>1, <2>2
<1>9. ASSUME NEW t \in Threads, DiscWatchFreed(t) PROVE LockInv'
  BY <1>9 DEF DiscWatchFreed, LockInv
<1>10. ASSUME NEW t \in Threads, DiscUnlock(t) PROVE LockInv'
  BY <1>10, ThreadsAssumption DEF DiscUnlock, LockInv
<1>11. ASSUME NEW t \in Threads, DiscUnref(t) PROVE LockInv'
  <2>1. DropRef(t) /\ pc[t] = "disc_unref" /\ lockOwner' = lockOwner
    BY <1>11 DEF DiscUnref
  <2>2. QED
    BY <2>1, DropRefType, QuietStep
<1>12. ASSUME NEW t \in Threads, SetNewConnectionFunction(t) PROVE LockInv'
  BY <1>12, QuietStep DEF SetNewConnectionFunction
<1>13. ASSUME NEW t \in Threads, NcFree(t) PROVE LockInv'
  BY <1>13, QuietStep DEF NcFree, FreeOld
<1>14. ASSUME NEW t \in Threads, SetData(t) PROVE LockInv'
  <2>1. pc[t] = "idle" /\ lockOwner' = lockOwner /\ ret' = ret
        /\ (pc' = pc \/ pc' = [pc EXCEPT ![t] = "data_free"])
    BY <1>14 DEF SetData
  <2>2. QED
    BY <2>1, QuietStep
<1>15. ASSUME NEW t \in Threads, DataFree(t) PROVE LockInv'
  BY <1>15, QuietStep DEF DataFree, FreeOld
<1>16. ASSUME NEW t \in Threads, NEW k \in Reg, SetFunctions(t, k)
       PROVE LockInv'
  <2>1. pc[t] = "idle" /\ lockOwner' = lockOwner /\ ret' = ret
        /\ (pc' = pc \/ pc' = [pc EXCEPT ![t] = "swf_call"])
    BY <1>16 DEF SetFunctions
  <2>2. QED
    BY <2>1, QuietStep
<1>17. ASSUME NEW t \in Threads, SwfCall(t) PROVE LockInv'
  BY <1>17, QuietStep DEF SwfCall
<1>18. ASSUME NEW t \in Threads, SwfRelock(t) PROVE LockInv'
  BY <1>18, QuietStep DEF SwfRelock
<1>19. ASSUME NEW t \in Threads, SetAuthMechanisms(t) PROVE LockInv'
  <2>1. lockOwner' = NoThread /\ UNCHANGED <<pc, ret>>
    BY <1>19 DEF SetAuthMechanisms
  <2>2. QED
    BY <2>1, ThreadsAssumption DEF LockInv
<1>20. ASSUME NEW t \in Threads, FinSlots(t) PROVE LockInv'
  BY <1>20, QuietStep DEF FinSlots, LockInv
<1>21. ASSUME NEW t \in Threads, FinNc(t) PROVE LockInv'
  BY <1>21, QuietStep DEF FinNc, LockInv
<1>22. ASSUME NEW t \in Threads, FinNcFree(t) PROVE LockInv'
  BY <1>22, QuietStep DEF FinNcFree, FreeOld, LockInv
<1>23. ASSUME NEW t \in Threads, FinFree(t) PROVE LockInv'
  <2>1. ret[t] \in RetPcs /\ pc[t] = "fin_free"
    BY <1>23 DEF FinFree, LockInv
  <2>2. QED
    BY <1>23, <2>1, QuietStep DEF FinFree
<1>24. CASE Terminated \/ UNCHANGED vars
  BY <1>24 DEF Terminated, vars, LockInv
<1>25. QED
  BY <1>1, <1>2, <1>3, <1>4, <1>5, <1>6, <1>7, <1>8, <1>9, <1>10, <1>11,
     <1>12, <1>13, <1>14, <1>15, <1>16, <1>17, <1>18, <1>19, <1>20, <1>21,
     <1>22, <1>23, <1>24
  DEF Next, SetWatchFunctions, SetTimeoutFunctions

(***************************************************************************)
(* The locking discipline of dbus-server.c, for every instance in which    *)
(* _dbus_dup_string_array does not fail: no thread ever runs application  *)
(* code (watch functions, destructors, finalize's callbacks) while it     *)
(* holds server->mutex, and no thread returns from a server call still    *)
(* holding it.                                                             *)
(***************************************************************************)
THEOREM LockDiscipline ==
  ASSUME DupResults = {TRUE}
  PROVE  Spec => [](NoCalloutUnderLock /\ LockReleasedOnReturn)
<1>1. Init => IInv /\ LockInv
  BY InitIInv, InitLockInv
<1>2. IInv /\ LockInv /\ [Next]_vars => (IInv /\ LockInv)'
  BY NextIInv, NextLockInv
<1>3. LockInv => NoCalloutUnderLock /\ LockReleasedOnReturn
  BY DEF LockInv, NoCalloutUnderLock, LockReleasedOnReturn, CalloutPcs
<1>4. QED
  BY <1>1, <1>2, <1>3, PTL DEF Spec
-----------------------------------------------------------------------------
\* Where a datum is held: the new-connection field, a slot, or a thread
\* that has swapped it out and is about to run its destructor.
\* The steps that run the destructor of the datum a thread swapped out.
FreePcs == {"nc_free", "data_free", "fin_nc_free"}

InSlot(d) == \E s \in Slots : slots[s] = d
Pending(d) == \E t \in Threads : oldData[t] = d

(***************************************************************************)
(* Data never handed to the server is nowhere and never freed; every      *)
(* datum is held in at most one place, and one that is held has not been  *)
(* freed. A datum leaves its place only through a destructor call.        *)
(***************************************************************************)
DataUnused ==
  \A d \in Data \ used :
    frees[d] = 0 /\ ncData # d /\ ~InSlot(d) /\ ~Pending(d)

DataFreedOnce ==
  \A d \in Data :
    /\ frees[d] <= 1
    /\ (ncData = d \/ InSlot(d) \/ Pending(d)) => frees[d] = 0

DataOnePlace ==
  \A d \in Data :
    /\ \A s1, s2 \in Slots : slots[s1] = d /\ slots[s2] = d => s1 = s2
    /\ \A t, u \in Threads : oldData[t] = d /\ oldData[u] = d => t = u
    /\ ncData = d => ~InSlot(d) /\ ~Pending(d)
    /\ Pending(d) => ~InSlot(d)

DataPendingFree ==
  \A t \in Threads : oldData[t] # NoData => pc[t] \in FreePcs

DataInv == DataUnused /\ DataFreedOnce /\ DataOnePlace /\ DataPendingFree

USE DEF InSlot, Pending, FreePcs, DataInv

\* Initially no data has been handed to the server.
LEMMA InitDataInv == Init => DataInv
BY DataAssumption DEF Init, DataUnused, DataFreedOnce, DataOnePlace, DataPendingFree

\* A step that touches none of the data variables, and moves no thread
\* that has a datum to free, keeps DataInv.
LEMMA DataFrame ==
  ASSUME DataInv, UNCHANGED <<ncData, slots, oldData, frees, used>>,
         \A u \in Threads : oldData[u] # NoData => pc'[u] = pc[u]
  PROVE  DataInv'
BY DEF DataUnused, DataFreedOnce, DataOnePlace, DataPendingFree

(***************************************************************************)
(* The destructor a thread runs after unlocking (FreeOld) frees a datum    *)
(* that only that thread held, and that had not been freed.                *)
(***************************************************************************)
LEMMA FreeOldData ==
  ASSUME TypeOK, DataInv, NEW t \in Threads, FreeOld(t),
         UNCHANGED <<ncData, slots, used>>,
         \A u \in Threads \ {t} : pc'[u] = pc[u]
  PROVE  DataInv'
<1> DEFINE d0 == oldData[t]
<1>1. CASE d0 = NoData
  <2>1. frees' = frees /\ oldData' = oldData
    BY <1>1 DEF FreeOld, TypeOK
  <2>2. QED
    BY <1>1, <2>1, DataFrame
<1>2. CASE d0 # NoData
  <2>1. d0 \in Data /\ d0 \in used /\ frees[d0] = 0
    BY <1>2 DEF TypeOK, DataUnused, DataFreedOnce
  <2>2. /\ frees' = [frees EXCEPT ![d0] = @ + 1]
        /\ oldData' = [oldData EXCEPT ![t] = NoData]
    BY <1>2 DEF FreeOld
  <2>3. ncData # d0 /\ ~InSlot(d0)
        /\ \A u \in Threads \ {t} : oldData[u] # d0
    BY <2>1 DEF TypeOK, DataOnePlace
  <2> USE <2>1, <2>2, <2>3, DataAssumption DEF TypeOK
  <2>4. DataUnused'
    BY DEF DataUnused
  <2>5. DataFreedOnce'
    BY DEF DataFreedOnce
  <2>6. DataOnePlace'
    BY DEF DataOnePlace
  <2>7. DataPendingFree'
    BY DEF DataPendingFree
  <2>8. QED
    BY <2>4, <2>5, <2>6, <2>7
<1>3. QED
  BY <1>1, <1>2

(***************************************************************************)
(* A slot list in which a datum occupies at most one slot counts it once   *)
(* or not at all.                                                          *)
(***************************************************************************)
LEMMA SlotCountOne ==
  ASSUME NEW d, \A s1, s2 \in Slots : slots[s1] = d /\ slots[s2] = d => s1 = s2
  PROVE  SlotCount(d) = IF InSlot(d) THEN 1 ELSE 0
<1>1. CASE InSlot(d)
  <2>1. PICK s0 \in Slots : slots[s0] = d
    BY <1>1
  <2>2. {s \in Slots : slots[s] = d} = {s0}
    BY <2>1
  <2>3. QED
    BY <1>1, <2>2, FS_Singleton DEF SlotCount
<1>2. CASE ~InSlot(d)
  <2>1. {s \in Slots : slots[s] = d} = {}
    BY <1>2
  <2>2. QED
    BY <1>2, <2>1, FS_EmptySet DEF SlotCount
<1>3. QED
  BY <1>1, <1>2

(***************************************************************************)
(* Every step keeps DataInv. Only the setters (which swap under the lock)  *)
(* and the destructor steps touch the data; all other steps leave it.      *)
(***************************************************************************)
THEOREM NextDataInv == IInv /\ DataInv /\ [Next]_vars => DataInv'
<1> SUFFICES ASSUME IInv, DataInv, [Next]_vars PROVE DataInv'
  OBVIOUS
<1> USE DEF IInv
<1>1. ASSUME NEW t \in Threads, SetNewConnectionFunction(t) PROVE DataInv'
  <2>1. PICK d \in FreshData : ncData' = d /\ used' = used \cup ({d} \ {NoData})
    BY <1>1 DEF SetNewConnectionFunction
  <2>2. /\ oldData' = [oldData EXCEPT ![t] = ncData]
        /\ UNCHANGED <<slots, frees>>
    BY <1>1 DEF SetNewConnectionFunction
  <2>3. ncData \in used \cup {NoData}
    BY DEF TypeOK, DataUnused
  <2>4. d \in Data => d \notin used /\ d # ncData
    BY <2>1, <2>3, DataAssumption
  <2>5. oldData[t] = NoData /\ pc'[t] = "nc_free"
        /\ \A u \in Threads \ {t} : pc'[u] = pc[u]
    BY <1>1 DEF SetNewConnectionFunction, DataPendingFree, TypeOK
  <2> USE <2>1, <2>2, <2>3, <2>4, <2>5, DataAssumption DEF TypeOK
  <2>6. DataUnused'
    BY DEF DataUnused
  <2>7. DataFreedOnce'
    BY DEF DataUnused, DataFreedOnce
  <2>8. DataOnePlace'
    BY DEF DataUnused, DataOnePlace
  <2>9. DataPendingFree'
    BY DEF DataPendingFree
  <2>10. QED
    BY <2>6, <2>7, <2>8, <2>9
<1>2. ASSUME NEW t \in Threads, SetData(t) PROVE DataInv'
  <2>1. PICK s \in Slots, d \in FreshData, ok \in BOOLEAN :
          IF ok THEN /\ slots' = [slots EXCEPT ![s] = d]
                     /\ oldData' = [oldData EXCEPT ![t] = slots[s]]
                     /\ used' = used \cup ({d} \ {NoData})
                     /\ pc' = [pc EXCEPT ![t] = "data_free"]
                ELSE UNCHANGED <<slots, oldData, used, pc>>
    BY <1>2 DEF SetData
  <2>2. UNCHANGED <<ncData, frees>> /\ pc[t] = "idle"
    BY <1>2 DEF SetData
  <2>3. CASE ~ok
    BY <2>1, <2>2, <2>3, DataFrame DEF TypeOK
  <2>4. CASE ok
    <3>1. slots[s] \in used \cup {NoData}
      BY DEF TypeOK, DataUnused
    <3>2. d \in Data => d \notin used /\ d # slots[s]
      BY <2>1, <3>1, DataAssumption
    <3>3. /\ slots' = [slots EXCEPT ![s] = d]
          /\ oldData' = [oldData EXCEPT ![t] = slots[s]]
          /\ used' = used \cup ({d} \ {NoData})
          /\ oldData[t] = NoData /\ pc'[t] = "data_free"
          /\ \A u \in Threads \ {t} : pc'[u] = pc[u]
      BY <2>1, <2>2, <2>4 DEF DataPendingFree, TypeOK
    <3> USE <2>1, <2>2, <3>1, <3>2, <3>3, DataAssumption DEF TypeOK
    <3>4. DataUnused'
      BY DEF DataUnused
    <3>5. DataFreedOnce'
      BY DEF DataUnused, DataFreedOnce
    <3>6. DataOnePlace'
      BY DEF DataUnused, DataOnePlace
    <3>7. DataPendingFree'
      BY DEF DataPendingFree
    <3>8. QED
      BY <3>4, <3>5, <3>6, <3>7
  <2>5. QED
    BY <2>3, <2>4
<1>3. ASSUME NEW t \in Threads, NcFree(t) PROVE DataInv'
  BY <1>3, FreeOldData DEF NcFree, TypeOK
<1>4. ASSUME NEW t \in Threads, DataFree(t) PROVE DataInv'
  BY <1>4, FreeOldData DEF DataFree, TypeOK
<1>5. ASSUME NEW t \in Threads, FinNcFree(t) PROVE DataInv'
  BY <1>5, FreeOldData DEF FinNcFree, TypeOK
<1>6. ASSUME NEW t \in Threads, FinNc(t) PROVE DataInv'
  <2>1. /\ oldData' = [oldData EXCEPT ![t] = ncData]
        /\ ncData' = NoData
        /\ UNCHANGED <<slots, frees, used>>
    BY <1>6 DEF FinNc
  <2>2. oldData[t] = NoData /\ pc'[t] = "fin_nc_free"
        /\ \A u \in Threads \ {t} : pc'[u] = pc[u]
    BY <1>6 DEF FinNc, DataPendingFree, TypeOK
  <2> USE <2>1, <2>2, DataAssumption DEF TypeOK
  <2>3. DataUnused'
    BY DEF DataUnused
  <2>4. DataFreedOnce'
    BY DEF DataFreedOnce
  <2>5. DataOnePlace'
    BY DEF DataOnePlace
  <2>6. DataPendingFree'
    BY DEF DataPendingFree
  <2>7. QED
    BY <2>3, <2>4, <2>5, <2>6
<1>7. ASSUME NEW t \in Threads, FinSlots(t) PROVE DataInv'
  <2>1. /\ frees' = [d \in Data |-> frees[d] + SlotCount(d)]
        /\ slots' = [s \in Slots |-> NoData]
        /\ UNCHANGED <<ncData, oldData, used>>
        /\ oldData[t] = NoData /\ pc'[t] = "fin_nc"
        /\ \A u \in Threads \ {t} : pc'[u] = pc[u]
    BY <1>7 DEF FinSlots, DataPendingFree, TypeOK
  <2>2. \A d \in Data : SlotCount(d) = IF InSlot(d) THEN 1 ELSE 0
    BY SlotCountOne DEF DataOnePlace
  <2> USE <2>1, <2>2, DataAssumption DEF TypeOK
  <2>3. DataUnused'
    BY DEF DataUnused
  <2>4. DataFreedOnce'
    BY DEF DataFreedOnce, DataOnePlace
  <2>5. DataOnePlace'
    BY DEF DataOnePlace
  <2>6. DataPendingFree'
    BY DEF DataPendingFree
  <2>7. QED
    BY <2>3, <2>4, <2>5, <2>6
<1>8. ASSUME NEW t \in Threads,
             \/ \E u \in Threads : Ref(t, u)
             \/ Unref(t) \/ BackendCall(t) \/ PcwCall(t) \/ PcwRelock(t)
             \/ BackendDone(t) \/ Disconnect(t) \/ DiscBackend(t)
             \/ DiscWatchFreed(t) \/ DiscUnlock(t) \/ DiscUnref(t)
             \/ SetWatchFunctions(t) \/ SetTimeoutFunctions(t)
             \/ SwfCall(t) \/ SwfRelock(t) \/ SetAuthMechanisms(t)
             \/ FinFree(t)
      PROVE  DataInv'
  <2>1. UNCHANGED <<ncData, slots, oldData, frees, used>>
    BY <1>8 DEF Ref, Unref, DropRef, DropRefEarly, BackendCall, AddWatch,
       RemoveWatch, ToggleWatch, AddTimeout, RemoveTimeout, ToggleTimeout,
       ProtectedChange, ListAdd, PcwCall, PcwRelock, BackendDone, Disconnect,
       DiscBackend, DiscWatchFreed, DiscUnlock, DiscUnref, SetWatchFunctions,
       SetTimeoutFunctions, SetFunctions, SwfCall, SwfRelock,
       SetAuthMechanisms, FinFree
  <2>2. pc[t] \notin FreePcs /\ \A u \in Threads \ {t} : pc'[u] = pc[u]
    BY <1>8 DEF Ref, Unref, DropRef, DropRefEarly, BackendCall, AddWatch,
       RemoveWatch, ToggleWatch, AddTimeout, RemoveTimeout, ToggleTimeout,
       ProtectedChange, ListAdd, PcwCall, PcwRelock, BackendDone, Disconnect,
       DiscBackend, DiscWatchFreed, DiscUnlock, DiscUnref, SetWatchFunctions,
       SetTimeoutFunctions, SetFunctions, SwfCall, SwfRelock,
       SetAuthMechanisms, FinFree, TypeOK
  <2>3. QED
    BY <2>1, <2>2, DataFrame DEF DataPendingFree
<1>9. CASE Terminated \/ UNCHANGED vars
  BY <1>9, DataFrame DEF Terminated, vars
<1>10. QED
  BY <1>1, <1>2, <1>3, <1>4, <1>5, <1>6, <1>7, <1>8, <1>9 DEF Next

(***************************************************************************)
(* Each piece of application data handed to the server is destroyed at    *)
(* most once, and never while the server still stores it as               *)
(* new_connection_data or in a slot: the swap-under-lock, free-after-     *)
(* unlock of dbus_server_set_new_connection_function, dbus_server_set_data *)
(* and _dbus_server_finalize_base is safe for every number of threads,    *)
(* data and slots. DataInv is the inductive strengthening: it adds that   *)
(* data the thread swapped out is held by that thread alone until its     *)
(* destructor step, and that a slot list never holds a datum twice.       *)
(***************************************************************************)
THEOREM DestructorDiscipline == Spec => []DestructorsSafe
<1>1. DataInv => DestructorsSafe
  BY DEF DestructorsSafe, Installed, DataFreedOnce
<1>2. QED
  BY <1>1, InitIInv, NextIInv, InitDataInv, NextDataInv, PTL DEF Spec
=============================================================================
