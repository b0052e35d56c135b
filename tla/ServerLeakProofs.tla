--------------------------- MODULE ServerLeakProofs ---------------------------
(***************************************************************************)
(* No leak at finalize, for every instance in which _dbus_dup_string_array *)
(* never fails: by the time the object is released, the destructor of     *)
(* every datum ever handed to set_new_connection_function or set_data has *)
(* run. The argument rests on the lifetime invariant (nobody else can     *)
(* call in while a thread finalizes) and the data invariant (a swapped-   *)
(* out datum sits with its thread until the destructor step).             *)
(***************************************************************************)
EXTENDS ServerLifetimeProofs

\* The finalize steps after the slot list has been freed.
LateFinPcs == {"fin_nc", "fin_nc_free", "fin_free"}

(***************************************************************************)
(* Every datum handed to the server has been destroyed, or is still in    *)
(* the server, or is with the thread that swapped it out; finalize frees   *)
(* the slots before it moves on and clears the new-connection data before *)
(* its last step; a released object has had every datum destroyed.       *)
(***************************************************************************)
LeakTracked ==
  \A d \in used : frees[d] >= 1 \/ Installed(d) \/ Pending(d)

FinSlotsCleared ==
  \A t \in Threads : pc[t] \in LateFinPcs => \A s \in Slots : slots[s] = NoData

FinNcCleared ==
  \A t \in Threads : pc[t] \in {"fin_nc_free", "fin_free"} => ncData = NoData

FinalizedFreed ==
  finalized => \A d \in used : frees[d] >= 1

LeakInv == LeakTracked /\ FinSlotsCleared /\ FinNcCleared /\ FinalizedFreed

USE DEF LockedPcs, RetPcs, WindowPcs, FinalizePcs, Goto, CanCall, LockFree,
        FreshData, Reg, Items, Ops, Pcs, Arg, NoArg, DisconnectPcs,
        InSlot, Pending, FreePcs, LateFinPcs

\* Initially nothing has been handed to the server.
LEMMA InitLeakInv == Init => LeakInv
BY DEF Init, LeakInv, LeakTracked, FinSlotsCleared, FinNcCleared,
       FinalizedFreed

\* A step that touches none of the data, the flag, and brings no thread
\* into the late finalize steps keeps LeakInv.
LEMMA LeakFrame ==
  ASSUME LeakInv, UNCHANGED <<ncData, slots, oldData, frees, used, finalized>>,
         \A u \in Threads : pc'[u] \in LateFinPcs => pc'[u] = pc[u]
  PROVE  LeakInv'
BY DEF LeakInv, LeakTracked, FinSlotsCleared, FinNcCleared, FinalizedFreed,
       Installed

(***************************************************************************)
(* Running the destructor of a swapped-out datum keeps every datum         *)
(* tracked and never lowers a destructor count.                           *)
(***************************************************************************)
LEMMA FreeOldLeak ==
  ASSUME TypeOK, LeakTracked, NEW t \in Threads, FreeOld(t),
         UNCHANGED <<ncData, slots, used>>
  PROVE  /\ LeakTracked'
         /\ \A d \in Data : frees'[d] \in Nat /\ frees'[d] >= frees[d]
<1>1. \A d \in Data : frees'[d] \in Nat /\ frees'[d] >= frees[d]
  BY DEF FreeOld, TypeOK
<1>2. oldData[t] # NoData => frees'[oldData[t]] >= 1
  BY DEF FreeOld, TypeOK
<1>3. ASSUME NEW d \in used' PROVE frees'[d] >= 1 \/ Installed(d)' \/ Pending(d)'
  <2>1. d \in Data /\ d \in used
    BY DEF TypeOK
  <2>2. CASE frees[d] >= 1
    <3>1. frees'[d] >= 1
      BY <1>1, <2>1, <2>2 DEF TypeOK
    <3>2. QED
      BY <3>1
  <2>3. CASE Installed(d)
    BY <2>3 DEF Installed
  <2>4. CASE \E u \in Threads : oldData[u] = d
    <3>1. PICK u \in Threads : oldData[u] = d
      BY <2>4
    <3>2. CASE u = t
      BY <1>2, <2>1, <3>1, <3>2, DataAssumption
    <3>3. CASE u # t
      BY <3>1, <3>3 DEF FreeOld, TypeOK
    <3>4. QED
      BY <3>2, <3>3
  <2>5. QED
    BY <2>1, <2>2, <2>3, <2>4 DEF LeakTracked
<1>4. QED
  BY <1>1, <1>3 DEF LeakTracked

\* protected_change_* brings no thread into finalize's late steps.
LEMMA ProtectedChangeLeak ==
  ASSUME TypeOK, LeakInv, NEW t \in Threads, NEW k, NEW i, NEW op,
         NEW rp \in {"backend_done", "disc_watch_freed"},
         ProtectedChange(t, k, i, op, rp),
         UNCHANGED <<ncData, slots, oldData, frees, used, finalized>>
  PROVE  LeakInv'
<1>1. \A u \in Threads : pc'[u] \in LateFinPcs => pc'[u] = pc[u]
  BY DEF ProtectedChange, TypeOK
<1>2. QED
  BY <1>1, LeakFrame

\* A thread that owns a reference rules out finalize, started or done.
LEMMA OwnerBlocksFinalize ==
  ASSUME LifeInv, NEW t \in Threads, held[t] >= 1
  PROVE  ~finalized /\ \A u \in Threads : pc[u] \notin FinalizePcs
BY DEF LifeInv, LifetimeSafe

(***************************************************************************)
(* Every step keeps LeakInv.                                               *)
(***************************************************************************)
THEOREM NextLeakInv ==
  IInv /\ LockInv /\ DataInv /\ LifeInv /\ LeakInv /\ [Next]_vars => LeakInv'
<1> SUFFICES ASSUME IInv, LockInv, DataInv, LifeInv, LeakInv, [Next]_vars
             PROVE  LeakInv'
  OBVIOUS
<1> USE DEF IInv
<1>0. TypeOK'
  BY NextIInv
<1>1. ASSUME NEW t \in Threads, NEW u \in Threads, Ref(t, u) PROVE LeakInv'
  BY <1>1, LeakFrame DEF Ref
<1>2. ASSUME NEW t \in Threads, Unref(t) PROVE LeakInv'
  BY <1>2, LeakFrame DEF Unref, DropRef, TypeOK
<1>3. ASSUME NEW t \in Threads, BackendCall(t) PROVE LeakInv'
  <2>1. PICK k \in Reg, i \in Watches \cup Timeouts, op \in Ops :
              ProtectedChange(t, k, i, op, "backend_done")
    BY <1>3 DEF BackendCall, AddWatch, RemoveWatch, ToggleWatch,
                AddTimeout, RemoveTimeout, ToggleTimeout
  <2>2. UNCHANGED <<ncData, slots, oldData, frees, used, finalized>>
    BY <1>3 DEF BackendCall
  <2>3. QED
    BY <2>1, <2>2, ProtectedChangeLeak
<1>4. ASSUME NEW t \in Threads,
             \/ PcwCall(t) \/ BackendDone(t) \/ Disconnect(t)
             \/ DiscWatchFreed(t) \/ DiscUnlock(t) \/ SwfCall(t)
             \/ SwfRelock(t) \/ SetAuthMechanisms(t)
      PROVE  LeakInv'
  <2>1. CASE PcwCall(t)
    BY <2>1, LeakFrame DEF PcwCall, TypeOK
  <2>2. CASE BackendDone(t)
    BY <2>2, LeakFrame DEF BackendDone, TypeOK
  <2>3. CASE Disconnect(t)
    BY <2>3, LeakFrame DEF Disconnect, TypeOK
  <2>4. CASE DiscWatchFreed(t)
    BY <2>4, LeakFrame DEF DiscWatchFreed, TypeOK
  <2>5. CASE DiscUnlock(t)
    BY <2>5, LeakFrame DEF DiscUnlock, TypeOK
  <2>6. CASE SwfCall(t)
    BY <2>6, LeakFrame DEF SwfCall, TypeOK
  <2>7. CASE SwfRelock(t)
    BY <2>7, LeakFrame DEF SwfRelock, TypeOK
  <2>8. CASE SetAuthMechanisms(t)
    BY <2>8, LeakFrame DEF SetAuthMechanisms, TypeOK
  <2>9. QED
    BY <1>4, <2>1, <2>2, <2>3, <2>4, <2>5, <2>6, <2>7, <2>8
<1>5. ASSUME NEW t \in Threads, PcwRelock(t) PROVE LeakInv'
  <2>1. ret[t] \in RetPcs
    BY <1>5 DEF PcwRelock, LockInv
  <2>2. \A u \in Threads : pc'[u] \in LateFinPcs => pc'[u] = pc[u]
    BY <1>5, <2>1 DEF PcwRelock, TypeOK
  <2>3. QED
    BY <1>5, <2>2, LeakFrame DEF PcwRelock
<1>6. ASSUME NEW t \in Threads, DiscBackend(t) PROVE LeakInv'
  <2>1. UNCHANGED <<ncData, slots, oldData, frees, used, finalized>>
    BY <1>6 DEF DiscBackend
  <2>2. CASE live["watch"] # {}
    <3>1. ProtectedChange(t, "watch", CHOOSE w \in live["watch"] : TRUE,
                          "remove", "disc_watch_freed")
      BY <1>6, <2>2 DEF DiscBackend, RemoveWatch
    <3>2. QED
      BY <2>1, <3>1, ProtectedChangeLeak
  <2>3. CASE live["watch"] = {}
    BY <1>6, <2>1, <2>3, LeakFrame DEF DiscBackend, TypeOK
  <2>4. QED
    BY <2>2, <2>3
<1>7. ASSUME NEW t \in Threads, DiscUnref(t) PROVE LeakInv'
  BY <1>7, LeakFrame DEF DiscUnref, DropRef, TypeOK
<1>8. ASSUME NEW t \in Threads, SetWatchFunctions(t) \/ SetTimeoutFunctions(t)
      PROVE  LeakInv'
  BY <1>8, LeakFrame DEF SetWatchFunctions, SetTimeoutFunctions,
     SetFunctions, TypeOK
<1>9. ASSUME NEW t \in Threads, SetNewConnectionFunction(t) PROVE LeakInv'
  <2>1. PICK d \in FreshData : ncData' = d /\ used' = used \cup ({d} \ {NoData})
    BY <1>9 DEF SetNewConnectionFunction
  <2>2. /\ oldData' = [oldData EXCEPT ![t] = ncData]
        /\ pc' = [pc EXCEPT ![t] = "nc_free"]
        /\ UNCHANGED <<frees, slots, finalized>>
        /\ held[t] >= 1 /\ pc[t] = "idle"
    BY <1>9 DEF SetNewConnectionFunction
  <2>3. oldData[t] = NoData
    BY <2>2 DEF DataInv, DataPendingFree
  <2>4. ~finalized /\ \A u \in Threads : pc[u] \notin FinalizePcs
    BY <2>2, OwnerBlocksFinalize
  <2>5. LeakTracked'
    <3> SUFFICES ASSUME NEW e \in used'
                 PROVE  frees'[e] >= 1 \/ Installed(e)' \/ Pending(e)'
      BY DEF LeakTracked
    <3>1. CASE e = d
      BY <2>1, <3>1 DEF Installed
    <3>2. CASE e # d
      <4>1. e \in used /\ e \in Data
        BY <2>1, <3>2 DEF TypeOK
      <4>2. frees[e] >= 1 \/ ncData = e \/ (\E s \in Slots : slots[s] = e)
              \/ \E u \in Threads : oldData[u] = e
        BY <4>1 DEF LeakInv, LeakTracked, Installed
      <4>3. CASE ncData = e
        BY <2>2, <4>3 DEF TypeOK
      <4>4. CASE \E u \in Threads : oldData[u] = e
        <5>1. PICK u \in Threads : oldData[u] = e
          BY <4>4
        <5>2. u # t
          BY <2>3, <4>1, <5>1, DataAssumption
        <5>3. QED
          BY <2>2, <5>1, <5>2 DEF TypeOK
      <4>5. QED
        BY <2>2, <4>2, <4>3, <4>4 DEF Installed
    <3>3. QED
      BY <3>1, <3>2
  <2>6. FinSlotsCleared' /\ FinNcCleared' /\ FinalizedFreed'
    BY <2>2, <2>4 DEF FinSlotsCleared, FinNcCleared, FinalizedFreed, TypeOK
  <2>7. QED
    BY <2>5, <2>6 DEF LeakInv
<1>10. ASSUME NEW t \in Threads, SetData(t) PROVE LeakInv'
  <2>1. PICK s \in Slots, d \in FreshData, ok \in BOOLEAN :
          IF ok
            THEN /\ slots' = [slots EXCEPT ![s] = d]
                 /\ oldData' = [oldData EXCEPT ![t] = slots[s]]
                 /\ used' = used \cup ({d} \ {NoData})
                 /\ Goto(t, "data_free")
            ELSE UNCHANGED <<slots, oldData, used, pc>>
    BY <1>10 DEF SetData
  <2>2. /\ UNCHANGED <<ncData, frees, finalized>>
        /\ held[t] >= 1 /\ pc[t] = "idle"
    BY <1>10 DEF SetData
  <2>3. CASE ~ok
    BY <2>1, <2>2, <2>3, LeakFrame
  <2>4. CASE ok
    <3>1. /\ slots' = [slots EXCEPT ![s] = d]
          /\ oldData' = [oldData EXCEPT ![t] = slots[s]]
          /\ used' = used \cup ({d} \ {NoData})
          /\ pc' = [pc EXCEPT ![t] = "data_free"]
      BY <2>1, <2>4
    <3>2. oldData[t] = NoData
      BY <2>2 DEF DataInv, DataPendingFree
    <3>3. ~finalized /\ \A u \in Threads : pc[u] \notin FinalizePcs
      BY <2>2, OwnerBlocksFinalize
    <3>4. LeakTracked'
      <4> SUFFICES ASSUME NEW e \in used'
                   PROVE  frees'[e] >= 1 \/ Installed(e)' \/ Pending(e)'
        BY DEF LeakTracked
      <4>1. CASE e = d
        BY <3>1, <4>1 DEF Installed, TypeOK
      <4>2. CASE e # d
        <5>1. e \in used /\ e \in Data
          BY <3>1, <4>2 DEF TypeOK
        <5>2. frees[e] >= 1 \/ ncData = e \/ (\E r \in Slots : slots[r] = e)
                \/ \E u \in Threads : oldData[u] = e
          BY <5>1 DEF LeakInv, LeakTracked, Installed
        <5>3. CASE \E r \in Slots : slots[r] = e
          <6>1. PICK r \in Slots : slots[r] = e
            BY <5>3
          <6>2. CASE r = s
            BY <3>1, <6>1, <6>2 DEF TypeOK
          <6>3. CASE r # s
            BY <3>1, <6>1, <6>3 DEF TypeOK, Installed
          <6>4. QED
            BY <6>2, <6>3
        <5>4. CASE \E u \in Threads : oldData[u] = e
          <6>1. PICK u \in Threads : oldData[u] = e
            BY <5>4
          <6>2. u # t
            BY <3>2, <5>1, <6>1, DataAssumption
          <6>3. QED
            BY <3>1, <6>1, <6>2 DEF TypeOK
        <5>5. QED
          BY <2>2, <5>2, <5>3, <5>4 DEF Installed
      <4>3. QED
        BY <4>1, <4>2
    <3>5. FinSlotsCleared' /\ FinNcCleared' /\ FinalizedFreed'
      BY <2>2, <3>1, <3>3 DEF FinSlotsCleared, FinNcCleared, FinalizedFreed,
         TypeOK
    <3>6. QED
      BY <3>4, <3>5 DEF LeakInv
  <2>5. QED
    BY <2>3, <2>4
<1>11. ASSUME NEW t \in Threads, NcFree(t) \/ DataFree(t) PROVE LeakInv'
  <2>1. /\ FreeOld(t) /\ UNCHANGED <<ncData, slots, used, finalized>>
        /\ pc' = [pc EXCEPT ![t] = "idle"]
    BY <1>11 DEF NcFree, DataFree
  <2>2. /\ LeakTracked'
        /\ \A d \in Data : frees'[d] \in Nat /\ frees'[d] >= frees[d]
    BY <2>1, FreeOldLeak DEF LeakInv
  <2>3. FinSlotsCleared' /\ FinNcCleared'
    BY <2>1 DEF LeakInv, FinSlotsCleared, FinNcCleared, TypeOK
  <2>4. FinalizedFreed'
    BY <2>1, <2>2 DEF LeakInv, FinalizedFreed, TypeOK
  <2>5. QED
    BY <2>2, <2>3, <2>4 DEF LeakInv
<1>12. ASSUME NEW t \in Threads, FinNcFree(t) PROVE LeakInv'
  <2>1. /\ FreeOld(t) /\ UNCHANGED <<ncData, slots, used, finalized>>
        /\ pc[t] = "fin_nc_free" /\ pc' = [pc EXCEPT ![t] = "fin_free"]
    BY <1>12 DEF FinNcFree
  <2>2. LeakTracked'
    BY <2>1, FreeOldLeak DEF LeakInv
  <2>3. (\A r \in Slots : slots[r] = NoData) /\ ncData = NoData
    BY <2>1 DEF LeakInv, FinSlotsCleared, FinNcCleared
  <2>4. FinSlotsCleared' /\ FinNcCleared'
    BY <2>1, <2>3 DEF FinSlotsCleared, FinNcCleared
  <2>5. ~finalized
    BY <2>1 DEF LifeInv, LifetimeSafe
  <2>6. QED
    BY <2>1, <2>2, <2>4, <2>5 DEF LeakInv, FinalizedFreed
<1>13. ASSUME NEW t \in Threads, FinSlots(t) PROVE LeakInv'
  <2>1. /\ frees' = [d \in Data |-> frees[d] + SlotCount(d)]
        /\ slots' = [r \in Slots |-> NoData]
        /\ pc[t] = "fin_slots" /\ pc' = [pc EXCEPT ![t] = "fin_nc"]
        /\ UNCHANGED <<ncData, oldData, used, finalized>>
    BY <1>13 DEF FinSlots
  <2>2. ~finalized /\ \A u \in Threads \ {t} : pc[u] = "idle"
    BY <2>1 DEF LifeInv, LifetimeSafe
  <2>3. \A d \in Data : SlotCount(d) = IF InSlot(d) THEN 1 ELSE 0
    BY SlotCountOne DEF DataInv, DataOnePlace
  <2>4. LeakTracked'
    <3> SUFFICES ASSUME NEW e \in used
                 PROVE  frees'[e] >= 1 \/ Installed(e)' \/ Pending(e)'
      BY <2>1 DEF LeakTracked
    <3>1. e \in Data
      BY DEF TypeOK
    <3>2. frees'[e] = frees[e] + (IF InSlot(e) THEN 1 ELSE 0)
      BY <2>1, <2>3, <3>1
    <3>3. frees[e] >= 1 \/ ncData = e \/ InSlot(e)
            \/ \E u \in Threads : oldData[u] = e
      BY DEF LeakInv, LeakTracked, Installed
    <3>4. QED
      BY <2>1, <3>1, <3>2, <3>3 DEF TypeOK, Installed
  <2>5. QED
    BY <2>1, <2>2, <2>4 DEF LeakInv, FinSlotsCleared, FinNcCleared,
       FinalizedFreed, TypeOK
<1>14. ASSUME NEW t \in Threads, FinNc(t) PROVE LeakInv'
  <2>1. /\ oldData' = [oldData EXCEPT ![t] = ncData] /\ ncData' = NoData
        /\ pc[t] = "fin_nc" /\ pc' = [pc EXCEPT ![t] = "fin_nc_free"]
        /\ UNCHANGED <<slots, frees, used, finalized>>
    BY <1>14 DEF FinNc
  <2>2. oldData[t] = NoData /\ ~finalized
    BY <2>1 DEF DataInv, DataPendingFree, LifeInv, LifetimeSafe
  <2>3. LeakTracked'
    <3> SUFFICES ASSUME NEW e \in used
                 PROVE  frees'[e] >= 1 \/ Installed(e)' \/ Pending(e)'
      BY <2>1 DEF LeakTracked
    <3>1. e \in Data
      BY DEF TypeOK
    <3>2. frees[e] >= 1 \/ ncData = e \/ InSlot(e)
            \/ \E u \in Threads : oldData[u] = e
      BY DEF LeakInv, LeakTracked, Installed
    <3>3. CASE \E u \in Threads : oldData[u] = e
      <4>1. PICK u \in Threads : oldData[u] = e
        BY <3>3
      <4>2. u # t
        BY <2>2, <3>1, <4>1, DataAssumption
      <4>3. QED
        BY <2>1, <4>1, <4>2 DEF TypeOK
    <3>4. QED
      BY <2>1, <3>2, <3>3 DEF TypeOK, Installed
  <2>4. \A r \in Slots : slots[r] = NoData
    BY <2>1 DEF LeakInv, FinSlotsCleared
  <2>5. QED
    BY <2>1, <2>2, <2>3, <2>4 DEF LeakInv, FinSlotsCleared, FinNcCleared,
       FinalizedFreed
<1>15. ASSUME NEW t \in Threads, FinFree(t) PROVE LeakInv'
  <2>1. /\ finalized' = TRUE /\ pc[t] = "fin_free" /\ pc' = [pc EXCEPT ![t] = ret[t]]
        /\ UNCHANGED <<ncData, slots, oldData, frees, used>>
    BY <1>15 DEF FinFree
  <2>2. /\ ret[t] = "idle" /\ \A u \in Threads \ {t} : pc[u] = "idle"
    BY <2>1 DEF LifeInv, FinalizeToIdle, LifetimeSafe
  <2>3. (\A r \in Slots : slots[r] = NoData) /\ ncData = NoData
    BY <2>1 DEF LeakInv, FinSlotsCleared, FinNcCleared
  <2>4. \A u \in Threads : oldData[u] = NoData
    BY <2>1, <2>2 DEF DataInv, DataPendingFree
  <2>5. \A e \in used : frees[e] >= 1
    <3> SUFFICES ASSUME NEW e \in used PROVE frees[e] >= 1
      OBVIOUS
    <3>1. e \in Data
      BY DEF TypeOK
    <3>2. ~Installed(e) /\ ~Pending(e)
      BY <2>3, <2>4, <3>1, DataAssumption DEF Installed
    <3>3. QED
      BY <3>2 DEF LeakInv, LeakTracked
  <2>6. \A u \in Threads : pc'[u] = "idle"
    BY <2>1, <2>2 DEF TypeOK
  <2>7. QED
    BY <2>1, <2>5, <2>6 DEF LeakInv, LeakTracked, FinSlotsCleared,
       FinNcCleared, FinalizedFreed, Installed
<1>20. CASE Terminated \/ UNCHANGED vars
  <2>1. UNCHANGED vars
    BY <1>20 DEF Terminated
  <2>2. QED
    BY <2>1, LeakFrame DEF vars

<1>21. QED
  BY <1>1, <1>2, <1>3, <1>4, <1>5, <1>6, <1>7, <1>8, <1>9, <1>10, <1>11,
     <1>12, <1>13, <1>14, <1>15, <1>20 DEF Next


(***************************************************************************)
(* When _dbus_dup_string_array never fails, once the server is finalized  *)
(* the destructor of every datum ever handed to it has run exactly once:  *)
(* _dbus_server_finalize_base frees the slot list and the new-connection *)
(* data, and no other thread can install data while it runs. Exactly    *)
(* once comes from DataInv (DestructorDiscipline), at least once from    *)
(* LeakInv, which needs LifeInv for "no other thread".                    *)
(***************************************************************************)
THEOREM NoLeak ==
  ASSUME DupResults = {TRUE}
  PROVE  Spec => []NoLeakAtFinalize
<1> DEFINE All == IInv /\ LockInv /\ DataInv /\ LifeInv /\ LeakInv
<1>1. Init => All
  BY InitIInv, InitLockInv, InitDataInv, InitLifeInv, InitLeakInv
<1>2. All /\ [Next]_vars => All'
  BY NextIInv, NextLockInv, NextDataInv, NextLifeInv, NextLeakInv
<1>3. All => NoLeakAtFinalize
  BY DEF IInv, TypeOK, DataInv, DataFreedOnce, LeakInv, FinalizedFreed,
     NoLeakAtFinalize
<1>4. QED
  BY <1>1, <1>2, <1>3, PTL DEF Spec

=============================================================================
