------------------------- MODULE ServerRegistryProofs -------------------------
(***************************************************************************)
(* The reentrancy guard of the watch and timeout lists, for every instance *)
(* and every outcome of _dbus_dup_string_array: protected_change_* and    *)
(* set_*_functions take a list out of the server (the NULL field) before *)
(* working on it unlocked and put it back afterwards, so at most one      *)
(* thread works on a list and the list is never lost.                     *)
(***************************************************************************)
EXTENDS ServerProofs

\* The steps at which a thread works on a list it has taken out.
HolderPcs == {"pcw_call", "pcw_relock", "swf_call", "swf_relock"}

\* Where protected_change_* and finalize return to is never inside such a
\* window: a relock never leads back into the unlocked part.
RetNotWindow == \A t \in Threads : ret[t] \notin HolderPcs

RegInv == RegistryExclusive /\ RetNotWindow

USE DEF Goto, CanCall, LockFree, FreshData, Reg, Items, Ops, Pcs, Arg, NoArg,
        HolderPcs, RegistryHolders

\* Initially both lists are attached and nobody is inside a call.
LEMMA InitRegInv == Init => RegInv
BY DEF Init, RegInv, RegistryExclusive, RetNotWindow

(***************************************************************************)
(* A step that changes no list's place, and moves no thread into or out   *)
(* of a window nor changes the list a thread in a window works on, keeps  *)
(* RegistryExclusive.                                                     *)
(***************************************************************************)
LEMMA HoldersFrame ==
  ASSUME RegistryExclusive, attached' = attached,
         \A u \in Threads : /\ pc'[u] \in HolderPcs <=> pc[u] \in HolderPcs
                            /\ pc[u] \in HolderPcs => arg'[u] = arg[u]
  PROVE  RegistryExclusive'
<1>1. \A k \in Reg : RegistryHolders(k)' = RegistryHolders(k)
  OBVIOUS
<1>2. QED
  BY <1>1 DEF RegistryExclusive

(***************************************************************************)
(* Taking an attached list out: t becomes its only holder.                 *)
(***************************************************************************)
LEMMA HoldersEnter ==
  ASSUME TypeOK, RegistryExclusive, NEW t \in Threads, NEW k \in Reg,
         attached[k], attached' = [attached EXCEPT ![k] = FALSE],
         pc[t] \notin HolderPcs, pc'[t] \in HolderPcs, arg'[t].reg = k,
         \A u \in Threads \ {t} : pc'[u] = pc[u] /\ arg'[u] = arg[u]
  PROVE  RegistryExclusive'
<1> SUFFICES ASSUME NEW j \in Reg
             PROVE  IF attached'[j] THEN RegistryHolders(j)' = {}
                    ELSE \E u \in Threads : RegistryHolders(j)' = {u}
  BY DEF RegistryExclusive
<1>1. RegistryHolders(k) = {}
  BY DEF RegistryExclusive
<1>2. CASE j = k
  <2>1. ~attached'[j]
    BY <1>2 DEF TypeOK
  <2>2. RegistryHolders(j)' = {t}
    BY <1>1, <1>2
  <2>3. QED
    BY <2>1, <2>2
<1>3. CASE j # k
  <2>1. attached'[j] = attached[j]
    BY <1>3 DEF TypeOK
  <2>2. RegistryHolders(j)' = RegistryHolders(j)
    BY <1>3
  <2>3. QED
    BY <2>1, <2>2 DEF RegistryExclusive
<1>4. QED
  BY <1>2, <1>3

(***************************************************************************)
(* Putting the list back: its holder was t alone, and now nobody holds it. *)
(***************************************************************************)
LEMMA HoldersLeave ==
  ASSUME TypeOK, RegistryExclusive, NEW t \in Threads, pc[t] \in HolderPcs,
         arg[t].reg \in Reg,
         attached' = [attached EXCEPT ![arg[t].reg] = TRUE],
         pc'[t] \notin HolderPcs,
         \A u \in Threads \ {t} : pc'[u] = pc[u] /\ arg'[u] = arg[u]
  PROVE  RegistryExclusive'
<1> DEFINE k == arg[t].reg
<1> SUFFICES ASSUME NEW j \in Reg
             PROVE  IF attached'[j] THEN RegistryHolders(j)' = {}
                    ELSE \E u \in Threads : RegistryHolders(j)' = {u}
  BY DEF RegistryExclusive
<1>1. t \in RegistryHolders(k)
  OBVIOUS
<1>2. RegistryHolders(k) = {t}
  <2>1. ~attached[k] /\ \E u \in Threads : RegistryHolders(k) = {u}
    BY <1>1 DEF RegistryExclusive, TypeOK
  <2>2. QED
    BY <1>1, <2>1
<1>3. CASE j = k
  <2>1. attached'[j]
    BY <1>3 DEF TypeOK
  <2>2. RegistryHolders(j)' = {}
    BY <1>2, <1>3
  <2>3. QED
    BY <2>1, <2>2
<1>4. CASE j # k
  <2>1. attached'[j] = attached[j]
    BY <1>4 DEF TypeOK
  <2>2. RegistryHolders(j)' = RegistryHolders(j)
    BY <1>4
  <2>3. QED
    BY <2>1, <2>2 DEF RegistryExclusive
<1>5. QED
  BY <1>3, <1>4

\* protected_change_* entered outside a window keeps RegInv.
LEMMA ProtectedChangeReg ==
  ASSUME TypeOK, RegInv, NEW t \in Threads, NEW k \in Reg, NEW i, NEW op,
         NEW rp \in {"backend_done", "disc_watch_freed"},
         pc[t] \notin HolderPcs, ProtectedChange(t, k, i, op, rp)
  PROVE  RegInv'
<1>1. RetNotWindow'
  BY DEF ProtectedChange, RegInv, RetNotWindow, TypeOK
<1>2. CASE attached[k]
  <2>1. /\ attached' = [attached EXCEPT ![k] = FALSE]
        /\ pc'[t] \in HolderPcs /\ arg'[t].reg = k
        /\ \A u \in Threads \ {t} : pc'[u] = pc[u] /\ arg'[u] = arg[u]
    BY <1>2 DEF ProtectedChange, TypeOK
  <2>2. QED
    BY <1>1, <1>2, <2>1, HoldersEnter DEF RegInv
<1>3. CASE ~attached[k]
  <2>1. /\ attached' = attached
        /\ \A u \in Threads : /\ pc'[u] \in HolderPcs <=> pc[u] \in HolderPcs
                              /\ pc[u] \in HolderPcs => arg'[u] = arg[u]
    BY <1>3 DEF ProtectedChange, TypeOK
  <2>2. QED
    BY <1>1, <2>1, HoldersFrame DEF RegInv
<1>4. QED
  BY <1>2, <1>3

(***************************************************************************)
(* Every step keeps RegInv, whatever _dbus_dup_string_array returns.       *)
(***************************************************************************)
THEOREM NextRegInv == IInv /\ RegInv /\ [Next]_vars => RegInv'
<1> SUFFICES ASSUME IInv, RegInv, [Next]_vars PROVE RegInv'
  OBVIOUS
<1> USE DEF IInv
<1>a. RegistryExclusive /\ RetNotWindow
  BY DEF RegInv
\* The steps that change no list's place and no window.
<1>1. ASSUME NEW t \in Threads,
             \/ \E u \in Threads : Ref(t, u)
             \/ Unref(t) \/ DiscUnref(t)
             \/ Disconnect(t) \/ DiscWatchFreed(t) \/ DiscUnlock(t)
             \/ BackendDone(t) \/ PcwCall(t) \/ SwfCall(t)
             \/ SetNewConnectionFunction(t) \/ NcFree(t)
             \/ SetData(t) \/ DataFree(t) \/ SetAuthMechanisms(t)
             \/ FinSlots(t) \/ FinNc(t) \/ FinNcFree(t) \/ FinFree(t)
      PROVE  RegInv'
  <2>1. /\ attached' = attached
        /\ \A u \in Threads : /\ pc'[u] \in HolderPcs <=> pc[u] \in HolderPcs
                              /\ pc[u] \in HolderPcs => arg'[u] = arg[u]
        /\ RetNotWindow'
    <3>1. CASE \E u \in Threads : Ref(t, u)
      BY <1>a, <3>1 DEF Ref, RetNotWindow
    <3>2. CASE Unref(t)
      BY <1>a, <3>2 DEF Unref, DropRef, RetNotWindow, TypeOK
    <3>3. CASE DiscUnref(t)
      BY <1>a, <3>3 DEF DiscUnref, DropRef, RetNotWindow, TypeOK
    <3>4. CASE Disconnect(t)
      BY <1>a, <3>4 DEF Disconnect, RetNotWindow, TypeOK
    <3>5. CASE DiscWatchFreed(t)
      BY <1>a, <3>5 DEF DiscWatchFreed, RetNotWindow, TypeOK
    <3>6. CASE DiscUnlock(t)
      BY <1>a, <3>6 DEF DiscUnlock, RetNotWindow, TypeOK
    <3>7. CASE BackendDone(t)
      BY <1>a, <3>7 DEF BackendDone, RetNotWindow, TypeOK
    <3>8. CASE PcwCall(t)
      BY <1>a, <3>8 DEF PcwCall, RetNotWindow, TypeOK
    <3>9. CASE SwfCall(t)
      BY <1>a, <3>9 DEF SwfCall, RetNotWindow, TypeOK
    <3>10. CASE SetNewConnectionFunction(t)
      BY <1>a, <3>10 DEF SetNewConnectionFunction, RetNotWindow, TypeOK
    <3>11. CASE NcFree(t)
      BY <1>a, <3>11 DEF NcFree, FreeOld, RetNotWindow, TypeOK
    <3>12. CASE SetData(t)
      BY <1>a, <3>12 DEF SetData, RetNotWindow, TypeOK
    <3>13. CASE DataFree(t)
      BY <1>a, <3>13 DEF DataFree, FreeOld, RetNotWindow, TypeOK
    <3>14. CASE SetAuthMechanisms(t)
      BY <1>a, <3>14 DEF SetAuthMechanisms, RetNotWindow, TypeOK
    <3>15. CASE FinSlots(t)
      BY <1>a, <3>15 DEF FinSlots, RetNotWindow, TypeOK
    <3>16. CASE FinNc(t)
      BY <1>a, <3>16 DEF FinNc, RetNotWindow, TypeOK
    <3>17. CASE FinNcFree(t)
      BY <1>a, <3>17 DEF FinNcFree, FreeOld, RetNotWindow, TypeOK
    <3>18. CASE FinFree(t)
      BY <1>a, <3>18 DEF FinFree, RetNotWindow, TypeOK
    <3>19. QED
      BY <1>1, <3>1, <3>2, <3>3, <3>4, <3>5, <3>6, <3>7, <3>8, <3>9, <3>10,
         <3>11, <3>12, <3>13, <3>14, <3>15, <3>16, <3>17, <3>18
  <2>2. QED
    BY <1>a, <2>1, HoldersFrame DEF RegInv
<1>2. ASSUME NEW t \in Threads, BackendCall(t) PROVE RegInv'
  <2>1. PICK k \in Reg, i \in Watches \cup Timeouts, op \in Ops :
              ProtectedChange(t, k, i, op, "backend_done")
    BY <1>2 DEF BackendCall, AddWatch, RemoveWatch, ToggleWatch,
                AddTimeout, RemoveTimeout, ToggleTimeout
  <2>2. QED
    BY <1>2, <2>1, ProtectedChangeReg DEF BackendCall
<1>3. ASSUME NEW t \in Threads, DiscBackend(t) PROVE RegInv'
  <2>1. CASE live["watch"] # {}
    <3>1. ProtectedChange(t, "watch", CHOOSE w \in live["watch"] : TRUE,
                          "remove", "disc_watch_freed")
      BY <1>3, <2>1 DEF DiscBackend, RemoveWatch
    <3>2. QED
      BY <1>3, <3>1, ProtectedChangeReg DEF DiscBackend
  <2>2. CASE live["watch"] = {}
    <3>1. /\ attached' = attached
          /\ \A u \in Threads : /\ pc'[u] \in HolderPcs <=> pc[u] \in HolderPcs
                                /\ pc[u] \in HolderPcs => arg'[u] = arg[u]
          /\ RetNotWindow'
      BY <1>a, <1>3, <2>2 DEF DiscBackend, RetNotWindow, TypeOK
    <3>2. QED
      BY <1>a, <3>1, HoldersFrame DEF RegInv
  <2>3. QED
    BY <2>1, <2>2
<1>4. ASSUME NEW t \in Threads, PcwRelock(t) \/ SwfRelock(t) PROVE RegInv'
  <2>1. /\ pc[t] \in HolderPcs /\ arg[t].reg \in Reg
        /\ attached' = [attached EXCEPT ![arg[t].reg] = TRUE]
        /\ pc'[t] \notin HolderPcs
        /\ \A u \in Threads \ {t} : pc'[u] = pc[u] /\ arg'[u] = arg[u]
        /\ ret' = ret
    BY <1>a, <1>4 DEF PcwRelock, SwfRelock, RetNotWindow, TypeOK
  <2>2. QED
    BY <1>a, <2>1, HoldersLeave DEF RegInv, RetNotWindow
<1>5. ASSUME NEW t \in Threads, SetWatchFunctions(t) \/ SetTimeoutFunctions(t)
      PROVE  RegInv'
  <2>1. PICK k \in Reg : SetFunctions(t, k)
    BY <1>5 DEF SetWatchFunctions, SetTimeoutFunctions
  <2>2. RetNotWindow' /\ pc[t] = "idle"
    BY <1>a, <2>1 DEF SetFunctions, RetNotWindow
  <2>3. CASE attached[k]
    <3>1. /\ attached' = [attached EXCEPT ![k] = FALSE]
          /\ pc'[t] \in HolderPcs /\ arg'[t].reg = k
          /\ \A u \in Threads \ {t} : pc'[u] = pc[u] /\ arg'[u] = arg[u]
      BY <2>1, <2>3 DEF SetFunctions, TypeOK
    <3>2. QED
      BY <1>a, <2>2, <2>3, <3>1, HoldersEnter DEF RegInv
  <2>4. CASE ~attached[k]
    <3>1. UNCHANGED <<attached, arg, pc>>
      BY <2>1, <2>4 DEF SetFunctions
    <3>2. QED
      BY <1>a, <2>2, <3>1, HoldersFrame DEF RegInv
  <2>5. QED
    BY <2>3, <2>4
<1>6. CASE Terminated \/ UNCHANGED vars
  <2>1. UNCHANGED vars
    BY <1>6 DEF Terminated
  <2>2. QED
    BY <1>a, <2>1, HoldersFrame DEF vars, RegInv, RetNotWindow
<1>7. QED
  BY <1>1, <1>2, <1>3, <1>4, <1>5, <1>6 DEF Next

(***************************************************************************)
(* For every instance, whatever _dbus_dup_string_array returns, a watch or *)
(* timeout list is either attached to the server with nobody working on it *)
(* unlocked, or detached and worked on by exactly one thread: the         *)
(* NULL-field guard of protected_change_* and set_*_functions.           *)
(***************************************************************************)
THEOREM RegistryGuard == Spec => []RegistryExclusive
<1>1. Init => IInv /\ RegInv
  BY InitIInv, InitRegInv
<1>2. IInv /\ RegInv /\ [Next]_vars => (IInv /\ RegInv)'
  BY NextIInv, NextRegInv
<1>3. RegInv => RegistryExclusive
  BY DEF RegInv
<1>4. QED
  BY <1>1, <1>2, <1>3, PTL DEF Spec

=============================================================================
