---------------------------- MODULE ServerProofs ----------------------------
(***************************************************************************)
(* Machine-checked invariants of the Server module, for every set of       *)
(* threads, data, watches, timeouts and slots and every bound.             *)
(***************************************************************************)
EXTENDS Server, FiniteSetTheorems, TLAPS

\* The helpers every step of the proofs below expands.
USE DEF Goto, CanCall, LockFree, FreshData, Reg, Items, Ops, Pcs, Arg, NoArg

-----------------------------------------------------------------------------
(***************************************************************************)
(* TypeOK alone is not inductive: set_*_functions leaves NoData as the     *)
(* item of arg[t], and the list operations would put it in a list. ArgOK   *)
(* adds that such a thread is never inside protected_change_* or the       *)
(* backend's follow-up, and that a finalize it runs returns to "idle".     *)
(***************************************************************************)
ArgOK ==
  \A t \in Threads : arg[t].item = NoData =>
     /\ pc[t] \notin {"pcw_call", "pcw_relock", "backend_done",
                      "disc_watch_freed"}
     /\ pc[t] \in FinalizePcs => ret[t] = "idle"

IInv == TypeOK /\ ArgOK

(***************************************************************************)
(* The item a thread works on inside protected_change_* is a real watch    *)
(* or timeout.                                                             *)
(***************************************************************************)
LEMMA RealItem ==
  ASSUME IInv, NEW t \in Threads,
         pc[t] \in {"pcw_call", "pcw_relock", "backend_done",
                    "disc_watch_freed"}
  PROVE  arg[t].item \in Watches \cup Timeouts /\ arg[t].reg \in Reg
BY DEF IInv, TypeOK, ArgOK

(***************************************************************************)
(* protected_change_* keeps the variables it writes within their types and *)
(* hands a real item to the list operation.                                *)
(***************************************************************************)
LEMMA ProtectedChangeType ==
  ASSUME IInv, NEW t \in Threads, NEW k \in Reg,
         NEW i \in Watches \cup Timeouts, NEW op \in Ops, NEW rp \in Pcs,
         ProtectedChange(t, k, i, op, rp)
  PROVE  /\ refcount' \in Int
         /\ lockOwner' \in Threads \cup {NoThread}
         /\ attached' \in [Reg -> BOOLEAN]
         /\ pc' \in [Threads -> Pcs]
         /\ ret' \in [Threads -> Pcs]
         /\ arg' \in [Threads -> Arg]
         /\ result' \in [Threads -> BOOLEAN]
         /\ arg'[t].item # NoData
         /\ \A u \in Threads \ {t} : arg'[u] = arg[u] /\ pc'[u] = pc[u]
                                     /\ ret'[u] = ret[u]
<1>1. /\ arg' = [arg EXCEPT ![t] = [reg |-> k, item |-> i, op |-> op]]
      /\ ret' = [ret EXCEPT ![t] = rp]
  BY DEF ProtectedChange
<1>2. arg'[t] = [reg |-> k, item |-> i, op |-> op]
  BY <1>1 DEF IInv, TypeOK
<1>3. arg'[t].item # NoData
  BY <1>2, ItemsAssumption
<1>4. arg' \in [Threads -> Arg]
  BY <1>1 DEF IInv, TypeOK
<1>5. CASE attached[k]
  <2>1. /\ attached' = [attached EXCEPT ![k] = FALSE]
        /\ refcount' = refcount + 1
        /\ lockOwner' = NoThread
        /\ pc' = [pc EXCEPT ![t] = "pcw_call"]
        /\ result' = result
    BY <1>5 DEF ProtectedChange
  <2>2. QED
    BY <1>1, <1>3, <1>4, <2>1 DEF IInv, TypeOK
<1>6. CASE ~attached[k]
  <2>1. /\ attached' = attached
        /\ refcount' = refcount
        /\ lockOwner' = t
        /\ pc' = [pc EXCEPT ![t] = rp]
        /\ result' = [result EXCEPT ![t] = FALSE]
    BY <1>6 DEF ProtectedChange
  <2>2. QED
    BY <1>1, <1>3, <1>4, <2>1 DEF IInv, TypeOK
<1>7. QED
  BY <1>5, <1>6

(***************************************************************************)
(* Dropping a reference keeps the count an integer and the thread at a     *)
(* step of the code; a thread entering finalize this way returns to idle.  *)
(***************************************************************************)
LEMMA DropRefType ==
  ASSUME IInv, NEW t \in Threads, DropRef(t)
  PROVE  /\ refcount' \in Int
         /\ pc' \in [Threads -> Pcs]
         /\ ret' \in [Threads -> Pcs]
         /\ pc'[t] \in {"idle", "fin_slots"}
         /\ pc'[t] \in FinalizePcs => ret'[t] = "idle"
         /\ \A u \in Threads \ {t} : pc'[u] = pc[u] /\ ret'[u] = ret[u]
<1>1. CASE refcount = 1
  <2>1. /\ refcount' = refcount - 1
        /\ pc' = [pc EXCEPT ![t] = "fin_slots"]
        /\ ret' = [ret EXCEPT ![t] = "idle"]
    BY <1>1 DEF DropRef
  <2>2. QED
    BY <2>1 DEF IInv, TypeOK, FinalizePcs
<1>2. CASE refcount # 1
  <2>1. /\ refcount' = refcount - 1
        /\ pc' = [pc EXCEPT ![t] = "idle"]
        /\ ret' = ret
    BY <1>2 DEF DropRef
  <2>2. QED
    BY <2>1 DEF IInv, TypeOK, FinalizePcs
<1>3. QED
  BY <1>1, <1>2

-----------------------------------------------------------------------------
(***************************************************************************)
(* Type correctness: every step of the server keeps each variable in the   *)
(* set TypeOK gives it (pc and the return points among the code's steps,   *)
(* destructor counts natural, the lists within the backend's items).       *)
(***************************************************************************)
THEOREM InitIInv == Init => IInv
<1> SUFFICES ASSUME Init PROVE IInv
  OBVIOUS
<1>1. refcount \in Int /\ lockOwner \in Threads \cup {NoThread}
  BY ThreadsAssumption DEF Init
<1>2. attached \in [Reg -> BOOLEAN] /\ appFns \in [Reg -> BOOLEAN]
  BY DEF Init
<1>3. /\ list \in [Reg -> SUBSET (Watches \cup Timeouts)]
      /\ live \in [Reg -> SUBSET (Watches \cup Timeouts)]
      /\ gone \in [Reg -> SUBSET (Watches \cup Timeouts)]
  BY DEF Init
<1>4. /\ slots \in [Slots -> Data \cup {NoData}]
      /\ slotsGrown \in BOOLEAN /\ used \in SUBSET Data
      /\ ncData \in Data \cup {NoData}
      /\ disconnected \in BOOLEAN /\ finalized \in BOOLEAN
  BY DEF Init
<1>5. frees \in [Data -> Nat] /\ held \in [Threads -> Nat]
  BY DEF Init
<1>6. pc \in [Threads -> Pcs] /\ ret \in [Threads -> Pcs]
  BY DEF Init
<1>7. arg \in [Threads -> Arg]
  BY DEF Init
<1>8. /\ result \in [Threads -> BOOLEAN]
      /\ oldData \in [Threads -> Data \cup {NoData}]
  BY DEF Init
<1>9. ArgOK
  BY DEF Init, ArgOK, FinalizePcs
<1>10. QED
  BY <1>1, <1>2, <1>3, <1>4, <1>5, <1>6, <1>7, <1>8, <1>9 DEF IInv, TypeOK

(***************************************************************************)
(* ArgOK survives a step that changes only thread t's pc, ret and arg, and *)
(* leaves t either with a real item or outside the list operations.        *)
(***************************************************************************)
LEMMA ArgOKUpdate ==
  ASSUME ArgOK, NEW t \in Threads,
         \A u \in Threads \ {t} : /\ arg'[u] = arg[u]
                                  /\ pc'[u] = pc[u]
                                  /\ ret'[u] = ret[u],
         arg'[t].item = NoData =>
            /\ pc'[t] \notin {"pcw_call", "pcw_relock", "backend_done",
                              "disc_watch_freed"}
            /\ pc'[t] \in FinalizePcs => ret'[t] = "idle"
  PROVE  ArgOK'
BY DEF ArgOK

(***************************************************************************)
(* Every step of the server preserves IInv: one step per action of Next.   *)
(***************************************************************************)
THEOREM NextIInv == IInv /\ [Next]_vars => IInv'
<1> SUFFICES ASSUME IInv, [Next]_vars PROVE IInv'
  OBVIOUS
<1>1. ASSUME NEW t \in Threads, NEW u \in Threads, Ref(t, u) PROVE IInv'
  BY <1>1 DEF Ref, IInv, TypeOK, ArgOK
<1>2. ASSUME NEW t \in Threads, Unref(t) PROVE IInv'
  <2>1. DropRef(t) /\ held[t] >= 1
    BY <1>2 DEF Unref
  <2>2. held' \in [Threads -> Nat]
    BY <1>2, <2>1 DEF Unref, IInv, TypeOK
  <2>3. QED
    BY <1>2, <2>1, <2>2, DropRefType DEF Unref, IInv, TypeOK, ArgOK
<1>3. ASSUME NEW t \in Threads, BackendCall(t) PROVE IInv'
  <2>1. PICK k \in Reg, i \in Watches \cup Timeouts, op \in Ops :
              ProtectedChange(t, k, i, op, "backend_done")
    BY <1>3 DEF BackendCall, AddWatch, RemoveWatch, ToggleWatch,
                AddTimeout, RemoveTimeout, ToggleTimeout
  <2>2. TypeOK'
    <3>1. /\ refcount' \in Int
          /\ lockOwner' \in Threads \cup {NoThread}
          /\ attached' \in [Reg -> BOOLEAN]
          /\ pc' \in [Threads -> Pcs]
          /\ ret' \in [Threads -> Pcs]
          /\ arg' \in [Threads -> Arg]
          /\ result' \in [Threads -> BOOLEAN]
      BY <2>1, ProtectedChangeType
    <3>2. UNCHANGED <<disconnected, finalized, list, appFns, live, gone, ncData,
                      slots, slotsGrown, used, frees, held, oldData>>
      BY <1>3 DEF BackendCall
    <3>3. QED
      BY <3>1, <3>2 DEF IInv, TypeOK
  <2>3. \A u \in Threads \ {t} : /\ arg'[u] = arg[u]
                                 /\ pc'[u] = pc[u]
                                 /\ ret'[u] = ret[u]
    BY <2>1, ProtectedChangeType
  <2>4. arg'[t].item = NoData =>
          /\ pc'[t] \notin {"pcw_call", "pcw_relock", "backend_done",
                            "disc_watch_freed"}
          /\ pc'[t] \in FinalizePcs => ret'[t] = "idle"
    BY <2>1, ProtectedChangeType
  <2>5. QED
    BY <2>2, <2>3, <2>4, ArgOKUpdate DEF IInv
<1>4. ASSUME NEW t \in Threads, PcwCall(t) PROVE IInv'
  <2> DEFINE k == arg[t].reg
             i == arg[t].item
  <2>1. k \in Reg /\ i \in Watches \cup Timeouts
    BY <1>4, RealItem DEF PcwCall
  <2>2. list' \in [Reg -> SUBSET (Watches \cup Timeouts)]
        /\ result' \in [Threads -> BOOLEAN]
    <3>1. CASE ~appFns[k] /\ list' = [list EXCEPT ![k] = @ \cup {i}]
                          /\ result' = [result EXCEPT ![t] = TRUE]
      BY <2>1, <3>1 DEF IInv, TypeOK
    <3>2. CASE appFns[k] /\ \E ok \in BOOLEAN :
                 /\ list' = [list EXCEPT ![k] = IF ok THEN @ \cup {i} ELSE @]
                 /\ result' = [result EXCEPT ![t] = ok]
      <4>1. PICK ok \in BOOLEAN :
                 /\ list' = [list EXCEPT ![k] = IF ok THEN @ \cup {i} ELSE @]
                 /\ result' = [result EXCEPT ![t] = ok]
        BY <3>2
      <4>2. CASE ok
        BY <2>1, <4>1, <4>2 DEF IInv, TypeOK
      <4>3. CASE ~ok
        BY <2>1, <4>1, <4>3 DEF IInv, TypeOK
      <4>4. QED
        BY <4>2, <4>3
    <3>3. CASE list' = [list EXCEPT ![k] = @ \ {i}]
               /\ result' = [result EXCEPT ![t] = TRUE]
      BY <2>1, <3>3 DEF IInv, TypeOK
    <3>4. CASE result' = [result EXCEPT ![t] = TRUE] /\ UNCHANGED list
      BY <2>1, <3>4 DEF IInv, TypeOK
    <3>5. QED
      BY <1>4, <3>1, <3>2, <3>3, <3>4 DEF PcwCall, ListAdd
  <2>3. /\ pc' = [pc EXCEPT ![t] = "pcw_relock"]
        /\ UNCHANGED <<refcount, lockOwner, disconnected, finalized, attached,
                       appFns, live, gone, ncData, slots, slotsGrown, used,
                       frees, held, ret, arg, oldData>>
    BY <1>4 DEF PcwCall
  <2>4. TypeOK'
    BY <2>2, <2>3 DEF IInv, TypeOK
  <2>5. \A u \in Threads \ {t} : /\ arg'[u] = arg[u]
                                 /\ pc'[u] = pc[u]
                                 /\ ret'[u] = ret[u]
    BY <2>3 DEF IInv, TypeOK
  <2>6. arg'[t].item = NoData =>
          /\ pc'[t] \notin {"pcw_call", "pcw_relock", "backend_done",
                            "disc_watch_freed"}
          /\ pc'[t] \in FinalizePcs => ret'[t] = "idle"
    BY <2>1, <2>3, ItemsAssumption
  <2>7. QED
    BY <2>4, <2>5, <2>6, ArgOKUpdate DEF IInv
<1>5. ASSUME NEW t \in Threads, PcwRelock(t) PROVE IInv'
  <2>1. arg[t].reg \in Reg /\ arg[t].item # NoData
    BY <1>5, RealItem, ItemsAssumption DEF PcwRelock
  <2>2. attached' \in [Reg -> BOOLEAN]
    BY <1>5, <2>1 DEF PcwRelock, IInv, TypeOK
  <2>3. CASE refcount = 1
    <3>1. /\ refcount' = refcount - 1
          /\ lockOwner' = NoThread
          /\ pc' = [pc EXCEPT ![t] = "fin_slots"]
      BY <2>3, <1>5 DEF PcwRelock
    <3>2. QED
      BY <1>5, <2>1, <2>2, <3>1 DEF PcwRelock, IInv, TypeOK, ArgOK
  <2>4. CASE refcount # 1
    <3>1. /\ refcount' = refcount - 1
          /\ lockOwner' = t
          /\ pc' = [pc EXCEPT ![t] = ret[t]]
      BY <2>4, <1>5 DEF PcwRelock
    <3>2. QED
      BY <1>5, <2>1, <2>2, <3>1 DEF PcwRelock, IInv, TypeOK, ArgOK
  <2>5. QED
    BY <2>3, <2>4
<1>6. ASSUME NEW t \in Threads, BackendDone(t) PROVE IInv'
  <2> DEFINE k == arg[t].reg
             i == arg[t].item
  <2>1. k \in Reg /\ i \in Watches \cup Timeouts
    BY <1>6, RealItem DEF BackendDone
  <2>2. /\ live' \in [Reg -> SUBSET (Watches \cup Timeouts)]
        /\ gone' \in [Reg -> SUBSET (Watches \cup Timeouts)]
    <3>1. CASE live' = [live EXCEPT ![k] = IF result[t] THEN @ \cup {i} ELSE @]
               /\ UNCHANGED gone
      <4>1. CASE result[t]
        BY <2>1, <3>1, <4>1 DEF IInv, TypeOK
      <4>2. CASE ~result[t]
        BY <2>1, <3>1, <4>2 DEF IInv, TypeOK
      <4>3. QED
        BY <4>1, <4>2
    <3>2. CASE live' = [live EXCEPT ![k] = @ \ {i}]
               /\ gone' = [gone EXCEPT ![k] = @ \cup {i}]
      BY <2>1, <3>2 DEF IInv, TypeOK
    <3>3. CASE UNCHANGED <<live, gone>>
      BY <3>3 DEF IInv, TypeOK
    <3>4. QED
      BY <1>6, <3>1, <3>2, <3>3 DEF BackendDone
  <2>3. /\ lockOwner' = NoThread
        /\ pc' = [pc EXCEPT ![t] = "idle"]
        /\ UNCHANGED <<refcount, disconnected, finalized, attached, list,
                       appFns, ncData, slots, slotsGrown, used, frees, held,
                       ret, arg, result, oldData>>
    BY <1>6 DEF BackendDone
  <2>4. TypeOK'
    BY <2>2, <2>3 DEF IInv, TypeOK
  <2>5. \A u \in Threads \ {t} : /\ arg'[u] = arg[u]
                                 /\ pc'[u] = pc[u]
                                 /\ ret'[u] = ret[u]
    BY <2>3 DEF IInv, TypeOK
  <2>6. arg'[t].item = NoData =>
          /\ pc'[t] \notin {"pcw_call", "pcw_relock", "backend_done",
                            "disc_watch_freed"}
          /\ pc'[t] \in FinalizePcs => ret'[t] = "idle"
    BY <2>3 DEF IInv, TypeOK, FinalizePcs
  <2>7. QED
    BY <2>4, <2>5, <2>6, ArgOKUpdate DEF IInv
<1>7. ASSUME NEW t \in Threads, Disconnect(t) PROVE IInv'
  <2>1. /\ pc' = [pc EXCEPT ![t] = IF disconnected THEN "disc_unlock"
                                                  ELSE "disc_backend"]
        /\ disconnected' = TRUE
    BY <1>7 DEF Disconnect
  <2>2. TypeOK'
    BY <1>7, <2>1 DEF Disconnect, IInv, TypeOK
  <2>3. \A u \in Threads \ {t} : /\ arg'[u] = arg[u]
                                 /\ pc'[u] = pc[u]
                                 /\ ret'[u] = ret[u]
    BY <1>7, <2>1 DEF Disconnect, IInv, TypeOK
  <2>4. arg'[t].item = NoData =>
          /\ pc'[t] \notin {"pcw_call", "pcw_relock", "backend_done",
                            "disc_watch_freed"}
          /\ pc'[t] \in FinalizePcs => ret'[t] = "idle"
    BY <1>7, <2>1 DEF Disconnect, IInv, TypeOK, FinalizePcs
  <2>5. QED
    BY <2>2, <2>3, <2>4, ArgOKUpdate DEF IInv
<1>8. ASSUME NEW t \in Threads, DiscBackend(t) PROVE IInv'
  <2>1. CASE live["watch"] # {}
    <3> DEFINE w == CHOOSE w \in live["watch"] : TRUE
    <3>1. w \in Watches \cup Timeouts
      BY <2>1 DEF IInv, TypeOK
    <3>2. ProtectedChange(t, "watch", w, "remove", "disc_watch_freed")
      BY <1>8, <2>1 DEF DiscBackend, RemoveWatch
    <3>3. TypeOK'
      <4>1. /\ refcount' \in Int
            /\ lockOwner' \in Threads \cup {NoThread}
            /\ attached' \in [Reg -> BOOLEAN]
            /\ pc' \in [Threads -> Pcs]
            /\ ret' \in [Threads -> Pcs]
            /\ arg' \in [Threads -> Arg]
            /\ result' \in [Threads -> BOOLEAN]
        BY <3>1, <3>2, ProtectedChangeType
      <4>2. UNCHANGED <<disconnected, finalized, list, appFns, live, gone,
                        ncData, slots, slotsGrown, used, frees, held, oldData>>
        BY <1>8 DEF DiscBackend
      <4>3. QED
        BY <4>1, <4>2 DEF IInv, TypeOK
    <3>4. \A u \in Threads \ {t} : /\ arg'[u] = arg[u]
                                   /\ pc'[u] = pc[u]
                                   /\ ret'[u] = ret[u]
      BY <3>1, <3>2, ProtectedChangeType
    <3>5. arg'[t].item = NoData =>
            /\ pc'[t] \notin {"pcw_call", "pcw_relock", "backend_done",
                              "disc_watch_freed"}
            /\ pc'[t] \in FinalizePcs => ret'[t] = "idle"
      BY <3>1, <3>2, ProtectedChangeType
    <3>6. QED
      BY <3>3, <3>4, <3>5, ArgOKUpdate DEF IInv
  <2>2. CASE live["watch"] = {}
    <3>1. /\ pc' = [pc EXCEPT ![t] = "disc_unlock"]
          /\ UNCHANGED <<refcount, lockOwner, attached, ret, arg, result,
                         disconnected, finalized, list, appFns, live, gone,
                         ncData, slots, slotsGrown, used, frees, held, oldData>>
      BY <1>8, <2>2 DEF DiscBackend
    <3>2. TypeOK'
      BY <3>1 DEF IInv, TypeOK
    <3>3. \A u \in Threads \ {t} : /\ arg'[u] = arg[u]
                                   /\ pc'[u] = pc[u]
                                   /\ ret'[u] = ret[u]
      BY <3>1 DEF IInv, TypeOK
    <3>4. arg'[t].item = NoData =>
            /\ pc'[t] \notin {"pcw_call", "pcw_relock", "backend_done",
                              "disc_watch_freed"}
            /\ pc'[t] \in FinalizePcs => ret'[t] = "idle"
      BY <3>1 DEF IInv, TypeOK, FinalizePcs
    <3>5. QED
      BY <3>2, <3>3, <3>4, ArgOKUpdate DEF IInv
  <2>3. QED
    BY <2>1, <2>2
<1>9. ASSUME NEW t \in Threads, DiscWatchFreed(t) PROVE IInv'
  <2>1. arg[t].item \in Watches \cup Timeouts
    BY <1>9, RealItem DEF DiscWatchFreed
  <2>2. QED
    BY <1>9, <2>1 DEF DiscWatchFreed, IInv, TypeOK, ArgOK
<1>10. ASSUME NEW t \in Threads, DiscUnlock(t) PROVE IInv'
  <2>1. TypeOK'
    BY <1>10 DEF DiscUnlock, IInv, TypeOK
  <2>2. \A u \in Threads \ {t} : /\ arg'[u] = arg[u]
                                 /\ pc'[u] = pc[u]
                                 /\ ret'[u] = ret[u]
    BY <1>10 DEF DiscUnlock, IInv, TypeOK
  <2>3. arg'[t].item = NoData =>
          /\ pc'[t] \notin {"pcw_call", "pcw_relock", "backend_done",
                            "disc_watch_freed"}
          /\ pc'[t] \in FinalizePcs => ret'[t] = "idle"
    BY <1>10 DEF DiscUnlock, IInv, TypeOK, FinalizePcs
  <2>4. QED
    BY <2>1, <2>2, <2>3, ArgOKUpdate DEF IInv
<1>11. ASSUME NEW t \in Threads, DiscUnref(t) PROVE IInv'
  BY <1>11, DropRefType DEF DiscUnref, IInv, TypeOK, ArgOK
<1>12. ASSUME NEW t \in Threads, SetNewConnectionFunction(t) PROVE IInv'
  <2>1. TypeOK'
    BY <1>12 DEF SetNewConnectionFunction, IInv, TypeOK
  <2>2. \A u \in Threads \ {t} : /\ arg'[u] = arg[u]
                                 /\ pc'[u] = pc[u]
                                 /\ ret'[u] = ret[u]
    BY <1>12 DEF SetNewConnectionFunction, IInv, TypeOK
  <2>3. arg'[t].item = NoData =>
          /\ pc'[t] \notin {"pcw_call", "pcw_relock", "backend_done",
                            "disc_watch_freed"}
          /\ pc'[t] \in FinalizePcs => ret'[t] = "idle"
    BY <1>12 DEF SetNewConnectionFunction, IInv, TypeOK, FinalizePcs
  <2>4. QED
    BY <2>1, <2>2, <2>3, ArgOKUpdate DEF IInv
<1>13. ASSUME NEW t \in Threads, NcFree(t) PROVE IInv'
  <2>1. TypeOK'
    BY <1>13 DEF NcFree, FreeOld, IInv, TypeOK
  <2>2. \A u \in Threads \ {t} : /\ arg'[u] = arg[u]
                                 /\ pc'[u] = pc[u]
                                 /\ ret'[u] = ret[u]
    BY <1>13 DEF NcFree, FreeOld, IInv, TypeOK
  <2>3. arg'[t].item = NoData =>
          /\ pc'[t] \notin {"pcw_call", "pcw_relock", "backend_done",
                            "disc_watch_freed"}
          /\ pc'[t] \in FinalizePcs => ret'[t] = "idle"
    BY <1>13 DEF NcFree, FreeOld, IInv, TypeOK, FinalizePcs
  <2>4. QED
    BY <2>1, <2>2, <2>3, ArgOKUpdate DEF IInv
<1>14. ASSUME NEW t \in Threads, SetData(t) PROVE IInv'
  <2>1. PICK s \in Slots, d \in FreshData, ok \in BOOLEAN :
              /\ ok \/ ~slotsGrown
              /\ IF ok
                   THEN /\ slots' = [slots EXCEPT ![s] = d]
                        /\ oldData' = [oldData EXCEPT ![t] = slots[s]]
                        /\ used' = used \cup ({d} \ {NoData})
                        /\ slotsGrown' = TRUE
                        /\ Goto(t, "data_free")
                   ELSE UNCHANGED <<slots, oldData, used, slotsGrown, pc>>
    BY <1>14 DEF SetData
  <2>2. UNCHANGED <<refcount, lockOwner, disconnected, finalized, attached,
                    list, appFns, live, gone, ncData, frees, held, ret, arg,
                    result>>
    BY <1>14 DEF SetData
  <2>3. CASE ok
    <3>1. /\ slots' = [slots EXCEPT ![s] = d]
          /\ oldData' = [oldData EXCEPT ![t] = slots[s]]
          /\ used' = used \cup ({d} \ {NoData})
          /\ slotsGrown' = TRUE
          /\ pc' = [pc EXCEPT ![t] = "data_free"]
      BY <2>1, <2>3
    <3>2. TypeOK'
      BY <2>2, <3>1 DEF IInv, TypeOK
    <3>3. \A u \in Threads \ {t} : /\ arg'[u] = arg[u]
                                   /\ pc'[u] = pc[u]
                                   /\ ret'[u] = ret[u]
      BY <2>2, <3>1 DEF IInv, TypeOK
    <3>4. arg'[t].item = NoData =>
            /\ pc'[t] \notin {"pcw_call", "pcw_relock", "backend_done",
                              "disc_watch_freed"}
            /\ pc'[t] \in FinalizePcs => ret'[t] = "idle"
      BY <2>2, <3>1 DEF IInv, TypeOK, FinalizePcs
    <3>5. QED
      BY <3>2, <3>3, <3>4, ArgOKUpdate DEF IInv
  <2>4. CASE ~ok
    <3>1. UNCHANGED <<slots, oldData, used, slotsGrown, pc>>
      BY <2>1, <2>4
    <3>2. QED
      BY <2>2, <3>1 DEF IInv, TypeOK, ArgOK
  <2>5. QED
    BY <2>3, <2>4
<1>15. ASSUME NEW t \in Threads, DataFree(t) PROVE IInv'
  <2>1. TypeOK'
    BY <1>15 DEF DataFree, FreeOld, IInv, TypeOK
  <2>2. \A u \in Threads \ {t} : /\ arg'[u] = arg[u]
                                 /\ pc'[u] = pc[u]
                                 /\ ret'[u] = ret[u]
    BY <1>15 DEF DataFree, FreeOld, IInv, TypeOK
  <2>3. arg'[t].item = NoData =>
          /\ pc'[t] \notin {"pcw_call", "pcw_relock", "backend_done",
                            "disc_watch_freed"}
          /\ pc'[t] \in FinalizePcs => ret'[t] = "idle"
    BY <1>15 DEF DataFree, FreeOld, IInv, TypeOK, FinalizePcs
  <2>4. QED
    BY <2>1, <2>2, <2>3, ArgOKUpdate DEF IInv
<1>16. ASSUME NEW t \in Threads, NEW k \in Reg, SetFunctions(t, k)
       PROVE IInv'
  <2>1. CASE attached[k]
    <3>1. /\ attached' = [attached EXCEPT ![k] = FALSE]
          /\ arg' = [arg EXCEPT ![t] = [reg |-> k, item |-> NoData,
                                         op |-> "toggle"]]
          /\ pc' = [pc EXCEPT ![t] = "swf_call"]
      BY <1>16, <2>1 DEF SetFunctions
    <3>2. TypeOK'
      BY <1>16, <3>1 DEF SetFunctions, IInv, TypeOK
    <3>3. \A u \in Threads \ {t} : /\ arg'[u] = arg[u]
                                   /\ pc'[u] = pc[u]
                                   /\ ret'[u] = ret[u]
      BY <1>16, <3>1 DEF SetFunctions, IInv, TypeOK
    <3>4. arg'[t].item = NoData =>
            /\ pc'[t] \notin {"pcw_call", "pcw_relock", "backend_done",
                              "disc_watch_freed"}
            /\ pc'[t] \in FinalizePcs => ret'[t] = "idle"
      BY <3>1 DEF IInv, TypeOK, FinalizePcs
    <3>5. QED
      BY <3>2, <3>3, <3>4, ArgOKUpdate DEF IInv
  <2>2. CASE ~attached[k]
    BY <1>16, <2>2 DEF SetFunctions, IInv, TypeOK, ArgOK
  <2>3. QED
    BY <2>1, <2>2
<1>17. ASSUME NEW t \in Threads, SwfCall(t) PROVE IInv'
  <2>1. TypeOK'
    BY <1>17 DEF SwfCall, IInv, TypeOK
  <2>2. \A u \in Threads \ {t} : /\ arg'[u] = arg[u]
                                 /\ pc'[u] = pc[u]
                                 /\ ret'[u] = ret[u]
    BY <1>17 DEF SwfCall, IInv, TypeOK
  <2>3. arg'[t].item = NoData =>
          /\ pc'[t] \notin {"pcw_call", "pcw_relock", "backend_done",
                            "disc_watch_freed"}
          /\ pc'[t] \in FinalizePcs => ret'[t] = "idle"
    BY <1>17 DEF SwfCall, IInv, TypeOK, FinalizePcs
  <2>4. QED
    BY <2>1, <2>2, <2>3, ArgOKUpdate DEF IInv
<1>18. ASSUME NEW t \in Threads, SwfRelock(t) PROVE IInv'
  <2>1. TypeOK'
    BY <1>18 DEF SwfRelock, IInv, TypeOK
  <2>2. \A u \in Threads \ {t} : /\ arg'[u] = arg[u]
                                 /\ pc'[u] = pc[u]
                                 /\ ret'[u] = ret[u]
    BY <1>18 DEF SwfRelock, IInv, TypeOK
  <2>3. arg'[t].item = NoData =>
          /\ pc'[t] \notin {"pcw_call", "pcw_relock", "backend_done",
                            "disc_watch_freed"}
          /\ pc'[t] \in FinalizePcs => ret'[t] = "idle"
    BY <1>18 DEF SwfRelock, IInv, TypeOK, FinalizePcs
  <2>4. QED
    BY <2>1, <2>2, <2>3, ArgOKUpdate DEF IInv
<1>19. ASSUME NEW t \in Threads, SetAuthMechanisms(t) PROVE IInv'
  BY <1>19, DupAssumption DEF SetAuthMechanisms, IInv, TypeOK, ArgOK
<1>20. ASSUME NEW t \in Threads, FinSlots(t) PROVE IInv'
  <2>1. \A d \in Data : SlotCount(d) \in Nat
    <3> TAKE d \in Data
    <3>1. IsFiniteSet({s \in Slots : slots[s] = d})
      BY SlotsAssumption, FS_Subset
    <3>2. QED
      BY <3>1, FS_CardinalityType DEF SlotCount
  <2>2. QED
    BY <1>20, <2>1 DEF FinSlots, IInv, TypeOK, ArgOK, FinalizePcs
<1>21. ASSUME NEW t \in Threads, FinNc(t) PROVE IInv'
  BY <1>21 DEF FinNc, IInv, TypeOK, ArgOK, FinalizePcs
<1>22. ASSUME NEW t \in Threads, FinNcFree(t) PROVE IInv'
  BY <1>22 DEF FinNcFree, FreeOld, IInv, TypeOK, ArgOK, FinalizePcs
<1>23. ASSUME NEW t \in Threads, FinFree(t) PROVE IInv'
  BY <1>23 DEF FinFree, IInv, TypeOK, ArgOK, FinalizePcs
<1>24. CASE Terminated \/ UNCHANGED vars
  BY <1>24 DEF Terminated, vars, IInv, TypeOK, ArgOK
<1>25. QED
  BY <1>1, <1>2, <1>3, <1>4, <1>5, <1>6, <1>7, <1>8, <1>9, <1>10, <1>11,
     <1>12, <1>13, <1>14, <1>15, <1>16, <1>17, <1>18, <1>19, <1>20, <1>21,
     <1>22, <1>23, <1>24
  DEF Next, SetWatchFunctions, SetTimeoutFunctions

(***************************************************************************)
(* Type correctness of the server: in every reachable state each variable  *)
(* lies in the set TypeOK gives it, for every value of the constants.      *)
(***************************************************************************)
THEOREM TypeCorrect == Spec => []TypeOK
<1>1. IInv => TypeOK
  BY DEF IInv
<1>2. QED
  BY InitIInv, NextIInv, <1>1, PTL DEF Spec
=============================================================================
