------------------------------- MODULE Server -------------------------------
(***************************************************************************)
(* The DBusServer object of dbus-server.c, shared by several threads.      *)
(*                                                                         *)
(* State of the object: the reference count (an atomic int), the mutex,    *)
(* the disconnected flag, the watch and timeout lists (each either         *)
(* attached to the object or detached by the one thread that is calling    *)
(* out on it), the new-connection data and the per-instance data slots.    *)
(* Each thread runs one public or internal operation at a time; an         *)
(* operation is split into steps exactly where the code drops or takes     *)
(* the mutex, calls application code, or touches the atomic counter.       *)
(*                                                                         *)
(* Data is abstracted to what the properties tell apart: a watch or a      *)
(* timeout is a model value, application data with a destructor is a      *)
(* model value of Data, and NoData stands for NULL (or for data without a  *)
(* free function).                                                         *)
(***************************************************************************)
EXTENDS Integers, FiniteSets

CONSTANTS
  Threads,      \* application threads holding the DBusServer pointer
  Creator,      \* the thread dbus_server_listen() returned the server to
  NoThread,     \* owner of an unlocked mutex
  Data,         \* user data pointers, each owning a destructor
  NoData,       \* NULL data, or data without a free function
  Watches,      \* the backend's DBusWatch objects
  Timeouts,     \* the backend's DBusTimeout objects
  Slots,        \* data slot ids allocated before the server is used
  DupResults,   \* possible outcomes of _dbus_dup_string_array (FALSE = OOM)
  MaxRef        \* bound on references taken with dbus_server_ref()

ASSUME ThreadsAssumption == Creator \in Threads /\ NoThread \notin Threads
ASSUME DataAssumption == NoData \notin Data
ASSUME ItemsAssumption == NoData \notin Watches \cup Timeouts
ASSUME DupAssumption == TRUE \in DupResults /\ DupResults \subseteq BOOLEAN
ASSUME MaxRefAssumption == MaxRef \in Nat \ {0}
ASSUME SlotsAssumption == IsFiniteSet(Slots)

\* The two registries that protected_change_watch/_timeout guard.
Reg == {"watch", "timeout"}
Items == [k \in Reg |-> IF k = "watch" THEN Watches ELSE Timeouts]
Ops == {"add", "remove", "toggle"}

VARIABLES
  refcount,     \* server->refcount.value
  lockOwner,    \* holder of server->mutex, or NoThread
  disconnected, \* server->disconnected
  finalized,    \* the finalize vtable method has released the object
  attached,     \* attached[k]: server->watches / server->timeouts != NULL
  list,         \* list[k]: the items in the DBusWatchList / DBusTimeoutList
  appFns,       \* appFns[k]: application add/remove/toggled functions set
  live,         \* live[k]: items the backend believes are registered
  gone,         \* gone[k]: items the backend has removed and unreffed
  ncData,       \* server->new_connection_data
  slots,        \* server->slot_list: slot -> stored data
  slotsGrown,   \* the slot list has been grown to hold every slot
  used,         \* data values ever handed to the server
  frees,        \* frees[d]: number of times d's destructor has run
  held,         \* held[t]: references owned by thread t (application side)
  pc,           \* pc[t]: where thread t is
  ret,          \* ret[t]: where protected_change_* or finalize returns to
  arg,          \* arg[t]: registry, item and operation being changed
  result,       \* result[t]: retval of protected_change_*
  oldData       \* oldData[t]: data swapped out, to be freed outside the lock

vars == <<refcount, lockOwner, disconnected, finalized, attached, list,
          appFns, live, gone, ncData, slots, slotsGrown, used, frees, held,
          pc, ret, arg, result, oldData>>

Pcs == {"idle", "disc_backend", "disc_watch_freed", "disc_unlock",
        "disc_unref", "pcw_call", "pcw_relock", "backend_done", "nc_free",
        "data_free", "swf_call", "swf_relock", "fin_slots", "fin_nc",
        "fin_nc_free", "fin_free"}

\* Steps that run application code: the mutex must not be held there.
CalloutPcs == {"pcw_call", "swf_call", "nc_free", "data_free",
               "fin_slots", "fin_nc_free"}
FinalizePcs == {"fin_slots", "fin_nc", "fin_nc_free", "fin_free"}

Arg == [reg : Reg, item : Watches \cup Timeouts \cup {NoData}, op : Ops]
NoArg == [reg |-> "watch", item |-> NoData, op |-> "toggle"]

TypeOK ==
  /\ refcount \in Int
  /\ lockOwner \in Threads \cup {NoThread}
  /\ disconnected \in BOOLEAN
  /\ finalized \in BOOLEAN
  /\ attached \in [Reg -> BOOLEAN]
  /\ list \in [Reg -> SUBSET (Watches \cup Timeouts)]
  /\ appFns \in [Reg -> BOOLEAN]
  /\ live \in [Reg -> SUBSET (Watches \cup Timeouts)]
  /\ gone \in [Reg -> SUBSET (Watches \cup Timeouts)]
  /\ ncData \in Data \cup {NoData}
  /\ slots \in [Slots -> Data \cup {NoData}]
  /\ slotsGrown \in BOOLEAN
  /\ used \in SUBSET Data
  /\ frees \in [Data -> Nat]
  /\ held \in [Threads -> Nat]
  /\ pc \in [Threads -> Pcs]
  /\ ret \in [Threads -> Pcs]
  /\ arg \in [Threads -> Arg]
  /\ result \in [Threads -> BOOLEAN]
  /\ oldData \in [Threads -> Data \cup {NoData}]

(***************************************************************************)
(* The server as dbus_server_listen() hands it over: _dbus_server_init_base *)
(* set the count to 1 and made both lists; the socket backend has added     *)
(* its watches, before any watch functions exist.                           *)
(***************************************************************************)
Init ==
  /\ refcount = 1
  /\ lockOwner = NoThread
  /\ disconnected = FALSE
  /\ finalized = FALSE
  /\ attached = [k \in Reg |-> TRUE]
  /\ list = [k \in Reg |-> IF k = "watch" THEN Watches ELSE {}]
  /\ appFns = [k \in Reg |-> FALSE]
  /\ live = list
  /\ gone = [k \in Reg |-> {}]
  /\ ncData = NoData
  /\ slots = [s \in Slots |-> NoData]
  /\ slotsGrown = FALSE
  /\ used = {}
  /\ frees = [d \in Data |-> 0]
  /\ held = [t \in Threads |-> IF t = Creator THEN 1 ELSE 0]
  /\ pc = [t \in Threads |-> "idle"]
  /\ ret = [t \in Threads |-> "idle"]
  /\ arg = [t \in Threads |-> NoArg]
  /\ result = [t \in Threads |-> FALSE]
  /\ oldData = [t \in Threads |-> NoData]

\* Thread t, idle and owning a reference, may call into the server.
CanCall(t) == pc[t] = "idle" /\ held[t] >= 1
LockFree == lockOwner = NoThread
Goto(t, p) == pc' = [pc EXCEPT ![t] = p]
\* Data the application has not handed to the server before.
FreshData == (Data \ used) \cup {NoData}

\* Runs the destructor of the data a thread swapped out, if any.
FreeOld(t) ==
  /\ frees' = IF oldData[t] = NoData THEN frees
              ELSE [frees EXCEPT ![oldData[t]] = @ + 1]
  /\ oldData' = [oldData EXCEPT ![t] = NoData]

-----------------------------------------------------------------------------
(***************************************************************************)
(* Reference counting: dbus_server_ref / dbus_server_unref use the atomic  *)
(* counter and no lock; the thread that drops the last reference runs the  *)
(* finalize method with no lock held. The application may drop its last   *)
(* reference only once the server is disconnected (the documented          *)
(* contract of dbus_server_unref).                                         *)
(***************************************************************************)
Ref(t, u) ==
  /\ CanCall(t)
  /\ refcount > 0
  /\ refcount < MaxRef
  /\ refcount' = refcount + 1
  /\ held' = [held EXCEPT ![u] = @ + 1]
  /\ UNCHANGED <<lockOwner, disconnected, finalized, attached, list, appFns,
                 live, gone, ncData, slots, slotsGrown, used, frees, pc, ret,
                 arg, result, oldData>>

\* Mutant: the atomic decrement's result read as the new value, so the
\* object is finalized while one reference is still out.
DropRefEarly(t) ==
  /\ refcount' = refcount - 1
  /\ IF refcount = 2
       THEN Goto(t, "fin_slots") /\ ret' = [ret EXCEPT ![t] = "idle"]
       ELSE Goto(t, "idle") /\ UNCHANGED ret

\* The last unref enters finalize; "idle" is where finalize returns to.
DropRef(t) ==
  /\ refcount' = refcount - 1
  /\ IF refcount = 1
       THEN Goto(t, "fin_slots") /\ ret' = [ret EXCEPT ![t] = "idle"]
       ELSE Goto(t, "idle") /\ UNCHANGED ret

Unref(t) ==
  /\ CanCall(t)
  /\ refcount > 0
  /\ held[t] > 1 \/ disconnected
  /\ held' = [held EXCEPT ![t] = @ - 1]
  /\ DropRef(t)
  /\ UNCHANGED <<lockOwner, disconnected, finalized, attached, list, appFns,
                 live, gone, ncData, slots, slotsGrown, used, frees, arg,
                 result, oldData>>

-----------------------------------------------------------------------------
(***************************************************************************)
(* protected_change_watch / protected_change_timeout, entered with the     *)
(* mutex held by t: detach the list and take a reference, unlock, run the  *)
(* list operation (which calls the application's function), relock,       *)
(* reattach and drop the reference with _dbus_server_unref_unlocked. A    *)
(* list found detached makes the call return FALSE at once, still locked.  *)
(* rp is where the caller continues.                                       *)
(***************************************************************************)
ProtectedChange(t, k, i, op, rp) ==
  /\ arg' = [arg EXCEPT ![t] = [reg |-> k, item |-> i, op |-> op]]
  /\ ret' = [ret EXCEPT ![t] = rp]
  /\ IF attached[k]
       THEN /\ attached' = [attached EXCEPT ![k] = FALSE]
            /\ refcount' = refcount + 1
            /\ lockOwner' = NoThread
            /\ Goto(t, "pcw_call")
            /\ UNCHANGED result
       ELSE /\ result' = [result EXCEPT ![t] = FALSE]
            /\ lockOwner' = t
            /\ Goto(t, rp)
            /\ UNCHANGED <<attached, refcount>>

AddWatch(t, i, rp) == ProtectedChange(t, "watch", i, "add", rp)
RemoveWatch(t, i, rp) == ProtectedChange(t, "watch", i, "remove", rp)
ToggleWatch(t, i, rp) == ProtectedChange(t, "watch", i, "toggle", rp)
AddTimeout(t, i, rp) == ProtectedChange(t, "timeout", i, "add", rp)
RemoveTimeout(t, i, rp) == ProtectedChange(t, "timeout", i, "remove", rp)
ToggleTimeout(t, i, rp) == ProtectedChange(t, "timeout", i, "toggle", rp)

\* The list operation on the detached list. _dbus_watch_list_add_watch
\* undoes the insertion when the application's add function fails.
ListAdd(t, k, i) ==
  \/ /\ ~appFns[k]
     /\ list' = [list EXCEPT ![k] = @ \cup {i}]
     /\ result' = [result EXCEPT ![t] = TRUE]
  \/ /\ appFns[k]
     /\ \E ok \in BOOLEAN :
          /\ list' = [list EXCEPT ![k] = IF ok THEN @ \cup {i} ELSE @]
          /\ result' = [result EXCEPT ![t] = ok]

PcwCall(t) ==
  /\ pc[t] = "pcw_call"
  /\ LET k == arg[t].reg
         i == arg[t].item
     IN  \/ arg[t].op = "add" /\ ListAdd(t, k, i)
         \/ /\ arg[t].op = "remove"
            /\ list' = [list EXCEPT ![k] = @ \ {i}]
            /\ result' = [result EXCEPT ![t] = TRUE]
         \/ /\ arg[t].op = "toggle"
            /\ result' = [result EXCEPT ![t] = TRUE]
            /\ UNCHANGED list
  /\ Goto(t, "pcw_relock")
  /\ UNCHANGED <<refcount, lockOwner, disconnected, finalized, attached,
                 appFns, live, gone, ncData, slots, slotsGrown, used, frees,
                 held, ret, arg, oldData>>

\* SERVER_LOCK, reattach, _dbus_server_unref_unlocked: dropping the last
\* reference there unlocks and finalizes, then returns to the caller.
\* Mutant: the reference taken for the window is never dropped.
PcwRelockNoUnref(t) ==
  /\ pc[t] = "pcw_relock"
  /\ LockFree
  /\ attached' = [attached EXCEPT ![arg[t].reg] = TRUE]
  /\ lockOwner' = t /\ Goto(t, ret[t])
  /\ UNCHANGED <<refcount, disconnected, finalized, list, appFns, live, gone,
                 ncData, slots, slotsGrown, used, frees, held, ret, arg,
                 result, oldData>>

PcwRelock(t) ==
  /\ pc[t] = "pcw_relock"
  /\ LockFree
  /\ attached' = [attached EXCEPT ![arg[t].reg] = TRUE]
  /\ refcount' = refcount - 1
  /\ IF refcount = 1
       THEN lockOwner' = NoThread /\ Goto(t, "fin_slots")
       ELSE lockOwner' = t /\ Goto(t, ret[t])
  /\ UNCHANGED <<disconnected, finalized, list, appFns, live, gone, ncData,
                 slots, slotsGrown, used, frees, held, ret, arg, result,
                 oldData>>

-----------------------------------------------------------------------------
(***************************************************************************)
(* The backend (dbus-server-socket.c) changes its watches and timeouts     *)
(* with the mutex held, through the six wrappers above, and afterwards     *)
(* records the outcome and unlocks: an added item it keeps only if the     *)
(* call returned TRUE, a removed one it unrefs whatever the call returned. *)
(***************************************************************************)
BackendCall(t) ==
  /\ CanCall(t)
  /\ LockFree
  /\ \E k \in Reg, i \in Watches \cup Timeouts :
       /\ i \in Items[k]
       /\ \/ /\ i \notin live[k] \cup gone[k]
             /\ ~disconnected
             /\ IF k = "watch" THEN AddWatch(t, i, "backend_done")
                ELSE AddTimeout(t, i, "backend_done")
          \/ /\ i \in live[k]
             /\ IF k = "watch" THEN RemoveWatch(t, i, "backend_done")
                ELSE RemoveTimeout(t, i, "backend_done")
          \/ /\ i \in live[k]
             /\ IF k = "watch" THEN ToggleWatch(t, i, "backend_done")
                ELSE ToggleTimeout(t, i, "backend_done")
  /\ UNCHANGED <<disconnected, finalized, list, appFns, live, gone, ncData,
                 slots, slotsGrown, used, frees, held, oldData>>

BackendDone(t) ==
  /\ pc[t] = "backend_done"
  /\ LET k == arg[t].reg
         i == arg[t].item
     IN  \/ /\ arg[t].op = "add"
            /\ live' = [live EXCEPT ![k] = IF result[t] THEN @ \cup {i} ELSE @]
            /\ UNCHANGED gone
         \/ /\ arg[t].op = "remove"
            /\ live' = [live EXCEPT ![k] = @ \ {i}]
            /\ gone' = [gone EXCEPT ![k] = @ \cup {i}]
         \/ arg[t].op = "toggle" /\ UNCHANGED <<live, gone>>
  /\ lockOwner' = NoThread
  /\ Goto(t, "idle")
  /\ UNCHANGED <<refcount, disconnected, finalized, attached, list, appFns,
                 ncData, slots, slotsGrown, used, frees, held, ret, arg,
                 result, oldData>>

-----------------------------------------------------------------------------
(***************************************************************************)
(* dbus_server_disconnect: lock, take a reference, and on the first call   *)
(* set the flag and run the backend's disconnect method, which removes     *)
(* each of its watches with _dbus_server_remove_watch and unrefs it; then  *)
(* unlock and dbus_server_unref.                                           *)
(***************************************************************************)
\* Mutant: dbus_server_disconnect without _dbus_server_ref_unlocked.
DisconnectNoRef(t) ==
  /\ CanCall(t)
  /\ refcount > 0
  /\ LockFree
  /\ lockOwner' = t
  /\ IF disconnected
       THEN Goto(t, "disc_unlock") /\ UNCHANGED disconnected
       ELSE Goto(t, "disc_backend") /\ disconnected' = TRUE
  /\ UNCHANGED <<refcount, finalized, attached, list, appFns, live, gone,
                 ncData, slots, slotsGrown, used, frees, held, ret, arg,
                 result, oldData>>

Disconnect(t) ==
  /\ CanCall(t)
  /\ refcount > 0
  /\ LockFree
  /\ lockOwner' = t
  /\ refcount' = refcount + 1
  /\ IF disconnected
       THEN Goto(t, "disc_unlock") /\ UNCHANGED disconnected
       ELSE Goto(t, "disc_backend") /\ disconnected' = TRUE
  /\ UNCHANGED <<finalized, attached, list, appFns, live, gone, ncData, slots,
                 slotsGrown, used, frees, held, ret, arg, result, oldData>>

DiscBackend(t) ==
  /\ pc[t] = "disc_backend"
  /\ IF live["watch"] # {}
       THEN RemoveWatch(t, CHOOSE w \in live["watch"] : TRUE,
                        "disc_watch_freed")
       ELSE Goto(t, "disc_unlock")
            /\ UNCHANGED <<refcount, lockOwner, attached, ret, arg, result>>
  /\ UNCHANGED <<disconnected, finalized, list, appFns, live, gone, ncData,
                 slots, slotsGrown, used, frees, held, oldData>>

DiscWatchFreed(t) ==
  /\ pc[t] = "disc_watch_freed"
  /\ live' = [live EXCEPT !["watch"] = @ \ {arg[t].item}]
  /\ gone' = [gone EXCEPT !["watch"] = @ \cup {arg[t].item}]
  /\ Goto(t, "disc_backend")
  /\ UNCHANGED <<refcount, lockOwner, disconnected, finalized, attached, list,
                 appFns, ncData, slots, slotsGrown, used, frees, held, ret,
                 arg, result, oldData>>

DiscUnlock(t) ==
  /\ pc[t] = "disc_unlock"
  /\ lockOwner' = NoThread
  /\ Goto(t, "disc_unref")
  /\ UNCHANGED <<refcount, disconnected, finalized, attached, list, appFns,
                 live, gone, ncData, slots, slotsGrown, used, frees, held, ret,
                 arg, result, oldData>>

DiscUnref(t) ==
  /\ pc[t] = "disc_unref"
  /\ refcount > 0
  /\ DropRef(t)
  /\ UNCHANGED <<lockOwner, disconnected, finalized, attached, list, appFns,
                 live, gone, ncData, slots, slotsGrown, used, frees, held, arg,
                 result, oldData>>

-----------------------------------------------------------------------------
(***************************************************************************)
(* dbus_server_set_new_connection_function and dbus_server_set_data: swap  *)
(* under the lock, run the old destructor after unlocking. The slot list   *)
(* grows on the first set, which may fail for lack of memory; then         *)
(* nothing is swapped and nothing freed.                                   *)
(***************************************************************************)
\* Mutant: the old free function is called before SERVER_UNLOCK.
SetNewConnectionFunctionLocked(t) ==
  /\ CanCall(t)
  /\ LockFree
  /\ \E d \in FreshData :
       /\ ncData' = d
       /\ used' = used \cup ({d} \ {NoData})
  /\ oldData' = [oldData EXCEPT ![t] = ncData]
  /\ lockOwner' = t
  /\ Goto(t, "nc_free")
  /\ UNCHANGED <<refcount, disconnected, finalized, attached, list, appFns,
                 live, gone, slots, slotsGrown, frees, held, ret, arg, result>>

SetNewConnectionFunction(t) ==
  /\ CanCall(t)
  /\ LockFree
  /\ \E d \in FreshData :
       /\ ncData' = d
       /\ used' = used \cup ({d} \ {NoData})
  /\ oldData' = [oldData EXCEPT ![t] = ncData]
  /\ Goto(t, "nc_free")
  /\ UNCHANGED <<refcount, lockOwner, disconnected, finalized, attached, list,
                 appFns, live, gone, slots, slotsGrown, frees, held, ret, arg,
                 result>>

NcFree(t) ==
  /\ pc[t] = "nc_free"
  /\ FreeOld(t)
  /\ Goto(t, "idle")
  /\ UNCHANGED <<refcount, lockOwner, disconnected, finalized, attached, list,
                 appFns, live, gone, ncData, slots, slotsGrown, used, held,
                 ret, arg, result>>

\* Mutant: old and new data swapped, the new data is handed to the free.
SetDataFreesNew(t) ==
  /\ CanCall(t)
  /\ LockFree
  /\ \E s \in Slots, d \in FreshData, ok \in BOOLEAN :
       /\ ok \/ ~slotsGrown
       /\ IF ok
            THEN /\ slots' = [slots EXCEPT ![s] = d]
                 /\ oldData' = [oldData EXCEPT ![t] = d]
                 /\ used' = used \cup ({d} \ {NoData})
                 /\ slotsGrown' = TRUE
                 /\ Goto(t, "data_free")
            ELSE UNCHANGED <<slots, oldData, used, slotsGrown, pc>>
  /\ UNCHANGED <<refcount, lockOwner, disconnected, finalized, attached, list,
                 appFns, live, gone, ncData, frees, held, ret, arg, result>>

SetData(t) ==
  /\ CanCall(t)
  /\ LockFree
  /\ \E s \in Slots, d \in FreshData, ok \in BOOLEAN :
       /\ ok \/ ~slotsGrown
       /\ IF ok
            THEN /\ slots' = [slots EXCEPT ![s] = d]
                 /\ oldData' = [oldData EXCEPT ![t] = slots[s]]
                 /\ used' = used \cup ({d} \ {NoData})
                 /\ slotsGrown' = TRUE
                 /\ Goto(t, "data_free")
            ELSE UNCHANGED <<slots, oldData, used, slotsGrown, pc>>
  /\ UNCHANGED <<refcount, lockOwner, disconnected, finalized, attached, list,
                 appFns, live, gone, ncData, frees, held, ret, arg, result>>

DataFree(t) ==
  /\ pc[t] = "data_free"
  /\ FreeOld(t)
  /\ Goto(t, "idle")
  /\ UNCHANGED <<refcount, lockOwner, disconnected, finalized, attached, list,
                 appFns, live, gone, ncData, slots, slotsGrown, used, held,
                 ret, arg, result>>

-----------------------------------------------------------------------------
(***************************************************************************)
(* dbus_server_set_watch_functions / _set_timeout_functions: under the     *)
(* lock, detach the list; if it was attached, unlock, install the          *)
(* functions (the list replays its items through them), relock and        *)
(* reattach. A list already detached by another thread makes the call     *)
(* warn "Re-entrant call" and return FALSE. No reference is taken.         *)
(***************************************************************************)
\* Mutant: no check that the list is attached (no reentrancy guard).
SetFunctionsUnguarded(t, k) ==
  /\ CanCall(t)
  /\ LockFree
  /\ attached' = [attached EXCEPT ![k] = FALSE]
  /\ arg' = [arg EXCEPT ![t] = [reg |-> k, item |-> NoData, op |-> "toggle"]]
  /\ Goto(t, "swf_call")
  /\ UNCHANGED <<refcount, lockOwner, disconnected, finalized, list, appFns,
                 live, gone, ncData, slots, slotsGrown, used, frees, held, ret,
                 result, oldData>>

SetFunctions(t, k) ==
  /\ CanCall(t)
  /\ LockFree
  /\ IF attached[k]
       THEN /\ attached' = [attached EXCEPT ![k] = FALSE]
            /\ arg' = [arg EXCEPT ![t] = [reg |-> k, item |-> NoData, op |-> "toggle"]]
            /\ Goto(t, "swf_call")
       ELSE UNCHANGED <<attached, arg, pc>>
  /\ UNCHANGED <<refcount, lockOwner, disconnected, finalized, list, appFns,
                 live, gone, ncData, slots, slotsGrown, used, frees, held, ret,
                 result, oldData>>

SetWatchFunctions(t) == SetFunctions(t, "watch")
SetTimeoutFunctions(t) == SetFunctions(t, "timeout")

\* _dbus_watch_list_set_functions: the application passes functions or NULL.
SwfCall(t) ==
  /\ pc[t] = "swf_call"
  /\ \E fns \in BOOLEAN : appFns' = [appFns EXCEPT ![arg[t].reg] = fns]
  /\ Goto(t, "swf_relock")
  /\ UNCHANGED <<refcount, lockOwner, disconnected, finalized, attached, list,
                 live, gone, ncData, slots, slotsGrown, used, frees, held, ret,
                 arg, result, oldData>>

\* Mutant: set_timeout_functions restores server->watches (copy-paste).
SwfRelockWatches(t) ==
  /\ pc[t] = "swf_relock"
  /\ LockFree
  /\ attached' = [attached EXCEPT !["watch"] = TRUE]
  /\ Goto(t, "idle")
  /\ UNCHANGED <<refcount, lockOwner, disconnected, finalized, list, appFns,
                 live, gone, ncData, slots, slotsGrown, used, frees, held, ret,
                 arg, result, oldData>>

SwfRelock(t) ==
  /\ pc[t] = "swf_relock"
  /\ LockFree
  /\ attached' = [attached EXCEPT ![arg[t].reg] = TRUE]
  /\ Goto(t, "idle")
  /\ UNCHANGED <<refcount, lockOwner, disconnected, finalized, list, appFns,
                 live, gone, ncData, slots, slotsGrown, used, frees, held, ret,
                 arg, result, oldData>>

(***************************************************************************)
(* dbus_server_set_auth_mechanisms: copies the array under the lock; when  *)
(* the copy fails it returns FALSE without SERVER_UNLOCK.                  *)
(***************************************************************************)
SetAuthMechanisms(t) ==
  /\ CanCall(t)
  /\ LockFree
  /\ \E copied \in DupResults :
       lockOwner' = IF copied THEN NoThread ELSE t
  /\ UNCHANGED <<refcount, disconnected, finalized, attached, list, appFns,
                 live, gone, ncData, slots, slotsGrown, used, frees, held, pc,
                 ret, arg, result, oldData>>

-----------------------------------------------------------------------------
(***************************************************************************)
(* _dbus_server_finalize_base, entered without the lock: free the slot     *)
(* list (running every stored destructor), then                            *)
(* dbus_server_set_new_connection_function(server, NULL, NULL, NULL),      *)
(* then release the lists, the mutex and the object, and return to ret[t]. *)
(***************************************************************************)
SlotCount(d) == Cardinality({s \in Slots : slots[s] = d})

\* Mutant: the slot list is cleared without running the destructors.
FinSlotsNoFree(t) ==
  /\ pc[t] = "fin_slots"
  /\ slots' = [s \in Slots |-> NoData]
  /\ Goto(t, "fin_nc")
  /\ UNCHANGED <<refcount, lockOwner, disconnected, finalized, attached, list,
                 appFns, live, gone, ncData, slotsGrown, used, frees, held, ret,
                 arg, result, oldData>>

\* Mutant: a free function is run for empty slots too (NULL data).
FinSlotsFreeEmpty(t) ==
  /\ pc[t] = "fin_slots"
  /\ frees' = [d \in Data \cup {NoData} |->
                 (IF d \in Data THEN frees[d] ELSE 0) + SlotCount(d)]
  /\ slots' = [s \in Slots |-> NoData]
  /\ Goto(t, "fin_nc")
  /\ UNCHANGED <<refcount, lockOwner, disconnected, finalized, attached, list,
                 appFns, live, gone, ncData, slotsGrown, used, held, ret, arg,
                 result, oldData>>

FinSlots(t) ==
  /\ pc[t] = "fin_slots"
  /\ frees' = [d \in Data |-> frees[d] + SlotCount(d)]
  /\ slots' = [s \in Slots |-> NoData]
  /\ Goto(t, "fin_nc")
  /\ UNCHANGED <<refcount, lockOwner, disconnected, finalized, attached, list,
                 appFns, live, gone, ncData, slotsGrown, used, held, ret, arg,
                 result, oldData>>

FinNc(t) ==
  /\ pc[t] = "fin_nc"
  /\ LockFree
  /\ oldData' = [oldData EXCEPT ![t] = ncData]
  /\ ncData' = NoData
  /\ Goto(t, "fin_nc_free")
  /\ UNCHANGED <<refcount, lockOwner, disconnected, finalized, attached, list,
                 appFns, live, gone, slots, slotsGrown, used, frees, held, ret,
                 arg, result>>

FinNcFree(t) ==
  /\ pc[t] = "fin_nc_free"
  /\ FreeOld(t)
  /\ Goto(t, "fin_free")
  /\ UNCHANGED <<refcount, lockOwner, disconnected, finalized, attached, list,
                 appFns, live, gone, ncData, slots, slotsGrown, used, held,
                 ret, arg, result>>

FinFree(t) ==
  /\ pc[t] = "fin_free"
  /\ finalized' = TRUE
  /\ Goto(t, ret[t])
  /\ UNCHANGED <<refcount, lockOwner, disconnected, attached, list, appFns,
                 live, gone, ncData, slots, slotsGrown, used, frees, held, ret,
                 arg, result, oldData>>

\* Every reference dropped and the object released: nothing is left to run.
Terminated ==
  /\ finalized
  /\ \A t \in Threads : pc[t] = "idle"
  /\ UNCHANGED vars

Next ==
  \/ \E t \in Threads :
       \/ \E u \in Threads : Ref(t, u)
       \/ Unref(t)
       \/ BackendCall(t) \/ PcwCall(t) \/ PcwRelock(t) \/ BackendDone(t)
       \/ Disconnect(t) \/ DiscBackend(t) \/ DiscWatchFreed(t)
       \/ DiscUnlock(t) \/ DiscUnref(t)
       \/ SetNewConnectionFunction(t) \/ NcFree(t)
       \/ SetData(t) \/ DataFree(t)
       \/ SetWatchFunctions(t) \/ SetTimeoutFunctions(t)
       \/ SwfCall(t) \/ SwfRelock(t)
       \/ SetAuthMechanisms(t)
       \/ FinSlots(t) \/ FinNc(t) \/ FinNcFree(t) \/ FinFree(t)
  \/ Terminated

Spec == Init /\ [][Next]_vars

(***************************************************************************)
(* Fairness. A thread that is inside a server call keeps running: the      *)
(* code never waits except for the mutex, which every holder releases     *)
(* within its call, and the application's callbacks (watch functions,     *)
(* destructors) return. Whether the application calls the server at all   *)
(* is its own choice, so the steps that start a call get no fairness.      *)
(***************************************************************************)
InServerStep(t) ==
  \/ PcwCall(t) \/ PcwRelock(t) \/ BackendDone(t)
  \/ DiscBackend(t) \/ DiscWatchFreed(t) \/ DiscUnlock(t) \/ DiscUnref(t)
  \/ NcFree(t) \/ DataFree(t) \/ SwfCall(t) \/ SwfRelock(t)
  \/ FinSlots(t) \/ FinNc(t) \/ FinNcFree(t) \/ FinFree(t)

FairSpec == Spec /\ \A t \in Threads : WF_vars(InServerStep(t))

-----------------------------------------------------------------------------
(***************************************************************************)
(* Properties.                                                             *)
(***************************************************************************)

\* The mutex is never held by a thread while it runs application code: the
\* watch/timeout functions, new-connection and slot data destructors (the
\* unlock-before-call-out protocol of protected_change_* and the setters).
NoCalloutUnderLock ==
  \A t \in Threads : pc[t] \in CalloutPcs => lockOwner # t

\* Threads that have taken a registry out of the server and work on it
\* without the lock.
RegistryHolders(k) ==
  {t \in Threads : /\ pc[t] \in {"pcw_call", "pcw_relock", "swf_call",
                                 "swf_relock"}
                   /\ arg[t].reg = k}

\* A watch or timeout list is either attached to the server and nobody
\* works on it unlocked, or detached and held by exactly one thread: the
\* NULL-field reentrancy guard of protected_change_* and
\* set_*_functions never lets two threads operate on one list at once, and
\* never loses the list.
RegistryExclusive ==
  \A k \in Reg :
    IF attached[k] THEN RegistryHolders(k) = {}
    ELSE \E t \in Threads : RegistryHolders(k) = {t}

Installed(d) == d = ncData \/ \E s \in Slots : slots[s] = d

\* Each piece of application data handed to the server has its destructor
\* run at most once, and never while the server still stores it (the
\* swap-under-lock, free-after-unlock of set_new_connection_function,
\* set_data and finalize).
DestructorsSafe ==
  \A d \in Data : /\ frees[d] <= 1
                  /\ Installed(d) => frees[d] = 0

\* Once the server is finalized, every piece of data ever handed to it has
\* been destroyed exactly once: finalize leaks no slot data and no
\* new-connection data.
NoLeakAtFinalize ==
  finalized => \A d \in used : frees[d] = 1

\* Finalization starts only on a disconnected server whose count is zero,
\* without the lock, while no other thread owns a reference or is inside a
\* server call; and once the object is released no thread resumes a step
\* on it (no use after free, including the caller of protected_change_*
\* whose _dbus_server_unref_unlocked finalized the server).
LifetimeSafe ==
  /\ \A t \in Threads :
       pc[t] \in FinalizePcs =>
         /\ disconnected
         /\ refcount = 0
         /\ lockOwner # t
         /\ \A u \in Threads : held[u] = 0 /\ (u # t => pc[u] = "idle")
  /\ finalized => \A t \in Threads : pc[t] = "idle" /\ held[t] = 0

\* References a thread owns: its own plus the extra ones taken by
\* dbus_server_disconnect and protected_change_* for their unlocked windows.
DisconnectPcs == {"disc_backend", "disc_watch_freed", "disc_unlock",
                  "disc_unref"}
InWindow(t) == pc[t] \in {"pcw_call", "pcw_relock"}
ThreadRefs(t) ==
  held[t]
  + (IF InWindow(t) THEN 1 ELSE 0)
  + (IF pc[t] \in DisconnectPcs \/ (InWindow(t) /\ ret[t] = "disc_watch_freed")
       THEN 1 ELSE 0)

\* One token <<t, i>> for each of the references thread t owns.
RefTokens == UNION {{t} \X (1..ThreadRefs(t)) : t \in Threads}

\* The atomic count always equals the references the threads own, so no
\* path of ref/unref/disconnect/protected_change_* takes or drops one too
\* many or too few.
RefcountAccounting == refcount = Cardinality(RefTokens)

\* A thread that has returned from a server call does not hold the mutex.
LockReleasedOnReturn ==
  \A t \in Threads : pc[t] = "idle" => lockOwner # t

\* A watch the backend has removed and unreffed is not left in the server's
\* watch list (where the main loop would still dispatch it).
NoDanglingWatch ==
  \A k \in Reg : list[k] \cap gone[k] = {}

\* The application's view of the object: disconnected and finalized as
\* the two flags say, and the references each thread owns.
LifecycleState ==
  IF finalized THEN "finalized"
  ELSE IF disconnected THEN "disconnected" ELSE "listening"

LC == INSTANCE Lifecycle WITH state <- LifecycleState, refs <- held

\* The server keeps the lifetime contract of Lifecycle.tla: references
\* pass only between threads that own one, the last goes only after the
\* disconnect, finalize runs once and only when the server is
\* disconnected and no thread owns a reference, and then it does run:
\* every temporary reference of disconnect and protected_change_* is
\* dropped and the thread dropping the last one completes finalize.
ImplementsLifecycle == LC!LSpec
=============================================================================
