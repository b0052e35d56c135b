# TLA+ models of the D-Bus server core (`src/dbus/dbus-server.c`)

This directory holds TLA+ specifications of the `DBusServer` object:
- its reference-counted, mutex-protected lifecycle;
- the watch and timeout registries, which it lends to application callbacks;
- its per-server data slots and the process-wide slot allocator behind them.

It also holds an abstract specification of the lifecycle the object promises, which the detailed model is shown to implement. It also holds TLC configurations that model-check the specifications on small instances, and TLAPS proofs that hold for every instance.

## The system

`src/dbus/dbus-server.c` is the only implementation file in the repository. The other two files are out of scope:
- `src/glib/dbus-gidl.h` holds declarations only;
- `src/test/test-utils-glib.c` is a test harness.

The parts, and how they interact:

| Part | Code | What it does |
|---|---|---|
| Server object | `_dbus_server_init_base` (96), `_dbus_server_finalize_base` (169), `dbus_server_ref/unref` (607/634), `_dbus_server_ref_unlocked/unref_unlocked` (671/693), `dbus_server_disconnect` (732) | Holds an atomic reference count and a mutex. The last unref runs `finalize` without the lock. `disconnect` takes a temporary reference and calls the backend's disconnect method under the lock. |
| Watch / timeout registries | `protected_change_watch/timeout` (209/326), the six `_dbus_server_{add,remove,toggle}_{watch,timeout}` wrappers, `dbus_server_set_{watch,timeout}_functions` (855/908) | The backend changes its watches with the lock held. `protected_change_*` detaches the list (the field is set to NULL), takes a reference, unlocks and calls the application, then relocks, reattaches and drops the reference with `_dbus_server_unref_unlocked`. A NULL list makes a second thread back off and return FALSE. |
| Setters | `dbus_server_set_new_connection_function` (815), `dbus_server_set_data` (1041), `dbus_server_set_auth_mechanisms` (956) | Each swaps a value under the lock and runs the old value's destructor after unlocking. |
| Keyed slot store | `dbus_server_allocate_data_slot/free_data_slot/get_data` (1001-1097) | A global slot allocator, plus one slot list per server. The list is freed by finalize. |
| Listener orchestrator | `dbus_server_listen` (477) | Tries every backend on every address entry. OK and BAD_ADDRESS stop the scan. It remembers the first DID_NOT_CONNECT. |
| Backends | not in the repository | Create the server. They add, remove and toggle its watches, and remove them again on disconnect. |

## Modules

- **`Server.tla`** models the server object, both registries, the setters, finalize, and the socket backend as their caller. Its parameters:
  - `Threads`: the application threads;
  - `Creator`: the thread that got the server from `dbus_server_listen`;
  - `Data`: the application data values, with `NoData` for NULL;
  - `Watches` and `Timeouts`;
  - `Slots`;
  - `DupResults`: the outcomes `_dbus_dup_string_array` may have;
  - `MaxRef`: the bound on the count.

  The variables correspond to the C fields as follows:
  - `refcount` is `server->refcount`;
  - `lockOwner` is the mutex;
  - `attached[k]` says whether `server->watches` or `server->timeouts` is non-NULL;
  - `list[k]` is the list's content;
  - `appFns[k]` says whether application functions are installed;
  - `ncData` is `new_connection_data`;
  - `slots` is the slot list;
  - `disconnected` and `finalized` are the two flags.

  Bookkeeping variables record what the properties need:
  - `held[t]`: the references thread t owns;
  - `frees[d]`: how often d's destructor ran;
  - `used`: the data ever handed to the server;
  - `live` and `gone`: the backend's current watches, and those it has removed and unreffed.

  Each thread has a program counter `pc[t]`. A thread gets a separate step wherever the C code unlocks, so another thread can run there. Code that holds the lock throughout is one atomic step. The steps, with the C code each models:
  - `ProtectedChange`: lock held, detach, ref, unlock;
  - `PcwCall`: the call-out;
  - `PcwRelock`: relock, reattach, `_dbus_server_unref_unlocked`;
  - `Disconnect`, `DiscBackend`, `DiscWatchFreed`, `DiscUnlock`, `DiscUnref`;
  - `SetFunctions`, `SwfCall`, `SwfRelock`;
  - `SetNewConnectionFunction`, `NcFree`;
  - `SetData`, `DataFree`;
  - `FinSlots`, `FinNc`, `FinNcFree`, `FinFree`, for `_dbus_server_finalize_base`.

  A finalize started by `_dbus_server_unref_unlocked` returns to the interrupted caller (`ret[t]`). This is the use-after-free path a reader of the code has to argue about.

  Some of the backend is modelled from the spec, because its code is not in the repository:
  - `BackendCall` and `BackendDone`: the backend's use of the wrappers;
  - `DiscBackend` and `DiscWatchFreed`: its disconnect method;
  - `ListAdd`: `_dbus_watch_list_add_watch`, which undoes the insertion when the application's add function fails.

  The application's contract is stated in the header comment of `dbus_server_unref`: it drops its last reference only after disconnecting. Accordingly, `Unref` requires `held[t] > 1 \/ disconnected`.
- **`Listen.tla`** models `dbus_server_listen` (447-598). It is sequential: one call on one thread.
  - The inputs, chosen in `Init`, are whether `dbus_parse_address` succeeds, the number of entries `len`, whether the caller passes an error location (`errorPtr`), and `outcome[<<i, j>>]`, the answer of backend `j` on entry `i`.
  - `Parse`, `Attempt` (one loop iteration, one disjunct per answer) and `Out` (the label `out:`) are the steps. `Advance` is the two nested `for` loops.
  - A `DBusError` is a record of its kind and, for one a backend set, the attempt `<<i, j>>` that set it. `liveErrs` holds the backend errors that are allocated and have not been freed or moved to the caller. `MoveToCaller` is `dbus_move_error`, which frees the source when the destination is NULL.
  - `ExpectedServer` and `ExpectedError` are a reference definition of the documented outcome. The first attempt, in entry-then-backend order, that answers OK or BAD_ADDRESS decides; failing that, the first DID_NOT_CONNECT; failing that, "Unknown address type" or "Empty address".
- **`SlotStore.tla`** models the keyed slot store: `dbus_server_allocate_data_slot` (1000-1005), `dbus_server_free_data_slot` (1019-1024), `dbus_server_set_data` (1040-1069) and `dbus_server_get_data` (1080-1097).
  - Parameters: `Vars` (the subsystems' global `dbus_int32_t` slot variables), `Sharers` (callers sharing one variable), `Servers`, `MaxIds` (the allocator's id space), `MaxEpoch` (a bound for TLC).
  - `slotVar[v]` is the variable's value, -1 when unallocated. `refs[id]` is the allocator's count. `len[s]` and `store[s][id]` are server s's slot list.
  - The allocator (`_dbus_data_slot_allocator_alloc/free`, in `dbus-dataslot.c`, not in the repository) is modelled from its contract. A variable that is already allocated gains a reference. A -1 variable gets a free id with count 1. At count zero the id goes back to the pool and the variable is reset to -1.
  - A datum is abstracted to the *epoch* of the allocation it was stored under. `epoch[id]` counts fresh allocations of `id`. So the model can tell whether `get_data` returned this owner's datum or a previous owner's.
  - Each operation runs entirely under one lock (the allocator's or the server's), so each is one step. The destructor call after unlocking is in `Server.tla`.
- **`Lifecycle.tla`** is the abstract specification of what a `DBusServer` promises its users.
  - The state is `"listening"`, `"disconnected"` or `"finalized"`, plus the references each thread owns.
  - The actions are `LRef`, `LUnref`, `LDisconnect` and `LFinalize`. The last reference may be dropped only on a disconnected server.
  - `LSpec` includes `WF(LFinalize)`: a disconnected server with no references is eventually released.
  - `Server.tla` maps onto it with `LC == INSTANCE Lifecycle WITH state <- LifecycleState, refs <- held`. Here `LifecycleState` is derived from the `disconnected` and `finalized` flags. Temporary references (`disconnect`, `protected_change_*`) and the refcount are hidden.
- **`MCServer.tla`** is the TLC instance. `Data` is a symmetry set: the server never compares data values.
- **`ServerProofs.tla`** holds the TLAPS proof of type correctness. **`ServerSafetyProofs.tla`** extends it with the proofs of the locking discipline and of the destructor discipline. **`ServerLifetimeProofs.tla`** (reference counting, finalize, refinement of `Lifecycle`), **`ServerLeakProofs.tla`** (data freed at finalize) and **`ServerRegistryProofs.tla`** (the registry guard) build on them. **`ListenProofs.tla`** holds the proof about `Listen`.

## Runs

| Run | cfg | Checks | Result |
|---|---|---|---|
| server_lifecycle | `MCServer.cfg` | TypeOK, NoCalloutUnderLock, RegistryExclusive, DestructorsSafe, NoLeakAtFinalize, LifetimeSafe, RefcountAccounting | pass: about 3.0 M distinct states, about 1 min |
| server_timeouts | `MCServerTimeouts.cfg` | RegistryExclusive, RefcountAccounting, with a timeout as well | pass: about 4.0 M distinct states, about 1 min |
| auth_lock_leak | `MCServerAuthOOM.cfg` | LockReleasedOnReturn | violated (a code bug) |
| lost_watch_remove | `MCServerDangling.cfg` | NoDanglingWatch | violated (a code bug) |
| listen_precedence | `MCListen.cfg` | TypeOK, ListenResult | pass: about 58 000 distinct states, seconds |
| listen_error_leak | `MCListenLeak.cfg` | NoErrorLeak | violated (a code bug) |
| slot_allocator | `MCSlotStore.cfg` | TypeOK | pass: about 14 000 distinct states, seconds |
| slot_stale_data | `MCSlotStoreStale.cfg` | NoStaleData | violated (the code disagrees with spec.md) |
| server_refinement | `MCServerLive.cfg` | ImplementsLifecycle (`LC!LSpec`) under `FairSpec` | pass: about 570 000 distinct states, about 35 s |

The properties:
- **NoCalloutUnderLock**: no thread holds the mutex while it runs application code. That code is the watch functions, the destructors, and finalize's callbacks.
- **RegistryExclusive**: each list is either attached and used by nobody, or detached and held by exactly one thread.
- **DestructorsSafe**: every datum's destructor runs at most once, and never while the server still stores that datum.
- **NoLeakAtFinalize**: after finalize, every datum ever given to the server has been destroyed.
- **LifetimeSafe**: finalize runs only on a disconnected object whose count is zero and that no other thread is using, and no thread resumes a step on a finalized server.
- **ListenResult**: when `dbus_server_listen` returns, its server and error are those of the reference definition. This holds for every parse result, every combination of answers, and both values of `errorPtr`.
- **NoErrorLeak**: every error a backend set has been freed or handed to the caller by the time `dbus_server_listen` returns.
- **RefcountAccounting**: the atomic count equals the references the threads own, including the temporary ones taken by `disconnect` and `protected_change_*`.
- **NoStaleData**: a caller that holds its slot gets from `get_data` either NULL or a datum stored under its own allocation, never a datum a previous owner of a reused id left behind.
- **ImplementsLifecycle**: every behaviour of `Server` under `FairSpec`, seen through the refinement mapping, is a behaviour of `Lifecycle`. Every step is a step of the abstract lifecycle or a stutter. A disconnected server with no references left is finalized.

Each property is broken by a mutant of the code in `Server.tla` (listed in `PROJECT.json`). Examples:
- `DropRefEarly` reads the atomic decrement's result as the new value;
- `SetFunctionsUnguarded` drops the NULL-list guard;
- `KeepLastError` drops the `dbus_error_is_set (&first_connect_error)` test, so a later DID_NOT_CONNECT replaces the first one;
- `AdvancePastEnd` makes the entry loop run while `i <= len`;
- `SwfRelockWatches` makes `set_timeout_functions` restore `server->watches`;
- `FreeKeepsVar` forgets to reset the variable to -1 when the last reference goes;
- `SetDataGrowPastEnd` grows the slot list one entry too far;
- `PcwRelockNoUnref` drops the temporary reference without finalizing when it was the last one.

Bounds and why they are enough:
- Two threads suffice for every race here: each lock-free window admits a second actor.
- `MaxRef` of 3 lets the owner share one reference while one temporary reference (disconnect or protected_change) is out.
- Two data values, with symmetry, let a destructor race with a swap.
- For `Listen`, 2 entries × 3 backends (the debug pipe is the third) with both `errorPtr` values enumerate all 4^6 answer tables. Every exit of the scan is reached: an early exit at each attempt, a DID_NOT_CONNECT before and after a decision, and no entry handled at all. `NoErrorLeak` needs only 1 entry and 2 backends to fail.
- With one watch and one slot, every handler and every disjunct fires. The 2-thread run with both a watch and a timeout at MaxRef 3 needs more than 5 minutes, so timeouts get a run of their own.

- For `SlotStore`, two variables with two sharers each and two ids let one variable's id be freed and handed to the other variable, or back to the same one. `MaxEpoch` of 2 allows one reuse of each id.
- `MCServerLive.cfg` uses one datum, one slot and `MaxRef` 2, with no symmetry (symmetry is unsound for liveness). It also sets `CHECK_DEADLOCK FALSE`: a server whose application never calls again rightly stops.

Fairness. The safety runs assume none. `FairSpec` adds weak fairness of `InServerStep(t)` for each thread t: its steps *inside* a server call (`PcwCall` ... `FinFree`). The code justifies this:
- within a call, a thread waits only for the mutex;
- every holder releases the mutex before its call returns (proved below, given that `_dbus_dup_string_array` never fails);
- the application's callbacks are assumed to return.

The steps that *start* a call (`Ref`, `Unref`, `Disconnect`, the setters) get no fairness, because whether the application calls at all is its own choice.

### Findings

1. **Lock leak on OOM** (`dbus-server.c:969`). `dbus_server_set_auth_mechanisms` returns FALSE when `_dbus_dup_string_array` fails, without `SERVER_UNLOCK`. The next `SERVER_LOCK` deadlocks. The trace takes one step.
2. **Lost watch removal** (`dbus-server.c:284`). `_dbus_server_remove_watch` ignores the FALSE that `protected_change_watch` returns when another thread holds the detached list: the backend toggling a watch, or the application installing watch functions. The removal is lost: the backend invalidates the watch and drops its own reference, but the watch stays in `server->watches`, which still holds a reference to it, and the application's remove function is never called for it.
3. **Leaked connect error** (`dbus-server.c:537`, `:588`). `dbus_server_listen` parks the first DID_NOT_CONNECT error in `first_connect_error`. It frees that error only on the path that moves it to the caller. TLC's trace: a 1-entry address, backend 1 says DID_NOT_CONNECT, backend 2 says OK.
   - When a later backend answers OK, the error leaks silently.
   - When a later backend answers BAD_ADDRESS, the error leaks and the assert at 588, "be sure we freed it", fails.
4. **Stale slot data after a slot is reused** (`dbus-server.c:1023`). `dbus_server_free_data_slot` returns the id to the allocator. It leaves the data stored under that id on existing servers; its doc comment says the data stays until finalize. spec.md says a freed id reused for a new allocation must not alias the previous owner's data. TLC's trace:
   1. a caller allocates id 0 and stores a datum on the server;
   2. it frees the slot;
   3. it allocates again and gets id 0 afresh;
   4. `get_data` returns the old datum.

## Proofs

`ServerProofs.tla` proves `TypeCorrect == Spec => []TypeOK` for every value of the constants. It assumes the `ASSUME`s of `Server.tla`:
- `NoThread` is not a thread;
- `NoData` is neither a datum nor a watch or timeout;
- `Slots` is finite;
- `MaxRef` is positive.

`TypeOK` alone is not inductive. `set_*_functions` leaves `NoData` as the item in `arg[t]`, and the list operations would put that item into a list. The strengthening `ArgOK` adds two facts about a thread whose item is NoData:
- it is never inside `protected_change_*` or the backend's follow-up;
- a finalize it runs returns to idle.

TLC checked `IInv == TypeOK /\ ArgOK` as an invariant of `MCServer.cfg` before it was proved. The proof has these parts:
- `InitIInv`;
- `NextIInv`, with one step per action;
- the lemmas `ProtectedChangeType`, `DropRefType` and `RealItem`, which are shared by the steps of all callers;
- PTL, which combines them.

`ServerSafetyProofs.tla` proves two more theorems.

**`LockDiscipline`**: `Spec => [](NoCalloutUnderLock /\ LockReleasedOnReturn)`, under the hypothesis `DupResults = {TRUE}`. Without that hypothesis the theorem is false (finding 1). The inductive invariant is `IInv /\ LockInv`. `LockInv` says three things:
- the mutex owner is at one of the four steps that run with the lock held;
- a thread in the unlocked window of `protected_change_*` returns to a step that relocks;
- a thread finalizing returns to such a step or to idle.

This strengthening is needed because a finalize started from `_dbus_server_unref_unlocked` resumes its caller, and the caller must not expect to hold the lock. The lemmas are:
- `QuietStep`: steps that neither take nor release the mutex;
- `ProtectedChangeLock`: the six wrappers.

**`DestructorDiscipline`**: `Spec => []DestructorsSafe`, for every number of threads, data and slots. `DestructorsSafe` is not inductive: a datum swapped out under the lock is no longer stored, yet has not been freed. The strengthening `DataInv` has four parts:
- data never handed to the server is nowhere (`DataUnused`);
- a datum is freed at most once, and not while held (`DataFreedOnce`);
- a datum is in at most one place: `new_connection_data`, one slot, or one thread's swapped-out `oldData` (`DataOnePlace`);
- a thread holds swapped-out data only at its destructor step (`DataPendingFree`).

TLC checked `IInv /\ LockInv /\ DataInv` as an invariant of the server with two data and two slots before it was proved. The lemmas are:
- `FreeOldData`: the three destructor steps;
- `SlotCountOne`: finalize's loop counts a datum at most once, via `FS_Singleton`/`FS_EmptySet`;
- `DataFrame`: all other steps.

`ServerLifetimeProofs.tla` proves two theorems about the object's lifetime, both under `DupResults = {TRUE}`.

**`LifetimeSafety`**: `Spec => [](LifetimeSafe /\ RefcountAccounting)`. `RefcountAccounting` counts the references the threads own as a set of tokens, `RefTokens` (thread t owns tokens `<<t, 1>>` .. `<<t, ThreadRefs(t)>>`), and says `refcount = Cardinality(RefTokens)`. It is not inductive alone: when one thread drops the count from 1 to 0, it does not say that no other thread is inside a call on the object. The strengthening `LifeInv` adds:
- `RefTokens` is finite;
- `InCallOwns`: a thread inside a server call, other than one finalizing, owns a reference (it entered through `CanCall` and cannot unref before it returns);
- `FinalizeToIdle`: a finalize started by `_dbus_server_unref_unlocked` returns to idle.

Before it was proved, TLC checked `IInv /\ LockInv /\ LifeInv` on `MCServer.cfg`. TLC also showed that an earlier form of the count, a pairwise bound between threads, was not inductive with three threads; that is why the count is stated through tokens. The lemmas `TokensUp`, `TokensDown`, `TokensSame`, `TokensZero` and `TokensOne` give the token set's cardinality after a step, from the `FS_*` facts of `FiniteSetTheorems`. `QuietLife` covers every step that changes no reference.

**`RefinesLifecycle`**: `Spec => LC!LInit /\ [][LC!LNext]_LC!lvars`. This is the step-by-step part of `ImplementsLifecycle`. `InitRefines` maps the initial state. `NextRefines` maps every step:
- `Ref` to `LRef`;
- `Unref` to `LUnref`;
- the first `Disconnect` to `LDisconnect`;
- `FinFree` to `LFinalize`;
- every other step to a stutter.

`ServerLeakProofs.tla` proves **`NoLeak`**: `Spec => []NoLeakAtFinalize`, under `DupResults = {TRUE}`. The inductive invariant is `LeakInv`:
- every datum handed to the server has been freed, is installed, or is pending in a thread's destructor step (`LeakTracked`);
- after finalize's slot and new-connection steps, those places are empty (`FinSlotsCleared`, `FinNcCleared`);
- once finalized, every used datum has been freed (`FinalizedFreed`).

It rests on `LifeInv`: a thread inside a call owns a reference, and a thread that owns one rules out finalize, started or done (`OwnerBlocksFinalize`). So no thread installs data while the server finalizes. "Exactly once" comes from `DataInv`.

`ServerRegistryProofs.tla` proves **`RegistryGuard`**: `Spec => []RegistryExclusive`, for every instance and without the `DupResults` hypothesis. `RegInv` adds `RetNotWindow`: no finalize returns into the unlocked window of `protected_change_*` or `set_*_functions`.

No theorem is stated about `SlotStore`. Its id accounting, that a count equals its holders and no id is named twice, is decided by `_dbus_data_slot_allocator_alloc/free` in `dbus-dataslot.c`, which is not in the repository and is modelled here from its contract. The repository lines 1000-1024 only forward to it, so such a theorem would be about the contract model and not about this code. The slot store's question about this code is the stale-data finding, which TLC answers.

`ListenProofs.tla` proves **`ListenCorrect`**: `Spec => [](TypeOK /\ ListenResult)`, for every number of entries and backends. The argument is a loop invariant over the attempts already scanned (`Scanned`, in entry-then-backend order), not induction over data:
- during the scan, no scanned attempt is deciding (OK or BAD_ADDRESS);
- `first_connect_error` is the earliest refusal among them (`FirstRefusedOf`);
- `handled_once` says whether a refusal was seen;
- at `out:`, either the scan stopped at the first deciding attempt (`EndedAt`) or it ran through all attempts (`EndedAll`).

`NextPosition` and `LastPosition` show that the two `for` loops extend the scanned prefix by exactly the attempt just made. `FirstOfIs` turns the reference definition's `CHOOSE` into that attempt.

Stays with TLC, because it is out of the prover's reach:
- liveness and fairness: the `WF(LFinalize)` part of `ImplementsLifecycle` (run `server_refinement`), which needs ENABLED and fairness reasoning;
- deadlock freedom;
- the properties the violation runs refute.

## Not modelled, and the plan

- **A server call made by a thread that owns no reference, and callbacks that re-enter the server.** In the model every call starts from a reference the thread owns (`CanCall`). The application's watch/timeout function is one step that does not call back into the server. Together these mean a thread inside a call always owns a reference (`InCallOwns`, proved). So the temporary references that `dbus_server_disconnect` and `protected_change_*` take are never the ones keeping the object alive. The finalize inside the backend call at 711-719 is modelled but unreachable: the proofs show the count is not 1 where `protected_change_*` relocks. `LifetimeSafe` therefore cannot catch a temporary reference whose ref and unref are both missing. `RefcountAccounting` only catches one taken without its release. Modelling a callout that unrefs, or a backend thread without a reference, would make that path reachable.

- **`_dbus_server_init_base`'s failure path** (96-160). It is a straight line of six allocations, and its `failed:` label frees each one whose field is set. This is too small for a run of its own. Note that `server->mutex` is not reset to NULL before the first `goto failed`, so the code relies on the backend allocating the server zero-filled.
- **The slot store composed with `Server`**. `SlotStore` tracks ids and epochs, and `Server` tracks destructors over a fixed set of slots. Composing them would let a freed-and-reused slot's datum be destroyed by finalize. That combination is left for a later model.
- **`src/glib/dbus-gidl.h`**: it holds only type and function declarations, with no code to model.
- **Address parsing, guid formatting, `get_address`, the GLib test utilities and the GIDL header**: string handling, process I/O or declarations, with no state a model checker would explore.
