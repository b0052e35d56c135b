------------------------------ MODULE SlotStore ------------------------------
(***************************************************************************)
(* The keyed slot store behind dbus_server_allocate_data_slot,             *)
(* dbus_server_free_data_slot, dbus_server_set_data and                    *)
(* dbus_server_get_data (dbus-server.c).                                   *)
(*                                                                         *)
(* A subsystem keeps its slot id in a global variable (dbus_int32_t, -1    *)
(* when unallocated); several callers may share one variable, each         *)
(* allocate adding a reference to the id. The process-wide allocator       *)
(* (dbus-dataslot.c, outside this repository, modelled from its contract)  *)
(* counts the references of each id and returns an id to its pool when the *)
(* count reaches zero. Each server keeps a slot list indexed by id, grown  *)
(* on demand. Every operation runs under a lock (the allocator's or the    *)
(* server's) and is one step here; the destructor calls after unlocking   *)
(* are modelled in Server.tla.                                             *)
(*                                                                         *)
(* Data is abstracted to the allocation it was stored under: each fresh    *)
(* allocation of an id starts a new epoch of that id, and a datum is the   *)
(* epoch its owner stored it in. NoData (0) is NULL.                       *)
(***************************************************************************)
EXTENDS Integers

CONSTANTS
  Vars,       \* global slot variables (one per subsystem)
  Sharers,    \* callers sharing one slot variable
  Servers,    \* DBusServer instances
  MaxIds,     \* size of the allocator's id space
  MaxEpoch    \* bound on fresh allocations of one id (state constraint)

ASSUME IdsAssumption == MaxIds \in Nat \ {0}
ASSUME EpochAssumption == MaxEpoch \in Nat \ {0}

Ids == 0..(MaxIds - 1)
Unallocated == -1
NoData == 0
Users == Vars \X Sharers

VARIABLES
  slotVar,    \* slotVar[v]: the value of the global dbus_int32_t v
  refs,       \* refs[id]: the allocator's reference count of id
  epoch,      \* epoch[id]: fresh allocations of id so far
  holds,      \* holds[u]: caller u owns a reference from allocate
  len,        \* len[s]: length of server s's slot list
  store,      \* store[s][id]: data stored in slot id of server s
  got         \* got[u]: what u's last dbus_server_get_data returned

vars == <<slotVar, refs, epoch, holds, len, store, got>>

TypeOK ==
  /\ slotVar \in [Vars -> Ids \cup {Unallocated}]
  /\ refs \in [Ids -> Nat]
  /\ epoch \in [Ids -> Nat]
  /\ holds \in [Users -> BOOLEAN]
  /\ len \in [Servers -> 0..MaxIds]
  /\ store \in [Servers -> [Ids -> Nat]]
  /\ got \in [Users -> Nat]

\* Every slot variable starts at -1, as the allocator requires; every
\* server's slot list starts empty (_dbus_data_slot_list_init).
Init ==
  /\ slotVar = [v \in Vars |-> Unallocated]
  /\ refs = [id \in Ids |-> 0]
  /\ epoch = [id \in Ids |-> 0]
  /\ holds = [u \in Users |-> FALSE]
  /\ len = [s \in Servers |-> 0]
  /\ store = [s \in Servers |-> [id \in Ids |-> NoData]]
  /\ got = [u \in Users |-> NoData]

-----------------------------------------------------------------------------
(***************************************************************************)
(* dbus_server_allocate_data_slot: _dbus_data_slot_allocator_alloc on the  *)
(* caller's variable. A non-negative variable gains a reference; -1 gets   *)
(* a free id with count 1. Failure for lack of memory changes nothing.    *)
(***************************************************************************)
AllocateDataSlot(u) ==
  LET v == u[1] IN
  /\ ~holds[u]
  /\ IF slotVar[v] # Unallocated
       THEN /\ refs' = [refs EXCEPT ![slotVar[v]] = @ + 1]
            /\ UNCHANGED <<slotVar, epoch>>
       ELSE \E id \in Ids :
              /\ refs[id] = 0
              /\ refs' = [refs EXCEPT ![id] = 1]
              /\ epoch' = [epoch EXCEPT ![id] = @ + 1]
              /\ slotVar' = [slotVar EXCEPT ![v] = id]
  /\ holds' = [holds EXCEPT ![u] = TRUE]
  /\ got' = [got EXCEPT ![u] = NoData]
  /\ UNCHANGED <<len, store>>

(***************************************************************************)
(* dbus_server_free_data_slot: returns at once on a negative variable,     *)
(* else _dbus_data_slot_allocator_free drops a reference and, at zero,     *)
(* returns the id to the pool and sets the variable to -1. Data stored in *)
(* the slot on existing servers is left where it is.                       *)
(***************************************************************************)
FreeDataSlot(u) ==
  LET v == u[1]
      id == slotVar[v] IN
  /\ holds[u]
  /\ id # Unallocated
  /\ refs' = [refs EXCEPT ![id] = @ - 1]
  /\ slotVar' = IF refs[id] = 1 THEN [slotVar EXCEPT ![v] = Unallocated]
                ELSE slotVar
  /\ holds' = [holds EXCEPT ![u] = FALSE]
  /\ UNCHANGED <<epoch, len, store, got>>

\* Mutant: the list grown one entry more than the slot needs.
SetDataGrowPastEnd(u, s) ==
  LET id == slotVar[u[1]] IN
  /\ holds[u]
  /\ len' = [len EXCEPT ![s] = IF id < @ THEN @ ELSE id + 2]
  /\ store' = [store EXCEPT ![s][id] = epoch[id]]
  /\ UNCHANGED <<slotVar, refs, epoch, holds, got>>

(***************************************************************************)
(* dbus_server_set_data with a slot the caller has allocated:              *)
(* _dbus_data_slot_list_set grows the list to hold the slot (which may     *)
(* fail, leaving everything as it was) and stores the caller's datum.      *)
(***************************************************************************)
SetData(u, s) ==
  LET id == slotVar[u[1]] IN
  /\ holds[u]
  /\ len' = [len EXCEPT ![s] = IF id < @ THEN @ ELSE id + 1]
  /\ store' = [store EXCEPT ![s][id] = epoch[id]]
  /\ UNCHANGED <<slotVar, refs, epoch, holds, got>>

\* dbus_server_get_data: _dbus_data_slot_list_get, NULL past the list's end.
GetData(u, s) ==
  LET id == slotVar[u[1]] IN
  /\ holds[u]
  /\ got' = [got EXCEPT ![u] = IF id < len[s] THEN store[s][id] ELSE NoData]
  /\ UNCHANGED <<slotVar, refs, epoch, holds, len, store>>

Next ==
  \E u \in Users :
    \/ AllocateDataSlot(u)
    \/ FreeDataSlot(u)
    \/ \E s \in Servers : SetData(u, s) \/ GetData(u, s)

Spec == Init /\ [][Next]_vars

\* Bounds the number of times an id is handed out afresh.
EpochConstraint == \A id \in Ids : epoch[id] <= MaxEpoch

-----------------------------------------------------------------------------
\* What dbus_server_get_data returns to a caller that holds its slot is
\* NULL or a datum stored under the caller's own allocation of the slot,
\* never one a previous owner of a freed and reused id left on the server.
NoStaleData ==
  \A u \in Users :
    holds[u] /\ got[u] # NoData => got[u] = epoch[slotVar[u[1]]]
=============================================================================
