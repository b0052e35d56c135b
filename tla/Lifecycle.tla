------------------------------ MODULE Lifecycle ------------------------------
(***************************************************************************)
(* What a DBusServer promises the application about its lifetime, with    *)
(* the locking, the call-outs and the temporary references of              *)
(* dbus-server.c abstracted away. Each thread owns some references; a      *)
(* thread with a reference may give one to any thread, drop one, or       *)
(* disconnect the server. The last reference may be dropped only on a      *)
(* disconnected server, and the server is finalized exactly when it is     *)
(* disconnected and nobody owns a reference, and then stays so.            *)
(***************************************************************************)
EXTENDS Naturals

CONSTANTS
  Threads,    \* application threads
  Creator     \* the thread the server is first handed to

VARIABLES
  state,      \* "listening", "disconnected" or "finalized"
  refs        \* refs[t]: references thread t owns

lvars == <<state, refs>>

LTypeOK ==
  /\ state \in {"listening", "disconnected", "finalized"}
  /\ refs \in [Threads -> Nat]

LInit ==
  /\ state = "listening"
  /\ refs = [t \in Threads |-> IF t = Creator THEN 1 ELSE 0]

\* dbus_server_ref: t passes a new reference to u.
LRef(t, u) ==
  /\ refs[t] >= 1
  /\ refs' = [refs EXCEPT ![u] = @ + 1]
  /\ UNCHANGED state

\* dbus_server_unref: the last one only after disconnecting.
LUnref(t) ==
  /\ refs[t] >= 1
  /\ refs[t] > 1 \/ state = "disconnected"
  /\ refs' = [refs EXCEPT ![t] = @ - 1]
  /\ UNCHANGED state

\* dbus_server_disconnect, the first time.
LDisconnect(t) ==
  /\ refs[t] >= 1
  /\ state = "listening"
  /\ state' = "disconnected"
  /\ UNCHANGED refs

\* The object is released once nobody can reach it.
LFinalize ==
  /\ state = "disconnected"
  /\ \A t \in Threads : refs[t] = 0
  /\ state' = "finalized"
  /\ UNCHANGED refs

LNext ==
  \/ \E t, u \in Threads : LRef(t, u)
  \/ \E t \in Threads : LUnref(t) \/ LDisconnect(t)
  \/ LFinalize

\* Finalization is not optional: an unreachable server is released.
LSpec == LInit /\ [][LNext]_lvars /\ WF_lvars(LFinalize)
=============================================================================
