------------------------------- MODULE Listen -------------------------------
(***************************************************************************)
(* dbus_server_listen (dbus-server.c): parse the address into entries,    *)
(* then try every listener backend on every entry, in order. OK and        *)
(* BAD_ADDRESS end the scan; NOT_HANDLED and DID_NOT_CONNECT go on, the    *)
(* first DID_NOT_CONNECT error being kept for the report. The backends'   *)
(* answers are inputs: outcome[<<i, j>>] is what backend j says of entry i.*)
(* Each DBusError a backend sets is named by its attempt <<i, j>>, so that *)
(* where it ends up (the caller, freed, or nowhere) can be followed.       *)
(***************************************************************************)
EXTENDS Integers

CONSTANTS
  MaxEntries,     \* most entries an address parses into
  NumBackends,    \* entries of listen_funcs[] (2, or 3 with the test pipe)
  ErrorPtrs       \* whether the caller passes an error location: subset of BOOLEAN

ASSUME EntriesAssumption == MaxEntries \in Nat
ASSUME BackendsAssumption == NumBackends \in Nat \ {0}
ASSUME ErrorPtrsAssumption == ErrorPtrs \subseteq BOOLEAN /\ ErrorPtrs # {}

VARIABLES
  parseOk,      \* dbus_parse_address succeeded
  len,          \* number of entries
  outcome,      \* outcome[<<i, j>>]: listen_funcs[j].func on entries[i]
  errorPtr,     \* error != NULL
  pc,           \* "parse", "scan", "out" or "done"
  i, j,         \* the loop indices, from 1
  server,       \* server != NULL
  error,        \* *error, as seen by the caller
  firstErr,     \* first_connect_error
  handledOnce,  \* handled_once
  liveErrs,     \* backend errors allocated and not yet freed
  entries       \* the parsed entries: "none", "live" or "freed"

vars == <<parseOk, len, outcome, errorPtr, pc, i, j, server, error, firstErr,
          handledOnce, liveErrs, entries>>

\* The four DBusServerListenResult values.
Results == {"OK", "BAD_ADDRESS", "NOT_HANDLED", "DID_NOT_CONNECT"}
\* The entries of listen_funcs[], in their fixed priority order.
Backends == 1..NumBackends
Attempts == (1..len) \X Backends
AllAttempts == (1..MaxEntries) \X Backends

\* A DBusError: its kind and, for one a backend set, the attempt that set it.
NoAt == <<0, 0>>
Errors == [kind : {"bad", "dnc"}, at : AllAttempts]
          \cup [kind : {"none", "parse", "unknown", "empty"}, at : {NoAt}]
NoError == [kind |-> "none", at |-> NoAt]
IsSet(e) == e.kind # "none"

TypeOK ==
  /\ parseOk \in BOOLEAN
  /\ len \in 0..MaxEntries
  /\ outcome \in [Attempts -> Results]
  /\ errorPtr \in BOOLEAN
  /\ pc \in {"parse", "scan", "out", "done"}
  /\ pc = "scan" => <<i, j>> \in Attempts
  /\ server \in BOOLEAN
  /\ error \in Errors
  /\ firstErr \in Errors
  /\ handledOnce \in BOOLEAN
  /\ liveErrs \subseteq AllAttempts
  /\ entries \in {"none", "live", "freed"}

(***************************************************************************)
(* Every address the parser may return, every answer of every backend,    *)
(* and an error location or NULL.                                          *)
(***************************************************************************)
Init ==
  /\ parseOk \in BOOLEAN
  /\ len \in 0..MaxEntries
  /\ outcome \in [Attempts -> Results]
  /\ errorPtr \in ErrorPtrs
  /\ pc = "parse"
  /\ i = 1 /\ j = 1
  /\ server = FALSE
  /\ error = NoError
  /\ firstErr = NoError
  /\ handledOnce = FALSE
  /\ liveErrs = {}
  /\ entries = "none"

\* dbus_move_error (src, error): with error NULL the source is freed.
MoveToCaller(e) ==
  /\ error' = IF errorPtr THEN e ELSE NoError
  /\ liveErrs' = IF errorPtr THEN liveErrs ELSE liveErrs \ {e.at}

\* dbus_parse_address: on failure it has set the error and there is
\* nothing to free.
Parse ==
  /\ pc = "parse"
  /\ IF parseOk
       THEN /\ entries' = "live"
            /\ pc' = IF len > 0 THEN "scan" ELSE "out"
            /\ UNCHANGED error
       ELSE /\ error' = IF errorPtr THEN [kind |-> "parse", at |-> NoAt]
                        ELSE NoError
            /\ pc' = "done"
            /\ UNCHANGED entries
  /\ UNCHANGED <<parseOk, len, outcome, errorPtr, i, j, server, firstErr,
                 handledOnce, liveErrs>>

\* Mutant: the entry loop's test off by one (i <= len), so the scan goes on
\* past the last entry.
AdvancePastEnd ==
  IF j < NumBackends THEN j' = j + 1 /\ i' = i /\ pc' = "scan"
  ELSE IF i <= len THEN i' = i + 1 /\ j' = 1 /\ pc' = "scan"
  ELSE pc' = "out" /\ UNCHANGED <<i, j>>

\* The two for loops: next backend, else next entry, else leave the loop.
Advance ==
  IF j < NumBackends THEN j' = j + 1 /\ i' = i /\ pc' = "scan"
  ELSE IF i < len THEN i' = i + 1 /\ j' = 1 /\ pc' = "scan"
  ELSE pc' = "out" /\ UNCHANGED <<i, j>>

\* Mutant: a later DID_NOT_CONNECT replaces the remembered one (the
\* dbus_error_is_set test on first_connect_error dropped).
KeepLastError(a) ==
  /\ firstErr' = [kind |-> "dnc", at |-> a]
  /\ liveErrs' = (liveErrs \ {firstErr.at}) \cup {a}

\* A DID_NOT_CONNECT error is kept if it is the first, else freed.
KeepFirstError(a) ==
  IF IsSet(firstErr)
    THEN UNCHANGED <<firstErr, liveErrs>>
    ELSE /\ firstErr' = [kind |-> "dnc", at |-> a]
         /\ liveErrs' = liveErrs \cup {a}

\* One backend tried on one entry, and what the loop body does with its
\* answer.
Attempt ==
  /\ pc = "scan"
  /\ LET a == <<i, j>> IN
     \/ /\ outcome[a] = "OK"
        /\ server' = TRUE /\ handledOnce' = TRUE /\ pc' = "out"
        /\ UNCHANGED <<i, j, error, firstErr, liveErrs>>
     \/ /\ outcome[a] = "BAD_ADDRESS"
        /\ MoveToCaller([kind |-> "bad", at |-> a])
        /\ handledOnce' = TRUE /\ pc' = "out"
        /\ UNCHANGED <<i, j, server, firstErr>>
     \/ /\ outcome[a] = "NOT_HANDLED"
        /\ Advance
        /\ UNCHANGED <<server, error, firstErr, handledOnce, liveErrs>>
     \/ /\ outcome[a] = "DID_NOT_CONNECT"
        /\ KeepFirstError(a)
        /\ handledOnce' = TRUE
        /\ Advance
        /\ UNCHANGED <<server, error>>
  /\ UNCHANGED <<parseOk, len, outcome, errorPtr, entries>>

(***************************************************************************)
(* The label out: report an address no backend handled, free the entries, *)
(* and on failure hand first_connect_error to the caller unless an error  *)
(* is already set there.                                                   *)
(***************************************************************************)
Out ==
  /\ pc = "out"
  /\ LET err == IF ~handledOnce /\ errorPtr
                  THEN [kind |-> IF len > 0 THEN "unknown" ELSE "empty",
                        at |-> NoAt]
                  ELSE error
     IN  IF ~server /\ ~(errorPtr /\ IsSet(err))
           THEN /\ MoveToCaller(firstErr)
                /\ firstErr' = NoError
           ELSE /\ error' = err
                /\ UNCHANGED <<firstErr, liveErrs>>
  /\ entries' = "freed"
  /\ pc' = "done"
  /\ UNCHANGED <<parseOk, len, outcome, errorPtr, i, j, server, handledOnce>>

\* dbus_server_listen has returned.
Done == pc = "done" /\ UNCHANGED vars

Next == Parse \/ Attempt \/ Out \/ Done

Spec == Init /\ [][Next]_vars

-----------------------------------------------------------------------------
(***************************************************************************)
(* Reference definition of the result, from the documented policy: the    *)
(* first attempt (entry-major, then backend order) that says OK or         *)
(* BAD_ADDRESS decides; failing that the first DID_NOT_CONNECT is          *)
(* reported; failing that "Unknown address type", or "Empty address" when  *)
(* the address has no entries.                                             *)
(***************************************************************************)
Before(a, b) == a[1] < b[1] \/ (a[1] = b[1] /\ a[2] < b[2])
FirstOf(S) == CHOOSE a \in S : \A b \in S \ {a} : Before(a, b)
Deciding == {a \in Attempts : outcome[a] \in {"OK", "BAD_ADDRESS"}}
Refused == {a \in Attempts : outcome[a] = "DID_NOT_CONNECT"}

ExpectedServer ==
  parseOk /\ Deciding # {} /\ outcome[FirstOf(Deciding)] = "OK"

ExpectedError ==
  IF ~errorPtr \/ ExpectedServer THEN NoError
  ELSE IF ~parseOk THEN [kind |-> "parse", at |-> NoAt]
  ELSE IF Deciding # {} THEN [kind |-> "bad", at |-> FirstOf(Deciding)]
  ELSE IF Refused # {} THEN [kind |-> "dnc", at |-> FirstOf(Refused)]
  ELSE [kind |-> IF len > 0 THEN "unknown" ELSE "empty", at |-> NoAt]

\* dbus_server_listen returns a server exactly when the first deciding
\* backend answer is OK, never together with an error, and otherwise sets
\* the error the documented precedence selects: the scan with its two
\* early exits and the first_connect_error bookkeeping computes the
\* reference definition above.
ListenResult ==
  pc = "done" => server = ExpectedServer /\ error = ExpectedError

\* Every DBusError a backend set has been freed or handed to the caller
\* when dbus_server_listen returns (the code asserts first_connect_error is
\* clear on the failure path, and frees each tmp_error it does not keep).
NoErrorLeak ==
  pc = "done" => \A a \in liveErrs : error.at = a
=============================================================================
