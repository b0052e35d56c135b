---- MODULE ListenProofs ----
(***************************************************************************)
(* dbus_server_listen computes the documented result, for every number of *)
(* entries and backends: the nested for loops keep the scanned prefix     *)
(* free of deciding answers, first_connect_error the earliest refusal of  *)
(* that prefix, and handled_once true exactly when a refusal was seen.    *)
(***************************************************************************)
EXTENDS Listen, TLAPS

\* The attempts the loops have finished, in entry-then-backend order.
Scanned == {a \in Attempts : Before(a, <<i, j>>)}

NoDecidingIn(P) == \A a \in P : outcome[a] \in {"NOT_HANDLED", "DID_NOT_CONNECT"}

\* e is the error of the earliest refused attempt of P, or none.
FirstRefusedOf(e, R, P) ==
  IF R \cap P = {} THEN e = NoError
  ELSE /\ e = [kind |-> "dnc", at |-> e.at]
       /\ e.at \in R \cap P
       /\ \A b \in (R \cap P) \ {e.at} : Before(e.at, b)

ParseInv ==
  pc = "parse" => /\ ~server /\ error = NoError /\ firstErr = NoError
                  /\ ~handledOnce /\ i = 1 /\ j = 1

ScanInv ==
  pc = "scan" => /\ parseOk /\ ~server /\ error = NoError
                 /\ NoDecidingIn(Scanned)
                 /\ FirstRefusedOf(firstErr, Refused, Scanned)
                 /\ handledOnce = (Refused \cap Scanned # {})

\* The scan stopped at the deciding attempt <<i, j>>.
EndedAt ==
  /\ <<i, j>> \in Deciding
  /\ NoDecidingIn(Scanned)
  /\ FirstRefusedOf(firstErr, Refused, Scanned)
  /\ handledOnce
  /\ server = (outcome[<<i, j>>] = "OK")
  /\ error = IF outcome[<<i, j>>] = "BAD_ADDRESS" /\ errorPtr
               THEN [kind |-> "bad", at |-> <<i, j>>] ELSE NoError

\* The scan ran through every attempt.
EndedAll ==
  /\ ~server /\ error = NoError
  /\ FirstRefusedOf(firstErr, Refused, Attempts)
  /\ handledOnce = (Refused # {})

OutInv ==
  pc = "out" => parseOk /\ IF Deciding # {} THEN EndedAt ELSE EndedAll

ResultInv == TypeOK /\ ParseInv /\ ScanInv /\ OutInv /\ ListenResult

USE EntriesAssumption, BackendsAssumption, ErrorPtrsAssumption
    DEF Backends, Attempts, AllAttempts, NoAt, NoError, Errors, IsSet

-----------------------------------------------------------------------------
(***************************************************************************)
(* The scan order.                                                         *)
(***************************************************************************)

\* Two different attempts are ordered one way or the other, never both.
LEMMA BeforeTotal ==
  ASSUME NEW a \in Int \X Int, NEW b \in Int \X Int
  PROVE  /\ a # b => Before(a, b) \/ Before(b, a)
         /\ ~(Before(a, b) /\ Before(b, a))
         /\ ~Before(a, a)
BY DEF Before

\* An attempt before all others of S is the one FirstOf picks.
LEMMA FirstOfIs ==
  ASSUME NEW S \in SUBSET (Int \X Int), NEW a \in S,
         \A b \in S \ {a} : Before(a, b)
  PROVE  FirstOf(S) = a
<1>1. \E x \in S : \A b \in S \ {x} : Before(x, b)
  OBVIOUS
<1>2. /\ FirstOf(S) \in S
      /\ \A b \in S \ {FirstOf(S)} : Before(FirstOf(S), b)
  BY <1>1 DEF FirstOf
<1>3. QED
  BY <1>2, BeforeTotal

\* Moving to the next backend, or to the first backend of the next entry,
\* adds the attempt just made to the scanned prefix.
LEMMA NextPosition ==
  ASSUME NEW n \in Nat, NEW x \in 1..n, NEW y \in Backends,
         NEW x2 \in Int, NEW y2 \in Int,
         \/ y < NumBackends /\ x2 = x /\ y2 = y + 1
         \/ ~(y < NumBackends) /\ x < n /\ x2 = x + 1 /\ y2 = 1
  PROVE  /\ <<x2, y2>> \in (1..n) \X Backends
         /\ \A a \in (1..n) \X Backends :
              Before(a, <<x2, y2>>) <=> Before(a, <<x, y>>) \/ a = <<x, y>>
BY DEF Before

\* Leaving the loops after the last backend of the last entry: every
\* attempt has been made.
LEMMA LastPosition ==
  ASSUME NEW n \in Nat, NEW x \in 1..n, NEW y \in Backends,
         ~(y < NumBackends), ~(x < n)
  PROVE  \A a \in (1..n) \X Backends : Before(a, <<x, y>>) \/ a = <<x, y>>
BY DEF Before

\* Nothing comes before the first backend on the first entry.
LEMMA FirstPosition ==
  ASSUME NEW n \in Nat
  PROVE  \A a \in (1..n) \X Backends : ~Before(a, <<1, 1>>)
BY DEF Before

-----------------------------------------------------------------------------
(***************************************************************************)
(* first_connect_error across one more attempt.                           *)
(***************************************************************************)

\* An attempt that is not refused leaves the earliest refusal as it was.
LEMMA FirstRefusedSkip ==
  ASSUME NEW e, NEW R, NEW P, NEW a, a \notin R, FirstRefusedOf(e, R, P)
  PROVE  FirstRefusedOf(e, R, P \cup {a})
<1>1. R \cap (P \cup {a}) = R \cap P
  OBVIOUS
<1>2. QED
  BY <1>1 DEF FirstRefusedOf

\* A refused attempt after the whole prefix is kept if it is the first
\* refusal, else the earlier one stays.
LEMMA FirstRefusedAdd ==
  ASSUME NEW e, NEW R \in SUBSET (Int \X Int), NEW P \in SUBSET (Int \X Int),
         NEW a \in R, a \notin P, \A b \in P : Before(b, a),
         FirstRefusedOf(e, R, P)
  PROVE  FirstRefusedOf(IF IsSet(e) THEN e ELSE [kind |-> "dnc", at |-> a],
                        R, P \cup {a})
<1>1. CASE R \cap P = {}
  <2>1. ~IsSet(e) /\ R \cap (P \cup {a}) = {a}
    BY <1>1 DEF FirstRefusedOf
  <2>2. QED
    BY <2>1 DEF FirstRefusedOf
<1>2. CASE R \cap P # {}
  <2>1. /\ e = [kind |-> "dnc", at |-> e.at]
        /\ e.at \in R \cap P
        /\ \A b \in (R \cap P) \ {e.at} : Before(e.at, b)
    BY <1>2 DEF FirstRefusedOf
  <2>2. IsSet(e)
    BY <2>1
  <2>3. Before(e.at, a) /\ e.at # a
    BY <2>1
  <2>4. QED
    BY <1>2, <2>1, <2>2, <2>3 DEF FirstRefusedOf
<1>3. QED
  BY <1>1, <1>2
-----------------------------------------------------------------------------
(***************************************************************************)
(* The invariant holds initially and after Parse.                         *)
(***************************************************************************)

LEMMA InitResultInv == Init => ResultInv
<1> SUFFICES ASSUME Init PROVE ResultInv
  OBVIOUS
<1>1. TypeOK
  BY DEF Init, TypeOK
<1>2. QED
  BY <1>1 DEF Init, ResultInv, ParseInv, ScanInv, OutInv, ListenResult

LEMMA ParseStep ==
  ASSUME ResultInv, Parse
  PROVE  ResultInv'
<1>0. /\ TypeOK /\ ~server /\ error = NoError /\ firstErr = NoError
      /\ ~handledOnce /\ pc = "parse" /\ i = 1 /\ j = 1
      /\ server \in BOOLEAN /\ handledOnce \in BOOLEAN
      /\ UNCHANGED <<parseOk, len, outcome, errorPtr, i, j, server, firstErr,
                     handledOnce, liveErrs>>
  BY DEF ResultInv, ParseInv, Parse, TypeOK
<1>1. CASE parseOk /\ len > 0
  <2>1. pc' = "scan" /\ error' = error /\ entries' = "live"
    BY <1>1 DEF Parse
  <2>2. TypeOK'
    BY <1>0, <1>1, <2>1 DEF TypeOK
  <2>3. Scanned' = {}
    BY <1>0, FirstPosition DEF Scanned, TypeOK
  <2>4. ScanInv'
    BY <1>0, <1>1, <2>1, <2>3 DEF ScanInv, NoDecidingIn, FirstRefusedOf
  <2>5. QED
    BY <2>1, <2>2, <2>4 DEF ResultInv, ParseInv, OutInv, ListenResult
<1>2. CASE parseOk /\ ~(len > 0)
  <2>1. pc' = "out" /\ error' = error /\ entries' = "live"
    BY <1>2 DEF Parse
  <2>2. TypeOK'
    BY <1>0, <2>1 DEF TypeOK
  <2>3. len = 0
    BY <1>0, <1>2 DEF TypeOK
  <2>4. Attempts' = {} /\ Deciding' = {} /\ Refused' = {}
    BY <1>0, <2>3 DEF Deciding, Refused
  <2>5. EndedAll'
    <3>1. FirstRefusedOf(firstErr, Refused, Attempts)'
      BY <1>0, <2>4 DEF FirstRefusedOf
    <3>2. QED
      BY <1>0, <2>1, <2>4, <3>1 DEF EndedAll
  <2>6. OutInv'
    BY <1>2, <1>0, <2>1, <2>4, <2>5 DEF OutInv
  <2>7. QED
    BY <2>1, <2>2, <2>6 DEF ResultInv, ParseInv, ScanInv, ListenResult
<1>3. CASE ~parseOk
  <2>1. /\ pc' = "done" /\ entries' = entries
        /\ error' = IF errorPtr THEN [kind |-> "parse", at |-> NoAt] ELSE NoError
    BY <1>3 DEF Parse
  <2>2. TypeOK'
    BY <1>0, <2>1 DEF TypeOK
  <2>3. ~ExpectedServer'
    BY <1>0, <1>3 DEF ExpectedServer
  <2>4. ExpectedError' = IF errorPtr THEN [kind |-> "parse", at |-> NoAt]
                         ELSE NoError
    BY <1>0, <1>3, <2>3 DEF ExpectedError
  <2>5. ListenResult'
    <3>1. server' = ExpectedServer'
      BY <1>0, <1>3 DEF ExpectedServer
    <3>2. error' = ExpectedError'
      BY <2>1, <2>4, <1>0
    <3>3. QED
      BY <3>1, <3>2 DEF ListenResult
  <2>6. QED
    BY <2>1, <2>2, <2>5 DEF ResultInv, ParseInv, ScanInv, OutInv
<1>4. QED
  BY <1>1, <1>2, <1>3
\* The two for loops either move to the next attempt, which extends the
\* scanned prefix by the attempt just made, or leave after the last one.
LEMMA AdvanceStep ==
  ASSUME TypeOK, pc = "scan", Advance, len' = len
  PROVE  \/ /\ pc' = "scan" /\ <<i, j>>' \in Attempts
             /\ Scanned' = Scanned \cup {<<i, j>>}
         \/ /\ pc' = "out" /\ i' = i /\ j' = j
             /\ Attempts = Scanned \cup {<<i, j>>}
<1>0. len \in Nat /\ i \in 1..len /\ j \in Backends
  BY DEF TypeOK
<1>1. CASE j < NumBackends \/ i < len
  <2>1. /\ pc' = "scan"
        /\ \/ j < NumBackends /\ i' = i /\ j' = j + 1
           \/ ~(j < NumBackends) /\ i < len /\ i' = i + 1 /\ j' = 1
    BY <1>1 DEF Advance
  <2>2. i' \in Int /\ j' \in Int
    BY <1>0, <2>1
  <2>3. /\ <<i', j'>> \in Attempts
        /\ \A a \in Attempts : Before(a, <<i', j'>>) <=> Before(a, <<i, j>>) \/ a = <<i, j>>
    BY <1>0, <2>1, <2>2, NextPosition
  <2>4. Scanned' = Scanned \cup {<<i, j>>}
    BY <1>0, <2>3 DEF Scanned
  <2>5. QED
    BY <2>1, <2>3, <2>4
<1>2. CASE ~(j < NumBackends \/ i < len)
  <2>1. pc' = "out" /\ i' = i /\ j' = j
    BY <1>2 DEF Advance
  <2>2. \A a \in Attempts : Before(a, <<i, j>>) \/ a = <<i, j>>
    BY <1>0, <1>2, LastPosition
  <2>3. Attempts = Scanned \cup {<<i, j>>}
    BY <1>0, <2>2 DEF Scanned
  <2>4. QED
    BY <2>1, <2>3
<1>3. QED
  BY <1>1, <1>2

\* What the loop body and its answer leave as they were.
AttemptFrame ==
  /\ parseOk' = parseOk /\ len' = len /\ outcome' = outcome
  /\ errorPtr' = errorPtr /\ entries' = entries

LEMMA AttemptStep ==
  ASSUME ResultInv, Attempt
  PROVE  ResultInv'
<1> DEFINE a == <<i, j>>
<1>0. /\ TypeOK /\ pc = "scan" /\ parseOk /\ ~server /\ error = NoError
      /\ NoDecidingIn(Scanned)
      /\ FirstRefusedOf(firstErr, Refused, Scanned)
      /\ handledOnce = (Refused \cap Scanned # {})
      /\ a \in Attempts /\ a \in AllAttempts
      /\ server \in BOOLEAN /\ handledOnce \in BOOLEAN
      /\ AttemptFrame
  BY DEF ResultInv, ScanInv, Attempt, AttemptFrame, TypeOK
<1>1. /\ a \notin Scanned
      /\ \A b \in Scanned : Before(b, a)
      /\ Scanned \subseteq Int \X Int /\ Refused \subseteq Int \X Int
  BY <1>0, BeforeTotal DEF Scanned, Refused
<1>2. /\ Attempts' = Attempts /\ Deciding' = Deciding /\ Refused' = Refused
      /\ ExpectedServer' = ExpectedServer /\ ExpectedError' = ExpectedError
  BY <1>0 DEF AttemptFrame, Deciding, Refused, ExpectedServer, ExpectedError
<1>3. CASE /\ outcome[a] = "OK"
           /\ server' = TRUE /\ handledOnce' = TRUE /\ pc' = "out"
           /\ UNCHANGED <<i, j, error, firstErr, liveErrs>>
  <2>1. TypeOK'
    BY <1>0, <1>3 DEF TypeOK, AttemptFrame
  <2>2. Scanned' = Scanned /\ a \in Deciding
    BY <1>0, <1>2, <1>3 DEF Scanned, Deciding
  <2>3. EndedAt'
    BY <1>0, <1>2, <1>3, <2>2 DEF EndedAt, NoDecidingIn, FirstRefusedOf,
       AttemptFrame
  <2>4. OutInv'
    BY <1>0, <1>2, <1>3, <2>2, <2>3 DEF OutInv, AttemptFrame
  <2>5. QED
    BY <1>3, <2>1, <2>4 DEF ResultInv, ParseInv, ScanInv, ListenResult
<1>4. CASE /\ outcome[a] = "BAD_ADDRESS"
           /\ MoveToCaller([kind |-> "bad", at |-> a])
           /\ handledOnce' = TRUE /\ pc' = "out"
           /\ UNCHANGED <<i, j, server, firstErr>>
  <2>1. /\ error' = IF errorPtr THEN [kind |-> "bad", at |-> a] ELSE NoError
        /\ liveErrs' \subseteq liveErrs
    BY <1>4 DEF MoveToCaller
  <2>2. TypeOK'
    BY <1>0, <1>4, <2>1 DEF TypeOK, AttemptFrame
  <2>3. Scanned' = Scanned /\ a \in Deciding
    BY <1>0, <1>2, <1>4 DEF Scanned, Deciding
  <2>4. EndedAt'
    BY <1>0, <1>2, <1>4, <2>1, <2>3 DEF EndedAt, NoDecidingIn, FirstRefusedOf,
       AttemptFrame
  <2>5. OutInv'
    BY <1>0, <1>2, <1>4, <2>3, <2>4 DEF OutInv, AttemptFrame
  <2>6. QED
    BY <1>4, <2>2, <2>5 DEF ResultInv, ParseInv, ScanInv, ListenResult
<1>5. CASE /\ outcome[a] = "NOT_HANDLED"
           /\ Advance
           /\ UNCHANGED <<server, error, firstErr, handledOnce, liveErrs>>
  <2>1. a \notin Refused /\ outcome[a] \in {"NOT_HANDLED", "DID_NOT_CONNECT"}
    BY <1>5 DEF Refused
  <2>2. /\ NoDecidingIn(Scanned \cup {a})
        /\ FirstRefusedOf(firstErr, Refused, Scanned \cup {a})
        /\ handledOnce = (Refused \cap (Scanned \cup {a}) # {})
    BY <1>0, <2>1, FirstRefusedSkip DEF NoDecidingIn
  <2>3. CASE pc' = "scan" /\ a' \in Attempts /\ Scanned' = Scanned \cup {a}
    <3>1. TypeOK'
      BY <1>0, <1>5, <2>3 DEF TypeOK, AttemptFrame
    <3>2. ScanInv'
      BY <1>0, <1>2, <1>5, <2>2, <2>3 DEF ScanInv, NoDecidingIn, AttemptFrame
    <3>3. QED
      BY <2>3, <3>1, <3>2 DEF ResultInv, ParseInv, OutInv, ListenResult
  <2>4. CASE pc' = "out" /\ i' = i /\ j' = j /\ Attempts = Scanned \cup {a}
    <3>1. TypeOK'
      BY <1>0, <1>5, <2>4 DEF TypeOK, AttemptFrame
    <3>2. /\ Deciding = {}
          /\ Refused \cap (Scanned \cup {a}) = Refused
      BY <2>2, <2>4 DEF NoDecidingIn, Deciding, Refused
    <3>3. EndedAll'
      <4>1. FirstRefusedOf(firstErr, Refused, Attempts)
        BY <2>2, <2>4
      <4>2. QED
        BY <1>0, <1>2, <1>5, <2>2, <3>2, <4>1 DEF EndedAll, FirstRefusedOf
    <3>4. OutInv'
      BY <1>0, <1>2, <2>4, <3>2, <3>3 DEF OutInv, AttemptFrame
    <3>5. QED
      BY <2>4, <3>1, <3>4 DEF ResultInv, ParseInv, ScanInv, ListenResult
  <2>5. QED
    BY <1>0, <1>5, <2>3, <2>4, AdvanceStep DEF AttemptFrame
<1>6. CASE /\ outcome[a] = "DID_NOT_CONNECT"
           /\ KeepFirstError(a)
           /\ handledOnce' = TRUE
           /\ Advance
           /\ UNCHANGED <<server, error>>
  <2>0. /\ firstErr' = IF IsSet(firstErr) THEN firstErr
                       ELSE [kind |-> "dnc", at |-> a]
        /\ liveErrs' \subseteq liveErrs \cup {a}
    BY <1>6 DEF KeepFirstError
  <2>1. a \in Refused
    BY <1>0, <1>6 DEF Refused
  <2>2. /\ NoDecidingIn(Scanned \cup {a})
        /\ FirstRefusedOf(firstErr', Refused, Scanned \cup {a})
        /\ Refused \cap (Scanned \cup {a}) # {}
    <3>1. NoDecidingIn(Scanned \cup {a})
      BY <1>0, <1>6 DEF NoDecidingIn
    <3>2. FirstRefusedOf(firstErr', Refused, Scanned \cup {a})
      BY <1>0, <1>1, <2>0, <2>1, FirstRefusedAdd
    <3>3. QED
      BY <2>1, <3>1, <3>2
  <2>3. firstErr' \in Errors
    BY <1>0, <2>0 DEF TypeOK
  <2>4. CASE pc' = "scan" /\ a' \in Attempts /\ Scanned' = Scanned \cup {a}
    <3>1. TypeOK'
      BY <1>0, <1>6, <2>0, <2>3, <2>4 DEF TypeOK, AttemptFrame
    <3>2. ScanInv'
      BY <1>0, <1>2, <1>6, <2>2, <2>4 DEF ScanInv, AttemptFrame, NoDecidingIn,
         FirstRefusedOf
    <3>3. QED
      BY <2>4, <3>1, <3>2 DEF ResultInv, ParseInv, OutInv, ListenResult
  <2>5. CASE pc' = "out" /\ i' = i /\ j' = j /\ Attempts = Scanned \cup {a}
    <3>1. TypeOK'
      BY <1>0, <1>6, <2>0, <2>3, <2>5 DEF TypeOK, AttemptFrame
    <3>2. Deciding = {} /\ Refused # {}
      BY <2>1, <2>2, <2>5 DEF NoDecidingIn, Deciding, Refused
    <3>3. EndedAll'
      BY <1>0, <1>2, <1>6, <2>2, <2>5, <3>2 DEF EndedAll, FirstRefusedOf
    <3>4. OutInv'
      BY <1>0, <1>2, <2>5, <3>2, <3>3 DEF OutInv, AttemptFrame
    <3>5. QED
      BY <2>5, <3>1, <3>4 DEF ResultInv, ParseInv, ScanInv, ListenResult
  <2>6. QED
    BY <1>0, <1>6, <2>4, <2>5, AdvanceStep DEF AttemptFrame
<1>7. QED
  BY <1>3, <1>4, <1>5, <1>6 DEF Attempt
(***************************************************************************)
(* The label out: when the scan stopped at a deciding attempt, that is    *)
(* the first deciding one; when it ran through, the remembered refusal is *)
(* the first one, and the "unknown"/"empty" error is set exactly when no *)
(* backend handled the address.                                          *)
(***************************************************************************)
LEMMA OutStep ==
  ASSUME ResultInv, Out
  PROVE  ResultInv'
<1> DEFINE err == IF ~handledOnce /\ errorPtr
                    THEN [kind |-> IF len > 0 THEN "unknown" ELSE "empty",
                          at |-> NoAt]
                    ELSE error
           moved == ~server /\ ~(errorPtr /\ IsSet(err))
<1>0. /\ TypeOK /\ pc = "out" /\ parseOk
      /\ server \in BOOLEAN /\ handledOnce \in BOOLEAN /\ errorPtr \in BOOLEAN
      /\ IF Deciding # {} THEN EndedAt ELSE EndedAll
      /\ pc' = "done" /\ entries' = "freed"
      /\ error' = IF moved THEN IF errorPtr THEN firstErr ELSE NoError ELSE err
      /\ firstErr' = IF moved THEN NoError ELSE firstErr
      /\ liveErrs' \subseteq liveErrs
      /\ UNCHANGED <<parseOk, len, outcome, errorPtr, i, j, server, handledOnce>>
  BY DEF ResultInv, OutInv, Out, MoveToCaller, TypeOK
<1>1. /\ Deciding' = Deciding /\ Refused' = Refused
      /\ ExpectedServer' = ExpectedServer /\ ExpectedError' = ExpectedError
  BY <1>0 DEF Deciding, Refused, ExpectedServer, ExpectedError
<1>2. Deciding \subseteq Int \X Int /\ Refused \subseteq Int \X Int
  BY <1>0 DEF Deciding, Refused, TypeOK
<1>3. ASSUME Deciding # {}
      PROVE  error' = ExpectedError
  <2>1. EndedAt
    BY <1>0, <1>3
  <2>2. FirstOf(Deciding) = <<i, j>>
    <3>1. \A b \in Deciding \ {<<i, j>>} : Before(<<i, j>>, b)
      BY <2>1, BeforeTotal DEF EndedAt, NoDecidingIn, Deciding, Scanned
    <3>2. QED
      BY <1>2, <2>1, <3>1, FirstOfIs DEF EndedAt
  <2>3. ExpectedServer = (outcome[<<i, j>>] = "OK")
    BY <1>0, <1>3, <2>2 DEF ExpectedServer
  <2>4. CASE outcome[<<i, j>>] = "OK"
    BY <1>0, <2>1, <2>3, <2>4 DEF EndedAt, ExpectedError
  <2>5. CASE outcome[<<i, j>>] # "OK"
    <3>1. outcome[<<i, j>>] = "BAD_ADDRESS" /\ ~server /\ ~ExpectedServer
      BY <2>1, <2>3, <2>5 DEF EndedAt, Deciding
    <3>2. CASE errorPtr
      BY <1>0, <1>3, <2>1, <2>2, <3>1, <3>2 DEF EndedAt, ExpectedError
    <3>3. CASE ~errorPtr
      BY <1>0, <2>1, <3>1, <3>3 DEF EndedAt, ExpectedError
    <3>4. QED
      BY <1>0, <3>2, <3>3
  <2>6. QED
    BY <2>4, <2>5
<1>4. ASSUME Deciding = {}
      PROVE  error' = ExpectedError
  <2>1. EndedAll /\ ~ExpectedServer /\ ~server
    BY <1>0, <1>4 DEF ExpectedServer, EndedAll
  <2>2. Refused \subseteq Attempts
    BY DEF Refused
  <2>3. CASE ~errorPtr
    BY <1>0, <2>1, <2>3 DEF EndedAll, ExpectedError
  <2>4. CASE errorPtr /\ ~handledOnce
    <3>1. Refused = {}
      BY <2>1, <2>4 DEF EndedAll
    <3>2. QED
      BY <1>0, <1>4, <2>1, <2>4, <3>1 DEF EndedAll, ExpectedError
  <2>5. CASE errorPtr /\ handledOnce
    <3>1. Refused # {} /\ error = NoError
      BY <2>1, <2>5 DEF EndedAll
    <3>2. /\ firstErr = [kind |-> "dnc", at |-> firstErr.at]
          /\ firstErr.at \in Refused
          /\ \A b \in Refused \ {firstErr.at} : Before(firstErr.at, b)
      BY <2>1, <2>2, <3>1 DEF EndedAll, FirstRefusedOf
    <3>3. FirstOf(Refused) = firstErr.at
      BY <1>2, <3>2, FirstOfIs
    <3>4. error' = firstErr
      BY <1>0, <2>1, <2>5, <3>1
    <3>5. QED
      BY <1>0, <1>4, <2>1, <2>5, <3>1, <3>2, <3>3, <3>4 DEF ExpectedError
  <2>6. QED
    BY <1>0, <2>3, <2>4, <2>5
<1>5. server = ExpectedServer
  <2>1. CASE Deciding # {}
    <3>1. server = (outcome[<<i, j>>] = "OK")
      BY <1>0, <2>1 DEF EndedAt
    <3>2. ExpectedServer = (outcome[<<i, j>>] = "OK")
      <4>1. FirstOf(Deciding) = <<i, j>>
        <5>1. EndedAt
          BY <1>0, <2>1
        <5>2. \A b \in Deciding \ {<<i, j>>} : Before(<<i, j>>, b)
          BY <5>1, BeforeTotal DEF EndedAt, NoDecidingIn, Deciding, Scanned
        <5>3. QED
          BY <1>2, <5>1, <5>2, FirstOfIs DEF EndedAt
      <4>2. QED
        BY <1>0, <2>1, <4>1 DEF ExpectedServer
    <3>3. QED
      BY <3>1, <3>2
  <2>2. CASE Deciding = {}
    <3>1. ~server /\ ~ExpectedServer
      BY <1>0, <2>2 DEF ExpectedServer, EndedAll
    <3>2. QED
      BY <1>0, <3>1 DEF ExpectedServer
  <2>3. QED
    BY <2>1, <2>2
<1>9. error' = ExpectedError
  BY <1>3, <1>4
<1>6. ListenResult'
  BY <1>0, <1>1, <1>5, <1>9 DEF ListenResult
<1>7. TypeOK'
  <2>1. err \in Errors
    BY <1>0 DEF TypeOK
  <2>2. QED
    BY <1>0, <2>1 DEF TypeOK
<1>8. QED
  BY <1>0, <1>6, <1>7 DEF ResultInv, ParseInv, ScanInv, OutInv

\* Every step keeps the invariant.
THEOREM NextResultInv == ResultInv /\ [Next]_vars => ResultInv'
<1> SUFFICES ASSUME ResultInv, [Next]_vars PROVE ResultInv'
  OBVIOUS
<1>1. CASE UNCHANGED vars
  <2>1. /\ Scanned' = Scanned /\ Attempts' = Attempts
        /\ Deciding' = Deciding /\ Refused' = Refused
    BY <1>1 DEF vars, Scanned, Deciding, Refused
  <2>2. NoDecidingIn(Scanned)' = NoDecidingIn(Scanned)
    BY <1>1, <2>1 DEF vars, NoDecidingIn
  <2>3. /\ TypeOK' /\ ParseInv' /\ ScanInv'
    BY <1>1, <2>1, <2>2 DEF vars, ResultInv, TypeOK, ParseInv, ScanInv,
       FirstRefusedOf
  <2>4. OutInv'
    BY <1>1, <2>1, <2>2 DEF vars, ResultInv, OutInv, EndedAt, EndedAll,
       FirstRefusedOf
  <2>5. ListenResult'
    BY <1>1, <2>1 DEF vars, ResultInv, ListenResult, ExpectedServer,
       ExpectedError
  <2>6. QED
    BY <2>3, <2>4, <2>5 DEF ResultInv
<1>2. CASE Done
  BY <1>1, <1>2 DEF Done
<1>3. QED
  BY <1>1, <1>2, ParseStep, AttemptStep, OutStep DEF Next

(***************************************************************************)
(* For every number of address entries and listener backends, whether or *)
(* not the caller passes an error location, and whatever each backend    *)
(* answers: when dbus_server_listen returns, it has a server exactly when *)
(* the first deciding backend answer is OK, and the error it sets is the *)
(* one the documented precedence selects (ListenResult). ResultInv is    *)
(* the loop invariant of the two nested for loops that makes this        *)
(* inductive.                                                             *)
(***************************************************************************)
THEOREM ListenCorrect == Spec => [](TypeOK /\ ListenResult)
<1>1. Init => ResultInv
  BY InitResultInv
<1>2. ResultInv /\ [Next]_vars => ResultInv'
  BY NextResultInv
<1>3. ResultInv => TypeOK /\ ListenResult
  BY DEF ResultInv
<1>4. QED
  BY <1>1, <1>2, <1>3, PTL DEF Spec
====
