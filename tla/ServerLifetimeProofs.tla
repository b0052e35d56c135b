------------------------ MODULE ServerLifetimeProofs ------------------------
(***************************************************************************)
(* The lifetime of a DBusServer for every instance in which               *)
(* _dbus_dup_string_array never fails: finalize runs only on an           *)
(* unreachable, disconnected object and nobody touches it afterwards, and *)
(* the server refines the abstract lifecycle of Lifecycle.tla step by     *)
(* step.                                                                   *)
(***************************************************************************)
EXTENDS ServerSafetyProofs, FiniteSetTheorems

(***************************************************************************)
(* RefcountAccounting, with the token set finite, is what the count needs  *)
(* (so that when one thread drops the count from 1 to 0 no other thread   *)
(* owns a reference). A thread inside a server call owns one of its own   *)
(* (it started the call through CanCall and cannot unref until it         *)
(* returns), and a finalize always returns to idle.                       *)
(***************************************************************************)
InCallOwns ==
  \A t \in Threads : pc[t] \notin {"idle"} \cup FinalizePcs => held[t] >= 1

FinalizeToIdle ==
  \A t \in Threads : pc[t] \in FinalizePcs => ret[t] = "idle"

LifeInv ==
  IsFiniteSet(RefTokens) /\ RefcountAccounting /\ InCallOwns /\ FinalizeToIdle /\ LifetimeSafe

-----------------------------------------------------------------------------
(***************************************************************************)
(* Counting references by tokens.                                          *)
(***************************************************************************)

\* Every thread owns a natural number of references.
LEMMA ThreadRefsNat ==
  ASSUME TypeOK, NEW t \in Threads
  PROVE  ThreadRefs(t) \in Nat
BY DEF TypeOK, ThreadRefs, InWindow

\* A thread's own references are among those it owns.
LEMMA HeldBelowRefs ==
  ASSUME TypeOK, NEW t \in Threads
  PROVE  held[t] \in Nat /\ held[t] <= ThreadRefs(t)
BY DEF TypeOK, ThreadRefs, InWindow

\* A token is a thread and the number of one of its references.
LEMMA TokenMember ==
  ASSUME NEW y
  PROVE  y \in RefTokens <=>
           \E u \in Threads : \E i \in 1..ThreadRefs(u) : y = <<u, i>>
BY DEF RefTokens

(***************************************************************************)
(* A step in which thread t takes one more reference and the count goes   *)
(* up by one keeps the count equal to the number of tokens.                *)
(***************************************************************************)
LEMMA TokensUp ==
  ASSUME NEW t \in Threads, NEW n \in Nat,
         ThreadRefs(t) = n, ThreadRefs(t)' = n + 1,
         \A u \in Threads \ {t} : ThreadRefs(u)' = ThreadRefs(u),
         IsFiniteSet(RefTokens), RefcountAccounting,
         refcount' = refcount + 1
  PROVE  IsFiniteSet(RefTokens') /\ RefcountAccounting'
<1> DEFINE x == <<t, n + 1>>
<1>1. \A y : y \in RefTokens' <=> y \in RefTokens \/ y = x
  <2> SUFFICES ASSUME NEW y
               PROVE  y \in RefTokens' <=> y \in RefTokens \/ y = x
    OBVIOUS
  <2>1. y \in RefTokens' <=>
          \E u \in Threads : \E i \in 1..ThreadRefs(u)' : y = <<u, i>>
    BY DEF RefTokens
  <2>2. QED
    BY <2>1, TokenMember
<1>2. RefTokens' = RefTokens \cup {x}
  BY <1>1
<1>3. x \notin RefTokens
  BY TokenMember
<1>4. QED
  BY <1>2, <1>3, FS_AddElement DEF RefcountAccounting

\* The same for a step in which t drops one reference and the count one.
LEMMA TokensDown ==
  ASSUME NEW t \in Threads, NEW n \in Nat \ {0},
         ThreadRefs(t) = n, ThreadRefs(t)' = n - 1,
         \A u \in Threads \ {t} : ThreadRefs(u)' = ThreadRefs(u),
         IsFiniteSet(RefTokens), RefcountAccounting,
         refcount' = refcount - 1
  PROVE  IsFiniteSet(RefTokens') /\ RefcountAccounting'
<1> DEFINE x == <<t, n>>
<1>1. \A y : y \in RefTokens' <=> y \in RefTokens /\ y # x
  <2> SUFFICES ASSUME NEW y
               PROVE  y \in RefTokens' <=> y \in RefTokens /\ y # x
    OBVIOUS
  <2>1. y \in RefTokens' <=>
          \E u \in Threads : \E i \in 1..ThreadRefs(u)' : y = <<u, i>>
    BY DEF RefTokens
  <2>2. QED
    BY <2>1, TokenMember
<1>2. RefTokens' = RefTokens \ {x}
  BY <1>1
<1>3. x \in RefTokens
  BY TokenMember
<1>4. QED
  BY <1>2, <1>3, FS_RemoveElement DEF RefcountAccounting

\* And for a step that changes no thread's references and not the count.
LEMMA TokensSame ==
  ASSUME \A u \in Threads : ThreadRefs(u)' = ThreadRefs(u),
         IsFiniteSet(RefTokens), RefcountAccounting, refcount' = refcount
  PROVE  IsFiniteSet(RefTokens') /\ RefcountAccounting'
<1>1. RefTokens' = RefTokens
  BY DEF RefTokens
<1>2. QED
  BY <1>1 DEF RefcountAccounting

\* A count of zero means that no thread owns a reference.
LEMMA TokensZero ==
  ASSUME TypeOK, IsFiniteSet(RefTokens), RefcountAccounting, refcount = 0,
         NEW u \in Threads
  PROVE  ThreadRefs(u) = 0
<1>1. RefTokens = {}
  BY FS_EmptySet DEF RefcountAccounting
<1>2. ThreadRefs(u) >= 1 => <<u, 1>> \in RefTokens
  BY TokenMember
<1>3. ThreadRefs(u) \in Nat
  BY ThreadRefsNat
<1>4. QED
  BY <1>1, <1>2, <1>3

(***************************************************************************)
(* A count of one, with a reference owned by thread t, means that it is t's *)
(* only reference and that no other thread owns one.                      *)
(***************************************************************************)
LEMMA TokensOne ==
  ASSUME TypeOK, IsFiniteSet(RefTokens), RefcountAccounting, refcount = 1,
         NEW t \in Threads, ThreadRefs(t) >= 1
  PROVE  /\ ThreadRefs(t) = 1
         /\ \A u \in Threads \ {t} : ThreadRefs(u) = 0
<1>1. PICK x : RefTokens = {x}
  BY FS_Singleton DEF RefcountAccounting
<1>2. <<t, 1>> \in RefTokens /\ <<t, ThreadRefs(t)>> \in RefTokens
  BY ThreadRefsNat, TokenMember
<1>3. ThreadRefs(t) = 1
  BY <1>1, <1>2
<1>4. ASSUME NEW u \in Threads \ {t} PROVE ThreadRefs(u) = 0
  <2>1. ThreadRefs(u) >= 1 => <<u, 1>> \in RefTokens
    BY TokenMember
  <2>2. QED
    BY <1>1, <1>2, <2>1, ThreadRefsNat
<1>5. QED
  BY <1>3, <1>4

-----------------------------------------------------------------------------
USE DEF LockedPcs, RetPcs, WindowPcs, FinalizePcs, Goto, CanCall, LockFree,
        FreshData, Reg, Items, Ops, Pcs, Arg, NoArg, DisconnectPcs

\* A step that leaves the other threads' places and references alone leaves
\* their reference counts alone.
LEMMA RefsOthers ==
  ASSUME NEW t \in Threads,
         \A u \in Threads \ {t} : /\ pc'[u] = pc[u] /\ ret'[u] = ret[u]
                                  /\ held'[u] = held[u]
  PROVE  \A u \in Threads \ {t} : ThreadRefs(u)' = ThreadRefs(u)
BY DEF ThreadRefs, InWindow

(***************************************************************************)
(* While a thread owns a reference nobody is finalizing and the server is  *)
(* not finalized; so a step of such a thread that enters no finalize step *)
(* and takes no one's reference keeps LifeInv, once the count is right.   *)
(***************************************************************************)
LEMMA CallStep ==
  ASSUME TypeOK, TypeOK', LifeInv, NEW t \in Threads, held[t] >= 1,
         finalized' = finalized,
         \A u \in Threads \ {t} : /\ pc'[u] = pc[u] /\ ret'[u] = ret[u]
                                  /\ held'[u] >= held[u],
         pc'[t] \notin FinalizePcs,
         pc'[t] \notin {"idle"} \cup FinalizePcs => held'[t] >= 1,
         IsFiniteSet(RefTokens'), RefcountAccounting'
  PROVE  LifeInv'
<1>1. ~finalized /\ \A u \in Threads : pc[u] \notin FinalizePcs
  BY DEF LifeInv, LifetimeSafe, TypeOK
<1>2. InCallOwns'
  BY <1>1 DEF LifeInv, InCallOwns, TypeOK
<1>3. FinalizeToIdle' /\ LifetimeSafe'
  BY <1>1 DEF FinalizeToIdle, LifetimeSafe
<1>4. QED
  BY <1>2, <1>3 DEF LifeInv

(***************************************************************************)
(* A finalize step of thread t: the others are idle and own nothing, the   *)
(* count is zero, and t either stays in finalize or, at FinFree, marks    *)
(* the object released and returns to idle.                               *)
(***************************************************************************)
LEMMA FinStep ==
  ASSUME TypeOK, LifeInv, NEW t \in Threads, pc[t] \in FinalizePcs,
         held' = held, refcount' = refcount, disconnected' = disconnected,
         lockOwner' = lockOwner, ret' = ret,
         \A u \in Threads \ {t} : pc'[u] = pc[u],
         \/ pc'[t] \in FinalizePcs /\ finalized' = finalized
         \/ pc'[t] = ret[t] /\ finalized' = TRUE
  PROVE  LifeInv'
<1>1. ret[t] = "idle" /\ ~finalized
  BY DEF LifeInv, FinalizeToIdle, LifetimeSafe
<1>2. \A u \in Threads : ThreadRefs(u)' = ThreadRefs(u)
  BY <1>1 DEF ThreadRefs, InWindow, TypeOK
<1>3. IsFiniteSet(RefTokens') /\ RefcountAccounting'
  BY <1>2, TokensSame DEF LifeInv
<1>4. InCallOwns' /\ FinalizeToIdle'
  BY <1>1 DEF LifeInv, InCallOwns, FinalizeToIdle, LifetimeSafe
<1>5. LifetimeSafe'
  BY <1>1 DEF LifeInv, LifetimeSafe
<1>6. QED
  BY <1>3, <1>4, <1>5 DEF LifeInv

(***************************************************************************)
(* A step of t that changes no reference, no pc of another thread and no  *)
(* return point, and moves t only between steps outside finalize and the  *)
(* unlocked window, keeps LifeInv.                                        *)
(***************************************************************************)
StillStep(t) ==
  /\ pc[t] \notin FinalizePcs \cup WindowPcs
  /\ pc[t] = "idle" => held[t] >= 1
  /\ held' = held /\ refcount' = refcount /\ finalized' = finalized
  /\ ret' = ret
  /\ \A u \in Threads \ {t} : pc'[u] = pc[u]
  /\ pc'[t] \notin FinalizePcs \cup WindowPcs
  /\ pc'[t] \in DisconnectPcs <=> pc[t] \in DisconnectPcs

LEMMA QuietLife ==
  ASSUME TypeOK, TypeOK', LifeInv, NEW t \in Threads, StillStep(t)
  PROVE  LifeInv'
<1> USE DEF StillStep
<1>1. held[t] >= 1
  BY DEF LifeInv, InCallOwns
<1>2. \A u \in Threads : ThreadRefs(u)' = ThreadRefs(u)
  <2> SUFFICES ASSUME NEW u \in Threads PROVE ThreadRefs(u)' = ThreadRefs(u)
    OBVIOUS
  <2>1. CASE u = t
    BY <2>1 DEF ThreadRefs, InWindow
  <2>2. CASE u # t
    BY <2>2 DEF ThreadRefs, InWindow
  <2>3. QED
    BY <2>1, <2>2
<1>3. IsFiniteSet(RefTokens') /\ RefcountAccounting'
  BY <1>2, TokensSame DEF LifeInv
<1>4. /\ \A v \in Threads \ {t} : /\ pc'[v] = pc[v] /\ ret'[v] = ret[v]
                                  /\ held'[v] >= held[v]
      /\ pc'[t] \notin {"idle"} \cup FinalizePcs => held'[t] >= 1
      /\ pc'[t] \notin FinalizePcs
  BY <1>1 DEF TypeOK
<1>5. QED
  BY <1>1, <1>3, <1>4, CallStep

(***************************************************************************)
(* protected_change_*, entered by the backend (from idle) or by its        *)
(* disconnect method (holding disconnect's reference): the window takes   *)
(* one reference exactly when the list is attached.                       *)
(***************************************************************************)
LEMMA ProtectedChangeLife ==
  ASSUME TypeOK, TypeOK', LifeInv, NEW t \in Threads, NEW k \in Reg,
         NEW i, NEW op, NEW rp \in {"backend_done", "disc_watch_freed"},
         pc[t] = IF rp = "backend_done" THEN "idle" ELSE "disc_backend",
         held[t] >= 1, held' = held, finalized' = finalized,
         ProtectedChange(t, k, i, op, rp)
  PROVE  LifeInv'
<1>1. \A u \in Threads \ {t} : ThreadRefs(u)' = ThreadRefs(u)
  BY RefsOthers DEF ProtectedChange, TypeOK
<1>2. ThreadRefs(t) \in Nat
  BY ThreadRefsNat
<1>3. IsFiniteSet(RefTokens') /\ RefcountAccounting'
  <2>1. CASE attached[k]
    <3>1. ThreadRefs(t)' = ThreadRefs(t) + 1 /\ refcount' = refcount + 1
      BY <2>1 DEF ProtectedChange, ThreadRefs, InWindow, TypeOK
    <3>2. QED
      BY <1>1, <1>2, <3>1, TokensUp DEF LifeInv
  <2>2. CASE ~attached[k]
    <3>1. ThreadRefs(t)' = ThreadRefs(t) /\ refcount' = refcount
      BY <2>2 DEF ProtectedChange, ThreadRefs, InWindow, TypeOK
    <3>2. QED
      BY <1>1, <3>1, TokensSame DEF LifeInv
  <2>3. QED
    BY <2>1, <2>2
<1>4. /\ \A u \in Threads \ {t} : pc'[u] = pc[u] /\ ret'[u] = ret[u]
                                  /\ held'[u] >= held[u]
      /\ pc'[t] \notin {"idle"} \cup FinalizePcs
  BY DEF ProtectedChange, TypeOK
<1>5. QED
  BY <1>3, <1>4, CallStep

(***************************************************************************)
(* Every step keeps LifeInv, given the type and lock invariants.           *)
(***************************************************************************)
THEOREM NextLifeInv == IInv /\ LockInv /\ LifeInv /\ [Next]_vars => LifeInv'
<1> SUFFICES ASSUME IInv, LockInv, LifeInv, [Next]_vars PROVE LifeInv'
  OBVIOUS
<1>0. TypeOK'
  BY NextIInv DEF IInv
<1> USE <1>0 DEF IInv
<1>a. IsFiniteSet(RefTokens) /\ RefcountAccounting /\ InCallOwns
      /\ FinalizeToIdle /\ LifetimeSafe
  BY DEF LifeInv
<1>b. TypeOK
  OBVIOUS
<1>1. ASSUME NEW t \in Threads, NEW u \in Threads, Ref(t, u) PROVE LifeInv'
  <2>1. /\ ThreadRefs(u)' = ThreadRefs(u) + 1
        /\ \A v \in Threads \ {u} : ThreadRefs(v)' = ThreadRefs(v)
    BY <1>1 DEF Ref, ThreadRefs, InWindow, TypeOK
  <2>2. ThreadRefs(u) \in Nat /\ refcount' = refcount + 1
    BY <1>1, ThreadRefsNat DEF Ref
  <2>3. IsFiniteSet(RefTokens') /\ RefcountAccounting'
    BY <1>a, <2>1, <2>2, TokensUp
  <2>4. /\ held[t] >= 1 /\ finalized' = finalized
        /\ \A v \in Threads \ {t} : /\ pc'[v] = pc[v] /\ ret'[v] = ret[v]
                                    /\ held'[v] >= held[v]
        /\ pc'[t] \notin {"idle"} \cup FinalizePcs => held'[t] >= 1
        /\ pc'[t] \notin FinalizePcs
    BY <1>1 DEF Ref, TypeOK
  <2>5. QED
    BY <2>3, <2>4, CallStep
<1>2. ASSUME NEW t \in Threads, Unref(t) PROVE LifeInv'
  <2>1. /\ pc[t] = "idle" /\ held[t] >= 1 /\ refcount > 0
        /\ held[t] > 1 \/ disconnected
        /\ held' = [held EXCEPT ![t] = @ - 1]
        /\ refcount' = refcount - 1
        /\ pc'[t] \in {"fin_slots", "idle"}
        /\ \A u \in Threads \ {t} : pc'[u] = pc[u] /\ ret'[u] = ret[u]
        /\ UNCHANGED <<lockOwner, disconnected, finalized>>
    BY <1>2 DEF Unref, DropRef, TypeOK
  <2>2. /\ ThreadRefs(t) = held[t] /\ ThreadRefs(t)' = held[t] - 1
        /\ held[t] \in Nat \ {0}
    BY <2>1 DEF ThreadRefs, InWindow, TypeOK
  <2>3. \A u \in Threads \ {t} : ThreadRefs(u)' = ThreadRefs(u)
    BY <2>1, RefsOthers DEF TypeOK
  <2>4. IsFiniteSet(RefTokens') /\ RefcountAccounting'
    BY <1>a, <2>1, <2>2, <2>3, TokensDown
  <2>5. ~finalized /\ \A u \in Threads : pc[u] \notin FinalizePcs
    BY <1>a, <2>1 DEF LifetimeSafe, TypeOK
  <2>6. CASE refcount = 1
    <3>1. held[t] = 1 /\ \A u \in Threads \ {t} : ThreadRefs(u) = 0
      BY <1>a, <2>1, <2>2, <2>6, TokensOne
    <3>2. ASSUME NEW u \in Threads \ {t} PROVE held[u] = 0 /\ pc[u] = "idle"
      <4>1. held[u] = 0
        <5>1. ThreadRefs(u) = 0
          BY <3>1
        <5>2. QED
          BY <1>b, <5>1, HeldBelowRefs
      <4>2. QED
        BY <1>a, <2>5, <4>1 DEF InCallOwns
    <3>3. /\ pc'[t] = "fin_slots" /\ ret'[t] = "idle"
          /\ disconnected /\ lockOwner # t
      BY <1>2, <2>1, <2>6, <3>1 DEF Unref, DropRef, LockInv, TypeOK
    <3>4. \A u \in Threads : held'[u] = 0
      <4> SUFFICES ASSUME NEW u \in Threads PROVE held'[u] = 0
        OBVIOUS
      <4>1. CASE u = t
        BY <2>1, <3>1, <4>1 DEF TypeOK
      <4>2. CASE u # t
        BY <2>1, <3>2, <4>2 DEF TypeOK
      <4>3. QED
        BY <4>1, <4>2
    <3>5. InCallOwns' /\ FinalizeToIdle'
      BY <1>a, <2>1, <2>5, <3>3 DEF InCallOwns, FinalizeToIdle, TypeOK
    <3>6. LifetimeSafe'
      <4>1. \A u \in Threads \ {t} : pc'[u] = "idle"
        BY <2>1, <3>2
      <4>2. /\ refcount' = 0 /\ disconnected' /\ lockOwner' # t
            /\ ~finalized'
        BY <2>1, <2>5, <2>6, <3>3
      <4>3. \A u \in Threads : pc'[u] \in FinalizePcs => u = t
        BY <4>1
      <4>4. QED
        BY <3>4, <4>1, <4>2, <4>3 DEF LifetimeSafe
    <3>7. QED
      BY <2>4, <3>5, <3>6 DEF LifeInv
  <2>7. CASE refcount # 1
    <3>1. /\ pc'[t] = "idle"
          /\ \A u \in Threads \ {t} : held'[u] >= held[u]
      BY <1>2, <2>1, <2>7 DEF Unref, DropRef, TypeOK
    <3>2. QED
      BY <2>1, <2>4, <3>1, CallStep
  <2>8. QED
    BY <2>6, <2>7
<1>3. ASSUME NEW t \in Threads, BackendCall(t) PROVE LifeInv'
  <2>1. PICK k \in Reg, i \in Watches \cup Timeouts, op \in Ops :
              ProtectedChange(t, k, i, op, "backend_done")
    BY <1>3 DEF BackendCall, AddWatch, RemoveWatch, ToggleWatch,
                AddTimeout, RemoveTimeout, ToggleTimeout
  <2>2. pc[t] = "idle" /\ held[t] >= 1 /\ held' = held
        /\ finalized' = finalized
    BY <1>3 DEF BackendCall
  <2>3. QED
    BY <2>1, <2>2, ProtectedChangeLife
<1>4. ASSUME NEW t \in Threads, PcwCall(t) PROVE LifeInv'
  <2>1. held[t] >= 1
    BY <1>4, <1>a DEF PcwCall, InCallOwns
  <2>2. \A u \in Threads : ThreadRefs(u)' = ThreadRefs(u)
    BY <1>4 DEF PcwCall, ThreadRefs, InWindow, TypeOK
  <2>3. IsFiniteSet(RefTokens') /\ RefcountAccounting'
    BY <1>4, <1>a, <2>2, TokensSame DEF PcwCall
  <2>4. /\ finalized' = finalized
        /\ \A v \in Threads \ {t} : /\ pc'[v] = pc[v] /\ ret'[v] = ret[v]
                                    /\ held'[v] >= held[v]
        /\ pc'[t] \notin {"idle"} \cup FinalizePcs => held'[t] >= 1
        /\ pc'[t] \notin FinalizePcs
    BY <1>4, <2>1 DEF PcwCall, TypeOK
  <2>5. QED
    BY <2>1, <2>3, <2>4, CallStep
<1>5. ASSUME NEW t \in Threads, PcwRelock(t) PROVE LifeInv'
  <2>1. held[t] >= 1 /\ ret[t] \in {"backend_done", "disc_watch_freed"}
        /\ held[t] \in Nat
    BY <1>5, <1>a DEF PcwRelock, InCallOwns, LockInv, TypeOK
  <2>2. ThreadRefs(t) = held[t] + 1 + (IF ret[t] = "disc_watch_freed"
                                        THEN 1 ELSE 0)
    BY <1>5 DEF PcwRelock, ThreadRefs, InWindow
  <2>3. refcount # 1
    <3>1. ThreadRefs(t) >= 2
      BY <2>1, <2>2
    <3>2. SUFFICES ASSUME refcount = 1 PROVE FALSE
      OBVIOUS
    <3>3. ThreadRefs(t) >= 1
      BY <1>b, <3>1, ThreadRefsNat
    <3>4. IsFiniteSet(RefTokens) /\ RefcountAccounting
      BY <1>a
    <3>5. ThreadRefs(t) = 1
      BY <1>b, <3>2, <3>3, <3>4, TokensOne
    <3>6. QED
      BY <3>1, <3>5
  <2>4. /\ pc'[t] = ret[t] /\ refcount' = refcount - 1
        /\ \A u \in Threads \ {t} : pc'[u] = pc[u]
        /\ held' = held /\ ret' = ret /\ finalized' = finalized
    BY <1>5, <2>3 DEF PcwRelock, TypeOK
  <2>5. ThreadRefs(t)' = ThreadRefs(t) - 1
    <3>1. CASE ret[t] = "backend_done"
      <4>1. pc'[t] = "backend_done" /\ held'[t] = held[t]
        BY <2>4, <3>1
      <4>2. ThreadRefs(t)' = held[t] /\ ThreadRefs(t) = held[t] + 1
        BY <2>1, <2>2, <3>1, <4>1 DEF ThreadRefs, InWindow
      <4>3. QED
        BY <2>1, <4>2
    <3>2. CASE ret[t] = "disc_watch_freed"
      <4>1. pc'[t] = "disc_watch_freed" /\ held'[t] = held[t]
        BY <2>4, <3>2
      <4>2. ThreadRefs(t)' = held[t] + 1 /\ ThreadRefs(t) = held[t] + 2
        BY <2>1, <2>2, <3>2, <4>1 DEF ThreadRefs, InWindow
      <4>3. QED
        BY <2>1, <4>2
    <3>3. QED
      BY <2>1, <3>1, <3>2
  <2>6. \A u \in Threads \ {t} : ThreadRefs(u)' = ThreadRefs(u)
    BY <2>4, RefsOthers
  <2>7. ThreadRefs(t) \in Nat \ {0}
    BY <2>1, <2>2
  <2>8. IsFiniteSet(RefTokens') /\ RefcountAccounting'
    BY <1>a, <2>4, <2>5, <2>6, <2>7, TokensDown
  <2>9. /\ \A v \in Threads \ {t} : /\ pc'[v] = pc[v] /\ ret'[v] = ret[v]
                                    /\ held'[v] >= held[v]
        /\ pc'[t] \notin {"idle"} \cup FinalizePcs => held'[t] >= 1
        /\ pc'[t] \notin FinalizePcs
    BY <2>1, <2>4 DEF TypeOK
  <2>10. QED
    BY <2>1, <2>4, <2>8, <2>9, CallStep
<1>6. ASSUME NEW t \in Threads, Disconnect(t) PROVE LifeInv'
  <2>1. /\ ThreadRefs(t)' = ThreadRefs(t) + 1
        /\ refcount' = refcount + 1
    BY <1>6 DEF Disconnect, ThreadRefs, InWindow, TypeOK
  <2>2. \A u \in Threads \ {t} : ThreadRefs(u)' = ThreadRefs(u)
    BY <1>6, RefsOthers DEF Disconnect, TypeOK
  <2>3. ThreadRefs(t) \in Nat
    BY ThreadRefsNat
  <2>4. IsFiniteSet(RefTokens') /\ RefcountAccounting'
    BY <1>a, <2>1, <2>2, <2>3, TokensUp
  <2>5. /\ held[t] >= 1 /\ finalized' = finalized
        /\ \A v \in Threads \ {t} : /\ pc'[v] = pc[v] /\ ret'[v] = ret[v]
                                    /\ held'[v] >= held[v]
        /\ pc'[t] \notin {"idle"} \cup FinalizePcs => held'[t] >= 1
        /\ pc'[t] \notin FinalizePcs
    BY <1>6 DEF Disconnect, TypeOK
  <2>6. QED
    BY <2>4, <2>5, CallStep
<1>7. ASSUME NEW t \in Threads, DiscBackend(t) PROVE LifeInv'
  <2>1. held[t] >= 1 /\ pc[t] = "disc_backend"
    BY <1>7, <1>a DEF DiscBackend, InCallOwns
  <2>2. CASE live["watch"] # {}
    <3> DEFINE w == CHOOSE w \in live["watch"] : TRUE
    <3>1. ProtectedChange(t, "watch", w, "remove", "disc_watch_freed")
      BY <1>7, <2>2 DEF DiscBackend, RemoveWatch
    <3>2. held' = held /\ finalized' = finalized
      BY <1>7 DEF DiscBackend
    <3>3. QED
      BY <2>1, <3>1, <3>2, ProtectedChangeLife
  <2>3. CASE live["watch"] = {}
    <3>1. \A u \in Threads : ThreadRefs(u)' = ThreadRefs(u)
      BY <1>7, <2>3 DEF DiscBackend, ThreadRefs, InWindow, TypeOK
    <3>2. IsFiniteSet(RefTokens') /\ RefcountAccounting'
      BY <1>7, <1>a, <2>3, <3>1, TokensSame DEF DiscBackend
    <3>3. /\ finalized' = finalized
          /\ \A v \in Threads \ {t} : /\ pc'[v] = pc[v] /\ ret'[v] = ret[v]
                                      /\ held'[v] >= held[v]
          /\ pc'[t] \notin {"idle"} \cup FinalizePcs => held'[t] >= 1
          /\ pc'[t] \notin FinalizePcs
      BY <1>7, <2>1, <2>3 DEF DiscBackend, TypeOK
    <3>4. QED
      BY <2>1, <3>2, <3>3, CallStep
  <2>4. QED
    BY <2>2, <2>3
<1>8. ASSUME NEW t \in Threads, DiscUnref(t) PROVE LifeInv'
  <2>1. held[t] >= 1 /\ pc[t] = "disc_unref" /\ held[t] \in Nat
    BY <1>8, <1>a DEF DiscUnref, InCallOwns, TypeOK
  <2>2. ThreadRefs(t) = held[t] + 1
    BY <2>1 DEF ThreadRefs, InWindow
  <2>3. refcount # 1
    <3>1. ThreadRefs(t) >= 2
      BY <2>1, <2>2
    <3>2. SUFFICES ASSUME refcount = 1 PROVE FALSE
      OBVIOUS
    <3>3. ThreadRefs(t) >= 1
      BY <1>b, <3>1, ThreadRefsNat
    <3>4. IsFiniteSet(RefTokens) /\ RefcountAccounting
      BY <1>a
    <3>5. ThreadRefs(t) = 1
      BY <1>b, <3>2, <3>3, <3>4, TokensOne
    <3>6. QED
      BY <3>1, <3>5
  <2>4. /\ pc'[t] = "idle" /\ refcount' = refcount - 1
        /\ \A u \in Threads \ {t} : pc'[u] = pc[u] /\ ret'[u] = ret[u]
        /\ held' = held /\ finalized' = finalized
    BY <1>8, <2>3 DEF DiscUnref, DropRef, TypeOK
  <2>5. ThreadRefs(t)' = ThreadRefs(t) - 1
    <3>1. ThreadRefs(t)' = held[t]
      BY <2>1, <2>4 DEF ThreadRefs, InWindow
    <3>2. QED
      BY <2>1, <2>2, <3>1
  <2>6. \A u \in Threads \ {t} : ThreadRefs(u)' = ThreadRefs(u)
    BY <2>4, RefsOthers
  <2>7. ThreadRefs(t) \in Nat \ {0}
    BY <2>1, <2>2
  <2>8. IsFiniteSet(RefTokens') /\ RefcountAccounting'
    BY <1>a, <2>4, <2>5, <2>6, <2>7, TokensDown
  <2>9. \A v \in Threads \ {t} : held'[v] >= held[v]
    BY <2>4 DEF TypeOK
  <2>10. QED
    BY <2>1, <2>4, <2>8, <2>9, CallStep
<1>9. ASSUME NEW t \in Threads,
             \/ BackendDone(t) \/ DiscWatchFreed(t) \/ DiscUnlock(t)
             \/ SetNewConnectionFunction(t) \/ NcFree(t)
             \/ SetData(t) \/ DataFree(t)
             \/ SetWatchFunctions(t) \/ SetTimeoutFunctions(t)
             \/ SwfCall(t) \/ SwfRelock(t) \/ SetAuthMechanisms(t)
      PROVE  LifeInv'
  <2>1. StillStep(t)
    <3>1. CASE BackendDone(t)
      BY <3>1 DEF BackendDone, StillStep, TypeOK
    <3>2. CASE DiscWatchFreed(t)
      BY <3>2 DEF DiscWatchFreed, StillStep, TypeOK
    <3>3. CASE DiscUnlock(t)
      BY <3>3 DEF DiscUnlock, StillStep, TypeOK
    <3>4. CASE SetNewConnectionFunction(t)
      <4>1. /\ pc' = [pc EXCEPT ![t] = "nc_free"]
            /\ CanCall(t) /\ UNCHANGED <<held, refcount, finalized, ret>>
        BY <3>4 DEF SetNewConnectionFunction
      <4>2. /\ pc'[t] \in {pc[t], "nc_free"}
            /\ \A u \in Threads \ {t} : pc'[u] = pc[u]
        BY <4>1 DEF TypeOK
      <4>3. pc[t] = "idle" /\ held[t] >= 1
        BY <4>1
      <4>4. QED
        BY <4>1, <4>2, <4>3 DEF StillStep
    <3>5. CASE NcFree(t)
      BY <3>5 DEF NcFree, FreeOld, StillStep, TypeOK
    <3>6. CASE SetData(t)
      <4>1. /\ pc' = pc \/ pc' = [pc EXCEPT ![t] = "data_free"]
            /\ CanCall(t) /\ UNCHANGED <<held, refcount, finalized, ret>>
        BY <3>6 DEF SetData
      <4>2. /\ pc'[t] \in {pc[t], "data_free"}
            /\ \A u \in Threads \ {t} : pc'[u] = pc[u]
        BY <4>1 DEF TypeOK
      <4>3. pc[t] = "idle" /\ held[t] >= 1
        BY <4>1
      <4>4. QED
        BY <4>1, <4>2, <4>3 DEF StillStep
    <3>7. CASE DataFree(t)
      BY <3>7 DEF DataFree, FreeOld, StillStep, TypeOK
    <3>8. CASE SetWatchFunctions(t)
      <4>1. /\ pc' = pc \/ pc' = [pc EXCEPT ![t] = "swf_call"]
            /\ CanCall(t) /\ UNCHANGED <<held, refcount, finalized, ret>>
        BY <3>8 DEF SetWatchFunctions, SetFunctions
      <4>2. /\ pc'[t] \in {pc[t], "swf_call"}
            /\ \A u \in Threads \ {t} : pc'[u] = pc[u]
        BY <4>1 DEF TypeOK
      <4>3. pc[t] = "idle" /\ held[t] >= 1
        BY <4>1
      <4>4. QED
        BY <4>1, <4>2, <4>3 DEF StillStep
    <3>9. CASE SetTimeoutFunctions(t)
      <4>1. /\ pc' = pc \/ pc' = [pc EXCEPT ![t] = "swf_call"]
            /\ CanCall(t) /\ UNCHANGED <<held, refcount, finalized, ret>>
        BY <3>9 DEF SetTimeoutFunctions, SetFunctions
      <4>2. /\ pc'[t] \in {pc[t], "swf_call"}
            /\ \A u \in Threads \ {t} : pc'[u] = pc[u]
        BY <4>1 DEF TypeOK
      <4>3. pc[t] = "idle" /\ held[t] >= 1
        BY <4>1
      <4>4. QED
        BY <4>1, <4>2, <4>3 DEF StillStep
    <3>10. CASE SwfCall(t)
      BY <3>10 DEF SwfCall, StillStep, TypeOK
    <3>11. CASE SwfRelock(t)
      BY <3>11 DEF SwfRelock, StillStep, TypeOK
    <3>12. CASE SetAuthMechanisms(t)
      BY <3>12 DEF SetAuthMechanisms, StillStep, TypeOK
    <3>13. QED
      BY <1>9, <3>1, <3>2, <3>3, <3>4, <3>5, <3>6, <3>7, <3>8, <3>9, <3>10, <3>11, <3>12
  <2>2. QED
    BY <1>a, <2>1, QuietLife DEF LifeInv
<1>10. ASSUME NEW t \in Threads,
              FinSlots(t) \/ FinNc(t) \/ FinNcFree(t) \/ FinFree(t)
       PROVE  LifeInv'
  <2>1. /\ pc[t] \in FinalizePcs
        /\ held' = held /\ refcount' = refcount
        /\ disconnected' = disconnected /\ lockOwner' = lockOwner
        /\ ret' = ret /\ \A u \in Threads \ {t} : pc'[u] = pc[u]
        /\ \/ pc'[t] \in FinalizePcs /\ finalized' = finalized
           \/ pc'[t] = ret[t] /\ finalized' = TRUE
    BY <1>10 DEF FinSlots, FinNc, FinNcFree, FreeOld, FinFree, TypeOK
  <2>2. QED
    BY <2>1, FinStep
<1>11. CASE Terminated \/ UNCHANGED vars
  <2>1. UNCHANGED vars
    BY <1>11 DEF Terminated
  <2>2. QED
    BY <2>1 DEF vars, LifeInv, RefTokens, ThreadRefs, InWindow,
       RefcountAccounting, InCallOwns, FinalizeToIdle, LifetimeSafe
<1>12. QED
  BY <1>1, <1>2, <1>3, <1>4, <1>5, <1>6, <1>7, <1>8, <1>9, <1>10, <1>11
     DEF Next

-----------------------------------------------------------------------------
(***************************************************************************)
(* Refinement of Lifecycle.tla, its safety part. Under the mapping         *)
(* state <- LifecycleState, refs <- held, dbus_server_ref is LRef, an     *)
(* unref is LUnref, the first disconnect is LDisconnect, the last step of *)
(* finalize is LFinalize, and every other step (locking, call-outs,       *)
(* temporary references, a second disconnect) leaves the application's   *)
(* view alone.                                                            *)
(***************************************************************************)
LEMMA InitRefines == Init => LC!LInit
BY DEF Init, LC!LInit, LifecycleState

LEMMA NextRefines ==
  ASSUME IInv, LifeInv, [Next]_vars
  PROVE  [LC!LNext]_LC!lvars
<1> USE DEF IInv
<1>1. CASE UNCHANGED <<held, disconnected, finalized>>
  BY <1>1 DEF LC!lvars, LifecycleState
<1>2. ASSUME NEW t \in Threads, NEW u \in Threads, Ref(t, u)
      PROVE  LC!LRef(t, u)
  BY <1>2 DEF Ref, LC!LRef, LifecycleState
<1>3. ASSUME NEW t \in Threads, Unref(t) PROVE LC!LUnref(t)
  <2>1. held[t] >= 1 /\ ~finalized
    BY <1>3 DEF Unref, LifeInv, LifetimeSafe, TypeOK
  <2>2. QED
    BY <1>3, <2>1 DEF Unref, LC!LUnref, LifecycleState
<1>4. ASSUME NEW t \in Threads, Disconnect(t), ~disconnected
      PROVE  LC!LDisconnect(t)
  <2>1. held[t] >= 1 /\ ~finalized
    BY <1>4 DEF Disconnect, LifeInv, LifetimeSafe, TypeOK
  <2>2. QED
    BY <1>4, <2>1 DEF Disconnect, LC!LDisconnect, LifecycleState
<1>5. ASSUME NEW t \in Threads, FinFree(t) PROVE LC!LFinalize
  <2>1. /\ disconnected /\ ~finalized
        /\ \A u \in Threads : held[u] = 0
    BY <1>5 DEF FinFree, LifeInv, LifetimeSafe
  <2>2. QED
    BY <1>5, <2>1 DEF FinFree, LC!LFinalize, LifecycleState
<1>6. ASSUME NEW t \in Threads,
             \/ BackendCall(t) \/ PcwCall(t) \/ PcwRelock(t) \/ BackendDone(t)
             \/ DiscBackend(t) \/ DiscWatchFreed(t) \/ DiscUnlock(t)
             \/ DiscUnref(t) \/ SetNewConnectionFunction(t) \/ NcFree(t)
             \/ SetData(t) \/ DataFree(t) \/ SetWatchFunctions(t)
             \/ SetTimeoutFunctions(t) \/ SwfCall(t) \/ SwfRelock(t)
             \/ SetAuthMechanisms(t) \/ FinSlots(t) \/ FinNc(t)
             \/ FinNcFree(t)
      PROVE  UNCHANGED <<held, disconnected, finalized>>
  BY <1>6 DEF BackendCall, PcwCall, PcwRelock, BackendDone, DiscBackend,
     DiscWatchFreed, DiscUnlock, DiscUnref, SetNewConnectionFunction, NcFree,
     SetData, DataFree, SetWatchFunctions, SetTimeoutFunctions, SetFunctions,
     SwfCall, SwfRelock, SetAuthMechanisms, FinSlots, FinNc, FinNcFree
<1>7. ASSUME NEW t \in Threads, Disconnect(t), disconnected
      PROVE  UNCHANGED <<held, disconnected, finalized>>
  BY <1>7 DEF Disconnect
<1>8. QED
  BY <1>1, <1>2, <1>3, <1>4, <1>5, <1>6, <1>7
     DEF Next, Terminated, vars, LC!LNext

\* dbus_server_listen hands the server to its creator with the one
\* reference _dbus_server_init_base counted: LifeInv holds initially.
LEMMA InitLifeInv == Init => LifeInv
<1> SUFFICES ASSUME Init PROVE LifeInv
  OBVIOUS
<1>1. \A u \in Threads : ThreadRefs(u) = IF u = Creator THEN 1 ELSE 0
  BY DEF Init, ThreadRefs, InWindow
<1>2. RefTokens = {<<Creator, 1>>}
  <2> SUFFICES ASSUME NEW y PROVE y \in RefTokens <=> y = <<Creator, 1>>
    OBVIOUS
  <2>1. y \in RefTokens <=>
          \E u \in Threads : \E i \in 1..ThreadRefs(u) : y = <<u, i>>
    BY TokenMember
  <2>2. QED
    BY <1>1, <2>1, ThreadsAssumption
<1>3. IsFiniteSet(RefTokens) /\ RefcountAccounting
  BY <1>2, FS_Singleton DEF Init, RefcountAccounting
<1>4. InCallOwns /\ FinalizeToIdle /\ LifetimeSafe
  BY DEF Init, InCallOwns, FinalizeToIdle, LifetimeSafe
<1>5. QED
  BY <1>3, <1>4 DEF LifeInv

(***************************************************************************)
(* When _dbus_dup_string_array never fails, every behaviour keeps the      *)
(* reference count equal to the references the threads own, finalizes    *)
(* only an unreachable disconnected server with no lock held and nobody   *)
(* else inside a call, and never resumes a step on the released object.  *)
(* LifeInv is needed because RefcountAccounting alone does not say that a *)
(* thread inside a call owns a reference (InCallOwns), which is what     *)
(* excludes a second thread from the call when the count drops to zero.   *)
(***************************************************************************)
THEOREM LifetimeSafety ==
  ASSUME DupResults = {TRUE}
  PROVE  Spec => [](LifetimeSafe /\ RefcountAccounting)
<1>1. Init => IInv /\ LockInv /\ LifeInv
  BY InitIInv, InitLockInv, InitLifeInv
<1>2. IInv /\ LockInv /\ LifeInv /\ [Next]_vars => (IInv /\ LockInv /\ LifeInv)'
  BY NextIInv, NextLockInv, NextLifeInv
<1>3. LifeInv => LifetimeSafe /\ RefcountAccounting
  BY DEF LifeInv
<1>4. QED
  BY <1>1, <1>2, <1>3, PTL DEF Spec


(***************************************************************************)
(* When _dbus_dup_string_array never fails, the server implements the     *)
(* safety part of the lifetime contract of Lifecycle.tla: references pass *)
(* only from a thread that owns one, the last goes only after the         *)
(* disconnect, and finalize runs once, on a disconnected server nobody   *)
(* owns a reference to. The liveness part (finalize does happen) is      *)
(* checked by TLC in run server_refinement.                              *)
(***************************************************************************)
THEOREM RefinesLifecycle ==
  ASSUME DupResults = {TRUE}
  PROVE  Spec => LC!LInit /\ [][LC!LNext]_LC!lvars
<1>1. Init => IInv /\ LockInv /\ LifeInv
  BY InitIInv, InitLockInv, InitLifeInv
<1>2. IInv /\ LockInv /\ LifeInv /\ [Next]_vars => (IInv /\ LockInv /\ LifeInv)'
  BY NextIInv, NextLockInv, NextLifeInv
<1>3. IInv /\ LifeInv /\ [Next]_vars => [LC!LNext]_LC!lvars
  BY NextRefines
<1>4. QED
  BY <1>1, <1>2, <1>3, InitRefines, PTL DEF Spec

=============================================================================
