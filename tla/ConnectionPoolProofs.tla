------------------------ MODULE ConnectionPoolProofs ------------------------
(***************************************************************************)
(* Proofs about ConnectionPool for every set of users and keys and every   *)
(* cap on leases and dials.  The properties follow from IInv, which is     *)
(* inductive: an action moves one user's claim, or none, and the counter   *)
(* it adjusts is that of the entry the claim moves to or from.             *)
(***************************************************************************)
EXTENDS ConnectionPool, FiniteSetTheorems, TLAPS

USE DEF Conns, NoConn, Links, Phases

-----------------------------------------------------------------------------
(* How the claims on an entry change *)

Claims(u) == phase[u] \in {"waiting", "holding"}

LEMMA ClaimantsFinite ==
  ASSUME NEW c
  PROVE  IsFiniteSet(Claimants(c)) /\ Cardinality(Claimants(c)) \in Nat
<1>1. Claimants(c) \in SUBSET Users
  BY DEF Claimants
<1>2. IsFiniteSet(Claimants(c))
  BY <1>1, FS_Subset, PoolAssumptions
<1>3. QED
  BY <1>2, FS_CardinalityType

\* A user that starts to wait for c joins c's claimants and no others.
LEMMA Joining ==
  ASSUME TypeOK, NEW u \in Users, NEW c \in Conns, ~Claims(u), Wait(u, c),
         NEW d \in Conns
  PROVE  /\ Claimants(d)' = IF d = c THEN Claimants(d) \cup {u} ELSE Claimants(d)
         /\ u \notin Claimants(d)
BY DEF TypeOK, Claims, Wait, Claimants

\* A user that stops claiming leaves the entry it was at and no other.
LEMMA Leaving ==
  ASSUME TypeOK, NEW u \in Users, Claims(u), NEW d \in Conns,
         NEW p \in {"idle", "released"}, phase' = [phase EXCEPT ![u] = p],
         at' = at \/ at' = [at EXCEPT ![u] = NoConn]
  PROVE  Claimants(d)' = IF d = at[u] THEN Claimants(d) \ {u} ELSE Claimants(d)
BY DEF TypeOK, Claims, Claimants

\* A waiter that becomes a holder claims what it claimed.
LEMMA Staying ==
  ASSUME TypeOK, NEW u \in Users, phase[u] = "waiting", NEW d \in Conns,
         phase' = [phase EXCEPT ![u] = "holding"], at' = at
  PROVE  Claimants(d)' = Claimants(d)
BY DEF TypeOK, Claimants

LEMMA Unmoved ==
  ASSUME UNCHANGED userVars, NEW d
  PROVE  Claimants(d)' = Claimants(d)
BY DEF userVars, Claimants

-----------------------------------------------------------------------------
(* IInv is inductive *)

LEMMA InitIInv == Init => IInv
<1> SUFFICES ASSUME Init PROVE IInv
  OBVIOUS
<1>1. TypeOK
  BY PoolAssumptions DEF Init, TypeOK
<1>2. \A c \in Conns : Claimants(c) = {}
  BY DEF Init, Claimants
<1>3. Cardinality({}) = 0
  BY FS_EmptySet
<1>4. \A c \in Conns : leases[c] = 0 /\ Cardinality(Claimants(c)) = 0
  BY <1>2, <1>3 DEF Init
<1>5. LeaseAccounting /\ CapRespected
  BY <1>4, PoolAssumptions DEF LeaseAccounting, CapRespected
<1>6. QED
  BY <1>1, <1>2, <1>5, PoolAssumptions
  DEF Init, IInv, DialOrder, OfferedIsHealthy, WiredIsSettled, ClaimsAreLive,
      NobodyOrphaned

LEMMA AcquireSharedIInv ==
  ASSUME IInv, NEW u \in Users, NEW k \in Keys, AcquireShared(u, k)
  PROVE  IInv'
<1> USE DEF IInv
<1>1. PICK c \in Roomy(k) :
        /\ Wait(u, c)
        /\ leases' = [leases EXCEPT ![c] = @ + 1]
  BY DEF AcquireShared
<1>2. /\ c \in Conns /\ c \in listed /\ usable[c] /\ leases[c] < MaxLeases
      /\ ~Claims(u)
  BY <1>1 DEF Roomy, TypeOK, AcquireShared, Claims
<1>3. UNCHANGED <<dialled, keyOf, link, wired, usable, listed>>
  BY DEF AcquireShared
<1>4. \A d \in Conns :
        /\ Claimants(d)' = IF d = c THEN Claimants(d) \cup {u} ELSE Claimants(d)
        /\ u \notin Claimants(d)
  BY <1>1, <1>2, Joining
<1>5. TypeOK'
  BY <1>1, <1>2, <1>3 DEF TypeOK, Wait
<1>6. LeaseAccounting' /\ CapRespected'
  <2>1. Cardinality(Claimants(c) \cup {u}) = Cardinality(Claimants(c)) + 1
    BY <1>2, <1>4, ClaimantsFinite, FS_AddElement
  <2>2. \A d \in Conns : leases[d] = Cardinality(Claimants(d)) /\ leases[d] \in Nat
    BY DEF LeaseAccounting, TypeOK
  <2>3. \A d \in Conns : leases'[d] = IF d = c THEN leases[d] + 1 ELSE leases[d]
    BY <1>1 DEF TypeOK
  <2>4. \A d \in Conns : leases'[d] = Cardinality(Claimants(d)')
    BY <2>1, <2>2, <2>3, <1>4
  <2>5. \A d \in Conns : Cardinality(Claimants(d)') <= MaxLeases
    BY <2>2, <2>3, <2>4, <1>2, PoolAssumptions DEF CapRespected
  <2>6. QED
    BY <2>4, <2>5 DEF LeaseAccounting, CapRespected
<1>7. ClaimsAreLive'
  BY <1>1, <1>2, <1>3 DEF ClaimsAreLive, OfferedIsHealthy, Wait, TypeOK
<1>8. NobodyOrphaned'
  BY <1>3, <1>4 DEF NobodyOrphaned
<1>9. QED
  BY <1>3, <1>5, <1>6, <1>7, <1>8 DEF DialOrder, OfferedIsHealthy, WiredIsSettled

LEMMA AcquireFreshIInv ==
  ASSUME IInv, NEW u \in Users, NEW k \in Keys, AcquireFresh(u, k)
  PROVE  IInv'
<1> USE DEF IInv
<1>0. PICK c : c = dialled + 1
  OBVIOUS
<1>1. /\ c \in Conns /\ ~Claims(u) /\ Wait(u, c)
      /\ dialled' = c
      /\ keyOf' = [keyOf EXCEPT ![c] = k]
      /\ link' = [link EXCEPT ![c] = "dialling"]
      /\ usable' = [usable EXCEPT ![c] = TRUE]
      /\ listed' = listed \cup {c}
      /\ leases' = [leases EXCEPT ![c] = 1]
      /\ wired' = wired
  BY <1>0, PoolAssumptions DEF AcquireFresh, TypeOK, Claims
<1>2. link[c] = "none" /\ c \notin listed /\ ~usable[c] /\ ~wired[c]
  BY <1>0, <1>1 DEF DialOrder, OfferedIsHealthy, WiredIsSettled, TypeOK
<1>3. Claimants(c) = {}
  BY <1>1, <1>2 DEF ClaimsAreLive, Claimants
<1>4. \A d \in Conns :
        Claimants(d)' = IF d = c THEN Claimants(d) \cup {u} ELSE Claimants(d)
  BY <1>1, Joining
<1>5. TypeOK'
  BY <1>1, PoolAssumptions DEF TypeOK, Wait
<1>6. LeaseAccounting' /\ CapRespected'
  <2>1. Claimants(c)' = {u}
    BY <1>1, <1>3, <1>4
  <2>2. Cardinality({u}) = 1
    BY FS_Singleton
  <2>3. \A d \in Conns : leases'[d] = IF d = c THEN 1 ELSE leases[d]
    BY <1>1 DEF TypeOK
  <2>4. \A d \in Conns : leases'[d] = Cardinality(Claimants(d)')
    BY <2>1, <2>2, <2>3, <1>4 DEF LeaseAccounting
  <2>5. \A d \in Conns : Cardinality(Claimants(d)') <= MaxLeases
    BY <2>1, <2>2, <1>4, PoolAssumptions DEF CapRespected
  <2>6. QED
    BY <2>4, <2>5 DEF LeaseAccounting, CapRespected
<1>7. ClaimsAreLive'
  BY <1>1, <1>2 DEF ClaimsAreLive, Wait, TypeOK
<1>8. NobodyOrphaned'
  BY <1>1, <1>4 DEF NobodyOrphaned, TypeOK
<1>9. DialOrder' /\ OfferedIsHealthy' /\ WiredIsSettled'
  BY <1>0, <1>1, <1>2, PoolAssumptions DEF DialOrder, OfferedIsHealthy, WiredIsSettled, TypeOK
<1>10. QED
  BY <1>5, <1>6, <1>7, <1>8, <1>9

\* Giving up a claim on c: the counter and the claimants lose one together.
LEMMA LeavingCounts ==
  ASSUME IInv, NEW u \in Users, Claims(u), NEW c \in Conns, c = at[u],
         NEW p \in {"idle", "released"}, phase' = [phase EXCEPT ![u] = p],
         at' = at \/ at' = [at EXCEPT ![u] = NoConn],
         leases' = [leases EXCEPT ![c] = @ - 1]
  PROVE  /\ LeaseAccounting' /\ CapRespected'
         /\ leases' \in [Conns -> Nat]
         /\ Claimants(c)' = {} <=> leases[c] = 1
<1> USE DEF IInv
<1>1. \A d \in Conns :
        Claimants(d)' = IF d = c THEN Claimants(d) \ {u} ELSE Claimants(d)
  BY Leaving
<1>2. u \in Claimants(c)
  BY DEF Claims, Claimants
<1>3. /\ Cardinality(Claimants(c) \ {u}) = Cardinality(Claimants(c)) - 1
      /\ IsFiniteSet(Claimants(c) \ {u})
      /\ Cardinality(Claimants(c) \ {u}) \in Nat
  BY <1>2, ClaimantsFinite, FS_RemoveElement, FS_CardinalityType
<1>4. \A d \in Conns : leases[d] = Cardinality(Claimants(d)) /\ leases[d] \in Nat
  BY DEF LeaseAccounting, TypeOK
<1>5. \A d \in Conns : leases'[d] = IF d = c THEN leases[d] - 1 ELSE leases[d]
  BY DEF TypeOK
<1>6. ASSUME NEW d \in Conns
      PROVE  leases'[d] = Cardinality(Claimants(d)')
  <2>1. CASE d = c
    BY <2>1, <1>1, <1>3, <1>4, <1>5
  <2>2. CASE d # c
    BY <2>2, <1>1, <1>4, <1>5
  <2>3. QED
    BY <2>1, <2>2
<1>7. \A d \in Conns : Cardinality(Claimants(d)') <= MaxLeases
  BY <1>4, <1>5, <1>6, PoolAssumptions DEF CapRespected
<1>8. leases' \in [Conns -> Nat]
  <2>1. leases[c] - 1 \in Nat
    BY <1>3, <1>4
  <2>2. QED
    BY <2>1 DEF TypeOK
<1>9. Claimants(c)' = {} <=> leases[c] = 1
  BY <1>1, <1>3, <1>4, FS_EmptySet
<1>10. QED
  BY <1>6, <1>7, <1>8, <1>9 DEF LeaseAccounting, CapRespected

LEMMA ReleaseIInv ==
  ASSUME IInv, NEW u \in Users, Release(u)
  PROVE  IInv'
<1> USE DEF IInv
<1>0. PICK c \in Conns : c = at[u]
  BY DEF Release, ClaimsAreLive
<1>1. /\ phase[u] = "holding" /\ Claims(u) /\ link[c] \in {"up", "dropped"}
      /\ leases' = [leases EXCEPT ![c] = @ - 1]
      /\ phase' = [phase EXCEPT ![u] = "released"]
      /\ UNCHANGED <<dialled, keyOf, wired, at>>
  BY <1>0 DEF Release, Claims, ClaimsAreLive
<1>2. \/ /\ leases[c] = 1
         /\ Retire({c})
         /\ link' = [link EXCEPT ![c] = IF @ = "up" THEN "closed" ELSE @]
      \/ /\ leases[c] # 1
         /\ UNCHANGED <<usable, listed, link>>
  BY <1>0 DEF Release
<1>3. /\ LeaseAccounting' /\ CapRespected' /\ leases' \in [Conns -> Nat]
      /\ Claimants(c)' = {} <=> leases[c] = 1
  BY <1>0, <1>1, LeavingCounts
<1>4. \A d \in Conns :
        Claimants(d)' = IF d = c THEN Claimants(d) \ {u} ELSE Claimants(d)
  BY <1>0, <1>1, Leaving
<1>5. TypeOK'
  BY <1>1, <1>2, <1>3 DEF TypeOK, Retire
<1>6. ClaimsAreLive'
  <2>1. CASE leases[c] # 1
    BY <2>1, <1>1, <1>2 DEF ClaimsAreLive, TypeOK
  <2>2. CASE leases[c] = 1
    <3>1. \A v \in Users : phase'[v] \in {"waiting", "holding"} => at[v] # c
      BY <2>2, <1>1, <1>3 DEF Claimants
    <3>2. QED
      BY <2>2, <3>1, <1>1, <1>2 DEF ClaimsAreLive, TypeOK
  <2>3. QED
    BY <2>1, <2>2
<1>7. NobodyOrphaned'
  <2>1. CASE leases[c] # 1
    BY <2>1, <1>2, <1>3, <1>4 DEF NobodyOrphaned
  <2>2. CASE leases[c] = 1
    BY <2>2, <1>1, <1>2, <1>4 DEF NobodyOrphaned, TypeOK
  <2>3. QED
    BY <2>1, <2>2
<1>8. DialOrder' /\ OfferedIsHealthy' /\ WiredIsSettled'
  BY <1>1, <1>2 DEF DialOrder, OfferedIsHealthy, WiredIsSettled, TypeOK, Retire
<1>9. QED
  BY <1>3, <1>5, <1>6, <1>7, <1>8

LEMMA ResumeFailedIInv ==
  ASSUME IInv, NEW u \in Users, ResumeFailed(u)
  PROVE  IInv'
<1> USE DEF IInv
<1>0. PICK c \in Conns : c = at[u]
  BY DEF ResumeFailed, ClaimsAreLive
<1>1. /\ phase[u] = "waiting" /\ Claims(u) /\ link[c] = "failed"
      /\ leases' = [leases EXCEPT ![c] = @ - 1]
      /\ phase' = [phase EXCEPT ![u] = "idle"]
      /\ at' = [at EXCEPT ![u] = NoConn]
      /\ UNCHANGED <<dialled, keyOf, link, wired, usable, listed>>
  BY <1>0 DEF ResumeFailed, Claims
<1>2. LeaseAccounting' /\ CapRespected' /\ leases' \in [Conns -> Nat]
  BY <1>0, <1>1, LeavingCounts
<1>3. \A d \in Conns :
        Claimants(d)' = IF d = c THEN Claimants(d) \ {u} ELSE Claimants(d)
  BY <1>0, <1>1, Leaving
<1>4. NobodyOrphaned'
  BY <1>1, <1>3 DEF NobodyOrphaned
<1>5. QED
  BY <1>1, <1>2, <1>4
  DEF TypeOK, ClaimsAreLive, DialOrder, OfferedIsHealthy, WiredIsSettled

\* The steps that leave every claim where it is.
LEMMA QuietIInv ==
  ASSUME IInv,
         \A d \in Conns : Claimants(d)' = Claimants(d),
         leases' = leases, TypeOK', DialOrder', OfferedIsHealthy', WiredIsSettled',
         ClaimsAreLive',
         \A d \in Conns : link'[d] \in {"dialling", "up"} =>
                            link[d] \in {"dialling", "up"}
  PROVE  IInv'
BY DEF IInv, NobodyOrphaned, LeaseAccounting, CapRespected

LEMMA RetireEffect ==
  ASSUME TypeOK, NEW S, Retire(S)
  PROVE  /\ usable' \in [Conns -> BOOLEAN] /\ listed' \in SUBSET Conns
         /\ \A d \in Conns : usable'[d] <=> usable[d] /\ d \notin S
         /\ \A d \in Conns : d \in listed' <=> d \in listed /\ d \notin S
BY DEF TypeOK, Retire

LEMMA EntryStepIInv ==
  ASSUME IInv, NEW c \in Conns, DialSettles(c) \/ Wire(c) \/ Drop(c)
  PROVE  IInv'
<1> USE DEF IInv
<1>1. UNCHANGED <<phase, at, leases, dialled>>
  BY DEF DialSettles, Wire, Drop
<1>2. \A d \in Conns : Claimants(d)' = Claimants(d)
  BY <1>1, Unmoved DEF userVars
<1>3. CASE DialSettles(c)
  <2>1. PICK outcome \in {"up", "failed"} : link' = [link EXCEPT ![c] = outcome]
    BY <1>3 DEF DialSettles
  <2>2. /\ link[c] = "dialling"
        /\ UNCHANGED <<dialled, keyOf, wired, usable, listed, leases, phase, at>>
    BY <1>3 DEF DialSettles
  <2>3. link' \in [Conns -> Links] /\ \A d \in Conns : link'[d] = IF d = c THEN outcome ELSE link[d]
    BY <2>1 DEF TypeOK
  <2>4. TypeOK' /\ DialOrder' /\ ClaimsAreLive'
    BY <2>2, <2>3 DEF TypeOK, DialOrder, ClaimsAreLive
  <2>5. OfferedIsHealthy' /\ WiredIsSettled'
    BY <2>2, <2>3 DEF TypeOK, OfferedIsHealthy, WiredIsSettled
  <2>6. \A d \in Conns : link'[d] \in {"dialling", "up"} => link[d] \in {"dialling", "up"}
    BY <2>2, <2>3
  <2>7. QED
    BY <1>1, <1>2, <2>4, <2>5, <2>6, QuietIInv
<1>4. CASE Wire(c)
  <2>1. /\ usable' \in [Conns -> BOOLEAN] /\ listed' \in SUBSET Conns
        /\ \A d \in Conns : usable'[d] <=> usable[d] /\ ~(d = c /\ link[c] = "failed")
        /\ \A d \in Conns : d \in listed' <=> d \in listed /\ ~(d = c /\ link[c] = "failed")
    BY <1>4, RetireEffect DEF Wire, TypeOK
  <2>2. /\ wired' = [wired EXCEPT ![c] = TRUE] /\ link[c] \in {"up", "failed"}
        /\ link' = link /\ keyOf' = keyOf
    BY <1>4 DEF Wire
  <2>3. TypeOK' /\ DialOrder' /\ ClaimsAreLive'
    BY <1>1, <2>1, <2>2 DEF TypeOK, DialOrder, ClaimsAreLive
  <2>4. \A d \in Conns : wired'[d] <=> wired[d] \/ d = c
    BY <2>2 DEF TypeOK
  <2>5. OfferedIsHealthy' /\ WiredIsSettled'
    BY <2>1, <2>2, <2>4 DEF OfferedIsHealthy, WiredIsSettled
  <2>6. QED
    BY <1>1, <1>2, <2>2, <2>3, <2>5, QuietIInv
<1>5. CASE Drop(c)
  <2>1. /\ usable' \in [Conns -> BOOLEAN] /\ listed' \in SUBSET Conns
        /\ \A d \in Conns : usable'[d] <=> usable[d] /\ d # c
        /\ \A d \in Conns : d \in listed' <=> d \in listed /\ d # c
    BY <1>5, RetireEffect DEF Drop
  <2>2. /\ link' = [link EXCEPT ![c] = "dropped"] /\ link[c] = "up"
        /\ wired' = wired /\ keyOf' = keyOf
        /\ \A u \in Users : ~(phase[u] = "waiting" /\ at[u] = c)
    BY <1>5 DEF Drop
  <2>3. \A d \in Conns : link'[d] = IF d = c THEN "dropped" ELSE link[d]
    BY <2>2 DEF TypeOK
  <2>4. TypeOK'
    BY <1>1, <2>1, <2>2 DEF TypeOK
  <2>5. DialOrder' /\ ClaimsAreLive'
    BY <1>1, <2>2, <2>3 DEF DialOrder, ClaimsAreLive
  <2>6. OfferedIsHealthy' /\ WiredIsSettled'
    BY <2>1, <2>2, <2>3 DEF OfferedIsHealthy, WiredIsSettled
  <2>7. QED
    BY <1>1, <1>2, <2>2, <2>3, <2>4, <2>5, <2>6, QuietIInv
<1>6. QED
  BY <1>3, <1>4, <1>5

LEMMA UserStepIInv ==
  ASSUME IInv, NEW u \in Users, ResumeOk(u) \/ Invalidate(u)
  PROVE  IInv'
<1> USE DEF IInv
<1>1. CASE ResumeOk(u)
  <2>1. \A d \in Conns : Claimants(d)' = Claimants(d)
    BY <1>1, Staying DEF ResumeOk
  <2>2. QED
    BY <1>1, <2>1, QuietIInv
    DEF ResumeOk, entryVars, TypeOK, DialOrder, OfferedIsHealthy, WiredIsSettled,
        ClaimsAreLive
<1>2. CASE Invalidate(u)
  <2>1. \A d \in Conns : Claimants(d)' = Claimants(d)
    BY <1>2, Unmoved DEF Invalidate, userVars
  <2>2. QED
    BY <1>2, <2>1, QuietIInv
    DEF Invalidate, Retire, TypeOK, DialOrder, OfferedIsHealthy, WiredIsSettled,
        ClaimsAreLive
<1>3. QED
  BY <1>1, <1>2

LEMMA InvalidateAllIInv ==
  ASSUME IInv, InvalidateAll
  PROVE  IInv'
<1>1. \A d \in Conns : Claimants(d)' = Claimants(d)
  BY Unmoved DEF InvalidateAll, userVars
<1>2. QED
  BY <1>1, QuietIInv
  DEF IInv, InvalidateAll, Retire, TypeOK, DialOrder, OfferedIsHealthy, WiredIsSettled,
      ClaimsAreLive

LEMMA WithdrawIInv ==
  ASSUME IInv, NEW S, Retire(S), UNCHANGED <<dialled, keyOf, link, wired, leases, phase, at>>
  PROVE  IInv'
<1>1. \A d \in Conns : Claimants(d)' = Claimants(d)
  BY Unmoved DEF userVars
<1>2. QED
  BY <1>1, QuietIInv, RetireEffect
  DEF IInv, TypeOK, DialOrder, OfferedIsHealthy, WiredIsSettled, ClaimsAreLive

LEMMA StutterIInv ==
  ASSUME IInv, UNCHANGED vars
  PROVE  IInv'
<1>1. \A d \in Conns : Claimants(d)' = Claimants(d)
  BY Unmoved DEF vars, userVars
<1>2. QED
  BY <1>1, QuietIInv
  DEF IInv, vars, TypeOK, DialOrder, OfferedIsHealthy, WiredIsSettled, ClaimsAreLive

\* Withdrawing an entry and giving up a lease on it in one go (a session that moves
\* to a connection of its own) keeps the books as the two steps would.
LEMMA WithdrawAndReleaseIInv ==
  ASSUME IInv, NEW u \in Users, phase[u] = "holding", Retire({at[u]}),
         leases' = [leases EXCEPT ![at[u]] = @ - 1],
         link' = IF leases[at[u]] = 1 /\ link[at[u]] = "up"
                 THEN [link EXCEPT ![at[u]] = "closed"] ELSE link,
         phase' = [phase EXCEPT ![u] = "released"],
         UNCHANGED <<dialled, keyOf, wired, at>>
  PROVE  IInv'
<1> USE DEF IInv
<1>0. PICK c \in Conns : c = at[u]
  BY DEF ClaimsAreLive
<1>1. Claims(u) /\ link[c] \in {"up", "dropped"}
  BY <1>0 DEF Claims, ClaimsAreLive
<1>2. link' = IF leases[c] = 1 /\ link[c] = "up" THEN [link EXCEPT ![c] = "closed"] ELSE link
  BY <1>0
<1>3. /\ LeaseAccounting' /\ CapRespected' /\ leases' \in [Conns -> Nat]
      /\ Claimants(c)' = {} <=> leases[c] = 1
  BY <1>0, <1>1, LeavingCounts
<1>4. \A d \in Conns :
        Claimants(d)' = IF d = c THEN Claimants(d) \ {u} ELSE Claimants(d)
  BY <1>0, <1>1, Leaving
<1>5. /\ usable' \in [Conns -> BOOLEAN] /\ listed' \in SUBSET Conns
      /\ \A d \in Conns : usable'[d] <=> usable[d] /\ d # c
      /\ \A d \in Conns : d \in listed' <=> d \in listed /\ d # c
  BY <1>0, RetireEffect
<1>6. TypeOK'
  BY <1>2, <1>3, <1>5 DEF TypeOK
<1>7. ClaimsAreLive'
  <2>1. leases[c] = 1 => \A v \in Users : phase'[v] \in {"waiting", "holding"} => at[v] # c
    BY <1>3 DEF Claimants
  <2>2. QED
    BY <2>1, <1>1, <1>2 DEF ClaimsAreLive, TypeOK
<1>8. NobodyOrphaned'
  BY <1>1, <1>2, <1>3, <1>4 DEF NobodyOrphaned, TypeOK
<1>9. DialOrder' /\ OfferedIsHealthy' /\ WiredIsSettled'
  BY <1>1, <1>2, <1>5 DEF DialOrder, OfferedIsHealthy, WiredIsSettled, TypeOK
<1>10. QED
  BY <1>3, <1>6, <1>7, <1>8, <1>9

LEMMA NextIInv == IInv /\ [Next]_vars => IInv'
<1> SUFFICES ASSUME IInv, [Next]_vars PROVE IInv'
  OBVIOUS
<1>1. ASSUME NEW u \in Users, NEW k \in Keys,
             AcquireShared(u, k) \/ AcquireFresh(u, k)
      PROVE  IInv'
  BY <1>1, AcquireSharedIInv, AcquireFreshIInv
<1>2. ASSUME NEW u \in Users,
             Release(u) \/ ReleaseAgain(u) \/ Invalidate(u) \/ ResumeOk(u) \/ ResumeFailed(u)
      PROVE  IInv'
  BY <1>2, ReleaseIInv, StutterIInv, UserStepIInv, ResumeFailedIInv DEF ReleaseAgain
<1>3. ASSUME NEW c \in Conns, DialSettles(c) \/ Wire(c) \/ Drop(c)
      PROVE  IInv'
  BY <1>3, EntryStepIInv
<1>4. CASE InvalidateAll
  BY <1>4, InvalidateAllIInv
<1>5. CASE UNCHANGED vars
  BY <1>5, StutterIInv
<1>6. QED
  BY <1>1, <1>2, <1>3, <1>4, <1>5 DEF Next, PoolStep

\* Every reachable state of the pool satisfies the inductive invariant.
THEOREM Invariance == Spec => []IInv
<1>1. Init => IInv
  BY InitIInv
<1>2. IInv /\ [Next]_vars => IInv'
  BY NextIInv
<1>3. QED
  BY <1>1, <1>2, PTL DEF Spec

-----------------------------------------------------------------------------
(* The properties *)

\* Type correctness; in particular no lease counter ever goes below zero.
THEOREM TypeCorrect == Spec => []TypeOK
<1>1. IInv => TypeOK
  BY DEF IInv
<1>2. QED
  BY <1>1, Invariance, PTL

\* entry.leases always equals the number of callers waiting for or holding the
\* entry, whatever dials fail and whatever leases are released twice.
THEOREM LeasesAreCounted == Spec => []LeaseAccounting
<1>1. IInv => LeaseAccounting
  BY DEF IInv
<1>2. QED
  BY <1>1, Invariance, PTL

\* No connection stays up with nobody counting on it, and none is closed under
\* somebody that does (connectionPool.ts:8, release()).
THEOREM LifetimeCorrect == Spec => []LivesWithItsLeases
<1>1. IInv => LivesWithItsLeases
  BY DEF IInv, LivesWithItsLeases, NobodyOrphaned, ClaimsAreLive, Claimants
<1>2. QED
  BY <1>1, Invariance, PTL

\* No connection ever has more than maxLeases callers, waiting ones included.
THEOREM CapCorrect == Spec => []CapRespected
<1>1. IInv => CapRespected
  BY DEF IInv
<1>2. QED
  BY <1>1, Invariance, PTL

\* acquire() sends nobody to a connection that is gone or known to have failed.
THEOREM JoinsAreLive == Spec => NeverJoinsDead
<1> DEFINE Fine(u) ==
      (phase[u] # "waiting" /\ phase'[u] = "waiting") =>
         \/ link[at'[u]] \in {"none", "dialling", "up"}
         \/ link[at'[u]] = "failed" /\ ~wired[at'[u]]
<1>1. ASSUME IInv, Next, NEW u \in Users
      PROVE  Fine(u)
  <2> USE <1>1 DEF IInv
  <2>1. ASSUME NEW v \in Users, NEW k \in Keys, AcquireShared(v, k)
        PROVE  Fine(u)
    <3>1. PICK c \in listed : Wait(v, c)
      BY <2>1 DEF AcquireShared, Roomy
    <3>2. c \in Conns /\ (u # v => phase'[u] = phase[u])
      BY <3>1 DEF Wait, TypeOK
    <3>3. at'[v] = c
      BY <3>1 DEF Wait, TypeOK
    <3>4. QED
      BY <3>2, <3>3 DEF OfferedIsHealthy
  <2>2. ASSUME NEW v \in Users, NEW k \in Keys, AcquireFresh(v, k)
        PROVE  Fine(u)
    <3>1. PICK c \in Conns : c = dialled + 1 /\ Wait(v, c)
      BY <2>2, PoolAssumptions DEF AcquireFresh, TypeOK
    <3>2. link[c] = "none"
      BY <3>1 DEF DialOrder, TypeOK
    <3>3. at'[v] = c /\ (u # v => phase'[u] = phase[u])
      BY <3>1 DEF Wait, TypeOK
    <3>4. QED
      BY <3>2, <3>3
  <2>3. ASSUME NEW v \in Users,
               Release(v) \/ ReleaseAgain(v) \/ Invalidate(v) \/ ResumeOk(v) \/ ResumeFailed(v)
        PROVE  Fine(u)
    BY <2>3 DEF Release, ReleaseAgain, Invalidate, ResumeOk, ResumeFailed, vars, TypeOK
  <2>4. ASSUME NEW c \in Conns, DialSettles(c) \/ Wire(c) \/ Drop(c)
        PROVE  Fine(u)
    BY <2>4 DEF DialSettles, Wire, Drop
  <2>5. CASE InvalidateAll
    BY <2>5 DEF InvalidateAll
  <2>6. QED
    BY <1>1, <2>1, <2>2, <2>3, <2>4, <2>5 DEF Next, PoolStep
<1>2. IInv /\ [Next]_vars => [\A u \in Users : Fine(u)]_vars
  BY <1>1
<1>3. QED
  BY <1>2, Invariance, PTL DEF Spec, NeverJoinsDead

-----------------------------------------------------------------------------
(* The pool implements SharedConnections *)

LEMMA OfferedBar == IInv => offeredBar = listed
BY DEF IInv, OfferedIsHealthy, TypeOK, offeredBar

LEMMA FreeBar ==
  ASSUME NEW u \in Users, ~Claims(u)
  PROVE  Shared!Free(u)
BY DEF Shared!Free, Claims, claimsBar, Claimants

\* The instance has its own copy of the standard operator.
LEMMA SameCardinality == ASSUME NEW S PROVE Shared!Cardinality(S) = Cardinality(S)
BY DEF Cardinality, Shared!Cardinality

LEMMA InitRefines == Init => Shared!Init
BY DEF Init, Shared!Init, claimsBar, offeredBar, stateBar, StateOf, Claimants

LEMMA AcquireRefines ==
  ASSUME IInv, IInv', NEW u \in Users, NEW k \in Keys,
         AcquireShared(u, k) \/ AcquireFresh(u, k)
  PROVE  Shared!Next
<1> USE DEF IInv
<1>1. CASE AcquireShared(u, k)
  <2>1. PICK c \in Conns :
          /\ c \in listed /\ leases[c] < MaxLeases /\ ~Claims(u) /\ Wait(u, c)
    BY <1>1 DEF AcquireShared, Roomy, TypeOK, Claims
  <2>2. claimsBar' = [claimsBar EXCEPT ![c] = @ \cup {u}]
    BY <2>1, Joining DEF claimsBar
  <2>3. Cardinality(claimsBar[c]) < MaxLeases
    BY <2>1 DEF claimsBar, LeaseAccounting
  <2>4. UNCHANGED <<offeredBar, stateBar>>
    BY <1>1 DEF AcquireShared, offeredBar, stateBar, StateOf
  <2>5. Shared!Share(u, c)
    <3>1. Shared!Free(u) /\ c \in offeredBar
      BY <2>1, OfferedBar, FreeBar
    <3>2. QED
      BY <2>2, <2>3, <2>4, <3>1, SameCardinality DEF Shared!Share
  <2>6. QED
    BY <2>1, <2>5 DEF Shared!Next
<1>2. CASE AcquireFresh(u, k)
  <2>1. PICK c \in Conns :
          /\ c = dialled + 1 /\ ~Claims(u) /\ Wait(u, c)
          /\ link' = [link EXCEPT ![c] = "dialling"]
          /\ listed' = listed \cup {c}
    BY <1>2, PoolAssumptions DEF AcquireFresh, TypeOK, Claims
  <2>2. link[c] = "none" /\ Claimants(c) = {}
    BY <2>1 DEF DialOrder, ClaimsAreLive, Claimants, TypeOK
  <2>3. claimsBar' = [claimsBar EXCEPT ![c] = {u}]
    BY <2>1, <2>2, Joining DEF claimsBar
  <2>4. stateBar' = [stateBar EXCEPT ![c] = "dialling"] /\ stateBar[c] = "new"
    BY <2>1, <2>2 DEF stateBar, StateOf, TypeOK
  <2>5. offeredBar' = offeredBar \cup {c}
    BY <2>1, OfferedBar DEF IInv, OfferedIsHealthy, TypeOK, offeredBar
  <2>6. Shared!Dial(u, c)
    BY <2>1, <2>3, <2>4, <2>5, FreeBar DEF Shared!Dial
  <2>7. QED
    BY <2>1, <2>6 DEF Shared!Next
<1>3. QED
  BY <1>1, <1>2

\* Giving up a claim, by a failed wait or a release.
LEMMA GiveUpRefines ==
  ASSUME IInv, IInv', NEW u \in Users, ResumeFailed(u) \/ Release(u)
  PROVE  Shared!Next
<1> USE DEF IInv
<1>0. PICK c \in Conns : c = at[u]
  BY DEF ResumeFailed, Release, ClaimsAreLive
<1>1. Claims(u) /\ u \in Claimants(c)
  BY <1>0 DEF ResumeFailed, Release, Claims, Claimants
<1>2. claimsBar' = [claimsBar EXCEPT ![c] = @ \ {u}]
  BY <1>0, <1>1, Leaving DEF claimsBar, ResumeFailed, Release
<1>3. claimsBar[c] = {u} <=> leases[c] = 1
  <2>1. leases[c] = Cardinality(Claimants(c)) /\ IsFiniteSet(Claimants(c))
    BY ClaimantsFinite DEF LeaseAccounting
  <2>2. Cardinality({u}) = 1
    BY FS_Singleton
  <2>3. ASSUME Cardinality(Claimants(c)) = 1
        PROVE  Claimants(c) = {u}
    BY <2>1, <2>3, <1>1, FS_Singleton
  <2>4. QED
    BY <2>1, <2>2, <2>3 DEF claimsBar
<1>4. CASE ResumeFailed(u)
  <2>1. link[c] = "failed" /\ c \notin listed /\ UNCHANGED <<link, listed, usable>>
    BY <1>0, <1>4 DEF ResumeFailed, OfferedIsHealthy
  <2>2. stateBar[c] = "gone" /\ UNCHANGED <<stateBar, offeredBar>>
    BY <2>1 DEF stateBar, StateOf, offeredBar
  <2>3. Shared!GiveUp(u, c)
    <3>1. u \in claimsBar[c] /\ offeredBar' = offeredBar \ {c}
      BY <2>1, <2>2, <1>1, OfferedBar DEF claimsBar
    <3>2. QED
      BY <2>2, <3>1, <1>2 DEF Shared!GiveUp
  <2>4. QED
    BY <2>3 DEF Shared!Next
<1>5. CASE Release(u)
  <2>1. CASE leases[c] = 1
    <3>1. /\ listed' = listed \ {c}
          /\ link' = [link EXCEPT ![c] = IF @ = "up" THEN "closed" ELSE @]
          /\ link[c] \in {"up", "dropped"}
      BY <1>0, <1>5, <2>1 DEF Release, Retire, ClaimsAreLive
    <3>2. offeredBar' = offeredBar \ {c}
      BY <3>1, OfferedBar DEF OfferedIsHealthy, TypeOK, offeredBar
    <3>3. IF stateBar[c] = "open"
          THEN stateBar' = [stateBar EXCEPT ![c] = "gone"]
          ELSE UNCHANGED stateBar
      <4>1. CASE link[c] = "up"
        BY <4>1, <3>1 DEF stateBar, StateOf, TypeOK
      <4>2. CASE link[c] = "dropped"
        <5>1. link' = link
          BY <4>2, <3>1 DEF TypeOK
        <5>2. QED
          BY <4>2, <5>1 DEF stateBar, StateOf
      <4>3. QED
        BY <3>1, <4>1, <4>2
    <3>4. Shared!GiveUp(u, c)
      BY <2>1, <3>2, <3>3, <1>1, <1>2, <1>3 DEF Shared!GiveUp, claimsBar
    <3>5. QED
      BY <3>4 DEF Shared!Next
  <2>2. CASE leases[c] # 1
    <3>1. UNCHANGED <<stateBar, offeredBar>>
      BY <1>0, <1>5, <2>2 DEF Release, stateBar, StateOf, offeredBar
    <3>2. Shared!GiveUp(u, c)
      BY <2>2, <3>1, <1>1, <1>2, <1>3 DEF Shared!GiveUp, claimsBar
    <3>3. QED
      BY <3>2 DEF Shared!Next
  <2>3. QED
    BY <2>1, <2>2
<1>6. QED
  BY <1>4, <1>5

\* A connection opens, fails or drops.
LEMMA LinkRefines ==
  ASSUME IInv, IInv', NEW c \in Conns, DialSettles(c) \/ Drop(c)
  PROVE  Shared!Next
<1> USE DEF IInv
<1>1. UNCHANGED claimsBar
  BY Unmoved DEF DialSettles, Drop, userVars, claimsBar
<1>2. CASE DialSettles(c)
  <2>1. link[c] = "dialling" /\ UNCHANGED <<usable, listed>>
    BY <1>2 DEF DialSettles
  <2>2. PICK outcome \in {"up", "failed"} : link' = [link EXCEPT ![c] = outcome]
    BY <1>2 DEF DialSettles
  <2>3. UNCHANGED offeredBar
    BY <2>1 DEF offeredBar
  <2>4. CASE outcome = "up"
    BY <2>1, <2>2, <2>3, <2>4, <1>1
    DEF Shared!Next, Shared!Opens, stateBar, StateOf, TypeOK
  <2>5. CASE outcome = "failed"
    BY <2>1, <2>2, <2>3, <2>5, <1>1
    DEF Shared!Next, Shared!Fails, stateBar, StateOf, TypeOK
  <2>6. QED
    BY <2>4, <2>5
<1>3. CASE Drop(c)
  <2>1. offeredBar' = offeredBar \ {c}
    <3>1. listed' = listed \ {c}
      BY <1>3 DEF Drop, Retire
    <3>2. QED
      BY <3>1, OfferedBar DEF OfferedIsHealthy, TypeOK, offeredBar
  <2>2. stateBar[c] = "open" /\ stateBar' = [stateBar EXCEPT ![c] = "gone"]
    BY <1>3 DEF Drop, stateBar, StateOf, TypeOK
  <2>3. QED
    BY <2>1, <2>2, <1>1 DEF Shared!Next, Shared!Drops
<1>4. QED
  BY <1>2, <1>3

\* Steps that only stop offering connections, if they change anything.
LEMMA WithdrawRefines ==
  ASSUME IInv, IInv', NEW S \in SUBSET Conns, UNCHANGED <<claimsBar, link>>,
         listed' = listed \ S
  PROVE  Shared!Next
<1>1. offeredBar = listed /\ offeredBar' = listed'
  BY OfferedBar DEF IInv, OfferedIsHealthy, TypeOK, offeredBar
<1>2. UNCHANGED stateBar
  BY DEF stateBar, StateOf
<1>3. QED
  BY <1>1, <1>2 DEF Shared!Next, Shared!Withdraw

LEMMA QuietRefines ==
  ASSUME IInv, IInv',
         \/ \E c \in Conns : Wire(c)
         \/ \E u \in Users : ResumeOk(u) \/ Invalidate(u)
         \/ InvalidateAll
  PROVE  Shared!Next
<1> USE DEF IInv
<1>1. ASSUME NEW c \in Conns, Wire(c)
      PROVE  Shared!Next
  <2>1. UNCHANGED <<claimsBar, link>>
    BY <1>1, Unmoved DEF Wire, userVars, claimsBar
  <2>2. \E S \in SUBSET Conns : listed' = listed \ S
    <3>1. CASE link[c] = "failed"
      BY <3>1, <1>1 DEF Wire, Retire
    <3>2. CASE link[c] # "failed"
      <4>1. listed' = listed \ {}
        BY <3>2, <1>1 DEF Wire
      <4>2. QED
        BY <4>1
    <3>3. QED
      BY <3>1, <3>2
  <2>3. QED
    BY <2>1, <2>2, WithdrawRefines
<1>2. ASSUME NEW u \in Users, ResumeOk(u)
      PROVE  Shared!Next
  <2>1. UNCHANGED <<claimsBar, link>>
    BY <1>2, Staying DEF ResumeOk, entryVars, claimsBar
  <2>2. listed' = listed \ {}
    BY <1>2 DEF ResumeOk, entryVars
  <2>3. QED
    BY <2>1, <2>2, WithdrawRefines
<1>3. ASSUME NEW u \in Users, Invalidate(u)
      PROVE  Shared!Next
  <2>1. UNCHANGED <<claimsBar, link>>
    BY <1>3, Unmoved DEF Invalidate, userVars, claimsBar
  <2>2. listed' = listed \ {at[u]} /\ {at[u]} \in SUBSET Conns
    BY <1>3 DEF Invalidate, Retire, ClaimsAreLive
  <2>3. QED
    BY <2>1, <2>2, WithdrawRefines
<1>4. CASE InvalidateAll
  <2>1. UNCHANGED <<claimsBar, link>>
    BY <1>4, Unmoved DEF InvalidateAll, userVars, claimsBar
  <2>2. listed' = listed \ listed /\ listed \in SUBSET Conns
    BY <1>4 DEF InvalidateAll, Retire, TypeOK
  <2>3. QED
    BY <2>1, <2>2, WithdrawRefines
<1>5. QED
  BY <1>1, <1>2, <1>3, <1>4

LEMMA StepRefines == IInv /\ IInv' /\ [Next]_vars => [Shared!Next]_(Shared!vars)
<1> SUFFICES ASSUME IInv, IInv', [Next]_vars PROVE [Shared!Next]_(Shared!vars)
  OBVIOUS
<1>1. CASE UNCHANGED vars
  BY <1>1, Unmoved
  DEF vars, userVars, Shared!vars, claimsBar, offeredBar, stateBar, StateOf
<1>2. ASSUME NEW u \in Users, NEW k \in Keys,
             AcquireShared(u, k) \/ AcquireFresh(u, k)
      PROVE  Shared!Next
  BY <1>2, AcquireRefines
<1>3. ASSUME NEW u \in Users, ResumeFailed(u) \/ Release(u)
      PROVE  Shared!Next
  BY <1>3, GiveUpRefines
<1>4. ASSUME NEW c \in Conns, DialSettles(c) \/ Drop(c)
      PROVE  Shared!Next
  BY <1>4, LinkRefines
<1>5. ASSUME \/ \E c \in Conns : Wire(c)
             \/ \E u \in Users : ResumeOk(u) \/ Invalidate(u)
             \/ InvalidateAll
      PROVE  Shared!Next
  BY <1>5, QuietRefines
<1>6. QED
  BY <1>1, <1>2, <1>3, <1>4, <1>5 DEF Next, PoolStep, ReleaseAgain

\* The pool implements SharedConnections: a connection is closed by the step that
\* gives up its last claim and by no other, and a withdrawn one is never claimed.
THEOREM PoolImplementsShared == Spec => ImplementsShared
<1>1. Init => Shared!Init
  BY InitRefines
<1>2. IInv /\ IInv' /\ [Next]_vars => [Shared!Next]_(Shared!vars)
  BY StepRefines
<1>3. QED
  BY <1>1, <1>2, Invariance, PTL DEF Spec, ImplementsShared, Shared!Spec
=============================================================================
