-------------------------- MODULE SshSessionProofs --------------------------
(***************************************************************************)
(* Proofs about SshSession for every set of sessions, calls and keys.  The *)
(* pool's books are kept by the pool's own steps, as ConnectionPoolProofs  *)
(* shows, and by a session's move, which is none of them; what is left is  *)
(* how the fields of each session go with its lease (InOrder).             *)
(***************************************************************************)
EXTENDS SshSession, TLAPS

Proved == INSTANCE ConnectionPoolProofs WITH Users <- Sessions

USE DEF Pool!Conns, Proved!Conns, Pool!NoConn, Proved!NoConn, Pool!Links, Proved!Links,
        Pool!Phases, Proved!Phases

-----------------------------------------------------------------------------
(* The pool whose steps these are is the one the proofs are about. *)

LEMMA Assumed == Proved!PoolAssumptions
BY SessionAssumptions DEF Pool!PoolAssumptions, Proved!PoolAssumptions,
   Pool!IsFiniteSet, Proved!IsFiniteSet

LEMMA SameInvariant ==
  /\ Pool!IInv <=> Proved!IInv
  /\ Pool!TypeOK <=> Proved!TypeOK
BY DEF Pool!IInv, Proved!IInv, Pool!TypeOK, Proved!TypeOK, Pool!DialOrder, Proved!DialOrder,
   Pool!OfferedIsHealthy, Proved!OfferedIsHealthy, Pool!WiredIsSettled, Proved!WiredIsSettled,
   Pool!ClaimsAreLive, Proved!ClaimsAreLive, Pool!NobodyOrphaned, Proved!NobodyOrphaned,
   Pool!LeaseAccounting, Proved!LeaseAccounting, Pool!CapRespected, Proved!CapRespected,
   Pool!Claimants, Proved!Claimants, Pool!Cardinality, Proved!Cardinality

LEMMA SameInvariantNext == Pool!IInv' <=> Proved!IInv'
BY DEF Pool!IInv, Proved!IInv, Pool!TypeOK, Proved!TypeOK, Pool!DialOrder, Proved!DialOrder,
   Pool!OfferedIsHealthy, Proved!OfferedIsHealthy, Pool!WiredIsSettled, Proved!WiredIsSettled,
   Pool!ClaimsAreLive, Proved!ClaimsAreLive, Pool!NobodyOrphaned, Proved!NobodyOrphaned,
   Pool!LeaseAccounting, Proved!LeaseAccounting, Pool!CapRespected, Proved!CapRespected,
   Pool!Claimants, Proved!Claimants, Pool!Cardinality, Proved!Cardinality

LEMMA SameAcquire ==
  ASSUME NEW s \in Sessions, NEW k \in Keys, Pool!AcquireShared(s, k) \/ Pool!AcquireFresh(s, k)
  PROVE  Proved!AcquireShared(s, k) \/ Proved!AcquireFresh(s, k)
BY DEF Pool!AcquireShared, Proved!AcquireShared, Pool!AcquireFresh, Proved!AcquireFresh,
   Pool!Roomy, Proved!Roomy, Pool!Wait, Proved!Wait

LEMMA SameEntryStep ==
  ASSUME NEW c \in Pool!Conns, Pool!DialSettles(c) \/ Pool!Wire(c) \/ Pool!Drop(c)
  PROVE  Proved!DialSettles(c) \/ Proved!Wire(c) \/ Proved!Drop(c)
BY DEF Pool!DialSettles, Proved!DialSettles, Pool!Wire, Proved!Wire, Pool!Drop, Proved!Drop,
   Pool!Retire, Proved!Retire

LEMMA SameUserStep ==
  ASSUME NEW s \in Sessions
  PROVE  /\ Pool!ResumeOk(s) => Proved!ResumeOk(s)
         /\ Pool!ResumeFailed(s) => Proved!ResumeFailed(s)
         /\ Pool!Invalidate(s) => Proved!Invalidate(s)
         /\ Pool!Release(s) => Proved!Release(s)
         /\ Pool!ReleaseAgain(s) => UNCHANGED poolVars
BY DEF Pool!ResumeOk, Proved!ResumeOk, Pool!ResumeFailed, Proved!ResumeFailed,
   Pool!Invalidate, Proved!Invalidate, Pool!Release, Proved!Release, Pool!ReleaseAgain,
   Pool!Retire, Proved!Retire, Pool!entryVars,
   Proved!entryVars, Pool!vars, poolVars

-----------------------------------------------------------------------------
(* The pool's books under the steps of sessions *)

\* A step of the pool keeps its books.
LEMMA PoolKeepsBooks ==
  ASSUME Pool!IInv,
         \/ \E s \in Sessions, k \in Keys : Pool!AcquireShared(s, k) \/ Pool!AcquireFresh(s, k)
         \/ \E c \in Pool!Conns : Pool!DialSettles(c) \/ Pool!Wire(c) \/ Pool!Drop(c)
         \/ \E s \in Sessions : \/ Pool!ResumeOk(s) \/ Pool!ResumeFailed(s)
                                \/ Pool!Invalidate(s) \/ Pool!Release(s)
         \/ Pool!InvalidateAll
  PROVE  Pool!IInv'
<1>1. Proved!IInv
  BY SameInvariant
<1>2. CASE \E s \in Sessions, k \in Keys : Pool!AcquireShared(s, k) \/ Pool!AcquireFresh(s, k)
  BY <1>1, <1>2, SameAcquire, SameInvariantNext, Assumed,
     Proved!AcquireSharedIInv, Proved!AcquireFreshIInv
<1>3. CASE \E c \in Pool!Conns : Pool!DialSettles(c) \/ Pool!Wire(c) \/ Pool!Drop(c)
  BY <1>1, <1>3, SameEntryStep, SameInvariantNext, Assumed, Proved!EntryStepIInv
<1>4. CASE \E s \in Sessions : \/ Pool!ResumeOk(s) \/ Pool!ResumeFailed(s)
                               \/ Pool!Invalidate(s) \/ Pool!Release(s)
  BY <1>1, <1>4, SameUserStep, SameInvariantNext, Assumed,
     Proved!UserStepIInv, Proved!ResumeFailedIInv, Proved!ReleaseIInv
<1>5. CASE Pool!InvalidateAll
  <2>1. Proved!InvalidateAll
    BY <1>5 DEF Pool!InvalidateAll, Proved!InvalidateAll, Pool!Retire, Proved!Retire
  <2>2. QED
    BY <1>1, <2>1, SameInvariantNext, Assumed, Proved!InvalidateAllIInv
<1>6. QED
  BY <1>2, <1>3, <1>4, <1>5

LEMMA IdlePoolKeepsBooks ==
  ASSUME Pool!IInv, UNCHANGED poolVars
  PROVE  Pool!IInv'
<1>1. Proved!IInv
  BY SameInvariant
<1>2. UNCHANGED Proved!vars
  BY DEF poolVars, Proved!vars
<1>3. QED
  BY <1>1, <1>2, SameInvariantNext, Assumed, Proved!StutterIInv

\* A session's move gives its lease back and withdraws the connection at once, or
\* withdraws the connection of a lease given back before.
LEMMA MoveKeepsBooks ==
  ASSUME Pool!IInv, NEW s \in Sessions, RetireAndRelease(s)
  PROVE  Pool!IInv'
<1>1. Proved!IInv
  BY SameInvariant
<1>2. Proved!Retire({at[s]})
  BY DEF RetireAndRelease, Pool!Retire, Proved!Retire
<1>3. CASE phase[s] = "holding"
  BY <1>1, <1>2, <1>3, SameInvariantNext, Assumed, Proved!WithdrawAndReleaseIInv
  DEF RetireAndRelease
<1>4. CASE phase[s] # "holding"
  BY <1>1, <1>2, <1>4, SameInvariantNext, Assumed, Proved!WithdrawIInv DEF RetireAndRelease
<1>5. QED
  BY <1>3, <1>4

-----------------------------------------------------------------------------
(* IInv is inductive *)

\* What the pool's invariant says of a session's connection.
LEMMA Connection ==
  ASSUME Pool!IInv, NEW s \in Sessions
  PROVE  /\ phase[s] # "idle" => at[s] \in Pool!Conns
         /\ phase[s] = "waiting" => link[at[s]] # "none"
         /\ phase[s] = "holding" => link[at[s]] \notin {"none", "closed"}
BY DEF Pool!IInv, Pool!ClaimsAreLive

LEMMA InitIInv == Init => IInv
<1> SUFFICES ASSUME Init PROVE IInv
  OBVIOUS
<1>1. Pool!IInv
  <2>1. Proved!Init
    BY DEF Init, Pool!Init, Proved!Init
  <2>2. QED
    BY <2>1, SameInvariant, Assumed, Proved!InitIInv
<1>2. TypeOK
  BY <1>1 DEF Init, TypeOK, CallStates, Pool!IInv
<1>3. ASSUME NEW s \in Sessions
      PROVE  InOrder(s)
  BY <1>3 DEF Init, Pool!Init, InOrder
<1>4. QED
  BY <1>1, <1>2, <1>3 DEF IInv

\* The pool's own moves leave the sessions what they have.
LEMMA PoolMovesIInv == ASSUME IInv, PoolMoves PROVE IInv'
<1>1. Pool!IInv'
  BY PoolKeepsBooks DEF PoolMoves, IInv
<1>2. TypeOK'
  BY <1>1 DEF IInv, TypeOK, PoolMoves, sessionVars, Pool!IInv
<1>3. ASSUME NEW t \in Sessions
      PROVE  InOrder(t)'
  <2>0. InOrder(t) /\ Pool!TypeOK /\ UNCHANGED sessionVars
    BY DEF IInv, PoolMoves, TypeOK
  <2>1. CASE \E c \in Pool!Conns : Pool!DialSettles(c) \/ Pool!Wire(c) \/ Pool!Drop(c)
    <3>1. PICK c \in Pool!Conns : Pool!DialSettles(c) \/ Pool!Wire(c) \/ Pool!Drop(c)
      BY <2>1
    <3>2. UNCHANGED <<phase, at>> /\ listed' \subseteq listed
      BY <3>1 DEF Pool!DialSettles, Pool!Wire, Pool!Drop, Pool!Retire
    <3>3. \A d \in Pool!Conns : link[d] # "none" => link'[d] # "none"
      BY <3>1, <2>0 DEF Pool!DialSettles, Pool!Wire, Pool!Drop, Pool!TypeOK
    <3>4. phase[t] # "idle" => at[t] \in Pool!Conns
      BY Connection DEF IInv
    <3>5. QED
      BY <2>0, <3>2, <3>3, <3>4 DEF InOrder, sessionVars
  <2>2. CASE \E s \in Sessions : Pool!ResumeFailed(s)
    BY <2>0, <2>2 DEF Pool!ResumeFailed, InOrder, sessionVars, Pool!TypeOK
  <2>3. CASE Pool!InvalidateAll \/ \E s \in Sessions : Pool!Invalidate(s)
    BY <2>0, <2>3 DEF Pool!Invalidate, Pool!InvalidateAll, Pool!Retire, InOrder, sessionVars
  <2>4. QED
    BY <2>1, <2>2, <2>3 DEF PoolMoves
<1>4. QED
  BY <1>1, <1>2, <1>3 DEF IInv

LEMMA SharedIInv == ASSUME IInv, NEW s \in Sessions, Shared(s) PROVE IInv'
<1>1. PICK k \in Keys : Pool!AcquireShared(s, k) \/ Pool!AcquireFresh(s, k)
  BY DEF Shared
<1>2. Pool!IInv'
  BY <1>1, PoolKeepsBooks DEF IInv
<1>3. TypeOK'
  BY <1>2 DEF IInv, TypeOK, Shared, sessionVars, Pool!IInv
<1>4. /\ \E c \in Pool!Conns : Pool!Wait(s, c)
      /\ \A d \in Pool!Conns :
            link[d] # "none" => link'[d] # "none" /\ (d \in listed' => d \in listed)
  <2>0. Pool!TypeOK /\ Pool!DialOrder
    BY DEF IInv, TypeOK, Pool!IInv
  <2>1. CASE Pool!AcquireShared(s, k)
    BY <2>0, <2>1 DEF Pool!AcquireShared, Pool!Roomy, Pool!TypeOK
  <2>2. CASE Pool!AcquireFresh(s, k)
    <3>1. PICK c : c = dialled + 1
      OBVIOUS
    <3>2. /\ c \in Pool!Conns /\ Pool!Wait(s, c)
          /\ link' = [link EXCEPT ![c] = "dialling"] /\ listed' = listed \cup {c}
      BY <2>0, <2>2, <3>1, SessionAssumptions
      DEF Pool!AcquireFresh, Pool!TypeOK, Pool!PoolAssumptions
    <3>3. link[c] = "none"
      BY <2>0, <3>1, <3>2 DEF Pool!DialOrder, Pool!TypeOK
    <3>4. QED
      BY <2>0, <3>2, <3>3 DEF Pool!TypeOK
  <2>3. QED
    BY <1>1, <2>1, <2>2
<1>5. PICK c \in Pool!Conns : Pool!Wait(s, c)
  BY <1>4
<1>6. ASSUME NEW t \in Sessions
      PROVE  InOrder(t)'
  <2>0. /\ InOrder(t) /\ Pool!TypeOK /\ UNCHANGED sessionVars
        /\ own[s] = 0 /\ phase[s] = "idle" /\ moving[s] \in Nat /\ own[s] \in Nat
    BY DEF IInv, Shared, Fresh, TypeOK
  <2>1. phase'[s] = "waiting" /\ (t # s => phase'[t] = phase[t] /\ at'[t] = at[t])
    BY <1>5, <2>0 DEF Pool!Wait, Pool!TypeOK
  <2>2. CASE t = s
    BY <2>0, <2>1, <2>2 DEF InOrder, sessionVars
  <2>3. CASE t # s
    <3>1. phase[t] # "idle" => at[t] \in Pool!Conns
      BY Connection DEF IInv
    <3>2. QED
      BY <1>4, <2>0, <2>1, <2>3, <3>1 DEF InOrder, sessionVars
  <2>4. QED
    BY <2>2, <2>3
<1>7. QED
  BY <1>2, <1>3, <1>6 DEF IInv

LEMMA SharedOkIInv == ASSUME IInv, NEW s \in Sessions, SharedOk(s) PROVE IInv'
<1>1. Pool!IInv'
  BY PoolKeepsBooks DEF IInv, SharedOk
<1>2. TypeOK'
  BY <1>1 DEF IInv, TypeOK, SharedOk, Pool!IInv
<1>3. ASSUME NEW t \in Sessions
      PROVE  InOrder(t)'
  <2>1. /\ phase[s] = "waiting" /\ phase' = [phase EXCEPT ![s] = "holding"]
        /\ leased' = [leased EXCEPT ![s] = TRUE]
        /\ UNCHANGED <<at, link, listed, own, moving, gone>>
    BY DEF SharedOk, Pool!ResumeOk, Pool!entryVars
  <2>2. InOrder(t) /\ phase \in [Sessions -> Pool!Phases] /\ leased \in [Sessions -> BOOLEAN]
    BY DEF IInv, TypeOK, Pool!TypeOK
  <2>3. QED
    BY <2>1, <2>2 DEF InOrder
<1>4. QED
  BY <1>1, <1>2, <1>3 DEF IInv

LEMMA ConnectIInv == ASSUME IInv, NEW s \in Sessions, Connect(s) PROVE IInv'
<1>1. Pool!IInv'
  BY IdlePoolKeepsBooks DEF IInv, Connect
<1>2. TypeOK'
  BY <1>1 DEF IInv, TypeOK, Connect, Pool!IInv
<1>3. ASSUME NEW t \in Sessions
      PROVE  InOrder(t)'
  BY <1>3 DEF IInv, TypeOK, InOrder, Connect, Fresh, poolVars
<1>4. QED
  BY <1>1, <1>2, <1>3 DEF IInv

\* A channel that is asked for, granted, refused or closed changes no connection.
LEMMA ChannelIInv ==
  ASSUME IInv, NEW s \in Sessions, NEW i \in Calls,
         OpenChannel(s, i) \/ Granted(s, i) \/ CallEnds(s, i)
  PROVE  IInv'
<1>1. UNCHANGED <<poolVars, leased, own, moving, gone>>
  BY DEF OpenChannel, Granted, CallEnds
<1>2. Pool!IInv'
  BY <1>1, IdlePoolKeepsBooks DEF IInv
<1>3. \E state \in CallStates : SetCall(s, i, state)
  BY DEF OpenChannel, Granted, CallEnds, CallStates
<1>4. call' \in [Sessions -> [Calls -> CallStates]]
  BY <1>3 DEF SetCall, IInv, TypeOK
<1>5. TypeOK'
  BY <1>1, <1>2, <1>4 DEF IInv, TypeOK, Pool!IInv
<1>6. ASSUME NEW t \in Sessions
      PROVE  InOrder(t)'
  BY <1>1 DEF IInv, InOrder, poolVars
<1>7. QED
  BY <1>2, <1>5, <1>6 DEF IInv

LEMMA RefusedIInv ==
  ASSUME IInv, NEW s \in Sessions, NEW i \in Calls, Refused(s, i)
  PROVE  IInv'
<1>1. UNCHANGED <<poolVars, leased, own, gone>>
  BY DEF Refused
<1>2. Pool!IInv'
  BY <1>1, IdlePoolKeepsBooks DEF IInv
<1>3. call' \in [Sessions -> [Calls -> CallStates]]
  <2>1. \E state \in CallStates : SetCall(s, i, state)
    BY DEF Refused, CallStates
  <2>2. QED
    BY <2>1 DEF SetCall, IInv, TypeOK
<1>4. /\ moving' \in [Sessions -> Nat]
      /\ \A t \in Sessions : moving'[t] = moving[t] \/ (leased[t] /\ moving[t] = 0 /\ moving'[t] = 1)
  BY DEF Refused, IInv, TypeOK
<1>5. TypeOK'
  BY <1>1, <1>2, <1>3, <1>4 DEF IInv, TypeOK, Pool!IInv
<1>6. ASSUME NEW t \in Sessions
      PROVE  InOrder(t)'
  BY <1>1, <1>4 DEF IInv, TypeOK, InOrder, poolVars
<1>7. QED
  BY <1>2, <1>5, <1>6 DEF IInv

LEMMA AwaitersType ==
  ASSUME TypeOK, NEW s \in Sessions, NEW state \in CallStates, Awaiters(s, state)
  PROVE  call' \in [Sessions -> [Calls -> CallStates]]
BY DEF Awaiters, TypeOK

\* The move itself: the session's lease is given back, unless it was before, and
\* its connection is withdrawn; no other session is touched.
LEMMA GoDedicatedOkIInv == ASSUME IInv, NEW s \in Sessions, GoDedicatedOk(s) PROVE IInv'
<1>1. Moved(s) /\ RetireAndRelease(s) /\ UNCHANGED gone
  BY DEF GoDedicatedOk
<1>2. Pool!IInv'
  BY <1>1, MoveKeepsBooks DEF IInv
<1>3. /\ moving[s] > 0 /\ moving' = [moving EXCEPT ![s] = @ - 1]
      /\ own' = [own EXCEPT ![s] = @ + 1] /\ leased' = [leased EXCEPT ![s] = FALSE]
  BY <1>1 DEF Moved
<1>4. call' \in [Sessions -> [Calls -> CallStates]]
  <2>1. "retrying" \in CallStates
    BY DEF CallStates
  <2>2. TypeOK /\ Awaiters(s, "retrying")
    BY <1>1 DEF Moved, IInv
  <2>3. QED
    BY <2>1, <2>2, AwaitersType
<1>5. TypeOK'
  <2>1. own' \in [Sessions -> Nat] /\ moving' \in [Sessions -> Nat]
    <3>1. /\ own \in [Sessions -> Nat] /\ moving \in [Sessions -> Nat]
          /\ own[s] + 1 \in Nat /\ moving[s] - 1 \in Nat
      BY <1>3 DEF IInv, TypeOK
    <3>2. QED
      BY <1>3, <3>1
  <2>2. leased' \in [Sessions -> BOOLEAN] /\ gone' \in [Sessions -> BOOLEAN]
    BY <1>1, <1>3 DEF IInv, TypeOK
  <2>3. QED
    BY <1>2, <1>4, <2>1, <2>2 DEF TypeOK, Pool!IInv
<1>6. phase[s] \in {"holding", "released"} /\ at[s] \in Pool!Conns
  BY <1>3, Connection DEF IInv, InOrder
<1>7. /\ phase' = [phase EXCEPT ![s] = "released"] /\ at' = at
      /\ listed' = listed \ {at[s]}
  BY <1>1, <1>6 DEF RetireAndRelease, Pool!Retire, IInv, TypeOK, Pool!TypeOK
<1>8. \A d \in Pool!Conns : link[d] # "none" => link'[d] # "none"
  BY <1>1, <1>6 DEF RetireAndRelease, IInv, TypeOK, Pool!TypeOK
<1>9. ASSUME NEW t \in Sessions
      PROVE  InOrder(t)'
  <2>1. phase[t] # "idle" => at[t] \in Pool!Conns
    BY Connection DEF IInv
  <2>2. /\ InOrder(t) /\ own[s] \in Nat /\ moving[s] \in Nat /\ own[t] \in Nat /\ moving[t] \in Nat
    BY DEF IInv, TypeOK
  <2>3. CASE t # s
    BY <1>1, <1>3, <1>7, <1>8, <2>1, <2>2, <2>3 DEF InOrder, IInv, TypeOK, Pool!TypeOK
  <2>4. CASE t = s
    <3>1. phase'[s] = "released" /\ ~leased'[s] /\ at'[s] \notin listed'
      BY <1>3, <1>7 DEF IInv, TypeOK, Pool!TypeOK
    <3>2. own'[s] = own[s] + 1 /\ moving'[s] = moving[s] - 1
      BY <1>3 DEF IInv, TypeOK
    <3>3. link'[at'[s]] # "none"
      BY <1>6, <1>7, <1>8, <2>2, <2>4, Connection DEF InOrder, IInv
    <3>4. QED
      BY <2>2, <2>4, <3>1, <3>2, <3>3 DEF InOrder
  <2>5. QED
    BY <2>3, <2>4
<1>10. QED
  BY <1>2, <1>5, <1>9 DEF IInv

LEMMA GoDedicatedFailsIInv ==
  ASSUME IInv, NEW s \in Sessions, GoDedicatedFails(s)
  PROVE  IInv'
<1>1. /\ moving[s] > 0 /\ moving' = [moving EXCEPT ![s] = @ - 1] /\ Awaiters(s, "idle")
      /\ UNCHANGED <<poolVars, leased, own, gone>>
  BY DEF GoDedicatedFails
<1>2. Pool!IInv'
  BY <1>1, IdlePoolKeepsBooks DEF IInv
<1>3. call' \in [Sessions -> [Calls -> CallStates]]
  <2>1. "idle" \in CallStates
    BY DEF CallStates
  <2>2. TypeOK
    BY DEF IInv
  <2>3. QED
    BY <1>1, <2>1, <2>2, AwaitersType
<1>4. TypeOK'
  <2>1. moving' \in [Sessions -> Nat]
    <3>1. moving \in [Sessions -> Nat] /\ moving[s] - 1 \in Nat
      BY <1>1 DEF IInv, TypeOK
    <3>2. QED
      BY <1>1, <3>1
  <2>2. QED
    BY <1>1, <1>2, <1>3, <2>1 DEF IInv, TypeOK, Pool!IInv
<1>5. ASSUME NEW t \in Sessions
      PROVE  InOrder(t)'
  BY <1>1 DEF IInv, TypeOK, InOrder, poolVars
<1>6. QED
  BY <1>2, <1>4, <1>5 DEF IInv

\* disconnect(): the pool takes the lease back, unless a move in flight had it
\* done already; or the session's own connection closes.
LEMMA DisconnectIInv == ASSUME IInv, NEW s \in Sessions, Disconnect(s) PROVE IInv'
<1>1. CASE leased[s]
  <2>1. /\ Pool!Release(s) \/ Pool!ReleaseAgain(s)
        /\ UNCHANGED <<leased, own, moving, call>> /\ gone' = [gone EXCEPT ![s] = TRUE]
    BY <1>1 DEF Disconnect
  <2>2. Pool!IInv'
    BY <2>1, PoolKeepsBooks, IdlePoolKeepsBooks, SameUserStep DEF IInv
  <2>3. TypeOK'
    BY <2>1, <2>2 DEF IInv, TypeOK, Pool!IInv
  <2>4. /\ phase[s] \in {"holding", "released"} /\ at[s] \in Pool!Conns
    BY <1>1, Connection DEF IInv, InOrder
  <2>5. /\ at' = at /\ listed' \subseteq listed
        /\ phase' = [phase EXCEPT ![s] = "released"]
        /\ \A d \in Pool!Conns : link[d] # "none" => link'[d] # "none"
    <3>1. CASE Pool!Release(s)
      <4>1. /\ at' = at /\ phase' = [phase EXCEPT ![s] = "released"]
            /\ \/ link' = link
               \/ link' = [link EXCEPT ![at[s]] = IF @ = "up" THEN "closed" ELSE @]
        BY <3>1 DEF Pool!Release
      <4>2. listed' \subseteq listed
        BY <3>1 DEF Pool!Release, Pool!Retire
      <4>3. link \in [Pool!Conns -> Pool!Links]
        BY DEF IInv, TypeOK, Pool!TypeOK
      <4>4. QED
        BY <2>4, <4>1, <4>2, <4>3
    <3>2. CASE Pool!ReleaseAgain(s)
      <4>1. phase[s] = "released" /\ UNCHANGED poolVars
        BY <3>2, SameUserStep DEF Pool!ReleaseAgain
      <4>2. QED
        BY <4>1 DEF poolVars, IInv, TypeOK, Pool!TypeOK
    <3>3. QED
      BY <2>1, <3>1, <3>2
  <2>6. ASSUME NEW t \in Sessions
        PROVE  InOrder(t)'
    <3>1. InOrder(t) /\ (phase[t] # "idle" => at[t] \in Pool!Conns)
      BY Connection DEF IInv
    <3>2. CASE t # s
      BY <2>1, <2>5, <3>1, <3>2 DEF InOrder, IInv, TypeOK, Pool!TypeOK
    <3>3. CASE t = s
      <4>1. phase'[s] = "released" /\ leased'[s] /\ gone'[s]
        BY <1>1, <2>1, <2>5 DEF IInv, TypeOK, Pool!TypeOK
      <4>2. link'[at'[s]] # "none"
        BY <2>4, <2>5, <3>1, <3>3, Connection DEF InOrder, IInv
      <4>3. QED
        BY <1>1, <2>1, <3>1, <3>3, <4>1, <4>2 DEF InOrder
    <3>4. QED
      BY <3>2, <3>3
  <2>7. QED
    BY <2>2, <2>3, <2>6 DEF IInv
<1>2. CASE ~leased[s]
  <2>1. /\ own[s] > 0 /\ own' = [own EXCEPT ![s] = @ - 1]
        /\ UNCHANGED <<poolVars, leased, moving, call>> /\ gone' = [gone EXCEPT ![s] = TRUE]
    BY <1>2 DEF Disconnect, OnShared, OnOwn
  <2>2. Pool!IInv'
    BY <2>1, IdlePoolKeepsBooks DEF IInv
  <2>3. TypeOK'
    BY <2>1, <2>2 DEF IInv, TypeOK, Pool!IInv
  <2>4. ASSUME NEW t \in Sessions
        PROVE  InOrder(t)'
    <3>1. /\ InOrder(t) /\ own \in [Sessions -> Nat] /\ moving \in [Sessions -> Nat]
          /\ gone \in [Sessions -> BOOLEAN]
      BY DEF IInv, TypeOK
    <3>2. QED
      BY <1>2, <2>1, <3>1 DEF InOrder, poolVars
  <2>5. QED
    BY <2>2, <2>3, <2>4 DEF IInv
<1>3. leased[s] \in BOOLEAN
  BY DEF IInv, TypeOK
<1>4. QED
  BY <1>1, <1>2, <1>3

LEMMA StutterIInv == ASSUME IInv, UNCHANGED vars PROVE IInv'
<1>1. Pool!IInv'
  BY IdlePoolKeepsBooks DEF IInv, vars, poolVars
<1>2. TypeOK'
  BY <1>1 DEF IInv, TypeOK, vars, Pool!IInv
<1>3. ASSUME NEW t \in Sessions
      PROVE  InOrder(t)'
  BY DEF IInv, InOrder, vars
<1>4. QED
  BY <1>1, <1>2, <1>3 DEF IInv

LEMMA NextIInv == IInv /\ [Next]_vars => IInv'
<1> SUFFICES ASSUME IInv, [Next]_vars PROVE IInv'
  OBVIOUS
<1>1. CASE \E s \in Sessions : Shared(s) \/ SharedOk(s) \/ Connect(s) \/ Disconnect(s)
  BY <1>1, SharedIInv, SharedOkIInv, ConnectIInv, DisconnectIInv
<1>2. CASE \E s \in Sessions, i \in Calls :
             OpenChannel(s, i) \/ Granted(s, i) \/ CallEnds(s, i) \/ Refused(s, i)
  BY <1>2, ChannelIInv, RefusedIInv
<1>3. CASE \E s \in Sessions : GoDedicatedOk(s) \/ GoDedicatedFails(s)
  BY <1>3, GoDedicatedOkIInv, GoDedicatedFailsIInv
<1>4. CASE PoolMoves
  BY <1>4, PoolMovesIInv
<1>5. CASE UNCHANGED vars
  BY <1>5, StutterIInv
<1>6. QED
  BY <1>1, <1>2, <1>3, <1>4, <1>5 DEF Next

-----------------------------------------------------------------------------
(* What holds in every state *)

\* In every state each session's own fields go with its lease, and the pool's
\* books are right although sessions move away from it (session.ts:306-326).
THEOREM Invariance == Spec => []IInv
<1>1. Init => IInv
  BY InitIInv
<1>2. IInv /\ [Next]_vars => IInv'
  BY NextIInv
<1>3. QED
  BY <1>1, <1>2, PTL DEF Spec

\* A lease the pool counts for a session is one the session can still give back
\* (session.ts:321-324).
THEOREM NoLeaseIsLost == Spec => []NoLeaseLost
<1>1. IInv => NoLeaseLost
  BY DEF IInv, InOrder, NoLeaseLost
<1>2. QED
  BY <1>1, Invariance, PTL

\* No other session's move or disconnect closes the connection a session still
\* relies on (session.ts:292-297, 323).
THEOREM NobodyElseCuts == Spec => []NotCutByOthers
<1>1. IInv => NotCutByOthers
  <2>1. SUFFICES ASSUME IInv, NEW s \in Sessions, leased[s], ~gone[s]
                 PROVE  link[at[s]] # "closed"
    BY DEF NotCutByOthers
  <2>2. phase[s] = "holding"
    BY <2>1 DEF IInv, InOrder
  <2>3. QED
    BY <2>1, <2>2, Connection DEF IInv
<1>2. QED
  BY <1>1, Invariance, PTL

\* However many calls of a session are refused side by side, one connection of
\* its own is dialled for all of them (session.ts:311).
THEOREM OneOwnIsEnough == Spec => []OneOwnConnection
<1>1. IInv => OneOwnConnection
  BY DEF IInv, InOrder, OneOwnConnection
<1>2. QED
  BY <1>1, Invariance, PTL

\* The connection a session left because it was full is offered to nobody
\* afterwards (session.ts:322).
THEOREM FullStaysWithdrawn == Spec => []FullIsNotOffered
<1>1. IInv => FullIsNotOffered
  <2>1. SUFFICES ASSUME IInv, NEW s \in Sessions, phase[s] # "idle", ~leased[s], own[s] > 0
                 PROVE  at[s] \notin listed
    BY DEF FullIsNotOffered
  <2>2. phase[s] = "released"
    BY <2>1 DEF IInv, InOrder, TypeOK, Pool!TypeOK
  <2>3. QED
    BY <2>1, <2>2 DEF IInv, InOrder
<1>2. QED
  BY <1>1, Invariance, PTL

\* The pool's books survive sessions that move, disconnect twice and disconnect
\* while they move: leases count the callers of a connection, and it lives as long
\* as one of them counts on it (connectionPool.ts:8, session.ts:323).
THEOREM BooksStayRight == Spec => []PoolStaysSound
<1>1. IInv => PoolStaysSound
  BY DEF IInv, PoolStaysSound, Pool!IInv, Pool!LivesWithItsLeases, Pool!NobodyOrphaned,
     Pool!ClaimsAreLive, Pool!Claimants
<1>2. QED
  BY <1>1, Invariance, PTL
=============================================================================
