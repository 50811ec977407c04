----------------------------- MODULE SshSession -----------------------------
(***************************************************************************)
(* SSH sessions over the connection pool                                   *)
(* (packages/electron/src/core/ssh/session.ts, class SshSession).          *)
(*                                                                         *)
(* A session is made by shared() on a leased connection or by connect() on *)
(* one of its own.  Its users open channels concurrently (calls).  A       *)
(* server that refuses a channel on the shared connection moves the        *)
(* session to a connection of its own: goDedicated() dials it, gives the   *)
(* lease back, and the refused calls are opened once more there.           *)
(*                                                                         *)
(* A session object stands for one caller of the pool, used once: after    *)
(* disconnect() its owner makes a new one.                                 *)
(***************************************************************************)
EXTENDS Naturals, FiniteSets

CONSTANTS Sessions,   \* session objects
          Calls,      \* channel openings one session makes side by side
          Keys, MaxLeases, MaxDials   \* of the pool

VARIABLES dialled, keyOf, link, wired, usable, listed, leases, phase, at
VARIABLES
  leased,   \* this.lease !== undefined
  own,      \* connections dialled for this session alone that are still open
  moving,   \* goDedicated() dials in flight
  gone,     \* disconnect() was called
  call      \* call[s][i]: where a channel is in openChannel(), or open

Pool == INSTANCE ConnectionPool WITH Users <- Sessions

ASSUME SessionAssumptions == Pool!PoolAssumptions

poolVars    == <<dialled, keyOf, link, wired, usable, listed, leases, phase, at>>
sessionVars == <<leased, own, moving, gone, call>>
vars        == <<dialled, keyOf, link, wired, usable, listed, leases, phase, at,
                 leased, own, moving, gone, call>>

\* "opening", "open": a channel on the shared connection; "awaiting": refused
\* there, at the await of goingDedicated; "retrying", "openOnOwn": on the own one.
CallStates ==
  {"idle", "opening", "open", "awaiting", "retrying", "openOnOwn"}

TypeOK ==
  /\ Pool!TypeOK
  /\ leased \in [Sessions -> BOOLEAN]
  /\ own \in [Sessions -> Nat]
  /\ moving \in [Sessions -> Nat]
  /\ gone \in [Sessions -> BOOLEAN]
  /\ call \in [Sessions -> [Calls -> CallStates]]

Init ==
  /\ Pool!Init
  /\ leased = [s \in Sessions |-> FALSE]
  /\ own = [s \in Sessions |-> 0]
  /\ moving = [s \in Sessions |-> 0]
  /\ gone = [s \in Sessions |-> FALSE]
  /\ call = [s \in Sessions |-> [i \in Calls |-> "idle"]]

\* The connection a session of either kind hands its calls.
OnShared(s) == leased[s]
OnOwn(s)    == ~leased[s] /\ own[s] > 0

\* A session of shared() is alive from the acquire that answers it.
Fresh(s) == ~gone[s] /\ own[s] = 0 /\ phase[s] = "idle"

-----------------------------------------------------------------------------
(* Making a session *)

\* SshSession.shared(), up to the pool's await.
Shared(s) ==
  /\ Fresh(s)
  /\ \E k \in Keys : Pool!AcquireShared(s, k) \/ Pool!AcquireFresh(s, k)
  /\ UNCHANGED sessionVars

\* The pool answers: the session keeps the lease.
SharedOk(s) ==
  /\ Pool!ResumeOk(s)
  /\ leased' = [leased EXCEPT ![s] = TRUE]
  /\ UNCHANGED <<own, moving, gone, call>>

\* SshSession.connect(), once connectAndAuth() succeeds.
Connect(s) ==
  /\ Fresh(s)
  /\ own' = [own EXCEPT ![s] = 1]
  /\ UNCHANGED <<poolVars, leased, moving, gone, call>>

\* What happens to the pool and its connections meanwhile; a session in use may
\* call its lease suspect (invalidate), a reload withdraws all (useHosts).
PoolMoves ==
  /\ \/ \E c \in Pool!Conns : Pool!DialSettles(c) \/ Pool!Wire(c) \/ Pool!Drop(c)
     \/ \E s \in Sessions : Pool!ResumeFailed(s)
     \/ \E s \in Sessions : leased[s] /\ Pool!Invalidate(s)
     \/ Pool!InvalidateAll
  /\ UNCHANGED sessionVars

-----------------------------------------------------------------------------
(* openChannel() *)

SetCall(s, i, state) == call' = [call EXCEPT ![s][i] = state]

\* openChannel() asks for a channel on this.connection.client.
OpenChannel(s, i) ==
  /\ call[s][i] = "idle"
  /\ ~gone[s]
  /\ \/ OnShared(s) /\ SetCall(s, i, "opening")
     \/ OnOwn(s) /\ SetCall(s, i, "retrying")
  /\ UNCHANGED <<poolVars, leased, own, moving, gone>>

\* The server opens it, as long as the connection is there.
Granted(s, i) ==
  /\ \/ call[s][i] = "opening" /\ link[at[s]] = "up" /\ SetCall(s, i, "open")
     \/ call[s][i] = "retrying" /\ own[s] > 0 /\ SetCall(s, i, "openOnOwn")
  /\ UNCHANGED <<poolVars, leased, own, moving, gone>>

\* The call ends: an error of the opening, a refusal on an own connection, the
\* channel's close.
CallEnds(s, i) ==
  /\ call[s][i] \in {"opening", "retrying", "open", "openOnOwn"}
  /\ SetCall(s, i, "idle")
  /\ UNCHANGED <<poolVars, leased, own, moving, gone>>

\* Mutant: every refused call starts a dial of its own (no `??=`).
RefusedAlwaysDials(s, i) ==
  /\ call[s][i] = "opening" /\ link[at[s]] = "up"
  /\ IF leased[s]
     THEN /\ SetCall(s, i, "awaiting")
          /\ moving' = [moving EXCEPT ![s] = @ + 1]
     ELSE SetCall(s, i, "idle") /\ UNCHANGED moving
  /\ UNCHANGED <<poolVars, leased, own, gone>>

\* The server refuses a channel on the shared connection: the call waits for the
\* dedicated one, whose dial it starts unless another call already did.  A
\* session that has moved by now throws the refusal.
Refused(s, i) ==
  /\ call[s][i] = "opening" /\ link[at[s]] = "up"
  /\ IF leased[s]
     THEN /\ SetCall(s, i, "awaiting")
          /\ moving' = [moving EXCEPT ![s] = IF @ = 0 THEN 1 ELSE @]
     ELSE SetCall(s, i, "idle") /\ UNCHANGED moving
  /\ UNCHANGED <<poolVars, leased, own, gone>>

\* goDedicated() settled: every call that awaits it goes on to state.
Awaiters(s, state) ==
  call' = [call EXCEPT ![s] =
             [i \in Calls |-> IF @[i] = "awaiting" THEN state ELSE @[i]]]

\* Mutant: a release() that does not notice the lease was released before.
RetireAndReleaseTwice(s) ==
  /\ Pool!Retire({at[s]})
  /\ leases' = [leases EXCEPT ![at[s]] = @ - 1]
  /\ link' = IF leases[at[s]] = 1 /\ link[at[s]] = "up"
             THEN [link EXCEPT ![at[s]] = "closed"] ELSE link
  /\ phase' = [phase EXCEPT ![s] = "released"]
  /\ UNCHANGED <<dialled, keyOf, wired, at>>

\* lease.invalidate(); lease.release() in one go, for any lease of the pool.
RetireAndRelease(s) ==
  /\ Pool!Retire({at[s]})
  /\ IF phase[s] = "holding"
     THEN /\ leases' = [leases EXCEPT ![at[s]] = @ - 1]
          /\ link' = IF leases[at[s]] = 1 /\ link[at[s]] = "up"
                     THEN [link EXCEPT ![at[s]] = "closed"] ELSE link
          /\ phase' = [phase EXCEPT ![s] = "released"]
     ELSE UNCHANGED <<leases, link, phase>>
  /\ UNCHANGED <<dialled, keyOf, wired, at>>

Moved(s) ==
  /\ moving[s] > 0
  /\ moving' = [moving EXCEPT ![s] = @ - 1]
  /\ own' = [own EXCEPT ![s] = @ + 1]
  /\ leased' = [leased EXCEPT ![s] = FALSE]
  /\ Awaiters(s, "retrying")

\* Mutant: `this.lease = undefined` without giving the lease back.
GoDedicatedOkKeepsLease(s) ==
  /\ Moved(s)
  /\ UNCHANGED <<poolVars, gone>>

\* Mutant: the lease is released but its full connection stays on offer.
GoDedicatedOkStillOffered(s) ==
  /\ Moved(s)
  /\ Pool!Release(s) \/ Pool!ReleaseAgain(s)
  /\ UNCHANGED gone

\* Mutant: the shared connection itself is disconnected, not given back.
GoDedicatedOkCloses(s) ==
  /\ Moved(s)
  /\ Pool!Retire({at[s]})
  /\ link' = [link EXCEPT ![at[s]] = IF @ = "up" THEN "closed" ELSE @]
  /\ UNCHANGED <<dialled, keyOf, wired, leases, phase, at, gone>>

\* goDedicated() from its await on: this.connection is the dialled one, the
\* lease goes back, and the awaiting calls open their channels again.
GoDedicatedOk(s) ==
  /\ Moved(s)
  /\ RetireAndRelease(s)
  /\ UNCHANGED gone

\* Mutant: the awaiting calls never learn that the dial failed.
GoDedicatedFailsSilently(s) ==
  /\ moving[s] > 0
  /\ moving' = [moving EXCEPT ![s] = @ - 1]
  /\ UNCHANGED <<poolVars, leased, own, gone, call>>

\* The dial fails: so do the calls that await it; the next refusal tries again.
GoDedicatedFails(s) ==
  /\ moving[s] > 0
  /\ moving' = [moving EXCEPT ![s] = @ - 1]
  /\ Awaiters(s, "idle")
  /\ UNCHANGED <<poolVars, leased, own, gone>>

\* disconnect(): a lease goes back to the pool, an own connection is closed.
Disconnect(s) ==
  /\ OnShared(s) \/ OnOwn(s)
  /\ gone' = [gone EXCEPT ![s] = TRUE]
  /\ IF leased[s]
     THEN /\ Pool!Release(s) \/ Pool!ReleaseAgain(s)
          /\ UNCHANGED own
     ELSE /\ own' = [own EXCEPT ![s] = @ - 1]
          /\ UNCHANGED poolVars
  /\ UNCHANGED <<leased, moving, call>>

Next ==
  \/ \E s \in Sessions : Shared(s) \/ SharedOk(s) \/ Connect(s) \/ Disconnect(s)
  \/ \E s \in Sessions, i \in Calls :
       OpenChannel(s, i) \/ Granted(s, i) \/ CallEnds(s, i) \/ Refused(s, i)
  \/ \E s \in Sessions : GoDedicatedOk(s) \/ GoDedicatedFails(s)
  \/ PoolMoves

\* A dial ends (CONNECT_TIMEOUT_MS), an opening is answered or its connection is
\* found dead (keepaliveCountMax x keepaliveInterval); no user owes a disconnect().
Fairness ==
  \A s \in Sessions :
    /\ WF_vars(GoDedicatedOk(s) \/ GoDedicatedFails(s))
    /\ \A i \in Calls :
         WF_vars(/\ call[s][i] \in {"opening", "retrying"}
                 /\ CallEnds(s, i) \/ Granted(s, i) \/ Refused(s, i))

Spec == Init /\ [][Next]_vars /\ Fairness

-----------------------------------------------------------------------------
(* Properties *)

\* The pool's books stay right under sessions that move, disconnect twice and
\* disconnect while they move: leases count the callers, connections live as long
\* as somebody counts on them (connectionPool.ts:8).
PoolStaysSound == Pool!LeaseAccounting /\ Pool!LivesWithItsLeases

\* A lease is never dropped on the floor: while the pool counts a session's
\* lease, the session still has it and can give it back (session.ts:321-324).
NoLeaseLost == \A s \in Sessions : phase[s] = "holding" => leased[s]

\* One session costs one connection of its own at most, however many of its calls
\* are refused at the same time (session.ts:311).
OneOwnConnection == \A s \in Sessions : own[s] + moving[s] <= 1

\* The connection under a session that still relies on it is never closed from
\* this side by another session's move or disconnect (session.ts:292-297, 323).
NotCutByOthers ==
  \A s \in Sessions : leased[s] /\ ~gone[s] => link[at[s]] # "closed"

\* "That connection is full: later sessions should not queue up on it either."
\* (session.ts:322)
FullIsNotOffered ==
  \A s \in Sessions : phase[s] # "idle" /\ ~leased[s] /\ own[s] > 0 => at[s] \notin listed

\* Every channel asked for is opened or fails, also when it waits for a dial that
\* another call of the session started (session.ts:311-313).
CallsSettle ==
  \A s \in Sessions, i \in Calls :
    call[s][i] \in {"opening", "awaiting", "retrying"} ~>
      call[s][i] \in {"idle", "open", "openOnOwn"}

-----------------------------------------------------------------------------
(* The inductive invariant behind the safety properties above. *)

\* How a session's own fields go with its lease: it has the lease it holds, has no
\* other connection beside it, dials only once it was refused on it, and leaves
\* a connection it gave up off the pool's lists.
InOrder(s) ==
  /\ phase[s] = "holding" => leased[s]
  /\ leased[s] /\ ~gone[s] => phase[s] = "holding"
  /\ leased[s] => phase[s] \in {"holding", "released"} /\ own[s] = 0
  /\ phase[s] = "waiting" => own[s] = 0
  /\ moving[s] > 0 => phase[s] \in {"holding", "released"}
  /\ own[s] + moving[s] <= 1
  /\ phase[s] = "released" => link[at[s]] # "none"
  /\ phase[s] = "released" /\ ~leased[s] => at[s] \notin listed

IInv == TypeOK /\ Pool!IInv /\ \A s \in Sessions : InOrder(s)

-----------------------------------------------------------------------------
(* What the documentation says and the code does not keep *)

\* "Closes an own connection" (disconnect(), session.ts:292): no connection of a
\* disconnected session is left open once none is being dialled for it.
DisconnectClosesOwn ==
  \A s \in Sessions : gone[s] /\ moving[s] = 0 => own[s] = 0

\* "A restrictive server costs the connection that sharing saved, never the
\* feature" (session.ts:302-304): a session never closes the connection under the
\* channels it has open.
NeverCostsTheFeature ==
  \A s \in Sessions, i \in Calls :
    call[s][i] \in {"opening", "open"} /\ ~gone[s] => link[at[s]] # "closed"
=============================================================================
