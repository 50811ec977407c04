--------------------------- MODULE ConnectionPool ---------------------------
(***************************************************************************)
(* The pool that shares authenticated SSH connections between the metrics  *)
(* poller, terminals, SFTP sessions and automation runs                    *)
(* (packages/electron/src/core/ssh/connectionPool.ts).                     *)
(*                                                                         *)
(* An Entry of the source is a connection id 1..MaxDials, given out in the *)
(* order of the dials; entries.get(key) is the part of `listed` whose      *)
(* keyOf is that key, kept in dial order as the source's push keeps it.    *)
(* A user is one caller of acquire(): it waits for the dial, then holds    *)
(* the lease, and keeps the released lease object, whose release() and     *)
(* invalidate() it may call again.                                         *)
(*                                                                         *)
(* Every await is a step boundary.  A dial that settles only queues the    *)
(* reactions to it: the pool's own `then` (Wire), registered first, and    *)
(* then one continuation per waiter (Resume); other code may run between.  *)
(***************************************************************************)
EXTENDS Naturals, FiniteSets

CONSTANTS Users,      \* the callers of acquire()
          Keys,       \* what keyOf(target) yields: hosts with the same settings
          MaxLeases,  \* leases per connection (MAX_LEASES_PER_CONNECTION)
          MaxDials    \* bound: connections dialled in one behaviour

ASSUME PoolAssumptions ==
  /\ IsFiniteSet(Users)
  /\ Keys # {}
  /\ MaxLeases \in Nat \ {0}
  /\ MaxDials \in Nat

Conns == 1 .. MaxDials
NoConn == 0

VARIABLES
  dialled,   \* number of entries created so far: 1..dialled are in use
  keyOf,     \* keyOf[c]: the key whose list c was pushed to
  link,      \* the promise and the transport behind it, see Links
  wired,     \* entries whose `then` reaction has run
  usable,    \* entry.usable
  listed,    \* the entries still in their key's list
  leases,    \* entry.leases
  phase,     \* "idle" | "waiting" | "holding" | "released", per user
  at         \* the entry a user waits for, holds or last held

entryVars == <<dialled, keyOf, link, wired, usable, listed, leases>>
userVars  == <<phase, at>>
vars      == <<dialled, keyOf, link, wired, usable, listed, leases, phase, at>>

\* "dialling": promise pending.  "failed": rejected.  The others: resolved, and
\* the connection is up, was closed by disconnect(), or was dropped remotely.
Links == {"none", "dialling", "failed", "up", "closed", "dropped"}

Phases == {"idle", "waiting", "holding", "released"}

TypeOK ==
  /\ dialled \in 0 .. MaxDials
  /\ keyOf \in [Conns -> Keys]
  /\ link \in [Conns -> Links]
  /\ wired \in [Conns -> BOOLEAN]
  /\ usable \in [Conns -> BOOLEAN]
  /\ listed \in SUBSET Conns
  /\ leases \in [Conns -> Nat]
  /\ phase \in [Users -> Phases]
  /\ at \in [Users -> Conns \cup {NoConn}]

Init ==
  /\ dialled = 0
  /\ keyOf = [c \in Conns |-> CHOOSE k \in Keys : TRUE]  \* set by the dial
  /\ link = [c \in Conns |-> "none"]
  /\ wired = [c \in Conns |-> FALSE]
  /\ usable = [c \in Conns |-> FALSE]
  /\ listed = {}
  /\ leases = [c \in Conns |-> 0]
  /\ phase = [u \in Users |-> "idle"]
  /\ at = [u \in Users |-> NoConn]

-----------------------------------------------------------------------------
(* acquire *)

\* Mutant: the bound is off by one.
RoomyOneTooMany(k) ==
  {c \in listed : keyOf[c] = k /\ usable[c] /\ leases[c] <= MaxLeases}

\* The entries acquire() may reuse for key k.
Roomy(k) ==
  {c \in listed : keyOf[c] = k /\ usable[c] /\ leases[c] < MaxLeases}

Wait(u, c) ==
  /\ phase' = [phase EXCEPT ![u] = "waiting"]
  /\ at' = [at EXCEPT ![u] = c]

\* acquire() up to its await, with an entry to share: list.find takes the oldest.
AcquireShared(u, k) ==
  /\ phase[u] \in {"idle", "released"}
  /\ \E c \in Roomy(k) :
       /\ \A d \in Roomy(k) : c <= d
       /\ Wait(u, c)
       /\ leases' = [leases EXCEPT ![c] = @ + 1]
  /\ UNCHANGED <<dialled, keyOf, link, wired, usable, listed>>

\* acquire() up to its await, with none to share: dials and lists a fresh entry.
AcquireFresh(u, k) ==
  /\ phase[u] \in {"idle", "released"}
  /\ Roomy(k) = {}
  /\ dialled < MaxDials
  /\ LET c == dialled + 1
     IN /\ dialled' = c
        /\ keyOf' = [keyOf EXCEPT ![c] = k]
        /\ link' = [link EXCEPT ![c] = "dialling"]
        /\ usable' = [usable EXCEPT ![c] = TRUE]
        /\ listed' = listed \cup {c}
        /\ leases' = [leases EXCEPT ![c] = 1]
        /\ Wait(u, c)
  /\ UNCHANGED wired

\* retire(): not offered any more, and out of its key's list.  Idempotent.
Retire(S) ==
  /\ usable' = [c \in Conns |-> usable[c] /\ c \notin S]
  /\ listed' = listed \ S

DialSettles(c) ==
  /\ link[c] = "dialling"
  /\ \E outcome \in {"up", "failed"} : link' = [link EXCEPT ![c] = outcome]
  /\ UNCHANGED <<dialled, keyOf, wired, usable, listed, leases, phase, at>>

\* fresh.connection.then(register onClose, retire)
Wire(c) ==
  /\ link[c] \in {"up", "failed"}
  /\ ~wired[c]
  /\ wired' = [wired EXCEPT ![c] = TRUE]
  /\ IF link[c] = "failed" THEN Retire({c}) ELSE UNCHANGED <<usable, listed>>
  /\ UNCHANGED <<dialled, keyOf, link, leases, phase, at>>

\* A waiter continues with its lease...
ResumeOk(u) ==
  /\ phase[u] = "waiting"
  /\ wired[at[u]] /\ link[at[u]] # "failed"
  /\ phase' = [phase EXCEPT ![u] = "holding"]
  /\ UNCHANGED <<entryVars, at>>

\* Mutant: the failure path forgets entry.leases--.
ResumeFailedKeepsLease(u) ==
  /\ phase[u] = "waiting"
  /\ wired[at[u]] /\ link[at[u]] = "failed"
  /\ phase' = [phase EXCEPT ![u] = "idle"]
  /\ at' = [at EXCEPT ![u] = NoConn]
  /\ UNCHANGED entryVars

\* Mutant: the failure is swallowed and the caller waits on.
ResumeFailedWaitsOn(u) ==
  /\ phase[u] = "waiting"
  /\ wired[at[u]] /\ link[at[u]] = "failed"
  /\ UNCHANGED vars

\* ...or with the failure all of them see.
ResumeFailed(u) ==
  /\ phase[u] = "waiting"
  /\ wired[at[u]] /\ link[at[u]] = "failed"
  /\ leases' = [leases EXCEPT ![at[u]] = @ - 1]
  /\ phase' = [phase EXCEPT ![u] = "idle"]
  /\ at' = [at EXCEPT ![u] = NoConn]
  /\ UNCHANGED <<dialled, keyOf, link, wired, usable, listed>>

-----------------------------------------------------------------------------
(* The lease, and what happens to the connection *)

\* Mutant: release() without its `released` check.
ReleaseUnguarded(u) ==
  /\ phase[u] \in {"holding", "released"}
  /\ LET c == at[u]
     IN /\ leases' = [leases EXCEPT ![c] = @ - 1]
        /\ IF leases[c] = 1
           THEN /\ Retire({c})
                /\ link' = [link EXCEPT ![c] = IF @ = "up" THEN "closed" ELSE @]
           ELSE UNCHANGED <<usable, listed, link>>
  /\ phase' = [phase EXCEPT ![u] = "released"]
  /\ UNCHANGED <<dialled, keyOf, wired, at>>

\* Mutant: every release() closes the connection.
ReleaseAlwaysCloses(u) ==
  /\ phase[u] = "holding"
  /\ leases' = [leases EXCEPT ![at[u]] = @ - 1]
  /\ Retire({at[u]})
  /\ link' = [link EXCEPT ![at[u]] = IF @ = "up" THEN "closed" ELSE @]
  /\ phase' = [phase EXCEPT ![u] = "released"]
  /\ UNCHANGED <<dialled, keyOf, wired, at>>

\* Mutant: the last release() disconnects without retiring the entry.
ReleaseStillOffered(u) ==
  /\ phase[u] = "holding"
  /\ LET c == at[u]
     IN /\ leases' = [leases EXCEPT ![c] = @ - 1]
        /\ link' = IF leases[c] = 1 /\ link[c] = "up"
                   THEN [link EXCEPT ![c] = "closed"] ELSE link
  /\ phase' = [phase EXCEPT ![u] = "released"]
  /\ UNCHANGED <<dialled, keyOf, wired, usable, listed, at>>

\* release(): the last one retires the entry and disconnects it.
Release(u) ==
  /\ phase[u] = "holding"
  /\ LET c == at[u]
     IN /\ leases' = [leases EXCEPT ![c] = @ - 1]
        /\ IF leases[c] = 1
           THEN /\ Retire({c})
                /\ link' = [link EXCEPT ![c] = IF @ = "up" THEN "closed" ELSE @]
           ELSE UNCHANGED <<usable, listed, link>>
  /\ phase' = [phase EXCEPT ![u] = "released"]
  /\ UNCHANGED <<dialled, keyOf, wired, at>>

\* release() of a lease already released returns at once.
ReleaseAgain(u) ==
  /\ phase[u] = "released"
  /\ UNCHANGED vars

\* invalidate(), which a released lease still answers.
Invalidate(u) ==
  /\ phase[u] \in {"holding", "released"}
  /\ Retire({at[u]})
  /\ UNCHANGED <<dialled, keyOf, link, wired, leases, phase, at>>

InvalidateAll ==
  /\ Retire(listed)
  /\ UNCHANGED <<dialled, keyOf, link, wired, leases, phase, at>>

\* Mutant: the pool does not listen for the connection's close.
DropUnwatched(c) ==
  /\ link[c] = "up" /\ wired[c]
  /\ \A u \in Users : ~(phase[u] = "waiting" /\ at[u] = c)
  /\ link' = [link EXCEPT ![c] = "dropped"]
  /\ UNCHANGED <<dialled, keyOf, wired, usable, listed, leases, phase, at>>

\* The remote end hangs up: the registered onClose callback retires the entry.
\* A close event is a macrotask, so the reactions to the dial have run by then.
Drop(c) ==
  /\ link[c] = "up" /\ wired[c]
  /\ \A u \in Users : ~(phase[u] = "waiting" /\ at[u] = c)
  /\ link' = [link EXCEPT ![c] = "dropped"]
  /\ Retire({c})
  /\ UNCHANGED <<dialled, keyOf, wired, leases, phase, at>>

PoolStep ==
  \/ \E c \in Conns : DialSettles(c) \/ Wire(c) \/ Drop(c)
  \/ \E u \in Users : ResumeOk(u) \/ ResumeFailed(u)
  \/ InvalidateAll

Next ==
  \/ \E u \in Users, k \in Keys : AcquireShared(u, k) \/ AcquireFresh(u, k)
  \/ \E u \in Users : Release(u) \/ ReleaseAgain(u) \/ Invalidate(u)
  \/ PoolStep

\* Dials end within the per-hop timeouts (CONNECT_TIMEOUT_MS) and the event loop
\* runs the queued reactions; nobody owes a release, an invalidate or a drop.
Fairness ==
  /\ \A c \in Conns : WF_vars(DialSettles(c)) /\ WF_vars(Wire(c))
  /\ \A u \in Users : WF_vars(ResumeOk(u)) /\ WF_vars(ResumeFailed(u))

Spec == Init /\ [][Next]_vars /\ Fairness

-----------------------------------------------------------------------------
(* Properties *)

\* Who counts on entry c: the waiters for its dial and the holders of its leases.
Claimants(c) == {u \in Users : phase[u] \in {"waiting", "holding"} /\ at[u] = c}

\* entry.leases counts exactly the callers that wait for or hold the entry, over
\* failed dials, double releases and releases while others still wait: the
\* connection is closed by that counter reaching zero (connectionPool.ts:102).
LeaseAccounting == \A c \in Conns : leases[c] = Cardinality(Claimants(c))

\* "A connection closes once its last lease is released" (connectionPool.ts:8) and
\* not before: no connection stays up that nobody counts on, and the pool never
\* closes one that somebody does.
LivesWithItsLeases ==
  \A c \in Conns :
    /\ link[c] = "up" => Claimants(c) # {}
    /\ link[c] = "closed" => Claimants(c) = {}

\* Sharing stays under the server's MaxSessions: never more than maxLeases callers
\* on one connection, those still waiting for the dial included (line 65).
CapRespected == \A c \in Conns : Cardinality(Claimants(c)) <= MaxLeases

\* acquire() never sends a caller to a connection that dropped, was closed, or
\* whose failure the pool has already seen (lines 69-72, 103).
NeverJoinsDead ==
  [][\A u \in Users :
       (phase[u] # "waiting" /\ phase'[u] = "waiting") =>
         \/ link[at'[u]] \in {"none", "dialling", "up"}
         \/ link[at'[u]] = "failed" /\ ~wired[at'[u]]]_vars

\* Every acquire() returns or throws: nobody waits for ever on a dial that others
\* share, whether it succeeds, fails, or is invalidated while in flight.
AcquireSettles == \A u \in Users : phase[u] = "waiting" ~> phase[u] # "waiting"

-----------------------------------------------------------------------------
(* The inductive invariant behind the properties above. *)

\* Entries are used in the order of the dials.
DialOrder == \A c \in Conns : link[c] = "none" <=> c > dialled

\* In a list means usable, and then the dial is under way, the connection is up,
\* or the pool has yet to react to the failure.
OfferedIsHealthy ==
  \A c \in Conns :
    /\ c \in listed <=> usable[c]
    /\ c \in listed => \/ link[c] \in {"dialling", "up"}
                       \/ link[c] = "failed" /\ ~wired[c]

WiredIsSettled ==
  \A c \in Conns : wired[c] => link[c] \notin {"none", "dialling"}

\* Waiters wait for a dial that can still answer them; holders got a connection.
ClaimsAreLive ==
  \A u \in Users :
    /\ phase[u] # "idle" => at[u] \in Conns
    /\ phase[u] = "waiting" => link[at[u]] \in {"dialling", "up", "failed"}
    /\ phase[u] = "holding" => link[at[u]] \in {"up", "dropped"}

\* A dial in flight and an open connection have someone to close them.
NobodyOrphaned ==
  \A c \in Conns : link[c] \in {"dialling", "up"} => Claimants(c) # {}

IInv ==
  /\ TypeOK
  /\ DialOrder
  /\ OfferedIsHealthy
  /\ WiredIsSettled
  /\ ClaimsAreLive
  /\ NobodyOrphaned
  /\ LeaseAccounting
  /\ CapRespected

-----------------------------------------------------------------------------
(* The pool implements SharedConnections: counters, lists and promises map to *)
(* the claims they stand for.                                                 *)

StateOf(c) ==
  CASE link[c] = "none"     -> "new"
    [] link[c] = "dialling" -> "dialling"
    [] link[c] = "up"       -> "open"
    [] OTHER                -> "gone"

claimsBar  == [c \in Conns |-> Claimants(c)]
offeredBar == {c \in listed : usable[c]}
stateBar   == [c \in Conns |-> StateOf(c)]

Shared == INSTANCE SharedConnections WITH
            claims <- claimsBar, offered <- offeredBar, state <- stateBar

\* Every behaviour of the pool is one the abstract specification allows.
ImplementsShared == Shared!Spec
=============================================================================
