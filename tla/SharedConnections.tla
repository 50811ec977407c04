------------------------- MODULE SharedConnections -------------------------
(***************************************************************************)
(* What the connection pool promises its users, without the pool's own     *)
(* bookkeeping (no lease counters, no lists, no promises): connections to  *)
(* which users lay claims.  A connection is offered until it is withdrawn, *)
(* it takes a bounded number of claims while it is offered, and it is      *)
(* closed by the step that gives up its last claim and by no other: the    *)
(* remote end may drop it at any time, the pool never does while anyone    *)
(* still counts on it.                                                     *)
(*                                                                         *)
(* "Each user holds a `Lease`; a connection closes once its last lease is  *)
(* released."  (connectionPool.ts:8)                                       *)
(***************************************************************************)
EXTENDS Naturals, FiniteSets

CONSTANTS Conns,      \* the connections that may ever be dialled
          Users,      \* who may lay a claim
          MaxLeases   \* claims one connection takes at most

VARIABLES claims,     \* claims[c]: the users that hold c or wait for its dial
          offered,    \* the connections still given to new users
          state       \* "new" | "dialling" | "open" | "gone", per connection

vars == <<claims, offered, state>>

TypeOK ==
  /\ claims \in [Conns -> SUBSET Users]
  /\ offered \in SUBSET Conns
  /\ state \in [Conns -> {"new", "dialling", "open", "gone"}]

Init ==
  /\ claims = [c \in Conns |-> {}]
  /\ offered = {}
  /\ state = [c \in Conns |-> "new"]

\* A user may claim one connection at a time.
Free(u) == \A c \in Conns : u \notin claims[c]

Dial(u, c) ==
  /\ Free(u)
  /\ state[c] = "new"
  /\ state' = [state EXCEPT ![c] = "dialling"]
  /\ claims' = [claims EXCEPT ![c] = {u}]
  /\ offered' = offered \cup {c}

Share(u, c) ==
  /\ Free(u)
  /\ c \in offered
  /\ Cardinality(claims[c]) < MaxLeases
  /\ claims' = [claims EXCEPT ![c] = @ \cup {u}]
  /\ UNCHANGED <<offered, state>>

Opens(c) ==
  /\ state[c] = "dialling"
  /\ state' = [state EXCEPT ![c] = "open"]
  /\ UNCHANGED <<claims, offered>>

\* A failed dial is withdrawn by a later step (Withdraw): whoever claims it in
\* between shares the failure.
Fails(c) ==
  /\ state[c] = "dialling"
  /\ state' = [state EXCEPT ![c] = "gone"]
  /\ UNCHANGED <<claims, offered>>

\* The remote end hangs up: nobody new is sent to a connection that dropped.
Drops(c) ==
  /\ state[c] = "open"
  /\ state' = [state EXCEPT ![c] = "gone"]
  /\ offered' = offered \ {c}
  /\ UNCHANGED claims

Withdraw(S) ==
  /\ offered' = offered \ S
  /\ UNCHANGED <<claims, state>>

\* A user stops counting on c; an open c nobody else counts on closes with it.
GiveUp(u, c) ==
  /\ u \in claims[c]
  /\ claims' = [claims EXCEPT ![c] = @ \ {u}]
  /\ IF claims[c] = {u} /\ state[c] = "open"
     THEN state' = [state EXCEPT ![c] = "gone"]
     ELSE UNCHANGED state
  /\ IF claims[c] = {u}
     THEN offered' = offered \ {c}
     ELSE UNCHANGED offered

Next ==
  \/ \E u \in Users, c \in Conns : Dial(u, c) \/ Share(u, c) \/ GiveUp(u, c)
  \/ \E c \in Conns : Opens(c) \/ Fails(c) \/ Drops(c)
  \/ \E S \in SUBSET Conns : Withdraw(S)

Spec == Init /\ [][Next]_vars
=============================================================================
