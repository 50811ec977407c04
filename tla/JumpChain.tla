------------------------------ MODULE JumpChain ------------------------------
(***************************************************************************)
(* ProxyJump chains (packages/electron/src/core/ssh/jump.ts): from a       *)
(* host's proxyJump value to the hosts that are connected before it,       *)
(* nearest first.                                                          *)
(*                                                                         *)
(* The host list is a sequence of entries: name, alias (originalSshHost),  *)
(* end (the endpoint: user, hostname and port together), jump (the hops of *)
(* the proxyJump value, empty for a direct host), op (the address or user  *)
(* is a 1Password reference) and password ("none", "stored" or "ref").  A  *)
(* hop is [host, as]: as is the endpoint an explicit user@ or :port makes  *)
(* of it, or Inherit.                                                      *)
(***************************************************************************)
EXTENDS Naturals, Sequences, SequencesExt

CONSTANTS MaxHops,   \* MAX_HOPS of the code
          Inherit,   \* a hop without user@ and :port
          Bad        \* the host of a hop that cannot be parsed

ASSUME MaxHopsAssumption == MaxHops \in Nat \ {0}

\* A chain, or the JumpChainError of one that cannot be resolved.
Chain(hops) == [ok |-> TRUE, hops |-> hops]
NoChain     == [ok |-> FALSE, hops |-> <<>>]

\* An entry that carries the hop's host as its name comes before one that was
\* renamed and keeps it as its alias; a hop of neither is taken literally.
resolveHop(hop, known) ==
  LET called  == SelectInSeq(known, LAMBDA h : h.name = hop.host)
      renamed == SelectInSeq(known, LAMBDA h : h.alias = hop.host)
      literal == [name |-> hop.host, alias |-> hop.host, end |-> hop.host,
                  jump |-> <<>>, op |-> FALSE, password |-> "none"]
      entry   == IF called # 0 THEN known[called]
                 ELSE IF renamed # 0 THEN known[renamed] ELSE literal
  IN IF hop.as = Inherit THEN entry ELSE [entry EXCEPT !.end = hop.as]

\* The same alias, or the same endpoint under a second name.
sameHop(a, b) == a.name = b.name \/ a.end = b.end

(* Mutant: a hop that cannot be parsed is left out. *)
parseJumpSpecKeepsGoing(value) ==
  LET usable(hop) == hop.host # Bad IN Chain(SelectSeq(value, usable))

\* One hop that cannot be used fails the whole value.
parseJumpSpec(value) ==
  IF \E i \in DOMAIN value : value[i].host = Bad THEN NoChain ELSE Chain(value)

\* The hosts a value names, in its order.
hopsOf(value, known) ==
  LET spec == parseJumpSpec(value)
  IN [i \in DOMAIN spec.hops |-> resolveHop(spec.hops[i], known)]

\* Walk: the hosts whose values are being expanded, the target first; the chain;
\* and whether no value had a hop that cannot be used or is being expanded already.
NewWalk == [active |-> <<>>, chain |-> <<>>, ok |-> TRUE]

\* One value further in: its hops come before those that are there.
Into(walk, host, known) ==
  LET active == Append(walk.active, host)
      hops   == hopsOf(host.jump, known)
  IN [active |-> active, chain |-> hops \o walk.chain,
      ok |-> /\ walk.ok /\ parseJumpSpec(host.jump).ok
             /\ \A i \in DOMAIN active, j \in DOMAIN hops : ~sameHop(active[i], hops[j])]

\* Only the first hop of a list brings bastions of its own.
Nests(walk) == walk.chain # <<>> /\ walk.chain[1].jump # <<>>

\* expand(): walk[n] is n values deep, or less when there is nothing deeper.
expand(target, known) ==
  LET walk[depth \in 0 .. MaxHops] ==
        IF depth = 0 THEN Into(NewWalk, target, known)
        ELSE IF Nests(walk[depth - 1])
             THEN Into(walk[depth - 1], walk[depth - 1].chain[1], known)
             ELSE walk[depth - 1]
  IN walk

resolveChain(target, known) ==
  IF target.jump = <<>> THEN Chain(<<>>)
  ELSE LET walk == expand(target, known)[MaxHops]
       IN IF ~walk.ok \/ Nests(walk) \/ Len(walk.chain) > MaxHops
          THEN NoChain ELSE Chain(walk.chain)

=============================================================================
