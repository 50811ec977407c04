--------------------------- MODULE AutomationRun ---------------------------
(***************************************************************************)
(* One run of an automation: runAutomation() (core/automation/engine.ts).  *)
(*                                                                         *)
(* The nodes of a DAG run at most `limit` at a time, each once everything  *)
(* before it has settled.  An If node answers yes or no and its edges that *)
(* leave by the other way do not count; a failure blocks what comes after  *)
(* unless its node continues on error.  The nodes on the host share one    *)
(* connection, dialled by the first of them and closed when the run ends.  *)
(* The user may cancel at any time.                                        *)
(*                                                                         *)
(* What a node does is left out but for how it ends.  A called automation  *)
(* is one node here: its own run is an instance of this module.            *)
(***************************************************************************)
EXTENDS Integers, Sequences, FiniteSets, SequencesExt

CONSTANTS
  Nodes,    \* sequence: automation.nodes
  Edges,    \* sequence of [from, to, branch], branch in {"yes", "no", "any"}
  Ifs,      \* the nodes with a condition
  Remote,   \* the nodes whose target is the host
  Limit     \* automation.maxParallel

NodeSet == ToSet(Nodes)
EdgeSet == 1 .. Len(Edges)     \* edges by position: two may join the same nodes

ASSUME AutomationAssumptions ==
  /\ \A e \in EdgeSet :
       /\ Edges[e].from \in NodeSet /\ Edges[e].to \in NodeSet
       /\ Edges[e].branch # "any" <=> Edges[e].from \in Ifs   \* validateAutomation
  /\ Ifs \subseteq NodeSet /\ Remote \subseteq NodeSet
  /\ Limit \in Nat \ {0}

\* A node has one id, an edge two ends; and topoOrder() finds an order, or the
\* automation neither saves nor runs: every edge leads further from the start.
ASSUME AutomationIsSorted ==
  /\ Nodes \in Seq(NodeSet) /\ IsInjective(Nodes)
  /\ Edges \in Seq([from : NodeSet, to : NodeSet, branch : {"yes", "no", "any"}])
  /\ \E rank \in [NodeSet -> 1 .. Len(Nodes)] :
       \A e \in EdgeSet : rank[Edges[e].from] < rank[Edges[e].to]

VARIABLES
  lenient,    \* the nodes with continueOnError
  status,     \* per node, see Statuses
  answer,     \* per node: an If's output
  offBranch,  \* nodes skipped because an If went the other way
  waitingOn,  \* per node: edges into it from nodes not reaped yet
  ready,      \* sequence of the nodes to start
  running,    \* nodes started and not reaped
  conn,       \* the promised connection to the host
  dials,      \* connectHost() calls so far
  canceled,   \* signal.aborted
  run         \* "new" | "going" | "done"

vars == <<lenient, status, answer, offBranch, waitingOn, ready, running,
          conn, dials, canceled, run>>

Settled  == {"success", "failed", "skipped"}
Working  == {"connecting", "running"}   \* started: waits for the host, or works
Statuses == {"pending"} \cup Working \cup Settled

TypeOK ==
  /\ lenient \in SUBSET NodeSet
  /\ status \in [NodeSet -> Statuses]
  /\ answer \in [NodeSet -> {"none", "yes", "no"}]
  /\ offBranch \in SUBSET NodeSet
  /\ waitingOn \in [NodeSet -> Nat]
  /\ ready \in Seq(NodeSet) /\ running \in SUBSET NodeSet
  /\ conn \in {"none", "dialling", "open", "failed", "closed"}
  /\ dials \in Nat
  /\ canceled \in BOOLEAN /\ run \in {"new", "going", "done"}

\* filter(): the elements of s that are in S, in their order.
Kept(s, S) ==
  LET K[i \in 0 .. Len(s)] ==
        IF i = 0 THEN <<>> ELSE IF s[i] \in S THEN Append(K[i - 1], s[i]) ELSE K[i - 1]
  IN K[Len(s)]

Into == [n \in NodeSet |-> {e \in EdgeSet : Edges[e].to = n}]

\* Mutant: waitingOn counts the predecessors, Reap the edges.
InitPerPredecessor ==
  /\ lenient \in SUBSET NodeSet
  /\ status = [n \in NodeSet |-> "pending"]
  /\ answer = [n \in NodeSet |-> "none"]
  /\ offBranch = {}
  /\ waitingOn = [n \in NodeSet |-> Cardinality({Edges[e].from : e \in Into[n]})]
  /\ ready = <<>> /\ running = {}
  /\ conn = "none" /\ dials = 0
  /\ canceled = FALSE /\ run = "new"

Init ==
  /\ lenient \in SUBSET NodeSet
  /\ status = [n \in NodeSet |-> "pending"]
  /\ answer = [n \in NodeSet |-> "none"]
  /\ offBranch = {}
  /\ waitingOn = [n \in NodeSet |-> Cardinality(Into[n])]
  /\ ready = <<>> /\ running = {}
  /\ conn = "none" /\ dials = 0
  /\ canceled = FALSE /\ run = "new"

-----------------------------------------------------------------------------
(* runNode() up to its first await *)

\* An edge that does not count: out of an If the way it did not go, or out of a
\* node that was itself off the way taken.
OffBranchEdge(e) ==
  LET from == Edges[e].from
  IN \/ from \in offBranch
     \/ from \in Ifs /\ status[from] = "success" /\ Edges[e].branch # answer[from]

Live(n) == {e \in Into[n] : ~OffBranchEdge(e)}

OffWay(n) == Into[n] # {} /\ Live(n) = {}

\* Mutant: a node joined by several ways waits for all of them, taken or not.
BlockedByEveryWay(n) ==
  \E e \in Into[n] :
    status[Edges[e].from] # "success" /\ Edges[e].from \notin lenient

\* A predecessor on the way did not succeed, and its node does not continue then.
Blocked(n) ==
  \E e \in Live(n) :
    status[Edges[e].from] # "success" /\ Edges[e].from \notin lenient

\* Mutant: no look at the signal when a node's turn comes.
StartOfUncancelable(n) ==
  IF OffWay(n) \/ Blocked(n) THEN "skipped"
  ELSE IF n \in Remote THEN "connecting" ELSE "running"

\* What becomes of a node that is started.
StartOf(n) ==
  IF canceled \/ OffWay(n) \/ Blocked(n) THEN "skipped"
  ELSE IF n \in Remote THEN "connecting" ELSE "running"

\* Mutant: as many as are ready are started at once.
RoomUnlimited(R) == Len(Nodes)

\* How many more nodes may start next to those in R.
Room(R) == Limit - Cardinality(R)

\* Mutant: connectionFor() caches the connection once it is there.
ConnectionForAwaited(S) ==
  IF S # {} /\ conn \in {"none", "dialling"}
  THEN conn' = "dialling" /\ dials' = dials + Cardinality(S)
  ELSE UNCHANGED <<conn, dials>>

\* connectionFor(): the first node on the host dials.
ConnectionFor(S) ==
  IF S # {} /\ conn = "none"
  THEN conn' = "dialling" /\ dials' = dials + 1
  ELSE UNCHANGED <<conn, dials>>

\* The inner loop: nodes of the sequence R start while there is room next to
\* those in P.  Their predecessors have all settled, so none decides for another.
StartReady(R, P) ==
  LET k == IF Len(R) <= Room(P) THEN Len(R) ELSE Room(P)
      S == {R[i] : i \in 1 .. k}
  IN /\ ready' = SubSeq(R, k + 1, Len(R))
     /\ running' = P \cup S
     /\ status' = [n \in NodeSet |-> IF n \in S THEN StartOf(n) ELSE status[n]]
     /\ offBranch' = offBranch \cup {n \in S : ~canceled /\ OffWay(n)}
     /\ ConnectionFor({n \in S : StartOf(n) = "connecting"})

-----------------------------------------------------------------------------
(* The run *)

\* The nodes without predecessors are ready, in topological order.
Begin ==
  /\ run = "new"
  /\ run' = "going"
  /\ StartReady(Kept(Nodes, {n \in NodeSet : waitingOn[n] = 0}), {})
  /\ UNCHANGED <<lenient, answer, waitingOn, canceled>>

\* Mutant: an edge counts once for its two nodes, however many join them.
EdgesBetweenOnce ==
  [n \in NodeSet |-> [m \in NodeSet |->
     IF \E e \in Into[m] : Edges[e].from = n THEN 1 ELSE 0]]

EdgesBetween ==
  [n \in NodeSet |-> [m \in NodeSet |->
     Cardinality({e \in Into[m] : Edges[e].from = n})]]

\* The nodes after each, in the order of their (last) edges from it.
Successors ==
  [n \in NodeSet |->
     LET lasts == Kept([e \in EdgeSet |-> e], {e \in EdgeSet :
                    /\ Edges[e].from = n
                    /\ \A d \in Into[Edges[e].to] : Edges[d].from = n => d <= e})
     IN [i \in DOMAIN lasts |-> Edges[lasts[i]].to]]

\* Promise.race() answers with a settled node: it is reaped, its successors that
\* wait for nothing else are ready, and the inner loop fills the room it left.
Reap(n) ==
  /\ n \in running /\ status[n] \in Settled
  /\ LET left == [m \in NodeSet |-> waitingOn[m] - EdgesBetween[n][m]]
         freed == Kept(Successors[n], {m \in NodeSet : left[m] = 0})
     IN /\ waitingOn' = left
        /\ StartReady(ready \o freed, running \ {n})
  /\ UNCHANGED <<lenient, answer, canceled, run>>

ConnectSettles ==
  /\ conn = "dialling"
  /\ \E outcome \in {"open", "failed"} :
       conn' = IF outcome = "open" /\ run = "done" THEN "closed" ELSE outcome
  /\ UNCHANGED <<lenient, status, answer, offBranch, waitingOn, ready, running,
                 dials, canceled, run>>

\* A node on the host goes on with the connection, or fails with its failure.
HostReady(n) ==
  /\ status[n] = "connecting" /\ conn \in {"open", "failed"}
  /\ status' = [status EXCEPT ![n] = IF conn = "open" THEN "running" ELSE "failed"]
  /\ UNCHANGED <<lenient, answer, offBranch, waitingOn, ready, running,
                 conn, dials, canceled, run>>

\* A node's work ends; the If that succeeds has an answer.
NodeEnds(n) ==
  /\ status[n] = "running"
  /\ \/ /\ status' = [status EXCEPT ![n] = "success"]
        /\ IF n \in Ifs
           THEN \E a \in {"yes", "no"} : answer' = [answer EXCEPT ![n] = a]
           ELSE UNCHANGED answer
     \/ /\ status' = [status EXCEPT ![n] = "failed"]
        /\ UNCHANGED answer
  /\ UNCHANGED <<lenient, offBranch, waitingOn, ready, running, conn, dials,
                 canceled, run>>

\* Mutant: the cancel is left to the nodes' own work, which may never end.
CancelUnheard ==
  /\ run = "going" /\ ~canceled
  /\ canceled' = TRUE
  /\ UNCHANGED <<lenient, status, answer, offBranch, waitingOn, ready, running,
                 conn, dials, run>>

\* cancel_automation: untilCanceled() rejects whatever a node is waiting for.
Cancel ==
  /\ run = "going" /\ ~canceled
  /\ canceled' = TRUE
  /\ status' = [n \in NodeSet |-> IF status[n] \in Working THEN "failed" ELSE status[n]]
  /\ UNCHANGED <<lenient, answer, offBranch, waitingOn, ready, running, conn, dials, run>>

\* Mutant: only a connection that is there by now is closed.
EndLeavesDialling ==
  /\ run = "going" /\ running = {} /\ ready = <<>>
  /\ run' = "done"
  /\ conn' = IF conn = "open" THEN "closed" ELSE IF conn = "dialling" THEN "open" ELSE conn
  /\ UNCHANGED <<lenient, status, answer, offBranch, waitingOn, ready, running,
                 dials, canceled>>

\* Nothing runs and nothing is ready: the run completes; its connection is closed,
\* one still being dialled as soon as it is there (ConnectSettles).
End ==
  /\ run = "going" /\ running = {} /\ ready = <<>>
  /\ run' = "done"
  /\ conn' = IF conn = "open" THEN "closed" ELSE conn
  /\ UNCHANGED <<lenient, status, answer, offBranch, waitingOn, ready, running,
                 dials, canceled>>

\* The run is over and its connection is settled for good.
Over == run = "done" /\ conn # "dialling" /\ UNCHANGED vars

Next ==
  \/ Begin \/ ConnectSettles \/ Cancel \/ End \/ Over
  \/ \E n \in NodeSet : Reap(n) \/ HostReady(n) \/ NodeEnds(n)

\* Dials are bounded by their timeouts.  A node's own work owes nothing: only a
\* cancel is sure to end it.
Fairness ==
  /\ WF_vars(Begin) /\ WF_vars(ConnectSettles) /\ WF_vars(End)
  /\ WF_vars(\E n \in NodeSet : Reap(n)) /\ WF_vars(\E n \in NodeSet : HostReady(n))

Spec == Init /\ [][Next]_vars /\ Fairness

-----------------------------------------------------------------------------
(* Properties *)

\* "The running node stops and fails as canceled, every node after it is skipped,
\* and the run still completes with all its results" (engine.ts:436-437), whatever
\* a node's own work does: also if it never ends.
CancelCompletes ==
  canceled ~> run = "done" /\ \A n \in NodeSet : status[n] \in Settled

\* A run left with no node at work completes, with a result for every node
\* (engine.ts:683-701): neither a join of several ways nor a slot is forgotten.
NothingIsForgotten ==
  [](run = "going" => <>(run = "done" \/ \E n \in NodeSet : status[n] \in Working))
  /\ [](run = "done" => \A n \in NodeSet : status[n] \in Settled)

\* An edge the Ifs did not rule out.
NotRuledOut(e) ==
  Edges[e].from \in Ifs /\ status[Edges[e].from] = "success" =>
    Edges[e].branch = answer[Edges[e].from]

\* The nodes on a way the Ifs went: those without predecessors, and those that
\* such an edge leads to from a node on the way, in as many steps as it takes.
OnTheWay ==
  LET Reached[i \in 0 .. Len(Nodes)] ==
        IF i = 0 THEN {n \in NodeSet : Into[n] = {}}
        ELSE LET R == Reached[i - 1]
             IN R \cup {Edges[e].to : e \in {d \in EdgeSet :
                                              Edges[d].from \in R /\ NotRuledOut(d)}}
  IN Reached[Len(Nodes)]

\* In a run that was not canceled, exactly those nodes are skipped that lie off the
\* way the Ifs went, or that a failure on the way holds up: where ways join, the
\* way not taken holds up nothing (engine.ts:585-601).
SkipsWhatItShould ==
  run = "done" /\ ~canceled =>
    LET way == OnTheWay
        heldUp == {Edges[e].to : e \in {d \in EdgeSet :
                     /\ Edges[d].from \in way \ lenient
                     /\ status[Edges[d].from] # "success"}}
    IN {n \in NodeSet : status[n] = "skipped"} = (NodeSet \ way) \cup heldUp

\* No node is started once the run is canceled, be its turn next or be it freed by
\* the nodes the cancel failed (engine.ts:569-572).
CancelStartsNothing ==
  [][canceled => \A n \in NodeSet : status[n] = "pending" => status'[n] \notin Working]_vars

\* Never more nodes at work than allowed, also when one reap frees several
\* (engine.ts:676-687); the host is dialled once however many of them need it
\* (engine.ts:466-474).
SharesWithinLimits ==
  /\ Cardinality({n \in NodeSet : status[n] \in Working}) <= Limit
  /\ dials <= 1

\* A finished run leaves no connection behind, the one still being dialled when it
\* was canceled included (engine.ts:463, 698).
ConnectionIsClosed == run = "done" ~> conn \in {"none", "failed", "closed"}

-----------------------------------------------------------------------------
(* What the documentation says and the code does not keep *)

\* "Its output is yes or no, and only the nodes on that way out of it run"
\* (types.ts:117-118): the two ways of an If never both run.
OneWayOutOfAnIf ==
  \A e, f \in EdgeSet :
    /\ Edges[e].from = Edges[f].from
    /\ Edges[e].branch = "yes" /\ Edges[f].branch = "no"
    /\ Into[Edges[e].to] = {e} /\ Into[Edges[f].to] = {f}
    => ~(status[Edges[e].to] \in Working \cup {"success", "failed"} /\
         status[Edges[f].to] \in Working \cup {"success", "failed"})
=============================================================================
