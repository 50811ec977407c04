--------------------------- MODULE TransferQueue ---------------------------
(***************************************************************************)
(* What the file browser's transfer queue promises, without saying how     *)
(* the next operations are picked: operations are asked for in batches,    *)
(* the batches run one after another, two operations of one batch that     *)
(* write the same path run in the order they were asked for, and only so   *)
(* many run at once.                                                       *)
(***************************************************************************)
EXTENDS Integers, FiniteSets

CONSTANT MaxParallel

VARIABLES
    waiting,    \* operations asked for and not started
    running     \* operations started and not finished

qvars == <<waiting, running>>

(* An operation: its place in the order of asking, its batch, what it      *)
(* writes.  `side` is the pane that shows the result.                      *)
IsOp(op) == op.id \in Nat /\ op.batch \in Nat

(* p must finish before o may start. *)
Before(p, o) ==
    \/ p.batch < o.batch
    \/ p.key = o.key /\ p.id < o.id

QInit == waiting = {} /\ running = {}

Ask(ops) ==
    /\ ops # {}
    /\ \A o \in ops : IsOp(o)
    /\ \A o, p \in ops : o.batch = p.batch /\ (o.id = p.id => o = p)
    /\ \A o \in ops, p \in waiting \cup running : p.id < o.id /\ p.batch < o.batch
    /\ waiting' = waiting \cup ops
    /\ UNCHANGED running

Start(ops) ==
    /\ ops # {}
    /\ \A o \in ops, p \in waiting \cup running : ~Before(p, o)
    /\ Cardinality(running \cup ops) <= MaxParallel
    /\ waiting' = waiting \ ops
    /\ running' = running \cup ops

(* The transfer, delete, mkdir or rename resolves or rejects.              *)
Finish(o) ==
    /\ running' = running \ {o}
    /\ UNCHANGED waiting

(* The tab is closed: nothing is waited for any more. *)
Abandon == waiting' = {} /\ running' = {}

QNext ==
    \/ Ask(waiting' \ waiting)
    \/ \E ops \in SUBSET waiting : Start(ops)
    \/ \E o \in running : Finish(o)
    \/ Abandon

QSpec == QInit /\ [][QNext]_qvars

-----------------------------------------------------------------------------
(* Never two operations on one path at a time, never two batches at a      *)
(* time, never more than the bound (stores/sftpQueue.ts).                  *)
NeverTwoOnOnePath == \A o, p \in running : o.key = p.key => o = p

OneBatchAtATime == \A o, p \in running : o.batch = p.batch

Bounded == IsFiniteSet(running) /\ Cardinality(running) <= MaxParallel

=============================================================================
