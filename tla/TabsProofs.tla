------------------------------ MODULE TabsProofs ------------------------------
(***************************************************************************)
(* Proofs about the two kinds of tab a host is worked in.                  *)
(*                                                                         *)
(* SftpTab, for every number of operations, every bound on the operations  *)
(* that run at once and every set of names: the queue of the file browser, *)
(* with its effects and the way it picks what may start, implements        *)
(* TransferQueue.                                                          *)
(*                                                                         *)
(* Terminals, for every number of tabs, inputs and pieces of output: a     *)
(* shell reads what was typed in order, and its last words are shown.      *)
(***************************************************************************)
EXTENDS SftpTab, Terminals, FiniteSetTheorems, SequenceTheorems, TLAPS

-----------------------------------------------------------------------------
(* Numbers and sequences *)

LEMMA Least ==
  ASSUME NEW S \in SUBSET Nat, S # {}
  PROVE  \E least \in S : \A n \in S : least <= n
<1> DEFINE Less == {p \in Nat \X Nat : p[1] < p[2]}
<1>1. IsWellFoundedOn(Less, Nat)
  BY NatLessThanWellFounded DEF OpToRel
<1>2. PICK least \in S : \A n \in S : <<n, least>> \notin Less
  BY <1>1, WFMin
<1>3. ASSUME NEW n \in S
      PROVE  least <= n
  <2>1. ~(n < least)
    BY <1>2, <1>3
  <2>2. n \in Nat /\ least \in Nat
    BY <1>2
  <2>3. QED
    BY <2>1, <2>2
<1>4. QED
  BY <1>3

\* The marked entries, as a sequence.
LEMMA MarksAreSequences ==
  ASSUME NEW names \in Marked
  PROVE  \E n \in Nat : names \in [1..n -> Names]
<1>1. PICK marks \in SUBSET Names : names = SetToSeq(marks)
  BY DEF Marked
<1>2. IsFiniteSet(marks)
  BY TabAssumptions, FS_Subset
<1>3. Cardinality(marks) \in Nat /\ ExistsBijection(1..Cardinality(marks), marks)
  BY <1>2, FS_CardinalityType
<1>4. \E f \in [1..Cardinality(marks) -> marks] : IsInjective(f)
  BY <1>3 DEF ExistsBijection, Bijection, Injection
<1>5. names \in [1..Cardinality(marks) -> marks]
  BY <1>1, <1>4 DEF SetToSeq
<1>6. names \in [1..Cardinality(marks) -> Names]
  BY <1>5
<1>7. QED
  BY <1>3, <1>6

-----------------------------------------------------------------------------
(* Which operations are picked *)

\* Every set of operations known by their ids is finite.
LEMMA OpsAreFinite ==
  ASSUME OpsInOrder, NEW S \in SUBSET (outbox \cup pending)
  PROVE  IsFiniteSet(S) /\ Cardinality(S) \in Nat
<1> DEFINE id == [o \in S |-> o.id]
<1>1. nextOp \in Nat /\ \A o \in S : o.id \in 0 .. nextOp
  BY DEF OpsInOrder
<1>2. id \in [S -> 0 .. nextOp]
  BY <1>1
<1>3. \A o, p \in S : id[o] = id[p] => o = p
  BY DEF OpsInOrder
<1>4. id \in Injection(S, 0 .. nextOp)
  BY <1>2, <1>3 DEF Injection, IsInjective
<1>5. IsFiniteSet(0 .. nextOp)
  BY <1>1, FS_Interval
<1>6. IsFiniteSet(S)
  BY <1>4, <1>5, FS_Injection
<1>7. QED
  BY <1>6, FS_CardinalityType

\* The last of some operations, in the order they were asked for.
LEMMA LastOne ==
  ASSUME OpsInOrder, NEW S \in SUBSET (outbox \cup pending), S # {}
  PROVE  \E last \in S : \A o \in S : o = last \/ o.id < last.id
<1> DEFINE left == {nextOp - o.id : o \in S}
<1>1. left \in SUBSET Nat /\ left # {}
  BY DEF OpsInOrder
<1>2. PICK n \in left : \A m \in left : n <= m
  BY <1>1, Least
<1>3. PICK last \in S : n = nextOp - last.id
  BY <1>2
<1>4. ASSUME NEW o \in S
      PROVE  o = last \/ o.id < last.id
  <2>1. nextOp - last.id <= nextOp - o.id
    BY <1>2, <1>3
  <2>2. /\ nextOp \in Nat /\ o.id \in Nat /\ last.id \in Nat
        /\ o.id = last.id => o = last
    BY <1>3 DEF OpsInOrder
  <2>3. QED
    BY <2>1, <2>2
<1>5. QED
  BY <1>3, <1>4

\* Oldest() is the batch that all others come after.
LEMMA OldestIsFirst ==
  ASSUME OpsInOrder, outbox # {}
  PROVE  \A p \in outbox \cup pending : Oldest(outbox, pending) <= p.batch
<1> DEFINE batches == {o.batch : o \in outbox \cup pending}
<1>1. batches \in SUBSET Nat /\ batches # {}
  BY DEF OpsInOrder
<1>2. PICK b \in batches : \A c \in batches : b <= c
  BY <1>1, Least
<1>3. \E a \in batches : \A o \in outbox \cup pending : a <= o.batch
  BY <1>2
<1>4. QED
  BY <1>3 DEF Oldest

\* readyOps() picks no more than there are slots: all but the last of those it
\* picks come before that one, which has a slot itself.
LEMMA SlotsSuffice ==
  ASSUME OpsInOrder, ReadyOps(outbox, pending) # {}
  PROVE  Cardinality(pending \cup ReadyOps(outbox, pending)) <= MaxParallel
<1> DEFINE free  == Startable(outbox, pending)
           ready == ReadyOps(outbox, pending)
           slots == MaxParallel - Cardinality(pending)
<1>1. /\ free \in SUBSET (outbox \cup pending) /\ ready \in SUBSET free
      /\ ready \in SUBSET (outbox \cup pending)
      /\ \A o \in ready : Cardinality({p \in free : p.id < o.id}) < slots
  BY DEF ReadyOps, Startable
<1>2. PICK last \in ready : \A o \in ready : o = last \/ o.id < last.id
  BY <1>1, LastOne
<1>3. /\ IsFiniteSet(ready) /\ Cardinality(ready) \in Nat
      /\ IsFiniteSet(pending) /\ Cardinality(pending) \in Nat
  BY <1>1, OpsAreFinite
<1> DEFINE before == {p \in free : p.id < last.id}
<1>4. before \in SUBSET (outbox \cup pending)
  BY <1>1
<1>5. IsFiniteSet(before) /\ Cardinality(before) \in Nat
  BY <1>4, OpsAreFinite
<1>6. ready \ {last} \in SUBSET before
  BY <1>1, <1>2
<1>7. Cardinality(ready \ {last}) <= Cardinality(before)
  BY <1>5, <1>6, FS_Subset
<1>8. Cardinality(ready \ {last}) = Cardinality(ready) - 1
  BY <1>2, <1>3, FS_RemoveElement
<1>9. Cardinality(before) < slots
  BY <1>1, <1>2
<1>10. Cardinality(ready) <= slots
  <2> HIDE DEF ready, before
  <2>1. MaxParallel \in Nat
    BY TabAssumptions
  <2>2. QED
    BY <1>3, <1>5, <1>7, <1>8, <1>9, <2>1
<1>11. /\ Cardinality(pending \cup ready) =
             Cardinality(pending) + Cardinality(ready) - Cardinality(pending \cap ready)
       /\ Cardinality(pending \cap ready) \in Nat
       /\ Cardinality(pending \cup ready) \in Int
  <2>1. IsFiniteSet(pending \cap ready)
    BY <1>3, FS_Intersection
  <2>2. Cardinality(pending \cap ready) \in Nat
    BY <2>1, FS_CardinalityType
  <2>3. Cardinality(pending \cup ready) =
          Cardinality(pending) + Cardinality(ready) - Cardinality(pending \cap ready)
    BY <1>3, FS_Union
  <2>4. QED
    BY <1>3, <2>2, <2>3
<1>12. QED
  <2> HIDE DEF ready, before
  <2>1. MaxParallel \in Nat
    BY TabAssumptions
  <2>2. Cardinality(pending \cup ready) <= MaxParallel
    BY <1>3, <1>10, <1>11, <2>1
  <2>3. QED
    BY <2>2 DEF ready

-----------------------------------------------------------------------------
(* The steps of the queue *)

LEMMA InitInOrder == Init => OpsInOrder
BY DEF Init, OpsInOrder

\* A batch of operations is added behind all others.
LEMMA EnqueueSteps ==
  ASSUME OpsInOrder, NEW side, NEW n \in Nat, NEW X, NEW keys \in [1..n -> X],
         Enqueue(side, keys)
  PROVE  OpsInOrder' /\ [Queue!QNext]_<<outbox, pending>>
<1> DEFINE op(i) == [id |-> nextOp + i - 1, batch |-> nextBatch, key |-> keys[i], side |-> side]
           ops == {op(i) : i \in 1..n}
<1>1. DOMAIN keys = 1..n /\ Len(keys) = n
  <2>1. keys \in Seq(X)
    BY SeqDef
  <2>2. QED
    BY <2>1, LenProperties
<1>2. /\ outbox' = outbox \cup ops /\ pending' = pending
      /\ nextOp' = nextOp + n /\ nextBatch' = nextBatch + 1
  BY <1>1 DEF Enqueue
<1>3. \A o \in ops : /\ o.id \in Nat /\ nextOp <= o.id /\ o.id < nextOp + n
                     /\ o.batch = nextBatch /\ o.batch \in Nat
  BY DEF OpsInOrder
<1>4. \A o, p \in ops : o.id = p.id => o = p
  <2>1. ASSUME NEW i \in 1..n, NEW j \in 1..n, op(i).id = op(j).id
        PROVE  op(i) = op(j)
    <3>1. i = j
      BY <2>1 DEF OpsInOrder
    <3>2. QED
      BY <3>1
  <2>2. QED
    BY <2>1
<1> HIDE DEF ops
<1>5. OpsInOrder'
  BY <1>2, <1>3, <1>4 DEF OpsInOrder
<1>6. CASE ops = {}
  BY <1>2, <1>5, <1>6
<1>7. CASE ops # {}
  <2>1. outbox' \ outbox = ops
    BY <1>2, <1>3 DEF OpsInOrder
  <2>2. Queue!Ask(ops)
    BY <1>2, <1>3, <1>4, <1>7 DEF OpsInOrder, Queue!Ask, Queue!IsOp
  <2>3. Queue!Ask(outbox' \ outbox)
    BY <2>1, <2>2 DEF Queue!Ask
  <2>4. QED
    BY <1>5, <2>3 DEF Queue!QNext
<1>8. QED
  BY <1>5, <1>6, <1>7

\* What may start is started, unless nothing may.
LEMMA PumpSteps ==
  ASSUME OpsInOrder, Pump
  PROVE  OpsInOrder' /\ Queue!QNext
<1> DEFINE ready == ReadyOps(outbox, pending)
<1>1. /\ ready # {} /\ ready \in SUBSET outbox
      /\ outbox' = outbox \ ready /\ pending' = pending \cup ready
      /\ UNCHANGED <<nextOp, nextBatch>>
  BY DEF Pump, PumpDue, ReadyOps, Startable
<1>2. OpsInOrder'
  <2> HIDE DEF ready
  <2>1. QED
    BY <1>1 DEF OpsInOrder
<1>3. ASSUME NEW o \in ready, NEW p \in outbox \cup pending
      PROVE  ~Queue!Before(p, o)
  <2>1. /\ o.batch = Oldest(outbox, pending) /\ KeyIsFree(o, outbox, pending)
    BY DEF ReadyOps, Startable
  <2>2. Oldest(outbox, pending) <= p.batch
    BY <1>1, OldestIsFirst
  <2>3. /\ o.batch \in Nat /\ p.batch \in Nat /\ o.id \in Nat /\ p.id \in Nat
    BY <1>1 DEF OpsInOrder
  <2>4. p.key = o.key => p.id >= o.id
    BY <2>1 DEF KeyIsFree
  <2>5. QED
    BY <2>1, <2>2, <2>3, <2>4 DEF Queue!Before
<1>4. Cardinality(pending \cup ready) <= MaxParallel
  BY <1>1, SlotsSuffice
<1>5. Queue!Start(ready)
  <2> HIDE DEF ready
  <2>1. Queue!Cardinality(pending \cup ready) <= MaxParallel
    BY <1>4 DEF Cardinality, Queue!Cardinality
  <2>2. QED
    BY <1>1, <1>3, <2>1 DEF Queue!Start
<1>6. QED
  BY <1>1, <1>2, <1>5 DEF Queue!QNext

LEMMA OpDoneSteps ==
  ASSUME OpsInOrder, NEW op \in pending, NEW ok \in BOOLEAN, OpDone(op, ok)
  PROVE  OpsInOrder' /\ Queue!QNext
<1>1. pending' = pending \ {op} /\ UNCHANGED <<outbox, nextOp, nextBatch>>
  BY DEF OpDone, ApplyOpDone
<1>2. OpsInOrder'
  BY <1>1 DEF OpsInOrder
<1>3. QED
  BY <1>1, <1>2 DEF Queue!QNext, Queue!Finish

LEMMA CloseSteps ==
  ASSUME OpsInOrder, Close
  PROVE  OpsInOrder' /\ Queue!QNext
<1>1. outbox' = {} /\ pending' = {} /\ UNCHANGED <<nextOp, nextBatch>>
  BY DEF Close
<1>2. QED
  BY <1>1 DEF OpsInOrder, Queue!QNext, Queue!Abandon

\* What the user may ask for: some names, in a pane's directory or another.
LEMMA AskingSteps ==
  ASSUME OpsInOrder,
         \/ Upload \/ UploadExternal \/ Download \/ ConfirmRemove \/ SubmitPrompt
         \/ \E side \in Sides : DropOn(side)
  PROVE  OpsInOrder' /\ [Queue!QNext]_<<outbox, pending>>
<1>1. ASSUME NEW side, NEW n \in Nat, NEW names \in [1..n -> Names], Into(side, names)
      PROVE  OpsInOrder' /\ [Queue!QNext]_<<outbox, pending>>
  <2> DEFINE keys == [i \in 1..n |-> Key(side, panes[side].path, names[i])]
  <2>1. Enqueue(side, keys)
    BY <1>1 DEF Into
  <2>2. keys \in [1..n -> {Key(side, panes[side].path, names[i]) : i \in 1..n}]
    OBVIOUS
  <2> HIDE DEF keys
  <2>3. QED
    BY <2>1, <2>2, EnqueueSteps
<1>2. ASSUME NEW side, NEW names \in Marked, Into(side, names)
      PROVE  OpsInOrder' /\ [Queue!QNext]_<<outbox, pending>>
  BY <1>1, <1>2, MarksAreSequences
<1>3. CASE Upload \/ Download \/ ConfirmRemove
  BY <1>2, <1>3 DEF Upload, Download, ConfirmRemove
<1>4. CASE UploadExternal
  <2>1. PICK names \in Several : Into("remote", names)
    BY <1>4 DEF UploadExternal
  <2>2. PICK n \in Nat : names \in [1..n -> Names]
    BY <2>1, TabAssumptions DEF Several
  <2>3. QED
    BY <1>1, <2>1, <2>2
<1>5. CASE \E side \in Sides : DropOn(side)
  <2>1. PICK side \in Sides, name \in Names : Into(side, <<name>>)
    BY <1>5 DEF DropOn
  <2>2. <<name>> \in [1..1 -> Names]
    OBVIOUS
  <2>3. QED
    BY <1>1, <2>1, <2>2
<1>6. CASE SubmitPrompt
  <2>1. PICK dir \in Dirs, name \in Names : Enqueue("remote", <<Key("remote", dir, name)>>)
    BY <1>6 DEF SubmitPrompt
  <2>2. <<Key("remote", dir, name)>> \in [1..1 -> {Key("remote", dir, name)}]
    OBVIOUS
  <2>3. QED
    BY <2>1, <2>2, EnqueueSteps
<1>7. QED
  BY <1>3, <1>4, <1>5, <1>6

LEMMA NextSteps == OpsInOrder /\ [Next]_vars => OpsInOrder' /\ [Queue!QNext]_<<outbox, pending>>
<1> SUFFICES ASSUME OpsInOrder, [Next]_vars
             PROVE  OpsInOrder' /\ [Queue!QNext]_<<outbox, pending>>
  OBVIOUS
<1>1. ASSUME UNCHANGED <<outbox, pending, nextOp, nextBatch>>
      PROVE  OpsInOrder' /\ [Queue!QNext]_<<outbox, pending>>
  BY <1>1 DEF OpsInOrder
<1>2. CASE \/ SharedAnswers \/ ChannelAnswers \/ ConnectedArrives \/ OpenResolves
           \/ OpenRejected \/ CloseArrives
  BY <1>1, <1>2 DEF SharedAnswers, ChannelAnswers, ConnectedArrives, OpenResolves,
     OpenRejected, CloseArrives, queue
<1>3. CASE \E side \in Sides, dir \in Dirs : Navigate(side, dir) \/ Listed(side, dir)
  BY <1>1, <1>3 DEF Navigate, Listed
<1>4. CASE Relist
  BY <1>1, <1>4 DEF Relist
<1>5. CASE \E f \in Files : OpenFile(f) \/ FileRead(f)
  BY <1>1, <1>5 DEF OpenFile, FileRead, queue
<1>6. CASE EditorReady \/ SaveFile \/ FileSaved \/ CloseEditor
  BY <1>1, <1>6 DEF EditorReady, SaveFile, FileSaved, CloseEditor, queue
<1>7. CASE \/ Upload \/ UploadExternal \/ Download \/ ConfirmRemove \/ SubmitPrompt
           \/ \E side \in Sides : DropOn(side)
  BY <1>7, AskingSteps
<1>8. CASE Pump \/ Close
  BY <1>8, PumpSteps, CloseSteps
<1>9. CASE \E op \in pending, ok \in BOOLEAN : OpDone(op, ok)
  BY <1>9, OpDoneSteps
<1>10. CASE UNCHANGED vars
  BY <1>1, <1>10 DEF vars, queue
<1>11. QED
  BY <1>2, <1>3, <1>4, <1>5, <1>6, <1>7, <1>8, <1>9, <1>10 DEF Next

-----------------------------------------------------------------------------
(* What holds of every behaviour *)

\* Operations are known by their ids, which are handed out in order.
THEOREM Invariance == Spec => []OpsInOrder
<1>1. OpsInOrder /\ [Next]_vars => OpsInOrder'
  BY NextSteps
<1>2. QED
  BY <1>1, InitInOrder, PTL DEF Spec

\* The file browser's queue implements the abstract one: batches in order, one
\* path's operations in order, never more than MAX_PARALLEL_OPS at once, whatever
\* else the tab does meanwhile (stores/sftpQueue.ts).
THEOREM QueueImplemented == Spec => ImplementsQueue
<1>1. Init => Queue!QInit
  BY DEF Init, Queue!QInit
<1>2. OpsInOrder /\ [Next]_vars => [Queue!QNext]_(Queue!qvars)
  BY NextSteps DEF Queue!qvars
<1>3. QED
  BY <1>1, <1>2, Invariance, PTL DEF Spec, ImplementsQueue, Queue!QSpec

-----------------------------------------------------------------------------
(* What the queue's promises amount to *)

\* Running operations are of the oldest batch, on paths of their own, and few.
Apart ==
    /\ \A o, p \in pending : o.key = p.key => o = p
    /\ \A o, p \in pending : o.batch = p.batch
    /\ \A p \in pending, o \in outbox :
        p.batch <= o.batch /\ (p.key = o.key => p.id < o.id)
    /\ Cardinality(pending) <= MaxParallel

LEMMA StartKeepsApart ==
  ASSUME OpsInOrder, Apart, NEW ops \in SUBSET outbox, Queue!Start(ops)
  PROVE  Apart'
<1>1. /\ outbox' = outbox \ ops /\ pending' = pending \cup ops
      /\ \A o \in ops, p \in outbox \cup pending : ~Queue!Before(p, o)
      /\ Cardinality(pending \cup ops) <= MaxParallel
  BY DEF Queue!Start, Queue!Cardinality, Cardinality
<1>2. ASSUME NEW o \in ops, NEW p \in outbox \cup pending
      PROVE  o.batch <= p.batch /\ (p.key = o.key => o.id <= p.id)
  <2>1. /\ o.batch \in Nat /\ p.batch \in Nat /\ o.id \in Nat /\ p.id \in Nat
    BY DEF OpsInOrder
  <2>2. ~Queue!Before(p, o)
    BY <1>1
  <2>3. QED
    BY <2>1, <2>2 DEF Queue!Before
<1>3. ASSUME NEW o \in ops, NEW p \in ops
      PROVE  (o.key = p.key => o = p) /\ o.batch = p.batch
  <2>1. /\ o.batch \in Nat /\ p.batch \in Nat /\ o.id \in Nat /\ p.id \in Nat
        /\ o.id = p.id => o = p
    BY DEF OpsInOrder
  <2>2. /\ o.batch <= p.batch /\ (p.key = o.key => o.id <= p.id)
        /\ p.batch <= o.batch /\ (o.key = p.key => p.id <= o.id)
    BY <1>2
  <2>3. QED
    BY <2>1, <2>2
<1>4. ASSUME NEW o \in ops, NEW p \in pending
      PROVE  o.key # p.key /\ o.batch = p.batch
  <2>1. o.batch \in Nat /\ p.batch \in Nat
    BY DEF OpsInOrder
  <2>2. o.batch <= p.batch /\ p.batch <= o.batch
    BY <1>2 DEF Apart
  <2>3. o.key # p.key
    BY <1>1 DEF Apart, Queue!Before
  <2>4. QED
    BY <2>1, <2>2, <2>3
<1>5. ASSUME NEW o \in ops, NEW q \in outbox \ ops
      PROVE  o.batch <= q.batch /\ (o.key = q.key => o.id < q.id)
  <2>1. o.id \in Nat /\ q.id \in Nat /\ o.id # q.id
    BY DEF OpsInOrder
  <2>2. o.batch <= q.batch /\ (q.key = o.key => o.id <= q.id)
    BY <1>2
  <2>3. QED
    BY <2>1, <2>2
<1>6. QED
  BY <1>1, <1>3, <1>4, <1>5 DEF Apart

LEMMA NextKeepsApart ==
  ASSUME OpsInOrder, Apart, [Queue!QNext]_<<outbox, pending>>
  PROVE  Apart'
<1>1. CASE Queue!Ask(outbox' \ outbox)
  <2>1. PICK ops : ops = outbox' \ outbox
    OBVIOUS
  <2>2. /\ outbox' = outbox \cup ops /\ pending' = pending
        /\ \A o \in ops : o.id \in Nat /\ o.batch \in Nat
        /\ \A o \in ops, p \in pending : p.id < o.id /\ p.batch < o.batch
    BY <1>1, <2>1 DEF Queue!Ask, Queue!IsOp
  <2>3. \A p \in pending : p.batch \in Nat
    BY DEF OpsInOrder
  <2>4. QED
    BY <2>2, <2>3 DEF Apart
<1>2. CASE \E ops \in SUBSET outbox : Queue!Start(ops)
  BY <1>2, StartKeepsApart
<1>3. CASE \E o \in pending : Queue!Finish(o)
  <2>1. pending' \in SUBSET pending /\ outbox' = outbox
    BY <1>3 DEF Queue!Finish
  <2>2. IsFiniteSet(pending) /\ Cardinality(pending) \in Nat
    BY OpsAreFinite
  <2>3. IsFiniteSet(pending') /\ Cardinality(pending') <= Cardinality(pending)
    BY <2>1, <2>2, FS_Subset
  <2>4. Cardinality(pending') \in Nat
    BY <2>3, FS_CardinalityType
  <2>5. Cardinality(pending') <= MaxParallel
    BY <2>2, <2>3, <2>4, TabAssumptions DEF Apart
  <2>6. QED
    BY <2>1, <2>5 DEF Apart
<1>4. CASE Queue!Abandon
  <2>1. Cardinality(pending') = 0
    BY <1>4, FS_EmptySet DEF Queue!Abandon
  <2>2. QED
    BY <1>4, <2>1, TabAssumptions DEF Apart, Queue!Abandon
<1>5. CASE UNCHANGED <<outbox, pending>>
  BY <1>5 DEF Apart
<1>6. QED
  BY <1>1, <1>2, <1>3, <1>4, <1>5 DEF Queue!QNext

\* Never two operations on one path at a time, never two batches at a time, never
\* more than MAX_PARALLEL_OPS (stores/sftpQueue.ts).
THEOREM OpsNeverCollide ==
  Spec => [](Queue!NeverTwoOnOnePath /\ Queue!OneBatchAtATime /\ Queue!Bounded)
<1>1. Init => Apart
  <2>1. Cardinality({}) = 0
    BY FS_EmptySet
  <2>2. QED
    BY <2>1, TabAssumptions DEF Init, Apart
<1>2. OpsInOrder /\ Apart /\ [Next]_vars => Apart'
  BY NextSteps, NextKeepsApart
<1>3. OpsInOrder /\ Apart => Queue!NeverTwoOnOnePath /\ Queue!OneBatchAtATime /\ Queue!Bounded
  <2>1. SUFFICES ASSUME OpsInOrder, Apart
                 PROVE  Queue!NeverTwoOnOnePath /\ Queue!OneBatchAtATime /\ Queue!Bounded
    OBVIOUS
  <2>2. IsFiniteSet(pending)
    BY <2>1, OpsAreFinite
  <2>3. Queue!Bounded
    BY <2>1, <2>2 DEF Apart, Queue!Bounded, Queue!Cardinality, Cardinality,
       Queue!IsFiniteSet, IsFiniteSet
  <2>4. QED
    BY <2>1, <2>3 DEF Apart, Queue!NeverTwoOnOnePath, Queue!OneBatchAtATime
<1>4. QED
  BY <1>1, <1>2, <1>3, Invariance, PTL DEF Spec

-----------------------------------------------------------------------------
(* Terminals: what is on its way to a tab *)

Messages == {"ok", "error", "exited", "output"}
Heard == {"open", "ended", "gone"}

\* How a tab, its shell and what is on its way go together: the answer comes once
\* and first, output after it, the exit notice after the output.
WireInv(v, s, w, b) ==
  /\ w \in Seq(Messages) /\ b \in Nat
  /\ v \in {"none", "mounting"} => s = "none"
  /\ s \in {"none", "connecting", "session"} => v \notin {"open", "ended"} /\ w = <<>>
  /\ s = "failed" => /\ v \notin {"open", "ended"}
                     /\ \A i \in 1..Len(w) : w[i] \in {"exited", "error"}
  /\ \A i \in 1..Len(w) :
       /\ w[i] = "error" => s = "failed"
       /\ w[i] = "exited" => /\ s \in {"exited", "failed"}
                             /\ \A j \in 1..Len(w) : j > i => w[j] # "output"
       /\ w[i] = "ok" => /\ v \notin {"open", "ended"}
                         /\ \A j \in 1..Len(w) : w[j] = "ok" => j = i
       /\ w[i] = "output" => v \in Heard \/ \E j \in 1..Len(w) : j < i /\ w[j] = "ok"
  /\ b > 0 => s = "up"
  /\ s = "up" => v \in Heard \/ \E j \in 1..Len(w) : w[j] = "ok"

\* The first message is taken off.
LEMMA TailIsWell ==
  ASSUME NEW v, NEW s, NEW w, NEW b, WireInv(v, s, w, b), w # <<>>,
         NEW u, u \in {"none", "mounting"} => v \in {"none", "mounting"},
         \/ Head(w) = "ok" /\ u \in Heard
         \/ Head(w) # "ok" /\ (v \in Heard => u \in Heard)
            /\ (u \in {"open", "ended"} => v \in {"open", "ended"})
  PROVE  WireInv(u, s, Tail(w), b)
<1>1. /\ w \in Seq(Messages) /\ Len(w) \in Nat \ {0} /\ Head(w) = w[1]
      /\ Tail(w) \in Seq(Messages) /\ Len(Tail(w)) = Len(w) - 1
      /\ \A i \in 1..Len(Tail(w)) : Tail(w)[i] = w[i + 1]
  BY HeadTailProperties, EmptySeq DEF WireInv
<1> DEFINE x == Tail(w)
<1> HIDE DEF x
<1>2. /\ 1 \in 1..Len(w)
      /\ \A i \in 1..Len(x) : i + 1 \in 1..Len(w) /\ x[i] = w[i + 1] /\ i + 1 > 1
      /\ \A i \in 1..Len(w) : i # 1 => i - 1 \in 1..Len(x) /\ x[i - 1] = w[i]
      /\ \A i, j \in 1..Len(x) : (j > i <=> j + 1 > i + 1) /\ (j = i <=> j + 1 = i + 1)
  BY <1>1 DEF x
<1>3. s \notin {"none", "connecting", "session"}
  BY DEF WireInv
<1>7. /\ \A i \in 1..Len(w) : w[i] = "error" => s = "failed"
      /\ \A i, j \in 1..Len(w) :
           w[i] = "exited" => s \in {"exited", "failed"} /\ (j > i => w[j] # "output")
      /\ \A i, j \in 1..Len(w) : w[i] = "ok" => v \notin {"open", "ended"} /\ (w[j] = "ok" => j = i)
      /\ \A i \in 1..Len(w) : w[i] = "output" => v \in Heard \/ \E j \in 1..Len(w) : j < i /\ w[j] = "ok"
  BY DEF WireInv
<1>8. /\ \A i \in 1..Len(x) : x[i] = "error" => s = "failed"
      /\ \A i, j \in 1..Len(x) :
           x[i] = "exited" => s \in {"exited", "failed"} /\ (j > i => x[j] # "output")
      /\ \A i, j \in 1..Len(x) : x[i] = "ok" => v \notin {"open", "ended"} /\ (x[j] = "ok" => j = i)
  <2>1. ASSUME NEW i \in 1..Len(x), NEW j \in 1..Len(x)
        PROVE  /\ x[i] = "error" => s = "failed"
               /\ x[i] = "exited" => s \in {"exited", "failed"} /\ (j > i => x[j] # "output")
               /\ x[i] = "ok" => v \notin {"open", "ended"} /\ (x[j] = "ok" => j = i)
    <3>1. PICK k \in 1..Len(w) : k = i + 1 /\ x[i] = w[k]
      BY <1>2
    <3>2. PICK l \in 1..Len(w) : l = j + 1 /\ x[j] = w[l]
      BY <1>2
    <3>3. (j > i => l > k) /\ (l = k => j = i)
      BY <3>1, <3>2
    <3>4. QED
      BY <1>7, <3>1, <3>2, <3>3
  <2>2. QED
    BY <2>1
<1>4. CASE Head(w) = "ok"
  <2>1. s # "failed" /\ \A i \in 1..Len(x) : x[i] # "ok"
    BY <1>1, <1>2, <1>4 DEF WireInv
  <2>2. \A i \in 1..Len(x) :
          /\ x[i] = "error" => s = "failed"
          /\ x[i] = "exited" => /\ s \in {"exited", "failed"}
                                /\ \A j \in 1..Len(x) : j > i => x[j] # "output"
    BY <1>8
  <2>3. u \in Heard
    BY <1>4
  <2>4. QED
    BY <1>1, <1>3, <2>1, <2>2, <2>3 DEF WireInv, x, Heard
<1>5. CASE Head(w) # "ok"
  <2>1. (v \in Heard => u \in Heard) /\ (u \in {"open", "ended"} => v \in {"open", "ended"})
    BY <1>5
  <2>2. \A i \in 1..Len(x) :
          /\ x[i] = "error" => s = "failed"
          /\ x[i] = "exited" => /\ s \in {"exited", "failed"}
                                /\ \A j \in 1..Len(x) : j > i => x[j] # "output"
          /\ x[i] = "ok" => /\ u \notin {"open", "ended"}
                            /\ \A j \in 1..Len(x) : x[j] = "ok" => j = i
    BY <1>8, <2>1
  <2>3. ASSUME NEW i \in 1..Len(x), x[i] = "output"
        PROVE  u \in Heard \/ \E j \in 1..Len(x) : j < i /\ x[j] = "ok"
    <3>1. v \in Heard \/ \E j \in 1..Len(w) : j < i + 1 /\ w[j] = "ok"
      BY <1>2, <1>7, <2>3
    <3>2. ASSUME NEW j \in 1..Len(w), j < i + 1, w[j] = "ok"
          PROVE  \E k \in 1..Len(x) : k < i /\ x[k] = "ok"
      <4>1. j # 1
        BY <1>1, <1>5, <3>2
      <4>2. j - 1 \in 1..Len(x) /\ x[j - 1] = "ok"
        BY <1>2, <3>2, <4>1
      <4>3. j - 1 < i
        BY <3>2
      <4>4. QED
        BY <4>2, <4>3
    <3>3. QED
      BY <2>1, <3>1, <3>2
  <2>4. s = "up" => u \in Heard \/ \E j \in 1..Len(x) : x[j] = "ok"
    <3>1. ASSUME NEW j \in 1..Len(w), w[j] = "ok"
          PROVE  \E k \in 1..Len(x) : x[k] = "ok"
      BY <1>1, <1>2, <1>5, <3>1
    <3>2. QED
      BY <2>1, <3>1 DEF WireInv
  <2>5. s = "failed" => /\ u \notin {"open", "ended"}
                        /\ \A i \in 1..Len(x) : x[i] \in {"exited", "error"}
    BY <1>2, <2>1 DEF WireInv
  <2>6. x \in Seq(Messages)
    BY <1>1 DEF x
  <2>7. WireInv(u, s, x, b)
    BY <1>3, <2>2, <2>3, <2>4, <2>5, <2>6 DEF WireInv
  <2>8. QED
    BY <2>7 DEF x
<1>6. QED
  BY <1>4, <1>5

\* The first answer is all there is.
LEMMA AnswerIsWell ==
  ASSUME NEW v, NEW s, NEW w, NEW b, WireInv(v, s, w, b), s \in {"connecting", "session"}
  PROVE  /\ WireInv(v, "up", w \o <<"ok">>, b)
         /\ WireInv(v, "failed", w \o <<"error">>, b)
         /\ WireInv(v, "failed", w \o <<"exited", "error">>, b)
         /\ WireInv(v, "session", w, b)
<1>1. w = <<>> /\ v \notin {"none", "mounting", "open", "ended"} /\ b = 0
  BY DEF WireInv
<1>2. /\ w \o <<"ok">> = <<"ok">> /\ w \o <<"error">> = <<"error">>
      /\ w \o <<"exited", "error">> = <<"exited", "error">>
  BY <1>1
<1>3. WireInv(v, "up", <<"ok">>, b)
  BY <1>1 DEF WireInv, Messages, Heard
<1>4. WireInv(v, "failed", <<"error">>, b)
  BY <1>1 DEF WireInv, Messages, Heard
<1>5. WireInv(v, "failed", <<"exited", "error">>, b)
  <2> DEFINE x == <<"exited", "error">>
  <2>1. x \in Seq(Messages) /\ Len(x) = 2 /\ x[1] = "exited" /\ x[2] = "error"
    BY DEF Messages
  <2>2. \A i \in 1..Len(x) : i = 1 \/ i = 2
    BY <2>1
  <2> HIDE DEF x
  <2>3. WireInv(v, "failed", x, b)
    BY <1>1, <2>1, <2>2 DEF WireInv
  <2>4. QED
    BY <2>3 DEF x
<1>6. WireInv(v, "session", w, b)
  BY <1>1 DEF WireInv
<1>7. QED
  BY <1>2, <1>3, <1>4, <1>5, <1>6

\* Output, and the notice after it.
LEMMA BatchIsWell ==
  ASSUME NEW v, NEW w, NEW b, WireInv(v, "up", w, b), NEW x \in Seq({"output"})
  PROVE  /\ WireInv(v, "up", w \o x, 0)
         /\ WireInv(v, "exited", w \o Append(x, "exited"), 0)
<1>1. w \in Seq(Messages) /\ x \in Seq(Messages) /\ Append(x, "exited") \in Seq(Messages)
  <2>1. x \in Seq(Messages)
    BY SeqMonotonic DEF Messages
  <2>2. QED
    BY <2>1 DEF WireInv, Messages
<1>2. Len(w) \in Nat /\ Len(x) \in Nat /\ \A i \in 1..Len(x) : x[i] = "output"
  BY <1>1, LenProperties, ElementOfSeq
<1>3. \A i \in 1..Len(w) : w[i] \notin {"error", "exited"}
  BY DEF WireInv
<1>4. ASSUME NEW y \in Seq(Messages), NEW s \in {"up", "exited"},
             \A i \in 1..Len(y) : \/ y[i] = "output"
                                  \/ s = "exited" /\ y[i] = "exited" /\ i = Len(y)
      PROVE  WireInv(v, s, w \o y, 0)
  <2> DEFINE z == w \o y
  <2>1. /\ z \in Seq(Messages) /\ Len(z) = Len(w) + Len(y) /\ Len(y) \in Nat
        /\ \A i \in 1..Len(z) : z[i] = IF i <= Len(w) THEN w[i] ELSE y[i - Len(w)]
    BY <1>1, <1>4, ConcatProperties, LenProperties
  <2> HIDE DEF z
  <2>2. \A i \in 1..Len(w) : i \in 1..Len(z) /\ z[i] = w[i]
    BY <1>2, <2>1
  <2>3. \A i \in 1..Len(z) : \/ i \in 1..Len(w) /\ z[i] = w[i]
                             \/ i > Len(w) /\ i - Len(w) \in 1..Len(y) /\ z[i] = y[i - Len(w)]
    BY <1>2, <2>1
  <2>4. \A i \in 1..Len(z) : i > Len(w) => \/ z[i] = "output"
                                           \/ s = "exited" /\ z[i] = "exited" /\ i = Len(z)
    <3>1. ASSUME NEW i \in 1..Len(z), i > Len(w)
          PROVE  \/ z[i] = "output"
                 \/ s = "exited" /\ z[i] = "exited" /\ i = Len(z)
      <4>1. i - Len(w) \in 1..Len(y) /\ z[i] = y[i - Len(w)]
        BY <1>2, <2>1, <3>1
      <4>2. i - Len(w) = Len(y) => i = Len(z)
        BY <1>2, <2>1
      <4>3. QED
        BY <1>4, <4>1, <4>2
    <3>2. QED
      BY <3>1
  <2>5. ASSUME NEW i \in 1..Len(z)
        PROVE  /\ z[i] # "error"
               /\ z[i] = "exited" => /\ s = "exited"
                                     /\ \A j \in 1..Len(z) : j > i => z[j] # "output"
               /\ z[i] = "ok" => i \in 1..Len(w) /\ w[i] = "ok"
    <3>1. CASE i \in 1..Len(w) /\ z[i] = w[i]
      BY <1>3, <3>1
    <3>2. CASE i > Len(w)
      <4>1. z[i] = "exited" => s = "exited" /\ i = Len(z)
        BY <2>4, <3>2
      <4>2. i = Len(z) => \A j \in 1..Len(z) : ~(j > i)
        BY <2>1
      <4>3. QED
        BY <2>4, <3>2, <4>1, <4>2
    <3>3. QED
      BY <2>3, <3>1, <3>2
  <2>6. ASSUME NEW i \in 1..Len(z), z[i] = "ok"
        PROVE  /\ v \notin {"open", "ended"}
               /\ \A j \in 1..Len(z) : z[j] = "ok" => j = i
    BY <2>5, <2>6 DEF WireInv
  <2>7. v \in Heard \/ \E j \in 1..Len(w) : w[j] = "ok"
    BY DEF WireInv
  <2>8. v \in Heard \/ \E j \in 1..Len(z) : z[j] = "ok"
    BY <2>2, <2>7
  <2>9. ASSUME NEW i \in 1..Len(z), z[i] = "output"
        PROVE  v \in Heard \/ \E j \in 1..Len(z) : j < i /\ z[j] = "ok"
    <3>1. CASE i \in 1..Len(w)
      <4>1. v \in Heard \/ \E j \in 1..Len(w) : j < i /\ w[j] = "ok"
        BY <2>2, <2>9, <3>1 DEF WireInv
      <4>2. QED
        BY <2>2, <4>1
    <3>2. CASE i > Len(w)
      <4>1. \A j \in 1..Len(w) : j < i
        BY <1>2, <3>2
      <4>2. QED
        BY <2>2, <2>7, <4>1
    <3>3. QED
      BY <2>3, <3>1, <3>2
  <2>10. v \notin {"none", "mounting"}
    BY DEF WireInv
  <2>11. WireInv(v, s, z, 0)
    BY <1>4, <2>1, <2>5, <2>6, <2>8, <2>9, <2>10 DEF WireInv
  <2>12. QED
    BY <2>11 DEF z
<1>5. WireInv(v, "up", w \o x, 0)
  BY <1>1, <1>2, <1>4
<1>6. \A i \in 1..Len(Append(x, "exited")) :
        \/ Append(x, "exited")[i] = "output"
        \/ Append(x, "exited")[i] = "exited" /\ i = Len(Append(x, "exited"))
  <2>1. /\ Len(Append(x, "exited")) = Len(x) + 1
        /\ \A i \in 1..Len(x) : Append(x, "exited")[i] = x[i]
        /\ Append(x, "exited")[Len(x) + 1] = "exited"
    BY <1>1, <1>2, AppendProperties
  <2>2. QED
    BY <1>2, <2>1
<1>7. WireInv(v, "exited", w \o Append(x, "exited"), 0)
  BY <1>1, <1>4, <1>6
<1>8. QED
  BY <1>5, <1>7

\* The tab's component moves on: a terminal that has begun to listen does so to its end.
LEMMA ViewIsWell ==
  ASSUME NEW v, NEW s, NEW w, NEW b, WireInv(v, s, w, b), NEW u,
         u \in {"none", "mounting"} => s = "none",
         u \in {"open", "ended"} => v \in {"open", "ended"},
         v \in Heard => u \in Heard
  PROVE  WireInv(u, s, w, b)
BY DEF WireInv

-----------------------------------------------------------------------------
(* What is typed *)

Chunks == [of : Nat, left : 1..2]

\* Inputs are numbered as they are asked for and wait in that order; the chunk in
\* flight and the one the shell read last are of inputs no later than those.
InputInv(v, waits, flies, last, read) ==
  /\ waits \in Seq(Chunks) /\ flies \in Nat /\ last \in Nat /\ read \in Nat
  /\ v \notin Heard => waits = <<>> /\ flies = 0 /\ last = 0 /\ read = 0
  /\ \A i \in 1..Len(waits) :
       /\ waits[i].of <= last /\ flies <= waits[i].of /\ read <= waits[i].of
       /\ \A j \in 1..Len(waits) : i < j => waits[i].of < waits[j].of
  /\ flies <= last /\ read <= last /\ (flies # 0 => read <= flies)

LEMMA OpeningIsWell ==
  ASSUME NEW v, NEW waits, NEW flies, NEW last, NEW read, InputInv(v, waits, flies, last, read),
         v \notin Heard, NEW u, NEW n \in Nat
  PROVE  u \in Heard => InputInv(u, [i \in 1..n |-> [of |-> i, left |-> 1]], flies, n, read)
<1>1. flies = 0 /\ read = 0
  BY DEF InputInv
<1> DEFINE w == [i \in 1..n |-> [of |-> i, left |-> 1]]
<1>2. \A i \in 1..n : w[i] \in Chunks /\ w[i].of = i
  BY DEF Chunks
<1>3. w \in Seq(Chunks) /\ Len(w) = n
  <2>1. w \in [1..n -> Chunks]
    BY <1>2
  <2>2. QED
    BY <2>1, SeqDef, LenProperties
<1> HIDE DEF w
<1>4. \A i \in 1..Len(w) : /\ w[i].of <= n /\ 0 <= w[i].of
                           /\ \A j \in 1..Len(w) : i < j => w[i].of < w[j].of
  BY <1>2, <1>3
<1>5. u \in Heard => InputInv(u, w, flies, n, read)
  BY <1>1, <1>3, <1>4 DEF InputInv
<1>6. QED
  BY <1>5 DEF w

LEMMA AskedIsWell ==
  ASSUME NEW v, NEW waits, NEW flies, NEW last, NEW read, InputInv(v, waits, flies, last, read),
         v \in Heard, NEW c \in 1..2
  PROVE  InputInv(v, Append(waits, [of |-> last + 1, left |-> c]), flies, last + 1, read)
<1> DEFINE e == [of |-> last + 1, left |-> c]
           w == Append(waits, e)
<1>1. last + 1 \in Nat /\ e \in Chunks /\ e.of = last + 1
  BY DEF InputInv, Chunks
<1>2. waits \in Seq(Chunks)
  BY DEF InputInv
<1> HIDE DEF e
<1>3. /\ w \in Seq(Chunks) /\ Len(w) = Len(waits) + 1 /\ Len(waits) \in Nat
      /\ \A i \in 1..Len(waits) : w[i] = waits[i]
      /\ w[Len(waits) + 1] = e
  BY <1>1, <1>2, AppendProperties, LenProperties
<1> HIDE DEF w
<1>4. ASSUME NEW i \in 1..Len(w)
      PROVE  /\ w[i].of <= last + 1 /\ flies <= w[i].of /\ read <= w[i].of
             /\ \A j \in 1..Len(w) : i < j => w[i].of < w[j].of
  <2>1. \A j \in 1..Len(waits) : /\ waits[j] \in Chunks /\ waits[j].of \in Nat
                                 /\ waits[j].of <= last /\ flies <= waits[j].of /\ read <= waits[j].of
                                 /\ \A k \in 1..Len(waits) : j < k => waits[j].of < waits[k].of
    <3>1. \A j \in 1..Len(waits) : waits[j] \in Chunks
      BY <1>2, ElementOfSeq
    <3>2. \A r \in Chunks : r.of \in Nat
      BY DEF Chunks
    <3>3. QED
      BY <3>1, <3>2 DEF InputInv
  <2>2. last \in Nat /\ flies \in Nat /\ read \in Nat /\ flies <= last /\ read <= last
    BY DEF InputInv
  <2>3. CASE i \in 1..Len(waits)
    <3>1. w[i] = waits[i] /\ waits[i].of \in Nat /\ waits[i].of <= last
      BY <1>3, <2>1, <2>3
    <3>2. ASSUME NEW j \in 1..Len(w), i < j PROVE w[i].of < w[j].of
      <4>1. CASE j \in 1..Len(waits)
        BY <1>3, <2>1, <2>3, <3>2, <4>1
      <4>2. CASE j = Len(waits) + 1
        <5>1. w[j].of = last + 1
          BY <1>1, <1>3, <4>2
        <5>2. QED
          BY <2>2, <3>1, <5>1
      <4>3. QED
        BY <1>3, <4>1, <4>2
    <3>3. waits[i].of <= last + 1
      BY <2>2, <3>1
    <3>4. QED
      BY <2>1, <2>3, <3>1, <3>2, <3>3
  <2>4. CASE i = Len(waits) + 1
    <3>1. w[i].of = last + 1
      BY <1>1, <1>3, <2>4
    <3>2. last + 1 <= last + 1 /\ flies <= last + 1 /\ read <= last + 1
      BY <2>2
    <3>3. \A j \in 1..Len(w) : ~(i < j)
      BY <1>3, <2>4
    <3>4. QED
      BY <3>1, <3>2, <3>3
  <2>5. QED
    BY <1>3, <2>3, <2>4
<1>5. flies <= last + 1 /\ read <= last + 1 /\ (flies # 0 => read <= flies)
  BY DEF InputInv
<1>6. flies \in Nat /\ read \in Nat
  BY DEF InputInv
<1>7. InputInv(v, w, flies, last + 1, read)
  BY <1>1, <1>3, <1>4, <1>5, <1>6 DEF InputInv
<1>8. QED
  BY <1>7 DEF w, e

LEMMA SentIsWell ==
  ASSUME NEW v, NEW waits, NEW last, NEW read, InputInv(v, waits, 0, last, read), waits # <<>>
  PROVE  InputInv(v, IF Head(waits).left = 1 THEN Tail(waits) ELSE [waits EXCEPT ![1].left = 1],
                  Head(waits).of, last, read)
<1>1. /\ waits \in Seq(Chunks) /\ last \in Nat /\ read \in Nat /\ read <= last /\ v \in Heard
  BY DEF InputInv
<1>2. /\ Len(waits) \in Nat \ {0} /\ Head(waits) = waits[1]
      /\ Tail(waits) \in Seq(Chunks) /\ Len(Tail(waits)) = Len(waits) - 1
      /\ \A i \in 1..Len(Tail(waits)) : Tail(waits)[i] = waits[i + 1]
  BY <1>1, HeadTailProperties, EmptySeq
<1>3. \A i \in 1..Len(waits) :
        /\ waits[i] \in Chunks /\ waits[i].of \in Nat
        /\ waits[i].of <= last /\ read <= waits[i].of
        /\ \A j \in 1..Len(waits) : i < j => waits[i].of < waits[j].of
  <2>1. \A i \in 1..Len(waits) : waits[i] \in Chunks
    BY <1>1, ElementOfSeq
  <2>2. \A r \in Chunks : r.of \in Nat
    BY DEF Chunks
  <2>3. QED
    BY <2>1, <2>2 DEF InputInv
<1>4. PICK f \in Nat : f = Head(waits).of /\ f <= last /\ read <= f
  BY <1>2, <1>3
<1>5. \A i \in 1..Len(waits) : f <= waits[i].of
  <2>1. ASSUME NEW i \in 1..Len(waits) PROVE f <= waits[i].of
    <3>1. 1 \in 1..Len(waits) /\ f = waits[1].of /\ (1 < i \/ i = 1)
      BY <1>2, <1>4
    <3>2. waits[1].of < waits[i].of \/ i = 1
      BY <1>3, <3>1
    <3>3. waits[i].of \in Nat
      BY <1>3
    <3>4. QED
      BY <3>1, <3>2, <3>3
  <2>2. QED
    BY <2>1
<1>6. ASSUME NEW w \in Seq(Chunks),
             \A i \in 1..Len(w) : \E k \in 1..Len(waits) : w[i].of = waits[k].of,
             \A i, j \in 1..Len(w) : i < j => w[i].of < w[j].of
      PROVE  InputInv(v, w, f, last, read)
  <2>1. \A i \in 1..Len(w) : w[i].of <= last /\ f <= w[i].of /\ read <= w[i].of
    BY <1>3, <1>5, <1>6
  <2>2. QED
    BY <1>1, <1>4, <1>6, <2>1 DEF InputInv
<1>7. InputInv(v, Tail(waits), f, last, read)
  <2>1. \A i \in 1..Len(Tail(waits)) : i + 1 \in 1..Len(waits)
    BY <1>2
  <2>2. \A i, j \in 1..Len(Tail(waits)) : i < j => Tail(waits)[i].of < Tail(waits)[j].of
    <3>1. ASSUME NEW i \in 1..Len(Tail(waits)), NEW j \in 1..Len(Tail(waits)), i < j
          PROVE  Tail(waits)[i].of < Tail(waits)[j].of
      <4>1. i + 1 \in 1..Len(waits) /\ j + 1 \in 1..Len(waits) /\ i + 1 < j + 1
        BY <1>2, <3>1
      <4>2. waits[i + 1].of < waits[j + 1].of
        BY <1>3, <4>1
      <4>3. QED
        BY <1>2, <4>2
    <3>2. QED
      BY <3>1
  <2>3. \A i \in 1..Len(Tail(waits)) : \E k \in 1..Len(waits) : Tail(waits)[i].of = waits[k].of
    BY <1>2, <2>1
  <2>4. QED
    BY <1>2, <1>6, <2>2, <2>3
<1>8. InputInv(v, [waits EXCEPT ![1].left = 1], f, last, read)
  <2> DEFINE e == [waits[1] EXCEPT !.left = 1]
             w == [waits EXCEPT ![1].left = 1]
  <2>1. 1 \in 1..Len(waits) /\ e \in Chunks /\ e.of = waits[1].of
    <3>1. 1 \in 1..Len(waits) /\ waits[1] \in Chunks /\ 1 \in 1..2
      BY <1>2, <1>3
    <3>2. QED
      BY <3>1 DEF Chunks
  <2>2. w = [waits EXCEPT ![1] = e]
    OBVIOUS
  <2> HIDE DEF e, w
  <2>3. /\ w \in Seq(Chunks) /\ Len(w) = Len(waits)
        /\ \A i \in 1..Len(waits) : w[i] = IF i = 1 THEN e ELSE waits[i]
    BY <1>1, <2>1, <2>2, ExceptSeq
  <2>4. \A i \in 1..Len(w) : i \in 1..Len(waits) /\ w[i].of = waits[i].of
    BY <2>1, <2>3
  <2>5. \A i, j \in 1..Len(w) : i < j => w[i].of < w[j].of
    BY <1>3, <2>4
  <2>6. InputInv(v, w, f, last, read)
    BY <1>6, <2>3, <2>4, <2>5
  <2>7. QED
    BY <2>6 DEF w
<1>9. QED
  BY <1>4, <1>7, <1>8

LEMMA TypedStays ==
  ASSUME NEW v, NEW waits, NEW flies, NEW last, NEW read, InputInv(v, waits, flies, last, read),
         NEW u, v \in Heard => u \in Heard
  PROVE  /\ InputInv(u, waits, flies, last, read)
         /\ InputInv("gone", <<>>, flies, last, read)
BY DEF InputInv, Heard

LEMMA WrittenIsWell ==
  ASSUME NEW v, NEW waits, NEW flies, NEW last, NEW read, InputInv(v, waits, flies, last, read),
         flies # 0
  PROVE  /\ InputInv(v, waits, 0, last, read) /\ InputInv(v, waits, 0, last, flies)
         /\ read <= flies
<1>1. /\ waits \in Seq(Chunks) /\ flies \in Nat /\ last \in Nat /\ read \in Nat /\ v \in Heard
      /\ \A i \in 1..Len(waits) :
           /\ waits[i].of <= last /\ flies <= waits[i].of /\ read <= waits[i].of
           /\ \A j \in 1..Len(waits) : i < j => waits[i].of < waits[j].of
      /\ flies <= last /\ read <= last /\ read <= flies
  BY DEF InputInv
<1>2. \A i \in 1..Len(waits) : 0 <= waits[i].of
  <2>1. \A i \in 1..Len(waits) : waits[i] \in Chunks
    BY <1>1, ElementOfSeq
  <2>2. \A r \in Chunks : 0 <= r.of
    BY DEF Chunks
  <2>3. QED
    BY <2>1, <2>2
<1>3. QED
  BY <1>1, <1>2 DEF InputInv

-----------------------------------------------------------------------------
(* All tabs *)

OnTabs(x) == x = [t \in Tabs |-> x[t]]
Shape ==
  /\ OnTabs(view) /\ OnTabs(shell) /\ OnTabs(wire) /\ OnTabs(buffered)
  /\ OnTabs(typing) /\ OnTabs(sending) /\ OnTabs(asked) /\ OnTabs(received)

Wired(t) == WireInv(view[t], shell[t], wire[t], buffered[t])
Typed(t) == InputInv(view[t], typing[t], sending[t], asked[t], received[t])

TabsInv == Shape /\ missed = {} /\ \A t \in Tabs : Wired(t) /\ Typed(t)

\* What InputInOrder says of a step.
ReadsOn == \A t \in Tabs : received[t] <= received'[t]

LEMMA TabsInit == TerminalsInit => TabsInv
<1> SUFFICES ASSUME TerminalsInit PROVE TabsInv
  OBVIOUS
<1>1. Shape /\ missed = {}
  BY DEF TerminalsInit, Shape, OnTabs
<1>2. ASSUME NEW t \in Tabs PROVE Wired(t) /\ Typed(t)
  <2>1. /\ view[t] = "none" /\ shell[t] = "none" /\ wire[t] = <<>> /\ buffered[t] = 0
        /\ typing[t] = <<>> /\ sending[t] = 0 /\ asked[t] = 0 /\ received[t] = 0
    BY DEF TerminalsInit
  <2>2. WireInv("none", "none", <<>>, 0)
    BY EmptySeq DEF WireInv
  <2>3. InputInv("none", <<>>, 0, 0, 0)
    BY EmptySeq DEF InputInv, Heard
  <2>4. QED
    BY <2>1, <2>2, <2>3 DEF Wired, Typed
<1>3. QED
  BY <1>1, <1>2 DEF TabsInv

LEMMA TabsStay ==
  ASSUME TabsInv,
         UNCHANGED <<view, shell, wire, buffered, missed, typing, sending, asked, received>>
  PROVE  TabsInv' /\ ReadsOn
<1>1. TabsInv'
  BY DEF TabsInv, Shape, OnTabs, Wired, Typed
<1>2. \A t \in Tabs : received[t] \in Nat
  BY DEF TabsInv, Typed, InputInv
<1>3. QED
  BY <1>1, <1>2 DEF ReadsOn

\* One tab moves, in its own fields.
Moves(t, v, s, w, b) ==
  /\ view' = [view EXCEPT ![t] = v] /\ shell' = [shell EXCEPT ![t] = s]
  /\ wire' = [wire EXCEPT ![t] = w] /\ buffered' = [buffered EXCEPT ![t] = b]

Types(t, waits, flies, last, read) ==
  /\ typing' = [typing EXCEPT ![t] = waits] /\ sending' = [sending EXCEPT ![t] = flies]
  /\ asked' = [asked EXCEPT ![t] = last] /\ received' = [received EXCEPT ![t] = read]

LEMMA SameAs ==
  ASSUME Shape, NEW t \in Tabs
  PROVE  /\ view = [view EXCEPT ![t] = view[t]] /\ shell = [shell EXCEPT ![t] = shell[t]]
         /\ wire = [wire EXCEPT ![t] = wire[t]] /\ buffered = [buffered EXCEPT ![t] = buffered[t]]
         /\ typing = [typing EXCEPT ![t] = typing[t]] /\ sending = [sending EXCEPT ![t] = sending[t]]
         /\ asked = [asked EXCEPT ![t] = asked[t]] /\ received = [received EXCEPT ![t] = received[t]]
BY DEF Shape, OnTabs

LEMMA OneTab ==
  ASSUME TabsInv, NEW t \in Tabs,
         NEW v, NEW s, NEW w, NEW b, Moves(t, v, s, w, b), WireInv(v, s, w, b),
         NEW waits, NEW flies, NEW last, NEW read, Types(t, waits, flies, last, read),
         InputInv(v, waits, flies, last, read), received[t] <= read, missed' = {}
  PROVE  TabsInv' /\ ReadsOn
<1>1. /\ view' = [u \in Tabs |-> IF u = t THEN v ELSE view[u]]
      /\ shell' = [u \in Tabs |-> IF u = t THEN s ELSE shell[u]]
      /\ wire' = [u \in Tabs |-> IF u = t THEN w ELSE wire[u]]
      /\ buffered' = [u \in Tabs |-> IF u = t THEN b ELSE buffered[u]]
  BY DEF TabsInv, Shape, OnTabs, Moves
<1>2. /\ typing' = [u \in Tabs |-> IF u = t THEN waits ELSE typing[u]]
      /\ sending' = [u \in Tabs |-> IF u = t THEN flies ELSE sending[u]]
      /\ asked' = [u \in Tabs |-> IF u = t THEN last ELSE asked[u]]
      /\ received' = [u \in Tabs |-> IF u = t THEN read ELSE received[u]]
  BY DEF TabsInv, Shape, OnTabs, Types
<1>3. Shape'
  BY <1>1, <1>2 DEF Shape, OnTabs
<1>4. ASSUME NEW u \in Tabs PROVE Wired(u)' /\ Typed(u)' /\ received[u] <= received'[u]
  <2>1. CASE u = t
    BY <1>1, <1>2, <2>1 DEF Wired, Typed
  <2>2. CASE u # t
    <3>1. Wired(u) /\ Typed(u) /\ received[u] \in Nat
      BY DEF TabsInv, Typed, InputInv
    <3>2. received'[u] = received[u]
      BY <1>2, <2>2
    <3>3. Wired(u)' /\ Typed(u)'
      BY <1>1, <1>2, <2>2, <3>1 DEF Wired, Typed
    <3>4. QED
      BY <3>1, <3>2, <3>3
  <2>3. QED
    BY <2>1, <2>2
<1>5. QED
  BY <1>3, <1>4 DEF TabsInv, ReadsOn

\* The tab moves and nothing is typed or read.
LEMMA TabMoves ==
  ASSUME TabsInv, NEW t \in Tabs,
         NEW v, NEW s, NEW w, NEW b, Moves(t, v, s, w, b), WireInv(v, s, w, b),
         view[t] \in Heard => v \in Heard, missed' = {},
         UNCHANGED <<typing, sending, asked, received>>
  PROVE  TabsInv' /\ ReadsOn
<1>1. Types(t, typing[t], sending[t], asked[t], received[t])
  BY SameAs DEF TabsInv, Types
<1>2. InputInv(v, typing[t], sending[t], asked[t], received[t])
  BY TypedStays DEF TabsInv, Typed
<1>3. received[t] <= received[t]
  BY DEF TabsInv, Typed, InputInv
<1>4. QED
  BY <1>1, <1>2, <1>3, OneTab

\* Something is typed or read and the tab stays as it is.
LEMMA TabTypes ==
  ASSUME TabsInv, NEW t \in Tabs,
         NEW waits, NEW flies, NEW last, NEW read, Types(t, waits, flies, last, read),
         InputInv(view[t], waits, flies, last, read), received[t] <= read,
         UNCHANGED <<view, shell, wire, buffered, missed>>
  PROVE  TabsInv' /\ ReadsOn
<1>1. Moves(t, view[t], shell[t], wire[t], buffered[t])
  BY SameAs DEF TabsInv, Moves
<1>2. WireInv(view[t], shell[t], wire[t], buffered[t]) /\ missed' = {}
  BY DEF TabsInv, Wired
<1>3. QED
  BY <1>1, <1>2, OneTab

-----------------------------------------------------------------------------
(* Each action *)

\* Kinds stay; an exit listener is that of an open drawer.
Known ==
  /\ kind \in [Tabs -> Kinds]
  /\ listening \subseteq Tabs
  /\ \A t \in listening : view[t] = "open" /\ kind[t] = "drawer"

TerminalsInv == TabsInv /\ Known

LEMMA OfOneTab ==
  ASSUME TabsInv, NEW t \in Tabs
  PROVE  /\ WireInv(view[t], shell[t], wire[t], buffered[t])
         /\ InputInv(view[t], typing[t], sending[t], asked[t], received[t])
         /\ missed = {} /\ Shape /\ received[t] \in Nat /\ received[t] <= received[t]
BY DEF TabsInv, Wired, Typed, InputInv

LEMMA SpawnStays ==
  ASSUME TabsInv, NEW t \in Tabs, NEW k, Spawn(t, k)
  PROVE  TabsInv' /\ ReadsOn
<1>1. view[t] = "none" /\ WireInv(view[t], shell[t], wire[t], buffered[t])
  BY OfOneTab DEF Spawn, NextTab
<1>2. shell[t] = "none"
  BY <1>1 DEF WireInv
<1>3. WireInv("mounting", shell[t], wire[t], buffered[t])
  BY <1>1, <1>2, ViewIsWell DEF Heard
<1>4. Moves(t, "mounting", shell[t], wire[t], buffered[t])
  BY OfOneTab, SameAs DEF Spawn, Moves, output
<1>5. view[t] \notin Heard
  BY <1>1 DEF Heard
<1>6. missed' = {} /\ UNCHANGED <<typing, sending, asked, received>>
  BY OfOneTab DEF Spawn, output, input
<1>7. QED
  BY <1>3, <1>4, <1>5, <1>6, TabMoves

LEMMA MountedStays ==
  ASSUME TabsInv, NEW t \in Tabs, Mounted(t)
  PROVE  TabsInv' /\ ReadsOn
<1>1. view[t] = "mounting" /\ WireInv(view[t], shell[t], wire[t], buffered[t])
  BY OfOneTab DEF Mounted
<1>2. WireInv("opening", "connecting", wire[t], buffered[t])
  BY <1>1 DEF WireInv
<1>3. Moves(t, "opening", "connecting", wire[t], buffered[t])
  BY OfOneTab, SameAs DEF Mounted, Moves, output
<1>4. view[t] \notin Heard
  BY <1>1 DEF Heard
<1>5. missed' = {} /\ UNCHANGED <<typing, sending, asked, received>>
  BY OfOneTab DEF Mounted, output, input
<1>6. QED
  BY <1>2, <1>3, <1>4, <1>5, TabMoves

\* The component goes, and what it had not sent with it.
LEMMA GoneStays ==
  ASSUME TabsInv, NEW t \in Tabs, Destroyed(t), NEW w, wire' = [wire EXCEPT ![t] = w],
         WireInv("gone", shell[t], w, buffered[t]), UNCHANGED <<shell, buffered, missed>>
  PROVE  TabsInv' /\ ReadsOn
<1>1. Moves(t, "gone", shell[t], w, buffered[t])
  BY OfOneTab, SameAs DEF Destroyed, Moves
<1>2. Types(t, <<>>, sending[t], asked[t], received[t])
  BY OfOneTab, SameAs DEF Destroyed, Types
<1>3. InputInv("gone", <<>>, sending[t], asked[t], received[t]) /\ received[t] <= received[t]
  BY OfOneTab, TypedStays
<1>4. missed' = {}
  BY OfOneTab
<1>5. QED
  BY <1>1, <1>2, <1>3, <1>4, OneTab

LEMMA CloseStays ==
  ASSUME TabsInv, NEW t \in Tabs, CloseTab(t)
  PROVE  TabsInv' /\ ReadsOn
<1>1. WireInv("gone", shell[t], wire[t], buffered[t])
  BY OfOneTab, ViewIsWell DEF Heard
<1>2. /\ Destroyed(t) /\ UNCHANGED <<shell, buffered, missed>>
      /\ wire' = [wire EXCEPT ![t] = wire[t]]
  BY OfOneTab, SameAs DEF CloseTab, output
<1>3. QED
  BY <1>1, <1>2, GoneStays

LEMMA TryAgainStays ==
  ASSUME TabsInv, NEW t \in Tabs, NEW u \in Tabs, TryAgain(t, u)
  PROVE  TabsInv' /\ ReadsOn
<1>1. /\ view[t] = "failed" /\ view[u] = "none" /\ t # u
      /\ UNCHANGED <<shell, wire, buffered, missed, typing, sending, asked, received>>
  BY DEF TryAgain, NextTab, output, input
<1>2. view' = [x \in Tabs |-> IF x = t THEN "gone" ELSE IF x = u THEN "mounting" ELSE view[x]]
  BY <1>1 DEF TryAgain, TabsInv, Shape, OnTabs
<1>3. Shape' /\ missed' = {}
  BY <1>1, <1>2 DEF TabsInv, Shape, OnTabs
<1>4. ASSUME NEW x \in Tabs
      PROVE  Wired(x)' /\ Typed(x)' /\ received[x] <= received'[x]
  <2>1. /\ WireInv(view[x], shell[x], wire[x], buffered[x])
        /\ InputInv(view[x], typing[x], sending[x], asked[x], received[x])
    BY OfOneTab
  <2>2. received[x] <= received'[x]
    BY <1>1, <2>1 DEF InputInv
  <2>3. WireInv(view'[x], shell[x], wire[x], buffered[x])
    <3>1. CASE x = t
      BY <1>2, <2>1, <3>1, ViewIsWell DEF Heard
    <3>2. CASE x = u
      <4>1. shell[x] = "none"
        BY <1>1, <2>1, <3>2 DEF WireInv
      <4>2. view'[x] = "mounting" /\ view[x] = "none"
        BY <1>1, <1>2, <3>2
      <4>3. QED
        BY <2>1, <4>1, <4>2, ViewIsWell DEF Heard
    <3>3. CASE x # t /\ x # u
      BY <1>2, <2>1, <3>3
    <3>4. QED
      BY <3>1, <3>2, <3>3
  <2>4. InputInv(view'[x], typing[x], sending[x], asked[x], received[x])
    <3>1. view[x] \in Heard => view'[x] \in Heard
      BY <1>1, <1>2 DEF Heard
    <3>2. QED
      BY <2>1, <3>1, TypedStays
  <2>5. QED
    BY <1>1, <2>2, <2>3, <2>4 DEF Wired, Typed
<1>5. QED
  BY <1>3, <1>4 DEF TabsInv, ReadsOn

\* The main process answers.
LEMMA AnswerStays ==
  ASSUME TabsInv, NEW t \in Tabs, shell[t] \in {"connecting", "session"},
         UNCHANGED <<view, output, input>>,
         \/ shell' = [shell EXCEPT ![t] = "up"] /\ Post(t, <<"ok">>)
         \/ shell' = [shell EXCEPT ![t] = "failed"] /\ Post(t, <<"error">>)
         \/ Refused(t)
         \/ shell' = [shell EXCEPT ![t] = "session"] /\ UNCHANGED wire
  PROVE  TabsInv' /\ ReadsOn
<1>1. WireInv(view[t], shell[t], wire[t], buffered[t])
  BY OfOneTab
<1>2. missed' = {} /\ UNCHANGED <<view, buffered, typing, sending, asked, received>>
  BY OfOneTab DEF output, input
<1>3. PICK s, w : /\ shell' = [shell EXCEPT ![t] = s] /\ wire' = [wire EXCEPT ![t] = w]
                  /\ WireInv(view[t], s, w, buffered[t])
  <2>1. CASE shell' = [shell EXCEPT ![t] = "up"] /\ Post(t, <<"ok">>)
    <3>1. wire' = [wire EXCEPT ![t] = wire[t] \o <<"ok">>]
      BY <2>1 DEF Post
    <3>2. QED
      BY <1>1, <2>1, <3>1, AnswerIsWell
  <2>2. CASE shell' = [shell EXCEPT ![t] = "failed"] /\ Post(t, <<"error">>)
    <3>1. wire' = [wire EXCEPT ![t] = wire[t] \o <<"error">>]
      BY <2>2 DEF Post
    <3>2. QED
      BY <1>1, <2>2, <3>1, AnswerIsWell
  <2>3. CASE Refused(t)
    <3>1. /\ wire' = [wire EXCEPT ![t] = wire[t] \o <<"exited", "error">>]
          /\ shell' = [shell EXCEPT ![t] = "failed"]
      BY <2>3 DEF Post, Refused
    <3>2. QED
      BY <1>1, <3>1, AnswerIsWell
  <2>4. CASE shell' = [shell EXCEPT ![t] = "session"] /\ UNCHANGED wire
    <3>1. wire' = [wire EXCEPT ![t] = wire[t]]
      BY <2>4, OfOneTab, SameAs
    <3>2. QED
      BY <1>1, <2>4, <3>1, AnswerIsWell
  <2>5. QED
    BY <2>1, <2>2, <2>3, <2>4
<1>4. Moves(t, view[t], s, w, buffered[t])
  BY <1>2, <1>3, OfOneTab, SameAs DEF Moves
<1>5. QED
  BY <1>2, <1>3, <1>4, TabMoves

LEMMA SayStays ==
  ASSUME TabsInv, NEW t \in Tabs, Say(t)
  PROVE  TabsInv' /\ ReadsOn
<1>1. WireInv(view[t], "up", wire[t], buffered[t]) /\ shell[t] = "up"
  BY OfOneTab DEF Say
<1>2. WireInv(view[t], shell[t], wire[t], buffered[t] + 1)
  BY <1>1 DEF WireInv
<1>3. Moves(t, view[t], shell[t], wire[t], buffered[t] + 1)
  BY OfOneTab, SameAs DEF Say, Moves
<1>4. missed' = {} /\ UNCHANGED <<typing, sending, asked, received>>
  BY OfOneTab DEF Say, input
<1>5. QED
  BY <1>2, <1>3, <1>4, TabMoves

LEMMA BatchOfOutput ==
  ASSUME TabsInv, NEW t \in Tabs
  PROVE  Batch(t) \in Seq({"output"})
<1>1. buffered[t] \in Nat
  BY OfOneTab DEF WireInv
<1>2. Batch(t) \in [1..buffered[t] -> {"output"}]
  BY DEF Batch
<1>3. QED
  BY <1>1, <1>2, SeqDef

LEMMA FlushStays ==
  ASSUME TabsInv, NEW t \in Tabs, Flush(t)
  PROVE  TabsInv' /\ ReadsOn
<1>1. WireInv(view[t], shell[t], wire[t], buffered[t]) /\ buffered[t] > 0
  BY OfOneTab DEF Flush
<1>2. shell[t] = "up"
  BY <1>1 DEF WireInv
<1>3. WireInv(view[t], shell[t], wire[t] \o Batch(t), 0)
  BY <1>1, <1>2, BatchOfOutput, BatchIsWell
<1>4. Moves(t, view[t], shell[t], wire[t] \o Batch(t), 0)
  BY OfOneTab, SameAs DEF Flush, Post, Moves
<1>5. missed' = {} /\ UNCHANGED <<typing, sending, asked, received>>
  BY OfOneTab DEF Flush, input
<1>6. QED
  BY <1>3, <1>4, <1>5, TabMoves

LEMMA ShellEndsStays ==
  ASSUME TabsInv, NEW t \in Tabs, ShellEnds(t)
  PROVE  TabsInv' /\ ReadsOn
<1>1. WireInv(view[t], "up", wire[t], buffered[t])
  BY OfOneTab DEF ShellEnds
<1>2. WireInv(view[t], "exited", wire[t] \o Append(Batch(t), "exited"), 0)
  BY <1>1, BatchOfOutput, BatchIsWell
<1>3. Moves(t, view[t], "exited", wire[t] \o Append(Batch(t), "exited"), 0)
  BY OfOneTab, SameAs DEF ShellEnds, Post, Moves
<1>4. missed' = {} /\ UNCHANGED <<typing, sending, asked, received>>
  BY OfOneTab DEF ShellEnds, input
<1>5. QED
  BY <1>2, <1>3, <1>4, TabMoves

LEMMA CloseArrivesStays ==
  ASSUME TabsInv, NEW t \in Tabs, TerminalClose(t)
  PROVE  TabsInv' /\ ReadsOn
<1>1. UNCHANGED <<view, wire, missed, typing, sending, asked, received>>
  BY DEF TerminalClose, input
<1>2. CASE shell[t] # "up"
  BY <1>1, <1>2, TabsStay DEF TerminalClose
<1>3. CASE shell[t] = "up"
  <2>1. WireInv(view[t], "up", wire[t], buffered[t])
    BY <1>3, OfOneTab
  <2>2. WireInv(view[t], "killed", wire[t], 0)
    BY <2>1 DEF WireInv
  <2>3. Moves(t, view[t], "killed", wire[t], 0)
    BY <1>1, <1>3, OfOneTab, SameAs DEF TerminalClose, Moves
  <2>4. missed' = {}
    BY <1>1, OfOneTab
  <2>5. QED
    BY <1>1, <2>2, <2>3, <2>4, TabMoves
<1>4. QED
  BY <1>2, <1>3

\* What arrives is the first of what is on its way.
LEMMA Arrived ==
  ASSUME TabsInv, NEW t \in Tabs, NEW m, Arrives(t, m)
  PROVE  /\ wire[t] # <<>> /\ Head(wire[t]) = m /\ wire[t][1] = m
         /\ 1 \in 1..Len(wire[t]) /\ \A j \in 1..Len(wire[t]) : ~(j < 1) /\ (j = 1 \/ j > 1)
         /\ wire' = [wire EXCEPT ![t] = Tail(wire[t])]
         /\ m \in {"error", "exited"} => shell[t] \in {"exited", "failed"}
         /\ m = "error" => shell[t] = "failed"
         /\ m = "ok" => view[t] \notin {"open", "ended"}
         /\ m = "output" => view[t] \in Heard
<1>1. /\ wire[t] # <<>> /\ Head(wire[t]) = m /\ wire' = [wire EXCEPT ![t] = Tail(wire[t])]
      /\ WireInv(view[t], shell[t], wire[t], buffered[t])
  BY OfOneTab DEF Arrives
<1>2. Len(wire[t]) \in Nat \ {0} /\ wire[t][1] = m
  BY <1>1, EmptySeq, HeadTailProperties DEF WireInv
<1>3. 1 \in 1..Len(wire[t]) /\ \A j \in 1..Len(wire[t]) : ~(j < 1) /\ (j = 1 \/ j > 1)
  BY <1>2
<1>4. /\ m \in {"error", "exited"} => shell[t] \in {"exited", "failed"}
      /\ m = "error" => shell[t] = "failed"
      /\ m = "ok" => view[t] \notin {"open", "ended"}
      /\ m = "output" => view[t] \in Heard
  BY <1>1, <1>2, <1>3 DEF WireInv
<1>5. QED
  BY <1>1, <1>2, <1>3, <1>4

LEMMA OutputArrivesStays ==
  ASSUME TabsInv, NEW t \in Tabs, OutputArrives(t)
  PROVE  TabsInv' /\ ReadsOn
<1>1. /\ wire[t] # <<>> /\ Head(wire[t]) = "output" /\ view[t] \in Heard
      /\ wire' = [wire EXCEPT ![t] = Tail(wire[t])]
      /\ WireInv(view[t], shell[t], wire[t], buffered[t])
  BY Arrived, OfOneTab DEF OutputArrives
<1>2. WireInv(view[t], shell[t], Tail(wire[t]), buffered[t])
  BY <1>1, TailIsWell
<1>3. Moves(t, view[t], shell[t], Tail(wire[t]), buffered[t])
  BY <1>1, OfOneTab, SameAs DEF OutputArrives, Moves
<1>4. missed' = {} /\ UNCHANGED <<typing, sending, asked, received>>
  BY <1>1, OfOneTab DEF OutputArrives, input, Heard
<1>5. QED
  BY <1>2, <1>3, <1>4, TabMoves

LEMMA OpenResolvesStays ==
  ASSUME TabsInv, Known, NEW t \in Tabs, TerminalOpened(t)
  PROVE  TabsInv' /\ ReadsOn
<1>1. /\ wire[t] # <<>> /\ Head(wire[t]) = "ok" /\ view[t] \notin {"open", "ended"}
      /\ wire' = [wire EXCEPT ![t] = Tail(wire[t])]
      /\ WireInv(view[t], shell[t], wire[t], buffered[t])
  BY Arrived, OfOneTab DEF TerminalOpened
<1>2. \A v \in Heard : WireInv(v, shell[t], Tail(wire[t]), buffered[t])
  BY <1>1, TailIsWell DEF Heard
<1>3. missed' = {} /\ UNCHANGED <<shell, buffered>>
  BY OfOneTab DEF TerminalOpened, output
<1>4. ASSUME NEW v \in Heard, view' = [view EXCEPT ![t] = v]
      PROVE  Moves(t, v, shell[t], Tail(wire[t]), buffered[t])
  BY <1>1, <1>3, <1>4, OfOneTab, SameAs DEF Moves
<1>5. CASE view[t] = "gone"
  <2>1. view' = [view EXCEPT ![t] = "gone"] /\ UNCHANGED <<typing, sending, asked, received>>
    BY <1>5, OfOneTab, SameAs DEF TerminalOpened, input
  <2>2. "gone" \in Heard
    BY DEF Heard
  <2>3. QED
    BY <1>2, <1>3, <1>4, <2>1, <2>2, TabMoves
<1>6. CASE view[t] # "gone" /\ t \in parked /\ kind[t] # "drawer"
  <2>1. view' = [view EXCEPT ![t] = "gone"] /\ UNCHANGED <<typing, sending, asked, received>>
    BY <1>6 DEF TerminalOpened, input
  <2>2. "gone" \in Heard
    BY DEF Heard
  <2>3. QED
    BY <1>2, <1>3, <1>4, <2>1, <2>2, TabMoves
<1>7. CASE view[t] # "gone" /\ ~(t \in parked /\ kind[t] # "drawer")
  <2> DEFINE v == IF t \in parked THEN "ended" ELSE "open"
  <2>1. view' = [view EXCEPT ![t] = v] /\ v \in Heard
    BY <1>7 DEF TerminalOpened, Heard
  <2>2. PICK n \in Opening(t) :
          /\ asked' = [asked EXCEPT ![t] = n]
          /\ typing' = [typing EXCEPT ![t] = [i \in 1..n |-> [of |-> i, left |-> 1]]]
          /\ UNCHANGED <<sending, received>>
    BY <1>7 DEF TerminalOpened
  <2>3. n \in Nat
    BY DEF Known, Kinds, Opening
  <2> HIDE DEF v
  <2>4. view[t] \notin Heard
    BY <1>1, <1>7 DEF Heard
  <2>5. InputInv(v, [i \in 1..n |-> [of |-> i, left |-> 1]], sending[t], n, received[t])
    BY <2>1, <2>3, <2>4, OfOneTab, OpeningIsWell
  <2>6. Types(t, [i \in 1..n |-> [of |-> i, left |-> 1]], sending[t], n, received[t])
    BY <2>2, OfOneTab, SameAs DEF Types
  <2>7. received[t] <= received[t]
    BY OfOneTab DEF InputInv
  <2>8. Moves(t, v, shell[t], Tail(wire[t]), buffered[t])
    BY <1>4, <2>1
  <2>9. WireInv(v, shell[t], Tail(wire[t]), buffered[t])
    BY <1>2, <2>1
  <2>10. QED
    BY <1>3, <2>5, <2>6, <2>7, <2>8, <2>9, OneTab
<1>8. QED
  BY <1>5, <1>6, <1>7

LEMMA OpenRejectedStays ==
  ASSUME TabsInv, NEW t \in Tabs, TerminalNotOpened(t)
  PROVE  TabsInv' /\ ReadsOn
<1> DEFINE u == IF view[t] = "gone" THEN view[t] ELSE "failed"
<1>1. /\ wire[t] # <<>> /\ Head(wire[t]) = "error" /\ shell[t] = "failed"
      /\ wire' = [wire EXCEPT ![t] = Tail(wire[t])]
      /\ WireInv(view[t], shell[t], wire[t], buffered[t])
  BY Arrived, OfOneTab DEF TerminalNotOpened
<1>2. view[t] \notin {"open", "ended"}
  BY <1>1 DEF WireInv
<1>3. u \notin {"none", "mounting", "open", "ended"} /\ (view[t] \in Heard => u \in Heard)
  BY <1>2 DEF Heard
<1>4. Moves(t, u, shell[t], Tail(wire[t]), buffered[t])
  BY <1>1, OfOneTab, SameAs DEF TerminalNotOpened, Moves, output
<1>5. missed' = {} /\ UNCHANGED <<typing, sending, asked, received>>
  BY OfOneTab DEF TerminalNotOpened, output, input
<1> HIDE DEF u
<1>6. WireInv(u, shell[t], Tail(wire[t]), buffered[t])
  BY <1>1, <1>3, TailIsWell
<1>7. QED
  BY <1>3, <1>4, <1>5, <1>6, TabMoves

LEMMA ExitArrivesStays ==
  ASSUME TabsInv, Known, NEW t \in Tabs, ExitArrives(t)
  PROVE  TabsInv' /\ ReadsOn
<1>1. /\ wire[t] # <<>> /\ Head(wire[t]) = "exited" /\ Head(wire[t]) # "ok"
      /\ wire' = [wire EXCEPT ![t] = Tail(wire[t])]
      /\ WireInv(view[t], shell[t], wire[t], buffered[t])
  BY Arrived, OfOneTab DEF ExitArrives
<1>2. missed' = {} /\ UNCHANGED <<shell, buffered, missed>>
  BY OfOneTab DEF ExitArrives, output
<1>3. CASE view[t] = "open" /\ kind[t] # "drawer"
  <2>1. Destroyed(t)
    BY <1>3 DEF ExitArrives, Known
  <2>2. WireInv("gone", shell[t], Tail(wire[t]), buffered[t])
    BY <1>1, TailIsWell DEF Heard
  <2>3. QED
    BY <1>1, <1>2, <2>1, <2>2, GoneStays
<1>4. CASE t \in listening
  <2>1. view[t] = "open" /\ kind[t] = "drawer"
    BY <1>4 DEF Known
  <2>2. view' = [view EXCEPT ![t] = "ended"] /\ UNCHANGED <<typing, sending, asked, received>>
    BY <1>4, <2>1 DEF ExitArrives, input
  <2>3. WireInv("ended", shell[t], Tail(wire[t]), buffered[t])
    BY <1>1, <2>1, TailIsWell DEF Heard
  <2>4. Moves(t, "ended", shell[t], Tail(wire[t]), buffered[t])
    BY <1>1, <1>2, <2>2, OfOneTab, SameAs DEF Moves
  <2>5. "ended" \in Heard
    BY DEF Heard
  <2>6. QED
    BY <1>2, <2>2, <2>3, <2>4, <2>5, TabMoves
<1>5. CASE ~(view[t] = "open" /\ kind[t] # "drawer") /\ t \notin listening
  <2>1. UNCHANGED <<view, typing, sending, asked, received>>
    BY <1>5 DEF ExitArrives, input
  <2>2. WireInv(view[t], shell[t], Tail(wire[t]), buffered[t])
    BY <1>1, TailIsWell
  <2>3. Moves(t, view[t], shell[t], Tail(wire[t]), buffered[t])
    BY <1>1, <1>2, <2>1, OfOneTab, SameAs DEF Moves
  <2>4. QED
    BY <1>2, <2>1, <2>2, <2>3, TabMoves
<1>6. QED
  BY <1>3, <1>4, <1>5

LEMMA SendInputStays ==
  ASSUME TabsInv, NEW t \in Tabs, SendInput(t), view[t] \in {"open", "ended"},
         UNCHANGED <<view, shell, wire, output>>
  PROVE  TabsInv' /\ ReadsOn
<1>1. PICK c \in 1..2 :
        typing' = [typing EXCEPT ![t] = Append(typing[t], [of |-> asked[t] + 1, left |-> c])]
  BY DEF SendInput, Inputs
<1> DEFINE waits == Append(typing[t], [of |-> asked[t] + 1, left |-> c])
<1>2. InputInv(view[t], waits, sending[t], asked[t] + 1, received[t])
  BY OfOneTab, AskedIsWell DEF Heard
<1>3. Types(t, waits, sending[t], asked[t] + 1, received[t])
  BY <1>1, OfOneTab, SameAs DEF SendInput, Types
<1>4. received[t] <= received[t]
  BY OfOneTab DEF InputInv
<1>5. UNCHANGED <<buffered, missed>>
  BY DEF output
<1> HIDE DEF waits
<1>6. QED
  BY <1>2, <1>3, <1>4, <1>5, TabTypes

LEMMA SendChunkStays ==
  ASSUME TabsInv, NEW t \in Tabs, SendChunk(t)
  PROVE  TabsInv' /\ ReadsOn
<1> DEFINE waits == IF Head(typing[t]).left = 1 THEN Tail(typing[t])
                    ELSE [typing[t] EXCEPT ![1].left = 1]
<1>1. /\ typing[t] # <<>> /\ sending[t] = 0
      /\ InputInv(view[t], typing[t], 0, asked[t], received[t])
  BY OfOneTab DEF SendChunk
<1>2. InputInv(view[t], waits, Head(typing[t]).of, asked[t], received[t])
  BY <1>1, SentIsWell
<1>3. Types(t, waits, Head(typing[t]).of, asked[t], received[t])
  BY OfOneTab, SameAs DEF SendChunk, Types
<1>4. received[t] <= received[t]
  BY <1>1 DEF InputInv
<1>5. UNCHANGED <<view, shell, wire, buffered, missed>>
  BY DEF SendChunk, output
<1> HIDE DEF waits
<1>6. QED
  BY <1>2, <1>3, <1>4, <1>5, TabTypes

LEMMA WriteArrivesStays ==
  ASSUME TabsInv, NEW t \in Tabs, WriteArrives(t)
  PROVE  TabsInv' /\ ReadsOn
<1>1. /\ sending[t] # 0
      /\ InputInv(view[t], typing[t], sending[t], asked[t], received[t])
  BY OfOneTab DEF WriteArrives
<1>2. /\ InputInv(view[t], typing[t], 0, asked[t], received[t])
      /\ InputInv(view[t], typing[t], 0, asked[t], sending[t])
      /\ received[t] <= sending[t] /\ received[t] <= received[t]
  BY <1>1, OfOneTab, WrittenIsWell
<1>3. UNCHANGED <<view, shell, wire, buffered, missed>>
  BY DEF WriteArrives, output
<1>4. CASE shell[t] = "up"
  <2>1. Types(t, typing[t], 0, asked[t], sending[t])
    BY <1>4, OfOneTab, SameAs DEF WriteArrives, Types
  <2>2. QED
    BY <1>2, <1>3, <2>1, TabTypes
<1>5. CASE shell[t] # "up"
  <2>1. Types(t, typing[t], 0, asked[t], received[t])
    BY <1>5, OfOneTab, SameAs DEF WriteArrives, Types
  <2>2. QED
    BY <1>2, <1>3, <2>1, TabTypes
<1>6. QED
  BY <1>4, <1>5

-----------------------------------------------------------------------------
(* The theorems *)

LEMMA KnownMoves ==
  ASSUME Known, TabsInv, NEW t \in Tabs, NEW v, view' = [view EXCEPT ![t] = v],
         UNCHANGED kind, listening' \subseteq listening \cup {t},
         t \in listening' => v = "open" /\ kind[t] = "drawer"
  PROVE  Known'
BY DEF Known, TabsInv, Shape, OnTabs

LEMMA NextKnown ==
  ASSUME TerminalsInv, NEW t \in Tabs,
         User(t) \/ Main(t) \/ Renderer(t) \/ Say(t) \/ ShellEnds(t)
  PROVE  Known'
<1>1. Known /\ TabsInv /\ view = [view EXCEPT ![t] = view[t]]
  BY SameAs DEF TerminalsInv, TabsInv
<1>2. ASSUME UNCHANGED <<kind, view, listening>> PROVE Known'
  BY <1>1, <1>2 DEF Known
<1>3. CASE \E k \in Kinds : Spawn(t, k)
  <2>1. PICK k \in Kinds : Spawn(t, k)
    BY <1>3
  <2>2. /\ kind' = [kind EXCEPT ![t] = k] /\ view' = [view EXCEPT ![t] = "mounting"]
        /\ t \notin listening /\ UNCHANGED listening
    BY <1>1, <2>1 DEF Spawn, NextTab, routing, Known
  <2>3. QED
    BY <1>1, <2>2 DEF Known, TabsInv, Shape, OnTabs
<1>4. CASE CloseTab(t)
  <2>1. /\ view' = [view EXCEPT ![t] = "gone"] /\ listening' = listening \ {t}
        /\ UNCHANGED kind
    BY <1>4 DEF CloseTab, Destroyed
  <2>2. QED
    BY <1>1, <2>1, KnownMoves
<1>5. CASE \E u \in Tabs : TryAgain(t, u)
  <2>1. PICK u \in Tabs : TryAgain(t, u)
    BY <1>5
  <2>2. /\ kind' = [kind EXCEPT ![u] = "ssh"]
        /\ view' = [view EXCEPT ![t] = "gone", ![u] = "mounting"]
        /\ t \notin listening /\ u \notin listening /\ UNCHANGED listening
    BY <1>1, <2>1 DEF TryAgain, NextTab, routing, Known
  <2>3. kind' \in [Tabs -> Kinds]
    BY <1>1, <2>2 DEF Known, Kinds
  <2>4. \A x \in listening : kind'[x] = kind[x] /\ view'[x] = view[x]
    BY <1>1, <2>2 DEF Known, TabsInv, Shape, OnTabs
  <2>5. QED
    BY <1>1, <2>2, <2>3, <2>4 DEF Known
<1>6. CASE Mounted(t)
  <2>1. /\ view' = [view EXCEPT ![t] = "opening"] /\ t \notin listening
        /\ UNCHANGED <<kind, listening>>
    BY <1>1, <1>6 DEF Mounted, routing, Known
  <2>2. QED
    BY <1>1, <2>1, KnownMoves
<1>7. CASE TerminalOpened(t)
  <2>1. view[t] \notin {"open", "ended"} /\ UNCHANGED kind
    BY <1>1, <1>7, Arrived DEF TerminalOpened
  <2>2. t \notin listening
    BY <1>1, <2>1 DEF Known
  <2>3. CASE view[t] = "gone"
    <3>1. UNCHANGED <<view, listening>>
      BY <1>7, <2>3 DEF TerminalOpened, routing
    <3>2. QED
      BY <1>2, <2>1, <3>1
  <2>4. CASE view[t] # "gone" /\ t \in parked /\ kind[t] # "drawer"
    <3>1. view' = [view EXCEPT ![t] = "gone"] /\ UNCHANGED listening
      BY <1>7, <2>4 DEF TerminalOpened
    <3>2. QED
      BY <1>1, <2>1, <2>2, <3>1, KnownMoves
  <2>5. CASE view[t] # "gone" /\ ~(t \in parked /\ kind[t] # "drawer")
    <3>1. /\ view' = [view EXCEPT ![t] = IF t \in parked THEN "ended" ELSE "open"]
          /\ listening' = IF kind[t] = "drawer" /\ t \notin parked
                          THEN listening \cup {t} ELSE listening
      BY <1>7, <2>5 DEF TerminalOpened
    <3>2. CASE kind[t] = "drawer" /\ t \notin parked
      <4>1. view' = [view EXCEPT ![t] = "open"] /\ listening' = listening \cup {t}
        BY <3>1, <3>2
      <4>2. QED
        BY <1>1, <2>1, <3>2, <4>1, KnownMoves
    <3>3. CASE ~(kind[t] = "drawer" /\ t \notin parked)
      <4>1. UNCHANGED listening
        BY <3>1, <3>3
      <4>2. QED
        BY <1>1, <2>1, <2>2, <3>1, <4>1, KnownMoves
    <3>4. QED
      BY <3>2, <3>3
  <2>6. QED
    BY <2>3, <2>4, <2>5
<1>8. CASE TerminalNotOpened(t)
  <2>1. shell[t] = "failed" /\ WireInv(view[t], shell[t], wire[t], buffered[t])
    BY <1>1, <1>8, Arrived, OfOneTab DEF TerminalNotOpened
  <2>2. t \notin listening
    BY <1>1, <2>1 DEF WireInv, Known
  <2>3. /\ view' = [view EXCEPT ![t] = IF view[t] = "gone" THEN view[t] ELSE "failed"]
        /\ UNCHANGED <<kind, listening>>
    BY <1>8 DEF TerminalNotOpened, routing
  <2>4. QED
    BY <1>1, <2>2, <2>3, KnownMoves
<1>9. CASE ExitArrives(t)
  <2>1. UNCHANGED kind
    BY <1>9 DEF ExitArrives
  <2>2. CASE view[t] = "open" /\ kind[t] # "drawer"
    <3>1. Destroyed(t)
      BY <1>1, <1>9, <2>2 DEF ExitArrives, Known
    <3>2. view' = [view EXCEPT ![t] = "gone"] /\ listening' = listening \ {t}
      BY <3>1 DEF Destroyed
    <3>3. QED
      BY <1>1, <2>1, <3>2, KnownMoves
  <2>3. CASE t \in listening
    <3>1. view[t] = "open" /\ kind[t] = "drawer"
      BY <1>1, <2>3 DEF Known
    <3>2. view' = [view EXCEPT ![t] = "ended"] /\ listening' = listening \ {t}
      BY <1>9, <2>3, <3>1 DEF ExitArrives
    <3>3. QED
      BY <1>1, <2>1, <3>2, KnownMoves
  <2>4. CASE ~(view[t] = "open" /\ kind[t] # "drawer") /\ t \notin listening
    <3>1. UNCHANGED <<view, listening>>
      BY <1>9, <2>4 DEF ExitArrives
    <3>2. QED
      BY <1>2, <2>1, <3>1
  <2>5. QED
    BY <2>2, <2>3, <2>4
<1>10. ASSUME \/ Type(t) \/ RunCommand(t) \/ Main(t) \/ OutputArrives(t) \/ SendChunk(t)
              \/ Say(t) \/ ShellEnds(t)
       PROVE  Known'
  <2>1. UNCHANGED <<kind, view, listening>>
    BY <1>10 DEF Type, RunCommand, Main, OutputArrives, SendChunk, Say, ShellEnds, UnknownHost,
       SessionAnswers, ShellAnswers, LocalAnswers, Flush, TerminalClose, WriteArrives, routing
  <2>2. QED
    BY <1>2, <2>1
<1>11. QED
  BY <1>3, <1>4, <1>5, <1>6, <1>7, <1>8, <1>9, <1>10 DEF User, Renderer

LEMMA NextTabs ==
  ASSUME TerminalsInv, NEW t \in Tabs,
         User(t) \/ Main(t) \/ Renderer(t) \/ Say(t) \/ ShellEnds(t)
  PROVE  TabsInv' /\ ReadsOn
<1>1. Known /\ TabsInv
  BY DEF TerminalsInv
<1>2. CASE User(t)
  <2>1. CASE Type(t)
    BY <1>1, <2>1, SendInputStays DEF Type
  <2>2. CASE RunCommand(t)
    <3>1. CASE view[t] \in {"open", "ended"}
      BY <1>1, <2>2, <3>1, SendInputStays DEF RunCommand
    <3>2. CASE view[t] \notin {"open", "ended"}
      BY <1>1, <2>2, <3>2, TabsStay DEF RunCommand, output
    <3>3. QED
      BY <3>1, <3>2
  <2>3. QED
    BY <1>1, <1>2, <2>1, <2>2, SpawnStays, CloseStays, TryAgainStays DEF User
<1>3. CASE Main(t)
  <2>1. CASE \/ UnknownHost(t) \/ SessionAnswers(t) \/ ShellAnswers(t) \/ LocalAnswers(t)
    <3>1. /\ shell[t] \in {"connecting", "session"} /\ UNCHANGED <<view, output, input>>
          /\ \/ shell' = [shell EXCEPT ![t] = "up"] /\ Post(t, <<"ok">>)
             \/ shell' = [shell EXCEPT ![t] = "failed"] /\ Post(t, <<"error">>)
             \/ Refused(t)
             \/ shell' = [shell EXCEPT ![t] = "session"] /\ UNCHANGED wire
      BY <2>1 DEF UnknownHost, SessionAnswers, ShellAnswers, LocalAnswers
    <3>2. QED
      BY <1>1, <3>1, AnswerStays
  <2>2. QED
    BY <1>1, <1>3, <2>1, FlushStays, CloseArrivesStays, WriteArrivesStays DEF Main
<1>4. CASE Renderer(t)
  BY <1>1, <1>4, MountedStays, OpenResolvesStays, OpenRejectedStays, OutputArrivesStays,
     ExitArrivesStays, SendChunkStays DEF Renderer
<1>5. QED
  BY <1>1, <1>2, <1>3, <1>4, SayStays, ShellEndsStays

LEMMA NextTerminals ==
  ASSUME TerminalsInv, [TerminalsNext]_terminalVars
  PROVE  TerminalsInv' /\ ReadsOn
<1>1. CASE UNCHANGED terminalVars
  <2>1. TabsInv' /\ ReadsOn
    BY <1>1, TabsStay DEF TerminalsInv, terminalVars, output, input
  <2>2. Known'
    BY <1>1 DEF TerminalsInv, Known, terminalVars, routing
  <2>3. QED
    BY <2>1, <2>2 DEF TerminalsInv
<1>2. CASE TerminalsNext
  <2>1. PICK t \in Tabs : User(t) \/ Main(t) \/ Renderer(t) \/ Say(t) \/ ShellEnds(t)
    BY <1>2 DEF TerminalsNext
  <2>2. QED
    BY <2>1, NextKnown, NextTabs DEF TerminalsInv
<1>3. QED
  BY <1>1, <1>2

(* Every tab and its shell, at any moment: the answer to terminal_open is   *)
(* the first thing on its way, output comes after it and the exit notice    *)
(* after the output, and inputs wait in the order they were typed.          *)
THEOREM TerminalsInvariance == TerminalsSpec => []TerminalsInv
<1>1. TerminalsInit => TerminalsInv
  BY TabsInit DEF TerminalsInv, Known, TerminalsInit, Kinds
<1>2. TerminalsInv /\ [TerminalsNext]_terminalVars => TerminalsInv'
  BY NextTerminals
<1>3. QED
  BY <1>1, <1>2, PTL DEF TerminalsSpec

(* What a shell reads was typed no earlier than what it read before         *)
(* (sendInput in TerminalView), for any number of tabs, inputs and chunks.  *)
THEOREM ShellsReadInOrder == TerminalsSpec => InputInOrder
<1>1. TerminalsInv /\ [TerminalsNext]_terminalVars => [ReadsOn]_received
  BY NextTerminals
<1>2. TerminalsSpec => [][ReadsOn]_received
  BY <1>1, TerminalsInvariance, PTL DEF TerminalsSpec
<1>3. QED
  BY <1>2 DEF InputInOrder, ReadsOn

(* When the exit notice closes a tab, no output is still to come and none   *)
(* came before the tab listened (pty.ts: flush before the notice).          *)
THEOREM LastWordsCome == TerminalsSpec => LastWordsArrive
<1>1. ASSUME TerminalsInv, NEW t \in Tabs, ExitArrives(t), view[t] = "open"
      PROVE  OnTheirWay(t) = 0 /\ t \notin missed
  <2>1. /\ TabsInv /\ missed = {} /\ WireInv(view[t], shell[t], wire[t], buffered[t])
    BY <1>1, OfOneTab DEF TerminalsInv
  <2>2. /\ wire[t][1] = "exited" /\ 1 \in 1..Len(wire[t]) /\ shell[t] \in {"exited", "failed"}
        /\ \A j \in 1..Len(wire[t]) : j = 1 \/ j > 1
    BY <1>1, <2>1, Arrived DEF ExitArrives
  <2>3. buffered[t] = 0
    BY <2>1, <2>2 DEF WireInv
  <2>4. \A j \in 1..Len(wire[t]) : wire[t][j] # "output"
    BY <2>1, <2>2 DEF WireInv
  <2>5. DOMAIN wire[t] = 1..Len(wire[t])
    BY <2>1 DEF WireInv
  <2>6. {i \in DOMAIN wire[t] : wire[t][i] = "output"} = {}
    BY <2>4, <2>5
  <2>7. OnTheirWay(t) = 0
    BY <2>3, <2>6, FS_EmptySet DEF OnTheirWay
  <2>8. QED
    BY <2>1, <2>7
<1>2. TerminalsInv /\ [TerminalsNext]_terminalVars =>
        [\A t \in Tabs : ExitArrives(t) /\ view[t] = "open" =>
            OnTheirWay(t) = 0 /\ t \notin missed]_terminalVars
  BY <1>1
<1>3. QED
  BY <1>2, TerminalsInvariance, PTL DEF TerminalsSpec, LastWordsArrive
=============================================================================
