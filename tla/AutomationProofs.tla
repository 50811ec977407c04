------------------------- MODULE AutomationProofs --------------------------
(* What is proved of an automation's run (AutomationRun), of the work of one *)
(* of its steps (StepWork) and of the GitHub steps' downloads (GitHubSteps), *)
(* for every automation whose nodes have an order.  The invariant of a run   *)
(* counts: waitingOn is the number of edges from nodes not reaped yet, and a *)
(* node that may start is one whose predecessors all are.                    *)
EXTENDS MCAutomationRun, SequenceTheorems, FiniteSetTheorems, WellFoundedInduction, TLAPS

-----------------------------------------------------------------------------
(* Induction, and sequences without repetition *)

\* A set of numbers that is not empty has a least: what induction on numbers comes
\* down to here, the least number for which a claim fails being none.
LEMMA LeastOf ==
  ASSUME NEW T, T \subseteq Nat, T # {}
  PROVE  \E x \in T : \A y \in T : x <= y
<1> DEFINE R == {ss \in Nat \X Nat : ss[1] < ss[2]}
<1>1. IsWellFoundedOn(OpToRel(<, Nat), Nat)
  BY NatLessThanWellFounded
<1>2. OpToRel(<, Nat) = R
  BY DEF OpToRel
<1> HIDE DEF R
<1>3. PICK x \in T : \A y \in T : ~(<<y, x>> \in R)
  BY <1>1, <1>2, WFMin
<1>4. ASSUME NEW y \in T PROVE x <= y
  <2>1. <<y, x>> \notin R
    BY <1>3
  <2>2. QED
    BY <2>1 DEF R
<1>5. QED
  BY <1>4

LEMMA SetOfSeq ==
  ASSUME NEW E, NEW s \in Seq(E)
  PROVE  /\ Len(s) \in Nat /\ DOMAIN s = 1 .. Len(s)
         /\ ToSet(s) = {s[i] : i \in 1 .. Len(s)}
         /\ ToSet(s) \subseteq E
BY LenProperties, ElementOfSeq DEF ToSet

LEMMA SetOfAppend ==
  ASSUME NEW E, NEW s \in Seq(E), NEW x \in E
  PROVE  /\ Append(s, x) \in Seq(E)
         /\ ToSet(Append(s, x)) = ToSet(s) \cup {x}
         /\ IsInjective(s) /\ x \notin ToSet(s) => IsInjective(Append(s, x))
<1> DEFINE t == Append(s, x)
<1>1. /\ t \in Seq(E) /\ Len(s) \in Nat /\ Len(t) = Len(s) + 1 /\ t[Len(s) + 1] = x
      /\ \A i \in 1 .. Len(s) : t[i] = s[i]
  BY AppendProperties, LenProperties
<1>2. DOMAIN t = 1 .. Len(s) + 1 /\ DOMAIN s = 1 .. Len(s)
  BY <1>1, LenProperties
<1> HIDE DEF t
<1>3. ToSet(t) = ToSet(s) \cup {x}
  <2>1. ASSUME NEW y \in ToSet(t) PROVE y \in ToSet(s) \cup {x}
    BY <1>1, <1>2 DEF ToSet
  <2>2. ASSUME NEW y \in ToSet(s) PROVE y \in ToSet(t)
    BY <1>1, <1>2 DEF ToSet
  <2>3. x \in ToSet(t)
    BY <1>1, <1>2 DEF ToSet
  <2>4. QED
    BY <2>1, <2>2, <2>3
<1>4. ASSUME IsInjective(s), x \notin ToSet(s) PROVE IsInjective(t)
  BY <1>1, <1>2, <1>4 DEF IsInjective, ToSet
<1>5. QED
  BY <1>1, <1>3, <1>4 DEF t

LEMMA SetOfConcat ==
  ASSUME NEW E, NEW s \in Seq(E), NEW t \in Seq(E)
  PROVE  /\ s \o t \in Seq(E)
         /\ ToSet(s \o t) = ToSet(s) \cup ToSet(t)
         /\ IsInjective(s) /\ IsInjective(t) /\ ToSet(s) \cap ToSet(t) = {}
            => IsInjective(s \o t)
<1> DEFINE r == s \o t
<1>1. /\ r \in Seq(E) /\ Len(r) = Len(s) + Len(t) /\ Len(s) \in Nat /\ Len(t) \in Nat
      /\ \A i \in 1 .. Len(s) + Len(t) :
           r[i] = IF i <= Len(s) THEN s[i] ELSE t[i - Len(s)]
  BY ConcatProperties, LenProperties
<1>2. /\ DOMAIN r = 1 .. Len(s) + Len(t)
      /\ DOMAIN s = 1 .. Len(s) /\ DOMAIN t = 1 .. Len(t)
  BY <1>1, LenProperties
<1> HIDE DEF r
<1>3. ASSUME NEW i \in 1 .. Len(s) PROVE i \in DOMAIN r /\ r[i] = s[i]
  BY <1>1, <1>2
<1>4. ASSUME NEW i \in 1 .. Len(t)
      PROVE  i + Len(s) \in DOMAIN r /\ r[i + Len(s)] = t[i]
  BY <1>1, <1>2
<1>5. ASSUME NEW i \in DOMAIN r, i > Len(s)
      PROVE  i - Len(s) \in 1 .. Len(t) /\ r[i] = t[i - Len(s)]
  BY <1>1, <1>2, <1>5
<1>6. ASSUME NEW i \in DOMAIN r, ~(i > Len(s)) PROVE i \in 1 .. Len(s) /\ r[i] = s[i]
  BY <1>1, <1>2, <1>6
<1>7. ToSet(r) = ToSet(s) \cup ToSet(t)
  <2>1. ASSUME NEW y \in ToSet(r) PROVE y \in ToSet(s) \cup ToSet(t)
    <3>1. PICK i \in DOMAIN r : y = r[i]
      BY DEF ToSet
    <3>2. QED
      BY <3>1, <1>2, <1>5, <1>6 DEF ToSet
  <2>2. ASSUME NEW y \in ToSet(s) PROVE y \in ToSet(r)
    BY <1>2, <1>3 DEF ToSet
  <2>3. ASSUME NEW y \in ToSet(t) PROVE y \in ToSet(r)
    BY <1>2, <1>4 DEF ToSet
  <2>4. QED
    BY <2>1, <2>2, <2>3
<1>8. ASSUME IsInjective(s), IsInjective(t), ToSet(s) \cap ToSet(t) = {}
      PROVE  IsInjective(r)
  <2>1. \A i \in 1 .. Len(s), j \in 1 .. Len(t) : s[i] # t[j]
    BY <1>2, <1>8 DEF ToSet
  <2>2. SUFFICES ASSUME NEW i \in DOMAIN r, NEW j \in DOMAIN r, r[i] = r[j] PROVE i = j
    BY DEF IsInjective
  <2>3. CASE i > Len(s) /\ j > Len(s)
    <3>1. i - Len(s) = j - Len(s)
      BY <2>2, <2>3, <1>2, <1>5, <1>8 DEF IsInjective
    <3>2. QED
      BY <3>1, <1>1, <1>2
  <2>4. CASE i > Len(s) /\ ~(j > Len(s))
    BY <2>1, <2>2, <2>4, <1>5, <1>6
  <2>5. CASE ~(i > Len(s)) /\ j > Len(s)
    BY <2>1, <2>2, <2>5, <1>5, <1>6
  <2>6. CASE ~(i > Len(s)) /\ ~(j > Len(s))
    BY <2>2, <2>6, <1>2, <1>6, <1>8 DEF IsInjective
  <2>7. QED
    BY <2>3, <2>4, <2>5, <2>6
<1>9. QED
  BY <1>1, <1>7, <1>8 DEF r

\* What is left of a sequence without repetition when its first k are taken.
LEMMA SetOfRest ==
  ASSUME NEW E, NEW s \in Seq(E), IsInjective(s), NEW k \in 0 .. Len(s)
  PROVE  LET suffix == SubSeq(s, k + 1, Len(s))
             first == {s[i] : i \in 1 .. k}
         IN /\ suffix \in Seq(E) /\ IsInjective(suffix)
            /\ ToSet(suffix) = ToSet(s) \ first
            /\ first \subseteq ToSet(s)
            /\ IsFiniteSet(first) /\ Cardinality(first) <= k
<1> DEFINE suffix == SubSeq(s, k + 1, Len(s))
           first == {s[i] : i \in 1 .. k}
<1>1. Len(s) \in Nat /\ DOMAIN s = 1 .. Len(s) /\ \A i \in 1 .. Len(s) : s[i] \in E
  BY LenProperties, ElementOfSeq
<1>2. /\ suffix \in Seq(E) /\ Len(suffix) = Len(s) - k
      /\ \A i \in 1 .. Len(s) - k : suffix[i] = s[k + i]
  <2>1. k + 1 \in Int /\ Len(s) \in Int /\ \A i \in k + 1 .. Len(s) : s[i] \in E
    BY <1>1
  <2>2. /\ suffix \in Seq(E) /\ Len(suffix) = IF k + 1 <= Len(s) THEN Len(s) - (k + 1) + 1 ELSE 0
        /\ \A i \in 1 .. Len(s) - (k + 1) + 1 : suffix[i] = s[(k + 1) + i - 1]
    BY <2>1, SubSeqProperties
  <2> HIDE DEF suffix
  <2>3. Len(suffix) = Len(s) - k
    <3>1. k \in Int /\ Len(s) \in Int /\ k <= Len(s)
      BY <1>1
    <3>2. CASE k + 1 <= Len(s)
      BY <2>2, <3>1, <3>2
    <3>3. CASE ~(k + 1 <= Len(s))
      BY <2>2, <3>1, <3>3
    <3>4. QED
      BY <3>2, <3>3
  <2>4. \A i \in 1 .. Len(s) - k : suffix[i] = s[k + i]
    <3> TAKE i \in 1 .. Len(s) - k
    <3>1. (k + 1) + i - 1 = k + i /\ i \in 1 .. Len(s) - (k + 1) + 1
      BY <1>1
    <3>2. QED
      BY <2>2, <3>1
  <2>5. QED
    BY <2>2, <2>3, <2>4
<1>3. DOMAIN suffix = 1 .. Len(s) - k
  BY <1>2, LenProperties
<1> HIDE DEF suffix
<1>4. IsInjective(suffix)
  <2>1. SUFFICES ASSUME NEW i \in 1 .. Len(s) - k, NEW j \in 1 .. Len(s) - k,
                        suffix[i] = suffix[j]
                 PROVE  i = j
    BY <1>3 DEF IsInjective
  <2>2. k + i \in 1 .. Len(s) /\ k + j \in 1 .. Len(s) /\ s[k + i] = s[k + j]
    BY <2>1, <1>1, <1>2
  <2>3. k + i = k + j
    BY <2>2, <1>1 DEF IsInjective
  <2>4. QED
    BY <2>3
<1>5. ToSet(suffix) = ToSet(s) \ first
  <2>1. ASSUME NEW y \in ToSet(suffix) PROVE y \in ToSet(s) /\ y \notin first
    <3>1. PICK i \in 1 .. Len(s) - k : y = s[k + i]
      BY <1>2, <1>3 DEF ToSet
    <3>2. k + i \in 1 .. Len(s) /\ \A j \in 1 .. k : j \in 1 .. Len(s) /\ j # k + i
      BY <1>1
    <3>3. QED
      BY <3>1, <3>2, <1>1 DEF ToSet, IsInjective
  <2>2. ASSUME NEW y \in ToSet(s), y \notin first PROVE y \in ToSet(suffix)
    <3>1. PICK i \in 1 .. Len(s) : y = s[i]
      BY <1>1 DEF ToSet
    <3>2. i \notin 1 .. k
      BY <3>1, <2>2
    <3>3. i - k \in 1 .. Len(s) - k /\ k + (i - k) = i
      BY <3>2, <1>1
    <3>4. suffix[i - k] = y
      BY <3>1, <3>3, <1>2
    <3>5. QED
      BY <3>3, <3>4, <1>3 DEF ToSet
  <2>3. QED
    BY <2>1, <2>2
<1>6. first \subseteq ToSet(s)
  BY <1>1 DEF ToSet
<1>7. IsFiniteSet(first) /\ Cardinality(first) <= k
  <2> DEFINE f == [i \in 1 .. k |-> s[i]]
  <2>1. f \in Surjection(1 .. k, first)
    BY DEF Surjection
  <2>2. IsFiniteSet(1 .. k) /\ Cardinality(1 .. k) = k
    BY FS_Interval
  <2> HIDE DEF f, first
  <2>3. QED
    BY <2>1, <2>2, FS_Surjection
<1>8. QED
  BY <1>2, <1>4, <1>5, <1>6, <1>7 DEF suffix
-----------------------------------------------------------------------------
(* What Kept keeps *)

\* g's values are those Kept computes on its way through s.
Follows(g, n, s, S) ==
  \A i \in 1 .. n : g[i] = IF s[i] \in S THEN Append(g[i - 1], s[i]) ELSE g[i - 1]

LEMMA KeptUnfolds ==
  ASSUME NEW E, NEW s \in Seq(E), NEW S
  PROVE  \E g \in [0 .. Len(s) -> Seq(E)] :
            /\ g[0] = <<>>
            /\ Follows(g, Len(s), s, S)
            /\ Kept(s, S) = g[Len(s)]
<1> DEFINE Good(k) == \E g \in [0 .. k -> Seq(E)] : g[0] = <<>> /\ Follows(g, k, s, S)
<1> DEFINE T == {k \in 0 .. Len(s) : ~Good(k)}
<1>0. Len(s) \in Nat /\ \A i \in 1 .. Len(s) : s[i] \in E
  BY LenProperties, ElementOfSeq
<1>1. T = {}
  <2>1. SUFFICES ASSUME T # {} PROVE FALSE
    OBVIOUS
  <2>2. PICK k \in T : \A j \in T : k <= j
    <3> T \subseteq Nat OBVIOUS
    <3> HIDE DEF T
    <3> QED BY <2>1, LeastOf
  <2>2a. k \in 0 .. Len(s) /\ ~Good(k) OBVIOUS
  <2>3. k # 0
    <3> DEFINE z == [i \in 0 .. 0 |-> <<>>]
    <3>1. z \in [0 .. 0 -> Seq(E)] BY EmptySeq
    <3>2. z[0] = <<>> OBVIOUS
    <3>3. Follows(z, 0, s, S) BY DEF Follows
    <3>4. Good(0) BY <3>1, <3>2, <3>3
    <3> QED BY <3>4, <2>2a
  <2>4. k \in Nat /\ k - 1 \in 0 .. Len(s) /\ k \in 1 .. Len(s) /\ ~(k <= k - 1)
    BY <2>2a, <2>3, <1>0
  <2>4a. k - 1 \notin T
    <3> HIDE DEF T
    <3> QED BY <2>2, <2>4
  <2>5. PICK h \in [0 .. (k - 1) -> Seq(E)] : h[0] = <<>> /\ Follows(h, k - 1, s, S)
    BY <2>4, <2>4a
  <2> DEFINE new == IF s[k] \in S THEN Append(h[k - 1], s[k]) ELSE h[k - 1]
             g == [i \in 0 .. k |-> IF i = k THEN new ELSE h[i]]
  <2>6. new \in Seq(E)
    <3>1. h[k - 1] \in Seq(E) BY <2>4
    <3>2. s[k] \in E BY <2>4, <1>0
    <3> QED BY <3>1, <3>2, AppendProperties
  <2> HIDE DEF new
  <2>7. g \in [0 .. k -> Seq(E)] BY <2>4, <2>6
  <2>8. g[0] = <<>> BY <2>4, <2>5
  <2>9. Follows(g, k, s, S)
    <3> SUFFICES ASSUME NEW i \in 1 .. k
                 PROVE  g[i] = IF s[i] \in S THEN Append(g[i-1], s[i]) ELSE g[i-1]
      BY DEF Follows
    <3>1. CASE i = k
      <4>1. g[k] = new /\ g[k - 1] = h[k - 1] BY <2>4
      <4> QED BY <4>1, <3>1 DEF new
    <3>2. CASE i # k
      <4>1. i \in 1 .. (k - 1) /\ i \in 0 .. k /\ i - 1 \in 0 .. k /\ i - 1 # k BY <2>4, <3>2
      <4>2. g[i] = h[i] /\ g[i - 1] = h[i - 1] BY <4>1
      <4> QED BY <4>1, <4>2, <2>5 DEF Follows
    <3> QED BY <3>1, <3>2
  <2>10. Good(k)
    <3> HIDE DEF g
    <3> QED BY <2>7, <2>8, <2>9
  <2> QED BY <2>10, <2>2a
<1>2. PICK g \in [0 .. Len(s) -> Seq(E)] : g[0] = <<>> /\ Follows(g, Len(s), s, S)
  BY <1>0, <1>1
<1> DEFINE F(h) == [i \in 0 .. Len(s) |->
             IF i = 0 THEN <<>> ELSE IF s[i] \in S THEN Append(h[i-1], s[i]) ELSE h[i-1]]
           K == CHOOSE h : h = F(h)
<1>3. g = F(g)
  <2>1. ASSUME NEW i \in 0 .. Len(s) PROVE g[i] = F(g)[i]
    <3>1. CASE i = 0 BY <3>1, <1>2
    <3>2. CASE i # 0
      <4>1. i \in 1 .. Len(s) BY <3>2, <1>0
      <4>2. g[i] = IF s[i] \in S THEN Append(g[i-1], s[i]) ELSE g[i-1]
        BY <4>1, <1>2 DEF Follows
      <4> QED BY <4>2, <3>2
    <3> QED BY <3>1, <3>2
  <2> QED BY <2>1, <1>2
<1>4. K = F(K)
  <2> HIDE DEF F
  <2> QED BY <1>3
<1>5. Kept(s, S) = K[Len(s)] BY DEF Kept
<1>6. \A i \in 0 .. Len(s) : K[i] = g[i]
  <2> HIDE DEF K
  <2> DEFINE D == {i \in 0 .. Len(s) : K[i] # g[i]}
  <2>1. SUFFICES ASSUME D # {} PROVE FALSE
    OBVIOUS
  <2>2. PICK k \in D : \A j \in D : k <= j
    <3> D \subseteq Nat OBVIOUS
    <3> HIDE DEF D
    <3> QED BY <2>1, LeastOf
  <2>3. k \in 0 .. Len(s) /\ K[k] # g[k] OBVIOUS
  <2>4. K[k] = F(K)[k] BY <1>4, Zenon
  <2>5. k # 0 BY <2>3, <2>4, <1>2
  <2>6. k - 1 \in 0 .. Len(s) /\ k \in 1 .. Len(s) /\ ~(k <= k - 1) BY <2>3, <2>5, <1>0
  <2>7. k - 1 \notin D
    <3> HIDE DEF D
    <3> QED BY <2>2, <2>6
  <2>8. K[k - 1] = g[k - 1] BY <2>6, <2>7
  <2>9. K[k] = IF s[k] \in S THEN Append(K[k - 1], s[k]) ELSE K[k - 1] BY <2>3, <2>4, <2>5
  <2> QED BY <2>3, <2>6, <2>8, <2>9, <1>2 DEF Follows
<1>7. Kept(s, S) = g[Len(s)]
  <2> HIDE DEF K, F, T, Good
  <2> QED BY <1>0, <1>5, <1>6
<1> QED BY <1>2, <1>7

LEMMA KeptSelects ==
  ASSUME NEW E, NEW s \in Seq(E), NEW S
  PROVE  /\ Kept(s, S) \in Seq(E)
         /\ ToSet(Kept(s, S)) = ToSet(s) \cap S
         /\ IsInjective(s) => IsInjective(Kept(s, S))
<1>1. PICK g \in [0 .. Len(s) -> Seq(E)] :
        g[0] = <<>> /\ Follows(g, Len(s), s, S) /\ Kept(s, S) = g[Len(s)]
  BY KeptUnfolds
<1>2. Len(s) \in Nat /\ DOMAIN s = 1 .. Len(s) /\ \A i \in 1 .. Len(s) : s[i] \in E
  BY LenProperties, ElementOfSeq
<1> DEFINE Upto(k) == {s[i] : i \in 1 .. k} \cap S
           Good(k) == /\ ToSet(g[k]) = Upto(k)
                      /\ IsInjective(s) => IsInjective(g[k])
           T == {k \in 0 .. Len(s) : ~Good(k)}
<1>3. T = {}
  <2>1. SUFFICES ASSUME T # {} PROVE FALSE
    OBVIOUS
  <2>2. PICK k \in T : \A j \in T : k <= j
    <3> T \subseteq Nat
      OBVIOUS
    <3> HIDE DEF T
    <3> QED
      BY <2>1, LeastOf
  <2>3. k \in 0 .. Len(s) /\ ~Good(k)
    OBVIOUS
  <2>4. k # 0
    <3>1. ToSet(g[0]) = {} /\ IsInjective(g[0])
      BY <1>1 DEF ToSet, IsInjective
    <3>2. QED
      BY <2>3, <3>1
  <2>5. k - 1 \in 0 .. Len(s) /\ k \in 1 .. Len(s) /\ ~(k <= k - 1)
    BY <2>3, <2>4, <1>2
  <2>6. Good(k - 1)
    <3>1. k - 1 \notin T
      <4> HIDE DEF T
      <4> QED
        BY <2>2, <2>5
    <3> HIDE DEF Good
    <3>2. QED
      BY <3>1, <2>5
  <2>7. Upto(k) = Upto(k - 1) \cup ({s[k]} \cap S)
    <3>1. \A i \in 1 .. k : i = k \/ i \in 1 .. k - 1
      BY <2>5, <1>2
    <3>2. \A i \in 1 .. k - 1 : i \in 1 .. k
      BY <2>5, <1>2
    <3>3. k \in 1 .. k
      BY <2>5, <1>2
    <3>4. QED
      BY <3>1, <3>2, <3>3
  <2>8. g[k - 1] \in Seq(E) /\ s[k] \in E
    BY <2>5, <1>2
  <2>9. CASE s[k] \in S
    <3>1. g[k] = Append(g[k - 1], s[k])
      BY <2>5, <2>9, <1>1 DEF Follows
    <3>2. ToSet(g[k]) = ToSet(g[k - 1]) \cup {s[k]}
      BY <3>1, <2>8, SetOfAppend
    <3>3. ASSUME IsInjective(s) PROVE IsInjective(g[k])
      <4>1. s[k] \notin Upto(k - 1)
        <5>1. \A i \in 1 .. k - 1 : i \in 1 .. Len(s) /\ i # k
          BY <2>5, <1>2
        <5>2. QED
          BY <5>1, <2>5, <3>3, <1>2 DEF IsInjective
      <4>2. QED
        BY <4>1, <3>1, <3>3, <2>6, <2>8, SetOfAppend
    <3>4. Upto(k) = Upto(k - 1) \cup {s[k]}
      BY <2>7, <2>9
    <3> HIDE DEF Upto
    <3>5. QED
      BY <3>2, <3>3, <3>4, <2>3, <2>6
  <2>10. CASE s[k] \notin S
    <3>1. g[k] = g[k - 1]
      BY <2>5, <2>10, <1>1 DEF Follows
    <3>2. Upto(k) = Upto(k - 1)
      BY <2>7, <2>10
    <3> HIDE DEF Upto
    <3>3. QED
      BY <3>1, <3>2, <2>3, <2>6
  <2>11. QED
    BY <2>9, <2>10
<1>4. Len(s) \in 0 .. Len(s)
  BY <1>2
<1>5. Good(Len(s))
  <2> HIDE DEF Good
  <2> QED
    BY <1>3, <1>4
<1>6. Upto(Len(s)) = ToSet(s) \cap S
  BY <1>2 DEF ToSet
<1>7. g[Len(s)] \in Seq(E)
  BY <1>4
<1> HIDE DEF Upto
<1>8. QED
  BY <1>1, <1>5, <1>6, <1>7

-----------------------------------------------------------------------------
(* The graph *)

LEMMA Graph ==
  /\ Len(Edges) \in Nat /\ EdgeSet \subseteq Nat /\ IsFiniteSet(EdgeSet)
  /\ Len(Nodes) \in Nat /\ DOMAIN Nodes = 1 .. Len(Nodes)
  /\ \A e \in EdgeSet : Edges[e].from \in NodeSet /\ Edges[e].to \in NodeSet
  /\ \A n \in NodeSet : Into[n] = {e \in EdgeSet : Edges[e].to = n}
<1>1. Len(Edges) \in Nat
  BY AutomationIsSorted, LenProperties
<1>2. IsFiniteSet(EdgeSet)
  BY <1>1, FS_Interval DEF EdgeSet
<1>3. Len(Nodes) \in Nat /\ DOMAIN Nodes = 1 .. Len(Nodes)
  BY AutomationIsSorted, LenProperties
<1>4. \A e \in EdgeSet : Edges[e].from \in NodeSet /\ Edges[e].to \in NodeSet
  BY AutomationAssumptions
<1>5. EdgeSet \subseteq Nat
  BY <1>1 DEF EdgeSet
<1>6. QED
  BY <1>1, <1>2, <1>3, <1>4, <1>5 DEF Into

LEMMA EdgesInto ==
  ASSUME NEW m \in NodeSet, NEW N
  PROVE  LET I == {e \in Into[m] : Edges[e].from \in N}
         IN /\ IsFiniteSet(I) /\ Cardinality(I) \in Nat
            /\ Cardinality(I) = 0 <=> I = {}
<1> DEFINE I == {e \in Into[m] : Edges[e].from \in N}
<1>1. I \in SUBSET EdgeSet
  BY Graph
<1> HIDE DEF I
<1>2. IsFiniteSet(I)
  BY <1>1, Graph, FS_Subset
<1>3. QED
  BY <1>2, FS_CardinalityType, FS_EmptySet DEF I

\* A node that leaves a set takes its edges with it.
LEMMA EdgesIntoLess ==
  ASSUME NEW m \in NodeSet, NEW N, NEW n \in N, n \in NodeSet
  PROVE  Cardinality({e \in Into[m] : Edges[e].from \in N \ {n}})
         = Cardinality({e \in Into[m] : Edges[e].from \in N}) - EdgesBetween[n][m]
<1> DEFINE I == {e \in Into[m] : Edges[e].from \in N}
           J == {e \in Into[m] : Edges[e].from = n}
<1>1. IsFiniteSet(I)
  BY EdgesInto
<1>2. {e \in Into[m] : Edges[e].from \in N \ {n}} = I \ J /\ I \cap J = J
  OBVIOUS
<1>3. EdgesBetween[n][m] = Cardinality(J)
  BY DEF EdgesBetween
<1> HIDE DEF I, J
<1>4. Cardinality(I \ J) = Cardinality(I) - Cardinality(I \cap J)
  BY <1>1, FS_Difference
<1>5. QED
  BY <1>2, <1>3, <1>4 DEF I

\* Each node an edge leads to is among the successors, and none of them twice.
LEMMA SuccessorsOnce ==
  ASSUME NEW n \in NodeSet
  PROVE  /\ Successors[n] \in Seq(NodeSet) /\ IsInjective(Successors[n])
         /\ ToSet(Successors[n])
            = {m \in NodeSet : \E e \in Into[m] : Edges[e].from = n}
<1> DEFINE ids == [e \in EdgeSet |-> e]
           Finals == {e \in EdgeSet : /\ Edges[e].from = n
                                    /\ \A d \in Into[Edges[e].to] :
                                         Edges[d].from = n => d <= e}
           lasts == Kept(ids, Finals)
           succ == [i \in DOMAIN lasts |-> Edges[lasts[i]].to]
<1>1. ids \in Seq(EdgeSet) /\ IsInjective(ids) /\ ToSet(ids) = EdgeSet
  <2>1. ids \in Seq(EdgeSet)
    BY Graph, IsASeq DEF EdgeSet
  <2>2. QED
    BY <2>1 DEF IsInjective, ToSet
<1>2. Successors[n] = succ
  BY DEF Successors
<1>3. lasts \in Seq(EdgeSet) /\ IsInjective(lasts) /\ ToSet(lasts) = Finals
  <2> HIDE DEF ids, Finals
  <2>1. /\ lasts \in Seq(EdgeSet) /\ IsInjective(lasts)
        /\ ToSet(lasts) = EdgeSet \cap Finals
    BY <1>1, KeptSelects
  <2>2. Finals \subseteq EdgeSet
    BY DEF Finals
  <2>3. QED
    BY <2>1, <2>2
<1> HIDE DEF ids, lasts
<1>4. /\ Len(lasts) \in Nat /\ DOMAIN lasts = 1 .. Len(lasts)
      /\ \A i \in 1 .. Len(lasts) : lasts[i] \in Finals /\ lasts[i] \in EdgeSet
  <2>1. Len(lasts) \in Nat /\ DOMAIN lasts = 1 .. Len(lasts)
    BY <1>3, LenProperties
  <2>2. \A i \in 1 .. Len(lasts) : lasts[i] \in ToSet(lasts)
    BY <2>1 DEF ToSet
  <2>3. QED
    BY <2>1, <2>2, <1>3
<1>5. succ \in Seq(NodeSet) /\ DOMAIN succ = 1 .. Len(lasts)
  <2>1. \A i \in 1 .. Len(lasts) : Edges[lasts[i]].to \in NodeSet
    BY <1>4, Graph
  <2>2. [i \in 1 .. Len(lasts) |-> Edges[lasts[i]].to] \in Seq(NodeSet)
    BY <2>1, <1>4, IsASeq
  <2>3. QED
    BY <2>2, <1>4
<1>6. ASSUME NEW d \in Finals, NEW e \in Finals, Edges[d].to = Edges[e].to PROVE d = e
  <2>1. d \in Nat /\ e \in Nat /\ Edges[e].to \in NodeSet
    BY Graph
  <2>2. d \in Into[Edges[e].to] /\ e \in Into[Edges[d].to]
    BY <2>1, <1>6, Graph
  <2>3. d <= e /\ e <= d
    BY <2>2
  <2>4. QED
    BY <2>1, <2>3
<1>7. IsInjective(succ)
  <2>1. SUFFICES ASSUME NEW i \in 1 .. Len(lasts), NEW j \in 1 .. Len(lasts),
                        succ[i] = succ[j]
                 PROVE  i = j
    BY <1>5 DEF IsInjective
  <2>2. Edges[lasts[i]].to = Edges[lasts[j]].to
    BY <2>1, <1>4
  <2>3. lasts[i] = lasts[j]
    BY <2>2, <1>4, <1>6
  <2>4. QED
    BY <2>3, <1>3, <1>4 DEF IsInjective
<1>8. ASSUME NEW m \in ToSet(succ)
      PROVE  m \in NodeSet /\ \E e \in Into[m] : Edges[e].from = n
  <2>1. PICK i \in 1 .. Len(lasts) : m = Edges[lasts[i]].to
    BY <1>4, <1>5 DEF ToSet
  <2>2. lasts[i] \in EdgeSet /\ Edges[lasts[i]].from = n
    BY <1>4
  <2>3. QED
    BY <2>1, <2>2, Graph
<1>9. ASSUME NEW m \in NodeSet, NEW e \in Into[m], Edges[e].from = n
      PROVE  m \in ToSet(succ)
  <2> DEFINE T == {Len(Edges) - d : d \in {c \in Into[m] : Edges[c].from = n}}
  <2>1. T \subseteq Nat /\ T # {}
    <3>1. \A d \in Into[m] : d \in 1 .. Len(Edges)
      BY Graph DEF EdgeSet
    <3>2. \A d \in Into[m] : Len(Edges) - d \in Nat
      BY <3>1, Graph
    <3>3. Len(Edges) - e \in T
      BY <1>9
    <3>4. QED
      BY <3>2, <3>3
  <2>2. PICK x \in T : \A y \in T : x <= y
    <3> HIDE DEF T
    <3>1. QED
      BY <2>1, LeastOf
  <2>3. PICK d \in Into[m] : Edges[d].from = n /\ x = Len(Edges) - d
    OBVIOUS
  <2>4. d \in EdgeSet /\ Edges[d].to = m
    BY Graph
  <2>5. ASSUME NEW c \in Into[m], Edges[c].from = n PROVE c <= d
    <3>1. Len(Edges) - d <= Len(Edges) - c
      BY <2>2, <2>3, <2>5
    <3>2. c \in Nat /\ d \in Nat /\ Len(Edges) \in Nat
      BY <2>4, Graph
    <3>3. QED
      BY <3>1, <3>2
  <2>6. d \in Finals
    BY <2>3, <2>4, <2>5
  <2>7. PICK i \in 1 .. Len(lasts) : lasts[i] = d
    BY <2>6, <1>3, <1>4 DEF ToSet
  <2>8. succ[i] = m /\ i \in DOMAIN succ
    BY <2>4, <2>7, <1>4, <1>5
  <2>9. QED
    BY <2>8 DEF ToSet
<1> HIDE DEF succ
<1>10. QED
  BY <1>2, <1>5, <1>7, <1>8, <1>9

-----------------------------------------------------------------------------
(* The invariant *)

Pending  == {n \in NodeSet : status[n] = "pending"}
Unreaped == Pending \cup running

\* waitingOn counts the edges from nodes that are not reaped, no more and no less.
CountsUnreaped ==
  \A m \in NodeSet :
    waitingOn[m] = Cardinality({e \in Into[m] : Edges[e].from \in Unreaped})

\* Once the run is going, the nodes in ready are those whose turn it is, once each.
ReadyIsDue ==
  /\ IsInjective(ready)
  /\ run # "new" => ToSet(ready) = {n \in Pending : waitingOn[n] = 0}

\* A node at work is among the running, and those are no more than allowed.
RunningAreStarted ==
  /\ running \cap Pending = {}
  /\ \A n \in NodeSet : status[n] \in Working => n \in running
  /\ Cardinality(running) <= Limit

\* A node is started after everything before it is reaped.
StartedInTurn == \A n \in NodeSet : n \notin Pending => waitingOn[n] = 0

\* What was decided when a node was started still reads the same off the answers
\* and results before it.
DecisionsStand ==
  ~canceled =>
    /\ offBranch \cap Pending = {}
    /\ \A n \in NodeSet \ Pending :
         /\ n \in offBranch <=> OffWay(n)
         /\ status[n] = "skipped" <=> OffWay(n) \/ Blocked(n)

OneDial == dials <= 1 /\ (conn = "none" <=> dials = 0)

NewIsUntouched == run = "new" => running = {} /\ ready = <<>> /\ Pending = NodeSet

DoneIsSettled == run = "done" => running = {} /\ \A n \in NodeSet : status[n] \in Settled

IInv ==
  /\ TypeOK /\ CountsUnreaped /\ ReadyIsDue /\ RunningAreStarted /\ StartedInTurn
  /\ DecisionsStand /\ OneDial /\ NewIsUntouched /\ DoneIsSettled

USE DEF Settled, Working, Statuses

\* What stands before a node that waits for nothing is settled for good.
LEMMA BeforeAreSettled ==
  ASSUME TypeOK, NEW P \in SUBSET NodeSet, NEW n \in NodeSet,
         \A m \in NodeSet : status[m] \in Working => m \in P,
         Cardinality({e \in Into[n] : Edges[e].from \in Pending \cup P}) = 0,
         NEW e \in Into[n]
  PROVE  /\ Edges[e].from \in NodeSet /\ Edges[e].from \notin Pending \cup P
         /\ status[Edges[e].from] \in Settled
<1>1. Edges[e].from \in NodeSet
  BY Graph
<1>2. {d \in Into[n] : Edges[d].from \in Pending \cup P} = {}
  BY EdgesInto
<1>3. QED
  BY <1>1, <1>2 DEF TypeOK, Pending

\* Whether a node is off the way or blocked depends on what stands before it alone.
LEMMA SameBefore ==
  ASSUME NEW n \in NodeSet, lenient' = lenient,
         \A e \in Into[n] : /\ status'[Edges[e].from] = status[Edges[e].from]
                            /\ answer'[Edges[e].from] = answer[Edges[e].from]
                            /\ Edges[e].from \in offBranch' <=> Edges[e].from \in offBranch
  PROVE  (OffWay(n)' <=> OffWay(n)) /\ (Blocked(n)' <=> Blocked(n))
<1>1. \A e \in Into[n] : OffBranchEdge(e)' <=> OffBranchEdge(e)
  BY DEF OffBranchEdge
<1>2. Live(n)' = Live(n)
  BY <1>1 DEF Live
<1>3. \A e \in Live(n) : e \in Into[n]
  BY DEF Live
<1>4. QED
  BY <1>2, <1>3 DEF OffWay, Blocked

-----------------------------------------------------------------------------
(* IInv is inductive *)

\* The inner loop, wherever it is entered: nodes whose turn it is start next to P.
LEMMA StartingKeepsIInv ==
  ASSUME TypeOK, DecisionsStand, OneDial,
         NEW P \in SUBSET NodeSet, NEW R \in Seq(NodeSet),
         NEW left \in [NodeSet -> Nat],
         waitingOn' = left, UNCHANGED <<lenient, answer, canceled>>, run' = "going",
         StartReady(R, P),
         \A m \in NodeSet :
           left[m] = Cardinality({e \in Into[m] : Edges[e].from \in Pending \cup P}),
         IsInjective(R), ToSet(R) = {n \in Pending : left[n] = 0},
         P \cap Pending = {}, \A n \in NodeSet : status[n] \in Working => n \in P,
         IsFiniteSet(P), Cardinality(P) <= Limit,
         \A n \in NodeSet : n \notin Pending => left[n] = 0
  PROVE  IInv'
<1> DEFINE k == IF Len(R) <= Room(P) THEN Len(R) ELSE Room(P)
           S == {R[i] : i \in 1 .. k}
<1>1. /\ ready' = SubSeq(R, k + 1, Len(R))
      /\ running' = P \cup S
      /\ status' = [n \in NodeSet |-> IF n \in S THEN StartOf(n) ELSE status[n]]
      /\ offBranch' = offBranch \cup {n \in S : ~canceled /\ OffWay(n)}
      /\ ConnectionFor({n \in S : StartOf(n) = "connecting"})
  BY DEF StartReady
<1>2. Cardinality(P) \in Nat /\ Limit \in Nat
  BY FS_CardinalityType, AutomationAssumptions
<1>3. k \in 0 .. Len(R) /\ k <= Limit - Cardinality(P)
  <2>1. Room(P) \in Nat /\ Len(R) \in Nat /\ Room(P) = Limit - Cardinality(P)
    BY <1>2, LenProperties DEF Room
  <2>2. QED
    BY <2>1
<1> HIDE DEF k
<1>4. /\ ready' \in Seq(NodeSet) /\ IsInjective(ready')
      /\ ToSet(ready') = ToSet(R) \ S
      /\ S \subseteq ToSet(R) /\ IsFiniteSet(S) /\ Cardinality(S) <= k
  BY <1>1, <1>3, SetOfRest
<1> HIDE DEF S
<1>5. S \subseteq Pending /\ S \subseteq NodeSet /\ \A n \in S : left[n] = 0
  BY <1>4 DEF Pending
<1>6. \A n \in NodeSet : StartOf(n) \in {"skipped", "connecting", "running"}
  BY DEF StartOf
<1>7. \A n \in NodeSet : status'[n] = IF n \in S THEN StartOf(n) ELSE status[n]
  BY <1>1
<1>8. Pending' = Pending \ S
  BY <1>5, <1>6, <1>7 DEF Pending
<1>9. Unreaped' = Pending \cup P
  BY <1>1, <1>5, <1>8 DEF Unreaped
<1>10. OneDial' /\ conn' \in {"none", "dialling", "open", "failed", "closed"} /\ dials' \in Nat
  BY <1>1 DEF ConnectionFor, OneDial, TypeOK
<1>11. TypeOK'
  <2>1. status' \in [NodeSet -> Statuses]
    BY <1>1, <1>6 DEF TypeOK
  <2>2. offBranch' \in SUBSET NodeSet /\ running' \in SUBSET NodeSet
    BY <1>1, <1>5 DEF TypeOK
  <2>3. QED
    BY <2>1, <2>2, <1>4, <1>10 DEF TypeOK
<1>12. CountsUnreaped'
  BY <1>9 DEF CountsUnreaped
<1>13. ReadyIsDue'
  BY <1>4, <1>8 DEF ReadyIsDue
<1>14. RunningAreStarted'
  <2>1. running' \cap Pending' = {}
    BY <1>1, <1>8
  <2>2. \A n \in NodeSet : status'[n] \in Working => n \in running'
    BY <1>1, <1>7
  <2>3. Cardinality(P \cup S) <= Limit
    <3>1. Cardinality(P \cup S) = Cardinality(P) + Cardinality(S) - Cardinality(P \cap S)
      BY <1>4, FS_Union
    <3>2. Cardinality(P \cap S) = 0
      <4>1. P \cap S = {}
        BY <1>5
      <4>2. QED
        BY <4>1, FS_EmptySet
    <3>3. Cardinality(S) \in Nat
      BY <1>4, FS_CardinalityType
    <3>4. k \in Int /\ Cardinality(S) <= k /\ k <= Limit - Cardinality(P)
      BY <1>3, <1>4, LenProperties
    <3> DEFINE p == Cardinality(P)
               c == Cardinality(S)
    <3>5. Cardinality(P \cup S) = p + c - 0 /\ p \in Nat /\ c \in Nat
      BY <3>1, <3>2, <3>3, <1>2
    <3>6. c <= k /\ k <= Limit - p /\ k \in Int /\ Limit \in Nat
      BY <3>4, <1>2
    <3> HIDE DEF p, c
    <3>7. p + c - 0 <= Limit
      BY <3>5, <3>6
    <3>8. QED
      BY <3>5, <3>7
  <2>4. QED
    BY <2>1, <2>2, <2>3, <1>1 DEF RunningAreStarted
<1>15. StartedInTurn'
  BY <1>5, <1>8 DEF StartedInTurn
<1>16. DecisionsStand'
  <2>1. SUFFICES ASSUME ~canceled, ~canceled'
                 PROVE  /\ offBranch' \cap Pending' = {}
                        /\ \A n \in NodeSet \ Pending' :
                             /\ n \in offBranch' <=> OffWay(n)'
                             /\ status'[n] = "skipped" <=> (OffWay(n) \/ Blocked(n))'
    BY DEF DecisionsStand
  <2>2. offBranch' = offBranch \cup {n \in S : OffWay(n)}
    BY <2>1, <1>1
  <2>3. offBranch' \cap Pending' = {}
    BY <2>1, <2>2, <1>8 DEF DecisionsStand
  <2>4. ASSUME NEW n \in NodeSet \ Pending'
        PROVE  /\ n \in offBranch' <=> OffWay(n)'
               /\ status'[n] = "skipped" <=> (OffWay(n) \/ Blocked(n))'
    <3>1. n \in S \/ n \notin Pending
      BY <1>8
    <3>2. left[n] = 0
      BY <3>1, <1>5
    <3>3. \A e \in Into[n] : /\ Edges[e].from \in NodeSet
                             /\ Edges[e].from \notin Pending
      BY <3>2, BeforeAreSettled
    <3>4. \A e \in Into[n] : Edges[e].from \notin S
      BY <3>3, <1>5
    <3>5. (OffWay(n)' <=> OffWay(n)) /\ (Blocked(n)' <=> Blocked(n))
      <4>1. \A e \in Into[n] :
              /\ status'[Edges[e].from] = status[Edges[e].from]
              /\ answer'[Edges[e].from] = answer[Edges[e].from]
              /\ Edges[e].from \in offBranch' <=> Edges[e].from \in offBranch
        BY <3>3, <3>4, <2>2, <1>7
      <4>2. QED
        BY <4>1, SameBefore
    <3>6. CASE n \in S
      <4>1. n \notin offBranch
        BY <3>6, <2>1, <1>5 DEF DecisionsStand
      <4>2. status'[n] = StartOf(n)
        BY <3>6, <1>7
      <4>3. StartOf(n) = "skipped" <=> OffWay(n) \/ Blocked(n)
        BY <2>1 DEF StartOf
      <4>4. n \in offBranch' <=> OffWay(n)
        BY <4>1, <3>6, <2>2
      <4>5. QED
        BY <4>2, <4>3, <4>4, <3>5
    <3>7. CASE n \notin S
      <4>1. n \in NodeSet \ Pending
        BY <3>1, <3>7
      <4>2. status'[n] = status[n] /\ (n \in offBranch' <=> n \in offBranch)
        BY <3>7, <2>2, <1>7
      <4>3. QED
        BY <4>1, <4>2, <3>5, <2>1 DEF DecisionsStand
    <3>8. QED
      BY <3>6, <3>7
  <2>5. QED
    BY <2>3, <2>4
<1>17. NewIsUntouched' /\ DoneIsSettled'
  BY DEF NewIsUntouched, DoneIsSettled
<1>18. QED
  BY <1>10, <1>11, <1>12, <1>13, <1>14, <1>15, <1>16, <1>17 DEF IInv

LEMMA RunningFinite == TypeOK => IsFiniteSet(running)
<1>1. IsFiniteSet(NodeSet)
  <2>1. Nodes \in Surjection(1 .. Len(Nodes), NodeSet)
    BY AutomationIsSorted, LenProperties DEF Surjection, NodeSet, ToSet
  <2>2. QED
    BY <2>1, Graph, FS_Interval, FS_Surjection
<1>2. QED
  BY <1>1, FS_Subset DEF TypeOK

LEMMA InitIInv == Init => IInv
<1> SUFFICES ASSUME Init PROVE IInv
  OBVIOUS
<1>1. Pending = NodeSet /\ Unreaped = NodeSet
  BY DEF Init, Pending, Unreaped
<1>2. ASSUME NEW m \in NodeSet
      PROVE  /\ {e \in Into[m] : Edges[e].from \in NodeSet} = Into[m]
             /\ Cardinality(Into[m]) \in Nat
  <2>1. {e \in Into[m] : Edges[e].from \in NodeSet} = Into[m]
    BY Graph
  <2>2. Cardinality({e \in Into[m] : Edges[e].from \in NodeSet}) \in Nat
    BY EdgesInto
  <2>3. QED
    BY <2>1, <2>2
<1>3. TypeOK
  BY <1>2, EmptySeq DEF Init, TypeOK
<1>4. CountsUnreaped
  BY <1>1, <1>2 DEF Init, CountsUnreaped
<1>5. RunningAreStarted
  BY AutomationAssumptions, FS_EmptySet DEF Init, RunningAreStarted
<1>6. QED
  BY <1>1, <1>3, <1>4, <1>5
  DEF Init, IInv, ReadyIsDue, IsInjective, StartedInTurn, DecisionsStand, OneDial,
      NewIsUntouched, DoneIsSettled

LEMMA BeginKeepsIInv == IInv /\ Begin => IInv'
<1> SUFFICES ASSUME IInv, Begin PROVE IInv'
  OBVIOUS
<1> USE DEF IInv
<1> DEFINE R == Kept(Nodes, {n \in NodeSet : waitingOn[n] = 0})
<1>1. /\ running = {} /\ Pending = NodeSet
      /\ StartReady(R, {}) /\ run' = "going"
      /\ UNCHANGED <<lenient, answer, waitingOn, canceled>>
  BY DEF Begin, NewIsUntouched
<1>2. /\ R \in Seq(NodeSet) /\ IsInjective(R)
      /\ ToSet(R) = {n \in Pending : waitingOn[n] = 0}
  <2>1. R \in Seq(NodeSet) /\ IsInjective(R)
        /\ ToSet(R) = NodeSet \cap {n \in NodeSet : waitingOn[n] = 0}
    BY AutomationIsSorted, KeptSelects DEF NodeSet
  <2>2. QED
    BY <2>1, <1>1
<1> HIDE DEF R
<1>3. /\ waitingOn' = waitingOn /\ waitingOn \in [NodeSet -> Nat]
      /\ UNCHANGED <<lenient, answer, canceled>>
  BY <1>1 DEF TypeOK
<1>4. \A m \in NodeSet :
        waitingOn[m] = Cardinality({e \in Into[m] : Edges[e].from \in Pending \cup {}})
  BY <1>1 DEF CountsUnreaped, Unreaped
<1>5. /\ {} \cap Pending = {} /\ \A n \in NodeSet : status[n] \in Working => n \in {}
      /\ IsFiniteSet({}) /\ Cardinality({}) <= Limit
      /\ \A n \in NodeSet : n \notin Pending => waitingOn[n] = 0
  BY <1>1, FS_EmptySet, AutomationAssumptions DEF Pending
<1>6. QED
  BY <1>1, <1>2, <1>3, <1>4, <1>5, StartingKeepsIInv

LEMMA ReapKeepsIInv ==
  ASSUME IInv, NEW n \in NodeSet, Reap(n)
  PROVE  IInv'
<1> USE DEF IInv
<1> DEFINE left == [m \in NodeSet |-> waitingOn[m] - EdgesBetween[n][m]]
           freed == Kept(Successors[n], {m \in NodeSet : left[m] = 0})
           R == ready \o freed
           P == running \ {n}
<1>1. /\ n \in running /\ status[n] \in Settled
      /\ waitingOn' = left /\ StartReady(R, P)
      /\ UNCHANGED <<lenient, answer, canceled, run>>
  BY DEF Reap
<1>2. n \notin Pending /\ run = "going"
  BY <1>1 DEF RunningAreStarted, NewIsUntouched, DoneIsSettled, TypeOK
<1>3. P \in SUBSET NodeSet /\ Pending \cup P = Unreaped \ {n} /\ n \in Unreaped
  BY <1>1, <1>2 DEF TypeOK, Unreaped
<1>4. \A m \in NodeSet :
        left[m] = Cardinality({e \in Into[m] : Edges[e].from \in Pending \cup P})
  <2>1. ASSUME NEW m \in NodeSet
        PROVE  left[m] = Cardinality({e \in Into[m] : Edges[e].from \in Unreaped \ {n}})
    <3>1. waitingOn[m] = Cardinality({e \in Into[m] : Edges[e].from \in Unreaped})
      BY DEF CountsUnreaped
    <3>2. Cardinality({e \in Into[m] : Edges[e].from \in Unreaped \ {n}})
          = Cardinality({e \in Into[m] : Edges[e].from \in Unreaped}) - EdgesBetween[n][m]
      BY <1>3, EdgesIntoLess
    <3>3. left[m] = waitingOn[m] - EdgesBetween[n][m]
      OBVIOUS
    <3> HIDE DEF left
    <3>4. QED
      BY <3>1, <3>2, <3>3
  <2>2. QED
    BY <2>1, <1>3
<1>5. \A m \in NodeSet : left[m] \in Nat
  BY <1>4, EdgesInto
<1>6. \A m \in NodeSet :
        /\ left[m] <= waitingOn[m]
        /\ left[m] < waitingOn[m] <=> \E e \in Into[m] : Edges[e].from = n
  <2>1. ASSUME NEW m \in NodeSet
        PROVE  /\ EdgesBetween[n][m] \in Nat
               /\ EdgesBetween[n][m] = 0 <=> ~\E e \in Into[m] : Edges[e].from = n
    <3> DEFINE I == {e \in Into[m] : Edges[e].from \in {n}}
    <3>1. IsFiniteSet(I) /\ Cardinality(I) \in Nat /\ (Cardinality(I) = 0 <=> I = {})
      BY EdgesInto
    <3>2. I = {e \in Into[m] : Edges[e].from = n}
      OBVIOUS
    <3>3. EdgesBetween[n][m] = Cardinality({e \in Into[m] : Edges[e].from = n})
      BY DEF EdgesBetween
    <3>4. I = {} <=> ~\E e \in Into[m] : Edges[e].from = n
      OBVIOUS
    <3> HIDE DEF I
    <3>5. QED
      BY <3>1, <3>2, <3>3, <3>4
  <2>2. \A m \in NodeSet : waitingOn[m] \in Nat
    BY DEF TypeOK
  <2>3. QED
    BY <2>1, <2>2
<1>7. ToSet(ready) = {m \in Pending : waitingOn[m] = 0} /\ IsInjective(ready)
  BY <1>2 DEF ReadyIsDue
<1>8. /\ freed \in Seq(NodeSet) /\ IsInjective(freed)
      /\ ToSet(freed) = {m \in NodeSet : /\ \E e \in Into[m] : Edges[e].from = n
                                         /\ left[m] = 0}
  <2> HIDE DEF left
  <2>1. /\ freed \in Seq(NodeSet) /\ IsInjective(freed)
        /\ ToSet(freed) = ToSet(Successors[n]) \cap {m \in NodeSet : left[m] = 0}
    BY SuccessorsOnce, KeptSelects
  <2>2. QED
    BY <2>1, SuccessorsOnce
<1> HIDE DEF freed, left, P
<1>9. \A m \in NodeSet : waitingOn[m] \in Nat /\ (m \notin Pending => waitingOn[m] = 0)
  BY DEF TypeOK, StartedInTurn
<1>10. ToSet(ready) \cap ToSet(freed) = {}
  BY <1>5, <1>6, <1>7, <1>8, <1>9
<1>11. /\ R \in Seq(NodeSet) /\ IsInjective(R)
       /\ ToSet(R) = {m \in Pending : left[m] = 0}
  <2>1. ready \in Seq(NodeSet)
    BY DEF TypeOK
  <2>2. R \in Seq(NodeSet) /\ IsInjective(R) /\ ToSet(R) = ToSet(ready) \cup ToSet(freed)
    BY <2>1, <1>7, <1>8, <1>10, SetOfConcat
  <2>3. ASSUME NEW m \in NodeSet
        PROVE  m \in ToSet(ready) \cup ToSet(freed) <=> m \in Pending /\ left[m] = 0
    <3>1. waitingOn[m] \in Nat /\ left[m] \in Nat /\ left[m] <= waitingOn[m]
      BY <1>5, <1>6, <1>9
    <3>2. CASE \E e \in Into[m] : Edges[e].from = n
      <4>1. waitingOn[m] # 0 /\ m \in Pending
        BY <3>1, <3>2, <1>6, <1>9
      <4>2. QED
        BY <4>1, <3>2, <1>7, <1>8
    <3>3. CASE ~\E e \in Into[m] : Edges[e].from = n
      <4>1. left[m] = waitingOn[m]
        BY <3>1, <3>3, <1>6
      <4>2. QED
        BY <4>1, <3>3, <1>7, <1>8
    <3>4. QED
      BY <3>2, <3>3
  <2>4. ToSet(ready) \cup ToSet(freed) \subseteq NodeSet /\ Pending \subseteq NodeSet
    BY <1>7, <1>8 DEF Pending
  <2>5. QED
    BY <2>2, <2>3, <2>4
<1> HIDE DEF R
<1>12. left \in [NodeSet -> Nat]
  BY <1>5 DEF left
<1>13. /\ P \cap Pending = {}
       /\ \A m \in NodeSet : status[m] \in Working => m \in P
  BY <1>1 DEF P, RunningAreStarted
<1>14. IsFiniteSet(P) /\ Cardinality(P) <= Limit
  <2>1. IsFiniteSet(running) /\ Cardinality(running) \in Nat
    BY RunningFinite, FS_CardinalityType
  <2>2. IsFiniteSet(P) /\ Cardinality(P) = Cardinality(running) - 1
    BY <2>1, <1>1, FS_RemoveElement DEF P
  <2>3. QED
    BY <2>1, <2>2, AutomationAssumptions DEF RunningAreStarted
<1>15. \A m \in NodeSet : m \notin Pending => left[m] = 0
  BY <1>5, <1>6, <1>9
<1>16. /\ waitingOn' = left /\ UNCHANGED <<lenient, answer, canceled>> /\ run' = "going"
       /\ StartReady(R, P)
  BY <1>1, <1>2 DEF R
<1>17. QED
  BY <1>3, <1>4, <1>7, <1>11, <1>12, <1>13, <1>14, <1>15, <1>16, StartingKeepsIInv

\* What changes no one's turn: nodes at work go on or end, the connection settles.
LEMMA WorkingKeepsIInv ==
  ASSUME IInv, UNCHANGED <<lenient, offBranch, waitingOn, ready, running, dials>>,
         status' \in [NodeSet -> Statuses], answer' \in [NodeSet -> {"none", "yes", "no"}],
         \A n \in NodeSet : \/ status'[n] = status[n] /\ answer'[n] = answer[n]
                            \/ status[n] \in Working /\ status'[n] \notin {"pending", "skipped"},
         conn' \in {"none", "dialling", "open", "failed", "closed"},
         conn' = "none" <=> conn = "none",
         canceled' \in BOOLEAN, canceled => canceled',
         run' \in {"new", "going", "done"}, run' = "new" <=> run = "new",
         DoneIsSettled'
  PROVE  IInv'
<1> USE DEF IInv
<1>1. \A n \in NodeSet : status[n] \in Statuses
  BY DEF TypeOK
<1>2. Pending' = Pending
  BY <1>1 DEF Pending
<1>3. TypeOK'
  BY DEF TypeOK
<1>4. CountsUnreaped' /\ ReadyIsDue' /\ StartedInTurn' /\ NewIsUntouched' /\ OneDial'
  BY <1>2 DEF CountsUnreaped, Unreaped, ReadyIsDue, StartedInTurn, NewIsUntouched, OneDial
<1>5. RunningAreStarted'
  BY <1>2 DEF RunningAreStarted
<1>6. DecisionsStand'
  <2>1. SUFFICES ASSUME ~canceled', NEW n \in NodeSet \ Pending
                 PROVE  /\ n \in offBranch' <=> OffWay(n)'
                        /\ status'[n] = "skipped" <=> (OffWay(n) \/ Blocked(n))'
    BY <1>2 DEF DecisionsStand
  <2>2. Cardinality({e \in Into[n] : Edges[e].from \in Pending \cup running}) = 0
    BY DEF StartedInTurn, CountsUnreaped, Unreaped
  <2>3. \A e \in Into[n] :
          Edges[e].from \in NodeSet /\ status[Edges[e].from] \in Settled
    BY <2>2, BeforeAreSettled DEF RunningAreStarted, TypeOK
  <2>4. (OffWay(n)' <=> OffWay(n)) /\ (Blocked(n)' <=> Blocked(n))
    <3>1. \A e \in Into[n] : /\ status'[Edges[e].from] = status[Edges[e].from]
                             /\ answer'[Edges[e].from] = answer[Edges[e].from]
      BY <2>3
    <3>2. QED
      BY <3>1, SameBefore
  <2>5. status'[n] = "skipped" <=> status[n] = "skipped"
    OBVIOUS
  <2>6. QED
    BY <2>1, <2>4, <2>5 DEF DecisionsStand
<1>7. QED
  BY <1>3, <1>4, <1>5, <1>6

LEMMA NodeKeepsIInv ==
  ASSUME IInv, NEW n \in NodeSet, HostReady(n) \/ NodeEnds(n)
  PROVE  IInv'
<1>1. /\ UNCHANGED <<lenient, offBranch, waitingOn, ready, running, dials, conn, canceled, run>>
      /\ status[n] \in Working
  BY DEF HostReady, NodeEnds
<1>2. /\ status' \in [NodeSet -> Statuses]
      /\ answer' \in [NodeSet -> {"none", "yes", "no"}]
      /\ \A m \in NodeSet \ {n} : status'[m] = status[m] /\ answer'[m] = answer[m]
      /\ status'[n] \notin {"pending", "skipped"}
  <2>1. CASE HostReady(n)
    BY <2>1 DEF HostReady, IInv, TypeOK
  <2>2. CASE NodeEnds(n)
    BY <2>2 DEF NodeEnds, IInv, TypeOK
  <2>3. QED
    BY <2>1, <2>2
<1>3. DoneIsSettled'
  BY <1>1 DEF IInv, DoneIsSettled
<1>4. QED
  BY <1>1, <1>2, <1>3, WorkingKeepsIInv DEF IInv, TypeOK

LEMMA ConnectKeepsIInv == IInv /\ ConnectSettles => IInv'
<1> SUFFICES ASSUME IInv, ConnectSettles PROVE IInv'
  OBVIOUS
<1>1. DoneIsSettled'
  BY DEF IInv, DoneIsSettled, ConnectSettles
<1>2. QED
  BY <1>1, WorkingKeepsIInv DEF IInv, TypeOK, ConnectSettles

LEMMA CancelKeepsIInv == IInv /\ Cancel => IInv'
<1> SUFFICES ASSUME IInv, Cancel PROVE IInv'
  OBVIOUS
<1>1. DoneIsSettled'
  BY DEF DoneIsSettled, Cancel
<1>2. /\ status' \in [NodeSet -> Statuses]
      /\ \A n \in NodeSet : \/ status'[n] = status[n]
                            \/ status[n] \in Working /\ status'[n] = "failed"
  BY DEF Cancel, IInv, TypeOK
<1>3. QED
  BY <1>1, <1>2, WorkingKeepsIInv DEF IInv, TypeOK, Cancel

-----------------------------------------------------------------------------
(* No node is left over *)

\* A run with no node to start and none to reap has settled every node: among the
\* nodes left over, one would be first in the order topoOrder() found, and nothing
\* before it could hold it back.
LEMMA NobodyLeftOver ==
  ASSUME IInv, run = "going", running = {}, ready = <<>>
  PROVE  \A n \in NodeSet : status[n] \in Settled
<1> USE DEF IInv
<1>1. PICK rank \in [NodeSet -> 1 .. Len(Nodes)] :
        \A e \in EdgeSet : rank[Edges[e].from] < rank[Edges[e].to]
  BY AutomationIsSorted
<1>2. {n \in Pending : waitingOn[n] = 0} = {}
  <2>1. ToSet(<<>>) = {}
    BY DEF ToSet
  <2>2. QED
    BY <2>1 DEF ReadyIsDue
<1>3. Pending = {}
  <2>1. SUFFICES ASSUME Pending # {} PROVE FALSE
    OBVIOUS
  <2> DEFINE T == {rank[n] : n \in Pending}
  <2>2. T \subseteq Nat /\ T # {}
    BY <2>1, Graph DEF Pending
  <2>3. PICK x \in T : \A y \in T : x <= y
    <3> HIDE DEF T
    <3>1. QED
      BY <2>2, LeastOf
  <2>4. PICK n \in Pending : x = rank[n]
    OBVIOUS
  <2>5. n \in NodeSet
    BY DEF Pending
  <2>6. \A e \in Into[n] : Edges[e].from \notin Pending
    <3>1. SUFFICES ASSUME NEW e \in Into[n], Edges[e].from \in Pending PROVE FALSE
      OBVIOUS
    <3>2. e \in EdgeSet /\ Edges[e].to = n /\ Edges[e].from \in NodeSet
      BY <2>5, Graph
    <3>3. rank[Edges[e].from] < rank[n] /\ rank[n] <= rank[Edges[e].from]
      BY <3>1, <3>2, <2>3, <2>4, <1>1
    <3>4. rank[Edges[e].from] \in Nat /\ rank[n] \in Nat
      BY <3>2, <2>5, Graph
    <3>5. QED
      BY <3>3, <3>4
  <2>7. {e \in Into[n] : Edges[e].from \in Unreaped} = {}
    BY <2>6 DEF Unreaped
  <2>8. waitingOn[n] = 0
    <3>1. waitingOn[n] = Cardinality({e \in Into[n] : Edges[e].from \in Unreaped})
      BY <2>5 DEF CountsUnreaped
    <3>2. QED
      BY <3>1, <2>7, FS_EmptySet
  <2>9. QED
    BY <1>2, <2>8
<1>4. QED
  BY <1>3 DEF Pending, RunningAreStarted, TypeOK

LEMMA EndKeepsIInv == IInv /\ End => IInv'
<1> SUFFICES ASSUME IInv, End PROVE IInv'
  OBVIOUS
<1>1. DoneIsSettled'
  BY NobodyLeftOver DEF DoneIsSettled, End
<1>2. QED
  BY <1>1, WorkingKeepsIInv DEF IInv, TypeOK, End

LEMMA IdleKeepsIInv == IInv /\ UNCHANGED vars => IInv'
<1> SUFFICES ASSUME IInv, UNCHANGED vars PROVE IInv'
  OBVIOUS
<1>1. DoneIsSettled'
  BY DEF IInv, DoneIsSettled, vars
<1>2. QED
  BY <1>1, WorkingKeepsIInv DEF IInv, TypeOK, vars

LEMMA NextKeepsIInv == IInv /\ [Next]_vars => IInv'
<1>1. ASSUME IInv, NEW n \in NodeSet, Reap(n) \/ HostReady(n) \/ NodeEnds(n) PROVE IInv'
  BY <1>1, ReapKeepsIInv, NodeKeepsIInv
<1>2. QED
  BY <1>1, BeginKeepsIInv, ConnectKeepsIInv, CancelKeepsIInv, EndKeepsIInv, IdleKeepsIInv
  DEF Next, Over

\* The invariant holds in every state of every run, whatever the automation.
THEOREM Invariance == Spec => []IInv
<1>1. QED
  BY InitIInv, NextKeepsIInv, PTL DEF Spec

-----------------------------------------------------------------------------
(* What the run skips *)

\* Reached by number of edges, as OnTheWay counts them.
Reaches(g, n) ==
  /\ g[0] = {m \in NodeSet : Into[m] = {}}
  /\ \A i \in 1 .. n :
       g[i] = g[i - 1] \cup {Edges[e].to : e \in {d \in EdgeSet :
                               Edges[d].from \in g[i - 1] /\ NotRuledOut(d)}}

LEMMA OnTheWayUnfolds ==
  \E g \in [0 .. Len(Nodes) -> SUBSET NodeSet] :
    Reaches(g, Len(Nodes)) /\ OnTheWay = g[Len(Nodes)]
<1> DEFINE More(R) == R \cup {Edges[e].to : e \in {d \in EdgeSet :
                                 Edges[d].from \in R /\ NotRuledOut(d)}}
           First == {m \in NodeSet : Into[m] = {}}
           Good(k) == \E g \in [0 .. k -> SUBSET NodeSet] :
                        g[0] = First /\ \A i \in 1 .. k : g[i] = More(g[i - 1])
           T == {k \in 0 .. Len(Nodes) : ~Good(k)}
<1>0. Len(Nodes) \in Nat
  BY Graph
<1>1. \A R \in SUBSET NodeSet : More(R) \in SUBSET NodeSet
  BY Graph
<1>2. First \in SUBSET NodeSet
  OBVIOUS
<1> HIDE DEF More, First
<1>3. T = {}
  <2>1. SUFFICES ASSUME T # {} PROVE FALSE
    OBVIOUS
  <2>2. PICK k \in T : \A j \in T : k <= j
    <3> T \subseteq Nat
      OBVIOUS
    <3> HIDE DEF T
    <3>1. QED
      BY <2>1, LeastOf
  <2>3. k \in 0 .. Len(Nodes) /\ ~Good(k)
    OBVIOUS
  <2>4. k # 0
    <3> DEFINE z == [i \in 0 .. 0 |-> First]
    <3>1. z \in [0 .. 0 -> SUBSET NodeSet] /\ z[0] = First
      BY <1>2
    <3>2. \A i \in 1 .. 0 : z[i] = More(z[i - 1])
      OBVIOUS
    <3> HIDE DEF z
    <3>4. Good(0)
      BY <3>1, <3>2
    <3>3. QED
      BY <3>4, <2>3
  <2>5. k \in Nat /\ k - 1 \in 0 .. Len(Nodes) /\ ~(k <= k - 1)
    BY <2>3, <2>4, <1>0
  <2>6. Good(k - 1)
    <3>1. k - 1 \notin T
      <4> HIDE DEF T
      <4>1. QED
        BY <2>2, <2>5
    <3> HIDE DEF Good
    <3>2. QED
      BY <3>1, <2>5
  <2>7. PICK h \in [0 .. (k - 1) -> SUBSET NodeSet] :
          h[0] = First /\ \A i \in 1 .. (k - 1) : h[i] = More(h[i - 1])
    BY <2>6
  <2> DEFINE new == More(h[k - 1])
             g == [i \in 0 .. k |-> IF i = k THEN new ELSE h[i]]
  <2>8. new \in SUBSET NodeSet
    <3>1. h[k - 1] \in SUBSET NodeSet
      BY <2>5
    <3>2. QED
      BY <3>1, <1>1
  <2>9. g \in [0 .. k -> SUBSET NodeSet] /\ g[0] = First
    BY <2>5, <2>7, <2>8, <2>4
  <2>10. ASSUME NEW i \in 1 .. k PROVE g[i] = More(g[i - 1])
    <3>1. CASE i = k
      <4>1. g[k] = new /\ g[k - 1] = h[k - 1]
        BY <2>5
      <4>2. QED
        BY <4>1, <3>1
    <3>2. CASE i # k
      <4>1. i \in 1 .. (k - 1) /\ i \in 0 .. k /\ i - 1 \in 0 .. k /\ i - 1 # k
        BY <2>5, <3>2
      <4>2. g[i] = h[i] /\ g[i - 1] = h[i - 1]
        BY <4>1, <3>2
      <4>3. QED
        BY <4>1, <4>2, <2>7
    <3>3. QED
      BY <3>1, <3>2
  <2>11. Good(k)
    <3> HIDE DEF g
    <3>1. QED
      BY <2>9, <2>10
  <2>12. QED
    BY <2>11, <2>3
<1>4. Good(Len(Nodes))
  <2> HIDE DEF Good
  <2>1. QED
    BY <1>0, <1>3
<1>5. PICK g \in [0 .. Len(Nodes) -> SUBSET NodeSet] :
        g[0] = First /\ \A i \in 1 .. Len(Nodes) : g[i] = More(g[i - 1])
  BY <1>4
<1> DEFINE F(h) == [i \in 0 .. Len(Nodes) |-> IF i = 0 THEN First ELSE More(h[i - 1])]
           K == CHOOSE h : h = F(h)
<1>6. g = F(g)
  <2>1. ASSUME NEW i \in 0 .. Len(Nodes) PROVE g[i] = F(g)[i]
    <3>1. CASE i = 0
      BY <3>1, <1>5
    <3>2. CASE i # 0
      <4>1. i \in 1 .. Len(Nodes)
        BY <3>2, <1>0
      <4>2. QED
        BY <4>1, <3>2, <1>5
    <3>3. QED
      BY <3>1, <3>2
  <2>2. QED
    BY <2>1, <1>5
<1>7. K = F(K)
  <2> HIDE DEF F
  <2>1. QED
    BY <1>6
<1>8. OnTheWay = K[Len(Nodes)]
  BY DEF OnTheWay, More, First
<1>9. K \in [0 .. Len(Nodes) -> SUBSET NodeSet]
  <2> HIDE DEF K
  <2> DEFINE D == {i \in 0 .. Len(Nodes) : K[i] \notin SUBSET NodeSet}
  <2>1. SUFFICES D = {}
    <3>1. K = [i \in 0 .. Len(Nodes) |-> K[i]]
      BY <1>7
    <3>2. QED
      BY <3>1
  <2>2. SUFFICES ASSUME D # {} PROVE FALSE
    OBVIOUS
  <2>3. PICK k \in D : \A j \in D : k <= j
    <3> D \subseteq Nat
      OBVIOUS
    <3> HIDE DEF D
    <3>1. QED
      BY <2>2, LeastOf
  <2>4. k \in 0 .. Len(Nodes) /\ K[k] \notin SUBSET NodeSet
    OBVIOUS
  <2>5. K[k] = IF k = 0 THEN First ELSE More(K[k - 1])
    <3>1. K[k] = F(K)[k]
      BY <1>7, Zenon
    <3>2. QED
      BY <3>1, <2>4
  <2>6. k # 0
    BY <2>4, <2>5, <1>2
  <2>7. k - 1 \in 0 .. Len(Nodes) /\ ~(k <= k - 1)
    BY <2>4, <2>6, <1>0
  <2>8. k - 1 \notin D
    <3> HIDE DEF D
    <3>1. QED
      BY <2>3, <2>7
  <2>9. K[k - 1] \in SUBSET NodeSet
    BY <2>7, <2>8
  <2>10. QED
    BY <2>4, <2>5, <2>6, <2>9, <1>1
<1>10. Reaches(K, Len(Nodes))
  <2> HIDE DEF K
  <2>1. K[0] = First
    <3>1. F(K)[0] = First
      BY <1>0
    <3>2. QED
      BY <3>1, <1>7, Zenon
  <2>2. ASSUME NEW i \in 1 .. Len(Nodes) PROVE K[i] = More(K[i - 1])
    <3>1. F(K)[i] = More(K[i - 1])
      BY <1>0
    <3>2. QED
      BY <3>1, <1>7, Zenon
  <2>3. QED
    BY <2>1, <2>2 DEF Reaches, First, More
<1>11. QED
  <2> HIDE DEF K
  <2>1. QED
    BY <1>8, <1>9, <1>10

LEMMA ReachesGrow ==
  ASSUME NEW g \in [0 .. Len(Nodes) -> SUBSET NodeSet], Reaches(g, Len(Nodes)),
         NEW i \in 0 .. Len(Nodes), NEW j \in i .. Len(Nodes)
  PROVE  g[i] \subseteq g[j]
<1> DEFINE D == {k \in i .. Len(Nodes) : ~(g[i] \subseteq g[k])}
<1>1. SUFFICES ASSUME D # {} PROVE FALSE
  OBVIOUS
<1>2. PICK k \in D : \A m \in D : k <= m
  <2>1. D \subseteq Nat
    BY Graph
  <2> HIDE DEF D
  <2>2. QED
    BY <1>1, <2>1, LeastOf
<1>3. k \in i .. Len(Nodes) /\ ~(g[i] \subseteq g[k]) /\ k # i
  OBVIOUS
<1>4. k \in 1 .. Len(Nodes) /\ k - 1 \in i .. Len(Nodes) /\ ~(k <= k - 1)
  BY <1>3, Graph
<1>5. g[i] \subseteq g[k - 1]
  <2>1. k - 1 \notin D
    <3> HIDE DEF D
    <3>1. QED
      BY <1>2, <1>4
  <2>2. QED
    BY <2>1, <1>4
<1>6. g[k - 1] \subseteq g[k]
  BY <1>4 DEF Reaches
<1>7. QED
  BY <1>3, <1>5, <1>6

\* When all is settled, the nodes on the way are those not taken for off it.
LEMMA WayTaken ==
  ASSUME IInv, run = "done", ~canceled
  PROVE  OnTheWay = NodeSet \ offBranch
<1> USE DEF IInv
<1>1. PICK g \in [0 .. Len(Nodes) -> SUBSET NodeSet] :
        Reaches(g, Len(Nodes)) /\ OnTheWay = g[Len(Nodes)]
  BY OnTheWayUnfolds
<1>2. PICK rank \in [NodeSet -> 1 .. Len(Nodes)] :
        \A e \in EdgeSet : rank[Edges[e].from] < rank[Edges[e].to]
  BY AutomationIsSorted
<1>3. \A n \in NodeSet : n \in offBranch <=> OffWay(n)
  BY DEF DecisionsStand, DoneIsSettled, Pending
<1>4. \A e \in EdgeSet : OffBranchEdge(e) <=> Edges[e].from \in offBranch \/ ~NotRuledOut(e)
  BY DEF OffBranchEdge, NotRuledOut
<1>5. \A n \in NodeSet : n \notin offBranch <=>
        \/ Into[n] = {}
        \/ \E e \in Into[n] : Edges[e].from \notin offBranch /\ NotRuledOut(e)
  <2>1. SUFFICES ASSUME NEW n \in NodeSet
                 PROVE  OffWay(n) <=>
                          /\ Into[n] # {}
                          /\ \A e \in Into[n] : Edges[e].from \in offBranch \/ ~NotRuledOut(e)
    BY <1>3
  <2>2. \A e \in Into[n] : e \in EdgeSet
    BY Graph
  <2>3. QED
    BY <2>2, <1>4 DEF OffWay, Live
<1>6. \A i \in 0 .. Len(Nodes) : g[i] \cap offBranch = {}
  <2> DEFINE D == {i \in 0 .. Len(Nodes) : g[i] \cap offBranch # {}}
  <2>1. SUFFICES ASSUME D # {} PROVE FALSE
    OBVIOUS
  <2>2. PICK k \in D : \A j \in D : k <= j
    <3>1. D \subseteq Nat
      BY Graph
    <3> HIDE DEF D
    <3>2. QED
      BY <2>1, <3>1, LeastOf
  <2>3. k \in 0 .. Len(Nodes) /\ g[k] \cap offBranch # {}
    OBVIOUS
  <2>4. k # 0
    <3>1. g[0] \cap offBranch = {}
      BY <1>1, <1>5 DEF Reaches
    <3>2. QED
      BY <3>1, <2>3
  <2>5. k \in 1 .. Len(Nodes) /\ k - 1 \in 0 .. Len(Nodes) /\ ~(k <= k - 1)
    BY <2>3, <2>4, Graph
  <2>6. g[k - 1] \cap offBranch = {}
    <3>1. k - 1 \notin D
      <4> HIDE DEF D
      <4>1. QED
        BY <2>2, <2>5
    <3>2. QED
      BY <3>1, <2>5
  <2>7. PICK n \in g[k] : n \in offBranch /\ n \notin g[k - 1]
    BY <2>3, <2>6
  <2>8. PICK e \in EdgeSet : Edges[e].from \in g[k - 1] /\ NotRuledOut(e) /\ n = Edges[e].to
    BY <2>5, <2>7, <1>1 DEF Reaches
  <2>9. n \in NodeSet /\ e \in Into[n]
    BY <2>8, Graph
  <2>10. QED
    BY <2>6, <2>7, <2>8, <2>9, <1>5
<1>7. \A n \in NodeSet \ offBranch : n \in g[rank[n]]
  <2> DEFINE Missed == {n \in NodeSet \ offBranch : n \notin g[rank[n]]}
             T == {rank[n] : n \in Missed}
  <2>1. SUFFICES ASSUME Missed # {} PROVE FALSE
    OBVIOUS
  <2>2. PICK x \in T : \A y \in T : x <= y
    <3>1. T \subseteq Nat /\ T # {}
      BY <2>1, Graph
    <3> HIDE DEF T
    <3>2. QED
      BY <3>1, LeastOf
  <2>3. PICK n \in Missed : x = rank[n]
    OBVIOUS
  <2>4. n \in NodeSet /\ n \notin offBranch /\ n \notin g[rank[n]]
    OBVIOUS
  <2>5. /\ rank[n] \in 1 .. Len(Nodes) /\ rank[n] \in 0 .. Len(Nodes)
        /\ rank[n] - 1 \in 0 .. Len(Nodes) /\ rank[n] \in 0 .. Len(Nodes)
    BY <2>4, Graph
  <2>6. CASE Into[n] = {}
    <3>1. n \in g[0]
      BY <2>4, <2>6, <1>1 DEF Reaches
    <3>2. g[0] \subseteq g[rank[n]]
      BY <2>5, <1>1, Graph, ReachesGrow
    <3>3. QED
      BY <3>1, <3>2, <2>4
  <2>7. CASE Into[n] # {}
    <3>1. PICK e \in Into[n] : Edges[e].from \notin offBranch /\ NotRuledOut(e)
      BY <2>4, <2>7, <1>5
    <3>2. e \in EdgeSet /\ Edges[e].to = n /\ Edges[e].from \in NodeSet
      <4>1. n \in NodeSet
        BY <2>4
      <4> HIDE DEF Missed, T
      <4>2. Into[n] = {d \in EdgeSet : Edges[d].to = n}
        BY <4>1, Graph
      <4>3. QED
        BY <4>2, Graph
    <3> DEFINE f == Edges[e].from
    <3>3. rank[f] < rank[n] /\ rank[f] \in 1 .. Len(Nodes)
      BY <3>2, <1>2
    <3>4. f \in g[rank[f]]
      <4>1. ~(rank[n] <= rank[f])
        BY <3>3, <2>5
      <4>2. f \notin Missed
        <5> HIDE DEF f, Missed
        <5>1. QED
          BY <4>1, <2>2, <2>3
      <4>3. QED
        BY <4>2, <3>1, <3>2
    <3>5. g[rank[f]] \subseteq g[rank[n] - 1]
      <4>1. rank[f] \in 0 .. Len(Nodes) /\ rank[n] - 1 \in rank[f] .. Len(Nodes)
        BY <3>3, <2>5, Graph
      <4> HIDE DEF f
      <4>2. QED
        BY <4>1, <1>1, ReachesGrow
    <3>6. n \in g[rank[n]]
      BY <3>1, <3>2, <3>4, <3>5, <2>5, <1>1 DEF Reaches
    <3>7. QED
      BY <3>6, <2>4
  <2>8. QED
    BY <2>6, <2>7
<1>8. \A n \in NodeSet : g[rank[n]] \subseteq g[Len(Nodes)]
  <2>1. SUFFICES ASSUME NEW n \in NodeSet PROVE g[rank[n]] \subseteq g[Len(Nodes)]
    OBVIOUS
  <2>2. rank[n] \in 0 .. Len(Nodes) /\ Len(Nodes) \in rank[n] .. Len(Nodes)
    BY Graph
  <2>3. QED
    BY <2>2, <1>1, ReachesGrow
<1>9. Len(Nodes) \in 0 .. Len(Nodes) /\ g[Len(Nodes)] \subseteq NodeSet
  BY Graph
<1>10. QED
  BY <1>1, <1>6, <1>7, <1>8, <1>9

LEMMA SkippedAsDecided == IInv => SkipsWhatItShould
<1> SUFFICES ASSUME IInv, run = "done", ~canceled
             PROVE  LET heldUp == {Edges[e].to : e \in {d \in EdgeSet :
                                     /\ Edges[d].from \in OnTheWay \ lenient
                                     /\ status[Edges[d].from] # "success"}}
                    IN {n \in NodeSet : status[n] = "skipped"}
                       = (NodeSet \ OnTheWay) \cup heldUp
  BY DEF SkipsWhatItShould
<1> DEFINE heldUp == {Edges[e].to : e \in {d \in EdgeSet :
                        /\ Edges[d].from \in OnTheWay \ lenient
                        /\ status[Edges[d].from] # "success"}}
<1>1. OnTheWay = NodeSet \ offBranch
  BY WayTaken
<1>2. \A n \in NodeSet : /\ n \in offBranch <=> OffWay(n)
                         /\ status[n] = "skipped" <=> OffWay(n) \/ Blocked(n)
  BY DEF IInv, DecisionsStand, DoneIsSettled, Pending
<1>3. ASSUME NEW n \in NodeSet PROVE n \in heldUp <=> Blocked(n)
  <2>1. ASSUME Blocked(n) PROVE n \in heldUp
    <3>1. PICK e \in Live(n) : status[Edges[e].from] # "success" /\ Edges[e].from \notin lenient
      BY <2>1 DEF Blocked
    <3>2. e \in EdgeSet /\ Edges[e].to = n /\ Edges[e].from \in NodeSet \ offBranch
      BY Graph DEF Live, OffBranchEdge
    <3>3. QED
      BY <3>1, <3>2, <1>1
  <2>2. ASSUME n \in heldUp PROVE Blocked(n)
    <3>1. PICK e \in EdgeSet : /\ Edges[e].from \in OnTheWay \ lenient
                               /\ status[Edges[e].from] # "success"
                               /\ n = Edges[e].to
      BY <2>2
    <3>2. e \in Live(n)
      BY <3>1, <1>1, Graph DEF Live, OffBranchEdge
    <3>3. QED
      BY <3>1, <3>2 DEF Blocked
  <2>3. QED
    BY <2>1, <2>2
<1>4. heldUp \subseteq NodeSet
  BY Graph
<1> HIDE DEF heldUp
<1>5. {n \in NodeSet : status[n] = "skipped"} = (NodeSet \ OnTheWay) \cup heldUp
  BY <1>1, <1>2, <1>3, <1>4
<1>6. QED
  BY <1>5 DEF heldUp

\* Whatever the automation and however its nodes end: a run that is not canceled
\* skips the nodes off the way its Ifs went and those a failure on the way holds up,
\* and no others (engine.ts:585-601).
THEOREM SkipsExactly == Spec => []SkipsWhatItShould
<1>1. QED
  BY Invariance, SkippedAsDecided, PTL

\* Never more nodes at work than maxParallel, never a second dial (engine.ts:466-474,
\* 676-687).
THEOREM LimitsKept == Spec => []SharesWithinLimits
<1>1. IInv => SharesWithinLimits
  <2> SUFFICES ASSUME IInv PROVE SharesWithinLimits
    OBVIOUS
  <2> DEFINE W == {n \in NodeSet : status[n] \in Working}
  <2>1. W \in SUBSET running
    BY DEF IInv, RunningAreStarted
  <2>2. IsFiniteSet(running)
    BY RunningFinite DEF IInv
  <2> HIDE DEF W
  <2>3. Cardinality(W) <= Cardinality(running) /\ Cardinality(W) \in Nat
        /\ Cardinality(running) \in Nat
    BY <2>1, <2>2, FS_Subset, FS_CardinalityType
  <2>4. Cardinality(running) <= Limit /\ dials <= 1
    BY DEF IInv, RunningAreStarted, OneDial
  <2>5. Cardinality(W) <= Limit
    BY <2>3, <2>4, AutomationAssumptions
  <2>6. QED
    BY <2>4, <2>5 DEF SharesWithinLimits, W
<1>2. QED
  BY <1>1, Invariance, PTL

\* No node begins its work once the run is canceled (engine.ts:569-572).
THEOREM NothingStartsCanceled == Spec => CancelStartsNothing
<1> DEFINE StaysOut == canceled => \A n \in NodeSet : status[n] = "pending" => status'[n] \notin Working
<1>1. ASSUME NEW R, NEW P, StartReady(R, P), canceled PROVE StaysOut
  <2>1. PICK S : status' = [n \in NodeSet |-> IF n \in S THEN StartOf(n) ELSE status[n]]
    BY <1>1 DEF StartReady
  <2>2. \A n \in NodeSet : StartOf(n) = "skipped"
    BY <1>1 DEF StartOf
  <2>3. QED
    BY <2>1, <2>2
<1>2. IInv /\ [Next]_vars => StaysOut
  <2> SUFFICES ASSUME IInv, [Next]_vars, canceled PROVE StaysOut
    OBVIOUS
  <2>1. CASE Begin
    BY <2>1, <1>1 DEF Begin
  <2>2. ASSUME NEW n \in NodeSet, Reap(n) PROVE StaysOut
    BY <2>2, <1>1 DEF Reap
  <2>3. ASSUME NEW n \in NodeSet, HostReady(n) \/ NodeEnds(n) PROVE StaysOut
    BY <2>3 DEF HostReady, NodeEnds, IInv, TypeOK
  <2>4. CASE ConnectSettles \/ Cancel \/ End \/ UNCHANGED vars
    BY <2>4 DEF ConnectSettles, Cancel, End, vars
  <2>5. QED
    BY <2>1, <2>2, <2>3, <2>4 DEF Next, Over
<1> HIDE DEF StaysOut
<1>3. Spec => [][StaysOut]_vars
  BY <1>2, Invariance, PTL DEF Spec
<1>4. QED
  BY <1>3 DEF CancelStartsNothing, StaysOut

-----------------------------------------------------------------------------
(* The work of one step *)

\* A success is the last word, and no one stops an upload.
StepInv ==
  /\ step \in {"success", "yes"} => work = "settled" /\ stopped = "none"
  /\ kind = "upload" => ~timer /\ stopped = "none"

LEMMA SettlesWell ==
  ASSUME StepInv, NEW ok \in BOOLEAN, Work!Settles(ok), ok => stopped = "none",
         work # "settled", UNCHANGED <<kind, stopped>>
  PROVE  StepInv'
BY DEF StepInv, Work!Settles

LEMMA StepInvStep == StepInv /\ [Work!WorkNext]_(Work!workVars) => StepInv'
<1> SUFFICES ASSUME StepInv, [Work!WorkNext]_(Work!workVars) PROVE StepInv'
  OBVIOUS
<1> USE DEF StepInv, Work!Local, Work!OnHost, Work!InWsl
<1>1. CASE Work!Start
  BY <1>1 DEF Work!Start
<1>2. CASE Work!SpawnFails
  BY <1>2, SettlesWell DEF Work!SpawnFails
<1>3. CASE Work!Opens
  <2>1. UNCHANGED <<kind, stopped>> /\ work = "opening"
    BY <1>3 DEF Work!Opens
  <2>2. CASE Work!Settles(FALSE)
    BY <2>1, <2>2, SettlesWell
  <2>3. CASE ~Work!Settles(FALSE)
    <3>1. work' = "going" /\ step' = step /\ (kind = "upload" => timer' = timer)
      BY <1>3, <2>3 DEF Work!Opens
    <3>2. QED
      BY <2>1, <3>1
  <2>4. QED
    BY <2>2, <2>3
<1>4. CASE Work!OpenFails
  BY <1>4, SettlesWell DEF Work!OpenFails
<1>5. CASE Work!TimesOut
  BY <1>5 DEF Work!TimesOut, Work!Stop, Work!LetsGo
<1>6. CASE Work!TooMuchOutput
  BY <1>6 DEF Work!TooMuchOutput, Work!Stop, Work!LetsGo
<1>7. CASE Work!Abort
  BY <1>7 DEF Work!Abort, Work!Stop
<1>8. CASE Work!Closes
  <2>1. Work!Succeeded \in BOOLEAN /\ (Work!Succeeded => stopped = "none")
    BY DEF Work!Succeeded
  <2>2. QED
    BY <1>8, <2>1, SettlesWell DEF Work!Closes
<1>9. CASE Work!ChannelErrs
  BY <1>9, SettlesWell DEF Work!ChannelErrs
<1>10. CASE Work!TransferEnds
  BY <1>10, SettlesWell DEF Work!TransferEnds
<1>11. CASE Work!Spawns \/ Work!ShellExits \/ Work!RestEnds \/ Work!EndArrives \/ Work!LineGoes
  BY <1>11 DEF Work!Spawns, Work!ShellExits, Work!RestEnds, Work!EndArrives, Work!LineGoes
<1>12. CASE UNCHANGED Work!workVars
  BY <1>12 DEF Work!workVars
<1>13. CASE Work!Over
  BY <1>13 DEF Work!Over, Work!workVars
<1>14. QED
  BY <1>1, <1>2, <1>3, <1>4, <1>5, <1>6, <1>7, <1>8, <1>9, <1>10, <1>11, <1>12, <1>13
  DEF Work!WorkNext

\* Whatever the step is and however its timeout, its output, the cancel and the host
\* race: work that was stopped is no success (session.ts:230-236, localExec.ts:126).
THEOREM StoppedNeverSucceeds == Work!WorkSpec => []StoppedIsNoSuccess
<1>1. Work!WorkInit => StepInv
  BY DEF Work!WorkInit, StepInv
<1>2. StepInv => StoppedIsNoSuccess
  BY DEF StepInv, StoppedIsNoSuccess, Work!StoppedIsNoSuccess
<1>3. QED
  BY <1>1, <1>2, StepInvStep, PTL DEF Work!WorkSpec

-----------------------------------------------------------------------------
(* Downloads to one name *)

\* As long as no two share the file: who writes it is alone with it, has written all
\* up to where it is, and what has its name is whole.
DownloadInv ==
  /\ part_ \in Downloads \cup {0} /\ dest \in Downloads \cup {0}
  /\ got \in [Downloads -> {"idle", "asked", "saving", "done", "failed"}]
  /\ pos \in [Downloads -> 0 .. Blocks] /\ into \in [Downloads -> Downloads \cup {0}]
  /\ DOMAIN files = Downloads
  /\ \A d \in Downloads : got[d] \in {"idle", "asked"} => pos[d] = 0
  /\ ~shared =>
       /\ part_ # 0 => got[part_] = "saving"
       /\ \A d \in Downloads : got[d] = "saving" =>
            part_ = d /\ into[d] = d /\ files[d] = [i \in 1 .. pos[d] |-> d]
       /\ dest # 0 => got[dest] = "done" /\ files[dest] = [i \in 1 .. Blocks |-> dest]

LEMMA DownloadInvStep ==
  ASSUME DownloadInv, [GitHub!GitHubNext]_(GitHub!githubVars)
  PROVE  DownloadInv'
<1> USE DEF DownloadInv
<1>1. ASSUME NEW d \in Downloads, GitHub!Asks(d) \/ GitHub!AskFails(d) PROVE DownloadInv'
  <2>1. CASE GitHub!Asks(d)
    BY <1>1, <2>1 DEF GitHub!Asks
  <2>2. CASE GitHub!AskFails(d)
    BY <1>1, <2>2 DEF GitHub!AskFails
  <2>3. QED
    BY <1>1, <2>1, <2>2
<1>2. ASSUME NEW d \in Downloads, GitHub!Opens(d) PROVE DownloadInv'
  <2>1. CASE shared'
    BY <1>2, <2>1, DownloadAssumptions DEF GitHub!Opens
  <2>2. CASE ~shared'
    <3>1. /\ ~shared /\ part_ = 0 /\ part_' = d /\ got[d] = "asked" /\ pos[d] = 0
          /\ got' = [got EXCEPT ![d] = "saving"] /\ into' = [into EXCEPT ![d] = d]
          /\ files' = [files EXCEPT ![d] = <<>>] /\ UNCHANGED <<pos, dest>>
      BY <1>2, <2>2 DEF GitHub!Opens
    <3>2. [i \in 1 .. 0 |-> d] = <<>>
      OBVIOUS
    <3>3. \A e \in Downloads : got[e] # "saving"
      BY <3>1, DownloadAssumptions
    <3>4. dest # d
      BY <3>1
    <3>5. d # 0
      BY DownloadAssumptions
    <3>6. \A e \in Downloads : got'[e] = "saving" => e = d
      BY <3>1, <3>3
    <3>7. files'[d] = [i \in 1 .. pos'[d] |-> d] /\ into'[d] = d /\ got'[d] = "saving"
      BY <3>1, <3>2
    <3>8. dest' # 0 => got'[dest'] = "done" /\ files'[dest'] = [i \in 1 .. Blocks |-> dest']
      BY <3>1, <3>4
    <3>9. QED
      BY <3>1, <3>5, <3>6, <3>7, <3>8
  <2>3. QED
    BY <2>1, <2>2
<1>3. ASSUME NEW d \in Downloads, GitHub!Writes(d) PROVE DownloadInv'
  <2>1. /\ got[d] = "saving" /\ pos[d] < Blocks /\ pos' = [pos EXCEPT ![d] = @ + 1]
        /\ UNCHANGED <<got, into, part_, dest, shared>>
    BY <1>3 DEF GitHub!Writes
  <2>2. pos[d] \in Nat /\ pos' \in [Downloads -> 0 .. Blocks]
    BY <2>1, DownloadAssumptions
  <2>3. DOMAIN files' = Downloads
    BY <1>3 DEF GitHub!Writes
  <2>4. ASSUME ~shared PROVE files' = [files EXCEPT ![d] = [i \in 1 .. pos'[d] |-> d]]
    <3>1. into[d] = d /\ files[d] = [i \in 1 .. pos[d] |-> d]
      BY <2>1, <2>4
    <3>2. Len(files[d]) = pos[d]
      BY <3>1, <2>2
    <3> DEFINE old == files[into[d]]
               n == IF Len(old) > pos[d] THEN Len(old) ELSE pos[d] + 1
    <3>3. files' = [files EXCEPT ![d] =
                      [i \in 1 .. pos[d] + 1 |-> IF i = pos[d] + 1 THEN d
                         ELSE IF i <= Len(files[d]) THEN files[d][i] ELSE GitHub!Hole]]
      <4>1. files' = [files EXCEPT ![into[d]] =
                        [i \in 1 .. n |-> IF i = pos[d] + 1 THEN d
                           ELSE IF i <= Len(old) THEN old[i] ELSE GitHub!Hole]]
        BY <1>3 DEF GitHub!Writes
      <4>2. n = pos[d] + 1
        BY <3>1, <3>2, <2>2
      <4> HIDE DEF n
      <4>3. QED
        BY <4>1, <4>2, <3>1
    <3>4. [i \in 1 .. pos[d] + 1 |-> IF i = pos[d] + 1 THEN d
             ELSE IF i <= Len(files[d]) THEN files[d][i] ELSE GitHub!Hole]
          = [i \in 1 .. pos[d] + 1 |-> d]
      BY <3>1, <3>2, <2>2
    <3>5. pos'[d] = pos[d] + 1
      BY <2>1, <2>2
    <3>6. QED
      BY <3>3, <3>4, <3>5
  <2>5. CASE shared
    BY <2>1, <2>2, <2>3, <2>5
  <2>6. CASE ~shared
    <3>1. \A e \in Downloads : got[e] = "saving" => e = d
      BY <2>1, <2>6
    <3>2. files'[d] = [i \in 1 .. pos'[d] |-> d]
      BY <2>4, <2>6
    <3>3. dest # 0 => dest # d /\ files'[dest] = files[dest]
      BY <2>1, <2>4, <2>6
    <3>4. QED
      BY <2>1, <2>2, <2>3, <2>6, <3>1, <3>2, <3>3
  <2>7. QED
    BY <2>5, <2>6
<1>4. ASSUME NEW d \in Downloads, GitHub!Saved(d) PROVE DownloadInv'
  <2>1. /\ got[d] = "saving" /\ pos[d] = Blocks /\ part_' = 0
        /\ dest' = IF part_ = 0 THEN dest ELSE part_
        /\ got' = [got EXCEPT ![d] = IF part_ = 0 THEN "failed" ELSE "done"]
        /\ UNCHANGED <<pos, into, files, shared>>
    BY <1>4 DEF GitHub!Saved
  <2>2. CASE shared
    BY <2>1, <2>2
  <2>3. CASE ~shared
    <3>1. part_ = d /\ d # 0 /\ \A e \in Downloads : got[e] = "saving" => e = d
      BY <2>1, <2>3, DownloadAssumptions
    <3>2. dest' = d /\ got' = [got EXCEPT ![d] = "done"]
          /\ files'[d] = [i \in 1 .. Blocks |-> d]
      BY <2>1, <2>3, <3>1
    <3>3. QED
      BY <2>1, <2>3, <3>1, <3>2
  <2>4. QED
    BY <2>2, <2>3
<1>5. ASSUME NEW d \in Downloads, GitHub!Breaks(d) PROVE DownloadInv'
  <2>1. /\ got[d] = "saving" /\ part_' = 0 /\ got' = [got EXCEPT ![d] = "failed"]
        /\ UNCHANGED <<pos, into, files, dest, shared>>
    BY <1>5 DEF GitHub!Breaks
  <2>2. ~shared => dest # d /\ \A e \in Downloads : got[e] = "saving" => e = d
    BY <2>1, DownloadAssumptions
  <2>3. QED
    BY <2>1, <2>2
<1>6. ASSUME UNCHANGED GitHub!downloadVars PROVE DownloadInv'
  BY <1>6 DEF GitHub!downloadVars
<1>7. GitHub!FollowNext => UNCHANGED GitHub!downloadVars
  BY DEF GitHub!FollowNext, GitHub!Tick, GitHub!StrayRun, GitHub!IsReleased,
         GitHub!RunGoesOn, GitHub!Begin, GitHub!KnowsItsUser, GitHub!Dispatched,
         GitHub!RunAppears, GitHub!Finds, GitHub!Looks, GitHub!Answers,
         GitHub!RequestFails, GitHub!Late, GitHub!Cancel
<1>8. ASSUME NEW d \in Downloads, GitHub!Cancel(d) PROVE UNCHANGED GitHub!downloadVars
  BY <1>8 DEF GitHub!Cancel
<1>9. UNCHANGED GitHub!githubVars => UNCHANGED GitHub!downloadVars
  BY DEF GitHub!githubVars
<1>10. QED
  BY <1>1, <1>2, <1>3, <1>4, <1>5, <1>6, <1>7, <1>8, <1>9
  DEF GitHub!GitHubNext, GitHub!DownloadNext

\* However many downloads of a name there are, one after the other, and wherever they
\* break off: what has the name is whole (client.ts:227-228).
THEOREM BrokenStaysUnfinished == GitHub!GitHubSpec => []BrokenNeverLooksFinished
<1>1. GitHub!GitHubInit => DownloadInv
  BY DownloadAssumptions DEF GitHub!GitHubInit, DownloadInv
<1>2. DownloadInv => BrokenNeverLooksFinished
  BY DEF DownloadInv, BrokenNeverLooksFinished, GitHub!BrokenNeverLooksFinished, GitHub!Whole
<1>3. DownloadInv /\ [GitHub!GitHubNext]_(GitHub!githubVars) => DownloadInv'
  BY DownloadInvStep
<1>4. QED
  BY <1>1, <1>2, <1>3, PTL DEF GitHub!GitHubSpec
=============================================================================
