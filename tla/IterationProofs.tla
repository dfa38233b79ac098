-------------------------- MODULE IterationProofs --------------------------
(***************************************************************************)
(* What a loop body preserves, the loop preserves.                         *)
(***************************************************************************)
EXTENDS Iteration, FiniteSets, FiniteSetTheorems, TLAPS

(* Induction over the naturals as a fact about a set: the library states   *)
(* induction for an operator, which no prover here can instantiate.  The   *)
(* intervals 1..k stand for the numbers k, because strict inclusion of     *)
(* finite sets is a well-founded order the library offers as a set.        *)
LEMMA SetInduction ==
  ASSUME NEW P, 0 \in P, \A k \in Nat : k \in P => k + 1 \in P
  PROVE  Nat \subseteq P
<1> DEFINE T == {1..k : k \in {j \in Nat : j \notin P}}
<1>1. SUFFICES ASSUME T # {} PROVE FALSE
  OBVIOUS
<1>2. T \subseteq FiniteSubsetsOf(Nat)
  <2>1. \A k \in Nat : IsFiniteSet(1..k)
    BY FS_Interval
  <2> QED BY <2>1 DEF FiniteSubsetsOf
<1>3. IsWellFoundedOn(StrictSubsetOrdering(Nat), FiniteSubsetsOf(Nat))
  BY FS_StrictSubsetOrderingWellFounded
<1>4. PICK X \in T : \A Y \in T : ~ (<<Y, X>> \in StrictSubsetOrdering(Nat))
  BY <1>1, <1>2, <1>3, WFMin
<1>5. PICK k \in Nat : k \notin P /\ X = 1..k
  BY <1>4
<1>6. k # 0 /\ k - 1 \in Nat
  BY <1>5
<1>7. k - 1 \notin P
  BY <1>5, <1>6, (k - 1) + 1 = k
<1>8. 1..(k - 1) \in T
  BY <1>6, <1>7
<1>9. <<1..(k - 1), X>> \in StrictSubsetOrdering(Nat)
  <2>1. 1..(k - 1) \subseteq X /\ k \in X /\ k \notin 1..(k - 1)
    BY <1>5, <1>6
  <2>2. X \subseteq Nat
    BY <1>5
  <2> QED BY <2>1, <2>2 DEF StrictSubsetOrdering
<1> QED BY <1>4, <1>8, <1>9

(* The recursive equation that defines a loop of n rounds.                 *)
IsRun(r, F, start, n) ==
  r = [i \in 0..n |-> IF i = 0 THEN start ELSE F[i][r[i - 1]]]

(* A loop of n rounds is well defined: the function the definition of      *)
(* Iterate chooses exists.                                                 *)
LEMMA IterateDefined ==
  ASSUME NEW F, NEW start, NEW n \in Nat
  PROVE  \E r : IsRun(r, F, start, n)
<1> DEFINE Body(r, i) == IF i = 0 THEN start ELSE F[i][r[i - 1]]
           P == {k \in Nat : \E r : r = [i \in 0..k |-> Body(r, i)]}
<1>1. 0 \in P
  <2> DEFINE r == [i \in 0..0 |-> start]
  <2>1. r = [i \in 0..0 |-> Body(r, i)]
    OBVIOUS
  <2> QED BY <2>1
<1>2. ASSUME NEW k \in Nat, k \in P PROVE k + 1 \in P
  <2>1. PICK q : q = [i \in 0..k |-> Body(q, i)]
    BY <1>2
  <2> DEFINE r == [i \in 0..(k + 1) |-> IF i = k + 1 THEN F[k + 1][q[k]] ELSE q[i]]
  <2>2. \A i \in 0..k : r[i] = q[i]
    OBVIOUS
  <2>3. \A i \in 0..k : r[i] = Body(r, i)
    <3>1. SUFFICES ASSUME NEW i \in 0..k PROVE r[i] = Body(r, i)
      OBVIOUS
    <3>2. q[i] = Body(q, i)
      BY <2>1
    <3>3. i # 0 => i - 1 \in 0..k
      OBVIOUS
    <3> HIDE DEF r
    <3> QED BY <2>2, <3>2, <3>3
  <2>4. r[k + 1] = Body(r, k + 1)
    <3>1. r[k + 1] = F[k + 1][q[k]] /\ r[k] = q[k]
      BY <2>2
    <3>2. k + 1 # 0 /\ (k + 1) - 1 = k
      OBVIOUS
    <3> HIDE DEF r
    <3> QED BY <3>1, <3>2
  <2>5. r = [i \in 0..(k + 1) |-> r[i]]
    OBVIOUS
  <2>6. r = [i \in 0..(k + 1) |-> Body(r, i)]
    <3> HIDE DEF r, Body
    <3>1. \A i \in 0..(k + 1) : i \in 0..k \/ i = k + 1
      OBVIOUS
    <3>2. \A i \in 0..(k + 1) : r[i] = Body(r, i)
      BY <2>3, <2>4, <3>1
    <3> QED BY <2>5, <3>2
  <2> HIDE DEF r
  <2> QED BY <2>6
<1>3. n \in P
  <2> HIDE DEF P
  <2> QED BY <1>1, <1>2, SetInduction
<1> QED BY <1>3 DEF IsRun

(* The loop invariant rule: a set the body maps into itself still holds    *)
(* the loop state after n rounds.                                          *)
LEMMA IterateClosed ==
  ASSUME NEW F, NEW S, NEW start \in S, NEW n \in Nat,
         \A x \in S, i \in 1..n : F[i][x] \in S
  PROVE  Iterate(F, start, n) \in S
<1> DEFINE after == CHOOSE r : r = [i \in 0..n |-> IF i = 0 THEN start ELSE F[i][r[i - 1]]]
           P == {k \in Nat : k \in 0..n => after[k] \in S}
<1>1. after = [i \in 0..n |-> IF i = 0 THEN start ELSE F[i][after[i - 1]]]
  <2>1. IsRun(CHOOSE r : IsRun(r, F, start, n), F, start, n)
    BY IterateDefined
  <2> QED BY <2>1 DEF IsRun
<1>2. Iterate(F, start, n) = after[n]
  BY DEF Iterate
<1> HIDE DEF after
<1>3. 0 \in P
  BY <1>1
<1>4. ASSUME NEW k \in Nat, k \in P PROVE k + 1 \in P
  <2>1. SUFFICES ASSUME k + 1 \in 0..n PROVE after[k + 1] \in S
    OBVIOUS
  <2>2. k \in 0..n /\ k + 1 \in 1..n /\ (k + 1) - 1 = k /\ k + 1 # 0
    BY <2>1
  <2>3. after[k + 1] = F[k + 1][after[k]]
    BY <1>1, <2>1, <2>2
  <2> QED BY <1>4, <2>2, <2>3
<1>5. n \in P
  <2> HIDE DEF P
  <2> QED BY <1>3, <1>4, SetInduction
<1> QED BY <1>2, <1>5

(* The same when what holds depends on the rounds made: S[i] holds the     *)
(* loop states after i of them.                                            *)
LEMMA IterateStages ==
  ASSUME NEW F, NEW S, NEW start \in S[0], NEW n \in Nat,
         \A i \in 1..n : \A x \in S[i - 1] : F[i][x] \in S[i]
  PROVE  Iterate(F, start, n) \in S[n]
<1> DEFINE after == CHOOSE r : r = [i \in 0..n |-> IF i = 0 THEN start ELSE F[i][r[i - 1]]]
           P == {k \in Nat : k \in 0..n => after[k] \in S[k]}
<1>1. after = [i \in 0..n |-> IF i = 0 THEN start ELSE F[i][after[i - 1]]]
  <2>1. IsRun(CHOOSE r : IsRun(r, F, start, n), F, start, n)
    BY IterateDefined
  <2> QED BY <2>1 DEF IsRun
<1>2. Iterate(F, start, n) = after[n]
  BY DEF Iterate
<1> HIDE DEF after
<1>3. 0 \in P
  BY <1>1
<1>4. ASSUME NEW k \in Nat, k \in P PROVE k + 1 \in P
  <2>1. SUFFICES ASSUME k + 1 \in 0..n PROVE after[k + 1] \in S[k + 1]
    OBVIOUS
  <2>2. k \in 0..n /\ k + 1 \in 1..n /\ (k + 1) - 1 = k /\ k + 1 # 0
    BY <2>1
  <2>3. after[k + 1] = F[k + 1][after[k]]
    BY <1>1, <2>1, <2>2
  <2>4. after[k] \in S[(k + 1) - 1]
    BY <1>4, <2>2
  <2>5. F[k + 1][after[k]] \in S[k + 1]
    BY <2>2, <2>4
  <2> QED BY <2>3, <2>5
<1>5. n \in P
  <2> HIDE DEF P
  <2> QED BY <1>3, <1>4, SetInduction
<1> QED BY <1>2, <1>5

=============================================================================
