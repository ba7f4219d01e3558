--------------------------- MODULE RecursionProofs ---------------------------
(* Induction over the numbers, and the functions that are defined by         *)
(* recursion along a list.                                                   *)
EXTENDS Naturals, WellFoundedInduction, TLAPS

--------------------------------------------------------------------------
\* Induction over lists and the functions defined by recursion along them

\* The order of the numbers, as the set of its pairs.
BelowPairs == {pair \in Nat \X Nat : pair[1] < pair[2]}

\* The numbers are well founded.
LEMMA BelowIsWellFounded == IsWellFoundedOn(BelowPairs, Nat)
BY NatLessThanWellFounded DEF OpToRel, BelowPairs

\* A set of numbers that is not empty has a least one.
LEMMA LeastNumber ==
    ASSUME NEW T, T \subseteq Nat, T # {}
    PROVE  \E x \in T : \A y \in T : x <= y
<1>1. PICK x \in T : \A y \in T : ~(<<y, x>> \in BelowPairs)
  BY BelowIsWellFounded, WFMin, Zenon
<1>2. SUFFICES ASSUME NEW y \in T PROVE x <= y
  BY <1>1
<1>3. x \in Nat /\ y \in Nat
  BY <1>1
<1>4. y < x => <<y, x>> \in BelowPairs
  BY <1>3 DEF BelowPairs
<1> QED BY <1>1, <1>3, <1>4

\* What holds of 0, and of a number when it holds of the one before, holds up to n.
LEMMA CountUp ==
    ASSUME NEW n \in Nat, NEW S, 0 \in S,
           \A k \in 1..n : k - 1 \in S => k \in S
    PROVE  \A k \in 0..n : k \in S
<1> DEFINE T == {k \in 0..n : k \notin S}
<1>1. SUFFICES ASSUME T # {} PROVE FALSE
  OBVIOUS
<1>2. T \subseteq Nat
  OBVIOUS
<1>3. PICK x \in T : \A y \in T : x <= y
  BY <1>1, <1>2, LeastNumber
<1>4. x \in 1..n /\ x \notin S
  BY <1>3
<1>5. x - 1 \in 0..n /\ ~(x <= x - 1)
  BY <1>4
<1>6. x - 1 \in S
  BY <1>3, <1>5
<1> QED BY <1>4, <1>6

\* One iteration after the other.
Iterates(f, n, first, step) ==
    f = [r \in 0..n |-> IF r = 0 THEN first ELSE step[<<f[r - 1], r>>]]

\* A recursion from first by step has its values, as a function on 0..n.
LEMMA IteratesExist ==
    ASSUME NEW n \in Nat, NEW V, NEW first \in V, NEW step \in [V \X (1..n) -> V]
    PROVE  \E f \in [0..n -> V] : Iterates(f, n, first, step)
<1> DEFINE S == {m \in 0..n : \E f \in [0..m -> V] : Iterates(f, m, first, step)}
<1>1. 0 \in S
  <2> DEFINE f == [r \in 0..0 |-> first]
  <2>1. f \in [0..0 -> V]
    OBVIOUS
  <2>2. f = [r \in 0..0 |-> IF r = 0 THEN first ELSE step[<<f[r - 1], r>>]]
    OBVIOUS
  <2>3. Iterates(f, 0, first, step)
    BY <2>2 DEF Iterates
  <2> QED BY <2>1, <2>3
<1>2. ASSUME NEW m \in 1..n, m - 1 \in S PROVE m \in S
  <2>1. PICK f \in [0..(m - 1) -> V] : Iterates(f, m - 1, first, step)
    BY <1>2
  <2>2. m - 1 \in 0..(m - 1)
    OBVIOUS
  <2>3. f[m - 1] \in V /\ step[<<f[m - 1], m>>] \in V
    BY <2>1, <2>2
  <2> DEFINE g == [r \in 0..m |-> IF r = m THEN step[<<f[m - 1], m>>] ELSE f[r]]
  <2>4. g \in [0..m -> V]
    BY <2>3
  <2>5. ASSUME NEW r \in 0..m
        PROVE  g[r] = IF r = 0 THEN first ELSE step[<<g[r - 1], r>>]
    <3>1. CASE r = m
      <4>1. r # 0 /\ r - 1 \in 0..m /\ r - 1 # m /\ g[r - 1] = f[m - 1]
        BY <3>1
      <4> QED BY <3>1, <4>1
    <3>2. CASE r # m
      <4>1. r \in 0..(m - 1) /\ g[r] = f[r]
        BY <3>2
      <4>2. r # 0 => r - 1 \in 0..m /\ r - 1 # m /\ g[r - 1] = f[r - 1]
        BY <3>2
      <4>3. f[r] = IF r = 0 THEN first ELSE step[<<f[r - 1], r>>]
        BY <2>1, <4>1 DEF Iterates
      <4> QED BY <4>1, <4>2, <4>3
    <3> QED BY <3>1, <3>2
  <2>6. g = [r \in 0..m |-> IF r = 0 THEN first ELSE step[<<g[r - 1], r>>]]
    BY <2>5
  <2>7. Iterates(g, m, first, step)
    BY <2>6 DEF Iterates
  <2> HIDE DEF g
  <2> QED BY <2>4, <2>7
<1>3. n \in 0..n /\ \A k \in 0..n : k \in S
  <2> HIDE DEF S
  <2> QED BY <1>1, <1>2, CountUp
<1> QED BY <1>3

\* A function computed along 0..n, by steps that are those of step on V.
Computes(f, n, first, step, V) ==
    /\ f[0] = first
    /\ \A r \in 1..n : f[r - 1] \in V => f[r] = step[<<f[r - 1], r>>]

\* Its values stay in the set that first and step keep to.
LEMMA IteratesKeepTo ==
    ASSUME NEW n \in Nat, NEW V, NEW first \in V, NEW step \in [V \X (1..n) -> V],
           NEW f, Computes(f, n, first, step, V)
    PROVE  \A r \in 0..n : f[r] \in V
<1> DEFINE S == {r \in 0..n : f[r] \in V}
<1>1. 0 \in S
  BY DEF Computes
<1>2. ASSUME NEW r \in 1..n, r - 1 \in S PROVE r \in S
  <2>1. f[r - 1] \in V
    BY <1>2
  <2>2. step[<<f[r - 1], r>>] \in V
    BY <2>1
  <2>3. f[r] = step[<<f[r - 1], r>>]
    BY <2>1 DEF Computes
  <2> QED BY <2>2, <2>3
<1>3. \A r \in 0..n : r \in S
  <2> HIDE DEF S
  <2> QED BY <1>1, <1>2, CountUp
<1> QED BY <1>3

==============================================================================
