---------------------------- MODULE LeastNumbers ----------------------------
(* Least elements, and what follows from them in place of induction.       *)
EXTENDS Integers, FiniteSetTheorems, TLAPS

\* A non-empty set of finite sets has a member no other is strictly within.
LEMMA SmallestSet ==
  ASSUME NEW T, T # {}, \A t \in T : IsFiniteSet(t)
  PROVE  \E x \in T : \A y \in T : y \subseteq x => y = x
<1> DEFINE S == UNION T
<1>1. T \subseteq FiniteSubsetsOf(S)
  BY DEF FiniteSubsetsOf
<1>2. PICK x \in T : \A y \in T : <<y, x>> \notin StrictSubsetOrdering(S)
  <2> HIDE DEF S
  <2> QED
    BY <1>1, FS_StrictSubsetOrderingWellFounded, WFMin
<1> QED
  BY <1>2 DEF StrictSubsetOrdering

\* A non-empty set of natural numbers has a least element.
LEMMA LeastNat ==
  ASSUME NEW T \in SUBSET Nat, T # {}
  PROVE  \E x \in T : \A y \in T : x <= y
<1> DEFINE Below(n) == 0..n
           Sets == {Below(n) : n \in T}
<1>1. \A n \in T : IsFiniteSet(Below(n))
  <2> TAKE n \in T
  <2>1. 0 \in Int /\ n \in Int
    OBVIOUS
  <2> QED
    BY <2>1, FS_Interval
<1>2. Sets # {} /\ \A t \in Sets : IsFiniteSet(t)
  BY <1>1
<1>5. PICK t \in Sets : \A u \in Sets : u \subseteq t => u = t
  <2> HIDE DEF Sets
  <2> QED
    BY <1>2, SmallestSet
<1>3. PICK x \in T : t = Below(x)
  BY <1>5
<1>4. ASSUME NEW y \in T, y < x PROVE FALSE
  <2>1. Below(y) \subseteq Below(x) /\ x \in Below(x) /\ x \notin Below(y)
    BY <1>4
  <2> QED
    BY <2>1, <1>5, <1>3
<1> QED
  BY <1>4

\* Counting up: what holds at 0 and at every next number holds up to n.
LEMMA CountUp ==
  ASSUME NEW n \in Nat, NEW Good, 0 \in Good,
         \A j \in 1..n : j - 1 \in Good => j \in Good
  PROVE  \A j \in 0..n : j \in Good
<1> DEFINE Bad == {j \in 0..n : j \notin Good}
<1>1. SUFFICES ASSUME Bad # {} PROVE FALSE
  OBVIOUS
<1>2. Bad \in SUBSET Nat
  OBVIOUS
<1>3. PICK j \in Bad : \A k \in Bad : j <= k
  <2> HIDE DEF Bad
  <2> QED
    BY <1>1, <1>2, LeastNat
<1>4. j \in 1..n /\ j - 1 \notin Bad
  BY <1>3
<1> QED
  BY <1>3, <1>4

\* f starts with b and takes one step after the other, each within its set.
Runs(f, n, b, Stage, step) ==
    /\ f = [j \in 0..n |-> f[j]]
    /\ \A j \in 0..n : /\ f[j] \in Stage[j]
                      /\ f[j] = IF j = 0 THEN b ELSE step[j][f[j - 1]]

\* Such a function exists, as long as every step leads from a set to the next.
LEMMA Iterates ==
  ASSUME NEW n \in Nat, NEW b, NEW Stage, NEW step, b \in Stage[0],
         \A j \in 1..n : \A x \in Stage[j - 1] : step[j][x] \in Stage[j]
  PROVE  \E f : Runs(f, n, b, Stage, step)
<1> DEFINE Upto(m, f) ==
              \A j \in 0..m : /\ f[j] \in Stage[j]
                              /\ f[j] = IF j = 0 THEN b ELSE step[j][f[j - 1]]
           Good == {m \in 0..n : \E f : Upto(m, f)}
<1>1. 0 \in Good
  <2>1. Upto(0, [j \in 0..0 |-> b])
    OBVIOUS
  <2>2. \E f : Upto(0, f)
    <3> HIDE DEF Upto
    <3> QED
      BY <2>1
  <2> QED
    BY <2>2
<1>2. ASSUME NEW m \in 1..n, m - 1 \in Good PROVE m \in Good
  <2>1. PICK f : Upto(m - 1, f)
    <3> HIDE DEF Upto
    <3> QED
      BY <1>2
  <2> DEFINE g == [j \in 0..m |-> IF j = m THEN step[m][f[m - 1]] ELSE f[j]]
  <2>2. (\A j \in 0..(m - 1) : g[j] = f[j]) /\ g[m] = step[m][f[m - 1]]
    OBVIOUS
  <2> HIDE DEF g
  <2>3. \A j \in 0..m :
           /\ g[j] \in Stage[j]
           /\ g[j] = IF j = 0 THEN b ELSE step[j][g[j - 1]]
    <3> SUFFICES ASSUME NEW j \in 0..m
                 PROVE  /\ g[j] \in Stage[j]
                        /\ g[j] = IF j = 0 THEN b ELSE step[j][g[j - 1]]
      OBVIOUS
    <3>1. CASE j = m
      <4>1. f[m - 1] \in Stage[m - 1] /\ g[m - 1] = f[m - 1]
        BY <2>1, <2>2
      <4> QED
        BY <2>2, <3>1, <4>1
    <3>2. CASE j # m
      <4>1. j \in 0..(m - 1)
        BY <3>2
      <4> QED
        BY <2>1, <2>2, <4>1
    <3> QED
      BY <3>1, <3>2
  <2>4. \E h : Upto(m, h)
    BY <2>3
  <2> QED
    <3> HIDE DEF Upto
    <3> QED
      BY <2>4
<1>3. n \in Good
  <2> HIDE DEF Good
  <2> QED
    BY <1>1, <1>2, CountUp
<1>4. PICK f : Upto(n, f)
  <2> HIDE DEF Upto
  <2> QED
    BY <1>3
<1> DEFINE g == [j \in 0..n |-> f[j]]
<1>5. \A j \in 0..n : g[j] = f[j]
  OBVIOUS
<1>6. \A j \in 0..n : g[j] = IF j = 0 THEN b ELSE step[j][g[j - 1]]
  <2> HIDE DEF g
  <2> QED
    BY <1>4, <1>5
<1>7. g = [j \in 0..n |-> g[j]]
  OBVIOUS
<1> HIDE DEF g
<1>8. Runs(g, n, b, Stage, step)
  BY <1>4, <1>5, <1>6, <1>7 DEF Runs
<1> QED
  BY <1>8
=============================================================================
