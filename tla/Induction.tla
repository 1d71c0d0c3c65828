------------------------------ MODULE Induction ------------------------------
(***************************************************************************)
(* Induction over the naturals without an operator for a hypothesis, and   *)
(* what it gives: that the recursive functions the models are written with *)
(* exist, so that each value is what its equation says.                    *)
(*                                                                         *)
(* A model's f[k \in 0 .. n] == IF k = 0 THEN a ELSE E(f[k - 1], k) is the *)
(* CHOOSE of a function that satisfies the equation: nothing is known of   *)
(* it before there is one.  Recursion provides it for a step given as a    *)
(* function on a set that the steps do not leave.  Last, two facts about   *)
(* quotients and running sums that the proofs share.                       *)
(***************************************************************************)
EXTENDS Integers, WellFoundedInduction, TLAPS

\* A set of naturals that is not empty has a least element.
LEMMA NatLeast ==
  ASSUME NEW T \in SUBSET Nat, T # {}
  PROVE  \E m \in T : \A k \in T : m <= k
<1>1. PICK m \in T : \A k \in T : ~ (<<k, m>> \in OpToRel(<, Nat))
  BY NatLessThanWellFounded, WFMin
<1>2. \A k \in T : ~(k < m)
  BY <1>1 DEF OpToRel
<1>3. QED
  BY <1>2

\* Induction, the hypothesis given as the set of the numbers it holds of.
LEMMA NatInductionSet ==
  ASSUME NEW T, 0 \in T, \A k \in Nat : k \in T => k + 1 \in T
  PROVE  Nat \subseteq T
<1>1. SUFFICES ASSUME Nat \ T # {} PROVE FALSE
  OBVIOUS
<1>2. PICK m \in Nat \ T : \A k \in Nat \ T : m <= k
  BY <1>1, NatLeast
<1>3. m - 1 \in Nat /\ m - 1 \in T
  BY <1>2
<1>4. QED
  BY <1>2, <1>3

\* Induction as far as n.
LEMMA RangeInduction ==
  ASSUME NEW n \in Nat, NEW T,
         0 \in T, \A k \in 1 .. n : k - 1 \in T => k \in T
  PROVE  0 .. n \subseteq T
<1> DEFINE U == {k \in Nat : k <= n => k \in T}
<1>1. 0 \in U
  OBVIOUS
<1>2. \A k \in Nat : k \in U => k + 1 \in U
  OBVIOUS
<1> HIDE DEF U
<1>3. Nat \subseteq U
  BY <1>1, <1>2, NatInductionSet
<1>4. QED
  BY <1>3 DEF U

\* A start a and n steps that do not leave the set S, and the function that starts
\* with a and takes one of the steps from each value to the next.
StepsFrom(S, a, n, E) == a \in S /\ n \in Nat /\ E \in [1 .. n -> [S -> S]]

Runs(f, S, a, n, E) ==
  f \in [0 .. n -> S] /\ f[0] = a /\ \A k \in 1 .. n : f[k] = E[k][f[k - 1]]

\* There is one for any number of steps.
LEMMA Recursion ==
  ASSUME NEW S, NEW a, NEW n, NEW E, StepsFrom(S, a, n, E)
  PROVE  \E f : Runs(f, S, a, n, E)
<1> USE DEF StepsFrom
<1> DEFINE UpTo(m) == \E f \in [0 .. m -> S] :
                        f[0] = a /\ \A k \in 1 .. m : f[k] = E[k][f[k - 1]]
           T == {m \in Nat : UpTo(m)}
<1>1. 0 \in T
  <2> DEFINE f == [k \in 0 .. 0 |-> a]
  <2>1. f \in [0 .. 0 -> S] /\ f[0] = a /\ 1 .. 0 = {}
    OBVIOUS
  <2> HIDE DEF f
  <2>2. QED
    BY <2>1
<1>2. ASSUME NEW k \in 1 .. n, k - 1 \in T
      PROVE  k \in T
  <2>1. PICK f \in [0 .. k - 1 -> S] :
          f[0] = a /\ \A j \in 1 .. k - 1 : f[j] = E[j][f[j - 1]]
    BY <1>2
  <2> DEFINE g == [j \in 0 .. k |-> IF j = k THEN E[k][f[k - 1]] ELSE f[j]]
  <2>2. \A j \in 0 .. k - 1 : g[j] = f[j]
    OBVIOUS
  <2>3. g[k] = E[k][f[k - 1]] /\ f[k - 1] \in S
    OBVIOUS
  <2>4. g \in [0 .. k -> S]
    BY <2>3
  <2> HIDE DEF g
  <2>5. g[0] = a
    BY <2>1, <2>2
  <2>6. \A j \in 1 .. k : g[j] = E[j][g[j - 1]]
    <3>1. ASSUME NEW j \in 1 .. k PROVE g[j] = E[j][g[j - 1]]
      <4>1. CASE j = k
        BY <4>1, <2>2, <2>3
      <4>2. CASE j # k
        BY <4>2, <2>1, <2>2
      <4>3. QED
        BY <4>1, <4>2
    <3>2. QED
      BY <3>1
  <2>7. QED
    BY <2>4, <2>5, <2>6
<1> HIDE DEF T
<1>3. 0 .. n \subseteq T
  BY <1>1, <1>2, RangeInduction
<1>4. UpTo(n)
  BY <1>3 DEF T
<1>5. QED
  BY <1>4 DEF Runs

\* The same counted from 1, the start being the first value, and downwards, the
\* start being the last.
RunsUp(f, S, a, n, E) ==
  f \in [1 .. n -> S] /\ f[1] = a /\ \A k \in 2 .. n : f[k] = E[k][f[k - 1]]

RunsDown(f, S, a, n, E) ==
  f \in [1 .. n -> S] /\ f[n] = a /\ \A k \in 1 .. n - 1 : f[k] = E[k][f[k + 1]]

\* The two halves of Recursion: a function that counts up exists,
LEMMA RecursionUp ==
  ASSUME NEW S, NEW a, NEW n, NEW E, StepsFrom(S, a, n, E), n # 0
  PROVE  \E f : RunsUp(f, S, a, n, E)
<1> DEFINE m == n - 1
           D == [k \in 1 .. m |-> E[k + 1]]
<1>1. n \in Nat /\ m \in Nat /\ a \in S /\ E \in [1 .. n -> [S -> S]]
  BY DEF StepsFrom
<1>2. D \in [1 .. m -> [S -> S]] /\ \A k \in 1 .. m : D[k] = E[k + 1]
  BY <1>1
<1> HIDE DEF D
<1>3. PICK f : Runs(f, S, a, m, D)
  BY <1>1, <1>2, Recursion DEF StepsFrom
<1>4. f \in [0 .. m -> S] /\ f[0] = a /\ \A k \in 1 .. m : f[k] = D[k][f[k - 1]]
  BY <1>3 DEF Runs
<1> DEFINE g == [k \in 1 .. n |-> f[k - 1]]
<1>5. g \in [1 .. n -> S] /\ g[1] = a /\ \A k \in 1 .. n : g[k] = f[k - 1]
  BY <1>1, <1>4
<1> HIDE DEF g
<1>6. ASSUME NEW k \in 2 .. n PROVE g[k] = E[k][g[k - 1]]
  <2>1. k \in 1 .. n /\ k - 1 \in 1 .. m /\ k - 1 \in 1 .. n /\ (k - 1) + 1 = k
    BY <1>1
  <2>2. g[k] = f[k - 1] /\ g[k - 1] = f[(k - 1) - 1]
    BY <1>5, <2>1
  <2>3. f[k - 1] = D[k - 1][f[(k - 1) - 1]] /\ D[k - 1] = E[k]
    BY <1>2, <1>4, <2>1
  <2>4. QED
    BY <2>2, <2>3
<1>7. RunsUp(g, S, a, n, E)
  BY <1>5, <1>6 DEF RunsUp
<1>8. QED
  BY <1>7

\* and one that counts down.
LEMMA RecursionDown ==
  ASSUME NEW S, NEW a, NEW n, NEW E, StepsFrom(S, a, n, E), n # 0
  PROVE  \E f : RunsDown(f, S, a, n, E)
<1> DEFINE m == n - 1
           D == [k \in 1 .. m |-> E[n - k]]
<1>1. n \in Nat /\ m \in Nat /\ a \in S /\ E \in [1 .. n -> [S -> S]]
  BY DEF StepsFrom
<1>2. D \in [1 .. m -> [S -> S]] /\ \A k \in 1 .. m : D[k] = E[n - k]
  BY <1>1
<1> HIDE DEF D
<1>3. PICK f : Runs(f, S, a, m, D)
  BY <1>1, <1>2, Recursion DEF StepsFrom
<1>4. f \in [0 .. m -> S] /\ f[0] = a /\ \A k \in 1 .. m : f[k] = D[k][f[k - 1]]
  BY <1>3 DEF Runs
<1> DEFINE g == [k \in 1 .. n |-> f[n - k]]
<1>5. g \in [1 .. n -> S] /\ g[n] = a /\ \A k \in 1 .. n : g[k] = f[n - k]
  BY <1>1, <1>4
<1> HIDE DEF g
<1>6. ASSUME NEW k \in 1 .. n - 1 PROVE g[k] = E[k][g[k + 1]]
  <2>1. k \in 1 .. n /\ n - k \in 1 .. m /\ k + 1 \in 1 .. n /\ n - (n - k) = k
        /\ n - (k + 1) = (n - k) - 1
    BY <1>1
  <2>2. g[k] = f[n - k] /\ g[k + 1] = f[(n - k) - 1]
    BY <1>5, <2>1
  <2>3. f[n - k] = D[n - k][f[(n - k) - 1]] /\ D[n - k] = E[k]
    BY <1>2, <1>4, <2>1
  <2>4. QED
    BY <2>2, <2>3
<1>7. RunsDown(g, S, a, n, E)
  BY <1>5, <1>6 DEF RunsDown
<1>8. QED
  BY <1>7

\* The quotient of a division, bounded without dividing.
LEMMA DivBounds ==
  ASSUME NEW n \in Nat, NEW d \in Nat \ {0}
  PROVE  n \div d \in Nat /\ d * (n \div d) <= n /\ n < d * (n \div d) + d
  OBVIOUS

\* The running sums of the integers x[1], x[2], ...: the function that starts with
\* 0 and adds one of them at a time.
LEMMA Sums ==
  ASSUME NEW n \in Nat, NEW x, \A k \in 1 .. n : x[k] \in Int
  PROVE  \E f \in [0 .. n -> Int] : f[0] = 0 /\ \A k \in 1 .. n : f[k] = f[k - 1] + x[k]
<1> DEFINE UpTo(m) == \E f \in [0 .. m -> Int] :
                        f[0] = 0 /\ \A k \in 1 .. m : f[k] = f[k - 1] + x[k]
           T == {m \in Nat : UpTo(m)}
<1>1. 0 \in T
  <2> DEFINE f == [k \in 0 .. 0 |-> 0]
  <2>1. f \in [0 .. 0 -> Int] /\ f[0] = 0 /\ 1 .. 0 = {}
    OBVIOUS
  <2> HIDE DEF f
  <2>2. QED
    BY <2>1
<1>2. ASSUME NEW k \in 1 .. n, k - 1 \in T
      PROVE  k \in T
  <2>1. PICK f \in [0 .. k - 1 -> Int] :
          f[0] = 0 /\ \A j \in 1 .. k - 1 : f[j] = f[j - 1] + x[j]
    BY <1>2
  <2> DEFINE g == [j \in 0 .. k |-> IF j = k THEN f[k - 1] + x[k] ELSE f[j]]
  <2>2. \A j \in 0 .. k - 1 : g[j] = f[j]
    OBVIOUS
  <2>3. g[k] = f[k - 1] + x[k] /\ f[k - 1] \in Int /\ x[k] \in Int
    OBVIOUS
  <2>4. g \in [0 .. k -> Int]
    BY <2>3
  <2> HIDE DEF g
  <2>5. g[0] = 0
    BY <2>1, <2>2
  <2>6. \A j \in 1 .. k : g[j] = g[j - 1] + x[j]
    <3>1. ASSUME NEW j \in 1 .. k PROVE g[j] = g[j - 1] + x[j]
      <4>1. CASE j = k
        BY <4>1, <2>2, <2>3
      <4>2. CASE j # k
        BY <4>2, <2>1, <2>2
      <4>3. QED
        BY <4>1, <4>2
    <3>2. QED
      BY <3>1
  <2>7. UpTo(k)
    BY <2>4, <2>5, <2>6
  <2> HIDE DEF UpTo
  <2>8. QED
    BY <2>7
<1> HIDE DEF T
<1>3. 0 .. n \subseteq T
  BY <1>1, <1>2, RangeInduction
<1>4. n \in T
  BY <1>3
<1>5. UpTo(n)
  BY <1>4 DEF T
<1>6. QED
  BY <1>5
=============================================================================
