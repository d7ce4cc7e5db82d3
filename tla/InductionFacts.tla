--------------------------- MODULE InductionFacts ---------------------------
(***************************************************************************)
(* Induction over the natural numbers, stated for a set instead of a       *)
(* predicate, so that it can be cited for the set of the numbers that have *)
(* the property in question.                                               *)
(***************************************************************************)
EXTENDS Integers, WellFoundedInduction, TLAPS

\* Every nonempty set of natural numbers has a least element.
LEMMA LeastElement ==
    ASSUME NEW T \in SUBSET Nat, T # {}
    PROVE  \E x \in T : \A y \in T : x <= y
<1>1. IsWellFoundedOn(OpToRel(<, Nat), Nat)
  BY NatLessThanWellFounded
<1>2. PICK x \in T : \A y \in T : ~ (<<y, x>> \in OpToRel(<, Nat))
  BY ONLY <1>1, WFMin, T \in SUBSET Nat, T # {}
<1>3. \A y \in T : ~(y < x)
  <2> SUFFICES ASSUME NEW y \in T, y < x PROVE FALSE
    OBVIOUS
  <2>1. <<y, x>> \in OpToRel(<, Nat)
    BY DEF OpToRel
  <2> QED
    BY <2>1, <1>2
<1> QED
  BY <1>3, SMT

\* A set of natural numbers that holds 0 and is closed under successor below
\* n holds every number up to n.
LEMMA InductionUpTo ==
    ASSUME NEW S, NEW n \in Nat,
           0 \in S,
           \A k \in 0..(n - 1) : k \in S => k + 1 \in S
    PROVE  \A k \in 0..n : k \in S
<1> SUFFICES ASSUME NEW k \in 0..n, k \notin S PROVE FALSE
  OBVIOUS
<1> DEFINE T == {i \in 0..n : i \notin S}
<1>1. T \in SUBSET Nat /\ T # {}
  OBVIOUS
<1>2. PICK x \in T : \A y \in T : x <= y
  BY <1>1, LeastElement
<1>3. x # 0 /\ x \in 0..n /\ x \notin S
  BY <1>2
<1>4. x - 1 \in 0..(n - 1) /\ x - 1 \notin T
  BY <1>2, <1>3
<1>5. x - 1 \in S
  BY <1>4
<1> QED
  BY <1>3, <1>4, <1>5

\* Induction over all natural numbers.
LEMMA Induction ==
    ASSUME NEW S,
           0 \in S,
           \A k \in Nat : k \in S => k + 1 \in S
    PROVE  Nat \subseteq S
<1> SUFFICES ASSUME NEW n \in Nat PROVE n \in S
  OBVIOUS
<1>1. \A k \in 0..(n - 1) : k \in S => k + 1 \in S
  OBVIOUS
<1> QED
  BY <1>1, InductionUpTo

-----------------------------------------------------------------------------
(* Recursion over an interval.  What a step makes of x at i is T[i][x], and  *)
(* X[i] is a set the value at i stays in.                                    *)

\* The steps from 0 to n stay in X.
StepsUp(n, X, b, T) ==
  /\ b \in X[0]
  /\ \A i \in 1..n : \A x \in X[i - 1] : T[i][x] \in X[i]

\* f is what the steps give from 0 to n.
RunsUp(f, n, X, b, T) ==
  /\ f = [i \in 0..n |-> f[i]]
  /\ f[0] = b
  /\ \A i \in 1..n : f[i] = T[i][f[i - 1]]
  /\ \A i \in 0..n : f[i] \in X[i]

\* Recursion from 0 to n defines a function.
LEMMA RecursionUp ==
    ASSUME NEW n \in Nat, NEW X, NEW b, NEW T, StepsUp(n, X, b, T)
    PROVE  \E f : RunsUp(f, n, X, b, T)
<1>0. b \in X[0] /\ \A i \in 1..n : \A x \in X[i - 1] : T[i][x] \in X[i]
  BY DEF StepsUp
<1> DEFINE S == {k \in 0..n : \E f : RunsUp(f, k, X, b, T)}
<1>1. 0 \in S
  <2> DEFINE f == [i \in 0..0 |-> b]
  <2>1. f = [i \in 0..0 |-> f[i]] /\ f[0] = b
    OBVIOUS
  <2> HIDE DEF f
  <2>2. RunsUp(f, 0, X, b, T)
    BY <1>0, <2>1 DEF RunsUp
  <2> QED
    BY <2>2
<1>2. \A k \in 0..(n - 1) : k \in S => k + 1 \in S
  <2> SUFFICES ASSUME NEW k \in 0..(n - 1), NEW f, RunsUp(f, k, X, b, T)
               PROVE  \E g : RunsUp(g, k + 1, X, b, T)
    OBVIOUS
  <2>1. /\ f[0] = b
        /\ \A i \in 1..k : f[i] = T[i][f[i - 1]]
        /\ \A i \in 0..k : f[i] \in X[i]
    BY DEF RunsUp
  <2> DEFINE last == T[k + 1][f[k]]
             g == [i \in 0..(k + 1) |-> IF i = k + 1 THEN last ELSE f[i]]
  <2>2. last \in X[k + 1]
    <3>1. k + 1 \in 1..n /\ (k + 1) - 1 = k /\ k \in 0..k
      OBVIOUS
    <3>2. f[k] \in X[(k + 1) - 1]
      BY <2>1, <3>1
    <3> QED
      BY <1>0, <3>1, <3>2
  <2>3. g[k + 1] = last /\ (\A i \in 0..k : g[i] = f[i]) /\ g = [i \in 0..(k + 1) |-> g[i]]
    <3> HIDE DEF last
    <3> QED
      OBVIOUS
  <2>4. k \in 0..k /\ 0 \in 0..k
    OBVIOUS
  <2>5. g[0] = b
    BY <2>1, <2>3, <2>4
  <2>6. \A i \in 1..(k + 1) : g[i] = T[i][g[i - 1]]
    <3> SUFFICES ASSUME NEW i \in 1..(k + 1) PROVE g[i] = T[i][g[i - 1]]
      OBVIOUS
    <3> HIDE DEF g
    <3>1. CASE i = k + 1
      <4>1. i - 1 = k
        BY <3>1
      <4> QED
        BY <2>3, <2>4, <3>1, <4>1
    <3>2. CASE i \in 1..k
      <4>1. i - 1 \in 0..k /\ i \in 0..k
        BY <3>2
      <4> QED
        BY <2>1, <2>3, <3>2, <4>1
    <3> QED
      BY <3>1, <3>2
  <2>7. \A i \in 0..(k + 1) : g[i] \in X[i]
    <3> SUFFICES ASSUME NEW i \in 0..(k + 1) PROVE g[i] \in X[i]
      OBVIOUS
    <3> HIDE DEF g, last
    <3>1. i = k + 1 \/ i \in 0..k
      OBVIOUS
    <3> QED
      BY <2>1, <2>2, <2>3, <3>1
  <2> HIDE DEF g
  <2>8. RunsUp(g, k + 1, X, b, T)
    BY <2>3, <2>5, <2>6, <2>7 DEF RunsUp
  <2> QED
    BY <2>8
<1>3. \A k \in 0..n : k \in S
  <2> HIDE DEF S
  <2> QED
    BY <1>1, <1>2, InductionUpTo
<1>4. n \in S
  <2>1. n \in 0..n
    OBVIOUS
  <2> HIDE DEF S
  <2> QED
    BY <1>3, <2>1
<1> QED
  BY <1>4

\* The steps from n down to m stay in X.
StepsDown(m, n, X, b, T) ==
  /\ b \in X[n]
  /\ \A i \in m..(n - 1) : \A x \in X[i + 1] : T[i][x] \in X[i]

\* f is what the steps give from n down to m.
RunsDown(f, m, n, X, b, T) ==
  /\ f = [i \in m..n |-> f[i]]
  /\ f[n] = b
  /\ \A i \in m..(n - 1) : f[i] = T[i][f[i + 1]]
  /\ \A i \in m..n : f[i] \in X[i]

\* Recursion from n down to m defines a function.
LEMMA RecursionDown ==
    ASSUME NEW m \in Nat, NEW n \in Nat, m <= n, NEW X, NEW b, NEW T, StepsDown(m, n, X, b, T)
    PROVE  \E f : RunsDown(f, m, n, X, b, T)
<1>0. b \in X[n] /\ \A i \in m..(n - 1) : \A x \in X[i + 1] : T[i][x] \in X[i]
  BY DEF StepsDown
<1> DEFINE d == n - m
           Y == [k \in 0..d |-> X[n - k]]
           U == [k \in 1..d |-> T[n - k]]
<1>1. d \in Nat
  OBVIOUS
<1>2. (\A k \in 0..d : Y[k] = X[n - k]) /\ \A k \in 1..d : U[k] = T[n - k]
  OBVIOUS
<1>3. StepsUp(d, Y, b, U)
  <2>1. b \in Y[0]
    <3>1. n - 0 = n /\ 0 \in 0..d
      OBVIOUS
    <3> HIDE DEF Y, d
    <3> QED
      BY <1>0, <1>2, <3>1
  <2>2. ASSUME NEW k \in 1..d, NEW x \in Y[k - 1]
        PROVE  U[k][x] \in Y[k]
    <3>1. n - k \in m..(n - 1) /\ n - (k - 1) = (n - k) + 1 /\ k - 1 \in 0..d /\ k \in 0..d
      OBVIOUS
    <3> HIDE DEF Y, U, d
    <3>2. x \in X[(n - k) + 1]
      BY <1>2, <2>2, <3>1
    <3>3. T[n - k][x] \in X[n - k]
      BY <1>0, <3>1, <3>2
    <3> QED
      BY <1>2, <3>1, <3>3
  <2> HIDE DEF Y, U, d
  <2> QED
    BY <2>1, <2>2 DEF StepsUp
<1>4. PICK h : RunsUp(h, d, Y, b, U)
  <2> HIDE DEF Y, U, d
  <2> QED
    BY <1>1, <1>3, RecursionUp
<1>5. /\ h[0] = b
      /\ \A i \in 1..d : h[i] = U[i][h[i - 1]]
      /\ \A i \in 0..d : h[i] \in Y[i]
  BY <1>4 DEF RunsUp
<1> DEFINE f == [i \in m..n |-> h[n - i]]
<1>6. (\A i \in m..n : f[i] = h[n - i]) /\ f = [i \in m..n |-> f[i]]
  OBVIOUS
<1>7. f[n] = b
  <2>1. n \in m..n /\ n - n = 0
    OBVIOUS
  <2> HIDE DEF f
  <2> QED
    BY <1>5, <1>6, <2>1
<1>8. ASSUME NEW i \in m..(n - 1) PROVE f[i] = T[i][f[i + 1]]
  <2>1. /\ n - i \in 1..d /\ (n - i) - 1 = n - (i + 1) /\ n - (n - i) = i
        /\ i \in m..n /\ i + 1 \in m..n
    OBVIOUS
  <2> HIDE DEF f, d, Y, U
  <2>2. h[n - i] = U[n - i][h[n - (i + 1)]]
    BY <1>5, <2>1
  <2>3. U[n - i] = T[i]
    BY <1>2, <2>1
  <2> QED
    BY <1>6, <2>1, <2>2, <2>3
<1>9. ASSUME NEW i \in m..n PROVE f[i] \in X[i]
  <2>1. n - i \in 0..d /\ n - (n - i) = i
    OBVIOUS
  <2> HIDE DEF f, d, Y, U
  <2> QED
    BY <1>2, <1>5, <1>6, <2>1
<1> HIDE DEF f
<1>10. RunsDown(f, m, n, X, b, T)
  BY <1>6, <1>7, <1>8, <1>9 DEF RunsDown
<1> QED
  BY <1>10

\* What a recursion from 0 to n gives stays in X.
LEMMA StaysUp ==
    ASSUME NEW n \in Nat, NEW X, NEW F,
           F[0] \in X[0],
           \A i \in 1..n : F[i - 1] \in X[i - 1] => F[i] \in X[i]
    PROVE  \A i \in 0..n : F[i] \in X[i]
<1> DEFINE S == {i \in 0..n : F[i] \in X[i]}
<1>1. 0 \in S
  OBVIOUS
<1>2. \A k \in 0..(n - 1) : k \in S => k + 1 \in S
  <2> SUFFICES ASSUME NEW k \in 0..(n - 1), F[k] \in X[k] PROVE F[k + 1] \in X[k + 1]
    OBVIOUS
  <2>1. k + 1 \in 1..n /\ (k + 1) - 1 = k
    OBVIOUS
  <2> QED
    BY <2>1
<1>3. \A k \in 0..n : k \in S
  <2> HIDE DEF S
  <2> QED
    BY <1>1, <1>2, InductionUpTo
<1> QED
  BY <1>3

\* What a recursion from n down to m gives stays in X.
LEMMA StaysDown ==
    ASSUME NEW m \in Nat, NEW n \in Nat, m <= n, NEW X, NEW F,
           F[n] \in X[n],
           \A i \in m..(n - 1) : F[i + 1] \in X[i + 1] => F[i] \in X[i]
    PROVE  \A i \in m..n : F[i] \in X[i]
<1> DEFINE S == {k \in 0..(n - m) : F[n - k] \in X[n - k]}
<1>1. 0 \in S
  <2>1. n - 0 = n /\ 0 \in 0..(n - m)
    OBVIOUS
  <2> QED
    BY <2>1
<1>2. \A k \in 0..((n - m) - 1) : k \in S => k + 1 \in S
  <2> SUFFICES ASSUME NEW k \in 0..((n - m) - 1), F[n - k] \in X[n - k]
               PROVE  k + 1 \in S
    OBVIOUS
  <2>1. n - (k + 1) \in m..(n - 1) /\ (n - (k + 1)) + 1 = n - k /\ k + 1 \in 0..(n - m)
    OBVIOUS
  <2>2. F[n - (k + 1)] \in X[n - (k + 1)]
    BY <2>1
  <2> QED
    BY <2>1, <2>2
<1>3. \A k \in 0..(n - m) : k \in S
  <2>1. n - m \in Nat
    OBVIOUS
  <2> HIDE DEF S
  <2> QED
    BY <1>1, <1>2, <2>1, InductionUpTo
<1>4. ASSUME NEW i \in m..n PROVE F[i] \in X[i]
  <2>1. n - i \in 0..(n - m) /\ n - (n - i) = i
    OBVIOUS
  <2>2. n - i \in S
    BY <1>3, <2>1
  <2>3. F[n - (n - i)] \in X[n - (n - i)]
    BY <2>2
  <2> QED
    BY <2>1, <2>3
<1> QED
  BY <1>4

=============================================================================
