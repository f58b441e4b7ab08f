----------------------------- MODULE FoldFacts -----------------------------
(***************************************************************************)
(* Facts about folds over sequences.  FoldLeft is a recursive function on  *)
(* the sets of indices, each with its greatest one taken last; a run lists *)
(* the values it takes on 1 .. i for each i.  An operator is given here as *)
(* the function g of the value so far and the next index.                  *)
(***************************************************************************)
EXTENDS Integers, FiniteSetsExt, WellFoundedInduction, TLAPS

-----------------------------------------------------------------------------
(* Natural numbers.                                                         *)

\* A set of natural numbers has a least one.
LEMMA LeastNat ==
    ASSUME NEW T, T \subseteq Nat, T # {}
    PROVE  \E x \in T : \A y \in T : x <= y
  <1> DEFINE R == OpToRel(<, Nat)
  <1>1. \E x \in T : \A y \in T : <<y, x>> \notin R
    BY WFMin, NatLessThanWellFounded
  <1>2. \A x, y \in Nat : <<y, x>> \in R <=> y < x
    BY DEF OpToRel
  <1> HIDE DEF R
  <1>3. PICK x \in T : \A y \in T : <<y, x>> \notin R
    BY <1>1
  <1>4. ASSUME NEW y \in T
        PROVE  x <= y
    <2>1. x \in Nat /\ y \in Nat
      OBVIOUS
    <2>2. ~(y < x)
      BY <1>2, <1>3, <2>1
    <2> QED
      BY <2>1, <2>2
  <1> QED
    BY <1>4

\* Induction up to n, on the set of the numbers that have a property.
LEMMA UpTo ==
    ASSUME NEW n \in Nat, NEW P, 0 \in P, \A i \in 1 .. n : i - 1 \in P => i \in P
    PROVE  \A i \in 0 .. n : i \in P
  <1> DEFINE T == {i \in 0 .. n : i \notin P}
  <1>1. SUFFICES ASSUME T # {}
                 PROVE  FALSE
    OBVIOUS
  <1>2. T \subseteq Nat
    OBVIOUS
  <1>3. PICK x \in T : \A y \in T : x <= y
    <2> HIDE DEF T
    <2> QED
      BY <1>1, <1>2, LeastNat
  <1>4. x \in 1 .. n
    OBVIOUS
  <1>5. x - 1 \in P
    BY <1>3, <1>4
  <1> QED
    BY <1>4, <1>5

\* A set of numbers up to n has a greatest one.
LEMMA Greatest1N ==
    ASSUME NEW n \in Nat, NEW S \in SUBSET (1 .. n), S # {}
    PROVE  Max(S) \in S /\ \A y \in S : y <= Max(S)
  <1> DEFINE T == {k \in Nat : \A y \in S : y <= k}
  <1>1. n \in T
    OBVIOUS
  <1>2. PICK m \in T : \A k \in T : m <= k
    BY <1>1, LeastNat
  <1>3. m \in S
    <2>1. SUFFICES ASSUME m \notin S
                   PROVE  FALSE
      OBVIOUS
    <2>2. \A y \in S : y <= m - 1
      BY <2>1
    <2>3. m - 1 \in Nat
      <3>1. PICK y \in S : TRUE
        OBVIOUS
      <3> QED
        BY <2>2, <3>1
    <2>4. m - 1 \in T
      BY <2>2, <2>3
    <2> QED
      BY <1>2, <2>4
  <1>4. \E x \in S : \A y \in S : x >= y
    BY <1>3
  <1>5. Max(S) \in S /\ \A y \in S : Max(S) >= y
    BY <1>4 DEF Max
  <1> QED
    BY <1>5

-----------------------------------------------------------------------------
(* Runs and folds.                                                          *)

\* r lists what g makes of base and the indices up to n, in their order.
Run(r, A, base, n, g) ==
    /\ r \in [0 .. n -> A] /\ r[0] = base
    /\ \A i \in 1 .. n : r[i] = g[<<r[i - 1], i>>]

\* h is the recursive function of a fold on the sets of indices.
Fold(h, A, base, n, g) ==
    /\ h \in [SUBSET (1 .. n) -> A] /\ h[{}] = base
    /\ \A S \in SUBSET (1 .. n) : S # {} => h[S] = g[<<h[S \ {Max(S)}], Max(S)>>]

\* A fold exists, whatever the operator.
LEMMA FoldExists ==
    ASSUME NEW A, NEW base \in A, NEW n \in Nat, NEW g \in [A \X (1 .. n) -> A]
    PROVE  \E h : Fold(h, A, base, n, g)
  <1> DEFINE FoldTo(h, m) ==
                /\ h \in [SUBSET (1 .. m) -> A] /\ h[{}] = base
                /\ \A S \in SUBSET (1 .. m) : S # {} => h[S] = g[<<h[S \ {Max(S)}], Max(S)>>]
             P == {m \in 0 .. n : \E h : FoldTo(h, m)}
  <1>1. 0 \in P
    <2> DEFINE h == [S \in SUBSET (1 .. 0) |-> base]
    <2>1. \A S \in SUBSET (1 .. 0) : S = {}
      OBVIOUS
    <2>2. FoldTo(h, 0)
      BY <2>1
    <2> HIDE DEF h, FoldTo
    <2> QED
      BY <2>2
  <1>2. ASSUME NEW m \in 1 .. n, m - 1 \in P
        PROVE  m \in P
    <2>1. PICK h : FoldTo(h, m - 1)
      BY <1>2
    <2> DEFINE k == [S \in SUBSET (1 .. m) |->
                        IF m \in S THEN g[<<h[S \ {m}], m>>] ELSE h[S]]
    <2>2. \A S \in SUBSET (1 .. m) : S \ {m} \in SUBSET (1 .. m - 1)
      OBVIOUS
    <2>3. \A S \in SUBSET (1 .. m) : m \notin S => S \in SUBSET (1 .. m - 1)
      OBVIOUS
    <2>4. ASSUME NEW S \in SUBSET (1 .. m)
          PROVE  k[S] = (IF m \in S THEN g[<<h[S \ {m}], m>>] ELSE h[S]) /\ k[S] \in A
      <3>1. h[S \ {m}] \in A
        BY <2>1, <2>2
      <3>2. m \notin S => h[S] \in A
        BY <2>1, <2>3
      <3>3. g[<<h[S \ {m}], m>>] \in A
        BY <1>2, <3>1
      <3> QED
        BY <3>2, <3>3
    <2>5. k \in [SUBSET (1 .. m) -> A]
      BY <2>4
    <2>6. k[{}] = base
      BY <2>1, <2>4
    <2>7. ASSUME NEW S \in SUBSET (1 .. m), S # {}
          PROVE  k[S] = g[<<k[S \ {Max(S)}], Max(S)>>]
      <3>1. Max(S) \in S /\ \A y \in S : y <= Max(S)
        BY <2>7, Greatest1N, m \in Nat
      <3>2. CASE m \in S
        <4>1. Max(S) = m
          <5>1. Max(S) \in 1 .. m /\ m <= Max(S)
            BY <3>1, <3>2
          <5> HIDE DEF k, P
          <5> QED
            BY <5>1
        <4>2. k[S \ {m}] = h[S \ {m}]
          BY <2>4, S \ {m} \in SUBSET (1 .. m)
        <4> HIDE DEF k
        <4> QED
          BY <2>4, <3>2, <4>1, <4>2
      <3>3. CASE m \notin S
        <4>1. S \in SUBSET (1 .. m - 1) /\ S \ {Max(S)} \in SUBSET (1 .. m)
          BY <2>3, <3>3
        <4>2. k[S] = h[S] /\ k[S \ {Max(S)}] = h[S \ {Max(S)}]
          BY <2>4, <3>3, <4>1
        <4> QED
          BY <2>1, <2>7, <4>1, <4>2
      <3> QED
        BY <3>2, <3>3
    <2>8. FoldTo(k, m)
      <3> HIDE DEF k
      <3> QED
        BY <2>5, <2>6, <2>7
    <2> HIDE DEF k, FoldTo
    <2> QED
      BY <2>8
  <1> HIDE DEF P
  <1>3. n \in P
    BY <1>1, <1>2, UpTo
  <1> QED
    BY <1>3 DEF P, Fold

LEMMA WholeInterval ==
    ASSUME NEW i \in Nat \ {0}
    PROVE  1 .. i # {} /\ Max(1 .. i) = i /\ (1 .. i) \ {i} = 1 .. i - 1
  <1>1. 1 .. i # {}
    OBVIOUS
  <1>2. Max(1 .. i) \in 1 .. i /\ \A y \in 1 .. i : y <= Max(1 .. i)
    BY <1>1, Greatest1N
  <1>3. i <= Max(1 .. i) /\ Max(1 .. i) \in Nat /\ Max(1 .. i) <= i
    BY <1>2
  <1> QED
    BY <1>1, <1>3

\* So does a run.
LEMMA RunExists ==
    ASSUME NEW A, NEW base \in A, NEW n \in Nat, NEW g \in [A \X (1 .. n) -> A]
    PROVE  \E r : Run(r, A, base, n, g)
  <1>1. PICK h : Fold(h, A, base, n, g)
    BY FoldExists
  <1> DEFINE r == [i \in 0 .. n |-> h[1 .. i]]
  <1>2. \A i \in 0 .. n : 1 .. i \in SUBSET (1 .. n)
    OBVIOUS
  <1>3. r \in [0 .. n -> A]
    BY <1>1, <1>2 DEF Fold
  <1>4. r[0] = base
    BY <1>1 DEF Fold
  <1>5. ASSUME NEW i \in 1 .. n
        PROVE  r[i] = g[<<r[i - 1], i>>]
    <2>1. h[1 .. i] = g[<<h[1 .. i - 1], i>>]
      <3> DEFINE S == 1 .. i
      <3>1. S \in SUBSET (1 .. n) /\ S # {} /\ Max(S) = i /\ S \ {i} = 1 .. i - 1
        BY <1>2, WholeInterval
      <3> HIDE DEF S, r
      <3>2. h[S] = g[<<h[S \ {Max(S)}], Max(S)>>]
        BY <1>1, <3>1 DEF Fold
      <3>3. h[S] = g[<<h[1 .. i - 1], i>>]
        BY <3>1, <3>2
      <3> QED
        BY <3>3 DEF S
    <2>2. r[i] = h[1 .. i] /\ r[i - 1] = h[1 .. i - 1]
      OBVIOUS
    <2> HIDE DEF r
    <2> QED
      BY <2>1, <2>2
  <1> HIDE DEF r
  <1> QED
    BY <1>3, <1>4, <1>5 DEF Run

\* Whatever follows g from base on is the run.
LEMMA RunUnique ==
    ASSUME NEW A, NEW base \in A, NEW n \in Nat, NEW g, NEW r, Run(r, A, base, n, g),
           NEW q, q[0] = base, \A i \in 1 .. n : q[i - 1] \in A => q[i] = g[<<q[i - 1], i>>]
    PROVE  \A i \in 0 .. n : q[i] = r[i]
  <1> DEFINE P == {i \in 0 .. n : q[i] = r[i]}
  <1>1. 0 \in P
    BY DEF Run
  <1>2. ASSUME NEW i \in 1 .. n, i - 1 \in P
        PROVE  i \in P
    <2>1. r[i - 1] \in A /\ r[i] = g[<<r[i - 1], i>>] /\ q[i - 1] = r[i - 1]
      BY <1>2 DEF Run
    <2>2. q[i] = r[i]
      BY <2>1
    <2> QED
      BY <2>2
  <1> HIDE DEF P
  <1>3. \A i \in 0 .. n : i \in P
    BY <1>1, <1>2, UpTo
  <1> QED
    BY <1>3 DEF P

\* iter takes the steps of g wherever it has a value of A to take them from.
Follows(iter, A, base, n, g) ==
    /\ iter[{}] = base
    /\ \A S \in SUBSET (1 .. n) :
        S # {} /\ iter[S \ {Max(S)}] \in A => iter[S] = g[<<iter[S \ {Max(S)}], Max(S)>>]

\* The recursive function a fold chooses ends as the run does.
LEMMA FoldValue ==
    ASSUME NEW A, NEW base \in A, NEW n \in Nat, NEW g, NEW r, Run(r, A, base, n, g),
           NEW iter, Follows(iter, A, base, n, g)
    PROVE  iter[1 .. n] = r[n]
  <1> USE DEF Follows
  <1> DEFINE q == [i \in 0 .. n |-> iter[1 .. i]]
  <1>1. q[0] = base
    <2>1. 1 .. 0 = {}
      OBVIOUS
    <2> QED
      BY <2>1
  <1>2. ASSUME NEW i \in 1 .. n, q[i - 1] \in A
        PROVE  q[i] = g[<<q[i - 1], i>>]
    <2> DEFINE S == 1 .. i
    <2>1. S \in SUBSET (1 .. n) /\ S # {} /\ Max(S) = i /\ S \ {i} = 1 .. i - 1
      BY WholeInterval
    <2>2. q[i] = iter[S] /\ q[i - 1] = iter[1 .. i - 1]
      OBVIOUS
    <2> HIDE DEF q, S
    <2>3. iter[S \ {Max(S)}] \in A
      BY <1>2, <2>1, <2>2
    <2>4. iter[S] = g[<<iter[S \ {Max(S)}], Max(S)>>]
      BY <2>1, <2>3
    <2> QED
      BY <2>1, <2>2, <2>4
  <1> HIDE DEF q
  <1>3. \A i \in 0 .. n : q[i] = r[i]
    BY <1>1, <1>2, RunUnique
  <1> QED
    BY <1>3 DEF q
=============================================================================
