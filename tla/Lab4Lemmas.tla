----------------------------- MODULE Lab4Lemmas -----------------------------
(***************************************************************************)
(* What the proofs about the components share: induction and recursion     *)
(* over the natural numbers, what Closure of Lab4Graph computes, and what  *)
(* the allocation scan of Lab4Bmap returns.                                *)
(***************************************************************************)
EXTENDS Lab4Bmap, Lab4Graph, FiniteSetTheorems, WellFoundedInduction, TLAPS

-----------------------------------------------------------------------------
(* Induction and recursion.                                                *)

(***************************************************************************)
(* A set of natural numbers that is not empty has a least element, and Min *)
(* is it.                                                                  *)
(***************************************************************************)
Less == {ss \in Nat \X Nat : ss[1] < ss[2]}

LEMMA MinOfNat ==
    ASSUME NEW S \in SUBSET Nat, S # {}
    PROVE  Min(S) \in S /\ \A y \in S : Min(S) =< y
<1>1. IsWellFoundedOn(Less, Nat)
  BY NatLessThanWellFounded, Zenon DEF OpToRel, Less
<1>2. PICK x \in S : \A y \in S : <<y, x>> \notin Less
  BY <1>1, WFMin
<1>3. ASSUME NEW y \in S PROVE x =< y
  <2>1. <<y, x>> \notin Less /\ x \in Nat /\ y \in Nat
    BY <1>2
  <2> QED
    BY <2>1 DEF Less
<1> QED
  BY <1>3 DEF Min

(***************************************************************************)
(* Induction over the natural numbers, for a set in the place of a         *)
(* predicate.                                                              *)
(***************************************************************************)
LEMMA NatInduct ==
    ASSUME NEW S, 0 \in S, \A n \in Nat : n \in S => n + 1 \in S
    PROVE  Nat \subseteq S
<1> SUFFICES ASSUME Nat \ S # {} PROVE FALSE
  OBVIOUS
<1>1. Nat \ S \in SUBSET Nat
  OBVIOUS
<1>2. PICK m : m = Min(Nat \ S) /\ m \in Nat \ S /\ \A y \in Nat \ S : m =< y
  BY <1>1, MinOfNat
<1>3. m # 0 /\ m - 1 \in Nat
  BY <1>2
<1>4. m - 1 \in S
  BY <1>2, <1>3
<1> QED
  BY <1>2, <1>3, <1>4

(***************************************************************************)
(* A step function of a set V has a sequence that it steps through.        *)
(***************************************************************************)
Sequel(f, a, g) == f[0] = a /\ \A k \in Nat : f[k + 1] = g[<<k, f[k]>>]

LEMMA NatRecursion ==
    ASSUME NEW V, NEW a \in V, NEW g \in [Nat \X V -> V]
    PROVE  \E f \in [Nat -> V] : Sequel(f, a, g)
<1> DEFINE Good(n, h) == /\ h \in [0..n -> V] /\ h[0] = a
                         /\ \A k \in 0..(n - 1) : h[k + 1] = g[<<k, h[k]>>]
           P == {n \in Nat : \E h : Good(n, h)}
<1>1. Nat \subseteq P
  <2>1. 0 \in P
    <3>1. Good(0, [k \in 0..0 |-> a])
      OBVIOUS
    <3> QED
      BY <3>1
  <2>2. ASSUME NEW n \in Nat, n \in P PROVE n + 1 \in P
    <3>1. PICK h : Good(n, h)
      BY <2>2
    <3>2. g[<<n, h[n]>>] \in V
      BY <3>1
    <3>3. PICK j : j = [k \in 0..(n + 1) |-> IF k = n + 1 THEN g[<<n, h[n]>>] ELSE h[k]]
      OBVIOUS
    <3>4. j \in [0..(n + 1) -> V] /\ j[0] = a
      BY <3>1, <3>2, <3>3
    <3>5. \A k \in 0..n : j[k] = h[k]
      BY <3>3
    <3>6. ASSUME NEW k \in 0..((n + 1) - 1) PROVE j[k + 1] = g[<<k, j[k]>>]
      <4>1. k \in 0..n /\ k + 1 \in 0..(n + 1) /\ j[k] = h[k]
        BY <3>5
      <4>2. CASE k = n
        BY <3>3, <4>1, <4>2
      <4>3. CASE k # n
        <5>1. k \in 0..(n - 1) /\ k + 1 # n + 1
          BY <4>1, <4>3
        <5> QED
          BY <3>1, <3>3, <4>1, <5>1
      <4> QED
        BY <4>2, <4>3
    <3>7. Good(n + 1, j)
      BY <3>4, <3>6
    <3> QED
      BY <3>7
  <2> HIDE DEF P
  <2> QED
    BY <2>1, <2>2, NatInduct
<1>2. ASSUME NEW n \in Nat, NEW m \in Nat, n <= m, NEW h, NEW j, Good(n, h), Good(m, j)
      PROVE  h[n] = j[n]
  <2> DEFINE Q == {k \in Nat : k <= n => h[k] = j[k]}
  <2>1. 0 \in Q
    BY <1>2
  <2>2. ASSUME NEW k \in Nat, k \in Q PROVE k + 1 \in Q
    <3>1. CASE k + 1 <= n
      <4>1. k \in 0..(n - 1) /\ k \in 0..(m - 1) /\ h[k] = j[k]
        BY <1>2, <2>2, <3>1
      <4>2. h[k + 1] = g[<<k, h[k]>>] /\ j[k + 1] = g[<<k, j[k]>>]
        BY <1>2, <4>1
      <4>3. h[k + 1] = j[k + 1]
        BY <4>1, <4>2
      <4> QED
        BY <4>3
    <3> QED
      BY <3>1
  <2>3. Nat \subseteq Q
    <3> HIDE DEF Q
    <3> QED
      BY <2>1, <2>2, NatInduct
  <2> QED
    BY <2>3
<1>3. PICK H : H = [n \in Nat |-> CHOOSE h : Good(n, h)]
  OBVIOUS
<1>4. \A n \in Nat : Good(n, H[n])
  <2> SUFFICES ASSUME NEW n \in Nat PROVE Good(n, H[n])
    OBVIOUS
  <2>1. \E h : Good(n, h)
    BY <1>1
  <2>2. Good(n, CHOOSE h : Good(n, h))
    <3> HIDE DEF Good
    <3> QED
      BY <2>1, Zenon
  <2>3. H[n] = CHOOSE h : Good(n, h)
    <3> HIDE DEF Good
    <3> QED
      BY <1>3
  <2> HIDE DEF Good
  <2> QED
    BY <2>2, <2>3
<1>5. PICK f : f = [n \in Nat |-> H[n][n]]
  OBVIOUS
<1>6. f \in [Nat -> V] /\ f[0] = a
  BY <1>4, <1>5
<1>7. ASSUME NEW k \in Nat PROVE f[k + 1] = g[<<k, f[k]>>]
  <2>1. Good(k, H[k]) /\ Good(k + 1, H[k + 1])
    BY <1>4
  <2>2. H[k][k] = H[k + 1][k]
    <3>1. k <= k + 1 /\ k + 1 \in Nat
      OBVIOUS
    <3> HIDE DEF Good
    <3> QED
      BY <2>1, <1>2, <3>1
  <2>3. H[k + 1][k + 1] = g[<<k, H[k + 1][k]>>]
    BY <2>1
  <2> QED
    BY <1>5, <2>2, <2>3
<1> QED
  BY <1>6, <1>7 DEF Sequel

-----------------------------------------------------------------------------
(* Reachability.                                                           *)

\* Every edge that leaves X ends in X.
ClosedUnder(X, E) == \A e \in E : e[1] \in X => e[2] \in X

\* What the recursion of Closure has found after each number of rounds.
Rounds(S, E, below) ==
    \A k \in Nat : below[k] = IF k = 0 THEN {}
                              ELSE below[k - 1] \cup
                                   {e[2] : e \in {o \in E : o[1] \in S \cup below[k - 1]}}

LEMMA ClosureRounds ==
    ASSUME NEW S, NEW E
    PROVE  \E below : Rounds(S, E, below) /\ Closure(S, E) = S \cup below[Cardinality(E)]
<1> DEFINE V == SUBSET {e[2] : e \in E}
           More(T) == T \cup {e[2] : e \in {o \in E : o[1] \in S \cup T}}
           G(h) == [k \in Nat |-> IF k = 0 THEN {}
                      ELSE LET T == h[k - 1]
                           IN  T \cup {e[2] : e \in {o \in E : o[1] \in S \cup T}}]
<1>1. \E f : f = G(f)
  <2>1. PICK g : g = [x \in Nat \X V |-> More(x[2])]
    OBVIOUS
  <2>2. {} \in V /\ g \in [Nat \X V -> V]
    BY <2>1
  <2>3. PICK f \in [Nat -> V] : f[0] = {} /\ \A k \in Nat : f[k + 1] = g[<<k, f[k]>>]
    <3>1. PICK a : a = {}
      OBVIOUS
    <3>2. PICK W : W = V
      OBVIOUS
    <3>3. a \in W /\ g \in [Nat \X W -> W]
      BY <2>2, <3>1, <3>2
    <3>4. \E f \in [Nat -> W] : Sequel(f, a, g)
      BY <3>3, NatRecursion
    <3> QED
      BY <3>1, <3>2, <3>4 DEF Sequel
  <2>4. \A k \in Nat : f[k + 1] = More(f[k])
    BY <2>1, <2>3
  <2>5. ASSUME NEW k \in Nat PROVE f[k] = G(f)[k]
    <3>1. CASE k = 0
      BY <3>1, <2>3
    <3>2. CASE k # 0
      <4>1. k - 1 \in Nat /\ (k - 1) + 1 = k
        BY <3>2
      <4>2. f[k] = More(f[k - 1])
        BY <4>1, <2>4
      <4> QED
        BY <3>2, <4>2
    <3> QED
      BY <3>1, <3>2
  <2>6. f = G(f)
    BY <2>3, <2>5
  <2> QED
    BY <2>6
<1>2. PICK h : h = CHOOSE hh : hh = G(hh)
  OBVIOUS
<1>3. h = G(h)
  <2> HIDE DEF G
  <2> QED
    BY <1>1, <1>2, Zenon
<1>4. Closure(S, E) = S \cup h[Cardinality(E)]
  BY <1>2 DEF Closure
<1>5. Rounds(S, E, h)
  <2> SUFFICES ASSUME NEW k \in Nat
               PROVE  h[k] = IF k = 0 THEN {}
                      ELSE h[k - 1] \cup {e[2] : e \in {o \in E : o[1] \in S \cup h[k - 1]}}
    BY DEF Rounds
  <2>1. h[k] = G(h)[k]
    <3> HIDE DEF G
    <3> QED
     BY <1>3
  <2> QED
    BY <2>1
<1> QED
  BY <1>4, <1>5

(***************************************************************************)
(* The nodes of S and what a finite set of edges leads to from them: the   *)
(* least set that holds S and that no edge leaves.                         *)
(***************************************************************************)
LEMMA ClosureLeast ==
    ASSUME NEW S, NEW E, IsFiniteSet(E)
    PROVE  /\ S \subseteq Closure(S, E)
           /\ ClosedUnder(Closure(S, E), E)
           /\ \A X : S \subseteq X /\ ClosedUnder(X, E) => Closure(S, E) \subseteq X
<1>1. PICK below : Rounds(S, E, below) /\ Closure(S, E) = S \cup below[Cardinality(E)]
  BY ClosureRounds
<1> DEFINE V == {e[2] : e \in E}
           B(k) == below[k]
           More(T) == T \cup {e[2] : e \in {o \in E : o[1] \in S \cup T}}
<1>2. below[0] = {} /\ \A k \in Nat : below[k + 1] = More(below[k])
  <2>1. \A k \in Nat : k + 1 \in Nat /\ k + 1 # 0 /\ (k + 1) - 1 = k
    OBVIOUS
  <2>2. ASSUME NEW k \in Nat PROVE below[k + 1] = More(below[k])
    <3>1. PICK j \in Nat : j = k + 1 /\ j # 0 /\ j - 1 = k
      BY <2>1
    <3> QED
      BY <1>1, <3>1 DEF Rounds
  <2> QED
    BY <2>2, <1>1 DEF Rounds
<1>3. IsFiniteSet(V) /\ Cardinality(V) <= Cardinality(E) /\ Cardinality(V) \in Nat
      /\ Cardinality(E) \in Nat
  <2>1. PICK f : f = [e \in E |-> e[2]]
    OBVIOUS
  <2>2. f \in Surjection(E, V)
    BY <2>1 DEF Surjection
  <2> HIDE DEF V
  <2> QED
    BY <2>2, FS_Surjection, FS_CardinalityType
<1>4. \A k \in Nat : below[k] \subseteq V
  <2> DEFINE P == {k \in Nat : below[k] \subseteq V}
  <2>1. 0 \in P
    BY <1>2
  <2>2. ASSUME NEW k \in Nat, k \in P PROVE k + 1 \in P
    <3>1. below[k] \subseteq V /\ More(below[k]) \subseteq V
      BY <2>2
    <3>2. below[k + 1] \subseteq V
      BY <1>2, <3>1
    <3> HIDE DEF V
    <3> QED
      BY <3>2
  <2> HIDE DEF P
  <2>3. Nat \subseteq P
    BY <2>1, <2>2, NatInduct
  <2> QED
    BY <2>3 DEF P
<1>5. \A k \in Nat : ClosedUnder(S \cup below[k], E) \/ Cardinality(below[k]) >= k
  <2> DEFINE P == {k \in Nat : ClosedUnder(S \cup below[k], E) \/ Cardinality(below[k]) >= k}
  <2>1. 0 \in P
    <3>1. Cardinality(below[0]) = 0
      BY <1>2, FS_EmptySet
    <3> QED
      BY <3>1
  <2>2. ASSUME NEW k \in Nat, k \in P PROVE k + 1 \in P
    <3>1. PICK T, U : T = below[k] /\ U = below[k + 1] /\ U = More(T)
      BY <1>2
    <3>2. CASE ClosedUnder(S \cup T, E)
      <4>1. ClosedUnder(S \cup U, E)
        BY <3>1, <3>2 DEF ClosedUnder
      <4>2. ClosedUnder(S \cup below[k + 1], E)
        BY <3>1, <4>1
      <4> QED
        BY <4>2
    <3>3. CASE ~ClosedUnder(S \cup T, E)
      <4>1. T \subseteq U /\ T # U
        BY <3>1, <3>3 DEF ClosedUnder
      <4>2. IsFiniteSet(U)
        <5>1. U \subseteq V
          BY <3>1, <1>4
        <5> HIDE DEF V
        <5> QED
          BY <5>1, <1>3, FS_Subset
      <4>3. Cardinality(T) <= Cardinality(U) /\ Cardinality(T) # Cardinality(U)
            /\ Cardinality(T) \in Nat /\ Cardinality(U) \in Nat
        BY <4>1, <4>2, FS_Subset, FS_CardinalityType
      <4>4. Cardinality(T) >= k
        BY <2>2, <3>1, <3>3
      <4>5. Cardinality(U) >= k + 1
        BY <4>3, <4>4
      <4>6. Cardinality(below[k + 1]) >= k + 1
        BY <3>1, <4>5
      <4> QED
        BY <4>6
    <3> QED
      BY <3>2, <3>3
  <2> HIDE DEF P
  <2>3. Nat \subseteq P
    BY <2>1, <2>2, NatInduct
  <2> QED
    BY <2>3 DEF P
<1>6. ClosedUnder(Closure(S, E), E)
  <2>1. PICK T : T = below[Cardinality(E)] /\ T \subseteq V
    BY <1>3, <1>4
  <2>2. CASE Cardinality(T) >= Cardinality(E)
    <3>1. T = V
      <4>1. Cardinality(T) <= Cardinality(V) /\ Cardinality(T) \in Nat
         /\ (Cardinality(T) = Cardinality(V) => T = V)
        <5> HIDE DEF V
        <5> QED
          BY <2>1, <1>3, FS_Subset, FS_CardinalityType
      <4> HIDE DEF V
      <4> QED
        BY <4>1, <1>3, <2>2
    <3> QED
      BY <1>1, <2>1, <3>1 DEF ClosedUnder
  <2> QED
    BY <1>1, <1>3, <1>5, <2>1, <2>2
<1>7. ASSUME NEW X, S \subseteq X, ClosedUnder(X, E) PROVE Closure(S, E) \subseteq X
  <2> DEFINE P == {k \in Nat : below[k] \subseteq X}
  <2>1. 0 \in P
    BY <1>2
  <2>2. \A k \in Nat : k \in P => k + 1 \in P
    BY <1>2, <1>7 DEF ClosedUnder
  <2>3. Nat \subseteq P
    <3> HIDE DEF P
    <3> QED
      BY <2>1, <2>2, NatInduct
  <2> QED
    BY <1>1, <1>3, <1>7, <2>3
<1> QED
  BY <1>1, <1>6, <1>7

-----------------------------------------------------------------------------
(* The allocation scan.                                                    *)

(***************************************************************************)
(* The scan returns n or a position below n whose bit is clear: what an    *)
(* allocation takes is inside the bitmap and was free.                     *)
(***************************************************************************)
LEMMA ScanSound ==
    ASSUME NEW bits, NEW n \in Nat \ {0}, NEW hint \in 0..n
    PROVE  /\ Scan(bits, hint, n) \in 0..n
           /\ Scan(bits, hint, n) < n => Scan(bits, hint, n) \notin bits
<1> DEFINE C == ClearProbes(bits, hint, n)
<1>1. CASE C = {}
  BY <1>1 DEF Scan
<1>2. CASE C # {}
  <2>1. C \in SUBSET Nat
    BY DEF ClearProbes
  <2>2. Min(C) \in C
    BY <1>2, <2>1, MinOfNat
  <2>3. \A k \in 0..(n - 1) : Probe(hint, n, k) \in 0..n
    BY DEF Probe
  <2> QED
    BY <1>2, <2>2, <2>3 DEF Scan, ClearProbes
<1> QED
  BY <1>1, <1>2

(***************************************************************************)
(* A hint whose bit is clear is what the scan returns.                     *)
(***************************************************************************)
LEMMA ScanHint ==
    ASSUME NEW bits, NEW n \in Nat \ {0}, NEW hint \in 0..n, hint \notin bits
    PROVE  Scan(bits, hint, n) = hint
<1> DEFINE C == ClearProbes(bits, hint, n)
<1>1. 0 \in C /\ C \in SUBSET Nat
  BY DEF ClearProbes, Probe
<1>2. Min(C) \in C /\ Min(C) =< 0
  BY <1>1, MinOfNat
<1>3. Min(C) = 0
  BY <1>1, <1>2
<1> QED
  BY <1>1, <1>3 DEF Scan, Probe

(***************************************************************************)
(* A remainder, where the dividend is below twice the divisor.             *)
(***************************************************************************)
LEMMA SmallMod ==
    ASSUME NEW n \in Nat \ {0}, NEW x \in 0..(2 * n - 1)
    PROVE  x % n = IF x < n THEN x ELSE x - n
<1>1. n \in Int /\ n > 0 /\ x \in Int
  OBVIOUS
<1>2. x % n \in 0..(n - 1)
  BY <1>1
<1>3. x = n * (x \div n) + (x % n)
  BY <1>1
<1>4. x \div n \in Int
  BY <1>1
<1>5. CASE x < n
  <2>1. (x \div n) = 0
    BY <1>1, <1>2, <1>3, <1>4, <1>5
  <2> QED
    BY <1>2, <1>3, <1>5, <2>1
<1>6. CASE ~(x < n)
  <2>1. (x \div n) = 1
    BY <1>1, <1>2, <1>3, <1>4, <1>6
  <2> QED
    BY <1>2, <1>3, <1>6, <2>1
<1> QED
  BY <1>5, <1>6

(***************************************************************************)
(* What the scan returns is at or before the hint, or right after a set    *)
(* bit: it never leaves a gap behind it.                                   *)
(***************************************************************************)
LEMMA ScanNear ==
    ASSUME NEW bits, NEW n \in Nat \ {0}, NEW hint \in 0..n,
           Scan(bits, hint, n) < n
    PROVE  Scan(bits, hint, n) <= hint \/ Scan(bits, hint, n) - 1 \in bits
<1> DEFINE C == ClearProbes(bits, hint, n)
<1>1. C # {}
  BY DEF Scan
<1>2. C \in SUBSET Nat
  BY DEF ClearProbes
<1>3. PICK k \in 0..(n - 1) : k = Min(C) /\ k \in C /\ \A y \in C : k =< y
  BY <1>1, <1>2, MinOfNat DEF ClearProbes
<1>4. Scan(bits, hint, n) = Probe(hint, n, k)
  BY <1>1, <1>3 DEF Scan
<1>5. CASE k = 0
  BY <1>4, <1>5 DEF Probe
<1>6. CASE k > 0 /\ hint + k < n
  <2>1. Probe(hint, n, k) = hint + k
    BY <1>6, SmallMod DEF Probe
  <2>2. Probe(hint, n, k - 1) = hint + k - 1
    BY <1>6, SmallMod DEF Probe
  <2>3. k - 1 \notin C /\ k - 1 \in 0..(n - 1)
    BY <1>2, <1>3, <1>6
  <2> QED
    BY <1>4, <2>1, <2>2, <2>3 DEF ClearProbes
<1>7. CASE k > 0 /\ ~(hint + k < n)
  <2>1. hint + k \in 0..(2 * n - 1) /\ k \in Nat /\ k # 0
    BY <1>3, <1>7
  <2>2. (hint + k) % n = hint + k - n
    <3>1. PICK x \in 0..(2 * n - 1) : x = hint + k
      BY <2>1
    <3>2. x % n = IF x < n THEN x ELSE x - n
      BY SmallMod
    <3>3. x % n = x - n
      BY <3>1, <3>2, <1>7
    <3> QED
      BY <3>1, <3>3
  <2>3. Probe(hint, n, k) = (hint + k) % n
    BY <2>1 DEF Probe
  <2> QED
    BY <1>3, <1>4, <1>7, <2>2, <2>3
<1> QED
  BY <1>5, <1>6, <1>7
=============================================================================
