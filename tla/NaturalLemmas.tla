---------------------------- MODULE NaturalLemmas ----------------------------
(***************************************************************************)
(* Least elements, and what follows from them: induction over a set of     *)
(* numbers, and functions defined by recursion.  The proofs about the      *)
(* components share these.                                                 *)
EXTENDS Naturals, Sequences, FiniteSets, FiniteSetTheorems,
        WellFoundedInduction, TLAPS

LEMMA LeastNatural ==
  ASSUME NEW T \in SUBSET Nat, T # {}
  PROVE  \E x \in T : \A y \in T : x <= y
<1> DEFINE R == OpToRel(<, Nat)
<1>1. IsWellFoundedOn(R, Nat)
  BY NatLessThanWellFounded, Zenon
<1>2. \A y, x \in Nat : y < x => <<y, x>> \in R
  BY DEF OpToRel
<1> HIDE DEF R
<1>3. PICK x \in T : \A y \in T : ~(<<y, x>> \in R)
  BY <1>1, WFMin
<1>4. ASSUME NEW y \in T PROVE x <= y
  <2>1. x \in Nat /\ y \in Nat /\ ~(y < x)
    BY <1>2, <1>3
  <2> QED BY <2>1
<1> QED BY <1>4

(* Induction, for a set: what holds of 0 and of each successor. *)
LEMMA SetInduction ==
  ASSUME NEW S, 0 \in S, \A n \in Nat : n \in S => n + 1 \in S
  PROVE  Nat \subseteq S
<1> DEFINE T == {n \in Nat : n \notin S}
<1>1. SUFFICES ASSUME T # {} PROVE FALSE
  OBVIOUS
<1>2. PICK x \in T : \A y \in T : x <= y
  BY <1>1, LeastNatural
<1>3. x \in Nat /\ x # 0 /\ x \notin S
  BY <1>2
<1>4. x - 1 \in Nat /\ x - 1 + 1 = x
  BY <1>3
<1>5. x - 1 \in S
  <2>1. SUFFICES ASSUME x - 1 \notin S PROVE FALSE
    OBVIOUS
  <2>2. x - 1 \in T
    BY <1>4, <2>1
  <2>3. x <= x - 1
    BY <1>2, <2>2
  <2> QED BY <1>3, <2>3
<1> QED BY <1>3, <1>4, <1>5

(* The same for a bound. *)
LEMMA BoundedInduction ==
  ASSUME NEW S, NEW m \in Nat, 0 \in S,
         \A n \in 0..m : n # m /\ n \in S => n + 1 \in S
  PROVE  0..m \subseteq S
<1> DEFINE U == {n \in Nat : n \in 0..m => n \in S}
<1>1. 0 \in U
  OBVIOUS
<1>2. ASSUME NEW n \in Nat, n \in U PROVE n + 1 \in U
  <2>1. CASE n + 1 \in 0..m
    <3>1. n \in 0..m /\ n # m
      BY <2>1
    <3> QED BY <1>2, <2>1, <3>1
  <2>2. CASE n + 1 \notin 0..m
    BY <2>2
  <2> QED BY <2>1, <2>2
<1> HIDE DEF U
<1>3. Nat \subseteq U
  BY <1>1, <1>2, SetInduction
<1> QED BY <1>3 DEF U

(* How the value of a function at each place of D comes from the one       *)
(* before it.                                                              *)
Rules(D, S) == [D -> [S -> S]]

(* f begins with b and follows step up to m, or without end. *)
Follows(f, b, step) ==
  f[0] = b /\ \A n \in Nat : f[n + 1] = step[n + 1][f[n]]

FollowsUpTo(f, m, b, step) ==
  f[0] = b /\ \A n \in 1..m : f[n] = step[n][f[n - 1]]

(* A function that is given by its value at 0 and by how each value comes  *)
(* from the one before it.                                                 *)
LEMMA RecursiveOnNat ==
  ASSUME NEW S, NEW b \in S, NEW step \in Rules(Nat, S)
  PROVE  \E f \in [Nat -> S] : Follows(f, b, step)
<1> USE DEF Rules
<1> DEFINE G(n) == {g \in [0..n -> S] :
                      /\ g[0] = b
                      /\ \A k \in 0..n : k # n => g[k + 1] = step[k + 1][g[k]]}
           E == {n \in Nat : G(n) # {}}
<1>1. 0 \in E
  <2>1. [i \in 0..0 |-> b] \in G(0)
    OBVIOUS
  <2> QED BY <2>1
<1>2. ASSUME NEW n \in Nat, n \in E PROVE n + 1 \in E
  <2>1. PICK g : g \in G(n)
    BY <1>2
  <2>2. /\ g \in [0..n -> S] /\ g[0] = b
        /\ \A k \in 0..n : k # n => g[k + 1] = step[k + 1][g[k]]
    BY <2>1
  <2> DEFINE h == [k \in 0..(n + 1) |->
                     IF k = n + 1 THEN step[n + 1][g[n]] ELSE g[k]]
  <2>3. h \in [0..(n + 1) -> S]
    <3>1. g[n] \in S /\ step[n + 1] \in [S -> S]
      BY <2>2
    <3>2. step[n + 1][g[n]] \in S
      BY <3>1
    <3>3. \A k \in 0..(n + 1) : k # n + 1 => g[k] \in S
      BY <2>2
    <3> QED BY <3>2, <3>3
  <2>4. h[0] = b
    BY <2>2
  <2>5. ASSUME NEW k \in 0..(n + 1), k # n + 1
        PROVE  h[k + 1] = step[k + 1][h[k]]
    <3>1. h[k] = g[k] /\ k \in 0..n
      BY <2>5
    <3>2. CASE k = n
      BY <3>1, <3>2
    <3>3. CASE k # n
      <4>1. k + 1 \in 0..(n + 1) /\ k + 1 # n + 1
        BY <3>1, <3>3
      <4>2. h[k + 1] = g[k + 1]
        BY <4>1
      <4> QED BY <2>2, <3>1, <3>3, <4>2
    <3> QED BY <3>2, <3>3
  <2> HIDE DEF h
  <2>6. h \in G(n + 1)
    BY <2>3, <2>4, <2>5
  <2> QED BY <2>6
<1>3. ASSUME NEW n \in Nat PROVE G(n) # {}
  <2> HIDE DEF E
  <2>1. Nat \subseteq E
    BY <1>1, <1>2, SetInduction
  <2> QED BY <2>1 DEF E
<1>4. ASSUME NEW n \in Nat, NEW m \in Nat, n <= m,
             NEW g \in G(n), NEW h \in G(m)
      PROVE  g[n] = h[n]
  <2> DEFINE A == {k \in 0..n : g[k] = h[k]}
  <2>1. 0 \in A
    OBVIOUS
  <2>2. ASSUME NEW k \in 0..n, k # n, k \in A PROVE k + 1 \in A
    <3>1. k \in 0..m /\ k # m /\ k + 1 \in 0..n
      BY <1>4, <2>2
    <3>2. g[k + 1] = step[k + 1][g[k]] /\ h[k + 1] = step[k + 1][h[k]]
      BY <2>2, <3>1
    <3> QED BY <2>2, <3>1, <3>2
  <2> HIDE DEF A
  <2>3. 0..n \subseteq A
    BY <2>1, <2>2, BoundedInduction
  <2> QED BY <2>3 DEF A
<1> DEFINE c == [n \in Nat |-> CHOOSE g : g \in G(n)]
           f == [n \in Nat |-> c[n][n]]
<1>5. \A n \in Nat : c[n] \in G(n)
  <2> HIDE DEF G
  <2> QED BY <1>3
<1> HIDE DEF c
<1>6. ASSUME NEW n \in Nat
      PROVE  c[n][n] \in S /\ c[n + 1][n + 1] = step[n + 1][c[n][n]]
  <2>1. n + 1 \in Nat /\ n <= n + 1
    OBVIOUS
  <2>2. c[n] \in G(n) /\ c[n + 1] \in G(n + 1)
    BY <1>5, <2>1
  <2>3. c[n][n] = c[n + 1][n]
    <3> HIDE DEF G
    <3> QED BY <1>4, <2>1, <2>2
  <2>4. c[n + 1][n + 1] = step[n + 1][c[n + 1][n]]
    <3>1. n \in 0..(n + 1) /\ n # n + 1
      OBVIOUS
    <3> QED BY <2>2, <3>1
  <2>5. c[n][n] \in S
    BY <2>2
  <2> QED BY <2>3, <2>4, <2>5
<1>7. c[0][0] = b
  BY <1>5
<1>8. f \in [Nat -> S] /\ f[0] = b
  BY <1>6, <1>7
<1>9. \A n \in Nat : f[n + 1] = step[n + 1][f[n]]
  BY <1>6
<1> QED BY <1>8, <1>9 DEF Follows

(* The same up to a bound. *)
LEMMA RecursiveUpTo ==
  ASSUME NEW S, NEW m \in Nat, NEW b \in S, NEW step \in Rules(1..m, S)
  PROVE  \E f \in [0..m -> S] : FollowsUpTo(f, m, b, step)
<1> DEFINE more == [n \in Nat |-> IF n \in 1..m THEN step[n]
                                  ELSE [x \in S |-> x]]
<1>1. more \in Rules(Nat, S)
  BY DEF Rules
<1>2. /\ \A n \in 1..m : more[n] = step[n]
      /\ \A n \in 1..m : n \in Nat /\ n - 1 \in Nat /\ n - 1 + 1 = n
  OBVIOUS
<1> HIDE DEF more
<1>3. PICK f \in [Nat -> S] : Follows(f, b, more)
  BY <1>1, RecursiveOnNat
<1> DEFINE g == [n \in 0..m |-> f[n]]
<1>4. g \in [0..m -> S] /\ g[0] = b
  BY <1>3 DEF Follows
<1>5. ASSUME NEW n \in 1..m PROVE g[n] = step[n][g[n - 1]]
  <2>1. f[n] = more[n][f[n - 1]]
    BY <1>2, <1>3 DEF Follows
  <2>2. n - 1 \in 0..m /\ n \in 0..m
    OBVIOUS
  <2> QED BY <1>2, <2>1, <2>2
<1> QED BY <1>4, <1>5 DEF FollowsUpTo

-----------------------------------------------------------------------------
(* Counting. *)

(* At most K things in each of the places P are at most |P| * K things.    *)
LEMMA FiberBound ==
  ASSUME NEW C, IsFiniteSet(C), NEW P, IsFiniteSet(P), NEW K \in Nat,
         NEW f \in [C -> P],
         \A p \in P : Cardinality({c \in C : f[c] = p}) <= K
  PROVE  Cardinality(C) <= Cardinality(P) * K
<1> DEFINE Fiber(p) == {c \in C : f[c] = p}
           number(p) ==
             CHOOSE g : g \in [Fiber(p) -> 1..K]
                        /\ \A a, b \in Fiber(p) : g[a] = g[b] => a = b
<1>1. ASSUME NEW p \in P
      PROVE  \E g : g \in [Fiber(p) -> 1..K]
                   /\ \A a, b \in Fiber(p) : g[a] = g[b] => a = b
  <2> DEFINE F == Fiber(p)
             n == Cardinality(F)
  <2>1. IsFiniteSet(F) /\ n \in Nat
    <3>1. F \in SUBSET C
      OBVIOUS
    <3>2. IsFiniteSet(F)
      BY <3>1, FS_Subset
    <3> QED BY <3>2, FS_CardinalityType
  <2>2. n <= K
    OBVIOUS
  <2>3. IsFiniteSet(1..n) /\ Cardinality(1..n) = n
    <3>1. 1 \in Int /\ n \in Int /\ (n = 0 \/ n - 1 + 1 = n)
      BY <2>1
    <3> HIDE DEF n
    <3>2. /\ IsFiniteSet(1..n)
          /\ Cardinality(1..n) = IF 1 > n THEN 0 ELSE n - 1 + 1
      BY <3>1, FS_Interval
    <3>3. n = 0 => 1 > n
      OBVIOUS
    <3>4. n # 0 => ~(1 > n)
      BY <2>1
    <3> QED BY <3>1, <3>2, <3>3, <3>4
  <2> HIDE DEF n, F
  <2>4. ExistsBijection(F, 1..n)
    BY <2>1, <2>3, FS_SameCardinalityBij DEF n
  <2>5. PICK g : g \in Bijection(F, 1..n)
    BY <2>4 DEF ExistsBijection
  <2>6. g \in [F -> 1..n] /\ \A a, b \in F : g[a] = g[b] => a = b
    BY <2>5 DEF Bijection, Injection, IsInjective
  <2>7. g \in [F -> 1..K]
    BY <2>1, <2>2, <2>6
  <2> QED BY <2>6, <2>7 DEF F
<1>2. ASSUME NEW c \in C
      PROVE  /\ number(f[c])[c] \in 1..K
             /\ \A d \in C : f[d] = f[c] /\ number(f[c])[d] = number(f[c])[c]
                            => d = c
  <2>1. f[c] \in P /\ c \in Fiber(f[c])
    OBVIOUS
  <2>2. /\ number(f[c]) \in [Fiber(f[c]) -> 1..K]
        /\ \A a, b \in Fiber(f[c]) :
             number(f[c])[a] = number(f[c])[b] => a = b
    <3> HIDE DEF Fiber
    <3> QED BY <1>1, <2>1
  <2> HIDE DEF number
  <2> QED BY <2>1, <2>2
<1> HIDE DEF number
<1> DEFINE D == 1..K
           g == [c \in C |-> number(f[c])[c]]
           h == [c \in C |-> <<f[c], g[c]>>]
<1>3. g \in [C -> D] /\ \A c, d \in C : f[c] = f[d] /\ g[c] = g[d] => c = d
  BY <1>2
<1>4. IsFiniteSet(D) /\ Cardinality(D) = K
  <2>1. IsFiniteSet(D) /\ Cardinality(D) = IF 1 > K THEN 0 ELSE K - 1 + 1
    BY FS_Interval
  <2>2. (IF 1 > K THEN 0 ELSE K - 1 + 1) = K
    OBVIOUS
  <2> QED BY <2>1, <2>2
<1> HIDE DEF D, g
<1>5. IsFiniteSet(P \X D) /\ Cardinality(P \X D) = Cardinality(P) * K
  <2>1. Cardinality(P \X D) = Cardinality(P) * Cardinality(D)
    BY <1>4, FS_Product
  <2>2. IsFiniteSet(P \X D)
    BY <1>4, FS_Product
  <2> QED BY <1>4, <2>1, <2>2
<1>6. h \in Injection(C, P \X D)
  <2>1. \A c \in C : f[c] \in P /\ g[c] \in D
    BY <1>3
  <2>2. h \in [C -> P \X D]
    BY <2>1
  <2>3. \A c, d \in C : h[c] = h[d] => f[c] = f[d] /\ g[c] = g[d]
    OBVIOUS
  <2> HIDE DEF h
  <2> QED BY <1>3, <2>2, <2>3 DEF Injection, IsInjective
<1>7. Cardinality(C) <= Cardinality(P \X D)
  <2> HIDE DEF h
  <2> QED BY <1>5, <1>6, FS_Injection
<1> QED BY <1>5, <1>7

LEMMA OneMoreElement ==
  ASSUME NEW S, IsFiniteSet(S), NEW x
  PROVE  /\ Cardinality(S) \in Nat /\ IsFiniteSet(S \cup {x})
         /\ Cardinality(S \cup {x}) \in Nat
         /\ Cardinality(S \cup {x}) <= Cardinality(S) + 1
<1>1. /\ IsFiniteSet(S \cup {x})
      /\ Cardinality(S \cup {x}) =
           IF x \in S THEN Cardinality(S) ELSE Cardinality(S) + 1
  BY FS_AddElement
<1>2. Cardinality(S) \in Nat /\ Cardinality(S \cup {x}) \in Nat
  BY <1>1, FS_CardinalityType
<1> QED BY <1>1, <1>2

LEMMA OneElementLess ==
  ASSUME NEW S, IsFiniteSet(S), NEW x \in S
  PROVE  /\ IsFiniteSet(S \ {x}) /\ Cardinality(S \ {x}) \in Nat
         /\ Cardinality(S) \in Nat
         /\ Cardinality(S \ {x}) + 1 = Cardinality(S)
<1>1. /\ IsFiniteSet(S \ {x})
      /\ Cardinality(S \ {x}) = Cardinality(S) - 1
  BY FS_RemoveElement
<1>2. Cardinality(S) \in Nat /\ Cardinality(S \ {x}) \in Nat
  BY <1>1, FS_CardinalityType
<1> QED BY <1>1, <1>2
=============================================================================
