---------------------------- MODULE DetectorProofs ----------------------------
(***************************************************************************)
(* For any gaps between samples, any values, limits and configurations:    *)
(* the regression is least squares by pairs of samples, a leak has its     *)
(* evidence inside the window, and what lies before the window does not    *)
(* count.                                                                  *)
(*                                                                         *)
(* The sums are folds over finite sets.  What a fold computes is proved    *)
(* here from its definition, for functions: that the recursive function    *)
(* behind it exists and is unique, and then, by induction over the         *)
(* subsets, that a sum may be split, scaled and moved.                     *)
(***************************************************************************)
EXTENDS MCLeakDetector, FiniteSetTheorems, WellFoundedInduction,
        SequenceTheorems, TLAPS

-----------------------------------------------------------------------------
\* Numbers and induction.

\* Every set of naturals that is not empty has a least member.
LEMMA LeastNat ==
    ASSUME NEW T, T \subseteq Nat, T # {}
    PROVE  \E x \in T : \A y \in T : x <= y
<1> DEFINE R == OpToRel(<, Nat)
<1>1. IsWellFoundedOn(R, Nat)
  BY NatLessThanWellFounded
<1>2. \A x, y \in Nat : x < y => <<x, y>> \in R
  BY DEF OpToRel
<1> HIDE DEF R
<1>3. PICK x \in T : \A y \in T : <<y, x>> \notin R
  BY <1>1, WFMin
<1>4. ASSUME NEW y \in T PROVE x <= y
  <2>1. ~ (y < x)
    BY <1>2, <1>3
  <2> QED
    BY <2>1
<1> QED
  BY <1>4

\* Induction: a set with 0 that holds each successor holds every number.
LEMMA Counted ==
    ASSUME NEW T, 0 \in T, \A n \in Nat : n \in T => n + 1 \in T
    PROVE  Nat \subseteq T
<1> SUFFICES ASSUME NEW k \in Nat, k \notin T PROVE FALSE
  OBVIOUS
<1> DEFINE B == {n \in Nat : n \notin T}
<1>1. PICK m \in B : \A n \in B : m <= n
  <2>1. B \subseteq Nat /\ B # {}
    OBVIOUS
  <2> HIDE DEF B
  <2> QED
    BY <2>1, LeastNat
<1>2. m \in Nat /\ m # 0 /\ m - 1 \in Nat /\ m - 1 \notin B
  BY <1>1
<1>3. m - 1 \in T /\ (m - 1) + 1 = m
  BY <1>2
<1> QED
  BY <1>1, <1>2, <1>3

\* Induction over a finite set: a family that holds the empty set, and a set
\* with all that lack one element of it, holds the set.
LEMMA Gathered ==
    ASSUME NEW S, IsFiniteSet(S), NEW F, {} \in F,
           \A U \in SUBSET S :
              U # {} /\ (\A x \in U : U \ {x} \in F) => U \in F
    PROVE  S \in F
<1> DEFINE T == {n \in Nat : \A U \in SUBSET S : Cardinality(U) = n => U \in F}
<1>0. \A U \in SUBSET S : IsFiniteSet(U) /\ Cardinality(U) \in Nat
  BY FS_Subset, FS_CardinalityType
<1>1. 0 \in T
  <2>1. \A U \in SUBSET S : Cardinality(U) = 0 => U = {}
    BY <1>0, FS_EmptySet
  <2> QED
    BY <2>1
<1>2. ASSUME NEW n \in Nat, n \in T PROVE n + 1 \in T
  <2> SUFFICES ASSUME NEW U \in SUBSET S, Cardinality(U) = n + 1
               PROVE  U \in F
    OBVIOUS
  <2>1. IsFiniteSet(U) /\ U # {}
    <3>1. Cardinality(U) # 0
      OBVIOUS
    <3> QED
      BY <3>1, <1>0, FS_EmptySet
  <2>2. ASSUME NEW x \in U PROVE U \ {x} \in F
    <3>1. Cardinality(U \ {x}) = Cardinality(U) - 1
      BY <2>1, FS_RemoveElement
    <3>2. Cardinality(U \ {x}) = n
      BY <3>1
    <3> QED
      BY <1>2, <3>2
  <2> QED
    BY <2>1, <2>2
<1>3. Nat \subseteq T
  <2> HIDE DEF T
  <2> QED
    BY <1>1, <1>2, Counted
<1> QED
  BY <1>0, <1>3

-----------------------------------------------------------------------------
\* Sums over finite sets.

\* h has the sums of f over the sets of T.
Sums(h, f, T) ==
    \A U \in T : h[U] = IF U = {} THEN 0
                        ELSE LET x == CHOOSE x \in U : TRUE
                             IN  f[x] + h[U \ {x}]

\* h has the sums of f over the subsets of S: the function a fold chooses.
IsSum(h, f, S) ==
    h = [U \in SUBSET S |-> IF U = {} THEN 0
                            ELSE LET x == CHOOSE x \in U : TRUE
                                 IN  f[x] + h[U \ {x}]]

\* What the fold of the community modules is.
LEMMA SumIsChosen ==
    ASSUME NEW f, NEW S
    PROVE  SumFunctionOnSet(f, S) = (CHOOSE h : IsSum(h, f, S))[S]
  BY DEF SumFunctionOnSet, FoldFunctionOnSet, MapThenFoldSet, IsSum

\* Such a function exists: it is found for the subsets of up to n elements,
\* one n after the other.
LEMMA SumExists ==
    ASSUME NEW f, NEW S, IsFiniteSet(S)
    PROVE  \E h : IsSum(h, f, S)
<1> DEFINE Up(n) == {U \in SUBSET S : Cardinality(U) <= n}
           G == {n \in Nat : \E h : /\ h = [U \in SUBSET S |-> h[U]]
                                   /\ Sums(h, f, Up(n))}
<1>0. \A U \in SUBSET S : IsFiniteSet(U) /\ Cardinality(U) \in Nat
  BY FS_Subset, FS_CardinalityType
<1>1. 0 \in G
  <2> DEFINE h == [U \in SUBSET S |-> 0]
  <2>1. \A U \in Up(0) : U = {}
    BY <1>0, FS_EmptySet
  <2>2. Sums(h, f, Up(0))
    BY <2>1 DEF Sums
  <2>3. h = [U \in SUBSET S |-> h[U]]
    OBVIOUS
  <2> QED
    BY <2>2, <2>3
<1>2. ASSUME NEW n \in Nat, n \in G PROVE n + 1 \in G
  <2>1. PICK h : h = [U \in SUBSET S |-> h[U]] /\ Sums(h, f, Up(n))
    BY <1>2
  <2> DEFINE g == [U \in SUBSET S |-> IF U = {} THEN 0
                            ELSE LET x == CHOOSE x \in U : TRUE
                                 IN  f[x] + h[U \ {x}]]
  <2>2. \A U \in Up(n) : g[U] = h[U]
    BY <2>1 DEF Sums
  <2>3. ASSUME NEW U \in Up(n + 1), U # {}, NEW x \in U
        PROVE  U \ {x} \in Up(n)
    <3>1. Cardinality(U \ {x}) = Cardinality(U) - 1 /\ Cardinality(U) \in Nat
      BY <1>0, FS_RemoveElement
    <3> QED
      BY <3>1
  <2>4. Sums(g, f, Up(n + 1))
    <3> SUFFICES ASSUME NEW U \in Up(n + 1)
                 PROVE  g[U] = IF U = {} THEN 0
                        ELSE LET x == CHOOSE x \in U : TRUE
                             IN  f[x] + g[U \ {x}]
      BY DEF Sums
    <3>1. CASE U = {}
      BY <3>1
    <3>2. CASE U # {}
      <4> DEFINE x == CHOOSE x \in U : TRUE
      <4>1. x \in U
        BY <3>2
      <4>2. g[U \ {x}] = h[U \ {x}]
        <5> HIDE DEF x, g, Up
        <5> QED
          BY <4>1, <2>2, <2>3, <3>2
      <4>3. g[U] = f[x] + h[U \ {x}]
        BY <3>2
      <4> QED
        BY <3>2, <4>2, <4>3
    <3> QED
      BY <3>1, <3>2
  <2>5. g = [U \in SUBSET S |-> g[U]]
    OBVIOUS
  <2> HIDE DEF g, Up
  <2> QED
    BY <2>4, <2>5
<1>3. Cardinality(S) \in G
  <2> HIDE DEF G
  <2> QED
    BY <1>0, <1>1, <1>2, Counted
<1>4. PICK h : /\ h = [U \in SUBSET S |-> h[U]]
               /\ Sums(h, f, Up(Cardinality(S)))
  BY <1>3
<1>5. \A U \in SUBSET S : U \in Up(Cardinality(S))
  BY <1>0, FS_Subset
<1>6. IsSum(h, f, S)
  BY <1>4, <1>5 DEF IsSum, Sums
<1> QED
  BY <1>6

\* Any two such functions agree where both are defined.
LEMMA SumsAgree ==
    ASSUME NEW f, NEW g, NEW S, NEW T, NEW h, NEW k,
           IsSum(h, f, S), IsSum(k, g, T),
           NEW R, R \subseteq S, R \subseteq T, IsFiniteSet(R),
           \A x \in R : f[x] = g[x]
    PROVE  h[R] = k[R]
<1> DEFINE F == {U \in SUBSET R : h[U] = k[U]}
<1>1. {} \in F
  BY DEF IsSum
<1>2. ASSUME NEW U \in SUBSET R, U # {}, \A x \in U : U \ {x} \in F
      PROVE  U \in F
  <2> DEFINE x == CHOOSE x \in U : TRUE
  <2>1. x \in U
    BY <1>2
  <2>2. h[U] = f[x] + h[U \ {x}] /\ k[U] = g[x] + k[U \ {x}]
    BY <1>2 DEF IsSum
  <2> HIDE DEF x
  <2> QED
    BY <1>2, <2>1, <2>2
<1> HIDE DEF F
<1>3. R \in F
  BY <1>1, <1>2, Gathered
<1> QED
  BY <1>3 DEF F

\* The sum over nothing.
LEMMA SumEmpty ==
    ASSUME NEW f
    PROVE  SumFunctionOnSet(f, {}) = 0
<1>1. \E h : IsSum(h, f, {})
  BY SumExists, FS_EmptySet
<1>2. IsSum(CHOOSE h : IsSum(h, f, {}), f, {})
  BY <1>1
<1> QED
  BY <1>2, SumIsChosen DEF IsSum

\* A sum is one of its terms and the sum of the others.
LEMMA SumChosen ==
    ASSUME NEW S, IsFiniteSet(S), S # {}, NEW f
    PROVE  LET x == CHOOSE x \in S : TRUE
           IN  SumFunctionOnSet(f, S) = f[x] + SumFunctionOnSet(f, S \ {x})
<1> DEFINE x == CHOOSE x \in S : TRUE
           h == CHOOSE h : IsSum(h, f, S)
           k == CHOOSE k : IsSum(k, f, S \ {x})
<1>1. IsSum(h, f, S)
  BY SumExists
<1>2. IsFiniteSet(S \ {x})
  BY FS_Subset
<1>3. IsSum(k, f, S \ {x})
  BY <1>2, SumExists
<1>4. h[S] = f[x] + h[S \ {x}]
  <2> HIDE DEF h
  <2> QED
    BY <1>1 DEF IsSum
<1>5. SumFunctionOnSet(f, S) = h[S] /\ SumFunctionOnSet(f, S \ {x}) = k[S \ {x}]
  BY SumIsChosen
<1> HIDE DEF h, k, x
<1>6. h[S \ {x}] = k[S \ {x}]
  BY <1>1, <1>2, <1>3, SumsAgree
<1> QED
  BY <1>4, <1>5, <1>6 DEF x

\* A sum of integers is an integer.
LEMMA SumInt ==
    ASSUME NEW S, IsFiniteSet(S), NEW f, \A x \in S : f[x] \in Int
    PROVE  SumFunctionOnSet(f, S) \in Int
<1> DEFINE F == {U \in SUBSET S : SumFunctionOnSet(f, U) \in Int}
<1>1. {} \in F
  BY SumEmpty
<1>2. ASSUME NEW U \in SUBSET S, U # {}, \A x \in U : U \ {x} \in F
      PROVE  U \in F
  <2> DEFINE x == CHOOSE x \in U : TRUE
  <2>0. IsFiniteSet(U)
    BY FS_Subset
  <2>1. x \in U
    BY <1>2
  <2>2. SumFunctionOnSet(f, U) = f[x] + SumFunctionOnSet(f, U \ {x})
    BY <2>0, <1>2, SumChosen
  <2> HIDE DEF x
  <2> QED
    BY <1>2, <2>1, <2>2
<1> HIDE DEF F
<1>3. S \in F
  BY <1>1, <1>2, Gathered
<1> QED
  BY <1>3 DEF F

\* Any term may be taken out.
LEMMA SumWithout ==
    ASSUME NEW S, IsFiniteSet(S), NEW f, \A x \in S : f[x] \in Int, NEW y \in S
    PROVE  /\ SumFunctionOnSet(f, S) = f[y] + SumFunctionOnSet(f, S \ {y})
           /\ SumFunctionOnSet(f, S \ {y}) \in Int
<1> DEFINE F == {U \in SUBSET S : \A z \in U :
                    SumFunctionOnSet(f, U) = f[z] + SumFunctionOnSet(f, U \ {z})}
<1>0. \A U \in SUBSET S : IsFiniteSet(U) /\ SumFunctionOnSet(f, U) \in Int
  BY FS_Subset, SumInt
<1>1. {} \in F
  OBVIOUS
<1>2. ASSUME NEW U \in SUBSET S, U # {}, \A x \in U : U \ {x} \in F
      PROVE  U \in F
  <2> SUFFICES ASSUME NEW z \in U
               PROVE SumFunctionOnSet(f, U) = f[z] + SumFunctionOnSet(f, U \ {z})
    OBVIOUS
  <2> DEFINE x == CHOOSE x \in U : TRUE
  <2>1. x \in U
    OBVIOUS
  <2>2. SumFunctionOnSet(f, U) = f[x] + SumFunctionOnSet(f, U \ {x})
    BY <1>0, <1>2, SumChosen
  <2> HIDE DEF x
  <2>3. CASE x = z
    BY <2>2, <2>3
  <2>4. CASE x # z
    <3>1. SumFunctionOnSet(f, U \ {x})
            = f[z] + SumFunctionOnSet(f, (U \ {x}) \ {z})
      BY <1>2, <2>1, <2>4
    <3>2. SumFunctionOnSet(f, U \ {z})
            = f[x] + SumFunctionOnSet(f, (U \ {z}) \ {x})
      BY <1>2, <2>1, <2>4
    <3>3. (U \ {z}) \ {x} = (U \ {x}) \ {z}
      OBVIOUS
    <3>4. f[x] \in Int /\ f[z] \in Int
          /\ SumFunctionOnSet(f, (U \ {x}) \ {z}) \in Int
      BY <1>0, <2>1
    <3> DEFINE rest == SumFunctionOnSet(f, (U \ {x}) \ {z})
    <3>5. SumFunctionOnSet(f, U) = f[x] + (f[z] + rest)
      BY <2>2, <3>1
    <3>6. SumFunctionOnSet(f, U \ {z}) = f[x] + rest
      BY <3>2, <3>3
    <3> HIDE DEF F, rest
    <3>7. rest \in Int
      BY <3>4 DEF rest
    <3> QED
      BY <3>4, <3>5, <3>6, <3>7
  <2> QED
    BY <2>3, <2>4
<1> HIDE DEF F
<1>3. S \in F
  BY <1>1, <1>2, Gathered
<1> QED
  BY <1>0, <1>3 DEF F

\* The sum of sums.
LEMMA SumPlus ==
    ASSUME NEW S, IsFiniteSet(S), NEW f, NEW g, NEW h,
           \A x \in S : f[x] \in Int /\ g[x] \in Int /\ h[x] = f[x] + g[x]
    PROVE  SumFunctionOnSet(h, S)
              = SumFunctionOnSet(f, S) + SumFunctionOnSet(g, S)
<1> DEFINE F == {U \in SUBSET S : SumFunctionOnSet(h, U) =
                          SumFunctionOnSet(f, U) + SumFunctionOnSet(g, U)}
<1>0. \A U \in SUBSET S : /\ IsFiniteSet(U) /\ SumFunctionOnSet(f, U) \in Int
                          /\ SumFunctionOnSet(g, U) \in Int
  BY FS_Subset, SumInt
<1>1. {} \in F
  BY SumEmpty
<1>2. ASSUME NEW U \in SUBSET S, U # {}, \A x \in U : U \ {x} \in F
      PROVE  U \in F
  <2>1. PICK x \in U : TRUE
    BY <1>2
  <2>2. \A i \in U : f[i] \in Int /\ g[i] \in Int /\ h[i] \in Int
    OBVIOUS
  <2>3. /\ SumFunctionOnSet(f, U) = f[x] + SumFunctionOnSet(f, U \ {x})
        /\ SumFunctionOnSet(g, U) = g[x] + SumFunctionOnSet(g, U \ {x})
        /\ SumFunctionOnSet(h, U) = h[x] + SumFunctionOnSet(h, U \ {x})
    BY <1>0, <2>2, SumWithout
  <2>4. U \ {x} \in F
    BY <1>2
  <2>5. h[x] = f[x] + g[x]
    OBVIOUS
  <2>6. /\ SumFunctionOnSet(f, U \ {x}) \in Int
        /\ SumFunctionOnSet(g, U \ {x}) \in Int
    BY <1>0
  <2> QED
    BY <2>2, <2>3, <2>4, <2>5, <2>6
<1> HIDE DEF F
<1>3. S \in F
  BY <1>1, <1>2, Gathered
<1> QED
  BY <1>3 DEF F

\* A common factor.
LEMMA SumTimes ==
    ASSUME NEW S, IsFiniteSet(S), NEW f, NEW h, NEW c \in Int,
           \A x \in S : f[x] \in Int /\ h[x] = c * f[x]
    PROVE  SumFunctionOnSet(h, S) = c * SumFunctionOnSet(f, S)
<1> DEFINE F == {U \in SUBSET S : SumFunctionOnSet(h, U) =
                          c * SumFunctionOnSet(f, U)}
<1>0. \A U \in SUBSET S : /\ IsFiniteSet(U) /\ SumFunctionOnSet(f, U) \in Int
  BY FS_Subset, SumInt
<1>1. {} \in F
  BY SumEmpty
<1>2. ASSUME NEW U \in SUBSET S, U # {}, \A x \in U : U \ {x} \in F
      PROVE  U \in F
  <2>1. PICK x \in U : TRUE
    BY <1>2
  <2>2. \A i \in U : f[i] \in Int /\ h[i] \in Int
    OBVIOUS
  <2>3. /\ SumFunctionOnSet(f, U) = f[x] + SumFunctionOnSet(f, U \ {x})
        /\ SumFunctionOnSet(h, U) = h[x] + SumFunctionOnSet(h, U \ {x})
    BY <1>0, <2>2, SumWithout
  <2>4. SumFunctionOnSet(h, U \ {x}) = c * SumFunctionOnSet(f, U \ {x})
    BY <1>2
  <2>5. h[x] = c * f[x]
    OBVIOUS
  <2>6. SumFunctionOnSet(f, U \ {x}) \in Int /\ f[x] \in Int
    BY <1>0
  <2>7. \A a, b \in Int : c * (a + b) = c * a + c * b
    OBVIOUS
  <2> QED
    BY <2>3, <2>4, <2>5, <2>6, <2>7
<1> HIDE DEF F
<1>3. S \in F
  BY <1>1, <1>2, Gathered
<1> QED
  BY <1>3 DEF F

\* As many times the same.
LEMMA SumConstant ==
    ASSUME NEW S, IsFiniteSet(S), NEW f, NEW c \in Int, \A x \in S : f[x] = c
    PROVE  SumFunctionOnSet(f, S) = c * Cardinality(S)
<1> DEFINE F == {U \in SUBSET S : SumFunctionOnSet(f, U) = c * Cardinality(U)}
<1>0. \A U \in SUBSET S : IsFiniteSet(U) /\ Cardinality(U) \in Nat
  BY FS_Subset, FS_CardinalityType
<1>1. {} \in F
  BY SumEmpty, FS_EmptySet
<1>2. ASSUME NEW U \in SUBSET S, U # {}, \A x \in U : U \ {x} \in F
      PROVE  U \in F
  <2>1. PICK x \in U : TRUE
    BY <1>2
  <2>2. \A i \in U : f[i] \in Int
    OBVIOUS
  <2>3. SumFunctionOnSet(f, U) = f[x] + SumFunctionOnSet(f, U \ {x})
    BY <1>0, <2>2, SumWithout
  <2>4. SumFunctionOnSet(f, U \ {x}) = c * Cardinality(U \ {x}) /\ f[x] = c
    BY <1>2
  <2>5. Cardinality(U \ {x}) = Cardinality(U) - 1
    BY <1>0, FS_RemoveElement
  <2>6. \A n \in Nat : c + c * (n - 1) = c * n
    OBVIOUS
  <2> QED
    BY <1>0, <2>3, <2>4, <2>5, <2>6
<1> HIDE DEF F
<1>3. S \in F
  BY <1>1, <1>2, Gathered
<1> QED
  BY <1>3 DEF F

\* A sum of terms of which none is negative is none either, and positive if
\* one of them is.
LEMMA SumNat ==
    ASSUME NEW S, IsFiniteSet(S), NEW f, \A x \in S : f[x] \in Nat
    PROVE  /\ SumFunctionOnSet(f, S) \in Nat
           /\ \A x \in S : f[x] <= SumFunctionOnSet(f, S)
<1> DEFINE F == {U \in SUBSET S : SumFunctionOnSet(f, U) \in Nat}
<1>0. \A U \in SUBSET S : IsFiniteSet(U)
  BY FS_Subset
<1>1. {} \in F
  BY SumEmpty
<1>2. ASSUME NEW U \in SUBSET S, U # {}, \A x \in U : U \ {x} \in F
      PROVE  U \in F
  <2>1. PICK x \in U : TRUE
    BY <1>2
  <2>3. SumFunctionOnSet(f, U) = f[x] + SumFunctionOnSet(f, U \ {x})
    BY <1>0, SumWithout
  <2> QED
    BY <1>2, <2>3
<1> HIDE DEF F
<1>3. \A U \in SUBSET S : U \in F
  <2> SUFFICES ASSUME NEW U \in SUBSET S PROVE U \in F
    OBVIOUS
  <2>1. \A V \in SUBSET U : V # {} /\ (\A x \in V : V \ {x} \in F) => V \in F
    BY <1>2
  <2> QED
    BY <1>0, <1>1, <2>1, Gathered
<1>4. ASSUME NEW x \in S PROVE f[x] <= SumFunctionOnSet(f, S)
  <2>1. SumFunctionOnSet(f, S) = f[x] + SumFunctionOnSet(f, S \ {x})
    BY SumWithout
  <2>2. SumFunctionOnSet(f, S \ {x}) \in Nat
    BY <1>3 DEF F
  <2> QED
    BY <2>1, <2>2
<1> QED
  BY <1>3, <1>4 DEF F

\* A sum is not positive without a positive term.
LEMMA SumPositive ==
    ASSUME NEW S, IsFiniteSet(S), NEW f, \A x \in S : f[x] \in Int,
           SumFunctionOnSet(f, S) > 0
    PROVE  \E x \in S : f[x] > 0
<1> SUFFICES ASSUME \A x \in S : ~(f[x] > 0) PROVE FALSE
  OBVIOUS
<1> DEFINE g == [x \in S |-> (-1) * f[x]]
<1>1. \A x \in S : g[x] \in Nat /\ g[x] = (-1) * f[x]
  OBVIOUS
<1> HIDE DEF g
<1>2. SumFunctionOnSet(g, S) = (-1) * SumFunctionOnSet(f, S)
  BY <1>1, SumTimes
<1>3. SumFunctionOnSet(g, S) \in Nat
  BY <1>1, SumNat
<1>4. SumFunctionOnSet(f, S) \in Int
  BY SumInt
<1> QED
  BY <1>2, <1>3, <1>4

\* The places W, k places on.
Moved(W, k) == {i + k : i \in W}

\* The same terms at other places.
LEMMA SumMoved ==
    ASSUME NEW S, IsFiniteSet(S), S \subseteq Int, NEW k \in Int, NEW f, NEW g,
           \A x \in S : f[x] \in Int /\ g[x + k] = f[x]
    PROVE  SumFunctionOnSet(g, Moved(S, k)) = SumFunctionOnSet(f, S)
<1> DEFINE F == {U \in SUBSET S :
                    /\ IsFiniteSet(Moved(U, k))
                    /\ SumFunctionOnSet(g, Moved(U, k)) = SumFunctionOnSet(f, U)}
<1>0. \A U \in SUBSET S : IsFiniteSet(U)
  BY FS_Subset
<1>1. {} \in F
  <2>1. Moved({}, k) = {}
    BY DEF Moved
  <2> QED
    BY <2>1, FS_EmptySet, SumEmpty
<1>2. ASSUME NEW U \in SUBSET S, U # {}, \A x \in U : U \ {x} \in F
      PROVE  U \in F
  <2>1. PICK x \in U : TRUE
    BY <1>2
  <2>2. /\ x + k \in Moved(U, k)
        /\ Moved(U, k) \ {x + k} = Moved(U \ {x}, k)
        /\ Moved(U, k) = Moved(U \ {x}, k) \cup {x + k}
    BY DEF Moved
  <2>3. /\ IsFiniteSet(Moved(U \ {x}, k))
        /\ SumFunctionOnSet(g, Moved(U \ {x}, k)) = SumFunctionOnSet(f, U \ {x})
    BY <1>2
  <2>4. \A i \in Moved(U, k) : g[i] \in Int
    BY DEF Moved
  <2>5. g[x + k] = f[x]
    OBVIOUS
  <2>6. IsFiniteSet(Moved(U, k))
    <3>1. IsFiniteSet(Moved(U \ {x}, k) \cup {x + k})
      BY <2>3, FS_AddElement
    <3> QED
      BY <2>2, <3>1
  <2>7. SumFunctionOnSet(g, Moved(U, k))
          = g[x + k] + SumFunctionOnSet(g, Moved(U, k) \ {x + k})
    BY <2>2, <2>4, <2>6, SumWithout
  <2>8. SumFunctionOnSet(f, U) = f[x] + SumFunctionOnSet(f, U \ {x})
    BY <1>0, SumWithout
  <2> QED
    BY <2>2, <2>3, <2>5, <2>6, <2>7, <2>8
<1> HIDE DEF F
<1>3. S \in F
  BY <1>1, <1>2, Gathered
<1> QED
  BY <1>3 DEF F

-----------------------------------------------------------------------------
\* The fit is a sum over pairs.

\* Min is the least of a set of places.
LEMMA LeastOf ==
    ASSUME NEW W, W \subseteq Nat, W # {}
    PROVE  Min(W) \in W /\ \A i \in W : Min(W) <= i
  BY LeastNat DEF Min

\* One pair, multiplied out.
LEMMA PairTerm ==
    ASSUME NEW a \in Int, NEW b \in Int, NEW c \in Int, NEW d \in Int
    PROVE  (a - b) * (c - d) = a * c + ((-a) * d + ((-c) * b + b * d))
  OBVIOUS

\* The row of one sample: its differences to every other.
LEMMA Row ==
    ASSUME NEW S, IsFiniteSet(S), NEW x \in [S -> Int], NEW y \in [S -> Int],
           NEW i \in S, NEW row,
           \A j \in S : row[j] = (x[i] - x[j]) * (y[i] - y[j])
    PROVE  SumFunctionOnSet(row, S) =
              (x[i] * y[i]) * Cardinality(S)
                + ((-x[i]) * SumFunction(y)
                    + ((-y[i]) * SumFunction(x) + SumOfProducts(x, y)))
<1> DEFINE xy == [j \in S |-> x[j] * y[j]]
           a == [j \in S |-> x[i] * y[i]]
           b == [j \in S |-> (-x[i]) * y[j]]
           c == [j \in S |-> (-y[i]) * x[j]]
           d == [j \in S |-> (-y[i]) * x[j] + x[j] * y[j]]
           e == [j \in S |-> (-x[i]) * y[j] + ((-y[i]) * x[j] + x[j] * y[j])]
<1>0. x[i] \in Int /\ y[i] \in Int /\ -x[i] \in Int /\ -y[i] \in Int
      /\ x[i] * y[i] \in Int
  OBVIOUS
<1>1. \A j \in S : /\ x[j] \in Int /\ y[j] \in Int
                   /\ xy[j] \in Int /\ a[j] \in Int /\ b[j] \in Int
                   /\ c[j] \in Int /\ d[j] \in Int /\ e[j] \in Int
  OBVIOUS
<1>2. \A j \in S : /\ a[j] = x[i] * y[i]
                   /\ b[j] = (-x[i]) * y[j]
                   /\ c[j] = (-y[i]) * x[j]
                   /\ d[j] = c[j] + xy[j]
                   /\ e[j] = b[j] + d[j]
  OBVIOUS
<1>3. \A j \in S : row[j] = a[j] + e[j]
  BY PairTerm
<1>4. /\ SumFunction(x) = SumFunctionOnSet(x, S)
      /\ SumFunction(y) = SumFunctionOnSet(y, S)
  BY DEF SumFunction
<1>5. SumOfProducts(x, y) = SumFunctionOnSet(xy, S)
  BY DEF SumOfProducts, SumFunction
<1> HIDE DEF xy, a, b, c, d, e
<1>6. SumFunctionOnSet(a, S) = (x[i] * y[i]) * Cardinality(S)
  BY <1>0, <1>2, SumConstant
<1>7. SumFunctionOnSet(b, S) = (-x[i]) * SumFunctionOnSet(y, S)
  BY <1>0, <1>1, <1>2, SumTimes
<1>8. SumFunctionOnSet(c, S) = (-y[i]) * SumFunctionOnSet(x, S)
  BY <1>0, <1>1, <1>2, SumTimes
<1>9. SumFunctionOnSet(d, S) = SumFunctionOnSet(c, S) + SumFunctionOnSet(xy, S)
  BY <1>1, <1>2, SumPlus
<1>10. SumFunctionOnSet(e, S) = SumFunctionOnSet(b, S) + SumFunctionOnSet(d, S)
  BY <1>1, <1>2, SumPlus
<1>11. SumFunctionOnSet(row, S) = SumFunctionOnSet(a, S) + SumFunctionOnSet(e, S)
  BY <1>1, <1>3, SumPlus
<1> QED
  BY <1>4, <1>5, <1>6, <1>7, <1>8, <1>9, <1>10, <1>11

\* The identity behind the rows.
LEMMA Twice ==
    ASSUME NEW n \in Int, NEW p \in Int, NEW q \in Int, NEW r \in Int
    PROVE  n * p + ((-r) * q + ((-q) * r + p * n)) = 2 * (n * p - q * r)
  OBVIOUS

\* The sum of the sums of the rows.
SumOfRows(m, S) ==
    SumFunctionOnSet([i \in S |-> SumFunctionOnSet(m[i], S)], S)

\* The centred sum of products, as Numerator and Denominator compute it.
Centred(x, y, S) ==
    Cardinality(S) * SumOfProducts(x, y) - SumFunction(x) * SumFunction(y)

\* m has the products of the differences of any two samples.
PairProducts(m, x, y, S) ==
    \A i, j \in S : m[i][j] = (x[i] - x[j]) * (y[i] - y[j])

\* Twice the centred sum of products is the sum over all pairs of the products
\* of their differences.
LEMMA PairsOfProducts ==
    ASSUME NEW S, IsFiniteSet(S), NEW x \in [S -> Int], NEW y \in [S -> Int],
           NEW m, PairProducts(m, x, y, S)
    PROVE  Centred(x, y, S) \in Int /\ SumOfRows(m, S) = 2 * Centred(x, y, S)
<1> DEFINE n == Cardinality(S)
           X == SumFunction(x)
           Y == SumFunction(y)
           P == SumOfProducts(x, y)
           xy == [i \in S |-> x[i] * y[i]]
           rows == [i \in S |-> SumFunctionOnSet(m[i], S)]
<1>1. \A i \in S : x[i] \in Int /\ y[i] \in Int /\ xy[i] \in Int
  OBVIOUS
<1>2. /\ X = SumFunctionOnSet(x, S)
      /\ Y = SumFunctionOnSet(y, S)
      /\ P = SumFunctionOnSet(xy, S)
  BY DEF SumFunction, SumOfProducts
<1>3. \A i \in S : rows[i] = xy[i] * n + ((-x[i]) * Y + ((-y[i]) * X + P))
  <2> TAKE i \in S
  <2>1. \A j \in S : m[i][j] = (x[i] - x[j]) * (y[i] - y[j])
    BY DEF PairProducts
  <2>2. SumFunctionOnSet(m[i], S) = (x[i] * y[i]) * n
                + ((-x[i]) * Y + ((-y[i]) * X + P))
    BY <2>1, Row
  <2> QED
    BY <2>2
<1> HIDE DEF n, X, Y, P, xy, rows
<1>4. n \in Nat
  BY FS_CardinalityType DEF n
<1>5. X \in Int /\ Y \in Int /\ P \in Int
  BY <1>1, <1>2, SumInt
<1> DEFINE a == [i \in S |-> n * xy[i]]
           b == [i \in S |-> (-Y) * x[i]]
           c == [i \in S |-> (-X) * y[i]]
           d == [i \in S |-> P]
           e == [i \in S |-> c[i] + d[i]]
           f == [i \in S |-> b[i] + e[i]]
<1>6. \A i \in S : /\ a[i] = n * xy[i]
                   /\ b[i] = (-Y) * x[i]
                   /\ c[i] = (-X) * y[i]
                   /\ d[i] = P
                   /\ e[i] = c[i] + d[i]
                   /\ f[i] = b[i] + e[i]
  OBVIOUS
<1>7. -X \in Int /\ -Y \in Int
  BY <1>5
<1> HIDE DEF a, b, c, d, e, f
<1>8. \A i \in S : /\ a[i] \in Int /\ b[i] \in Int /\ c[i] \in Int
                   /\ d[i] \in Int /\ e[i] \in Int /\ f[i] \in Int
  BY <1>1, <1>4, <1>5, <1>6, <1>7
<1>9. \A i \in S : rows[i] = a[i] + f[i]
  <2> TAKE i \in S
  <2>1. /\ xy[i] * n = n * xy[i]
        /\ (-x[i]) * Y = (-Y) * x[i]
        /\ (-y[i]) * X = (-X) * y[i]
    BY <1>1, <1>4, <1>5
  <2> QED
    BY <1>3, <1>6, <2>1
<1>10. SumFunctionOnSet(a, S) = n * P
  BY <1>1, <1>2, <1>4, <1>6, SumTimes
<1>11. SumFunctionOnSet(b, S) = (-Y) * X
  BY <1>1, <1>2, <1>7, <1>6, SumTimes
<1>12. SumFunctionOnSet(c, S) = (-X) * Y
  BY <1>1, <1>2, <1>7, <1>6, SumTimes
<1>13. SumFunctionOnSet(d, S) = P * n
  BY <1>5, <1>6, SumConstant DEF n
<1>14. SumFunctionOnSet(e, S) = SumFunctionOnSet(c, S) + SumFunctionOnSet(d, S)
  BY <1>6, <1>8, SumPlus
<1>15. SumFunctionOnSet(f, S) = SumFunctionOnSet(b, S) + SumFunctionOnSet(e, S)
  BY <1>6, <1>8, SumPlus
<1>16. SumFunctionOnSet(rows, S) = SumFunctionOnSet(a, S) + SumFunctionOnSet(f, S)
  BY <1>8, <1>9, SumPlus
<1>17. SumFunctionOnSet(rows, S) = 2 * (n * P - X * Y)
  <2>1. SumFunctionOnSet(rows, S) = n * P + ((-Y) * X + ((-X) * Y + P * n))
    BY <1>10, <1>11, <1>12, <1>13, <1>14, <1>15, <1>16
  <2> QED
    BY <1>4, <1>5, <2>1, Twice
<1>18. n * P - X * Y \in Int
  BY <1>4, <1>5
<1> QED
  BY <1>17, <1>18 DEF n, X, Y, P, rows, SumOfRows, Centred

-----------------------------------------------------------------------------
\* The regression, by pairs.

\* A series as the sampler hands it to the detectors: oldest first.
OldestFirst(s) ==
    /\ s \in Seq(Sample)
    /\ \A i, j \in DOMAIN s : i <= j => s[i].time <= s[j].time

\* Samples and sets of their places.
Places(s, W) == W \subseteq DOMAIN s /\ DOMAIN s \subseteq Nat /\ IsFiniteSet(W)

\* The places and the fields of a series of samples.
LEMMA SeriesPlaces ==
    ASSUME NEW s \in Seq(Sample), NEW W \in SUBSET DOMAIN s
    PROVE  /\ Places(s, W)
           /\ \A i \in DOMAIN s : s[i].time \in Nat /\ s[i].workingSet \in Nat
                                  /\ s[i].limit \in Nat
<1>1. DOMAIN s = 1 .. Len(s) /\ Len(s) \in Nat
  OBVIOUS
<1>2. IsFiniteSet(1 .. Len(s))
  BY <1>1, FS_Interval
<1>3. IsFiniteSet(W)
  BY <1>1, <1>2, FS_Subset
<1>4. \A i \in DOMAIN s : s[i] \in Sample
  OBVIOUS
<1> QED
  BY <1>1, <1>3, <1>4 DEF Places, Sample

\* tw has the products of differences in time and bytes, tt those in time.
SamplePairs(tw, tt, s, W) ==
    \A i, j \in W :
        /\ tw[i][j] = (s[i].time - s[j].time)
                          * (s[i].workingSet - s[j].workingSet)
        /\ tt[i][j] = (s[i].time - s[j].time) * (s[i].time - s[j].time)

\* Numerator and Denominator are half the sums over pairs of samples.
LEMMA FitByPairs ==
    ASSUME NEW s \in Seq(Sample), NEW W \in SUBSET DOMAIN s,
           NEW tw, NEW tt, SamplePairs(tw, tt, s, W)
    PROVE  /\ Numerator(s, W) \in Int
           /\ Denominator(s, W) \in Int
           /\ SumOfRows(tw, W) = 2 * Numerator(s, W)
           /\ SumOfRows(tt, W) = 2 * Denominator(s, W)
<1> DEFINE x == Elapsed(s, W)
           y == UsedBytes(s, W)
           t0 == s[Min(W)].time
<1>0. IsFiniteSet(W) /\ W \subseteq Nat
  BY SeriesPlaces DEF Places
<1>1. \A i \in W : s[i].time \in Nat /\ s[i].workingSet \in Nat
  BY SeriesPlaces
<1>2. W # {} => t0 \in Nat
  BY <1>0, <1>1, LeastOf
<1>3. x \in [W -> Int] /\ \A i \in W : x[i] = s[i].time - t0
  BY <1>1, <1>2 DEF Elapsed
<1>4. y \in [W -> Int] /\ \A i \in W : y[i] = s[i].workingSet
  BY <1>1 DEF UsedBytes
<1>5. Numerator(s, W) = Centred(x, y, W) /\ Denominator(s, W) = Centred(x, x, W)
  BY DEF Numerator, Denominator, Centred
<1> HIDE DEF x, y, t0
<1>6. ASSUME NEW i \in W, NEW j \in W
      PROVE  /\ tw[i][j] = (x[i] - x[j]) * (y[i] - y[j])
             /\ tt[i][j] = (x[i] - x[j]) * (x[i] - x[j])
  <2>1. x[i] - x[j] = s[i].time - s[j].time
    <3>1. t0 \in Int /\ s[i].time \in Int /\ s[j].time \in Int
      BY <1>1, <1>2
    <3>2. x[i] = s[i].time - t0 /\ x[j] = s[j].time - t0
      BY <1>3
    <3>3. \A a, b, c \in Int : (a - c) - (b - c) = a - b
      OBVIOUS
    <3> QED
      BY <3>1, <3>2, <3>3
  <2>2. y[i] - y[j] = s[i].workingSet - s[j].workingSet
    BY <1>4
  <2> QED
    BY <2>1, <2>2 DEF SamplePairs
<1>7. PairProducts(tw, x, y, W) /\ PairProducts(tt, x, x, W)
  BY <1>6 DEF PairProducts
<1>8. Centred(x, y, W) \in Int /\ SumOfRows(tw, W) = 2 * Centred(x, y, W)
  BY <1>0, <1>3, <1>4, <1>7, PairsOfProducts
<1>9. Centred(x, x, W) \in Int /\ SumOfRows(tt, W) = 2 * Centred(x, x, W)
  BY <1>0, <1>3, <1>7, PairsOfProducts
<1> QED
  BY <1>5, <1>8, <1>9

\* Squares are not negative.
LEMMA SquareNat ==
    ASSUME NEW a \in Int
    PROVE  a * a \in Nat /\ (a # 0 => a * a > 0)
<1>1. CASE a >= 0
  <2>1. a \in Nat
    BY <1>1
  <2> QED
    BY <2>1
<1>2. CASE a < 0
  <2>1. -a \in Nat /\ a * a = (-a) * (-a)
    BY <1>2
  <2> QED
    BY <2>1
<1> QED
  BY <1>1, <1>2

\* A positive product has factors of one sign.
LEMMA SameSign ==
    ASSUME NEW a \in Int, NEW b \in Int, a * b > 0
    PROVE  (a > 0 /\ b > 0) \/ (a < 0 /\ b < 0)
<1>1. CASE a = 0 \/ b = 0
  BY <1>1
<1>2. ASSUME a > 0, b < 0 PROVE FALSE
  <2>1. a \in Nat /\ -b \in Nat
    BY <1>2
  <2>2. a * (-b) \in Nat
    BY <2>1
  <2>3. a * b = -(a * (-b))
    OBVIOUS
  <2> QED
    BY <2>2, <2>3
<1>3. ASSUME a < 0, b > 0 PROVE FALSE
  <2>1. -a \in Nat /\ b \in Nat
    BY <1>3
  <2>2. (-a) * b \in Nat
    BY <2>1
  <2>3. a * b = -((-a) * b)
    OBVIOUS
  <2> QED
    BY <2>2, <2>3
<1> QED
  BY <1>1, <1>2, <1>3

\* A line that rises needs two samples of which the later is the higher, and
\* then the times are not all equal.
LEMMA RisingPair ==
    ASSUME NEW s \in Seq(Sample), NEW W \in SUBSET DOMAIN s, Numerator(s, W) > 0
    PROVE  /\ \E i, j \in W : /\ s[i].time < s[j].time
                              /\ s[i].workingSet < s[j].workingSet
           /\ Denominator(s, W) > 0
<1> DEFINE tw == [i \in W |-> [j \in W |-> (s[i].time - s[j].time)
                                * (s[i].workingSet - s[j].workingSet)]]
           tt == [i \in W |-> [j \in W |-> (s[i].time - s[j].time)
                                * (s[i].time - s[j].time)]]
           rw == [i \in W |-> SumFunctionOnSet(tw[i], W)]
           rt == [i \in W |-> SumFunctionOnSet(tt[i], W)]
<1>0. IsFiniteSet(W)
  BY SeriesPlaces DEF Places
<1>1. \A i \in W : s[i].time \in Nat /\ s[i].workingSet \in Nat
  BY SeriesPlaces
<1>2. SamplePairs(tw, tt, s, W)
  BY DEF SamplePairs
<1>3. \A i \in W : /\ rw[i] = SumFunctionOnSet(tw[i], W)
                   /\ rt[i] = SumFunctionOnSet(tt[i], W)
  OBVIOUS
<1> HIDE DEF tw, tt
<1>4. /\ Numerator(s, W) \in Int /\ Denominator(s, W) \in Int
      /\ SumFunctionOnSet(rw, W) = 2 * Numerator(s, W)
      /\ SumFunctionOnSet(rt, W) = 2 * Denominator(s, W)
  <2>1. /\ Numerator(s, W) \in Int /\ Denominator(s, W) \in Int
        /\ SumOfRows(tw, W) = 2 * Numerator(s, W)
        /\ SumOfRows(tt, W) = 2 * Denominator(s, W)
    BY <1>2, FitByPairs
  <2> QED
    BY <2>1 DEF SumOfRows
<1> HIDE DEF rw, rt
<1>5. \A i, j \in W : tw[i][j] \in Int
  BY <1>1, <1>2 DEF SamplePairs
<1>6. \A i \in W : rw[i] \in Int
  BY <1>0, <1>3, <1>5, SumInt
<1>7. PICK i \in W : rw[i] > 0
  BY <1>0, <1>4, <1>6, SumPositive
<1>8. PICK j \in W : tw[i][j] > 0
  BY <1>0, <1>3, <1>5, <1>7, SumPositive
<1>9. \/ s[i].time - s[j].time > 0 /\ s[i].workingSet - s[j].workingSet > 0
      \/ s[i].time - s[j].time < 0 /\ s[i].workingSet - s[j].workingSet < 0
  <2> DEFINE a == s[i].time - s[j].time
             b == s[i].workingSet - s[j].workingSet
  <2>1. a \in Int /\ b \in Int
    BY <1>1
  <2>2. a * b > 0
    BY <1>2, <1>8 DEF SamplePairs
  <2> HIDE DEF a, b
  <2>3. (a > 0 /\ b > 0) \/ (a < 0 /\ b < 0)
    BY <2>1, <2>2, SameSign
  <2> QED
    BY <2>3 DEF a, b
<1>10. \E k, l \in W : /\ s[k].time < s[l].time
                       /\ s[k].workingSet < s[l].workingSet
  <2>1. CASE s[i].time - s[j].time > 0 /\ s[i].workingSet - s[j].workingSet > 0
    <3>1. s[j].time < s[i].time /\ s[j].workingSet < s[i].workingSet
      BY <1>1, <2>1
    <3> QED
      BY <3>1
  <2>2. CASE s[i].time - s[j].time < 0 /\ s[i].workingSet - s[j].workingSet < 0
    <3>1. s[i].time < s[j].time /\ s[i].workingSet < s[j].workingSet
      BY <1>1, <2>2
    <3> QED
      BY <3>1
  <2> QED
    BY <1>9, <2>1, <2>2
<1>11. \A k, l \in W : tt[k][l] \in Nat
  <2> TAKE k, l \in W
  <2> DEFINE a == s[k].time - s[l].time
  <2>1. a \in Int /\ tt[k][l] = a * a
    BY <1>1, <1>2 DEF SamplePairs
  <2> HIDE DEF a
  <2> QED
    BY <2>1, SquareNat
<1>12. tt[i][j] > 0
  <2> DEFINE a == s[i].time - s[j].time
  <2>1. a \in Int /\ a # 0
    BY <1>1, <1>9
  <2>2. tt[i][j] = a * a
    BY <1>2 DEF SamplePairs
  <2> HIDE DEF a
  <2> QED
    BY <2>1, <2>2, SquareNat
<1>13. \A k \in W : rt[k] \in Nat
  BY <1>0, <1>3, <1>11, SumNat
<1>14. tt[i][j] <= rt[i]
  BY <1>0, <1>3, <1>11, SumNat
<1>15. rt[i] <= SumFunctionOnSet(rt, W)
  BY <1>0, <1>13, SumNat
<1>16. Denominator(s, W) > 0
  <2>1. SumFunctionOnSet(rt, W) > 0
    BY <1>11, <1>12, <1>13, <1>14, <1>15, <1>4
  <2> QED
    BY <1>4, <2>1
<1> QED
  BY <1>10, <1>16

\* trendLeaking is the reference on any series.
LEMMA TrendByPairs ==
    ASSUME NEW s \in Seq(Sample), NEW w \in Nat, NEW g \in Nat
    PROVE  trendLeaking(s, DOMAIN s, [window |-> w, minGrowth |-> g])
              <=> Rises(s, w, g)
<1> DEFINE D == DOMAIN s
           tw == [i \in D |-> [j \in D |-> (s[i].time - s[j].time)
                                * (s[i].workingSet - s[j].workingSet)]]
           tt == [i \in D |-> [j \in D |-> (s[i].time - s[j].time)
                                * (s[i].time - s[j].time)]]
           n == Numerator(s, D)
           d == Denominator(s, D)
<1>1. Rises(s, w, g) <=> /\ PairSum(tw) > 0
                         /\ PairSum(tw) * w >= g * PairSum(tt)
  BY DEF Rises
<1>2. SamplePairs(tw, tt, s, D)
  BY DEF SamplePairs
<1>3. PairSum(tw) = SumOfRows(tw, D) /\ PairSum(tt) = SumOfRows(tt, D)
  <2>1. DOMAIN tw = D /\ DOMAIN tt = D
        /\ \A i \in D : DOMAIN tw[i] = D /\ DOMAIN tt[i] = D
    OBVIOUS
  <2> HIDE DEF tw, tt, D
  <2>2. /\ [i \in D |-> SumFunction(tw[i])] = [i \in D |-> SumFunctionOnSet(tw[i], D)]
        /\ [i \in D |-> SumFunction(tt[i])] = [i \in D |-> SumFunctionOnSet(tt[i], D)]
    BY <2>1 DEF SumFunction
  <2> QED
    BY <2>1, <2>2 DEF PairSum, SumFunction, SumOfRows
<1> HIDE DEF tw, tt
<1>4. n \in Int /\ d \in Int /\ PairSum(tw) = 2 * n /\ PairSum(tt) = 2 * d
  BY <1>2, <1>3, FitByPairs
<1>5. n > 0 => d > 0
  BY RisingPair
<1>6. trendLeaking(s, D, [window |-> w, minGrowth |-> g])
        <=> d # 0 /\ n > 0 /\ n * w >= g * d
  BY DEF trendLeaking
<1> HIDE DEF n, d, D
<1>7. n * w \in Int /\ g * d \in Int
      /\ (2 * n) * w = 2 * (n * w) /\ g * (2 * d) = 2 * (g * d)
  BY <1>4
<1>8. PairSum(tw) > 0 <=> n > 0
  BY <1>4
<1>9. PairSum(tw) * w >= g * PairSum(tt) <=> n * w >= g * d
  BY <1>4, <1>7
<1> QED
  BY <1>1, <1>4, <1>5, <1>6, <1>8, <1>9 DEF D

-----------------------------------------------------------------------------
\* The same window of a trimmed series.

\* A window that is moved by k places has as many samples.
LEMMA MovedCount ==
    ASSUME NEW W, IsFiniteSet(W), W \subseteq Int, NEW k \in Int
    PROVE  /\ IsFiniteSet(Moved(W, k))
           /\ Cardinality(Moved(W, k)) = Cardinality(W)
<1> DEFINE f == [i \in W |-> i + k]
<1>1. f \in [W -> Moved(W, k)]
  BY DEF Moved
<1>2. \A i, j \in W : f[i] = f[j] => i = j
  OBVIOUS
<1>3. \A j \in Moved(W, k) : \E i \in W : f[i] = j
  BY DEF Moved
<1> HIDE DEF f
<1>4. f \in Bijection(W, Moved(W, k))
  BY <1>1, <1>2, <1>3 DEF Bijection, Injection, Surjection, IsInjective
<1>5. ExistsBijection(W, Moved(W, k))
  BY <1>4 DEF ExistsBijection
<1> QED
  BY <1>5, FS_Bijection

\* The fit is the same where the samples are.
LEMMA MovedFit ==
    ASSUME NEW s \in Seq(Sample), NEW r \in Seq(Sample), NEW k \in Nat,
           NEW W \in SUBSET DOMAIN r, W # {},
           \A i \in W : i + k \in DOMAIN s /\ s[i + k] = r[i]
    PROVE  /\ Numerator(s, Moved(W, k)) = Numerator(r, W)
           /\ Denominator(s, Moved(W, k)) = Denominator(r, W)
<1> DEFINE V == Moved(W, k)
           x == Elapsed(r, W)
           y == UsedBytes(r, W)
           u == Elapsed(s, V)
           v == UsedBytes(s, V)
           xx == [i \in W |-> x[i] * x[i]]
           xy == [i \in W |-> x[i] * y[i]]
           uu == [i \in V |-> u[i] * u[i]]
           uv == [i \in V |-> u[i] * v[i]]
<1>1. /\ IsFiniteSet(W) /\ W \subseteq Nat /\ W \subseteq Int
      /\ \A i \in W : r[i].time \in Nat /\ r[i].workingSet \in Nat
  <2> HIDE DEF V, x, y, u, v, xx, xy, uu, uv
  <2>1. Places(r, W)
    BY SeriesPlaces
  <2>2. \A i \in DOMAIN r : r[i].time \in Nat /\ r[i].workingSet \in Nat
    BY SeriesPlaces
  <2>3. IsFiniteSet(W) /\ W \subseteq Nat
    BY <2>1 DEF Places
  <2> QED
    BY <2>2, <2>3
<1>2. /\ V \subseteq Nat /\ V # {}
      /\ \A i \in W : i + k \in V
      /\ \A j \in V : \E i \in W : j = i + k
  BY <1>1 DEF Moved
<1>3. Min(W) \in W /\ Min(V) = Min(W) + k
  <2>1. Min(W) \in W /\ \A i \in W : Min(W) <= i
    BY <1>1, LeastOf
  <2> HIDE DEF V
  <2>2. Min(V) \in V /\ \A j \in V : Min(V) <= j
    BY <1>2, LeastOf
  <2>3. PICK i \in W : Min(V) = i + k
    BY <1>2, <2>2
  <2>4. Min(V) <= Min(W) + k
    BY <1>2, <2>1, <2>2
  <2>5. Min(W) <= i
    BY <2>1
  <2> QED
    BY <1>1, <2>1, <2>3, <2>4, <2>5
<1> HIDE DEF V
<1>4. /\ DOMAIN x = W /\ DOMAIN y = W /\ DOMAIN u = V /\ DOMAIN v = V
      /\ \A i \in W : /\ x[i] = r[i].time - r[Min(W)].time
                      /\ y[i] = r[i].workingSet
      /\ \A j \in V : /\ u[j] = s[j].time - s[Min(V)].time
                      /\ v[j] = s[j].workingSet
  BY DEF Elapsed, UsedBytes
<1> HIDE DEF x, y, u, v, xx, xy, uu, uv
<1>5. ASSUME NEW i \in W PROVE u[i + k] = x[i] /\ v[i + k] = y[i]
  <2>1. s[i + k] = r[i] /\ s[Min(V)] = r[Min(W)] /\ i + k \in V
    BY <1>2, <1>3
  <2> QED
    BY <1>4, <2>1
<1>6. ASSUME NEW i \in W PROVE x[i] \in Int /\ y[i] \in Int
  <2>1. r[Min(W)].time \in Nat /\ r[i].time \in Nat /\ r[i].workingSet \in Nat
    BY <1>1, <1>3
  <2> QED
    BY <1>4, <2>1
<1>7. ASSUME NEW i \in W
      PROVE  /\ xx[i] \in Int /\ xy[i] \in Int
             /\ uu[i + k] = xx[i] /\ uv[i + k] = xy[i]
  <2>1. xx[i] = x[i] * x[i] /\ xy[i] = x[i] * y[i]
    BY DEF xx, xy
  <2>2. /\ uu[i + k] = u[i + k] * u[i + k]
        /\ uv[i + k] = u[i + k] * v[i + k]
    BY <1>2 DEF uu, uv
  <2>3. x[i] * x[i] \in Int /\ x[i] * y[i] \in Int
    BY <1>6
  <2> QED
    BY <1>5, <2>1, <2>2, <2>3
<1>8. /\ SumOfProducts(x, y) = SumFunctionOnSet(xy, W)
      /\ SumOfProducts(x, x) = SumFunctionOnSet(xx, W)
      /\ SumOfProducts(u, v) = SumFunctionOnSet(uv, V)
      /\ SumOfProducts(u, u) = SumFunctionOnSet(uu, V)
  BY <1>4 DEF SumOfProducts, SumFunction, xx, xy, uu, uv
<1>9. /\ SumFunction(x) = SumFunctionOnSet(x, W)
      /\ SumFunction(y) = SumFunctionOnSet(y, W)
      /\ SumFunction(u) = SumFunctionOnSet(u, V)
      /\ SumFunction(v) = SumFunctionOnSet(v, V)
  BY <1>4 DEF SumFunction
<1>10. /\ SumFunctionOnSet(uu, V) = SumFunctionOnSet(xx, W)
       /\ SumFunctionOnSet(uv, V) = SumFunctionOnSet(xy, W)
       /\ SumFunctionOnSet(u, V) = SumFunctionOnSet(x, W)
       /\ SumFunctionOnSet(v, V) = SumFunctionOnSet(y, W)
  <2>0. k \in Int
    OBVIOUS
  <2>1. SumFunctionOnSet(uu, V) = SumFunctionOnSet(xx, W)
    BY <1>1, <1>7, <2>0, SumMoved DEF V
  <2>2. SumFunctionOnSet(uv, V) = SumFunctionOnSet(xy, W)
    BY <1>1, <1>7, <2>0, SumMoved DEF V
  <2>3. SumFunctionOnSet(u, V) = SumFunctionOnSet(x, W)
    BY <1>1, <1>5, <1>6, <2>0, SumMoved DEF V
  <2>4. SumFunctionOnSet(v, V) = SumFunctionOnSet(y, W)
    BY <1>1, <1>5, <1>6, <2>0, SumMoved DEF V
  <2> QED
    BY <2>1, <2>2, <2>3, <2>4
<1>11. Cardinality(V) = Cardinality(W)
  BY <1>1, MovedCount DEF V
<1>12. Numerator(s, V) = Numerator(r, W)
  BY <1>8, <1>9, <1>10, <1>11 DEF Numerator, x, y, u, v
<1>13. Denominator(s, V) = Denominator(r, W)
  BY <1>8, <1>9, <1>10, <1>11 DEF Denominator, x, u
<1> QED
  BY <1>12, <1>13 DEF V

\* The detectors say the same of a series and of what trimming leaves of it.
LEMMA TrimmedSame ==
    ASSUME NEW s, OldestFirst(s), NEW d, d.window \in Nat, NEW t \in Nat,
           NEW cut \in 1 .. Len(s),
           cut > 1 => s[cut - 1].time + d.window < t,
           WindowCovered(SubSeq(s, cut, Len(s)), d.window, t)
    PROVE  Detect(SubSeq(s, cut, Len(s)), d, t) <=> Detect(s, d, t)
<1> DEFINE r == SubSeq(s, cut, Len(s))
           k == cut - 1
           W == WindowSamples(r, d.window, t)
           V == WindowSamples(s, d.window, t)
<1>1. s \in Seq(Sample) /\ Len(s) \in Nat /\ DOMAIN s = 1 .. Len(s) /\ k \in Nat
  BY DEF OldestFirst
<1>2. /\ r \in Seq(Sample) /\ Len(r) = Len(s) - k
      /\ \A i \in 1 .. Len(r) : r[i] = s[i + k]
  <2>1. r \in Seq(Sample) /\ Len(r) = Len(s) - cut + 1
        /\ \A i \in 1 .. (Len(s) - cut + 1) : r[i] = s[cut + i - 1]
    BY <1>1, SubSeqProperties
  <2> HIDE DEF r
  <2>2. Len(s) - cut + 1 = Len(s) - k /\ \A i \in Int : cut + i - 1 = i + k
    BY <1>1
  <2> QED
    BY <2>1, <2>2
<1>3. WindowCovered(r, d.window, t)
  OBVIOUS
<1> HIDE DEF r
<1>4. DOMAIN r = 1 .. Len(r) /\ Len(r) \in Nat
  BY <1>2
<1>5. \A i \in DOMAIN s : s[i].time \in Nat
  BY <1>1, SeriesPlaces
<1>6. \A i \in 1 .. Len(s) : i <= k => s[i].time + d.window < t
  <2> SUFFICES ASSUME NEW i \in 1 .. Len(s), i <= k
               PROVE  s[i].time + d.window < t
    OBVIOUS
  <2>1. cut > 1 /\ k \in DOMAIN s /\ i \in DOMAIN s
    BY <1>1
  <2>2. s[i].time <= s[k].time
    BY <2>1 DEF OldestFirst
  <2>3. s[k].time + d.window < t
    BY <2>1
  <2> QED
    BY <1>5, <2>1, <2>2, <2>3
<1>7. V = Moved(W, k)
  <2>1. ASSUME NEW j \in V PROVE \E i \in W : j = i + k
    <3>1. j \in 1 .. Len(s) /\ s[j].time + d.window >= t
      BY <1>1 DEF WindowSamples
    <3>2. ~(j <= k)
      BY <1>1, <1>5, <1>6, <3>1
    <3>3. j - k \in 1 .. Len(r) /\ (j - k) + k = j
      BY <1>1, <1>2, <3>1, <3>2
    <3>4. j - k \in W
      BY <1>2, <1>4, <3>1, <3>3 DEF WindowSamples
    <3> QED
      BY <3>3, <3>4
  <2>2. ASSUME NEW i \in W PROVE i + k \in V
    <3>1. i \in 1 .. Len(r) /\ r[i].time + d.window >= t
      BY <1>4 DEF WindowSamples
    <3>2. i + k \in 1 .. Len(s)
      BY <1>1, <1>2, <3>1
    <3> QED
      BY <1>1, <1>2, <3>1, <3>2 DEF WindowSamples
  <2> HIDE DEF V, W, k
  <2> QED
    BY <2>1, <2>2 DEF Moved
<1>8. WindowCovered(s, d.window, t)
  <2>1. Len(r) >= 2 /\ r[1].time + d.window <= t
    BY <1>3 DEF WindowCovered
  <2>2. Len(s) >= 2 /\ 1 \in DOMAIN s /\ cut \in DOMAIN s /\ 1 <= cut
    BY <1>1, <1>2, <2>1
  <2>3. r[1] = s[cut]
    BY <1>1, <1>2, <2>1
  <2>4. s[1].time <= s[cut].time
    BY <2>2 DEF OldestFirst
  <2>5. s[1].time \in Nat /\ s[cut].time \in Nat
    BY <1>5, <2>2
  <2>6. s[1].time + d.window <= t
    BY <2>1, <2>3, <2>4, <2>5
  <2> QED
    BY <2>2, <2>6 DEF WindowCovered
<1>9. W \in SUBSET DOMAIN r /\ IsFiniteSet(W) /\ W \subseteq Int
  <2>1. W \in SUBSET DOMAIN r
    BY DEF WindowSamples
  <2> QED
    BY <1>2, <1>4, <2>1, SeriesPlaces DEF Places
<1>10. \A i \in W : i + k \in DOMAIN s /\ i + k \in V /\ s[i + k] = r[i]
  <2> TAKE i \in W
  <2>1. i \in 1 .. Len(r)
    BY <1>4, <1>9
  <2>2. i + k \in DOMAIN s /\ s[i + k] = r[i]
    BY <1>1, <1>2, <2>1
  <2> HIDE DEF V, W
  <2>3. i + k \in V
    BY <1>7 DEF Moved
  <2> QED
    BY <2>2, <2>3
<1> HIDE DEF V, W, k
<1>11. Cardinality(V) = Cardinality(W)
  BY <1>1, <1>7, <1>9, MovedCount
<1>12. allExceed(s, V, d) <=> allExceed(r, W, d)
  <2>1. \A j \in V : \E i \in W : j = i + k
    BY <1>7 DEF Moved
  <2> QED
    BY <1>10, <2>1 DEF allExceed, exceeds
<1>13. CASE W = {}
  <2>1. Cardinality(W) = 0
    BY <1>13, FS_EmptySet
  <2>2. ~(Cardinality(W) >= 2) /\ ~(Cardinality(V) >= 2)
    BY <1>11, <2>1
  <2> QED
    BY <2>2 DEF Detect, V, W, r
<1>14. CASE W # {}
  <2>1. /\ Numerator(s, Moved(W, k)) = Numerator(r, W)
        /\ Denominator(s, Moved(W, k)) = Denominator(r, W)
    BY <1>1, <1>2, <1>9, <1>10, <1>14, MovedFit
  <2>2. trendLeaking(s, V, d) <=> trendLeaking(r, W, d)
    BY <1>7, <2>1 DEF trendLeaking
  <2>3. Detect(r, d, t) <=> /\ WindowCovered(r, d.window, t)
                            /\ Cardinality(W) >= 2
                            /\ d.mode # "trend" => allExceed(r, W, d)
                            /\ d.mode # "sustained" => trendLeaking(r, W, d)
    BY DEF Detect, W
  <2>4. Detect(s, d, t) <=> /\ WindowCovered(s, d.window, t)
                            /\ Cardinality(V) >= 2
                            /\ d.mode # "trend" => allExceed(s, V, d)
                            /\ d.mode # "sustained" => trendLeaking(s, V, d)
    BY DEF Detect, V
  <2>5. Detect(r, d, t) <=> Detect(s, d, t)
    BY <1>3, <1>8, <1>11, <1>12, <2>2, <2>3, <2>4
  <2> QED
    BY <2>5 DEF r
<1> QED
  BY <1>13, <1>14

-----------------------------------------------------------------------------
\* The theorems.

\* A series is oldest first, lies in the past and has one limit.
SeriesInv ==
    /\ now \in Nat
    /\ OldestFirst(samples)
    /\ \A i \in DOMAIN samples :
          samples[i].time <= now /\ samples[i].limit = Limit

\* The empty series is one.
LEMMA InitSeries == Init => SeriesInv
<1> SUFFICES ASSUME Init PROVE SeriesInv
  OBVIOUS
<1>1. samples = <<>> /\ now = 0
  BY DEF Init
<1>2. <<>> \in Seq(Sample) /\ DOMAIN samples = {}
  BY <1>1
<1> QED
  BY <1>1, <1>2 DEF SeriesInv, OldestFirst

\* A sample that is added is the last, and the clock does not go back.
LEMMA NextSeries == SeriesInv /\ [Next]_vars => SeriesInv'
<1> SUFFICES ASSUME SeriesInv, [Next]_vars PROVE SeriesInv'
  OBVIOUS
<1>0. /\ now \in Nat /\ samples \in Seq(Sample)
      /\ \A i \in DOMAIN samples : samples[i].time \in Nat
  BY SeriesPlaces DEF SeriesInv, OldestFirst
<1>1. CASE Observe
  <2>1. PICK gap \in Gaps, v \in Values :
           /\ now' = now + gap
           /\ samples' = Append(samples, [time |-> now + gap, workingSet |-> v,
                                          limit |-> Limit])
    BY <1>1 DEF Observe
  <2>2. gap \in Nat /\ v \in Nat /\ Limit \in Nat
    BY DetectorAssumption
  <2> DEFINE new == [time |-> now + gap, workingSet |-> v, limit |-> Limit]
             n == Len(samples)
  <2>3. new \in Sample /\ new.time = now' /\ new.limit = Limit
    BY <1>0, <2>1, <2>2 DEF Sample
  <2>4. now' \in Nat /\ now <= now' /\ samples' = Append(samples, new)
    BY <1>0, <2>1, <2>2
  <2> HIDE DEF new
  <2>5. /\ n \in Nat /\ DOMAIN samples = 1 .. n
        /\ samples' \in Seq(Sample)
        /\ DOMAIN samples' = 1 .. (n + 1)
        /\ samples'[n + 1] = new
        /\ \A i \in 1 .. n : samples'[i] = samples[i]
    BY <1>0, <2>3, <2>4
  <2>6. \A i \in DOMAIN samples : samples[i].time <= now /\ samples[i].limit = Limit
    BY DEF SeriesInv
  <2>7. ASSUME NEW i \in DOMAIN samples'
        PROVE  samples'[i].time <= now' /\ samples'[i].limit = Limit
    <3>1. CASE i = n + 1
      BY <2>3, <2>4, <2>5, <3>1
    <3>2. CASE i # n + 1
      <4>1. i \in DOMAIN samples /\ samples'[i] = samples[i]
        BY <2>5, <3>2
      <4> QED
        BY <1>0, <2>4, <2>6, <4>1
    <3> QED
      BY <3>1, <3>2
  <2>8. ASSUME NEW i \in DOMAIN samples', NEW j \in DOMAIN samples', i <= j
        PROVE  samples'[i].time <= samples'[j].time
    <3>1. CASE j = n + 1
      BY <2>3, <2>5, <2>7, <3>1
    <3>2. CASE j # n + 1
      <4>1. /\ i \in DOMAIN samples /\ samples'[i] = samples[i]
            /\ j \in DOMAIN samples /\ samples'[j] = samples[j]
        BY <2>5, <2>8, <3>2
      <4> QED
        BY <2>8, <4>1 DEF SeriesInv, OldestFirst
    <3> QED
      BY <3>1, <3>2
  <2> QED
    BY <2>4, <2>5, <2>7, <2>8 DEF SeriesInv, OldestFirst
<1>2. CASE Wait
  <2>1. now' = now + 1 /\ samples' = samples
    BY <1>2 DEF Wait
  <2>2. now' \in Nat /\ \A i \in DOMAIN samples : samples[i].time <= now'
    BY <1>0, <2>1 DEF SeriesInv
  <2> QED
    BY <2>1, <2>2 DEF SeriesInv, OldestFirst
<1>3. CASE UNCHANGED vars
  BY <1>3 DEF vars, SeriesInv, OldestFirst
<1> QED
  BY <1>1, <1>2, <1>3 DEF Next

\* Every series is one.
LEMMA SeriesAlways == Spec => []SeriesInv
<1> QED
  BY InitSeries, NextSeries, PTL DEF Spec

\* olsSlope and trendLeaking decide on every series as least squares by pairs of
\* samples does, also where all timestamps are equal and the slope's denominator
\* is zero (detect.go).
THEOREM TrendTheorem == Spec => []TrendMatchesReference
<1>1. SeriesInv => TrendMatchesReference
  <2> SUFFICES ASSUME SeriesInv, NEW w \in WindowLengths, NEW g \in Growths
               PROVE  trendLeaking(samples, DOMAIN samples,
                         [window |-> w, minGrowth |-> g]) <=> Rises(samples, w, g)
    BY DEF TrendMatchesReference
  <2>1. w \in Nat /\ g \in Nat
    BY DetectorAssumption
  <2> QED
    BY <2>1, TrendByPairs DEF SeriesInv, OldestFirst
<1> QED
  BY <1>1, SeriesAlways, PTL

\* What the configurations of the properties have.
LEMMA ConfigParts ==
    ASSUME NEW d \in Configs
    PROVE  /\ d.window \in Nat /\ d.percent \in Nat /\ d.minGrowth \in Nat
           /\ d.absolute = None \/ d.absolute \in Nat
  BY DetectorAssumption DEF Configs

\* What a report of a leak rests on; inside are the places in the window.
Evidence(d, inside) ==
    /\ \E i \in DOMAIN samples : now - samples[i].time >= d.window
    /\ Cardinality(inside) >= 2
    /\ d.mode # "trend" =>
          \A i \in inside : IF d.absolute = None
                            THEN 100 * samples[i].workingSet >= d.percent * Limit
                            ELSE samples[i].workingSet >= d.absolute
    /\ d.mode # "sustained" =>
          \E i, j \in inside : /\ samples[i].time < samples[j].time
                               /\ samples[i].workingSet < samples[j].workingSet

\* A leak is only reported on a window that is covered, holds two samples and
\* nothing that speaks against the mode (detect.go).
THEOREM EvidenceTheorem == Spec => []LeakHasEvidence
<1>1. SeriesInv => LeakHasEvidence
  <2> SUFFICES ASSUME SeriesInv, NEW d \in Configs, Detect(samples, d, now)
               PROVE  Evidence(d, {i \in DOMAIN samples :
                                     samples[i].time \in (now - d.window) .. now})
    BY DEF LeakHasEvidence, Evidence
  <2> DEFINE inside == {i \in DOMAIN samples :
                          samples[i].time \in (now - d.window) .. now}
             win == WindowSamples(samples, d.window, now)
  <2>1. /\ now \in Nat /\ samples \in Seq(Sample)
        /\ \A i \in DOMAIN samples : /\ samples[i].time <= now
                                     /\ samples[i].limit = Limit
    BY DEF SeriesInv, OldestFirst
  <2>2. /\ \A i \in DOMAIN samples : /\ samples[i].time \in Nat
                                     /\ samples[i].workingSet \in Nat
        /\ DOMAIN samples = 1 .. Len(samples) /\ Len(samples) \in Nat
    <3>1. DOMAIN samples = 1 .. Len(samples) /\ Len(samples) \in Nat
      BY <2>1
    <3>2. DOMAIN samples \in SUBSET DOMAIN samples
      OBVIOUS
    <3> QED
      BY <2>1, <3>1, <3>2, SeriesPlaces
  <2>3. /\ d.window \in Nat /\ d.percent \in Nat
        /\ d.absolute = None \/ d.absolute \in Nat
    BY ConfigParts
  <2>4. inside = win
    <3>1. ASSUME NEW i \in DOMAIN samples
          PROVE  samples[i].time \in (now - d.window) .. now
                    <=> samples[i].time + d.window >= now
      BY <2>1, <2>2, <2>3
    <3> QED
      BY <3>1 DEF WindowSamples
  <2>5. /\ WindowCovered(samples, d.window, now)
        /\ Cardinality(win) >= 2
        /\ d.mode # "trend" => allExceed(samples, win, d)
        /\ d.mode # "sustained" => trendLeaking(samples, win, d)
    BY DEF Detect
  <2>6. win \in SUBSET DOMAIN samples
    BY DEF WindowSamples
  <2> HIDE DEF inside, win
  <2>7. \E i \in DOMAIN samples : now - samples[i].time >= d.window
    <3>1. 1 \in DOMAIN samples /\ samples[1].time + d.window <= now
      BY <2>2, <2>5 DEF WindowCovered
    <3>2. now - samples[1].time >= d.window
      BY <2>1, <2>2, <2>3, <3>1
    <3> QED
      BY <3>1, <3>2
  <2>8. ASSUME d.mode # "trend", NEW i \in inside
        PROVE  IF d.absolute = None
               THEN 100 * samples[i].workingSet >= d.percent * Limit
               ELSE samples[i].workingSet >= d.absolute
    <3>1. exceeds(samples[i], d) /\ i \in DOMAIN samples
      BY <2>4, <2>5, <2>6, <2>8 DEF allExceed
    <3>2. CASE d.absolute # None
      BY <3>1, <3>2 DEF exceeds
    <3>3. CASE d.absolute = None
      <4>1. samples[i].workingSet * 100 >= Limit * d.percent
        BY <2>1, <3>1, <3>3 DEF exceeds
      <4>2. samples[i].workingSet * 100 = 100 * samples[i].workingSet
        BY <2>2, <3>1
      <4>3. Limit * d.percent = d.percent * Limit
        BY <2>3, DetectorAssumption
      <4> QED
        BY <3>3, <4>1, <4>2, <4>3
    <3> QED
      BY <3>2, <3>3
  <2>9. ASSUME d.mode # "sustained"
        PROVE  \E i, j \in inside :
                  /\ samples[i].time < samples[j].time
                  /\ samples[i].workingSet < samples[j].workingSet
    <3>1. Numerator(samples, win) > 0
      BY <2>5, <2>9 DEF trendLeaking
    <3> QED
      BY <2>1, <2>4, <2>6, <3>1, RisingPair
  <2>10. Cardinality(inside) >= 2
    BY <2>4, <2>5
  <2> QED
    BY <2>7, <2>8, <2>9, <2>10 DEF inside, Evidence
<1> QED
  BY <1>1, SeriesAlways, PTL

\* Samples from before the window, which Observe trims, never change the answer
\* while the window stays covered (buffer.go, detect.go).
THEOREM OldSamplesTheorem == Spec => []OldSamplesIgnored
<1>1. SeriesInv => OldSamplesIgnored
  <2> SUFFICES ASSUME SeriesInv, NEW d \in Configs, NEW cut \in 1 .. Len(samples),
                      cut > 1 => samples[cut - 1].time + d.window < now,
                      WindowCovered(SubSeq(samples, cut, Len(samples)), d.window, now)
               PROVE  Detect(SubSeq(samples, cut, Len(samples)), d, now)
                         <=> Detect(samples, d, now)
    BY DEF OldSamplesIgnored
  <2>1. OldestFirst(samples) /\ now \in Nat
    BY DEF SeriesInv
  <2>2. d.window \in Nat
    BY ConfigParts
  <2> QED
    BY <2>1, <2>2, TrimmedSame
<1> QED
  BY <1>1, SeriesAlways, PTL
=============================================================================
