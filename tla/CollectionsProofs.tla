------------------------- MODULE CollectionsProofs -------------------------
(***************************************************************************)
(* What the operators of Collections do, for any finite set, sequence and   *)
(* function, and the folds and the grouping of Documents.  The induction    *)
(* principles of the library take an operator; the two here take the set of *)
(* the good cases.                                                          *)
(***************************************************************************)
EXTENDS Documents, FiniteSetTheorems, SequenceTheorems, TLAPS

------------------------------------------------------------------------------
(* Induction.                                                               *)

(* A family of subsets of a finite set has one with no smaller one in it.   *)
LEMMA SmallestSubset ==
  ASSUME NEW S, IsFiniteSet(S), NEW Q \in SUBSET (SUBSET S), Q # {}
  PROVE  \E T \in Q : \A U \in Q : ~ (U \subseteq T /\ U # T)
<1>1. Q \subseteq FiniteSubsetsOf(S)
  BY FS_FiniteSubsetsOfFinite
<1>2. \E T \in Q : \A U \in Q : ~ (<<U, T>> \in StrictSubsetOrdering(S))
  BY <1>1, FS_StrictSubsetOrderingWellFounded, WFMin
<1>3. \A T, U \in Q : <<U, T>> \in StrictSubsetOrdering(S) <=> U \subseteq T /\ U # T
  <2> SUFFICES ASSUME NEW T \in Q, NEW U \in Q
               PROVE  <<U, T>> \in StrictSubsetOrdering(S) <=> U \subseteq T /\ U # T
    OBVIOUS
  <2>1. <<U, T>> \in (SUBSET S) \X (SUBSET S)
    OBVIOUS
  <2> QED BY <2>1 DEF StrictSubsetOrdering
<1> QED BY <1>2, <1>3

(* What holds of {}, and of a set with one more member, holds of them all.  *)
LEMMA OneByOne ==
  ASSUME NEW S, IsFiniteSet(S), NEW P, {} \in P,
         \A T \in SUBSET S : \A x \in S \ T : T \in P => T \cup {x} \in P
  PROVE  S \in P
<1> SUFFICES ASSUME S \notin P PROVE FALSE
  OBVIOUS
<1> DEFINE Q == {T \in SUBSET S : T \notin P}
<1>1. Q \in SUBSET (SUBSET S) /\ Q # {}
  OBVIOUS
<1>2. PICK T \in Q : \A U \in Q : ~ (U \subseteq T /\ U # T)
  <2> HIDE DEF Q
  <2> QED BY <1>1, SmallestSubset
<1>3. T # {} /\ T \subseteq S
  OBVIOUS
<1>4. PICK x \in T : TRUE
  BY <1>3
<1>5. T \ {x} \in SUBSET S /\ x \in S \ (T \ {x}) /\ (T \ {x}) \cup {x} = T
  BY <1>3
<1>6. T \ {x} \in P
  BY <1>2, <1>5
<1> QED BY <1>5, <1>6

(* A set of naturals has a least one.                                       *)
LEMMA LeastNatural ==
  ASSUME NEW S \in SUBSET Nat, S # {}
  PROVE  \E m \in S : \A x \in S : m <= x
<1>1. PICK n \in S : TRUE
  OBVIOUS
<1> DEFINE Q == {0..x : x \in {y \in S : y <= n}}
<1>2. IsFiniteSet(0..n)
  BY FS_Interval
<1>3. Q \in SUBSET (SUBSET (0..n)) /\ Q # {}
  OBVIOUS
<1>4. PICK T \in Q : \A U \in Q : ~ (U \subseteq T /\ U # T)
  <2> DEFINE B == 0..n
  <2>1. IsFiniteSet(B) /\ Q \in SUBSET (SUBSET B) /\ Q # {}
    BY <1>2, <1>3
  <2> HIDE DEF Q, B
  <2> QED BY <2>1, SmallestSubset
<1>5. PICK m \in S : m <= n /\ T = 0..m
  BY <1>4
<1>6. ASSUME NEW x \in S, x < m PROVE FALSE
  <2>1. 0..x \in Q
    BY <1>5, <1>6
  <2>2. 0..x \subseteq 0..m /\ m \in 0..m /\ m \notin 0..x
    BY <1>6
  <2> QED BY <1>4, <1>5, <2>1, <2>2
<1> QED BY <1>6

(* What holds of 0, and of the next number, holds up to n.                  *)
LEMMA UpTo ==
  ASSUME NEW n \in Nat, NEW P, 0 \in P, \A i \in 0..(n - 1) : i \in P => i + 1 \in P
  PROVE  \A i \in 0..n : i \in P
<1> SUFFICES ASSUME NEW k \in 0..n, k \notin P PROVE FALSE
  OBVIOUS
<1> DEFINE Q == {i \in 0..n : i \notin P}
<1>1. Q \in SUBSET Nat /\ Q # {}
  OBVIOUS
<1>2. PICK m \in Q : \A x \in Q : m <= x
  BY <1>1, LeastNatural
<1>3. m \in 0..n /\ m # 0
  OBVIOUS
<1>4. m - 1 \in 0..(n - 1) /\ (m - 1) + 1 = m
  BY <1>3
<1>5. m - 1 \in P
  <2> SUFFICES ASSUME m - 1 \notin P PROVE FALSE
    OBVIOUS
  <2>1. m - 1 \in Q
    BY <1>4
  <2> HIDE DEF Q
  <2> QED BY <1>2, <1>3, <2>1
<1> QED BY <1>4, <1>5

------------------------------------------------------------------------------
(* Sums.                                                                    *)

(* The equation of the recursive function inside SumOf.                     *)
First(S) == CHOOSE y \in S : TRUE
Adds(g, f) ==
  g = [S \in SUBSET DOMAIN f |-> IF S = {} THEN 0 ELSE f[First(S)] + g[S \ {First(S)}]]
Part(f, S) == (CHOOSE g : Adds(g, f))[S]

LEMMA SumIsPart == ASSUME NEW f PROVE SumOf(f) = Part(f, DOMAIN f)
BY DEF SumOf, Part, Adds, First

(* There is such a function.                                                *)
LEMMA SumExists ==
  ASSUME NEW f, IsFiniteSet(DOMAIN f)
  PROVE  \E g : Adds(g, f)
<1> DEFINE D == DOMAIN f
           N == Cardinality(D)
           Small(n) == {S \in SUBSET D : Cardinality(S) <= n}
           Good(g, n) == \A S \in Small(n) :
                            g[S] = IF S = {} THEN 0 ELSE f[First(S)] + g[S \ {First(S)}]
           P == {n \in 0..N : \E g : Good(g, n)}
<1>1. N \in Nat /\ \A S \in SUBSET D : IsFiniteSet(S) /\ Cardinality(S) \in 0..N
  BY FS_CardinalityType, FS_Subset
<1>2. 0 \in P
  <2> DEFINE g == [S \in SUBSET D |-> 0]
  <2>1. \A S \in Small(0) : S = {}
    BY <1>1, FS_EmptySet
  <2>2. Good(g, 0)
    BY <2>1
  <2>3. \E h : Good(h, 0)
    <3> HIDE DEF Good, g
    <3> QED BY <2>2
  <2>4. 0 \in 0..N
    BY <1>1
  <2> HIDE DEF Good
  <2> QED BY <2>3, <2>4
<1>3. ASSUME NEW n \in 0..(N - 1), n \in P PROVE n + 1 \in P
  <2>1. PICK g : Good(g, n)
    BY <1>3
  <2> DEFINE h == [S \in SUBSET D |->
                     IF Cardinality(S) <= n THEN g[S] ELSE f[First(S)] + g[S \ {First(S)}]]
  <2>2. ASSUME NEW S \in Small(n + 1), S # {}
        PROVE  /\ S \ {First(S)} \in SUBSET D /\ Cardinality(S \ {First(S)}) <= n
               /\ Cardinality(S \ {First(S)}) <= Cardinality(S)
    <3>1. First(S) \in S
      BY <2>2 DEF First
    <3>2. Cardinality(S \ {First(S)}) = Cardinality(S) - 1
      BY <1>1, <3>1, FS_RemoveElement
    <3>3. Cardinality(S) \in Nat /\ Cardinality(S) <= n + 1
      BY <1>1
    <3> QED BY <3>2, <3>3
  <2>3. ASSUME NEW S \in Small(n + 1)
        PROVE  h[S] = IF S = {} THEN 0 ELSE f[First(S)] + h[S \ {First(S)}]
    <3>1. S \in SUBSET D /\ Cardinality(S) \in Nat
      BY <1>1
    <3>2. CASE S = {}
      <4>1. Cardinality(S) <= n /\ S \in Small(n)
        BY <3>2, FS_EmptySet
      <4> QED BY <2>1, <3>2, <4>1
    <3>3. CASE S # {} /\ Cardinality(S) <= n
      <4>1. S \in Small(n)
        BY <3>3
      <4>2. h[S] = g[S] /\ h[S \ {First(S)}] = g[S \ {First(S)}]
        BY <2>2, <3>3
      <4> HIDE DEF h
      <4> QED BY <2>1, <3>3, <4>1, <4>2
    <3>4. CASE S # {} /\ ~ (Cardinality(S) <= n)
      <4>1. h[S] = f[First(S)] + g[S \ {First(S)}] /\ h[S \ {First(S)}] = g[S \ {First(S)}]
        BY <2>2, <3>4
      <4> HIDE DEF h
      <4> QED BY <3>4, <4>1
    <3> QED BY <3>2, <3>3, <3>4
  <2> HIDE DEF h
  <2>4. Good(h, n + 1)
    BY <2>3
  <2>5. n + 1 \in 0..N
    BY <1>1
  <2> QED BY <2>4, <2>5
<1> HIDE DEF P
<1>4. N \in P
  BY <1>1, <1>2, <1>3, UpTo
<1> USE DEF P
<1>5. PICK g : Good(g, N)
  BY <1>4
<1>6. Small(N) = SUBSET D
  BY <1>1
<1> DEFINE h == [S \in SUBSET D |-> g[S]]
<1>7. ASSUME NEW S \in SUBSET D
      PROVE  h[S] = IF S = {} THEN 0 ELSE f[First(S)] + h[S \ {First(S)}]
  BY <1>5, <1>6
<1>8. Adds(h, f)
  <2> HIDE DEF N
  <2> QED BY <1>7 DEF Adds
<1> QED BY <1>8

LEMMA PartAdds ==
  ASSUME NEW f, IsFiniteSet(DOMAIN f)
  PROVE  /\ Part(f, {}) = 0
         /\ \A S \in SUBSET DOMAIN f : S # {} =>
              Part(f, S) = f[First(S)] + Part(f, S \ {First(S)})
<1> DEFINE g == CHOOSE h : Adds(h, f)
<1>1. Adds(g, f)
  BY SumExists
<1> HIDE DEF g
<1>2. g = [S \in SUBSET DOMAIN f |-> IF S = {} THEN 0 ELSE f[First(S)] + g[S \ {First(S)}]]
  BY <1>1 DEF Adds
<1>3. \A S \in SUBSET DOMAIN f : g[S] = IF S = {} THEN 0 ELSE f[First(S)] + g[S \ {First(S)}]
  BY <1>2
<1> QED BY <1>3 DEF Part, g

(* Whichever member is taken first, the sum is the same.                    *)
LEMMA PartTakes ==
  ASSUME NEW f, IsFiniteSet(DOMAIN f), \A i \in DOMAIN f : f[i] \in Int
  PROVE  \A S \in SUBSET DOMAIN f :
           Part(f, S) \in Int /\ \A x \in S : Part(f, S) = f[x] + Part(f, S \ {x})
<1> DEFINE Good(S) == Part(f, S) \in Int /\ \A x \in S : Part(f, S) = f[x] + Part(f, S \ {x})
           Q == {S \in SUBSET DOMAIN f : ~ Good(S)}
<1> SUFFICES ASSUME Q # {} PROVE FALSE
  OBVIOUS
<1>1. Q \in SUBSET (SUBSET DOMAIN f)
  OBVIOUS
<1>2. PICK S \in Q : \A U \in Q : ~ (U \subseteq S /\ U # S)
  <2> HIDE DEF Q
  <2> QED BY <1>1, SmallestSubset
<1>3. S \in SUBSET DOMAIN f /\ ~ Good(S)
  OBVIOUS
<1>4. \A U \in SUBSET S : U # S => Good(U)
  <2> SUFFICES ASSUME NEW U \in SUBSET S, U # S, ~ Good(U) PROVE FALSE
    OBVIOUS
  <2>1. U \in Q
    BY <1>3
  <2> HIDE DEF Q, Good
  <2> QED BY <1>2, <2>1
<1>5. CASE S = {}
  BY <1>3, <1>5, PartAdds
<1>6. CASE S # {}
  <2> DEFINE c == First(S)
  <2>1. c \in S
    BY <1>6 DEF First
  <2> HIDE DEF c
  <2>2. Part(f, S) = f[c] + Part(f, S \ {c})
    BY <1>3, <1>6, PartAdds DEF c
  <2>3. Good(S \ {c})
    BY <1>4, <2>1
  <2>4. f[c] \in Int /\ Part(f, S \ {c}) \in Int /\ Part(f, S) \in Int
    BY <1>3, <2>1, <2>2, <2>3
  <2>5. ASSUME NEW x \in S, x # c PROVE Part(f, S) = f[x] + Part(f, S \ {x})
    <3> DEFINE R == (S \ {c}) \ {x}
    <3>1. R = (S \ {x}) \ {c} /\ x \in S \ {c} /\ c \in S \ {x}
      BY <2>1, <2>5
    <3>2. Good(S \ {x})
      BY <1>4
    <3> HIDE DEF R
    <3>3. Part(f, S \ {c}) = f[x] + Part(f, R)
      BY <2>3, <3>1 DEF R
    <3>4. Part(f, S \ {x}) = f[c] + Part(f, R)
      BY <3>1, <3>2
    <3>5. Good(R)
      <4>1. R \in SUBSET S /\ R # S
        BY <2>1 DEF R
      <4> HIDE DEF Good
      <4> QED BY <1>4, <4>1
    <3>6. Part(f, R) \in Int /\ f[x] \in Int
      BY <1>3, <3>5
    <3> QED BY <2>2, <2>4, <3>3, <3>4, <3>6
  <2>6. Good(S)
    BY <2>2, <2>4, <2>5
  <2> QED BY <1>3, <2>6
<1> QED BY <1>5, <1>6

(* A function on part of its domain, and its sum.                           *)
Terms(f, S) == [i \in S |-> f[i]]

LEMMA SumOfPart ==
  ASSUME NEW f, IsFiniteSet(DOMAIN f), NEW D \in SUBSET DOMAIN f
  PROVE  SumOf(Terms(f, D)) = Part(f, D)
<1> DEFINE g == Terms(f, D)
           P == {S \in SUBSET D : Part(g, S) = Part(f, S)}
           Q == {S \in SUBSET D : Part(g, S) # Part(f, S)}
<1>1. DOMAIN g = D /\ (\A i \in D : g[i] = f[i]) /\ IsFiniteSet(D)
  BY FS_Subset DEF Terms
<1> HIDE DEF g
<1> SUFFICES ASSUME Part(g, D) # Part(f, D) PROVE FALSE
  BY <1>1, SumIsPart DEF g
<1>2. Q \in SUBSET (SUBSET D) /\ Q # {}
  OBVIOUS
<1>3. PICK S \in Q : \A U \in Q : ~ (U \subseteq S /\ U # S)
  <2> HIDE DEF Q
  <2> QED BY <1>1, <1>2, SmallestSubset
<1>4. CASE S = {}
  BY <1>1, <1>4, PartAdds
<1>5. CASE S # {}
  <2> DEFINE c == First(S)
  <2>1. c \in S /\ S \in SUBSET D
    BY <1>5 DEF First
  <2> HIDE DEF c
  <2>2. Part(f, S) = f[c] + Part(f, S \ {c})
    BY <1>5, <2>1, PartAdds DEF c
  <2>3. Part(g, S) = g[c] + Part(g, S \ {c})
    BY <1>1, <1>5, <2>1, PartAdds DEF c
  <2>4. Part(g, S \ {c}) = Part(f, S \ {c})
    <3> SUFFICES ASSUME Part(g, S \ {c}) # Part(f, S \ {c}) PROVE FALSE
      OBVIOUS
    <3>1. S \ {c} \in Q
      BY <2>1
    <3> QED BY <1>3, <2>1, <3>1
  <2>5. Part(f, S) # Part(g, S)
    OBVIOUS
  <2> QED BY <1>1, <2>1, <2>2, <2>3, <2>4, <2>5
<1> QED BY <1>4, <1>5

(* Sums are of integers; of none it is 0, and any member may be taken out.  *)
Summable(f) == IsFiniteSet(DOMAIN f) /\ \A i \in DOMAIN f : f[i] \in Int

LEMMA SumOfNone == ASSUME NEW f, DOMAIN f = {} PROVE SumOf(f) = 0
<1>1. IsFiniteSet(DOMAIN f)
  BY FS_EmptySet
<1> QED BY <1>1, SumIsPart, PartAdds

LEMMA SumTakes ==
  ASSUME NEW f, Summable(f), NEW S \in SUBSET DOMAIN f
  PROVE  /\ SumOf(Terms(f, S)) \in Int
         /\ \A x \in S : SumOf(Terms(f, S)) = f[x] + SumOf(Terms(f, S \ {x}))
<1>1. IsFiniteSet(DOMAIN f) /\ \A i \in DOMAIN f : f[i] \in Int
  BY DEF Summable
<1>2. \A T \in SUBSET DOMAIN f : SumOf(Terms(f, T)) = Part(f, T)
  BY <1>1, SumOfPart
<1>3. \A T \in SUBSET DOMAIN f :
        Part(f, T) \in Int /\ \A x \in T : Part(f, T) = f[x] + Part(f, T \ {x})
  BY <1>1, PartTakes
<1>4. \A x \in S : S \ {x} \in SUBSET DOMAIN f
  OBVIOUS
<1> QED BY <1>2, <1>3, <1>4

LEMMA AllTerms == ASSUME NEW f, f = [i \in DOMAIN f |-> f[i]] PROVE Terms(f, DOMAIN f) = f
BY DEF Terms

LEMMA SumAdds ==
  ASSUME NEW f, Summable(f), NEW S \in SUBSET DOMAIN f, NEW x \in DOMAIN f \ S
  PROVE  SumOf(Terms(f, S \cup {x})) = SumOf(Terms(f, S)) + f[x]
<1>1. S \cup {x} \in SUBSET DOMAIN f /\ x \in S \cup {x} /\ (S \cup {x}) \ {x} = S
  OBVIOUS
<1>2. SumOf(Terms(f, S \cup {x})) = f[x] + SumOf(Terms(f, S))
  BY <1>1, SumTakes
<1>3. f[x] \in Int /\ SumOf(Terms(f, S)) \in Int
  BY SumTakes DEF Summable
<1> QED BY <1>2, <1>3


(* The sum over two sets that share nothing.                                *)
LEMMA SumSplits ==
  ASSUME NEW f, Summable(f), NEW S \in SUBSET DOMAIN f, NEW T \in SUBSET DOMAIN f, S \cap T = {}
  PROVE  SumOf(Terms(f, S \cup T)) = SumOf(Terms(f, S)) + SumOf(Terms(f, T))
<1> DEFINE P == {U \in SUBSET T : SumOf(Terms(f, S \cup U)) = SumOf(Terms(f, S)) + SumOf(Terms(f, U))}
<1>1. IsFiniteSet(T)
  BY FS_Subset DEF Summable
<1>2. \A U \in SUBSET DOMAIN f : SumOf(Terms(f, U)) \in Int
  BY SumTakes
<1>3. {} \in P
  <2>1. SumOf(Terms(f, {})) = 0
    BY SumOfNone DEF Terms
  <2> QED BY <1>2, <2>1
<1>4. ASSUME NEW U \in SUBSET T, NEW x \in T \ U, U \in P PROVE U \cup {x} \in P
  <2>1. S \cup U \in SUBSET DOMAIN f /\ x \in DOMAIN f \ (S \cup U) /\ U \in SUBSET DOMAIN f
    OBVIOUS
  <2>2. SumOf(Terms(f, (S \cup U) \cup {x})) = SumOf(Terms(f, S \cup U)) + f[x]
    BY <2>1, SumAdds
  <2>3. SumOf(Terms(f, U \cup {x})) = SumOf(Terms(f, U)) + f[x]
    BY <2>1, SumAdds
  <2>4. (S \cup U) \cup {x} = S \cup (U \cup {x})
    OBVIOUS
  <2>5. SumOf(Terms(f, S)) \in Int /\ SumOf(Terms(f, U)) \in Int /\ f[x] \in Int
    BY <1>2, <2>1 DEF Summable
  <2>6. SumOf(Terms(f, S \cup U)) = SumOf(Terms(f, S)) + SumOf(Terms(f, U))
    BY <1>4
  <2>7. SumOf(Terms(f, S \cup (U \cup {x}))) = SumOf(Terms(f, S \cup U)) + f[x]
    BY <2>2, <2>4
  <2>8. SumOf(Terms(f, S \cup (U \cup {x}))) = SumOf(Terms(f, S)) + SumOf(Terms(f, U \cup {x}))
    BY ONLY <2>3, <2>5, <2>6, <2>7
  <2> QED BY <2>8
<1>5. T \in P
  <2> HIDE DEF P
  <2> QED BY <1>1, <1>3, <1>4, OneByOne
<1> QED BY <1>5

(* The sum of nothing but zeros.                                            *)
LEMMA SumOfZeros ==
  ASSUME NEW f, Summable(f), NEW S \in SUBSET DOMAIN f, \A i \in S : f[i] = 0
  PROVE  SumOf(Terms(f, S)) = 0
<1> DEFINE P == {T \in SUBSET S : SumOf(Terms(f, T)) = 0}
<1>1. IsFiniteSet(S)
  BY FS_Subset DEF Summable
<1>2. {} \in P
  <2>1. DOMAIN Terms(f, {}) = {}
    BY DEF Terms
  <2> QED BY <2>1, SumOfNone
<1>3. ASSUME NEW T \in SUBSET S, NEW x \in S \ T, T \in P PROVE T \cup {x} \in P
  <2>1. T \in SUBSET DOMAIN f /\ x \in DOMAIN f \ T
    OBVIOUS
  <2>2. SumOf(Terms(f, T \cup {x})) = SumOf(Terms(f, T)) + f[x]
    BY <2>1, SumAdds
  <2>3. T \cup {x} \in SUBSET S /\ f[x] = 0 /\ SumOf(Terms(f, T)) = 0
    BY <1>3
  <2> QED BY <2>2, <2>3
<1> HIDE DEF P
<1>4. S \in P
  BY <1>1, <1>2, <1>3, OneByOne
<1> QED BY <1>4 DEF P

(* Sums of naturals are naturals, and grow with the set.                    *)
LEMMA SumGrows ==
  ASSUME NEW f, IsFiniteSet(DOMAIN f), \A i \in DOMAIN f : f[i] \in Nat,
         NEW T \in SUBSET DOMAIN f, NEW S \in SUBSET T
  PROVE  /\ SumOf(Terms(f, T)) \in Nat
         /\ SumOf(Terms(f, S)) <= SumOf(Terms(f, T))
<1>1. Summable(f)
  BY DEF Summable
<1>2. ASSUME NEW V \in SUBSET DOMAIN f PROVE SumOf(Terms(f, V)) \in Nat
  <2> DEFINE P == {U \in SUBSET V : SumOf(Terms(f, U)) \in Nat}
  <2>1. IsFiniteSet(V)
    BY FS_Subset
  <2>2. {} \in P
    BY SumOfNone DEF Terms
  <2>3. ASSUME NEW U \in SUBSET V, NEW x \in V \ U, U \in P PROVE U \cup {x} \in P
    <3>1. U \in SUBSET DOMAIN f /\ x \in DOMAIN f \ U
      OBVIOUS
    <3>2. SumOf(Terms(f, U \cup {x})) = SumOf(Terms(f, U)) + f[x]
      BY <1>1, <3>1, SumAdds
    <3>3. SumOf(Terms(f, U)) \in Nat /\ f[x] \in Nat
      BY <2>3
    <3> QED BY <3>2, <3>3
  <2>4. V \in P
    <3> HIDE DEF P
    <3> QED BY <2>1, <2>2, <2>3, OneByOne
  <2> QED BY <2>4
<1>3. S \in SUBSET DOMAIN f /\ T \ S \in SUBSET DOMAIN f /\ S \cap (T \ S) = {} /\ S \cup (T \ S) = T
  OBVIOUS
<1>4. SumOf(Terms(f, S \cup (T \ S))) = SumOf(Terms(f, S)) + SumOf(Terms(f, T \ S))
  BY ONLY <1>1, <1>3, SumSplits
<1>5. SumOf(Terms(f, S)) \in Nat /\ SumOf(Terms(f, T \ S)) \in Nat /\ SumOf(Terms(f, T)) \in Nat
  BY <1>2, <1>3
<1>6. SumOf(Terms(f, T)) = SumOf(Terms(f, S)) + SumOf(Terms(f, T \ S))
  BY <1>3, <1>4
<1> QED BY <1>5, <1>6

(* A sum does not depend on how its terms are named.                        *)
LEMMA SumMoves ==
  ASSUME NEW g, Summable(g), NEW S, IsFiniteSet(S), NEW h \in [S -> DOMAIN g],
         \A i, j \in S : h[i] = h[j] => i = j
  PROVE  SumOf([i \in S |-> g[h[i]]]) = SumOf(Terms(g, {h[i] : i \in S}))
<1> DEFINE f == [i \in S |-> g[h[i]]]
           Image(U) == {h[i] : i \in U}
           P == {U \in SUBSET S : SumOf(Terms(f, U)) = SumOf(Terms(g, Image(U)))}
<1>1. DOMAIN f = S /\ \A i \in S : f[i] = g[h[i]] /\ f[i] \in Int
  BY DEF Summable
<1>2. Summable(f) /\ f = [i \in DOMAIN f |-> f[i]]
  BY <1>1 DEF Summable
<1> HIDE DEF f
<1>3. {} \in P
  <2>1. Image({}) = {}
    OBVIOUS
  <2>2. SumOf(Terms(f, {})) = 0 /\ SumOf(Terms(g, {})) = 0
    BY SumOfNone DEF Terms
  <2> QED BY <2>1, <2>2
<1>4. ASSUME NEW U \in SUBSET S, NEW x \in S \ U, U \in P PROVE U \cup {x} \in P
  <2>1. SumOf(Terms(f, U \cup {x})) = SumOf(Terms(f, U)) + f[x]
    BY <1>1, <1>2, SumAdds
  <2>2. Image(U \cup {x}) = Image(U) \cup {h[x]}
    OBVIOUS
  <2>3. Image(U) \in SUBSET DOMAIN g /\ h[x] \in DOMAIN g \ Image(U)
    OBVIOUS
  <2> HIDE DEF Image
  <2>4. SumOf(Terms(g, Image(U) \cup {h[x]})) = SumOf(Terms(g, Image(U))) + g[h[x]]
    BY <2>3, SumAdds
  <2>5. SumOf(Terms(f, U)) = SumOf(Terms(g, Image(U))) /\ f[x] = g[h[x]]
    BY <1>1, <1>4
  <2> QED BY <2>1, <2>2, <2>4, <2>5
<1>5. S \in P
  <2> HIDE DEF P
  <2> QED BY <1>3, <1>4, OneByOne
<1>6. Terms(f, S) = f
  BY <1>1, <1>2, AllTerms
<1> QED BY <1>5, <1>6 DEF f

(* A sum of the sums of the groups is the sum over the groups' members.     *)
OfKeys(S, key, K) == {i \in S : key[i] \in K}
GroupSums(f, S, key, K) == [x \in K |-> SumOf(Terms(f, {i \in S : key[i] = x}))]
LEMMA SumOfGroups ==
  ASSUME NEW f, Summable(f), NEW S \in SUBSET DOMAIN f, NEW key, NEW K, IsFiniteSet(K)
  PROVE  SumOf(GroupSums(f, S, key, K)) = SumOf(Terms(f, OfKeys(S, key, K)))
<1> DEFINE Group(x) == {i \in S : key[i] = x}
           In(L) == {i \in S : key[i] \in L}
           g == [x \in K |-> SumOf(Terms(f, Group(x)))]
           P == {L \in SUBSET K : SumOf(Terms(g, L)) = SumOf(Terms(f, In(L)))}
<1>1. \A x : Group(x) \in SUBSET DOMAIN f
  OBVIOUS
<1>2. DOMAIN g = K /\ \A x \in K : g[x] = SumOf(Terms(f, Group(x))) /\ g[x] \in Int
  <2> HIDE DEF Group
  <2> QED BY <1>1, SumTakes
<1>3. Summable(g) /\ g = [x \in DOMAIN g |-> g[x]]
  BY <1>2 DEF Summable
<1> HIDE DEF g
<1>4. {} \in P
  <2>1. In({}) = {}
    OBVIOUS
  <2>2. SumOf(Terms(f, {})) = 0 /\ SumOf(Terms(g, {})) = 0
    BY SumOfNone DEF Terms
  <2> QED BY <2>1, <2>2
<1>5. ASSUME NEW L \in SUBSET K, NEW x \in K \ L, L \in P PROVE L \cup {x} \in P
  <2>1. SumOf(Terms(g, L \cup {x})) = SumOf(Terms(g, L)) + g[x]
    BY <1>2, <1>3, SumAdds
  <2>2. In(L \cup {x}) = In(L) \cup Group(x) /\ In(L) \cap Group(x) = {} /\ In(L) \in SUBSET DOMAIN f
    OBVIOUS
  <2> HIDE DEF In, Group
  <2>3. SumOf(Terms(f, In(L) \cup Group(x))) = SumOf(Terms(f, In(L))) + SumOf(Terms(f, Group(x)))
    BY <1>1, <2>2, SumSplits
  <2>4. SumOf(Terms(g, L)) = SumOf(Terms(f, In(L))) /\ g[x] = SumOf(Terms(f, Group(x)))
    BY <1>2, <1>5
  <2> QED BY <2>1, <2>2, <2>3, <2>4
<1>6. K \in P
  <2> HIDE DEF P
  <2> QED BY <1>4, <1>5, OneByOne
<1>7. Terms(g, K) = g
  BY <1>2, <1>3, AllTerms
<1> QED BY <1>6, <1>7 DEF g, GroupSums, OfKeys

------------------------------------------------------------------------------
(* The places of a finite set, and the members at them.                     *)

(* A member's rank is the number of the members up to it.                   *)
LEMMA RanksAre ==
  ASSUME NEW S \in SUBSET Int, IsFiniteSet(S)
  PROVE  /\ Cardinality(S) \in Nat
         /\ \A k \in 1..Cardinality(S) :
              Ascending(S)[k] \in S /\ Cardinality({y \in S : y <= Ascending(S)[k]}) = k
         /\ \A x \in S : Cardinality({y \in S : y <= x}) \in 1..Cardinality(S)
         /\ \A x, z \in S : Cardinality({y \in S : y <= x}) = Cardinality({y \in S : y <= z}) => x = z
<1> DEFINE n == Cardinality(S)
           upto(x) == {y \in S : y <= x}
           place == [x \in S |-> Cardinality(upto(x))]
<1>1. n \in Nat /\ IsFiniteSet(1..n) /\ Cardinality(1..n) = n
  BY FS_CardinalityType, FS_Interval
<1>2. \A x \in S : IsFiniteSet(upto(x)) /\ Cardinality(upto(x)) \in Nat /\ Cardinality(upto(x)) <= n
  BY FS_Subset, FS_CardinalityType
<1>3. ASSUME NEW x \in S, NEW z \in S, x < z PROVE place[x] < place[z]
  <2>1. upto(x) \cup {z} \in SUBSET upto(z) /\ z \notin upto(x)
    <3>1. x \in Int /\ z \in Int /\ \A y \in S : y \in Int
      OBVIOUS
    <3>2. \A y \in S : y <= x => y <= z
      BY <1>3, <3>1
    <3>3. z <= z /\ ~ (z <= x)
      BY <1>3, <3>1
    <3> QED BY <3>2, <3>3
  <2>2. Cardinality(upto(x) \cup {z}) = Cardinality(upto(x)) + 1
    BY <1>2, <2>1, FS_AddElement
  <2>3. Cardinality(upto(x) \cup {z}) <= Cardinality(upto(z))
    BY <1>2, <2>1, FS_Subset
  <2>4. Cardinality(upto(x)) \in Nat /\ Cardinality(upto(z)) \in Nat
    BY <1>2
  <2> HIDE DEF upto
  <2> QED BY <2>2, <2>3, <2>4
<1>4. ASSUME NEW x \in S PROVE place[x] \in 1..n
  <2>1. x \in upto(x)
    OBVIOUS
  <2>2. Cardinality(upto(x)) # 0
    BY <1>2, <2>1, FS_EmptySet
  <2>3. Cardinality(upto(x)) \in Nat /\ Cardinality(upto(x)) <= n
    BY <1>2
  <2> HIDE DEF upto, n
  <2> QED BY <1>1, <2>2, <2>3
<1>5. place \in Injection(S, 1..n)
  <2>1. \A x, z \in S : place[x] = place[z] => x = z
    <3> SUFFICES ASSUME NEW x \in S, NEW z \in S, place[x] = place[z], x # z PROVE FALSE
      OBVIOUS
    <3>1. x < z \/ z < x
      OBVIOUS
    <3>2. place[x] \in Int
      BY <1>4
    <3> HIDE DEF place
    <3> QED BY <1>3, <3>1, <3>2
  <2> QED BY <1>4, <2>1 DEF Injection, IsInjective
<1>6. place \in Surjection(S, 1..n)
  BY <1>1, <1>5, FS_Injection
<1>7. \A k \in 1..n : \E x \in S : Cardinality({y \in S : y <= x}) = k
  BY <1>6 DEF Surjection
<1> DEFINE a == Ascending(S)
<1>8. \A k \in 1..n : a[k] \in S /\ Cardinality({y \in S : y <= a[k]}) = k
  BY <1>7 DEF Ascending
<1> HIDE DEF a
<1>9. \A x \in S : Cardinality(upto(x)) \in 1..n
  BY <1>4
<1>10. \A x, z \in S : Cardinality(upto(x)) = Cardinality(upto(z)) => x = z
  BY <1>5 DEF Injection, IsInjective
<1> QED BY <1>1, <1>8, <1>9, <1>10 DEF a

(* The places of a finite set in ascending order are all of them, once.     *)
LEMMA AscendingPlaces ==
  ASSUME NEW S \in SUBSET Int, IsFiniteSet(S)
  PROVE  /\ Cardinality(S) \in Nat
         /\ \A k \in 1..Cardinality(S) : Ascending(S)[k] \in S
         /\ \A j, k \in 1..Cardinality(S) : Ascending(S)[j] = Ascending(S)[k] => j = k
         /\ \A x \in S : \E k \in 1..Cardinality(S) : Ascending(S)[k] = x
<1> DEFINE rank(x) == Cardinality({y \in S : y <= x})
           a == Ascending(S)
           n == Cardinality(S)
<1>1. /\ n \in Nat /\ \A k \in 1..n : a[k] \in S /\ rank(a[k]) = k
      /\ \A x \in S : rank(x) \in 1..n
      /\ \A x, z \in S : rank(x) = rank(z) => x = z
  BY RanksAre
<1> HIDE DEF rank, a, n
<1>2. \A x \in S : a[rank(x)] = x
  BY <1>1
<1>3. \A j, k \in 1..n : a[j] = a[k] => j = k
  BY <1>1
<1> QED BY <1>1, <1>2, <1>3 DEF a, n

(* A sequence, as a function of its places.                                 *)
IsSequence(s) == Len(s) \in Nat /\ s = [i \in 1..Len(s) |-> s[i]]

(* What Append makes of a sequence.                                         *)
LEMMA SequencesGrow ==
  ASSUME NEW s, IsSequence(s), NEW x
  PROVE  /\ DOMAIN s = 1..Len(s)
         /\ IsSequence(Append(s, x)) /\ Len(Append(s, x)) = Len(s) + 1
         /\ Append(s, x)[Len(s) + 1] = x /\ \A i \in 1..Len(s) : Append(s, x)[i] = s[i]
<1> DEFINE n == Len(s)
           T == {s[i] : i \in 1..n} \cup {x}
<1>1. n \in Nat /\ s \in [1..n -> T]
  BY DEF IsSequence
<1>2. s \in Seq(T) /\ x \in T
  BY <1>1
<1> HIDE DEF T
<1>3. Append(s, x) \in Seq(T) /\ Len(Append(s, x)) = n + 1
  BY <1>2
<1>4. Append(s, x)[n + 1] = x /\ \A i \in 1..n : Append(s, x)[i] = s[i]
  BY <1>2
<1>5. Append(s, x) = [i \in 1..(n + 1) |-> Append(s, x)[i]]
  <2> DEFINE l == Append(s, x)
  <2> HIDE DEF l, n
  <2>1. l \in [1..(n + 1) -> T]
    BY <1>3, LenProperties DEF l
  <2> QED BY ONLY <2>1 DEF l
<1> QED BY <1>1, <1>3, <1>4, <1>5 DEF IsSequence

(* What the members of Seq(S) are.                                           *)
LEMMA SequencesAre ==
  ASSUME NEW S, NEW s
  PROVE  s \in Seq(S) <=> IsSequence(s) /\ \A i \in 1..Len(s) : s[i] \in S
<1>1. s \in Seq(S) => IsSequence(s) /\ \A i \in 1..Len(s) : s[i] \in S
  BY DEF IsSequence
<1>2. IsSequence(s) /\ (\A i \in 1..Len(s) : s[i] \in S) => s \in Seq(S)
  <2> SUFFICES ASSUME IsSequence(s), \A i \in 1..Len(s) : s[i] \in S PROVE s \in Seq(S)
    OBVIOUS
  <2>1. Len(s) \in Nat /\ s \in [1..Len(s) -> S]
    BY DEF IsSequence
  <2> QED BY <2>1
<1> QED BY <1>1, <1>2

(* Part of a sequence.                                                      *)
LEMMA PartsAre ==
  ASSUME NEW s, IsSequence(s), NEW j \in Nat \ {0}, NEW k \in Nat, k <= Len(s)
  PROVE  LET p == SubSeq(s, j, k) IN
         /\ IsSequence(p) /\ Len(p) = IF j <= k THEN k - j + 1 ELSE 0
         /\ \A i \in 1..Len(p) : p[i] = s[j + i - 1] /\ j + i - 1 \in 1..Len(s)
<1> DEFINE p == SubSeq(s, j, k)
           S == {s[i] : i \in 1..Len(s)}
<1>1. Len(s) \in Nat
  BY DEF IsSequence
<1>2. \A i \in j..k : s[i] \in S
  BY <1>1
<1> HIDE DEF S
<1>3. /\ p \in Seq(S) /\ Len(p) = IF j <= k THEN k - j + 1 ELSE 0
      /\ \A i \in 1..(k - j + 1) : p[i] = s[j + i - 1]
  BY <1>2, SubSeqProperties
<1> HIDE DEF p
<1>4. IsSequence(p)
  BY <1>3, SequencesAre
<1>5. \A i \in 1..Len(p) : i \in 1..(k - j + 1) /\ j + i - 1 \in 1..Len(s)
  BY <1>1, <1>3
<1> QED BY <1>3, <1>4, <1>5 DEF p

(* The members picked are those at the places asked for, each once.         *)
LEMMA PickedMembers ==
  ASSUME NEW s, IsSequence(s), NEW at \in SUBSET DOMAIN s
  PROVE  /\ IsSequence(Picked(s, at)) /\ Len(Picked(s, at)) <= Len(s)
         /\ \A k \in 1..Len(Picked(s, at)) : Ascending(at)[k] \in at /\ Picked(s, at)[k] = s[Ascending(at)[k]]
         /\ \A j, k \in 1..Len(Picked(s, at)) : Ascending(at)[j] = Ascending(at)[k] => j = k
         /\ \A i \in at : \E k \in 1..Len(Picked(s, at)) : Picked(s, at)[k] = s[i]
<1> DEFINE n == Cardinality(at)
           p == Picked(s, at)
<1>1. DOMAIN s = 1..Len(s) /\ Len(s) \in Nat
  BY SequencesGrow DEF IsSequence
<1>2. IsFiniteSet(DOMAIN s) /\ Cardinality(DOMAIN s) = Len(s)
  BY <1>1, FS_Interval
<1>3. IsFiniteSet(at) /\ n <= Len(s) /\ at \in SUBSET Int
  BY <1>1, <1>2, FS_Subset
<1>4. p = [k \in 1..n |-> s[Ascending(at)[k]]]
  BY DEF Picked
<1>5. n \in Nat
  BY <1>3, FS_CardinalityType
<1> HIDE DEF n, p
<1>6. Len(p) = n /\ p = [k \in 1..n |-> p[k]]
  BY <1>4, <1>5
<1>7. \A k \in 1..n : p[k] = s[Ascending(at)[k]]
  BY <1>4
<1>8. /\ \A k \in 1..n : Ascending(at)[k] \in at
      /\ \A j, k \in 1..n : Ascending(at)[j] = Ascending(at)[k] => j = k
      /\ \A x \in at : \E k \in 1..n : Ascending(at)[k] = x
  BY <1>3, AscendingPlaces DEF n
<1> QED BY <1>3, <1>5, <1>6, <1>7, <1>8 DEF p, IsSequence


(* The places ascend, and a member's place is the number of those up to it. *)
LEMMA AscendingOrder ==
  ASSUME NEW S \in SUBSET Int, IsFiniteSet(S)
  PROVE  LET a == Ascending(S)  n == Cardinality(S) IN
         /\ \A k \in 1..n : Cardinality({y \in S : y <= a[k]}) = k
         /\ \A x \in S : LET k == Cardinality({y \in S : y <= x}) IN k \in 1..n /\ a[k] = x
         /\ \A j, k \in 1..n : j < k => a[j] < a[k]
<1> DEFINE a == Ascending(S)
           n == Cardinality(S)
           upto(x) == {y \in S : y <= x}
<1>1. /\ n \in Nat
      /\ \A k \in 1..n : a[k] \in S
      /\ \A x \in S : \E k \in 1..n : a[k] = x
  BY AscendingPlaces
<1>3. \A k \in 1..n : Cardinality(upto(a[k])) = k
  BY RanksAre
<1> HIDE DEF a, n
<1>4. \A x \in S : Cardinality(upto(x)) \in 1..n /\ a[Cardinality(upto(x))] = x
  <2> HIDE DEF upto
  <2> QED BY <1>1, <1>3
<1>5. ASSUME NEW j \in 1..n, NEW k \in 1..n, j < k PROVE a[j] < a[k]
  <2> SUFFICES ASSUME ~ (a[j] < a[k]) PROVE FALSE
    OBVIOUS
  <2>1. a[j] \in S /\ a[k] \in S /\ a[j] \in Int /\ a[k] \in Int
    BY <1>1
  <2>2. upto(a[k]) \in SUBSET upto(a[j]) /\ IsFiniteSet(upto(a[j]))
    <3>1. a[k] <= a[j]
      BY <2>1
    <3>2. \A y \in S : y <= a[k] => y <= a[j]
      BY <2>1, <3>1
    <3>3. upto(a[j]) \in SUBSET S
      OBVIOUS
    <3>4. IsFiniteSet(upto(a[j]))
      <4> HIDE DEF upto
      <4> QED BY <3>3, FS_Subset
    <3> QED BY <3>2, <3>4
  <2>3. Cardinality(upto(a[k])) <= Cardinality(upto(a[j]))
    BY <2>2, FS_Subset
  <2> HIDE DEF upto
  <2>4. Cardinality(upto(a[k])) = k /\ Cardinality(upto(a[j])) = j
    BY <1>3
  <2> QED BY <1>1, <1>5, <2>3, <2>4
<1> QED BY <1>3, <1>4, <1>5 DEF a, n


(* The members of an interval that a set has and those that it skips: the   *)
(* k-th that it has comes after k - 1 of the one kind and all the lower of  *)
(* the other.                                                               *)
LowerGaps(S, lo, hi, x) == Cardinality({d \in (lo..hi) \ S : d < x})

LEMMA Gaps ==
  ASSUME NEW lo \in Int, NEW hi \in Int, NEW S \in SUBSET (lo..hi), NEW k \in 1..Cardinality(S)
  PROVE  LET x == Ascending(S)[k]
         IN x \in S /\ LowerGaps(S, lo, hi, x) \in Nat /\ x - lo = k - 1 + LowerGaps(S, lo, hi, x)
<1> DEFINE I == lo..hi
           n == Cardinality(S)
           x == Ascending(S)[k]
           J == lo..x
           A == {y \in S : y <= x}
           B == {d \in I \ S : d < x}
<1>1. IsFiniteSet(I)
  BY FS_Interval
<1>2. IsFiniteSet(S) /\ S \in SUBSET Int
  <2>1. S \in SUBSET I
    OBVIOUS
  <2> HIDE DEF I
  <2>2. IsFiniteSet(S)
    BY <1>1, <2>1, FS_Subset
  <2> QED BY <2>2
<1>3. n \in Nat /\ x \in S /\ Cardinality(A) = k
  BY <1>2, AscendingPlaces, AscendingOrder
<1> HIDE DEF n, x
<1>4. x \in Int /\ lo <= x /\ x <= hi /\ k \in Nat
  BY <1>3
<1>5. IsFiniteSet(J) /\ Cardinality(J) = x - lo + 1
  BY <1>4, FS_Interval
<1>6. J = A \cup B /\ A \cap B = {}
  <2>1. \A d \in J : d \in A \/ d \in B
    <3> SUFFICES ASSUME NEW d \in J PROVE d \in A \/ d \in B
      OBVIOUS
    <3>1. d \in I /\ d \in Int /\ d <= x
      BY <1>4
    <3>2. d \notin S => d < x
      BY <1>3, <1>4, <3>1
    <3> QED BY <3>1, <3>2
  <2>2. \A d \in A : d \in J
    BY <1>4
  <2>3. \A d \in B : d \in J
    BY <1>4
  <2>4. A \cap B = {}
    OBVIOUS
  <2> HIDE DEF A, B, J
  <2> QED BY <2>1, <2>2, <2>3, <2>4
<1>7. IsFiniteSet(A) /\ IsFiniteSet(B)
  <2>1. A \in SUBSET J /\ B \in SUBSET J
    BY <1>6
  <2> HIDE DEF A, B, J
  <2> QED BY <1>5, <2>1, FS_Subset
<1> HIDE DEF A, B, J
<1>8. Cardinality(J) = Cardinality(A) + Cardinality(B) - Cardinality({})
  BY <1>6, <1>7, FS_Union
<1>9. Cardinality(B) \in Nat
  BY <1>7, FS_CardinalityType
<1>10. x - lo = k - 1 + Cardinality(B)
  BY <1>3, <1>4, <1>5, <1>8, <1>9, FS_EmptySet
<1> QED BY <1>3, <1>9, <1>10 DEF B, x, LowerGaps

(* Picking keeps the order: the k-th that is picked is at the k-th place.   *)
LEMMA PickedPlaces ==
  ASSUME NEW s, NEW n \in Nat, DOMAIN s = 1..n, NEW at \in SUBSET (1..n)
  PROVE  LET p == Picked(s, at)  a == Ascending(at)  m == Cardinality(at) IN
         /\ m \in Nat /\ m <= n /\ Len(p) = m /\ DOMAIN p = 1..m /\ p = [k \in 1..m |-> p[k]]
         /\ \A k \in 1..m : a[k] \in at /\ p[k] = s[a[k]]
         /\ \A j, k \in 1..m : j < k => a[j] < a[k]
         /\ \A i \in at : \E k \in 1..m : a[k] = i /\ p[k] = s[i]
         /\ (p = <<>>) <=> (at = {})
<1> DEFINE p == Picked(s, at)
           a == Ascending(at)
           m == Cardinality(at)
<1>1. IsFiniteSet(1..n) /\ Cardinality(1..n) = n
  BY FS_Interval
<1>2. IsFiniteSet(at) /\ m <= n /\ at \in SUBSET Int
  <2> DEFINE D == 1..n
  <2>1. IsFiniteSet(D) /\ Cardinality(D) = n /\ at \in SUBSET D /\ D \subseteq Int
    BY <1>1
  <2> HIDE DEF D, m
  <2>2. IsFiniteSet(at) /\ Cardinality(at) <= Cardinality(D)
    BY <2>1, FS_Subset
  <2> QED BY <2>1, <2>2 DEF m
<1>3. m \in Nat /\ (m = 0 <=> at = {})
  BY <1>2, FS_CardinalityType, FS_EmptySet
<1>4. p = [k \in 1..m |-> s[a[k]]]
  BY DEF Picked
<1>5. /\ \A k \in 1..m : a[k] \in at
      /\ \A i \in at : \E k \in 1..m : a[k] = i
      /\ \A j, k \in 1..m : j < k => a[j] < a[k]
  BY <1>2, AscendingPlaces, AscendingOrder
<1> HIDE DEF p, a, m
<1>6. Len(p) = m /\ DOMAIN p = 1..m /\ p = [k \in 1..m |-> p[k]] /\ \A k \in 1..m : p[k] = s[a[k]]
  BY <1>3, <1>4
<1>7. (p = <<>>) <=> (m = 0)
  <2>1. p = <<>> => m = 0
    BY <1>6
  <2>2. ASSUME m = 0 PROVE p = <<>>
    <3>1. p = [k \in 1..0 |-> p[k]]
      BY <1>6, <2>2
    <3>2. 1..0 = {}
      OBVIOUS
    <3> QED BY <3>1, <3>2
  <2> QED BY <2>1, <2>2
<1> QED BY <1>2, <1>3, <1>5, <1>6, <1>7 DEF p, a, m

(* Of two sets of places, the one the beginning of the other: what is       *)
(* picked at it is the beginning of what is picked at the other.            *)
LEMMA PickedPrefix ==
  ASSUME NEW s, NEW n \in Nat, DOMAIN s = 1..n, NEW at \in SUBSET (1..n), NEW of \in SUBSET at,
         \A x \in of : \A y \in at : y <= x => y \in of
  PROVE  LET m == Cardinality(of) IN
         /\ m \in Nat /\ m <= Cardinality(at)
         /\ \A k \in 1..Cardinality(at) : k <= m <=> Ascending(at)[k] \in of
         /\ Picked(s, of) = [k \in 1..m |-> Picked(s, at)[k]]
<1> DEFINE m == Cardinality(of)
           l == Cardinality(at)
           a == Ascending(at)
           b == Ascending(of)
           upto(x) == Cardinality({y \in at : y <= x})
           Upto(x) == Cardinality({y \in of : y <= x})
<1>1. of \in SUBSET (1..n) /\ at \in SUBSET Int /\ of \in SUBSET Int
  OBVIOUS
<1>2. IsFiniteSet(at) /\ IsFiniteSet(of)
  <2> DEFINE D == 1..n
  <2>1. IsFiniteSet(D) /\ at \in SUBSET D /\ of \in SUBSET D
    BY FS_Interval
  <2> HIDE DEF D
  <2> QED BY <2>1, FS_Subset
<1>3. m \in Nat /\ l \in Nat /\ m <= l
  BY <1>2, FS_Subset, FS_CardinalityType
<1>4. /\ \A k \in 1..l : a[k] \in at /\ upto(a[k]) = k
      /\ \A x \in at : upto(x) \in 1..l /\ a[upto(x)] = x
  BY <1>1, <1>2, AscendingPlaces, AscendingOrder
<1>5. /\ \A k \in 1..m : b[k] \in of /\ Upto(b[k]) = k
      /\ \A x \in of : Upto(x) \in 1..m /\ b[Upto(x)] = x
  BY <1>1, <1>2, AscendingPlaces, AscendingOrder
<1>6. ASSUME NEW x \in of PROVE Upto(x) = upto(x)
  <2>1. {y \in of : y <= x} = {y \in at : y <= x}
    OBVIOUS
  <2> QED BY <2>1
<1> HIDE DEF a, b, upto, Upto, m, l
<1>7. \A k \in 1..m : k \in 1..l /\ a[k] = b[k]
  <2> SUFFICES ASSUME NEW k \in 1..m PROVE k \in 1..l /\ a[k] = b[k]
    OBVIOUS
  <2>1. b[k] \in of /\ upto(b[k]) = k
    BY <1>5, <1>6
  <2> QED BY <1>4, <2>1
<1>8. ASSUME NEW k \in 1..l PROVE k <= m <=> a[k] \in of
  <2>1. k <= m => a[k] \in of
    BY <1>3, <1>5, <1>7
  <2>2. a[k] \in of => k <= m
    <3> HAVE a[k] \in of
    <3>1. Upto(a[k]) = k /\ Upto(a[k]) \in 1..m
      BY <1>4, <1>5, <1>6
    <3> QED BY <1>3, <3>1
  <2> QED BY <2>1, <2>2
<1>9. Picked(s, of) = [k \in 1..m |-> s[b[k]]] /\ Picked(s, at) = [k \in 1..l |-> s[a[k]]]
  BY DEF Picked, m, l, a, b
<1>10. Picked(s, of) = [k \in 1..m |-> Picked(s, at)[k]]
  BY <1>7, <1>9
<1> QED BY <1>3, <1>8, <1>10 DEF a, m, l

------------------------------------------------------------------------------
(* Quotients.                                                               *)

(* What \div is.                                                            *)
LEMMA DivBounds ==
  ASSUME NEW x \in Int, NEW s \in Nat \ {0}
  PROVE  x \div s \in Int /\ s * (x \div s) <= x /\ x < s * (x \div s) + s
OBVIOUS

(* A product grows with its factor,                                         *)
LEMMA TimesGrows ==
  ASSUME NEW x \in Int, NEW y \in Int, NEW s \in Nat, x <= y
  PROVE  s * x \in Int /\ s * y \in Int /\ s * x <= s * y
OBVIOUS

(* and a quotient with its dividend.                                        *)
LEMMA DivGrows ==
  ASSUME NEW x \in Int, NEW y \in Int, NEW s \in Nat \ {0}, x <= y
  PROVE  x \div s <= y \div s
<1> DEFINE q == x \div s
           r == y \div s
<1>1. q \in Int /\ s * q <= x /\ r \in Int /\ y < s * r + s
  BY DivBounds
<1> HIDE DEF q, r
<1>2. s * (r + 1) = s * r + s
  BY <1>1
<1>3. ~ (r + 1 <= q)
  BY <1>1, <1>2, TimesGrows
<1> QED BY <1>1, <1>3 DEF q, r

(* The pages of n rows: k of them are not all as long as rows are left.     *)
LEMMA RoundedUp ==
  ASSUME NEW n \in Nat, NEW k \in Nat, NEW s \in Nat \ {0}
  PROVE  k < (n + s - 1) \div s <=> k * s < n
<1> DEFINE q == (n + s - 1) \div s
<1>1. q \in Int /\ s * q <= n + s - 1 /\ n + s - 1 < s * q + s
  BY DivBounds
<1>2. s * k = k * s /\ s * k \in Int
  OBVIOUS
<1> HIDE DEF q
<1>3. CASE k < q
  <2>1. s * (k + 1) <= s * q /\ s * (k + 1) = s * k + s
    BY <1>1, <1>3, TimesGrows
  <2> QED BY <1>1, <1>2, <1>3, <2>1 DEF q
<1>4. CASE q <= k
  <2>1. s * q <= s * k
    BY <1>1, <1>4, TimesGrows
  <2> QED BY <1>1, <1>2, <1>4, <2>1 DEF q
<1> QED BY <1>1, <1>3, <1>4

------------------------------------------------------------------------------
(* Sorting.                                                                 *)

(* In a finite set with a total order every number up to its size is the    *)
(* place of one member, and the places are in the order of the members.     *)
Under(T, x, y)   == <<x, y>> \in T
PlaceIn(T, S, x) == 1 + Cardinality({y \in S : Under(T, y, x)})

LEMMA OrderRanks ==
  ASSUME NEW S, IsFiniteSet(S), NEW T,
         \A x \in S : ~ Under(T, x, x),
         \A x, y, z \in S : Under(T, x, y) /\ Under(T, y, z) => Under(T, x, z),
         \A x, y \in S : x # y => Under(T, x, y) \/ Under(T, y, x)
  PROVE  /\ \A x \in S : PlaceIn(T, S, x) \in 1..Cardinality(S)
         /\ \A x, y \in S : Under(T, x, y) <=> PlaceIn(T, S, x) < PlaceIn(T, S, y)
         /\ \A x, y \in S : PlaceIn(T, S, x) = PlaceIn(T, S, y) => x = y
         /\ \A k \in 1..Cardinality(S) : \E x \in S : PlaceIn(T, S, x) = k
<1> DEFINE n == Cardinality(S)
           below(x) == {y \in S : Under(T, y, x)}
           place == [x \in S |-> 1 + Cardinality(below(x))]
<1>1. n \in Nat /\ IsFiniteSet(1..n) /\ Cardinality(1..n) = n
  BY FS_CardinalityType, FS_Interval
<1>2. \A x \in S : IsFiniteSet(below(x)) /\ Cardinality(below(x)) \in Nat
  BY FS_Subset, FS_CardinalityType
<1>3. ASSUME NEW x \in S, NEW y \in S, Under(T, x, y) PROVE place[x] < place[y]
  <2>1. below(x) \cup {x} \in SUBSET below(y) /\ x \notin below(x)
    BY <1>3
  <2>2. Cardinality(below(x) \cup {x}) = Cardinality(below(x)) + 1
    BY <1>2, <2>1, FS_AddElement
  <2>3. Cardinality(below(x) \cup {x}) <= Cardinality(below(y))
    BY <1>2, <2>1, FS_Subset
  <2>4. Cardinality(below(x)) \in Nat /\ Cardinality(below(y)) \in Nat
    BY <1>2
  <2> HIDE DEF below
  <2> QED BY <2>2, <2>3, <2>4
<1>4. ASSUME NEW x \in S PROVE place[x] \in 1..n
  <2>1. below(x) \in SUBSET (S \ {x})
    OBVIOUS
  <2>2. IsFiniteSet(S \ {x}) /\ Cardinality(S \ {x}) = n - 1
    BY FS_RemoveElement
  <2>3. Cardinality(below(x)) \in Nat
    BY <1>2
  <2>4. place[x] = 1 + Cardinality(below(x))
    OBVIOUS
  <2> HIDE DEF below, n, place
  <2>5. Cardinality(below(x)) <= Cardinality(S \ {x})
    BY <2>1, <2>2, FS_Subset
  <2> QED BY <1>1, <2>2, <2>3, <2>4, <2>5
<1>5. \A x \in S : place[x] = 1 + Cardinality(below(x))
  OBVIOUS
<1>6. place \in [S -> 1..n]
  BY <1>4
<1> HIDE DEF place, n, below
<1>7. \A x \in S : place[x] \in Int
  BY <1>1, <1>4
<1>8. ASSUME NEW x \in S, NEW y \in S
      PROVE  /\ Under(T, x, y) <=> place[x] < place[y]
             /\ place[x] = place[y] => x = y
  <2>1. place[x] \in Int /\ place[y] \in Int
    BY <1>7
  <2>2. Under(T, x, y) => place[x] < place[y]
    BY <1>3
  <2>3. Under(T, y, x) => place[y] < place[x]
    BY <1>3
  <2>4. x # y => Under(T, x, y) \/ Under(T, y, x)
    OBVIOUS
  <2> QED BY ONLY <2>1, <2>2, <2>3, <2>4
<1>9. place \in Injection(S, 1..n)
  BY <1>6, <1>8 DEF Injection, IsInjective
<1>10. place \in Surjection(S, 1..n)
  BY <1>1, <1>9, FS_Injection DEF n
<1>11. \A k \in 1..n : \E x \in S : place[x] = k
  BY <1>10 DEF Surjection
<1>12. \A x \in S : place[x] = PlaceIn(T, S, x)
  BY <1>5 DEF below, PlaceIn
<1> QED BY <1>4, <1>8, <1>11, <1>12 DEF n

(* The places of a stable sort: of those that are equal the earlier first.  *)
SortsBefore(R, j, i) == <<j, i>> \in R \/ (<<i, j>> \notin R /\ j < i)
SortPlace(R, n, i) == 1 + Cardinality({j \in 1..n : SortsBefore(R, j, i)})

(* Whatever weak order the members are sorted by, a stable sort moves each  *)
(* to a place of its own, and nobody before those that are ahead of him.    *)
LEMMA SortPlaces ==
  ASSUME NEW n \in Nat, NEW R,
         \A i, j \in 1..n : <<i, j>> \in R => <<j, i>> \notin R,
         \A i, j, k \in 1..n : <<i, j>> \in R => <<i, k>> \in R \/ <<k, j>> \in R
  PROVE  /\ \A i \in 1..n : SortPlace(R, n, i) \in 1..n
         /\ \A i, j \in 1..n : SortsBefore(R, i, j) <=> SortPlace(R, n, i) < SortPlace(R, n, j)
         /\ \A i, j \in 1..n : SortPlace(R, n, i) = SortPlace(R, n, j) => i = j
         /\ \A k \in 1..n : \E i \in 1..n : SortPlace(R, n, i) = k
<1> DEFINE D == 1..n
           T == {p \in D \X D : SortsBefore(R, p[1], p[2])}
<1>1. IsFiniteSet(D) /\ Cardinality(D) = n
  BY FS_Interval
<1>2. \A i, j \in D : Under(T, i, j) <=> SortsBefore(R, i, j)
  BY DEF Under
<1> HIDE DEF T
<1>3. \A i \in D : ~ SortsBefore(R, i, i)
  BY DEF SortsBefore
<1>4. \A i, j, k \in D : SortsBefore(R, i, j) /\ SortsBefore(R, j, k) => SortsBefore(R, i, k)
  BY DEF SortsBefore
<1>5. ASSUME NEW i \in D, NEW j \in D, i # j PROVE SortsBefore(R, i, j) \/ SortsBefore(R, j, i)
  <2>1. i < j \/ j < i
    BY <1>5
  <2>2. <<i, j>> \in R => <<j, i>> \notin R
    OBVIOUS
  <2> QED BY <2>1, <2>2 DEF SortsBefore
<1>6. \A i \in D : PlaceIn(T, D, i) = SortPlace(R, n, i)
  <2> SUFFICES ASSUME NEW i \in D PROVE PlaceIn(T, D, i) = SortPlace(R, n, i)
    OBVIOUS
  <2>1. {j \in D : Under(T, j, i)} = {j \in 1..n : SortsBefore(R, j, i)}
    BY <1>2
  <2> QED BY <2>1 DEF SortPlace, PlaceIn
<1> HIDE DEF D
<1>7. /\ \A x \in D : PlaceIn(T, D, x) \in 1..n
      /\ \A x, y \in D : Under(T, x, y) <=> PlaceIn(T, D, x) < PlaceIn(T, D, y)
      /\ \A x, y \in D : PlaceIn(T, D, x) = PlaceIn(T, D, y) => x = y
      /\ \A k \in 1..n : \E x \in D : PlaceIn(T, D, x) = k
  <2>1. \A x \in D : ~ Under(T, x, x)
    BY <1>2, <1>3
  <2>2. \A x, y, z \in D : Under(T, x, y) /\ Under(T, y, z) => Under(T, x, z)
    BY <1>2, <1>4
  <2>3. \A x, y \in D : x # y => Under(T, x, y) \/ Under(T, y, x)
    BY <1>2, <1>5
  <2> QED BY <1>1, <2>1, <2>2, <2>3, OrderRanks
<1>8. /\ \A i \in D : SortPlace(R, n, i) \in 1..n
      /\ \A i, j \in D : SortsBefore(R, i, j) <=> SortPlace(R, n, i) < SortPlace(R, n, j)
      /\ \A i, j \in D : SortPlace(R, n, i) = SortPlace(R, n, j) => i = j
      /\ \A k \in 1..n : \E i \in D : SortPlace(R, n, i) = k
  <2>1. ASSUME NEW i \in D, NEW j \in D
        PROVE  /\ SortPlace(R, n, i) \in 1..n
               /\ SortsBefore(R, i, j) <=> SortPlace(R, n, i) < SortPlace(R, n, j)
               /\ SortPlace(R, n, i) = SortPlace(R, n, j) => i = j
    BY <1>2, <1>6, <1>7
  <2>2. \A k \in 1..n : \E i \in D : SortPlace(R, n, i) = k
    BY <1>6, <1>7
  <2> QED BY <2>1, <2>2
<1> QED BY <1>8 DEF D

------------------------------------------------------------------------------
(* Folds.                                                                   *)

(* A fold over one, two or three members is what it says.                   *)
LEMMA MaxIs ==
  ASSUME NEW S \in SUBSET Int, NEW x \in S, \A y \in S : x >= y
  PROVE  Max(S) = x
<1> DEFINE m == Max(S)
<1>1. m \in S /\ \A y \in S : m >= y
  BY DEF Max
<1> HIDE DEF m
<1>2. m >= x /\ x >= m /\ m \in Int /\ x \in Int
  BY <1>1
<1>3. m = x
  BY <1>2
<1> QED BY <1>3 DEF m

(* The greatest of one, two and three places.                               *)
LEMMA Maxima == Max({1}) = 1 /\ Max({1, 2}) = 2 /\ Max({1, 2, 3}) = 3
<1>1. Max({1}) = 1
  BY MaxIs
<1>2. Max({1, 2}) = 2
  BY MaxIs
<1>3. Max({1, 2, 3}) = 3
  BY MaxIs
<1> QED BY <1>1, <1>2, <1>3

(* One update is applied as it is.                                          *)
LEMMA AllOfOne ==
  ASSUME NEW doc, NEW filter, NEW a
  PROVE  ApplyAll(doc, filter, <<a>>) = ApplyUpdate(doc, filter, a)
<1> DEFINE us == <<a>>
           D == DOMAIN us
           Body(f) == [s \in SUBSET D |-> IF s = {} THEN doc
                                        ELSE LET x == Max(s) IN ApplyUpdate(f[s \ {x}], filter, us[x])]
           iter == CHOOSE f : f = Body(f)
           g == [s \in SUBSET D |-> IF 1 \in s THEN ApplyUpdate(doc, filter, a) ELSE doc]
<1>1. ApplyAll(doc, filter, us) = iter[D]
  BY DEF ApplyAll, FoldLeft, MapThenFoldSet
<1>2. D = {1} /\ us[1] = a
  OBVIOUS
<1> HIDE DEF D, us
<1>3. \E f : f = Body(f)
  <2>1. \A s \in SUBSET D : g[s] = IF s = {} THEN doc ELSE ApplyUpdate(g[s \ {Max(s)}], filter, us[Max(s)])
    BY <1>2, Maxima
  <2> HIDE DEF g
  <2>2. g = [s \in SUBSET D |-> g[s]]
    BY DEF g
  <2>3. g = Body(g)
    BY <2>1, <2>2, Zenon
  <2> QED BY <2>3
<1>4. iter = Body(iter)
  BY <1>3
<1> HIDE DEF iter
<1>5. \A s \in SUBSET D : iter[s] = IF s = {} THEN doc ELSE ApplyUpdate(iter[s \ {Max(s)}], filter, us[Max(s)])
  BY <1>4, Zenon
<1>6. {{}, {1}} \subseteq SUBSET D
  BY <1>2
<1>7. iter[{1}] = ApplyUpdate(iter[{}], filter, us[1])
  BY <1>5, <1>6, Maxima
<1>8. iter[{}] = doc
  BY <1>5, <1>6
<1> QED BY <1>1, <1>2, <1>7, <1>8 DEF us

(* Two updates are applied one after the other.                             *)
LEMMA AllOfTwo ==
  ASSUME NEW doc, NEW filter, NEW a, NEW b
  PROVE  ApplyAll(doc, filter, <<a, b>>) = ApplyUpdate(ApplyUpdate(doc, filter, a), filter, b)
<1> DEFINE us == <<a, b>>
           D == DOMAIN us
           Body(f) == [s \in SUBSET D |-> IF s = {} THEN doc
                                        ELSE LET x == Max(s) IN ApplyUpdate(f[s \ {x}], filter, us[x])]
           iter == CHOOSE f : f = Body(f)
           one(s) == IF 1 \in s THEN ApplyUpdate(doc, filter, a) ELSE doc
           g == [s \in SUBSET D |-> IF 2 \in s THEN ApplyUpdate(one(s), filter, b) ELSE one(s)]
<1>1. ApplyAll(doc, filter, us) = iter[D]
  BY DEF ApplyAll, FoldLeft, MapThenFoldSet
<1>2. D = {1, 2} /\ us[1] = a /\ us[2] = b
  OBVIOUS
<1> HIDE DEF D, us
<1>3. \E f : f = Body(f)
  <2>1. \A s \in SUBSET D : g[s] = IF s = {} THEN doc ELSE ApplyUpdate(g[s \ {Max(s)}], filter, us[Max(s)])
    <3> SUFFICES ASSUME NEW s \in SUBSET D, s # {}
                 PROVE  g[s] = ApplyUpdate(g[s \ {Max(s)}], filter, us[Max(s)])
      BY <1>2
    <3>1. CASE 2 \in s
      <4>1. Max(s) = 2
        BY <1>2, <3>1, MaxIs
      <4>2. one(s) = one(s \ {2}) /\ s \ {2} \in SUBSET D /\ 2 \notin s \ {2}
        BY <3>1
      <4> HIDE DEF one
      <4> QED BY <1>2, <3>1, <4>1, <4>2
    <3>2. CASE s = {1}
      BY <1>2, <3>2, Maxima
    <3> QED BY <1>2, <3>1, <3>2
  <2> HIDE DEF g
  <2>2. g = [s \in SUBSET D |-> g[s]]
    BY DEF g
  <2>3. g = Body(g)
    BY <2>1, <2>2, Zenon
  <2> QED BY <2>3
<1>4. iter = Body(iter)
  BY <1>3
<1> HIDE DEF iter
<1>5. \A s \in SUBSET D : iter[s] = IF s = {} THEN doc ELSE ApplyUpdate(iter[s \ {Max(s)}], filter, us[Max(s)])
  BY <1>4, Zenon
<1>6. {{}, {1}, {1, 2}} \subseteq SUBSET D
  BY <1>2
<1>7. iter[{1, 2}] = ApplyUpdate(iter[{1}], filter, us[2])
  <2>1. {1, 2} \ {2} = {1} /\ {1, 2} # {}
    OBVIOUS
  <2> QED BY <1>5, <1>6, <2>1, Maxima
<1>8. iter[{1}] = ApplyUpdate(iter[{}], filter, us[1])
  <2>1. {1} \ {1} = {} /\ {1} # {}
    OBVIOUS
  <2> QED BY <1>5, <1>6, <2>1, Maxima
<1>9. iter[{}] = doc
  BY <1>5, <1>6
<1> QED BY <1>1, <1>2, <1>7, <1>8, <1>9 DEF us

(* One update inserts what it sets on an insert, and only then.             *)
LEMMA InsertOnce ==
  ASSUME NEW doc, NEW a
  PROVE  InsertAll(doc, <<a>>) = Insertion(doc, a)
<1> DEFINE us == <<a>>
           D == DOMAIN us
           Body(f) == [s \in SUBSET D |-> IF s = {} THEN doc
                                        ELSE LET x == Max(s) IN Insertion(f[s \ {x}], us[x])]
           iter == CHOOSE f : f = Body(f)
           g == [s \in SUBSET D |-> IF 1 \in s THEN Insertion(doc, a) ELSE doc]
<1>1. InsertAll(doc, us) = iter[D]
  BY DEF InsertAll, FoldLeft, MapThenFoldSet
<1>2. D = {1} /\ us[1] = a
  OBVIOUS
<1> HIDE DEF D, us
<1>3. \E f : f = Body(f)
  <2>1. \A s \in SUBSET D : g[s] = IF s = {} THEN doc ELSE Insertion(g[s \ {Max(s)}], us[Max(s)])
    BY <1>2, Maxima
  <2> HIDE DEF g
  <2>2. g = [s \in SUBSET D |-> g[s]]
    BY DEF g
  <2>3. g = Body(g)
    BY <2>1, <2>2, Zenon
  <2> QED BY <2>3
<1>4. iter = Body(iter)
  BY <1>3
<1> HIDE DEF iter
<1>5. \A s \in SUBSET D : iter[s] = IF s = {} THEN doc ELSE Insertion(iter[s \ {Max(s)}], us[Max(s)])
  BY <1>4, Zenon
<1>6. {{}, {1}} \subseteq SUBSET D
  BY <1>2
<1>7. iter[{1}] = Insertion(iter[{}], us[1])
  BY <1>5, <1>6, Maxima
<1>8. iter[{}] = doc
  BY <1>5, <1>6
<1> QED BY <1>1, <1>2, <1>7, <1>8 DEF us

(* A filter of one clause gives what the clause asks for.                   *)
LEMMA GivenOne ==
  ASSUME NEW a
  PROVE  GivenAll(<<a>>) = Given(<<>>, a)
<1> DEFINE us == <<a>>
           D == DOMAIN us
           Body(f) == [s \in SUBSET D |-> IF s = {} THEN <<>>
                                        ELSE LET x == Max(s) IN Given(f[s \ {x}], us[x])]
           iter == CHOOSE f : f = Body(f)
           g == [s \in SUBSET D |-> IF 1 \in s THEN Given(<<>>, a) ELSE <<>>]
<1>1. GivenAll(us) = iter[D]
  BY DEF GivenAll, FoldLeft, MapThenFoldSet
<1>2. D = {1} /\ us[1] = a
  OBVIOUS
<1> HIDE DEF D, us
<1>3. \E f : f = Body(f)
  <2>1. \A s \in SUBSET D : g[s] = IF s = {} THEN <<>> ELSE Given(g[s \ {Max(s)}], us[Max(s)])
    BY <1>2, Maxima
  <2> HIDE DEF g
  <2>2. g = [s \in SUBSET D |-> g[s]]
    BY DEF g
  <2>3. g = Body(g)
    BY <2>1, <2>2, Zenon
  <2> QED BY <2>3
<1>4. iter = Body(iter)
  BY <1>3
<1> HIDE DEF iter
<1>5. \A s \in SUBSET D : iter[s] = IF s = {} THEN <<>> ELSE Given(iter[s \ {Max(s)}], us[Max(s)])
  BY <1>4, Zenon
<1>6. {{}, {1}} \subseteq SUBSET D
  BY <1>2
<1>7. iter[{1}] = Given(iter[{}], us[1])
  BY <1>5, <1>6, Maxima
<1>8. iter[{}] = <<>>
  BY <1>5, <1>6
<1> QED BY <1>1, <1>2, <1>7, <1>8 DEF us

(* A filter of three clauses gives what each asks for, in their order.      *)
LEMMA GivenThree ==
  ASSUME NEW a, NEW b, NEW c
  PROVE  GivenAll(<<a, b, c>>) = Given(Given(Given(<<>>, a), b), c)
<1> DEFINE us == <<a, b, c>>
           D == DOMAIN us
           Body(f) == [s \in SUBSET D |-> IF s = {} THEN <<>>
                                        ELSE LET x == Max(s) IN Given(f[s \ {x}], us[x])]
           iter == CHOOSE f : f = Body(f)
           one(s) == IF 1 \in s THEN Given(<<>>, a) ELSE <<>>
           two(s) == IF 2 \in s THEN Given(one(s), b) ELSE one(s)
           g == [s \in SUBSET D |-> IF 3 \in s THEN Given(two(s), c) ELSE two(s)]
<1>1. GivenAll(us) = iter[D]
  BY DEF GivenAll, FoldLeft, MapThenFoldSet
<1>2. D = {1, 2, 3} /\ us[1] = a /\ us[2] = b /\ us[3] = c
  OBVIOUS
<1> HIDE DEF D, us
<1>3. \E f : f = Body(f)
  <2>1. \A s \in SUBSET D : g[s] = IF s = {} THEN <<>> ELSE Given(g[s \ {Max(s)}], us[Max(s)])
    <3> SUFFICES ASSUME NEW s \in SUBSET D, s # {} PROVE g[s] = Given(g[s \ {Max(s)}], us[Max(s)])
      BY <1>2
    <3>1. CASE 3 \in s
      <4>1. Max(s) = 3
        BY <1>2, <3>1, MaxIs
      <4>2. one(s) = one(s \ {3}) /\ s \ {3} \in SUBSET D /\ 3 \notin s \ {3}
        BY <3>1
      <4> HIDE DEF one
      <4>3. two(s) = two(s \ {3})
        BY <4>2
      <4> QED BY <1>2, <3>1, <4>1, <4>2, <4>3
    <3>2. CASE 3 \notin s /\ 2 \in s
      <4>1. Max(s) = 2
        BY <1>2, <3>2, MaxIs
      <4>2. one(s) = one(s \ {2}) /\ s \ {2} \in SUBSET D /\ 2 \notin s \ {2} /\ 3 \notin s \ {2}
        BY <3>2
      <4> HIDE DEF one
      <4> QED BY <1>2, <3>2, <4>1, <4>2
    <3>3. CASE s = {1}
      BY <1>2, <3>3, Maxima
    <3> QED BY <1>2, <3>1, <3>2, <3>3
  <2> HIDE DEF g
  <2>2. g = [s \in SUBSET D |-> g[s]]
    BY DEF g
  <2>3. g = Body(g)
    BY <2>1, <2>2, Zenon
  <2> QED BY <2>3
<1>4. iter = Body(iter)
  BY <1>3
<1> HIDE DEF iter
<1>5. \A s \in SUBSET D : iter[s] = IF s = {} THEN <<>> ELSE Given(iter[s \ {Max(s)}], us[Max(s)])
  BY <1>4, Zenon
<1>6. {{}, {1}, {1, 2}, {1, 2, 3}} \subseteq SUBSET D
  BY <1>2
<1>7. iter[{1, 2, 3}] = Given(iter[{1, 2}], us[3])
  <2>1. {1, 2, 3} \ {3} = {1, 2} /\ {1, 2, 3} # {}
    OBVIOUS
  <2> QED BY <1>5, <1>6, <2>1, Maxima
<1>8. iter[{1, 2}] = Given(iter[{1}], us[2])
  <2>1. {1, 2} \ {2} = {1} /\ {1, 2} # {}
    OBVIOUS
  <2> QED BY <1>5, <1>6, <2>1, Maxima
<1>9. iter[{1}] = Given(iter[{}], us[1])
  <2>1. {1} \ {1} = {} /\ {1} # {}
    OBVIOUS
  <2> QED BY <1>5, <1>6, <2>1, Maxima
<1>10. iter[{}] = <<>>
  BY <1>5, <1>6
<1> QED BY <1>1, <1>2, <1>7, <1>8, <1>9, <1>10 DEF us

(* Of two updates each inserts in its turn.                                 *)
LEMMA InsertTwo ==
  ASSUME NEW doc, NEW a, NEW b
  PROVE  InsertAll(doc, <<a, b>>) = Insertion(Insertion(doc, a), b)
<1> DEFINE us == <<a, b>>
           D == DOMAIN us
           Body(f) == [s \in SUBSET D |-> IF s = {} THEN doc
                                        ELSE LET x == Max(s) IN Insertion(f[s \ {x}], us[x])]
           iter == CHOOSE f : f = Body(f)
           one(s) == IF 1 \in s THEN Insertion(doc, a) ELSE doc
           g == [s \in SUBSET D |-> IF 2 \in s THEN Insertion(one(s), b) ELSE one(s)]
<1>1. InsertAll(doc, us) = iter[D]
  BY DEF InsertAll, FoldLeft, MapThenFoldSet
<1>2. D = {1, 2} /\ us[1] = a /\ us[2] = b
  OBVIOUS
<1> HIDE DEF D, us
<1>3. \E f : f = Body(f)
  <2>1. \A s \in SUBSET D : g[s] = IF s = {} THEN doc ELSE Insertion(g[s \ {Max(s)}], us[Max(s)])
    <3> SUFFICES ASSUME NEW s \in SUBSET D, s # {} PROVE g[s] = Insertion(g[s \ {Max(s)}], us[Max(s)])
      BY <1>2
    <3>1. CASE 2 \in s
      <4>1. Max(s) = 2
        BY <1>2, <3>1, MaxIs
      <4>2. one(s) = one(s \ {2}) /\ s \ {2} \in SUBSET D /\ 2 \notin s \ {2}
        BY <3>1
      <4> HIDE DEF one
      <4> QED BY <1>2, <3>1, <4>1, <4>2
    <3>2. CASE s = {1}
      BY <1>2, <3>2, Maxima
    <3> QED BY <1>2, <3>1, <3>2
  <2> HIDE DEF g
  <2>2. g = [s \in SUBSET D |-> g[s]]
    BY DEF g
  <2>3. g = Body(g)
    BY <2>1, <2>2, Zenon
  <2> QED BY <2>3
<1>4. iter = Body(iter)
  BY <1>3
<1> HIDE DEF iter
<1>5. \A s \in SUBSET D : iter[s] = IF s = {} THEN doc ELSE Insertion(iter[s \ {Max(s)}], us[Max(s)])
  BY <1>4, Zenon
<1>6. {{}, {1}, {1, 2}} \subseteq SUBSET D
  BY <1>2
<1>7. iter[{1, 2}] = Insertion(iter[{1}], us[2])
  <2>1. {1, 2} \ {2} = {1} /\ {1, 2} # {}
    OBVIOUS
  <2> QED BY <1>5, <1>6, <2>1, Maxima
<1>8. iter[{1}] = Insertion(iter[{}], us[1])
  <2>1. {1} \ {1} = {} /\ {1} # {}
    OBVIOUS
  <2> QED BY <1>5, <1>6, <2>1, Maxima
<1>9. iter[{}] = doc
  BY <1>5, <1>6
<1> QED BY <1>1, <1>2, <1>7, <1>8, <1>9 DEF us

(* Five updates are applied one after the other.                            *)
LEMMA AllOfFive ==
  ASSUME NEW doc, NEW filter, NEW us, DOMAIN us = {1, 2, 3, 4, 5},
         NEW a1, a1 = ApplyUpdate(doc, filter, us[1]), NEW a2, a2 = ApplyUpdate(a1, filter, us[2]),
         NEW a3, a3 = ApplyUpdate(a2, filter, us[3]), NEW a4, a4 = ApplyUpdate(a3, filter, us[4]),
         NEW a5, a5 = ApplyUpdate(a4, filter, us[5])
  PROVE  ApplyAll(doc, filter, us) = a5
<1> DEFINE D == DOMAIN us
           Body(f) == [s \in SUBSET D |-> IF s = {} THEN doc
                                        ELSE LET x == Max(s) IN ApplyUpdate(f[s \ {x}], filter, us[x])]
           iter == CHOOSE f : f = Body(f)
           one(s) == IF 1 \in s THEN ApplyUpdate(doc, filter, us[1]) ELSE doc
           two(s) == IF 2 \in s THEN ApplyUpdate(one(s), filter, us[2]) ELSE one(s)
           three(s) == IF 3 \in s THEN ApplyUpdate(two(s), filter, us[3]) ELSE two(s)
           four(s) == IF 4 \in s THEN ApplyUpdate(three(s), filter, us[4]) ELSE three(s)
           five(s) == IF 5 \in s THEN ApplyUpdate(four(s), filter, us[5]) ELSE four(s)
           g == [s \in SUBSET D |-> five(s)]
<1>1. ApplyAll(doc, filter, us) = iter[D]
  BY DEF ApplyAll, FoldLeft, MapThenFoldSet
<1>2. D = {1, 2, 3, 4, 5}
  OBVIOUS
<1> HIDE DEF D
<1>3. \E f : f = Body(f)
  <2>1. ASSUME NEW s \in SUBSET D, s # {}
        PROVE  Max(s) \in s /\ five(s) = ApplyUpdate(five(s \ {Max(s)}), filter, us[Max(s)])
    <3>1. CASE 5 \in s
      <4>1. Max(s) = 5
        BY <1>2, <3>1, MaxIs
      <4>2. \A j \in 1..5 : j # 5 => (j \in s <=> j \in s \ {5})
        OBVIOUS
      <4>3. 5 \notin s \ {5} /\ s \ {5} \in SUBSET D
        OBVIOUS
      <4>4. one(s \ {5}) = one(s)
        BY <4>2
      <4> HIDE DEF one
      <4>5. two(s \ {5}) = two(s)
        BY <4>2, <4>4
      <4> HIDE DEF two
      <4>6. three(s \ {5}) = three(s)
        BY <4>2, <4>5
      <4> HIDE DEF three
      <4>7. four(s \ {5}) = four(s)
        BY <4>2, <4>6
      <4> HIDE DEF four
      <4>8. five(s) = ApplyUpdate(four(s), filter, us[5]) /\ five(s \ {5}) = four(s)
        BY <3>1, <4>2, <4>3, <4>7
      <4> HIDE DEF five
      <4> QED BY <3>1, <4>1, <4>8
    <3>2. CASE 5 \notin s /\ 4 \in s
      <4>1. Max(s) = 4
        BY <1>2, <3>2, MaxIs
      <4>2. \A j \in 1..5 : j # 4 => (j \in s <=> j \in s \ {4})
        OBVIOUS
      <4>3. 4 \notin s \ {4} /\ s \ {4} \in SUBSET D
        OBVIOUS
      <4>4. one(s \ {4}) = one(s)
        BY <4>2
      <4> HIDE DEF one
      <4>5. two(s \ {4}) = two(s)
        BY <4>2, <4>4
      <4> HIDE DEF two
      <4>6. three(s \ {4}) = three(s)
        BY <4>2, <4>5
      <4> HIDE DEF three
      <4>7. five(s) = ApplyUpdate(three(s), filter, us[4]) /\ five(s \ {4}) = three(s)
        BY <3>2, <4>2, <4>3, <4>6
      <4> HIDE DEF five
      <4> QED BY <3>2, <4>1, <4>7
    <3>3. CASE 5 \notin s /\ 4 \notin s /\ 3 \in s
      <4>1. Max(s) = 3
        BY <1>2, <3>3, MaxIs
      <4>2. \A j \in 1..5 : j # 3 => (j \in s <=> j \in s \ {3})
        OBVIOUS
      <4>3. 3 \notin s \ {3} /\ s \ {3} \in SUBSET D
        OBVIOUS
      <4>4. one(s \ {3}) = one(s)
        BY <4>2
      <4> HIDE DEF one
      <4>5. two(s \ {3}) = two(s)
        BY <4>2, <4>4
      <4> HIDE DEF two
      <4>6. five(s) = ApplyUpdate(two(s), filter, us[3]) /\ five(s \ {3}) = two(s)
        BY <3>3, <4>2, <4>3, <4>5
      <4> HIDE DEF five
      <4> QED BY <3>3, <4>1, <4>6
    <3>4. CASE 5 \notin s /\ 4 \notin s /\ 3 \notin s /\ 2 \in s
      <4>1. Max(s) = 2
        BY <1>2, <3>4, MaxIs
      <4>2. \A j \in 1..5 : j # 2 => (j \in s <=> j \in s \ {2})
        OBVIOUS
      <4>3. 2 \notin s \ {2} /\ s \ {2} \in SUBSET D
        OBVIOUS
      <4>4. one(s \ {2}) = one(s)
        BY <4>2
      <4> HIDE DEF one
      <4>5. five(s) = ApplyUpdate(one(s), filter, us[2]) /\ five(s \ {2}) = one(s)
        BY <3>4, <4>2, <4>3, <4>4
      <4> HIDE DEF five
      <4> QED BY <3>4, <4>1, <4>5
    <3>5. CASE 5 \notin s /\ 4 \notin s /\ 3 \notin s /\ 2 \notin s /\ 1 \in s
      <4>1. Max(s) = 1
        BY <1>2, <3>5, MaxIs
      <4>2. \A j \in 1..5 : j # 1 => (j \in s <=> j \in s \ {1})
        OBVIOUS
      <4>3. 1 \notin s \ {1} /\ s \ {1} \in SUBSET D
        OBVIOUS
      <4>4. five(s) = ApplyUpdate(doc, filter, us[1]) /\ five(s \ {1}) = doc
        BY <3>5, <4>2, <4>3
      <4> HIDE DEF five
      <4> QED BY <3>5, <4>1, <4>4
    <3> HIDE DEF five
    <3> QED BY <1>2, <2>1, <3>1, <3>2, <3>3, <3>4, <3>5
  <2>2. five({}) = doc
    OBVIOUS
  <2> HIDE DEF five
  <2>3. \A s \in SUBSET D : g[s] = IF s = {} THEN doc ELSE ApplyUpdate(g[s \ {Max(s)}], filter, us[Max(s)])
    BY <2>1, <2>2
  <2> HIDE DEF g
  <2>4. g = [s \in SUBSET D |-> g[s]]
    BY DEF g
  <2>5. g = Body(g)
    BY <2>3, <2>4, Zenon
  <2> QED BY <2>5
<1>4. iter = Body(iter)
  BY <1>3
<1> HIDE DEF iter
<1>5. \A s \in SUBSET D : iter[s] = IF s = {} THEN doc ELSE ApplyUpdate(iter[s \ {Max(s)}], filter, us[Max(s)])
  BY <1>4, Zenon
<1>6. {{}, {1}, {1, 2}, {1, 2, 3}, {1, 2, 3, 4}, {1, 2, 3, 4, 5}} \subseteq SUBSET D
  BY <1>2
<1>7. iter[{1, 2, 3, 4, 5}] = ApplyUpdate(iter[{1, 2, 3, 4}], filter, us[5])
  <2>1. {1, 2, 3, 4, 5} \ {5} = {1, 2, 3, 4} /\ {1, 2, 3, 4, 5} # {}
    OBVIOUS
  <2>2. Max({1, 2, 3, 4, 5}) = 5
    BY MaxIs
  <2>3. {1, 2, 3, 4, 5} \in SUBSET D
    BY <1>6
  <2> HIDE DEF D
  <2> QED BY ONLY <1>5, <2>1, <2>2, <2>3
<1>8. iter[{1, 2, 3, 4}] = ApplyUpdate(iter[{1, 2, 3}], filter, us[4])
  <2>1. {1, 2, 3, 4} \ {4} = {1, 2, 3} /\ {1, 2, 3, 4} # {}
    OBVIOUS
  <2>2. Max({1, 2, 3, 4}) = 4
    BY MaxIs
  <2>3. {1, 2, 3, 4} \in SUBSET D
    BY <1>6
  <2> HIDE DEF D
  <2> QED BY ONLY <1>5, <2>1, <2>2, <2>3
<1>9. iter[{1, 2, 3}] = ApplyUpdate(iter[{1, 2}], filter, us[3])
  <2>1. {1, 2, 3} \ {3} = {1, 2} /\ {1, 2, 3} # {}
    OBVIOUS
  <2>2. Max({1, 2, 3}) = 3
    BY MaxIs
  <2>3. {1, 2, 3} \in SUBSET D
    BY <1>6
  <2> HIDE DEF D
  <2> QED BY ONLY <1>5, <2>1, <2>2, <2>3
<1>10. iter[{1, 2}] = ApplyUpdate(iter[{1}], filter, us[2])
  <2>1. {1, 2} \ {2} = {1} /\ {1, 2} # {}
    OBVIOUS
  <2>2. Max({1, 2}) = 2
    BY MaxIs
  <2>3. {1, 2} \in SUBSET D
    BY <1>6
  <2> HIDE DEF D
  <2> QED BY ONLY <1>5, <2>1, <2>2, <2>3
<1>11. iter[{1}] = ApplyUpdate(iter[{}], filter, us[1])
  <2>1. {1} \ {1} = {} /\ {1} # {}
    OBVIOUS
  <2>2. Max({1}) = 1
    BY MaxIs
  <2>3. {1} \in SUBSET D
    BY <1>6
  <2> HIDE DEF D
  <2> QED BY ONLY <1>5, <2>1, <2>2, <2>3
<1>12. iter[{}] = doc
  BY <1>5, <1>6
<1> QED BY <1>1, <1>2, <1>7, <1>8, <1>9, <1>10, <1>11, <1>12

(* Of five updates each inserts in its turn.                                *)
LEMMA InsertFive ==
  ASSUME NEW doc, NEW us, DOMAIN us = {1, 2, 3, 4, 5},
         NEW a1, a1 = Insertion(doc, us[1]), NEW a2, a2 = Insertion(a1, us[2]),
         NEW a3, a3 = Insertion(a2, us[3]), NEW a4, a4 = Insertion(a3, us[4]),
         NEW a5, a5 = Insertion(a4, us[5])
  PROVE  InsertAll(doc, us) = a5
<1> DEFINE D == DOMAIN us
           Body(f) == [s \in SUBSET D |-> IF s = {} THEN doc
                                        ELSE LET x == Max(s) IN Insertion(f[s \ {x}], us[x])]
           iter == CHOOSE f : f = Body(f)
           one(s) == IF 1 \in s THEN Insertion(doc, us[1]) ELSE doc
           two(s) == IF 2 \in s THEN Insertion(one(s), us[2]) ELSE one(s)
           three(s) == IF 3 \in s THEN Insertion(two(s), us[3]) ELSE two(s)
           four(s) == IF 4 \in s THEN Insertion(three(s), us[4]) ELSE three(s)
           five(s) == IF 5 \in s THEN Insertion(four(s), us[5]) ELSE four(s)
           g == [s \in SUBSET D |-> five(s)]
<1>1. InsertAll(doc, us) = iter[D]
  BY DEF InsertAll, FoldLeft, MapThenFoldSet
<1>2. D = {1, 2, 3, 4, 5}
  OBVIOUS
<1> HIDE DEF D
<1>3. \E f : f = Body(f)
  <2>1. ASSUME NEW s \in SUBSET D, s # {}
        PROVE  Max(s) \in s /\ five(s) = Insertion(five(s \ {Max(s)}), us[Max(s)])
    <3>1. CASE 5 \in s
      <4>1. Max(s) = 5
        BY <1>2, <3>1, MaxIs
      <4>2. \A j \in 1..5 : j # 5 => (j \in s <=> j \in s \ {5})
        OBVIOUS
      <4>3. 5 \notin s \ {5} /\ s \ {5} \in SUBSET D
        OBVIOUS
      <4>4. one(s \ {5}) = one(s)
        BY <4>2
      <4> HIDE DEF one
      <4>5. two(s \ {5}) = two(s)
        BY <4>2, <4>4
      <4> HIDE DEF two
      <4>6. three(s \ {5}) = three(s)
        BY <4>2, <4>5
      <4> HIDE DEF three
      <4>7. four(s \ {5}) = four(s)
        BY <4>2, <4>6
      <4> HIDE DEF four
      <4>8. five(s) = Insertion(four(s), us[5]) /\ five(s \ {5}) = four(s)
        BY <3>1, <4>2, <4>3, <4>7
      <4> HIDE DEF five
      <4> QED BY <3>1, <4>1, <4>8
    <3>2. CASE 5 \notin s /\ 4 \in s
      <4>1. Max(s) = 4
        BY <1>2, <3>2, MaxIs
      <4>2. \A j \in 1..5 : j # 4 => (j \in s <=> j \in s \ {4})
        OBVIOUS
      <4>3. 4 \notin s \ {4} /\ s \ {4} \in SUBSET D
        OBVIOUS
      <4>4. one(s \ {4}) = one(s)
        BY <4>2
      <4> HIDE DEF one
      <4>5. two(s \ {4}) = two(s)
        BY <4>2, <4>4
      <4> HIDE DEF two
      <4>6. three(s \ {4}) = three(s)
        BY <4>2, <4>5
      <4> HIDE DEF three
      <4>7. five(s) = Insertion(three(s), us[4]) /\ five(s \ {4}) = three(s)
        BY <3>2, <4>2, <4>3, <4>6
      <4> HIDE DEF five
      <4> QED BY <3>2, <4>1, <4>7
    <3>3. CASE 5 \notin s /\ 4 \notin s /\ 3 \in s
      <4>1. Max(s) = 3
        BY <1>2, <3>3, MaxIs
      <4>2. \A j \in 1..5 : j # 3 => (j \in s <=> j \in s \ {3})
        OBVIOUS
      <4>3. 3 \notin s \ {3} /\ s \ {3} \in SUBSET D
        OBVIOUS
      <4>4. one(s \ {3}) = one(s)
        BY <4>2
      <4> HIDE DEF one
      <4>5. two(s \ {3}) = two(s)
        BY <4>2, <4>4
      <4> HIDE DEF two
      <4>6. five(s) = Insertion(two(s), us[3]) /\ five(s \ {3}) = two(s)
        BY <3>3, <4>2, <4>3, <4>5
      <4> HIDE DEF five
      <4> QED BY <3>3, <4>1, <4>6
    <3>4. CASE 5 \notin s /\ 4 \notin s /\ 3 \notin s /\ 2 \in s
      <4>1. Max(s) = 2
        BY <1>2, <3>4, MaxIs
      <4>2. \A j \in 1..5 : j # 2 => (j \in s <=> j \in s \ {2})
        OBVIOUS
      <4>3. 2 \notin s \ {2} /\ s \ {2} \in SUBSET D
        OBVIOUS
      <4>4. one(s \ {2}) = one(s)
        BY <4>2
      <4> HIDE DEF one
      <4>5. five(s) = Insertion(one(s), us[2]) /\ five(s \ {2}) = one(s)
        BY <3>4, <4>2, <4>3, <4>4
      <4> HIDE DEF five
      <4> QED BY <3>4, <4>1, <4>5
    <3>5. CASE 5 \notin s /\ 4 \notin s /\ 3 \notin s /\ 2 \notin s /\ 1 \in s
      <4>1. Max(s) = 1
        BY <1>2, <3>5, MaxIs
      <4>2. \A j \in 1..5 : j # 1 => (j \in s <=> j \in s \ {1})
        OBVIOUS
      <4>3. 1 \notin s \ {1} /\ s \ {1} \in SUBSET D
        OBVIOUS
      <4>4. five(s) = Insertion(doc, us[1]) /\ five(s \ {1}) = doc
        BY <3>5, <4>2, <4>3
      <4> HIDE DEF five
      <4> QED BY <3>5, <4>1, <4>4
    <3> HIDE DEF five
    <3> QED BY <1>2, <2>1, <3>1, <3>2, <3>3, <3>4, <3>5
  <2>2. five({}) = doc
    OBVIOUS
  <2> HIDE DEF five
  <2>3. \A s \in SUBSET D : g[s] = IF s = {} THEN doc ELSE Insertion(g[s \ {Max(s)}], us[Max(s)])
    BY <2>1, <2>2
  <2> HIDE DEF g
  <2>4. g = [s \in SUBSET D |-> g[s]]
    BY DEF g
  <2>5. g = Body(g)
    BY <2>3, <2>4, Zenon
  <2> QED BY <2>5
<1>4. iter = Body(iter)
  BY <1>3
<1> HIDE DEF iter
<1>5. \A s \in SUBSET D : iter[s] = IF s = {} THEN doc ELSE Insertion(iter[s \ {Max(s)}], us[Max(s)])
  BY <1>4, Zenon
<1>6. {{}, {1}, {1, 2}, {1, 2, 3}, {1, 2, 3, 4}, {1, 2, 3, 4, 5}} \subseteq SUBSET D
  BY <1>2
<1>7. iter[{1, 2, 3, 4, 5}] = Insertion(iter[{1, 2, 3, 4}], us[5])
  <2>1. {1, 2, 3, 4, 5} \ {5} = {1, 2, 3, 4} /\ {1, 2, 3, 4, 5} # {}
    OBVIOUS
  <2>2. Max({1, 2, 3, 4, 5}) = 5
    BY MaxIs
  <2>3. {1, 2, 3, 4, 5} \in SUBSET D
    BY <1>6
  <2> HIDE DEF D
  <2> QED BY ONLY <1>5, <2>1, <2>2, <2>3
<1>8. iter[{1, 2, 3, 4}] = Insertion(iter[{1, 2, 3}], us[4])
  <2>1. {1, 2, 3, 4} \ {4} = {1, 2, 3} /\ {1, 2, 3, 4} # {}
    OBVIOUS
  <2>2. Max({1, 2, 3, 4}) = 4
    BY MaxIs
  <2>3. {1, 2, 3, 4} \in SUBSET D
    BY <1>6
  <2> HIDE DEF D
  <2> QED BY ONLY <1>5, <2>1, <2>2, <2>3
<1>9. iter[{1, 2, 3}] = Insertion(iter[{1, 2}], us[3])
  <2>1. {1, 2, 3} \ {3} = {1, 2} /\ {1, 2, 3} # {}
    OBVIOUS
  <2>2. Max({1, 2, 3}) = 3
    BY MaxIs
  <2>3. {1, 2, 3} \in SUBSET D
    BY <1>6
  <2> HIDE DEF D
  <2> QED BY ONLY <1>5, <2>1, <2>2, <2>3
<1>10. iter[{1, 2}] = Insertion(iter[{1}], us[2])
  <2>1. {1, 2} \ {2} = {1} /\ {1, 2} # {}
    OBVIOUS
  <2>2. Max({1, 2}) = 2
    BY MaxIs
  <2>3. {1, 2} \in SUBSET D
    BY <1>6
  <2> HIDE DEF D
  <2> QED BY ONLY <1>5, <2>1, <2>2, <2>3
<1>11. iter[{1}] = Insertion(iter[{}], us[1])
  <2>1. {1} \ {1} = {} /\ {1} # {}
    OBVIOUS
  <2>2. Max({1}) = 1
    BY MaxIs
  <2>3. {1} \in SUBSET D
    BY <1>6
  <2> HIDE DEF D
  <2> QED BY ONLY <1>5, <2>1, <2>2, <2>3
<1>12. iter[{}] = doc
  BY <1>5, <1>6
<1> QED BY <1>1, <1>2, <1>7, <1>8, <1>9, <1>10, <1>11, <1>12
==============================================================================
