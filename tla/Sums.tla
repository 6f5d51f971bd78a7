-------------------------------- MODULE Sums --------------------------------
(***************************************************************************)
(* What the library's fold over a set, of which its sums are made, comes   *)
(* to over any finite set of integers.  The fold is a recursive function   *)
(* that CHOOSE picks: that there is one is proved by taking the smallest   *)
(* subset on which there were none, and so is all that follows from it.    *)
(***************************************************************************)
EXTENDS Integers, FiniteSetsExt, FiniteSetTheorems, WellFoundedInduction, TLAPS

\* The least of a set of naturals.
LEMMA LeastOf ==
  ASSUME NEW S, S \subseteq Nat, S # {}
  PROVE  \E m \in S : \A k \in S : m <= k
<1>1. PICK m \in S : \A k \in S : ~ (<<k, m>> \in OpToRel(<, Nat))
  BY NatLessThanWellFounded, WFMin
<1>2. ASSUME NEW k \in S PROVE m <= k
  <2>1. ~ (k < m)
    BY <1>1 DEF OpToRel
  <2> QED
    BY <2>1
<1> QED
  BY <1>2

Total(f, S) == MapThenSumSet(LAMBDA x : f[x], S)

First(s) == CHOOSE x \in s : TRUE

\* g is what the fold of f builds over the sets of a collection.
Folds(g, f, Sets) ==
  g = [s \in Sets |-> IF s = {} THEN 0 ELSE f[First(s)] + g[s \ {First(s)}]]

Builds(g, f, S) == Folds(g, f, SUBSET S)

LEMMA FirstIn == ASSUME NEW s, s # {} PROVE First(s) \in s
BY DEF First

UpTo(S, n) == {s \in SUBSET S : Cardinality(s) <= n}

LEMMA Smaller ==
  ASSUME NEW S, IsFiniteSet(S), NEW s \in SUBSET S, NEW x \in s
  PROVE  /\ IsFiniteSet(s) /\ Cardinality(s) \in Nat /\ Cardinality(s) > 0
         /\ s \ {x} \in SUBSET S /\ Cardinality(s \ {x}) = Cardinality(s) - 1
BY FS_Subset, FS_CardinalityType, FS_RemoveElement, FS_EmptySet

\* A fold over finitely many sets exists.
LEMMA FoldsUpTo ==
  ASSUME NEW S, IsFiniteSet(S), NEW f, NEW n \in Nat
  PROVE  \E g : Folds(g, f, UpTo(S, n))
<1> DEFINE Bad == {m \in Nat : ~ \E g : Folds(g, f, UpTo(S, m))}
<1> SUFFICES ASSUME Bad # {} PROVE FALSE
  OBVIOUS
<1>1. PICK m \in Bad : \A k \in Bad : m <= k
  BY LeastOf
<1>2. CASE m = 0
  <2>1. UpTo(S, 0) = {{}}
    <3>1. ASSUME NEW s \in SUBSET S, Cardinality(s) <= 0 PROVE s = {}
      BY <3>1, FS_Subset, FS_CardinalityType, FS_EmptySet
    <3>2. Cardinality({}) = 0
      BY FS_EmptySet
    <3> QED BY <3>1, <3>2 DEF UpTo
  <2> DEFINE g == [s \in {{}} |-> 0]
  <2>2. Folds(g, f, {{}})
    BY DEF Folds, Builds
  <2> QED BY <1>2, <2>1, <2>2
<1>3. CASE m # 0
  <2>1. m - 1 \in Nat /\ m - 1 \notin Bad
    BY <1>1, <1>3
  <2>2. PICK g : Folds(g, f, UpTo(S, m - 1))
    BY <2>1
  <2> DEFINE G(h) == [s \in UpTo(S, m) |-> IF s = {} THEN 0 ELSE f[First(s)] + h[s \ {First(s)}]]
  <2>3. ASSUME NEW s \in UpTo(S, m), s # {}
        PROVE  /\ s \ {First(s)} \in UpTo(S, m - 1) /\ s \ {First(s)} \in UpTo(S, m)
               /\ G(g)[s \ {First(s)}] = g[s \ {First(s)}]
    <3>1. s \ {First(s)} \in UpTo(S, m - 1) /\ s \ {First(s)} \in UpTo(S, m)
      BY <2>3, FirstIn, Smaller DEF UpTo
    <3> DEFINE t == s \ {First(s)}
    <3>2. g[t] = IF t = {} THEN 0 ELSE f[First(t)] + g[t \ {First(t)}]
      BY <2>2, <3>1 DEF Folds, Builds
    <3>3. G(g)[t] = IF t = {} THEN 0 ELSE f[First(t)] + g[t \ {First(t)}]
      BY <3>1
    <3> QED BY <3>1, <3>2, <3>3
  <2>4. G(g) = G(G(g))
    <3> DEFINE k == G(g)
    <3>1. \A s \in UpTo(S, m) : s # {} => k[s \ {First(s)}] = g[s \ {First(s)}]
      BY <2>3
    <3> HIDE DEF k
    <3>2. G(k) = G(g)
      BY <3>1
    <3> QED BY <3>2 DEF k
  <2>5. Folds(G(g), f, UpTo(S, m))
    BY <2>4 DEF Folds, Builds
  <2> QED BY <2>5
<1> QED BY <1>2, <1>3

LEMMA FoldsAll ==
  ASSUME NEW S, IsFiniteSet(S), NEW f
  PROVE  \E g : Builds(g, f, S)
<1> DEFINE n == Cardinality(S)
<1>1. n \in Nat /\ UpTo(S, n) = SUBSET S
  BY FS_CardinalityType, FS_Subset DEF UpTo
<1> HIDE DEF n
<1>2. \E g : Folds(g, f, UpTo(S, n))
  BY <1>1, FoldsUpTo
<1> QED BY <1>1, <1>2 DEF Builds

\* What the library's sum is.
LEMMA TotalFolds ==
  ASSUME NEW S, IsFiniteSet(S), NEW f
  PROVE  \E g : Builds(g, f, S) /\ Total(f, S) = g[S]
<1> DEFINE it == CHOOSE g : Builds(g, f, S)
<1>1. Builds(it, f, S)
  BY FoldsAll, Zenon
<1>2. Total(f, S) = it[S]
  BY DEF Total, MapThenSumSet, MapThenFoldSet, Builds, Folds, First
<1> QED BY <1>1, <1>2

\* The order in which a fold takes its elements does not matter.
LEMMA FoldsAny ==
  ASSUME NEW S, IsFiniteSet(S), NEW f, \A x \in S : f[x] \in Int,
         NEW g, Builds(g, f, S), NEW s \in SUBSET S
  PROVE  g[s] \in Int /\ \A x \in s : g[s] = f[x] + g[s \ {x}]
<1> DEFINE Fine(t) == g[t] \in Int /\ \A x \in t : g[t] = f[x] + g[t \ {x}]
           Bad == {m \in Nat : \E t \in SUBSET S : Cardinality(t) = m /\ ~ Fine(t)}
<1>1. \A t \in SUBSET S : g[t] = IF t = {} THEN 0 ELSE f[First(t)] + g[t \ {First(t)}]
  BY DEF Folds, Builds
<1>2. SUFFICES ASSUME ~ Fine(s) PROVE FALSE
  OBVIOUS
<1>3. Bad # {}
  <2>1. Cardinality(s) \in Nat
    BY FS_Subset, FS_CardinalityType
  <2> QED BY <1>2, <2>1
<1>4. PICK m \in Bad : \A k \in Bad : m <= k
  BY <1>3, LeastOf
<1>5. PICK t \in SUBSET S : Cardinality(t) = m /\ ~ Fine(t)
  BY <1>4
<1>6. t # {}
  <2>1. g[{}] = 0
    BY <1>1
  <2>2. Fine({})
    BY <2>1
  <2> QED BY <1>5, <2>2
<1> DEFINE y == First(t)
<1>7. y \in t
  BY <1>6, FirstIn
<1>8. ASSUME NEW x \in t
      PROVE  t \ {x} \in SUBSET S /\ Fine(t \ {x})
  <2>1. /\ Cardinality(t) \in Nat /\ t \ {x} \in SUBSET S
        /\ Cardinality(t \ {x}) = Cardinality(t) - 1 /\ Cardinality(t) > 0
    BY Smaller
  <2>2. Cardinality(t) - 1 \notin Bad
    BY <1>4, <1>5, <2>1
  <2>3. Cardinality(t) - 1 \in Nat
    BY <2>1
  <2> QED BY <2>1, <2>2, <2>3
<1>9. g[t] = f[y] + g[t \ {y}]
  BY <1>1, <1>6
<1> HIDE DEF y, Bad
<1>10. g[t] \in Int
  <2>1. f[y] \in Int /\ g[t \ {y}] \in Int
    BY <1>7, <1>8
  <2> QED BY <1>9, <2>1
<1>11. ASSUME NEW x \in t, x # y PROVE g[t] = f[x] + g[t \ {x}]
  <2>1. x \in t \ {y} /\ y \in t \ {x} /\ (t \ {y}) \ {x} = (t \ {x}) \ {y}
    BY <1>7, <1>11
  <2>2. g[t \ {y}] = f[x] + g[(t \ {y}) \ {x}] /\ g[t \ {x}] = f[y] + g[(t \ {x}) \ {y}]
    BY <1>7, <1>8, <2>1
  <2>3. f[x] \in Int /\ f[y] \in Int /\ g[t \ {y}] \in Int /\ g[t \ {x}] \in Int
    BY <1>7, <1>8
  <2>4. (t \ {y}) \ {x} \in SUBSET S
    OBVIOUS
  <2> DEFINE u == g[(t \ {x}) \ {y}]
  <2>5. g[t \ {y}] = f[x] + u /\ g[t \ {x}] = f[y] + u
    BY <2>1, <2>2
  <2>6. u \in Int
    <3> DEFINE w == (t \ {x}) \ {y}
    <3>2. /\ IsFiniteSet(t) /\ Cardinality(t) \in Nat /\ t \ {x} \in SUBSET S
          /\ Cardinality(t \ {x}) = Cardinality(t) - 1
      BY Smaller
    <3> DEFINE v == t \ {x}
    <3>6. v \in SUBSET S /\ y \in v /\ w = v \ {y}
      BY <2>1, <3>2
    <3> HIDE DEF v, w
    <3>7. /\ IsFiniteSet(v) /\ Cardinality(v) > 0 /\ w \in SUBSET S
          /\ Cardinality(w) = Cardinality(v) - 1
      BY <3>6, Smaller
    <3>3. Cardinality(w) \in Nat /\ Cardinality(w) < m
      BY <1>5, <3>2, <3>7 DEF v
    <3>8. m \in Nat /\ \A n \in Bad : m <= n
      BY <1>4 DEF Bad
    <3>4. Cardinality(w) \notin Bad
      BY <3>3, <3>8
    <3>5. Fine(w)
      BY <3>7, <3>3, <3>4 DEF Bad
    <3> QED BY <3>5 DEF w
  <2> HIDE DEF u
  <2> QED BY <1>9, <2>3, <2>5, <2>6
<1> QED BY <1>5, <1>9, <1>10, <1>11

\* Two folds agree where their functions do.
LEMMA FoldsSame ==
  ASSUME NEW S, IsFiniteSet(S), NEW T, NEW f, NEW h,
         NEW g, Builds(g, f, S), NEW k, Builds(k, h, T)
  PROVE  \A s \in SUBSET S : s \subseteq T /\ (\A x \in s : f[x] = h[x]) => g[s] = k[s]
<1> SUFFICES ASSUME NEW s \in SUBSET S, s \subseteq T, \A x \in s : f[x] = h[x]
             PROVE  g[s] = k[s]
  OBVIOUS
<1> DEFINE Bad == {m \in Nat : \E t \in SUBSET s : Cardinality(t) = m /\ g[t] # k[t]}
<1>1. \A t \in SUBSET s : g[t] = IF t = {} THEN 0 ELSE f[First(t)] + g[t \ {First(t)}]
  BY DEF Folds, Builds
<1>2. \A t \in SUBSET s : k[t] = IF t = {} THEN 0 ELSE h[First(t)] + k[t \ {First(t)}]
  BY DEF Folds, Builds
<1>3. SUFFICES ASSUME g[s] # k[s] PROVE FALSE
  OBVIOUS
<1>4. Bad # {}
  <2>1. Cardinality(s) \in Nat
    BY FS_Subset, FS_CardinalityType
  <2> QED BY <1>3, <2>1
<1>5. PICK m \in Bad : \A n \in Bad : m <= n
  BY <1>4, LeastOf
<1>6. PICK t \in SUBSET s : Cardinality(t) = m /\ g[t] # k[t]
  BY <1>5
<1>7. t # {}
  BY <1>1, <1>2, <1>6
<1> DEFINE y == First(t)
<1>8. y \in t
  BY <1>7, FirstIn
<1>9. /\ Cardinality(t) \in Nat /\ t \ {y} \in SUBSET s
      /\ Cardinality(t \ {y}) = Cardinality(t) - 1 /\ Cardinality(t) > 0
  BY <1>8, Smaller
<1>10. Cardinality(t) - 1 \in Nat /\ Cardinality(t) - 1 \notin Bad
  BY <1>5, <1>6, <1>9
<1>11. g[t \ {y}] = k[t \ {y}]
  BY <1>9, <1>10
<1> QED BY <1>1, <1>2, <1>6, <1>7, <1>8, <1>11

LEMMA TotalEmpty == ASSUME NEW f PROVE Total(f, {}) = 0
<1>1. PICK g : Builds(g, f, {}) /\ Total(f, {}) = g[{}]
  BY TotalFolds, FS_EmptySet
<1> QED BY <1>1 DEF Folds, Builds

LEMMA TotalSame ==
  ASSUME NEW S, IsFiniteSet(S), NEW f, NEW h, \A x \in S : f[x] = h[x]
  PROVE  Total(f, S) = Total(h, S)
<1>1. PICK g : Builds(g, f, S) /\ Total(f, S) = g[S]
  BY TotalFolds
<1>2. PICK k : Builds(k, h, S) /\ Total(h, S) = k[S]
  BY TotalFolds
<1>3. \A s \in SUBSET S : s \subseteq S /\ (\A x \in s : f[x] = h[x]) => g[s] = k[s]
  BY ONLY IsFiniteSet(S), <1>1, <1>2, FoldsSame
<1> QED BY <1>1, <1>2, <1>3

\* A sum is one of its terms and the rest.
LEMMA TotalSplit ==
  ASSUME NEW S, IsFiniteSet(S), NEW f, \A x \in S : f[x] \in Int, NEW x \in S
  PROVE  /\ Total(f, S) \in Int /\ Total(f, S \ {x}) \in Int
         /\ Total(f, S) = f[x] + Total(f, S \ {x})
<1> DEFINE T == S \ {x}
<1>1. IsFiniteSet(T) /\ T \in SUBSET S
  BY FS_Subset
<1>2. PICK g : Builds(g, f, S) /\ Total(f, S) = g[S]
  BY TotalFolds
<1>3. PICK k : Builds(k, f, T) /\ Total(f, T) = k[T]
  BY <1>1, TotalFolds
<1>4. g[T] = k[T]
  <2> HIDE DEF T
  <2>1. \A s \in SUBSET S : s \subseteq T /\ (\A z \in s : f[z] = f[z]) => g[s] = k[s]
    BY <1>2, <1>3, FoldsSame
  <2> QED BY <1>1, <2>1
<1>5. g[T] \in Int /\ g[S] \in Int /\ g[S] = f[x] + g[T]
  <2>1. S \in SUBSET S
    OBVIOUS
  <2>2. g[S] \in Int /\ \A z \in S : g[S] = f[z] + g[S \ {z}]
    BY <1>2, <2>1, FoldsAny
  <2>3. g[T] \in Int
    <3> HIDE DEF T
    <3> QED BY <1>1, <1>2, FoldsAny
  <2> QED BY <2>2, <2>3
<1> QED BY <1>2, <1>3, <1>4, <1>5

LEMMA TotalInt ==
  ASSUME NEW S, IsFiniteSet(S), NEW f, \A x \in S : f[x] \in Int
  PROVE  Total(f, S) \in Int
<1>1. PICK g : Builds(g, f, S) /\ Total(f, S) = g[S]
  BY TotalFolds
<1>2. S \in SUBSET S
  OBVIOUS
<1>3. g[S] \in Int
  BY <1>1, <1>2, FoldsAny, Zenon
<1> QED BY <1>1, <1>3

\* A sum grows with its terms.
LEMMA TotalGrows ==
  ASSUME NEW S, IsFiniteSet(S), NEW f, NEW h,
         \A x \in S : f[x] \in Int /\ h[x] \in Int /\ f[x] <= h[x]
  PROVE  Total(f, S) <= Total(h, S)
<1> DEFINE Bad == {m \in Nat : \E t \in SUBSET S :
                     Cardinality(t) = m /\ ~ (Total(f, t) <= Total(h, t))}
<1>3. SUFFICES ASSUME ~ (Total(f, S) <= Total(h, S)) PROVE FALSE
  OBVIOUS
<1>4. Bad # {}
  <2>1. Cardinality(S) \in Nat
    BY FS_CardinalityType
  <2> QED BY <1>3, <2>1
<1>5. PICK m \in Bad : \A n \in Bad : m <= n
  BY <1>4, LeastOf
<1>6. PICK t \in SUBSET S : Cardinality(t) = m /\ ~ (Total(f, t) <= Total(h, t))
  BY <1>5
<1>7. IsFiniteSet(t)
  BY FS_Subset
<1>8. t # {}
  <2>1. Total(f, {}) = 0 /\ Total(h, {}) = 0
    BY TotalEmpty
  <2> QED BY <1>6, <2>1
<1>9. PICK y : y \in t
  BY <1>8
<1>10. /\ Cardinality(t) \in Nat /\ t \ {y} \in SUBSET S
       /\ Cardinality(t \ {y}) = Cardinality(t) - 1 /\ Cardinality(t) > 0
  BY <1>9, Smaller
<1>11. Cardinality(t) - 1 \in Nat /\ Cardinality(t) - 1 \notin Bad
  BY <1>5, <1>6, <1>10
<1>12. Total(f, t \ {y}) <= Total(h, t \ {y})
  BY <1>10, <1>11
<1>13. /\ Total(f, t) = f[y] + Total(f, t \ {y}) /\ Total(f, t \ {y}) \in Int
       /\ Total(h, t) = h[y] + Total(h, t \ {y}) /\ Total(h, t \ {y}) \in Int
  BY <1>7, <1>9, TotalSplit
<1>14. f[y] \in Int /\ h[y] \in Int /\ f[y] <= h[y]
  BY <1>9
<1> HIDE DEF Bad
<1> QED BY <1>6, <1>12, <1>13, <1>14

LEMMA TotalZero ==
  ASSUME NEW S, IsFiniteSet(S), NEW f, \A x \in S : f[x] = 0
  PROVE  Total(f, S) = 0
<1> DEFINE z == [x \in S |-> 0]
           g == [s \in SUBSET S |-> 0]
<1>1. Builds(g, z, S)
  <2>1. \A s \in SUBSET S : s # {} => z[First(s)] = 0 /\ g[s \ {First(s)}] = 0
    BY FirstIn
  <2> HIDE DEF z
  <2>2. \A s \in SUBSET S : s # {} => z[First(s)] + g[s \ {First(s)}] = 0
    <3> HIDE DEF g
    <3> QED BY <2>1
  <2> QED BY <2>2 DEF Builds, Folds
<1>2. PICK k : Builds(k, z, S) /\ Total(z, S) = k[S]
  BY TotalFolds
<1>3. Builds(k, z, S)
  BY <1>2
<1>4. g[S] = 0
  OBVIOUS
<1> HIDE DEF g
<1>5. \A s \in SUBSET S : s \subseteq S /\ (\A x \in s : z[x] = z[x]) => g[s] = k[s]
  <2> HIDE DEF z
  <2> QED BY ONLY IsFiniteSet(S), <1>1, <1>3, FoldsSame
<1>6. Total(z, S) = 0
  BY <1>2, <1>4, <1>5
<1>7. Total(f, S) = Total(z, S)
  BY TotalSame
<1> QED BY <1>6, <1>7

\* A sum of naturals is one.
LEMMA TotalNat ==
  ASSUME NEW S, IsFiniteSet(S), NEW f, \A x \in S : f[x] \in Nat
  PROVE  Total(f, S) \in Nat
<1> DEFINE z == [x \in S |-> 0]
<1>1. Total(z, S) <= Total(f, S)
  BY TotalGrows
<1>2. Total(z, S) = 0
  BY TotalZero
<1>3. Total(f, S) \in Int
  BY TotalInt
<1> QED BY <1>1, <1>2, <1>3

\* One term changes, and the sum by as much.
LEMMA TotalChange ==
  ASSUME NEW S, IsFiniteSet(S), NEW f \in [S -> Int], NEW h \in [S -> Int], NEW x \in S,
         \A y \in S \ {x} : f[y] = h[y]
  PROVE  /\ Total(f, S) \in Int /\ Total(h, S) \in Int
         /\ Total(h, S) = Total(f, S) - f[x] + h[x]
<1>1. Total(f, S) = f[x] + Total(f, S \ {x}) /\ Total(f, S \ {x}) \in Int
  BY TotalSplit
<1>2. Total(h, S) = h[x] + Total(h, S \ {x}) /\ Total(h, S \ {x}) \in Int
  BY TotalSplit
<1>3. Total(f, S \ {x}) = Total(h, S \ {x})
  BY FS_Subset, TotalSame
<1> QED BY <1>1, <1>2, <1>3

\* Terms that are zero make no difference.
LEMMA TotalSupport ==
  ASSUME NEW S, IsFiniteSet(S), NEW f, \A x \in S : f[x] \in Int,
         NEW T \in SUBSET S, \A x \in S \ T : f[x] = 0
  PROVE  Total(f, S) = Total(f, T)
<1> DEFINE Bad == {m \in Nat : \E t \in SUBSET S :
                     Cardinality(t) = m /\ T \subseteq t /\ Total(f, t) # Total(f, T)}
<1>1. SUFFICES ASSUME Total(f, S) # Total(f, T) PROVE FALSE
  OBVIOUS
<1>2. Bad # {}
  <2>1. Cardinality(S) \in Nat
    BY FS_CardinalityType
  <2> QED BY <1>1, <2>1
<1>3. PICK m \in Bad : \A n \in Bad : m <= n
  BY <1>2, LeastOf
<1>4. PICK t \in SUBSET S : Cardinality(t) = m /\ T \subseteq t /\ Total(f, t) # Total(f, T)
  BY <1>3
<1>5. PICK y : y \in t \ T
  BY <1>4
<1>6. /\ Cardinality(t) \in Nat /\ t \ {y} \in SUBSET S
      /\ Cardinality(t \ {y}) = Cardinality(t) - 1 /\ Cardinality(t) > 0
  BY <1>5, Smaller
<1>7. Cardinality(t) - 1 \in Nat /\ Cardinality(t) - 1 \notin Bad
  <2> HIDE DEF Bad
  <2>1. m \in Nat /\ (\A n \in Bad : m <= n) /\ Cardinality(t) = m
    BY <1>3, <1>4 DEF Bad
  <2> QED BY <1>6, <2>1
<1>8. Total(f, t \ {y}) = Total(f, T)
  <2>1. T \subseteq t \ {y}
    BY <1>4, <1>5
  <2> QED BY <1>6, <1>7, <2>1
<1>9. IsFiniteSet(t) /\ (\A x \in t : f[x] \in Int) /\ y \in t /\ f[y] = 0
  BY <1>5, FS_Subset
<1> HIDE DEF Bad
<1>10. Total(f, t) = f[y] + Total(f, t \ {y}) /\ Total(f, t \ {y}) \in Int
  BY <1>9, TotalSplit
<1> QED BY <1>4, <1>8, <1>9, <1>10

\* A sum is that of the same terms elsewhere.
LEMMA TotalMoved ==
  ASSUME NEW S, IsFiniteSet(S), NEW T, IsFiniteSet(T),
         NEW f \in [S -> Int], NEW h \in [T -> Int],
         NEW p \in [S -> T], \A x, y \in S : p[x] = p[y] => x = y,
         \A y \in T : \E x \in S : p[x] = y,
         \A x \in S : f[x] = h[p[x]]
  PROVE  Total(f, S) = Total(h, T)
<1> DEFINE Im(t) == {p[x] : x \in t}
           Bad == {m \in Nat : \E t \in SUBSET S :
                     Cardinality(t) = m /\ Total(f, t) # Total(h, Im(t))}
<1>3. SUFFICES ASSUME Total(f, S) # Total(h, Im(S)) PROVE FALSE
  <2>1. Im(S) = T
    OBVIOUS
  <2> QED BY <2>1
<1>4. Bad # {}
  <2>1. Cardinality(S) \in Nat
    BY FS_CardinalityType
  <2> QED BY <1>3, <2>1
<1>5. PICK m \in Bad : \A n \in Bad : m <= n
  BY <1>4, LeastOf
<1>6. PICK t \in SUBSET S : Cardinality(t) = m /\ Total(f, t) # Total(h, Im(t))
  BY <1>5
<1>7. IsFiniteSet(t) /\ IsFiniteSet(Im(t)) /\ Im(t) \subseteq T
  <2>1. IsFiniteSet(t) /\ t \subseteq S
    BY FS_Subset
  <2>2. IsFiniteSet(Im(t))
    <3>1. Im(t) \subseteq T
      BY <2>1
    <3> QED BY <3>1, FS_Subset
  <2> QED BY <2>1, <2>2
<1>8. t # {}
  <2>1. Total(f, {}) = 0 /\ Total(h, {}) = 0
    BY TotalEmpty
  <2>2. Im({}) = {}
    OBVIOUS
  <2> QED BY <1>6, <2>1, <2>2
<1>9. PICK y : y \in t
  BY <1>8
<1>10. /\ Cardinality(t) \in Nat /\ t \ {y} \in SUBSET S
       /\ Cardinality(t \ {y}) = Cardinality(t) - 1 /\ Cardinality(t) > 0
  BY <1>9, Smaller
<1>11. Cardinality(t) - 1 \in Nat /\ Cardinality(t) - 1 \notin Bad
  <2> HIDE DEF Bad
  <2>1. m \in Nat /\ (\A n \in Bad : m <= n) /\ Cardinality(t) = m
    BY <1>5, <1>6 DEF Bad
  <2> QED BY <1>10, <2>1
<1>12. Total(f, t \ {y}) = Total(h, Im(t \ {y}))
  BY <1>10, <1>11
<1>13. Im(t \ {y}) = Im(t) \ {p[y]} /\ p[y] \in Im(t)
  BY <1>9
<1>14. f[y] = h[p[y]] /\ (\A x \in t : f[x] \in Int) /\ (\A x \in Im(t) : h[x] \in Int)
  BY <1>7, <1>9
<1> HIDE DEF Bad, Im
<1>15. Total(f, t) = f[y] + Total(f, t \ {y}) /\ Total(f, t \ {y}) \in Int
  BY <1>7, <1>9, <1>14, TotalSplit
<1>16. Total(h, Im(t)) = h[p[y]] + Total(h, Im(t) \ {p[y]})
  BY <1>7, <1>13, <1>14, TotalSplit
<1> QED BY <1>6, <1>12, <1>13, <1>14, <1>15, <1>16
=============================================================================
