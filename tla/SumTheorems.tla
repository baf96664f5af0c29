---------------------------- MODULE SumTheorems -----------------------------
(***************************************************************************)
(* Induction over numbers and over finite sets, with the property as a set *)
(* of numbers or of sets, and the laws of sums.  The fold that Total is    *)
(* defined with chooses a recursive function: it is shown to exist and to  *)
(* be unique by induction over the size of the set.  And a function over   *)
(* an interval that is computed from its value one before exists.          *)
(***************************************************************************)
EXTENDS Sums, FiniteSetTheorems, WellFoundedInduction, TLAPS

\* A set of numbers that is not empty has a least element.
LEMMA NatLeast ==
    ASSUME NEW S \in SUBSET Nat, S # {}
    PROVE  \E m \in S : \A k \in S : m <= k
<1> DEFINE R == OpToRel(<, Nat)
<1>1. IsWellFoundedOn(R, Nat)
  BY NatLessThanWellFounded
<1>2. \A x, y \in Nat : <<x, y>> \in R <=> x < y
  BY DEF OpToRel
<1> HIDE DEF R
<1>3. PICK x \in S : \A y \in S : ~ (<<y, x>> \in R)
  BY <1>1, WFMin
<1>4. \A y \in S : ~ (y < x)
  BY <1>2, <1>3
<1>5. \A y \in S : x <= y
  BY <1>4
<1> QED BY <1>5

\* Induction over the numbers, for a set.
LEMMA NatInd ==
    ASSUME NEW S \in SUBSET Nat, 0 \in S, \A n \in S : n + 1 \in S
    PROVE  Nat \subseteq S
<1> SUFFICES ASSUME Nat \ S # {} PROVE FALSE
  OBVIOUS
<1>1. PICK m \in Nat \ S : \A k \in Nat \ S : m <= k
  BY NatLeast
<1>2. m # 0 /\ m - 1 \in Nat /\ m - 1 \in S
  BY <1>1
<1>3. (m - 1) + 1 = m
  BY <1>1
<1> QED BY <1>1, <1>2, <1>3

\* Induction over the size of a finite set, for a set F of its subsets.
LEMMA SizeInd ==
    ASSUME NEW S, IsFiniteSet(S), NEW F \in SUBSET (SUBSET S), {} \in F,
           \A s \in SUBSET S : s # {} /\ (\A x \in s : s \ {x} \in F) => s \in F
    PROVE  F = SUBSET S
<1> DEFINE N == {n \in Nat : \A s \in SUBSET S : Cardinality(s) <= n => s \in F}
<1>0. \A s \in SUBSET S : IsFiniteSet(s) /\ Cardinality(s) \in Nat
  BY FS_Subset, FS_CardinalityType
<1>1. 0 \in N
  <2>1. \A s \in SUBSET S : Cardinality(s) <= 0 => s = {}
    BY <1>0, FS_EmptySet
  <2> QED BY <2>1
<1>2. ASSUME NEW n \in N PROVE n + 1 \in N
  <2> SUFFICES ASSUME NEW s \in SUBSET S, Cardinality(s) <= n + 1 PROVE s \in F
    OBVIOUS
  <2>1. \A x \in s : s \ {x} \in SUBSET S /\ Cardinality(s \ {x}) <= n
    <3> TAKE x \in s
    <3>1. Cardinality(s \ {x}) = Cardinality(s) - 1
      BY <1>0, FS_RemoveElement
    <3> QED BY <1>0, <3>1
  <2>2. \A x \in s : s \ {x} \in F
    BY <2>1
  <2> QED BY <2>2
<1>3. N \in SUBSET Nat
  OBVIOUS
<1> HIDE DEF N
<1>4. Nat \subseteq N
  BY <1>1, <1>2, <1>3, NatInd
<1>5. \A s \in SUBSET S : s \in F
  BY <1>0, <1>4 DEF N
<1> QED BY <1>5

\* The values of a function on a finite set are finitely many.
LEMMA FiniteImage ==
    ASSUME NEW S, IsFiniteSet(S), NEW f
    PROVE  IsFiniteSet({f[x] : x \in S})
<1> DEFINE T == {f[x] : x \in S}
           g == [x \in S |-> f[x]]
<1>1. g \in Surjection(S, T)
  BY DEF Surjection
<1> HIDE DEF g
<1> QED BY <1>1, FS_Surjection

-----------------------------------------------------------------------------
(***************************************************************************)
(* Sums                                                                    *)
(***************************************************************************)
\* The function that the fold over a set adds up with.
AnElement(s) == CHOOSE x \in s : TRUE
Adds(f, v, D) == f = [s \in D |-> IF s = {} THEN 0 ELSE v[AnElement(s)] + f[s \ {AnElement(s)}]]

\* A sum is the value of the function that its fold chooses.
LEMMA TotalIs ==
    ASSUME NEW v, NEW S
    PROVE  Total(v, S) = (CHOOSE f : Adds(f, v, SUBSET S))[S]
BY DEF Total, MapThenSumSet, MapThenFoldSet, Adds, AnElement

\* A set that is not empty has a chosen element.
LEMMA AnElementIn == \A s : s # {} => AnElement(s) \in s
BY DEF AnElement

\* The function that a fold chooses exists: it is built set size by set size.
LEMMA AddsExists ==
    ASSUME NEW v, NEW S, IsFiniteSet(S)
    PROVE  \E f : Adds(f, v, SUBSET S)
<1> DEFINE D(n) == {s \in SUBSET S : Cardinality(s) <= n}
           N == {n \in Nat : \E f : Adds(f, v, D(n))}
<1>0. \A s \in SUBSET S : IsFiniteSet(s) /\ Cardinality(s) \in Nat
  BY FS_Subset, FS_CardinalityType
<1>1. 0 \in N
  <2>1. \A s \in D(0) : s = {}
    BY <1>0, FS_EmptySet
  <2> HIDE DEF D
  <2>2. Adds([s \in D(0) |-> 0], v, D(0))
    BY <2>1 DEF Adds
  <2> QED BY <2>2
<1>2. ASSUME NEW n \in N PROVE n + 1 \in N
  <2>1. PICK f : Adds(f, v, D(n))
    OBVIOUS
  <2> DEFINE g == [s \in D(n + 1) |-> IF s = {} THEN 0 ELSE v[AnElement(s)] + f[s \ {AnElement(s)}]]
  <2>2. \A s \in D(n) : s \in D(n + 1)
    BY <1>0
  <2>3. \A s \in D(n + 1) : s # {} => s \ {AnElement(s)} \in D(n)
    <3> SUFFICES ASSUME NEW s \in D(n + 1), s # {} PROVE s \ {AnElement(s)} \in D(n)
      OBVIOUS
    <3>1. Cardinality(s \ {AnElement(s)}) = Cardinality(s) - 1
      BY <1>0, AnElementIn, FS_RemoveElement
    <3> QED BY <1>0, <3>1
  <2> HIDE DEF D
  <2>4. \A s \in D(n) : g[s] = f[s]
    BY <2>1, <2>2 DEF Adds
  <2>5. \A s \in D(n + 1) : s # {} => g[s \ {AnElement(s)}] = f[s \ {AnElement(s)}]
    BY <2>3, <2>4
  <2>6. g = [s \in D(n + 1) |-> IF s = {} THEN 0 ELSE v[AnElement(s)] + g[s \ {AnElement(s)}]]
    BY <2>5
  <2> HIDE DEF g
  <2>7. Adds(g, v, D(n + 1))
    BY <2>6 DEF Adds
  <2> QED BY <2>7
<1>3. N \in SUBSET Nat
  OBVIOUS
<1> HIDE DEF N
<1>4. Nat \subseteq N
  BY <1>1, <1>2, <1>3, NatInd
<1>5. PICK f : Adds(f, v, D(Cardinality(S)))
  BY <1>0, <1>4 DEF N
<1>6. D(Cardinality(S)) = SUBSET S
  BY FS_Subset, FS_CardinalityType
<1> HIDE DEF D
<1> QED BY <1>5, <1>6

\* Two such functions agree where the values do.
LEMMA AddsAgree ==
    ASSUME NEW S, IsFiniteSet(S), NEW D, NEW E, SUBSET S \subseteq D, SUBSET S \subseteq E,
           NEW v, NEW w, \A x \in S : v[x] = w[x],
           NEW f, Adds(f, v, D), NEW g, Adds(g, w, E)
    PROVE  f[S] = g[S]
<1> DEFINE F == {s \in SUBSET S : f[s] = g[s]}
<1>0. /\ \A s \in D : f[s] = IF s = {} THEN 0 ELSE v[AnElement(s)] + f[s \ {AnElement(s)}]
      /\ \A s \in E : g[s] = IF s = {} THEN 0 ELSE w[AnElement(s)] + g[s \ {AnElement(s)}]
  BY DEF Adds
<1>1. {} \in F
  BY <1>0
<1>2. ASSUME NEW s \in SUBSET S, s # {}, \A x \in s : s \ {x} \in F PROVE s \in F
  <2>1. AnElement(s) \in s /\ s \ {AnElement(s)} \in F
    BY <1>2, AnElementIn
  <2>2. f[s] = v[AnElement(s)] + f[s \ {AnElement(s)}] /\ g[s] = w[AnElement(s)] + g[s \ {AnElement(s)}]
    BY <1>0, <1>2
  <2> QED BY <2>1, <2>2
<1>3. F \in SUBSET (SUBSET S)
  OBVIOUS
<1> HIDE DEF F
<1>4. \A s \in SUBSET S : s # {} /\ (\A x \in s : s \ {x} \in F) => s \in F
  BY <1>2
<1>5. F = SUBSET S
  BY <1>1, <1>3, <1>4, SizeInd
<1>6. S \in F
  BY <1>5
<1> QED BY <1>6 DEF F

\* So a sum is a value of that function.
LEMMA TotalAdds ==
    ASSUME NEW v, NEW S, IsFiniteSet(S)
    PROVE  \E f : Adds(f, v, SUBSET S) /\ Total(v, S) = f[S]
BY AddsExists, TotalIs

\* The sum over a set depends on the values of its elements only.
LEMMA TotalSame ==
    ASSUME NEW v, NEW w, NEW S, IsFiniteSet(S), \A x \in S : v[x] = w[x]
    PROVE  Total(v, S) = Total(w, S)
<1>1. PICK f : Adds(f, v, SUBSET S) /\ Total(v, S) = f[S]
  BY TotalAdds
<1>2. PICK g : Adds(g, w, SUBSET S) /\ Total(w, S) = g[S]
  BY TotalAdds
<1> QED BY <1>1, <1>2, AddsAgree

\* A sum takes its chosen element out of the set first.
LEMMA TotalUnfold ==
    ASSUME NEW v, NEW S, IsFiniteSet(S)
    PROVE  Total(v, S) = IF S = {} THEN 0 ELSE v[AnElement(S)] + Total(v, S \ {AnElement(S)})
<1>1. PICK f : Adds(f, v, SUBSET S) /\ Total(v, S) = f[S]
  BY TotalAdds
<1>2. f[S] = IF S = {} THEN 0 ELSE v[AnElement(S)] + f[S \ {AnElement(S)}]
  BY <1>1 DEF Adds
<1> DEFINE T == S \ {AnElement(S)}
<1>3. IsFiniteSet(T) /\ SUBSET T \subseteq SUBSET S
  BY FS_Subset
<1>4. PICK g : Adds(g, v, SUBSET T) /\ Total(v, T) = g[T]
  BY <1>3, TotalAdds
<1>5. f[T] = g[T]
  BY <1>1, <1>3, <1>4, AddsAgree
<1> QED BY <1>1, <1>2, <1>4, <1>5

\* The sum of numbers is a number.
LEMMA TotalInt ==
    ASSUME NEW v, NEW S, IsFiniteSet(S), \A x \in S : v[x] \in Int
    PROVE  Total(v, S) \in Int
<1> DEFINE F == {s \in SUBSET S : Total(v, s) \in Int}
<1>0. \A s \in SUBSET S : IsFiniteSet(s)
  BY FS_Subset
<1>1. {} \in F
  <2>1. Total(v, {}) = 0
    BY FS_EmptySet, TotalUnfold
  <2> QED BY <2>1
<1>2. ASSUME NEW s \in SUBSET S, s # {}, \A x \in s : s \ {x} \in F PROVE s \in F
  <2>1. AnElement(s) \in s /\ s \ {AnElement(s)} \in F
    BY <1>2, AnElementIn
  <2>2. Total(v, s) = v[AnElement(s)] + Total(v, s \ {AnElement(s)})
    BY <1>0, <1>2, TotalUnfold
  <2> QED BY <2>1, <2>2
<1>3. F \in SUBSET (SUBSET S)
  OBVIOUS
<1> HIDE DEF F
<1>4. \A s \in SUBSET S : s # {} /\ (\A x \in s : s \ {x} \in F) => s \in F
  BY <1>2
<1>5. F = SUBSET S
  BY <1>1, <1>3, <1>4, SizeInd
<1>6. S \in F
  BY <1>5
<1> QED BY <1>6 DEF F

\* Any element can be taken out of a sum.
LEMMA TotalRemove ==
    ASSUME NEW v, NEW S, IsFiniteSet(S), \A x \in S : v[x] \in Int
    PROVE  \A y \in S : Total(v, S) = v[y] + Total(v, S \ {y})
<1> DEFINE F == {s \in SUBSET S : \A y \in s : Total(v, s) = v[y] + Total(v, s \ {y})}
<1>0. \A s \in SUBSET S : IsFiniteSet(s) /\ Total(v, s) \in Int
  BY FS_Subset, TotalInt
<1>1. {} \in F
  OBVIOUS
<1>2. ASSUME NEW s \in SUBSET S, s # {}, \A x \in s : s \ {x} \in F PROVE s \in F
  <2> SUFFICES ASSUME NEW y \in s PROVE Total(v, s) = v[y] + Total(v, s \ {y})
    OBVIOUS
  <2>1. PICK x \in s : x = AnElement(s)
    BY <1>2, AnElementIn
  <2>2. Total(v, s) = v[x] + Total(v, s \ {x})
    BY <1>0, <1>2, <2>1, TotalUnfold
  <2>3. CASE x = y
    BY <2>2, <2>3
  <2>4. CASE x # y
    <3> DEFINE r == (s \ {x}) \ {y}
    <3>1. Total(v, s \ {x}) = v[y] + Total(v, r)
      BY <1>2, <2>4
    <3>2. Total(v, s \ {y}) = v[x] + Total(v, (s \ {y}) \ {x})
      BY <1>2, <2>4
    <3>3. (s \ {y}) \ {x} = r /\ r \in SUBSET S
      OBVIOUS
    <3> HIDE DEF r
    <3>4. v[x] \in Int /\ v[y] \in Int /\ Total(v, r) \in Int
      BY <1>0, <3>3
    <3> DEFINE a == v[x]
               b == v[y]
               t == Total(v, r)
               tx == Total(v, s \ {x})
               ty == Total(v, s \ {y})
               ts == Total(v, s)
    <3>5. a \in Int /\ b \in Int /\ t \in Int /\ tx = b + t /\ ty = a + t /\ ts = a + tx
      BY <2>2, <3>1, <3>2, <3>3, <3>4
    <3> HIDE DEF a, b, t, tx, ty, ts
    <3>6. ts = b + ty
      BY <3>5
    <3> QED BY <3>6 DEF a, b, t, tx, ty, ts
  <2> QED BY <2>3, <2>4
<1>3. F \in SUBSET (SUBSET S)
  OBVIOUS
<1> HIDE DEF F
<1>4. \A s \in SUBSET S : s # {} /\ (\A x \in s : s \ {x} \in F) => s \in F
  BY <1>2
<1>5. F = SUBSET S
  BY <1>1, <1>3, <1>4, SizeInd
<1>6. S \in F
  BY <1>5
<1> QED BY <1>6 DEF F

\* The sum of a part is at most the sum of the whole.
LEMMA TotalPart ==
    ASSUME NEW v, NEW S, IsFiniteSet(S), \A x \in S : v[x] \in Nat, NEW R \in SUBSET S
    PROVE  Total(v, R) <= Total(v, S)
<1> DEFINE F == {s \in SUBSET S : R \subseteq s => Total(v, R) <= Total(v, s)}
<1>0. \A s \in SUBSET S : IsFiniteSet(s) /\ Total(v, s) \in Int
  BY FS_Subset, TotalInt
<1>1. {} \in F
  <2>1. R \subseteq {} => R = {}
    OBVIOUS
  <2> QED BY <1>0, <2>1
<1>2. ASSUME NEW s \in SUBSET S, s # {}, \A x \in s : s \ {x} \in F PROVE s \in F
  <2> SUFFICES ASSUME R \subseteq s PROVE Total(v, R) <= Total(v, s)
    OBVIOUS
  <2>1. CASE R = s
    BY <1>0, <2>1
  <2>2. CASE R # s
    <3>1. PICK y \in s : y \notin R
      BY <2>2
    <3>2. R \subseteq s \ {y} /\ s \ {y} \in SUBSET S
      BY <3>1
    <3>3. Total(v, R) <= Total(v, s \ {y})
      BY <1>2, <3>2
    <3>4. Total(v, s) = v[y] + Total(v, s \ {y})
      BY <1>0, TotalRemove
    <3>5. v[y] \in Nat /\ Total(v, R) \in Int /\ Total(v, s \ {y}) \in Int
      BY <1>0, <3>2
    <3> HIDE DEF F
    <3> QED BY <3>3, <3>4, <3>5
  <2> QED BY <2>1, <2>2
<1>3. F \in SUBSET (SUBSET S)
  OBVIOUS
<1> HIDE DEF F
<1>4. \A s \in SUBSET S : s # {} /\ (\A x \in s : s \ {x} \in F) => s \in F
  BY <1>2
<1>5. F = SUBSET S
  BY <1>1, <1>3, <1>4, SizeInd
<1>6. S \in F
  BY <1>5
<1> QED BY <1>6 DEF F

\* The sum over two sets that share nothing.
LEMMA TotalUnion ==
    ASSUME NEW v, NEW A, NEW B, IsFiniteSet(A), IsFiniteSet(B), A \cap B = {},
           \A x \in A \cup B : v[x] \in Int
    PROVE  Total(v, A \cup B) = Total(v, A) + Total(v, B)
<1> DEFINE F == {s \in SUBSET B : Total(v, A \cup s) = Total(v, A) + Total(v, s)}
<1>0. \A s \in SUBSET B : /\ IsFiniteSet(s) /\ IsFiniteSet(A \cup s)
                          /\ Total(v, s) \in Int /\ Total(v, A \cup s) \in Int
  <2>1. \A s \in SUBSET B : IsFiniteSet(s) /\ IsFiniteSet(A \cup s)
    BY FS_Subset, FS_Union
  <2> QED BY <2>1, TotalInt
<1>a. Total(v, A) \in Int
  BY TotalInt
<1>1. {} \in F
  <2>1. Total(v, {}) = 0 /\ A \cup {} = A
    BY FS_EmptySet, TotalUnfold
  <2> QED BY <1>a, <2>1
<1>2. ASSUME NEW s \in SUBSET B, s # {}, \A x \in s : s \ {x} \in F PROVE s \in F
  <2>1. PICK x \in s : TRUE
    BY <1>2
  <2>2. s \ {x} \in SUBSET B /\ Total(v, A \cup (s \ {x})) = Total(v, A) + Total(v, s \ {x})
    BY <1>2
  <2>3. (A \cup s) \ {x} = A \cup (s \ {x})
    OBVIOUS
  <2>4. Total(v, A \cup s) = v[x] + Total(v, A \cup (s \ {x}))
    <3> DEFINE u == A \cup s
    <3>1. IsFiniteSet(u) /\ x \in u /\ \A y \in u : v[y] \in Int
      BY <1>0
    <3> HIDE DEF u
    <3>2. Total(v, u) = v[x] + Total(v, u \ {x})
      BY <3>1, TotalRemove
    <3> QED BY <2>3, <3>2 DEF u
  <2>5. Total(v, s) = v[x] + Total(v, s \ {x})
    <3>1. IsFiniteSet(s) /\ x \in s /\ \A y \in s : v[y] \in Int
      BY <1>0
    <3> QED BY <3>1, TotalRemove
  <2> DEFINE a == v[x]
             b == Total(v, A)
             c == Total(v, s \ {x})
  <2>6. a \in Int /\ b \in Int /\ c \in Int
    BY <1>0, <1>a, <2>2
  <2>7. Total(v, A \cup s) = a + (b + c) /\ Total(v, s) = a + c
    BY <2>2, <2>4, <2>5
  <2> HIDE DEF F, a, b, c
  <2>8. a + (b + c) = b + (a + c)
    BY <2>6
  <2>9. Total(v, A \cup s) = Total(v, A) + Total(v, s)
    BY <2>7, <2>8 DEF b
  <2> QED BY <2>9 DEF F
<1>3. F \in SUBSET (SUBSET B)
  OBVIOUS
<1> HIDE DEF F
<1>4. \A s \in SUBSET B : s # {} /\ (\A x \in s : s \ {x} \in F) => s \in F
  BY <1>2
<1>5. F = SUBSET B
  BY <1>1, <1>3, <1>4, SizeInd
<1>6. B \in F
  BY <1>5
<1> QED BY <1>6 DEF F

\* The sums over the parts p of a set, by a key k, add up to the sum over the set.
LEMMA TotalParts ==
    ASSUME NEW S, IsFiniteSet(S), NEW v, \A x \in S : v[x] \in Int,
           NEW K, IsFiniteSet(K), NEW k, \A x \in S : k[x] \in K,
           NEW p, \A y \in K : \A x : x \in p[y] <=> x \in S /\ k[x] = y,
           NEW w, \A y \in K : w[y] = Total(v, p[y])
    PROVE  Total(w, K) = Total(v, S)
<1> DEFINE P(L) == {x \in S : k[x] \in L}
           Q(y) == p[y]
           F == {L \in SUBSET K : Total(w, L) = Total(v, P(L))}
<1>0. /\ \A L \in SUBSET K : IsFiniteSet(L) /\ IsFiniteSet(P(L))
      /\ \A y \in K : IsFiniteSet(Q(y)) /\ w[y] = Total(v, Q(y))
  BY FS_Subset
<1>a. \A y \in K : w[y] \in Int
  <2> TAKE y \in K
  <2>1. \A x \in Q(y) : v[x] \in Int
    OBVIOUS
  <2> HIDE DEF Q
  <2>2. Total(v, Q(y)) \in Int
    BY <1>0, <2>1, TotalInt
  <2> QED BY <1>0, <2>2
<1>1. {} \in F
  <2>1. P({}) = {}
    OBVIOUS
  <2>2. Total(w, {}) = 0 /\ Total(v, {}) = 0
    BY FS_EmptySet, TotalUnfold
  <2> QED BY <2>1, <2>2
<1>2. ASSUME NEW L \in SUBSET K, L # {}, \A y \in L : L \ {y} \in F PROVE L \in F
  <2>1. PICK y \in L : TRUE
    BY <1>2
  <2>2. L \ {y} \in SUBSET K /\ Total(w, L \ {y}) = Total(v, P(L \ {y}))
    BY <1>2
  <2>3. /\ P(L) = Q(y) \cup P(L \ {y}) /\ Q(y) \cap P(L \ {y}) = {}
        /\ \A x \in Q(y) \cup P(L \ {y}) : v[x] \in Int
    OBVIOUS
  <2> HIDE DEF P, Q
  <2>4. Total(v, P(L)) = Total(v, Q(y)) + Total(v, P(L \ {y}))
    <3> DEFINE A == Q(y)
               B == P(L \ {y})
    <3>1. /\ IsFiniteSet(A) /\ IsFiniteSet(B) /\ A \cap B = {} /\ P(L) = A \cup B
          /\ \A x \in A \cup B : v[x] \in Int
      BY <1>0, <2>2, <2>3
    <3> HIDE DEF A, B
    <3>2. Total(v, A \cup B) = Total(v, A) + Total(v, B)
      BY <3>1, TotalUnion
    <3> QED BY <3>1, <3>2 DEF A, B
  <2>5. Total(w, L) = w[y] + Total(w, L \ {y})
    <3>1. \A z \in L : w[z] \in Int
      BY <1>a
    <3> QED BY <1>0, <3>1, TotalRemove
  <2>6. w[y] = Total(v, Q(y))
    BY <1>0
  <2>7. Total(w, L) = Total(v, P(L))
    BY <2>2, <2>4, <2>5, <2>6
  <2> QED BY <2>7
<1>3. F \in SUBSET (SUBSET K)
  OBVIOUS
<1>4. P(K) = S
  OBVIOUS
<1> HIDE DEF F, P
<1>5. \A L \in SUBSET K : L # {} /\ (\A y \in L : L \ {y} \in F) => L \in F
  BY <1>2
<1>6. F = SUBSET K
  BY <1>1, <1>3, <1>5, SizeInd
<1>7. K \in F
  BY <1>6
<1> QED BY <1>4, <1>7 DEF F

\* Ones add up to the number of elements.
LEMMA TotalOnes ==
    ASSUME NEW S, IsFiniteSet(S), NEW v, \A x \in S : v[x] = 1
    PROVE  Total(v, S) = Cardinality(S)
<1> DEFINE F == {s \in SUBSET S : Total(v, s) = Cardinality(s)}
<1>0. \A s \in SUBSET S : IsFiniteSet(s)
  BY FS_Subset
<1>1. {} \in F
  <2>1. Total(v, {}) = 0 /\ Cardinality({}) = 0
    BY FS_EmptySet, TotalUnfold
  <2> QED BY <2>1
<1>2. ASSUME NEW s \in SUBSET S, s # {}, \A x \in s : s \ {x} \in F PROVE s \in F
  <2>1. PICK x \in s : TRUE
    BY <1>2
  <2>2. Total(v, s) = 1 + Total(v, s \ {x})
    <3>1. \A y \in s : v[y] \in Int
      OBVIOUS
    <3>2. Total(v, s) = v[x] + Total(v, s \ {x})
      BY <1>0, <3>1, TotalRemove
    <3> QED BY <3>2
  <2>3. Total(v, s \ {x}) = Cardinality(s \ {x})
    BY <1>2
  <2>4. Cardinality(s \ {x}) = Cardinality(s) - 1 /\ Cardinality(s) \in Nat
    BY <1>0, FS_RemoveElement, FS_CardinalityType
  <2>5. Total(v, s) = Cardinality(s)
    BY <2>2, <2>3, <2>4
  <2> QED BY <2>5
<1>3. F \in SUBSET (SUBSET S)
  OBVIOUS
<1> HIDE DEF F
<1>4. \A s \in SUBSET S : s # {} /\ (\A x \in s : s \ {x} \in F) => s \in F
  BY <1>2
<1>5. F = SUBSET S
  BY <1>1, <1>3, <1>4, SizeInd
<1>6. S \in F
  BY <1>5
<1> QED BY <1>6 DEF F

\* Bounds on the terms of a sum, as multiples of weights, are bounds on the sum.
LEMMA TotalBounds ==
    ASSUME NEW S, IsFiniteSet(S), NEW q, NEW v, NEW a \in Int, NEW b \in Int,
           \A x \in S : /\ q[x] \in Int /\ v[x] \in Int
                        /\ a * q[x] <= v[x] /\ v[x] <= b * q[x]
    PROVE  a * Total(q, S) <= Total(v, S) /\ Total(v, S) <= b * Total(q, S)
<1> DEFINE F == {s \in SUBSET S : a * Total(q, s) <= Total(v, s) /\ Total(v, s) <= b * Total(q, s)}
<1>0. \A s \in SUBSET S : IsFiniteSet(s) /\ Total(q, s) \in Int /\ Total(v, s) \in Int
  <2>1. \A s \in SUBSET S : IsFiniteSet(s)
    BY FS_Subset
  <2> QED BY <2>1, TotalInt
<1>1. {} \in F
  <2>1. Total(v, {}) = 0 /\ Total(q, {}) = 0
    BY FS_EmptySet, TotalUnfold
  <2> QED BY <2>1
<1>2. ASSUME NEW s \in SUBSET S, s # {}, \A x \in s : s \ {x} \in F PROVE s \in F
  <2>1. PICK x \in s : TRUE
    BY <1>2
  <2> DEFINE r == s \ {x}
             qx == q[x]
             vx == v[x]
             qr == Total(q, r)
             vr == Total(v, r)
  <2>2. Total(v, s) = vx + vr /\ Total(q, s) = qx + qr
    BY <1>0, TotalRemove
  <2>3. a * qr <= vr /\ vr <= b * qr /\ qr \in Int /\ vr \in Int
    BY <1>0, <1>2
  <2>4. a * qx <= vx /\ vx <= b * qx /\ qx \in Int /\ vx \in Int
    OBVIOUS
  <2> HIDE DEF r, qx, vx, qr, vr
  <2>5. a * (qx + qr) = a * qx + a * qr /\ b * (qx + qr) = b * qx + b * qr
    BY <2>3, <2>4
  <2>6. a * (qx + qr) <= vx + vr /\ vx + vr <= b * (qx + qr)
    BY <2>3, <2>4, <2>5
  <2> QED BY <2>2, <2>6
<1>3. F \in SUBSET (SUBSET S)
  OBVIOUS
<1> HIDE DEF F
<1>4. \A s \in SUBSET S : s # {} /\ (\A x \in s : s \ {x} \in F) => s \in F
  BY <1>2
<1>5. F = SUBSET S
  BY <1>1, <1>3, <1>4, SizeInd
<1>6. S \in F
  BY <1>5
<1> QED BY <1>6 DEF F

-----------------------------------------------------------------------------
(***************************************************************************)
(* Extremes                                                                *)
(***************************************************************************)
\* A number of a set that none exceeds is its maximum.
LEMMA MaxIs ==
    ASSUME NEW S \in SUBSET Int, NEW m \in S, \A x \in S : x <= m
    PROVE  Max(S) = m
<1>1. m \in S /\ \A y \in S : m >= y
  OBVIOUS
<1>2. Max(S) \in S /\ \A y \in S : Max(S) >= y
  BY <1>1 DEF Max
<1>3. Max(S) \in Int /\ m \in Int /\ Max(S) >= m /\ m >= Max(S)
  BY <1>1, <1>2
<1> QED BY <1>3

\* A number of a set that exceeds none is its minimum.
LEMMA MinIs ==
    ASSUME NEW S \in SUBSET Int, NEW m \in S, \A x \in S : m <= x
    PROVE  Min(S) = m
<1>1. m \in S /\ \A y \in S : m =< y
  OBVIOUS
<1>2. Min(S) \in S /\ \A y \in S : Min(S) =< y
  BY <1>1 DEF Min
<1>3. Min(S) \in Int /\ m \in Int /\ Min(S) <= m /\ m <= Min(S)
  BY <1>1, <1>2
<1> QED BY <1>3

\* A finite set of numbers that is not empty has a maximum and a minimum.
LEMMA Extremes ==
    ASSUME NEW S, IsFiniteSet(S), S # {}, S \subseteq Int
    PROVE  /\ Max(S) \in S /\ \A x \in S : x <= Max(S)
           /\ Min(S) \in S /\ \A x \in S : Min(S) <= x
<1> DEFINE Has(s) == /\ \E m \in s : \A x \in s : x <= m
                     /\ \E m \in s : \A x \in s : m <= x
           F == {s \in SUBSET S : s # {} => Has(s)}
<1>1. {} \in F
  OBVIOUS
<1>2. ASSUME NEW s \in SUBSET S, s # {}, \A x \in s : s \ {x} \in F PROVE s \in F
  <2>1. PICK x \in s : TRUE
    BY <1>2
  <2>2. CASE s \ {x} = {}
    BY <2>1, <2>2
  <2>3. CASE s \ {x} # {}
    <3>1. Has(s \ {x})
      BY <1>2, <2>3
    <3>2. PICK m \in s \ {x} : \A y \in s \ {x} : y <= m
      BY <3>1
    <3>3. PICK n \in s \ {x} : \A y \in s \ {x} : n <= y
      BY <3>1
    <3>4. \A y \in s : y = x \/ y \in s \ {x}
      OBVIOUS
    <3>5. x \in Int /\ m \in Int /\ n \in Int /\ \A y \in s : y \in Int
      OBVIOUS
    <3>6. \E t \in s : \A y \in s : y <= t
      <4>1. CASE x <= m
        BY <3>2, <3>4, <3>5, <4>1
      <4>2. CASE m <= x
        BY <3>2, <3>4, <3>5, <4>2
      <4> QED BY <3>5, <4>1, <4>2
    <3>7. \E t \in s : \A y \in s : t <= y
      <4>1. CASE n <= x
        BY <3>3, <3>4, <3>5, <4>1
      <4>2. CASE x <= n
        BY <3>3, <3>4, <3>5, <4>2
      <4> QED BY <3>5, <4>1, <4>2
    <3> QED BY <3>6, <3>7
  <2> QED BY <2>2, <2>3
<1>3. F \in SUBSET (SUBSET S)
  OBVIOUS
<1> HIDE DEF F
<1>4. \A s \in SUBSET S : s # {} /\ (\A x \in s : s \ {x} \in F) => s \in F
  BY <1>2
<1>5. F = SUBSET S
  BY <1>1, <1>3, <1>4, SizeInd
<1>6. Has(S)
  BY <1>5 DEF F
<1>7. /\ \E m \in S : \A x \in S : m >= x
      /\ \E m \in S : \A x \in S : m =< x
  BY <1>6
<1>8. Max(S) \in S /\ \A x \in S : Max(S) >= x
  BY <1>7 DEF Max
<1>9. Min(S) \in S /\ \A x \in S : Min(S) =< x
  BY <1>7 DEF Min
<1> QED BY <1>8, <1>9

-----------------------------------------------------------------------------
(***************************************************************************)
(* Recursive functions over an interval                                    *)
(***************************************************************************)

\* Induction over the integers of an interval, for a set.
LEMMA IntervalInd ==
    ASSUME NEW m \in Int, NEW n \in Int, NEW S, m <= n => m \in S,
           \A i \in m..n : i + 1 \in m..n /\ i \in S => i + 1 \in S
    PROVE  m..n \subseteq S
<1> DEFINE T == {k \in Nat : m + k <= n => m + k \in S}
<1>1. 0 \in T
  OBVIOUS
<1>2. ASSUME NEW k \in T PROVE k + 1 \in T
  <2>1. ASSUME m + (k + 1) <= n PROVE m + (k + 1) \in S
    <3>1. m + k \in m..n /\ (m + k) + 1 \in m..n /\ m + k \in S
      BY <2>1
    <3>2. (m + k) + 1 \in S
      BY <3>1
    <3> QED BY <3>2
  <2> QED BY <2>1
<1>3. T \subseteq Nat
  OBVIOUS
<1>4. \A i \in m..n : i - m \in Nat /\ m + (i - m) = i
  OBVIOUS
<1> HIDE DEF T
<1>5. Nat \subseteq T
  BY <1>1, <1>2, <1>3, NatInd
<1>6. \A i \in m..n : i - m \in T
  BY <1>4, <1>5
<1> QED BY <1>4, <1>6 DEF T

\* That a function computes each of its values over m..n from the one before.
Computes(f, m, n, base, step) ==
    \A i \in m..n : f[i] = IF i = m THEN base ELSE step[<<i, f[i - 1]>>]
Within(step, m, n, V) == \A i \in m..n, x \in V : step[<<i, x>>] \in V

\* A function over an interval whose values are computed from the value before
\* exists.
LEMMA Recursion ==
    ASSUME NEW V, NEW base \in V, NEW m \in Int, NEW n \in Int, NEW step,
           Within(step, m, n, V)
    PROVE  \E f \in [m..n -> V] : Computes(f, m, n, base, step)
<1>w. \A i \in m..n, x \in V : step[<<i, x>>] \in V
  BY DEF Within
<1> SUFFICES \E f \in [m..n -> V] :
                \A i \in m..n : f[i] = IF i = m THEN base ELSE step[<<i, f[i - 1]>>]
  BY DEF Computes
<1> DEFINE Reads(f, N) == /\ f \in [m..N -> V]
                          /\ \A i \in m..N : f[i] = IF i = m THEN base ELSE step[<<i, f[i - 1]>>]
           S == {N \in m..n : \E f : Reads(f, N)}
<1>1. m <= n => m \in S
  <2> HAVE m <= n
  <2> DEFINE f == [i \in m..m |-> base]
  <2>1. Reads(f, m)
    OBVIOUS
  <2> HIDE DEF f, Reads
  <2> QED BY <2>1
<1>2. ASSUME NEW N \in m..n, N + 1 \in m..n, N \in S PROVE N + 1 \in S
  <2>1. PICK f : Reads(f, N)
    BY <1>2
  <2>2. /\ f \in [m..N -> V]
        /\ \A i \in m..N : f[i] = IF i = m THEN base ELSE step[<<i, f[i - 1]>>]
    BY <2>1
  <2> DEFINE next == step[<<N + 1, f[N]>>]
             g == [i \in m..(N + 1) |-> IF i = N + 1 THEN next ELSE f[i]]
  <2>3. next \in V
    BY <1>2, <1>w, <2>2
  <2>4. \A i \in m..N : g[i] = f[i] /\ i \in m..(N + 1)
    OBVIOUS
  <2>5. g[N + 1] = next
    OBVIOUS
  <2>6. g \in [m..(N + 1) -> V]
    <3> HIDE DEF next
    <3> QED BY <2>2, <2>3
  <2>7. ASSUME NEW i \in m..(N + 1)
        PROVE  g[i] = IF i = m THEN base ELSE step[<<i, g[i - 1]>>]
    <3> HIDE DEF g
    <3>1. CASE i = N + 1
      <4>1. i # m /\ i - 1 = N /\ N \in m..N
        BY <3>1
      <4> QED BY <2>4, <2>5, <3>1, <4>1
    <3>2. CASE i # N + 1
      <4>1. i \in m..N /\ (i # m => i - 1 \in m..N)
        BY <3>2
      <4> QED BY <2>2, <2>4, <4>1
    <3> QED BY <3>1, <3>2
  <2> HIDE DEF g, next
  <2>8. Reads(g, N + 1)
    BY <2>6, <2>7
  <2> HIDE DEF Reads
  <2> QED BY <1>2, <2>8
<1> HIDE DEF S
<1>3. m..n \subseteq S
  BY <1>1, <1>2, IntervalInd
<1>4. CASE m <= n
  <2>1. n \in S
    BY <1>3, <1>4
  <2> QED BY <2>1 DEF S
<1>5. CASE ~(m <= n)
  <2> DEFINE f == [i \in m..n |-> base]
  <2>1. f \in [m..n -> V] /\ m..n = {}
    BY <1>5
  <2> QED BY <2>1
<1> QED BY <1>4, <1>5
=============================================================================
