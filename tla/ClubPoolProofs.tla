--------------------------- MODULE ClubPoolProofs ---------------------------
(***************************************************************************)
(* Proofs about the betting program: types, and the ledger of a pool; what *)
(* has ended stays; no token is made or lost; under an audited resolver    *)
(* every winner is covered, and the program implements the escrow.         *)
(***************************************************************************)
EXTENDS ClubPoolEscrow, FiniteSetTheorems, TLAPS

-----------------------------------------------------------------------------
(* Sums over a function *)

First(s) == CHOOSE x \in s : TRUE

\* The function on the subsets of S whose value at S is the sum of f over S.
Sums(f, S, F) ==
    F = [s \in SUBSET S |-> IF s = {} THEN 0 ELSE f[First(s)] + F[s \ {First(s)}]]

\* Induction over the subsets of a finite set: one of the smallest exceptions is
\* an exception whose own subsets are none.
LEMMA SmallestSubset ==
    ASSUME NEW S, IsFiniteSet(S), NEW Bad \in SUBSET SUBSET S, Bad # {}
    PROVE  \E T \in Bad : \A U \in SUBSET T : U # T => U \notin Bad
<1>1. IsWellFoundedOn(StrictSubsetOrdering(S), FiniteSubsetsOf(S))
  BY FS_StrictSubsetOrderingWellFounded
<1>2. FiniteSubsetsOf(S) = SUBSET S
  BY FS_FiniteSubsetsOfFinite
<1>3. PICK T \in Bad : \A U \in Bad : ~(<<U, T>> \in StrictSubsetOrdering(S))
  BY <1>1, <1>2, WFMin
<1>4. ASSUME NEW U \in SUBSET T, U # T, U \in Bad PROVE FALSE
  BY <1>3, <1>4 DEF StrictSubsetOrdering
<1> QED
  BY <1>3, <1>4

LEMMA FirstOf == ASSUME NEW s, s # {} PROVE First(s) \in s
BY DEF First

LEMMA SumIsChosen ==
    ASSUME NEW f, NEW S
    PROVE  SumFunctionOnSet(f, S) = (CHOOSE F : Sums(f, S, F))[S]
BY DEF SumFunctionOnSet, FoldFunctionOnSet, MapThenFoldSet, Sums, First

LEMMA SumsAt ==
    ASSUME NEW f, NEW S, NEW F, Sums(f, S, F), NEW s \in SUBSET S
    PROVE  /\ s = {} => F[s] = 0
           /\ s # {} => F[s] = f[First(s)] + F[s \ {First(s)}]
BY DEF Sums

LEMMA SumsAgree ==
    ASSUME NEW f, NEW S, IsFiniteSet(S), NEW T \in SUBSET S, NEW F, NEW G,
           Sums(f, S, F), Sums(f, T, G), NEW r \in SUBSET T
    PROVE  F[r] = G[r]
<1> DEFINE Bad == {s \in SUBSET T : F[s] # G[s]}
<1>1. SUFFICES ASSUME Bad # {} PROVE FALSE
  <2>1. Bad = {} => F[r] = G[r]
    OBVIOUS
  <2> QED
    BY <2>1
<1>2. IsFiniteSet(T)
  BY FS_Subset
<1>3. PICK s \in Bad : \A u \in SUBSET s : u # s => u \notin Bad
  <2> HIDE DEF Bad
  <2>1. Bad \in SUBSET SUBSET T
    BY DEF Bad
  <2> QED
    BY <1>1, <1>2, <2>1, SmallestSubset
<1>4. s \in SUBSET T /\ s \in SUBSET S /\ F[s] # G[s]
  OBVIOUS
<1>5. s # {}
  BY <1>4, SumsAt
<1> DEFINE u == s \ {First(s)}
<1>6. u \in SUBSET s /\ u # s /\ u \in SUBSET T
  BY <1>4, <1>5, FirstOf
<1>7. F[u] = G[u]
  BY <1>3, <1>6
<1>8. F[s] = f[First(s)] + F[u] /\ G[s] = f[First(s)] + G[u]
  BY <1>4, <1>5, SumsAt
<1> QED
  BY <1>4, <1>7, <1>8

LEMMA SumsGiveSum ==
    ASSUME NEW f, NEW S, IsFiniteSet(S), NEW F, Sums(f, S, F), NEW T \in SUBSET S,
           \E G : Sums(f, T, G)
    PROVE  SumFunctionOnSet(f, T) = F[T]
<1> DEFINE G == CHOOSE G : Sums(f, T, G)
<1>1. Sums(f, T, G)
  OBVIOUS
<1>2. T \in SUBSET T
  OBVIOUS
<1>3. SumFunctionOnSet(f, T) = G[T]
  BY SumIsChosen
<1> HIDE DEF G
<1>4. G[T] = F[T]
  <2>1. ASSUME NEW H, Sums(f, T, H) PROVE F[T] = H[T]
    BY <1>2, <2>1, SumsAgree
  <2> QED
    BY <1>1, <2>1
<1> QED
  BY <1>3, <1>4

LEMMA SumsExist ==
    ASSUME NEW f, NEW S, IsFiniteSet(S)
    PROVE  \E F : Sums(f, S, F)
<1> DEFINE Bad == {s \in SUBSET S : ~ \E F : Sums(f, s, F)}
<1>1. SUFFICES ASSUME Bad # {} PROVE FALSE
  OBVIOUS
<1>2. PICK T \in Bad : \A u \in SUBSET T : u # T => u \notin Bad
  <2> HIDE DEF Bad
  <2>1. Bad \in SUBSET SUBSET S
    BY DEF Bad
  <2> QED
    BY <1>1, <2>1, SmallestSubset
<1>3. T \in SUBSET S /\ ~ \E F : Sums(f, T, F)
  OBVIOUS
<1>4. ASSUME NEW u \in SUBSET T, u # T PROVE \E F : Sums(f, u, F)
  BY <1>2, <1>3, <1>4
<1> HIDE DEF Bad
<1> DEFINE sum(s) == SumFunctionOnSet(f, s)
           F == [s \in SUBSET T |-> IF s = {} THEN 0 ELSE f[First(s)] + sum(s \ {First(s)})]
<1>5. ASSUME NEW s \in SUBSET T, s # {} PROVE F[s \ {First(s)}] = sum(s \ {First(s)})
  <2> DEFINE u == s \ {First(s)}
  <2>1. u \in SUBSET T /\ u # T
    BY <1>5, FirstOf
  <2>2. IsFiniteSet(u)
    BY <1>3, <2>1, FS_Subset
  <2>3. PICK G : Sums(f, u, G)
    BY <1>4, <2>1
  <2>4. u \in SUBSET u
    OBVIOUS
  <2> HIDE DEF u
  <2>5. sum(u) = G[u]
    BY <2>2, <2>3, <2>4, SumsGiveSum
  <2>6. CASE u = {}
    <3>1. G[u] = 0
      BY <2>3, <2>4, <2>6, SumsAt
    <3>2. F[u] = 0
      BY <2>1, <2>6
    <3> QED
      BY <2>5, <3>1, <3>2 DEF u
  <2>7. CASE u # {}
    <3> DEFINE v == u \ {First(u)}
    <3>1. v \in SUBSET u /\ v \in SUBSET T /\ v # T
      BY <2>1, <2>7, FirstOf
    <3>2. G[u] = f[First(u)] + G[v]
      BY <2>3, <2>4, <2>7, SumsAt
    <3>3. sum(v) = G[v]
      <4>1. \E H : Sums(f, v, H)
        BY <1>4, <3>1
      <4> QED
        BY <2>2, <2>3, <3>1, <4>1, SumsGiveSum
    <3>4. F[u] = f[First(u)] + sum(v)
      BY <2>1, <2>7
    <3> QED
      BY <2>5, <3>2, <3>3, <3>4 DEF u
  <2> QED
    BY <2>6, <2>7
<1>6. F = [s \in SUBSET T |-> IF s = {} THEN 0 ELSE f[First(s)] + F[s \ {First(s)}]]
  <2> HIDE DEF sum
  <2>1. \A s \in SUBSET T : F[s] = IF s = {} THEN 0 ELSE f[First(s)] + F[s \ {First(s)}]
    BY <1>5
  <2> QED
    BY <2>1
<1>7. Sums(f, T, F)
  <2> HIDE DEF F
  <2> QED
    BY <1>6 DEF Sums
<1> QED
  BY <1>3, <1>7

LEMMA SumStep ==
    ASSUME NEW f, NEW S, IsFiniteSet(S)
    PROVE  /\ S = {} => SumFunctionOnSet(f, S) = 0
           /\ S # {} => SumFunctionOnSet(f, S) = f[First(S)] + SumFunctionOnSet(f, S \ {First(S)})
<1>1. PICK F : Sums(f, S, F)
  BY SumsExist
<1>2. S \in SUBSET S /\ S \ {First(S)} \in SUBSET S
  OBVIOUS
<1>3. IsFiniteSet(S \ {First(S)})
  BY <1>2, FS_Subset
<1>4. SumFunctionOnSet(f, S) = F[S] /\ SumFunctionOnSet(f, S \ {First(S)}) = F[S \ {First(S)}]
  BY <1>1, <1>2, <1>3, SumsExist, SumsGiveSum
<1> QED
  BY <1>1, <1>2, <1>4, SumsAt

LEMMA SumType ==
    ASSUME NEW f, NEW S, IsFiniteSet(S), \A x \in S : f[x] \in Int
    PROVE  SumFunctionOnSet(f, S) \in Int
<1> DEFINE Bad == {s \in SUBSET S : SumFunctionOnSet(f, s) \notin Int}
<1>1. SUFFICES ASSUME Bad # {} PROVE FALSE
  OBVIOUS
<1>2. PICK T \in Bad : \A u \in SUBSET T : u # T => u \notin Bad
  <2> HIDE DEF Bad
  <2>1. Bad \in SUBSET SUBSET S
    BY DEF Bad
  <2> QED
    BY <1>1, <2>1, SmallestSubset
<1>3. T \in SUBSET S /\ SumFunctionOnSet(f, T) \notin Int /\ IsFiniteSet(T)
  BY FS_Subset
<1>4. T # {} /\ SumFunctionOnSet(f, T) = f[First(T)] + SumFunctionOnSet(f, T \ {First(T)})
  BY <1>3, SumStep
<1>5. SumFunctionOnSet(f, T \ {First(T)}) \in Int
  BY <1>2, <1>3, <1>4, FirstOf
<1>6. f[First(T)] \in Int
  BY <1>3, <1>4, FirstOf
<1> QED
  BY <1>3, <1>4, <1>5, <1>6

\* Any element may be taken out of a sum.
LEMMA SumTakeOut ==
    ASSUME NEW f, NEW S, IsFiniteSet(S), \A x \in S : f[x] \in Int, NEW x \in S
    PROVE  SumFunctionOnSet(f, S) = f[x] + SumFunctionOnSet(f, S \ {x})
<1> DEFINE sum(s) == SumFunctionOnSet(f, s)
           Bad == {s \in SUBSET S : \E y \in s : sum(s) # f[y] + sum(s \ {y})}
<1>1. SUFFICES ASSUME Bad # {} PROVE FALSE
  OBVIOUS
<1>2. PICK T \in Bad : \A u \in SUBSET T : u # T => u \notin Bad
  <2> HIDE DEF Bad
  <2>1. Bad \in SUBSET SUBSET S
    BY DEF Bad
  <2> QED
    BY <1>1, <2>1, SmallestSubset
<1>3. T \in SUBSET S /\ IsFiniteSet(T)
  BY FS_Subset
<1>4. PICK y \in T : sum(T) # f[y] + sum(T \ {y})
  OBVIOUS
<1> DEFINE c == First(T)
<1>5. c \in T /\ sum(T) = f[c] + sum(T \ {c})
  BY <1>3, <1>4, FirstOf, SumStep
<1> HIDE DEF c
<1>6. c # y
  BY <1>4, <1>5
<1> DEFINE rest == (T \ {c}) \ {y}
<1>7. rest = (T \ {y}) \ {c} /\ rest \in SUBSET S /\ IsFiniteSet(rest)
  BY <1>3, FS_Subset
<1>8. sum(T \ {c}) = f[y] + sum(rest)
  <2>1. T \ {c} \in SUBSET T /\ T \ {c} # T /\ y \in T \ {c} /\ T \ {c} \in SUBSET S
    BY <1>3, <1>5, <1>6
  <2> QED
    BY <1>2, <2>1
<1>9. sum(T \ {y}) = f[c] + sum(rest)
  <2>1. T \ {y} \in SUBSET T /\ T \ {y} # T /\ c \in T \ {y} /\ T \ {y} \in SUBSET S
    BY <1>3, <1>5, <1>6
  <2> QED
    <3>1. sum(T \ {y}) = f[c] + sum((T \ {y}) \ {c})
      BY <1>2, <2>1
    <3> QED
      BY <1>7, <3>1
<1>10. sum(rest) \in Int /\ f[c] \in Int /\ f[y] \in Int
  BY <1>3, <1>5, <1>7, SumType
<1> HIDE DEF sum, rest
<1> QED
  BY <1>4, <1>5, <1>8, <1>9, <1>10

LEMMA SumSame ==
    ASSUME NEW f, NEW g, NEW S, IsFiniteSet(S), \A x \in S : f[x] = g[x]
    PROVE  SumFunctionOnSet(f, S) = SumFunctionOnSet(g, S)
<1> DEFINE Bad == {s \in SUBSET S : SumFunctionOnSet(f, s) # SumFunctionOnSet(g, s)}
<1>1. SUFFICES ASSUME Bad # {} PROVE FALSE
  OBVIOUS
<1>2. PICK T \in Bad : \A u \in SUBSET T : u # T => u \notin Bad
  <2> HIDE DEF Bad
  <2>1. Bad \in SUBSET SUBSET S
    BY DEF Bad
  <2> QED
    BY <1>1, <2>1, SmallestSubset
<1>3. T \in SUBSET S /\ SumFunctionOnSet(f, T) # SumFunctionOnSet(g, T) /\ IsFiniteSet(T)
  BY FS_Subset
<1>4. T # {} /\ SumFunctionOnSet(f, T) = f[First(T)] + SumFunctionOnSet(f, T \ {First(T)})
      /\ SumFunctionOnSet(g, T) = g[First(T)] + SumFunctionOnSet(g, T \ {First(T)})
  BY <1>3, SumStep
<1>5. SumFunctionOnSet(f, T \ {First(T)}) = SumFunctionOnSet(g, T \ {First(T)})
  BY <1>2, <1>3, <1>4, FirstOf
<1>6. f[First(T)] = g[First(T)]
  BY <1>3, <1>4, FirstOf
<1> QED
  BY <1>3, <1>4, <1>5, <1>6

\* One value changed changes the sum by as much.
LEMMA SumUpdate ==
    ASSUME NEW S, IsFiniteSet(S), NEW f \in [S -> Int], NEW x \in S, NEW v \in Int
    PROVE  SumFunction([f EXCEPT ![x] = v]) = SumFunction(f) - f[x] + v
<1> DEFINE g == [f EXCEPT ![x] = v]
           T == S \ {x}
<1>1. /\ DOMAIN g = S /\ DOMAIN f = S /\ g[x] = v /\ \A y \in S : g[y] \in Int /\ f[y] \in Int
      /\ \A y \in T : f[y] = g[y]
  OBVIOUS
<1>2. IsFiniteSet(T) /\ T \in SUBSET S
  BY FS_Subset
<1> HIDE DEF g, T
<1>3. SumFunctionOnSet(g, S) = v + SumFunctionOnSet(g, T)
  BY <1>1, SumTakeOut DEF T
<1>4. SumFunctionOnSet(f, S) = f[x] + SumFunctionOnSet(f, T)
  BY <1>1, SumTakeOut DEF T
<1>5. SumFunctionOnSet(f, T) = SumFunctionOnSet(g, T)
  BY <1>1, <1>2, SumSame
<1>6. SumFunctionOnSet(f, T) \in Int /\ f[x] \in Int
  BY <1>1, <1>2, SumType
<1>7. SumFunction(g) = SumFunctionOnSet(g, S) /\ SumFunction(f) = SumFunctionOnSet(f, S)
  BY <1>1 DEF SumFunction
<1> QED
  BY <1>3, <1>4, <1>5, <1>6, <1>7 DEF g

\* A sum of what some have and the others do not.
LEMMA SumOfEqual ==
    ASSUME NEW S, IsFiniteSet(S), NEW M, NEW e \in Nat, NEW f,
           \A x \in S : f[x] = IF x \in M THEN e ELSE 0
    PROVE  SumFunctionOnSet(f, S) = e * Cardinality(S \cap M)
<1> DEFINE Bad == {s \in SUBSET S : SumFunctionOnSet(f, s) # e * Cardinality(s \cap M)}
<1>1. SUFFICES ASSUME Bad # {} PROVE FALSE
  OBVIOUS
<1>2. PICK T \in Bad : \A u \in SUBSET T : u # T => u \notin Bad
  <2> HIDE DEF Bad
  <2>1. Bad \in SUBSET SUBSET S
    BY DEF Bad
  <2> QED
    BY <1>1, <2>1, SmallestSubset
<1>3. T \in SUBSET S /\ SumFunctionOnSet(f, T) # e * Cardinality(T \cap M) /\ IsFiniteSet(T)
  BY FS_Subset
<1>4. T # {}
  <2>1. e * Cardinality({}) = 0
    BY FS_EmptySet
  <2>2. {} \cap M = {}
    OBVIOUS
  <2> QED
    BY <1>3, <2>1, <2>2, SumStep
<1> DEFINE c == First(T)
           u == T \ {c}
<1>5. c \in T /\ SumFunctionOnSet(f, T) = f[c] + SumFunctionOnSet(f, u)
  BY <1>3, <1>4, SumStep, FirstOf
<1>6. SumFunctionOnSet(f, u) = e * Cardinality(u \cap M)
  BY <1>2, <1>3, <1>5
<1> HIDE DEF c
<1>7. IsFiniteSet(u \cap M) /\ IsFiniteSet(T \cap M) /\ Cardinality(u \cap M) \in Nat
  BY <1>3, FS_Subset, FS_Intersection, FS_CardinalityType
<1>8. CASE c \in M
  <2>1. T \cap M = (u \cap M) \cup {c} /\ c \notin u \cap M
    BY <1>5, <1>8
  <2>2. Cardinality(T \cap M) = Cardinality(u \cap M) + 1
    BY <1>7, <2>1, FS_AddElement
  <2>3. \A n \in Nat : e * (n + 1) = e + e * n
    OBVIOUS
  <2>4. f[c] = e
    BY <1>3, <1>5, <1>8
  <2> HIDE DEF u
  <2> QED
    BY <1>3, <1>5, <1>6, <1>7, <2>2, <2>3, <2>4
<1>9. CASE c \notin M
  <2>1. T \cap M = u \cap M
    BY <1>9
  <2>2. f[c] = 0
    BY <1>3, <1>5, <1>9
  <2>3. e * Cardinality(u \cap M) \in Int
    BY <1>7
  <2> HIDE DEF u
  <2> QED
    BY <1>3, <1>5, <1>6, <2>1, <2>2, <2>3
<1> QED
  BY <1>8, <1>9

\* What is nothing need not be summed.
LEMMA SumPart ==
    ASSUME NEW f, NEW S, IsFiniteSet(S), NEW T \in SUBSET S, \A x \in S : f[x] \in Int,
           \A x \in S \ T : f[x] = 0
    PROVE  SumFunctionOnSet(f, T) = SumFunctionOnSet(f, S)
<1> DEFINE sum(s) == SumFunctionOnSet(f, s)
           Bad == {s \in SUBSET S : sum(s \cap T) # sum(s)}
<1>1. S \cap T = T /\ S \in SUBSET S
  OBVIOUS
<1>2. SUFFICES ASSUME Bad # {} PROVE FALSE
  BY <1>1
<1>3. PICK U \in Bad : \A u \in SUBSET U : u # U => u \notin Bad
  <2> HIDE DEF Bad
  <2>1. Bad \in SUBSET SUBSET S
    BY DEF Bad
  <2> QED
    BY <1>2, <2>1, SmallestSubset
<1>4. U \in SUBSET S /\ sum(U \cap T) # sum(U) /\ IsFiniteSet(U) /\ IsFiniteSet(U \cap T)
  BY FS_Subset
<1>5. U # {}
  <2>1. U = {} => U \cap T = U
    OBVIOUS
  <2> QED
    BY <1>4, <2>1
<1> DEFINE c == First(U)
           u == U \ {c}
<1>6. c \in U /\ u \in SUBSET U /\ u # U /\ u \in SUBSET S
  BY <1>4, <1>5, FirstOf
<1>7. sum(U) = f[c] + sum(u)
  BY <1>4, <1>5, SumStep
<1> HIDE DEF c
<1>8. sum(u \cap T) = sum(u)
  BY <1>3, <1>6
<1>9. sum(u) \in Int /\ f[c] \in Int
  <2>1. IsFiniteSet(u) /\ \A x \in u : f[x] \in Int
    BY <1>4, <1>6, FS_Subset
  <2> QED
    BY <1>4, <1>6, <2>1, SumType
<1>10. CASE c \in T
  <2>1. c \in U \cap T /\ (U \cap T) \ {c} = u \cap T /\ \A x \in U \cap T : f[x] \in Int
    BY <1>4, <1>6, <1>10
  <2>2. sum(U \cap T) = f[c] + sum((U \cap T) \ {c})
    BY <1>4, <2>1, SumTakeOut
  <2> QED
    BY <1>4, <1>7, <1>8, <2>1, <2>2
<1>11. CASE c \notin T
  <2>1. U \cap T = u \cap T /\ f[c] = 0
    BY <1>4, <1>6, <1>11
  <2>2. sum(U \cap T) = sum(u)
    BY <1>8, <2>1
  <2>3. sum(U) = sum(u)
    <3> HIDE DEF sum, u
    <3> QED
      BY <1>7, <1>9, <2>1
  <2> QED
    BY <1>4, <2>2, <2>3
<1> QED
  BY <1>10, <1>11

\* Sums are taken apart value by value.
LEMMA SumAdd ==
    ASSUME NEW f, NEW g, NEW h, NEW S, IsFiniteSet(S),
           \A x \in S : f[x] \in Int /\ g[x] \in Int /\ h[x] = f[x] + g[x]
    PROVE  SumFunctionOnSet(h, S) = SumFunctionOnSet(f, S) + SumFunctionOnSet(g, S)
<1> DEFINE F(s) == SumFunctionOnSet(f, s)
           G(s) == SumFunctionOnSet(g, s)
           H(s) == SumFunctionOnSet(h, s)
           Bad == {s \in SUBSET S : H(s) # F(s) + G(s)}
<1>1. SUFFICES ASSUME Bad # {} PROVE FALSE
  OBVIOUS
<1>2. PICK U \in Bad : \A u \in SUBSET U : u # U => u \notin Bad
  <2> HIDE DEF Bad
  <2>1. Bad \in SUBSET SUBSET S
    BY DEF Bad
  <2> QED
    BY <1>1, <2>1, SmallestSubset
<1>3. U \in SUBSET S /\ H(U) # F(U) + G(U) /\ IsFiniteSet(U)
  BY FS_Subset
<1>4. U # {}
  <2>1. U = {} => H(U) = 0 /\ F(U) = 0 /\ G(U) = 0
    BY <1>3, SumStep
  <2> QED
    BY <1>3, <2>1
<1> DEFINE c == First(U)
           u == U \ {c}
<1>5. c \in U /\ u \in SUBSET U /\ u # U /\ u \in SUBSET S /\ c \in S
  BY <1>3, <1>4, FirstOf
<1>6. H(U) = h[c] + H(u) /\ F(U) = f[c] + F(u) /\ G(U) = g[c] + G(u)
  BY <1>3, <1>4, SumStep
<1> HIDE DEF c
<1>7. H(u) = F(u) + G(u)
  BY <1>2, <1>5
<1>8. F(u) \in Int /\ G(u) \in Int
  <2>1. IsFiniteSet(u) /\ \A x \in u : f[x] \in Int /\ g[x] \in Int
    BY <1>3, <1>5, FS_Subset
  <2> QED
    BY <2>1, SumType
<1>9. f[c] \in Int /\ g[c] \in Int /\ h[c] = f[c] + g[c]
  BY <1>5
<1> HIDE DEF F, G, H, u
<1> QED
  BY <1>3, <1>6, <1>7, <1>8, <1>9

-----------------------------------------------------------------------------
(* Arithmetic of resolve_pool *)

\* Integer division leaves a rest smaller than the divisor.
LEMMA FloorDivision ==
    ASSUME NEW d \in Nat, NEW n \in Nat, n > 0
    PROVE  /\ d \div n \in Nat
           /\ (d \div n) * n \in Nat
           /\ (d \div n) * n <= d
           /\ d - (d \div n) * n < n
BY SMT

\* The rake of a pool whose rake_bps passed create_pool is at most a tenth.
LEMMA RakeAtMostTenth ==
    ASSUME NEW total \in Nat, NEW bps \in Nat, bps <= MaxRakeBps
    PROVE  /\ (total * bps) \div BPS \in Nat
           /\ 10 * ((total * bps) \div BPS) <= total
<1>1. total * bps \in Nat /\ total * bps <= total * 1000
  BY SMT DEF MaxRakeBps
<1> QED
  BY <1>1, SMT DEF BPS

LEMMA Distribute ==
    ASSUME NEW a \in Nat, NEW b \in Nat
    PROVE  /\ a * b \in Nat
           /\ a * (b + 1) = a * b + a
           /\ b > 0 => a * b = a * (b - 1) + a
BY SMT

LEMMA Monotone ==
    ASSUME NEW a \in Nat, NEW b \in Nat, NEW c \in Nat, b <= c
    PROVE  a * b <= a * c
BY SMT

-----------------------------------------------------------------------------
(* Type correctness *)

LEMMA U16MaxInU16 == U16Max \in U16 /\ U16Max \in Nat
<1>1. U16Max \in Nat
  BY DEF U16Max
<1> QED
  BY <1>1 DEF U16

\* The account create_pool writes.
LEMMA NewPoolAccount ==
    ASSUME NEW host \in Member, NEW terms \in Terms
    PROVE  [status |-> "Open", authority |-> host, deadline |-> terms.deadline,
            outcome_count |-> terms.outcome_count,
            stake_amount |-> terms.stake_amount,
            rake_bps |-> terms.rake_bps, max_entries |-> terms.max_entries,
            entry_count |-> 0, total_pool |-> 0,
            winning_outcome |-> UNRESOLVED, winner_count |-> 0,
            share_amount |-> 0] \in PoolAccount
<1>1. /\ terms.deadline \in Nat /\ terms.max_entries \in Nat
      /\ terms.outcome_count \in U16 /\ terms.rake_bps \in U16
      /\ terms.stake_amount \in Nat
  BY ArgumentTypes
<1>2. "Open" \in PoolStatus
  BY DEF PoolStatus
<1> QED
  BY <1>1, <1>2, U16MaxInU16 DEF PoolAccount, UNRESOLVED

\* The counters enter_pool writes.
LEMMA EnteredPoolAccount ==
    ASSUME NEW a \in PoolAccount, NEW n \in Nat, NEW x \in Nat
    PROVE  [a EXCEPT !.entry_count = n, !.total_pool = x] \in PoolAccount
BY DEF PoolAccount

\* The result resolve_pool writes.
LEMMA SettledPoolAccount ==
    ASSUME NEW a \in PoolAccount, NEW s \in PoolStatus, NEW w \in U16,
           NEW n \in Nat, NEW x \in Nat
    PROVE  [a EXCEPT !.status = s, !.winning_outcome = w, !.winner_count = n,
                     !.share_amount = x] \in PoolAccount
BY DEF PoolAccount

\* A pool that is not absent has an account of the right type.
LEMMA PresentPool ==
    ASSUME TypeOK, NEW p \in Pool, pool[p].status # "Absent"
    PROVE  /\ pool[p] \in PoolAccount
           /\ pool[p].status \in PoolStatus /\ pool[p].authority \in Member
           /\ pool[p].deadline \in Nat /\ pool[p].outcome_count \in U16
           /\ pool[p].stake_amount \in Nat /\ pool[p].rake_bps \in U16
           /\ pool[p].max_entries \in Nat /\ pool[p].entry_count \in Nat
           /\ pool[p].total_pool \in Nat /\ pool[p].winning_outcome \in U16
           /\ pool[p].winner_count \in Nat /\ pool[p].share_amount \in Nat
<1>1. pool[p] \in PoolAccount
  BY DEF TypeOK, NoPool
<1> QED
  BY <1>1 DEF PoolAccount

LEMMA EntryType ==
    ASSUME TypeOK, NEW p \in Pool, NEW m \in Entrants(p)
    PROVE  /\ m \in Member /\ entry[p][m] \in Entry
           /\ entry[p][m].prediction \in U16 /\ entry[p][m].stake_paid \in Nat
           /\ entry[p][m].claimed \in BOOLEAN
<1>1. m \in Member /\ entry[p][m] \in Entry
  BY DEF TypeOK, Entrants
<1> QED
  BY <1>1 DEF Entry

\* resolve_pool's amounts are natural numbers (its u64 checks never fire), the
\* shares and what is swept make up the pool, and the sweep is the rake and a
\* rest smaller than one token per winner.
LEMMA ResolveAmounts ==
    ASSUME NEW p \in Pool, NEW n \in Nat, n > 0,
           pool[p].total_pool \in Nat, pool[p].rake_bps \in Nat,
           pool[p].rake_bps <= MaxRakeBps
    PROVE  /\ Rake(p) \in Nat /\ Share(p, n) \in Nat /\ Sweep(p, n) \in Nat
           /\ Share(p, n) * n \in Nat
           /\ Share(p, n) * n + Sweep(p, n) = pool[p].total_pool
           /\ Rake(p) <= Sweep(p, n) /\ Sweep(p, n) < Rake(p) + n
           /\ 10 * Rake(p) <= pool[p].total_pool
<1>1. Rake(p) \in Nat /\ 10 * Rake(p) <= pool[p].total_pool
  BY RakeAtMostTenth DEF Rake
<1>2. Distributable(p) \in Nat
  BY <1>1 DEF Distributable
<1>3. /\ Share(p, n) \in Nat /\ Share(p, n) * n \in Nat
      /\ Share(p, n) * n <= Distributable(p)
      /\ Distributable(p) - Share(p, n) * n < n
  BY <1>2, FloorDivision DEF Share
<1> QED
  BY <1>1, <1>2, <1>3 DEF Sweep, Distributable

-----------------------------------------------------------------------------
(* Types are preserved *)

\* No instruction breaks the types; the rake bound of create_pool is what keeps
\* a sweep from being negative.
LEMMA TypeStep == IInv /\ [Next]_vars => TypeOK'
<1> SUFFICES ASSUME IInv, [Next]_vars PROVE TypeOK'
  OBVIOUS
<1>0. TypeOK
  BY DEF IInv
<1>1. CASE Tick
  BY <1>0, <1>1 DEF Tick, TypeOK
<1>2. ASSUME NEW signer \in Key, NEW resolver \in Key, NEW treasury \in Treasury,
             \/ InitializeConfig(signer, resolver, treasury)
             \/ UpdateConfig(signer, resolver, treasury)
      PROVE  TypeOK'
  <2>1. signer \in Signer /\ resolver \in Signer
    BY DEF Signer
  <2>2. CASE InitializeConfig(signer, resolver, treasury)
    <3>1. config' \in Config
      BY <2>1, <2>2 DEF InitializeConfig, Config
    <3> QED
      BY <1>0, <2>2, <3>1 DEF InitializeConfig, TypeOK
  <2>3. CASE UpdateConfig(signer, resolver, treasury)
    <3>1. config \in Config
      BY <1>0, <2>3 DEF UpdateConfig, TypeOK
    <3>2. config' \in Config
      BY <2>1, <2>3, <3>1 DEF UpdateConfig, Config
    <3> QED
      BY <1>0, <2>3, <3>2 DEF UpdateConfig, TypeOK
  <2> QED
    BY <1>2, <2>2, <2>3
<1>3. ASSUME NEW p \in Pool, NEW host \in Member, NEW terms \in Terms,
             CreatePool(host, p, terms)
      PROVE  TypeOK'
  <2>1. pool' \in [Pool -> PoolAccount \cup {NoPool}]
    BY <1>0, <1>3, NewPoolAccount DEF CreatePool, OpenAccount, TypeOK
  <2> QED
    BY <1>0, <1>3, <2>1 DEF CreatePool, OpenAccount, TypeOK
<1>4. ASSUME NEW p \in Pool, NEW m \in Member, NEW x \in OutcomeArg,
             EnterPool(m, p, x)
      PROVE  TypeOK'
  <2>1. pool[p].status # "Absent" /\ x \in U16
    BY <1>4, ArgumentTypes DEF EnterPool
  <2>2. pool' \in [Pool -> PoolAccount \cup {NoPool}]
    <3>1. /\ pool[p] \in PoolAccount
          /\ pool[p].entry_count + 1 \in Nat
          /\ pool[p].total_pool + pool[p].stake_amount \in Nat
      BY <1>0, <2>1, PresentPool
    <3>2. [pool[p] EXCEPT !.entry_count = pool[p].entry_count + 1,
                          !.total_pool = pool[p].total_pool + pool[p].stake_amount]
            \in PoolAccount
      BY <3>1, EnteredPoolAccount
    <3> QED
      BY <1>0, <1>4, <3>2 DEF EnterPool, TypeOK
  <2>3. entry' \in [Pool -> [Member -> Entry \cup {NoEntry}]]
    <3>1. [prediction |-> x, stake_paid |-> pool[p].stake_amount,
           claimed |-> FALSE] \in Entry
      BY <1>0, <2>1, PresentPool DEF Entry
    <3> QED
      BY <1>0, <1>4, <3>1 DEF EnterPool, TypeOK
  <2>4. vault' \in [Pool -> Nat] /\ wallet' \in [Account -> Nat]
    BY <1>0, <1>4, <2>1, PresentPool DEF EnterPool, TypeOK, Account
  <2> QED
    BY <1>0, <1>4, <2>2, <2>3, <2>4 DEF EnterPool, TypeOK
<1>5. ASSUME NEW p \in Pool, NEW signer \in Signer,
             LockPool(signer, p) \/ CancelPool(signer, p)
      PROVE  TypeOK'
  <2>1. pool[p].status # "Absent"
    BY <1>5 DEF LockPool, CancelPool
  <2>2. "Locked" \in PoolStatus /\ "Cancelled" \in PoolStatus
    BY DEF PoolStatus
  <2>3. pool' \in [Pool -> PoolAccount \cup {NoPool}]
    <3>1. /\ [pool[p] EXCEPT !.status = "Locked"] \in PoolAccount
          /\ [pool[p] EXCEPT !.status = "Cancelled"] \in PoolAccount
      BY <1>0, <2>1, <2>2, PresentPool DEF PoolAccount
    <3> QED
      BY <1>0, <1>5, <3>1 DEF LockPool, CancelPool, TypeOK
  <2> QED
    BY <1>0, <1>5, <2>3 DEF LockPool, CancelPool, TypeOK
<1>6. ASSUME NEW p \in Pool, NEW m \in Member,
             ClaimWinnings(m, p) \/ ClaimRefund(m, p)
      PROVE  TypeOK'
  <2>1. pool[p].status # "Absent" /\ m \in Entrants(p)
    BY <1>6 DEF ClaimWinnings, ClaimRefund
  <2>2. PICK amount \in Nat : PayFromVault(p, m, amount)
    BY <1>0, <1>6, <2>1, PresentPool, EntryType DEF ClaimWinnings, ClaimRefund
  <2>3. entry' \in [Pool -> [Member -> Entry \cup {NoEntry}]]
    <3>1. [entry[p][m] EXCEPT !.claimed = TRUE] \in Entry
      BY <1>0, <2>1, EntryType DEF Entry
    <3> QED
      BY <1>0, <2>2, <3>1 DEF PayFromVault, TypeOK
  <2>4. vault' \in [Pool -> Nat] /\ wallet' \in [Account -> Nat]
    BY <1>0, <2>2 DEF PayFromVault, TypeOK, Account
  <2> QED
    BY <1>0, <2>2, <2>3, <2>4 DEF PayFromVault, TypeOK
<1>7. ASSUME NEW p \in Pool, NEW signer \in Signer, NEW w \in OutcomeArg,
             NEW n \in CountArg, NEW t \in Treasury, ResolvePool(signer, p, w, n, t)
      PROVE  TypeOK'
  <2>1. pool[p].status # "Absent" /\ w \in U16 /\ n \in Nat
    BY <1>7, ArgumentTypes
    DEF ResolvePool, ResolveToVoid, ResolveToWinners, MayResolve
  <2>2. "Voided" \in PoolStatus /\ "Resolved" \in PoolStatus
    BY DEF PoolStatus
  <2>3. CASE ResolveToVoid(signer, p, w, n, t)
    <3>1. pool' \in [Pool -> PoolAccount \cup {NoPool}]
      BY <1>0, <2>1, <2>2, <2>3, PresentPool, SettledPoolAccount
      DEF ResolveToVoid, TypeOK
    <3> QED
      BY <1>0, <2>3, <3>1 DEF ResolveToVoid, TypeOK
  <2>4. CASE ResolveToWinners(signer, p, w, n, t)
    <3>1. pool[p].rake_bps <= MaxRakeBps /\ pool[p].rake_bps \in Nat
      BY <1>0, <2>1, PresentPool DEF IInv, PoolInvOf, TermsKeptOf, U16
    <3>2. Share(p, n) \in Nat /\ Sweep(p, n) \in Nat
      BY <1>0, <2>1, <2>4, <3>1, PresentPool, ResolveAmounts DEF ResolveToWinners
    <3>3. pool' \in [Pool -> PoolAccount \cup {NoPool}]
      BY <1>0, <2>1, <2>2, <2>4, <3>2, PresentPool, SettledPoolAccount
      DEF ResolveToWinners, TypeOK
    <3>4. vault' \in [Pool -> Nat] /\ wallet' \in [Account -> Nat]
      BY <1>0, <2>4, <3>2 DEF ResolveToWinners, TypeOK, Account
    <3> QED
      BY <1>0, <2>4, <3>3, <3>4 DEF ResolveToWinners, TypeOK
  <2> QED
    BY <1>7, <2>3, <2>4 DEF ResolvePool
<1>8. CASE UNCHANGED vars
  BY <1>0, <1>8 DEF vars, TypeOK
<1> QED
  BY <1>1, <1>2, <1>3, <1>4, <1>5, <1>6, <1>7, <1>8
  DEF Next, ConfigNext, PoolNext, ResolveNext

-----------------------------------------------------------------------------
(* The ledger of a pool is preserved *)

\* Sets of entries are finite: members are.
LEMMA EntrantsFinite ==
    ASSUME NEW p \in Pool
    PROVE  /\ IsFiniteSet(Entrants(p)) /\ IsFiniteSet(Claimed(p))
           /\ Cardinality(Entrants(p)) \in Nat /\ Cardinality(Claimed(p)) \in Nat
           /\ Claimed(p) \subseteq Entrants(p)
<1>1. Entrants(p) \in SUBSET Member /\ Claimed(p) \in SUBSET Entrants(p)
  BY DEF Entrants, Claimed
<1>2. IsFiniteSet(Entrants(p))
  BY <1>1, ArgumentTypes, FS_Subset
<1>3. IsFiniteSet(Claimed(p))
  BY <1>1, <1>2, FS_Subset
<1> QED
  BY <1>1, <1>2, <1>3, FS_CardinalityType

\* An instruction on another pool leaves a pool's ledger alone.
LEMMA OtherPool ==
    ASSUME NEW p \in Pool, PoolInvOf(p),
           pool'[p] = pool[p], entry'[p] = entry[p], vault'[p] = vault[p]
    PROVE  PoolInvOf(p)'
<1>1. /\ Entrants(p)' = Entrants(p) /\ Claimed(p)' = Claimed(p)
      /\ \A w : Winners(p, w)' = Winners(p, w)
  BY DEF Entrants, Claimed, Winners
<1> QED
  BY <1>1 DEF PoolInvOf, TermsKeptOf, EntryLedgerOf, RefundableOf, ShareBudgetOf,
              RakeBoundedOf, Rake

LEMMA CreateLedger ==
    ASSUME IInv, NEW p \in Pool, NEW host \in Member, NEW terms \in Terms,
           CreatePool(host, p, terms)
    PROVE  PoolInvOf(p)'
<1>1. /\ pool'[p] = [status |-> "Open", authority |-> host,
             deadline |-> terms.deadline, outcome_count |-> terms.outcome_count,
             stake_amount |-> terms.stake_amount,
             rake_bps |-> terms.rake_bps, max_entries |-> terms.max_entries,
             entry_count |-> 0, total_pool |-> 0,
             winning_outcome |-> UNRESOLVED, winner_count |-> 0,
             share_amount |-> 0]
      /\ entry' = entry /\ vault'[p] = vault[p] /\ ValidTerms(terms)
  BY DEF CreatePool, OpenAccount, IInv, TypeOK
<1>2. Entrants(p) = {} /\ vault[p] = 0
  BY DEF CreatePool, OpenAccount, NoPool, IInv, PoolInvOf, EntryLedgerOf
<1>3. Entrants(p)' = {} /\ Claimed(p)' = {}
  BY <1>1, <1>2 DEF Entrants, Claimed
<1>4. terms.stake_amount \in Nat /\ terms.max_entries \in Nat
  BY ArgumentTypes
<1>5. Cardinality({}) = 0 /\ {} \ {} = {}
  BY FS_EmptySet
<1>6. TermsKeptOf(p)'
  BY <1>1, <1>4 DEF TermsKeptOf, ValidTerms
<1>7. EntryLedgerOf(p)'
  BY <1>1, <1>3, <1>4, <1>5 DEF EntryLedgerOf
<1>8. RefundableOf(p)'
  BY <1>1, <1>2, <1>3, <1>4, <1>5 DEF RefundableOf
<1> QED
  BY <1>1, <1>6, <1>7, <1>8 DEF PoolInvOf, ShareBudgetOf, RakeBoundedOf

\* What enter_pool does to the entries of its pool.
LEMMA EnterEffect ==
    ASSUME IInv, NEW p \in Pool, NEW m \in Member, NEW x \in OutcomeArg,
           EnterPool(m, p, x)
    PROVE  /\ m \notin Entrants(p) /\ Claimed(p) = {}
           /\ Entrants(p)' = Entrants(p) \cup {m}
           /\ Claimed(p)' = {}
           /\ entry'[p][m].stake_paid = pool[p].stake_amount
           /\ \A k \in Entrants(p) : entry'[p][k] = entry[p][k]
<1>0. TypeOK /\ PoolInvOf(p) /\ pool[p].status = "Open"
  BY DEF IInv, EnterPool
<1>4. entry'[p] = [entry[p] EXCEPT ![m] = [prediction |-> x,
                      stake_paid |-> pool[p].stake_amount, claimed |-> FALSE]]
  BY <1>0 DEF EnterPool, TypeOK
<1>5. m \notin Entrants(p) /\ Claimed(p) = {}
  BY <1>0 DEF EnterPool, Entrants, PoolInvOf, EntryLedgerOf
<1>6. Entrants(p)' = Entrants(p) \cup {m}
  <2>1. entry'[p][m].claimed = FALSE /\ entry'[p][m] \in Entry
    <3>1. x \in U16 /\ pool[p].stake_amount \in Nat
      BY <1>0, ArgumentTypes, PresentPool
    <3> QED
      BY <1>0, <1>4, <3>1 DEF TypeOK, Entry
  <2>2. entry'[p][m] # NoEntry
    BY <2>1 DEF Entry, NoEntry
  <2>3. \A k \in Member : k # m => entry'[p][k] = entry[p][k]
    BY <1>0, <1>4 DEF TypeOK
  <2> QED
    BY <2>2, <2>3 DEF Entrants
<1>7. Claimed(p)' = {}
  <2>1. \A k \in Entrants(p) : k \in Member /\ ~entry[p][k].claimed
    BY <1>5 DEF Claimed, Entrants
  <2>2. \A k \in Entrants(p) : entry'[p][k] = entry[p][k]
    BY <1>0, <1>4, <1>5, <2>1 DEF TypeOK
  <2>3. ~entry'[p][m].claimed
    BY <1>0, <1>4 DEF TypeOK
  <2> QED
    BY <1>6, <2>1, <2>2, <2>3 DEF Claimed
<1>8. \A k \in Entrants(p) : entry'[p][k] = entry[p][k]
  BY <1>0, <1>4, <1>5 DEF TypeOK, Entrants
<1>9. entry'[p][m].stake_paid = pool[p].stake_amount
  BY <1>0, <1>4 DEF TypeOK
<1> QED
  BY <1>5, <1>6, <1>7, <1>8, <1>9

LEMMA EnterLedger ==
    ASSUME IInv, NEW p \in Pool, NEW m \in Member, NEW x \in OutcomeArg,
           EnterPool(m, p, x)
    PROVE  PoolInvOf(p)'
<1>0. TypeOK /\ PoolInvOf(p) /\ pool[p].status = "Open"
  BY DEF IInv, EnterPool
<1>1. pool'[p] = [pool[p] EXCEPT !.entry_count = pool[p].entry_count + 1,
                    !.total_pool = pool[p].total_pool + pool[p].stake_amount]
  BY <1>0 DEF EnterPool, TypeOK
<1>2. /\ pool'[p].status = "Open" /\ pool'[p].rake_bps = pool[p].rake_bps
      /\ pool'[p].outcome_count = pool[p].outcome_count
      /\ pool'[p].max_entries = pool[p].max_entries
      /\ pool'[p].stake_amount = pool[p].stake_amount
      /\ pool'[p].entry_count = pool[p].entry_count + 1
      /\ pool'[p].total_pool = pool[p].total_pool + pool[p].stake_amount
  BY <1>0, <1>1, PresentPool DEF PoolAccount
<1>3. vault'[p] = vault[p] + pool[p].stake_amount
  BY <1>0 DEF EnterPool, TypeOK
<1>4. /\ m \notin Entrants(p) /\ Claimed(p) = {}
      /\ Entrants(p)' = Entrants(p) \cup {m} /\ Claimed(p)' = {}
      /\ entry'[p][m].stake_paid = pool[p].stake_amount
      /\ \A k \in Entrants(p) : entry'[p][k] = entry[p][k]
  BY EnterEffect
<1>5. Cardinality(Entrants(p)') = Cardinality(Entrants(p)) + 1
  BY <1>4, EntrantsFinite, FS_AddElement
<1>6. TermsKeptOf(p)'
  BY <1>0, <1>2, PresentPool DEF TermsKeptOf, PoolInvOf, EnterPool
<1>7. pool[p].stake_amount * (pool[p].entry_count + 1)
         = pool[p].stake_amount * pool[p].entry_count + pool[p].stake_amount
  BY <1>0, PresentPool, Distribute
<1>8. /\ pool[p].entry_count = Cardinality(Entrants(p))
       /\ pool[p].total_pool = pool[p].stake_amount * pool[p].entry_count
       /\ \A k \in Entrants(p) : entry[p][k].stake_paid = pool[p].stake_amount
  BY <1>0 DEF PoolInvOf, EntryLedgerOf
<1>9. \A k \in Entrants(p)' : entry'[p][k].stake_paid = pool[p].stake_amount
  BY <1>4, <1>8
<1>10. EntryLedgerOf(p)'
  BY <1>2, <1>4, <1>5, <1>7, <1>8, <1>9 DEF EntryLedgerOf
<1>11. vault[p] = pool[p].stake_amount * Cardinality(Entrants(p))
  <2>1. Entrants(p) \ {} = Entrants(p)
    OBVIOUS
  <2> QED
    BY <1>0, <1>4, <2>1 DEF PoolInvOf, RefundableOf
<1>12. RefundableOf(p)'
  <2>1. Entrants(p)' \ {} = Entrants(p)'
    OBVIOUS
  <2> QED
    BY <1>2, <1>3, <1>4, <1>5, <1>7, <1>8, <1>11, <2>1 DEF RefundableOf
<1> QED
  BY <1>2, <1>6, <1>10, <1>12 DEF PoolInvOf, ShareBudgetOf, RakeBoundedOf

LEMMA LockOrCancelLedger ==
    ASSUME IInv, NEW p \in Pool, NEW signer \in Signer,
           LockPool(signer, p) \/ CancelPool(signer, p)
    PROVE  PoolInvOf(p)'
<1>0. TypeOK /\ PoolInvOf(p) /\ pool[p].status \in {"Open", "Locked"}
  BY DEF IInv, LockPool, CancelPool
<1>1. PICK s \in {"Locked", "Cancelled"} : pool'[p] = [pool[p] EXCEPT !.status = s]
  BY <1>0 DEF LockPool, CancelPool, TypeOK
<1>2. /\ pool'[p].status = s /\ pool'[p].rake_bps = pool[p].rake_bps
      /\ pool'[p].outcome_count = pool[p].outcome_count
      /\ pool'[p].max_entries = pool[p].max_entries
      /\ pool'[p].stake_amount = pool[p].stake_amount
      /\ pool'[p].entry_count = pool[p].entry_count
      /\ pool'[p].total_pool = pool[p].total_pool
  BY <1>0, <1>1, PresentPool DEF PoolAccount
<1>3. entry'[p] = entry[p] /\ vault'[p] = vault[p]
  BY DEF LockPool, CancelPool
<1>4. Entrants(p)' = Entrants(p) /\ Claimed(p)' = Claimed(p)
  BY <1>3 DEF Entrants, Claimed
<1>5. TermsKeptOf(p)' /\ EntryLedgerOf(p)' /\ RefundableOf(p)'
  BY <1>0, <1>2, <1>3, <1>4
  DEF PoolInvOf, TermsKeptOf, EntryLedgerOf, RefundableOf
<1> QED
  BY <1>2, <1>5 DEF PoolInvOf, ShareBudgetOf, RakeBoundedOf

LEMMA VoidLedger ==
    ASSUME IInv, NEW p \in Pool, NEW signer \in Signer, NEW w \in OutcomeArg,
           NEW n \in CountArg, NEW t \in Treasury, ResolveToVoid(signer, p, w, n, t)
    PROVE  PoolInvOf(p)'
<1>0. TypeOK /\ PoolInvOf(p) /\ pool[p].status = "Locked"
  BY DEF IInv, ResolveToVoid, MayResolve
<1>1. pool'[p] = [pool[p] EXCEPT !.status = "Voided", !.winning_outcome = w,
                                 !.winner_count = 0, !.share_amount = 0]
  BY <1>0 DEF ResolveToVoid, TypeOK
<1>2. /\ pool'[p].status = "Voided" /\ pool'[p].rake_bps = pool[p].rake_bps
      /\ pool'[p].outcome_count = pool[p].outcome_count
      /\ pool'[p].max_entries = pool[p].max_entries
      /\ pool'[p].stake_amount = pool[p].stake_amount
      /\ pool'[p].entry_count = pool[p].entry_count
      /\ pool'[p].total_pool = pool[p].total_pool
  BY <1>0, <1>1, PresentPool DEF PoolAccount
<1>3. entry'[p] = entry[p] /\ vault'[p] = vault[p]
  BY DEF ResolveToVoid
<1>4. Entrants(p)' = Entrants(p) /\ Claimed(p)' = Claimed(p)
  BY <1>3 DEF Entrants, Claimed
<1>5. TermsKeptOf(p)' /\ EntryLedgerOf(p)' /\ RefundableOf(p)'
  BY <1>0, <1>2, <1>3, <1>4
  DEF PoolInvOf, TermsKeptOf, EntryLedgerOf, RefundableOf
<1> QED
  BY <1>2, <1>5 DEF PoolInvOf, ShareBudgetOf, RakeBoundedOf

LEMMA AwardLedger ==
    ASSUME IInv, NEW p \in Pool, NEW signer \in Signer, NEW w \in OutcomeArg,
           NEW n \in CountArg, NEW t \in Treasury, ResolveToWinners(signer, p, w, n, t)
    PROVE  PoolInvOf(p)'
<1>0. TypeOK /\ PoolInvOf(p) /\ pool[p].status = "Locked" /\ n \in Nat /\ n > 0
  BY ArgumentTypes DEF IInv, ResolveToWinners, MayResolve
<1>1. pool'[p] = [pool[p] EXCEPT !.status = "Resolved", !.winning_outcome = w,
                                 !.winner_count = n, !.share_amount = Share(p, n)]
  BY <1>0 DEF ResolveToWinners, TypeOK
<1>2. /\ pool'[p].status = "Resolved" /\ pool'[p].rake_bps = pool[p].rake_bps
      /\ pool'[p].outcome_count = pool[p].outcome_count
      /\ pool'[p].max_entries = pool[p].max_entries
      /\ pool'[p].stake_amount = pool[p].stake_amount
      /\ pool'[p].entry_count = pool[p].entry_count
      /\ pool'[p].total_pool = pool[p].total_pool
      /\ pool'[p].winner_count = n /\ pool'[p].share_amount = Share(p, n)
  BY <1>0, <1>1, PresentPool DEF PoolAccount
<1>3. entry'[p] = entry[p] /\ vault'[p] = vault[p] - Sweep(p, n)
  BY <1>0 DEF ResolveToWinners, TypeOK
<1>4. Entrants(p)' = Entrants(p) /\ Claimed(p)' = {} /\ Claimed(p) = {}
  BY <1>0, <1>3 DEF Entrants, Claimed, PoolInvOf, EntryLedgerOf
<1>5. TermsKeptOf(p)' /\ EntryLedgerOf(p)'
  BY <1>0, <1>2, <1>3, <1>4 DEF PoolInvOf, TermsKeptOf, EntryLedgerOf
<1>6. /\ pool[p].total_pool \in Nat /\ pool[p].rake_bps \in Nat
      /\ pool[p].rake_bps <= MaxRakeBps
  BY <1>0, PresentPool DEF PoolInvOf, TermsKeptOf, U16
<1>7. /\ Rake(p) \in Nat /\ Share(p, n) \in Nat /\ Sweep(p, n) \in Nat
      /\ Share(p, n) * n \in Nat
      /\ Share(p, n) * n + Sweep(p, n) = pool[p].total_pool
      /\ Rake(p) <= Sweep(p, n) /\ Sweep(p, n) < Rake(p) + n
      /\ 10 * Rake(p) <= pool[p].total_pool
  BY <1>0, <1>6, ResolveAmounts
<1>8. vault[p] = pool[p].total_pool
  <2>1. Entrants(p) \ {} = Entrants(p)
    OBVIOUS
  <2> QED
    BY <1>0, <1>4, <2>1 DEF PoolInvOf, RefundableOf, EntryLedgerOf
<1>9. ShareBudgetOf(p)'
  <2>1. Share(p, n) * 0 = 0 /\ Cardinality({}) = 0
    BY <1>7, FS_EmptySet
  <2> QED
    BY <1>2, <1>3, <1>4, <1>7, <1>8, <2>1 DEF ShareBudgetOf
<1>10. RakeBoundedOf(p)'
  <2>1. Rake(p)' = Rake(p)
    BY <1>2 DEF Rake
  <2> QED
    BY <1>2, <1>6, <1>7, <2>1 DEF RakeBoundedOf
<1> QED
  BY <1>2, <1>5, <1>9, <1>10 DEF PoolInvOf, RefundableOf

\* What a claim of either kind does to the entries of its pool.
LEMMA ClaimEffect ==
    ASSUME TypeOK, NEW p \in Pool, NEW m \in Entrants(p) \ Claimed(p), NEW amount,
           PayFromVault(p, m, amount)
    PROVE  /\ pool'[p] = pool[p]
           /\ vault'[p] = vault[p] - amount
           /\ Entrants(p)' = Entrants(p)
           /\ Claimed(p)' = Claimed(p) \cup {m}
           /\ \A k \in Entrants(p) : /\ entry'[p][k].stake_paid = entry[p][k].stake_paid
                                     /\ entry'[p][k].prediction = entry[p][k].prediction
<1>1. m \in Member /\ entry[p][m] \in Entry /\ m \in Entrants(p) /\ m \notin Claimed(p)
  BY EntryType
<1>2. entry'[p] = [entry[p] EXCEPT ![m] = [entry[p][m] EXCEPT !.claimed = TRUE]]
  BY <1>1 DEF PayFromVault, TypeOK
<1>3. \A k \in Member : k # m => entry'[p][k] = entry[p][k]
  BY <1>2 DEF TypeOK
<1>4. entry'[p][m] = [entry[p][m] EXCEPT !.claimed = TRUE]
  BY <1>1, <1>2 DEF TypeOK
<1>5. /\ entry'[p][m] \in Entry /\ entry'[p][m].claimed = TRUE
      /\ entry'[p][m].stake_paid = entry[p][m].stake_paid
      /\ entry'[p][m].prediction = entry[p][m].prediction
  BY <1>1, <1>4 DEF Entry
<1>6. entry'[p][m] # NoEntry
  BY <1>5 DEF Entry, NoEntry
<1>7. Entrants(p)' = Entrants(p)
  BY <1>1, <1>3, <1>6 DEF Entrants
<1>8. Claimed(p)' = Claimed(p) \cup {m}
  <2>1. \A k \in Entrants(p) : k \in Member
    BY DEF Entrants
  <2> QED
    BY <1>1, <1>3, <1>5, <1>7, <2>1 DEF Claimed
<1>9. \A k \in Entrants(p) : /\ entry'[p][k].stake_paid = entry[p][k].stake_paid
                             /\ entry'[p][k].prediction = entry[p][k].prediction
  BY <1>3, <1>5 DEF Entrants
<1>10. pool'[p] = pool[p] /\ vault'[p] = vault[p] - amount
  BY DEF PayFromVault, TypeOK
<1> QED
  BY <1>7, <1>8, <1>9, <1>10

LEMMA RefundLedger ==
    ASSUME IInv, NEW p \in Pool, NEW m \in Member, ClaimRefund(m, p)
    PROVE  PoolInvOf(p)'
<1>0. /\ TypeOK /\ PoolInvOf(p) /\ pool[p].status \in {"Voided", "Cancelled"}
      /\ m \in Entrants(p) \ Claimed(p)
      /\ entry[p][m].stake_paid = pool[p].stake_amount
      /\ pool[p].stake_amount \in Nat
  BY PresentPool DEF IInv, ClaimRefund, PoolInvOf, EntryLedgerOf
<1>1. /\ pool'[p] = pool[p] /\ vault'[p] = vault[p] - pool[p].stake_amount
      /\ Entrants(p)' = Entrants(p) /\ Claimed(p)' = Claimed(p) \cup {m}
      /\ \A k \in Entrants(p) : entry'[p][k].stake_paid = entry[p][k].stake_paid
  BY <1>0, ClaimEffect DEF ClaimRefund
<1>2. TermsKeptOf(p)' /\ EntryLedgerOf(p)'
  BY <1>0, <1>1 DEF PoolInvOf, TermsKeptOf, EntryLedgerOf
<1>3. RefundableOf(p)'
  <2> DEFINE due == Entrants(p) \ Claimed(p)
  <2>1. IsFiniteSet(due) /\ Cardinality(due) \in Nat
    BY EntrantsFinite, FS_Subset, FS_CardinalityType
  <2>2. Entrants(p)' \ Claimed(p)' = due \ {m}
    BY <1>1
  <2>3. Cardinality(due \ {m}) = Cardinality(due) - 1 /\ Cardinality(due) > 0
    <3>1. m \in due /\ due # {}
      BY <1>0
    <3>2. Cardinality(due) # 0
      BY <2>1, <3>1, FS_EmptySet
    <3>3. Cardinality(due \ {m}) = Cardinality(due) - 1
      BY <2>1, <3>1, FS_RemoveElement
    <3> QED
      BY <2>1, <3>2, <3>3
  <2>4. pool[p].stake_amount * Cardinality(due)
          = pool[p].stake_amount * (Cardinality(due) - 1) + pool[p].stake_amount
    BY <1>0, <2>1, <2>3, Distribute
  <2>5. vault[p] = pool[p].stake_amount * Cardinality(due)
    BY <1>0 DEF PoolInvOf, RefundableOf
  <2>6. pool[p].stake_amount * (Cardinality(due) - 1) \in Nat
    BY <1>0, <2>1, <2>3, Distribute
  <2>7. vault'[p] = pool[p].stake_amount * Cardinality(due \ {m})
    BY <1>0, <1>1, <2>3, <2>4, <2>5, <2>6
  <2> QED
    BY <1>1, <2>2, <2>7 DEF RefundableOf
<1> QED
  BY <1>0, <1>1, <1>2, <1>3 DEF PoolInvOf, ShareBudgetOf, RakeBoundedOf

LEMMA WinningsLedger ==
    ASSUME IInv, NEW p \in Pool, NEW m \in Member, ClaimWinnings(m, p)
    PROVE  PoolInvOf(p)'
<1>0. /\ TypeOK /\ PoolInvOf(p) /\ pool[p].status = "Resolved"
      /\ m \in Entrants(p) \ Claimed(p)
      /\ m \in Winners(p, pool[p].winning_outcome)
      /\ pool[p].share_amount \in Nat /\ pool[p].winner_count \in Nat
      /\ vault[p] \in Nat
  BY PresentPool DEF IInv, ClaimWinnings, Winners, TypeOK
<1>1. /\ pool'[p] = pool[p] /\ vault'[p] = vault[p] - pool[p].share_amount
      /\ Entrants(p)' = Entrants(p) /\ Claimed(p)' = Claimed(p) \cup {m}
      /\ \A k \in Entrants(p) : /\ entry'[p][k].stake_paid = entry[p][k].stake_paid
                                /\ entry'[p][k].prediction = entry[p][k].prediction
  BY <1>0, ClaimEffect DEF ClaimWinnings
<1>2. TermsKeptOf(p)' /\ EntryLedgerOf(p)'
  BY <1>0, <1>1 DEF PoolInvOf, TermsKeptOf, EntryLedgerOf
<1>3. Winners(p, pool[p].winning_outcome)' = Winners(p, pool[p].winning_outcome)
  BY <1>1 DEF Winners
<1>4. ShareBudgetOf(p)'
  <2> DEFINE k == Cardinality(Claimed(p))
             share == pool[p].share_amount
  <2>1. k \in Nat /\ Cardinality(Claimed(p)') = k + 1
    BY <1>0, <1>1, EntrantsFinite, FS_AddElement
  <2>2. share * (k + 1) = share * k + share /\ share * k \in Nat
    BY <1>0, <2>1, Distribute
  <2>3. /\ Claimed(p) \subseteq Winners(p, pool[p].winning_outcome)
        /\ vault[p] + share * k = share * pool[p].winner_count
    BY <1>0 DEF PoolInvOf, ShareBudgetOf
  <2>4. vault'[p] + share * (k + 1) = share * pool[p].winner_count
    <3> HIDE DEF k, share
    <3>1. vault'[p] = vault[p] - share /\ share \in Nat
      BY <1>0, <1>1 DEF share
    <3> QED
      BY <1>0, <2>2, <2>3, <3>1
  <2> QED
    BY <1>0, <1>1, <1>3, <2>1, <2>3, <2>4 DEF ShareBudgetOf
<1>5. RakeBoundedOf(p)'
  <2>1. Rake(p)' = Rake(p)
    BY <1>1 DEF Rake
  <2> QED
    BY <1>0, <1>1, <2>1 DEF PoolInvOf, RakeBoundedOf
<1> QED
  BY <1>0, <1>1, <1>2, <1>4, <1>5 DEF PoolInvOf, RefundableOf

-----------------------------------------------------------------------------
(* Theorems *)

LEMMA InitInv == Init => IInv
<1> SUFFICES ASSUME Init PROVE IInv
  OBVIOUS
<1>1. TypeOK
  BY ArgumentTypes DEF Init, TypeOK, Account
<1>2. ASSUME NEW p \in Pool PROVE PoolInvOf(p)
  <2>1. pool[p].status = "Absent" /\ vault[p] = 0
    BY DEF Init, NoPool
  <2>2. Entrants(p) = {}
    BY DEF Init, Entrants
  <2> QED
    BY <2>1, <2>2 DEF PoolInvOf, TermsKeptOf, EntryLedgerOf, RefundableOf,
                      ShareBudgetOf, RakeBoundedOf
<1> QED
  BY <1>1, <1>2 DEF IInv

LEMMA StepInv == IInv /\ [Next]_vars => IInv'
<1> SUFFICES ASSUME IInv, [Next]_vars PROVE IInv'
  OBVIOUS
<1>1. TypeOK'
  BY TypeStep
<1>2. TypeOK /\ \A p \in Pool : PoolInvOf(p)
  BY DEF IInv
<1>3. ASSUME NEW p \in Pool PROVE PoolInvOf(p)'
  <2>1. CASE pool'[p] = pool[p] /\ entry'[p] = entry[p] /\ vault'[p] = vault[p]
    BY <1>2, <2>1, OtherPool
  <2>2. CASE PoolNext(p)
    BY <2>2, CreateLedger, EnterLedger, LockOrCancelLedger, RefundLedger,
       WinningsLedger DEF PoolNext
  <2>3. CASE ResolveNext(p)
    BY <2>3, VoidLedger, AwardLedger DEF ResolveNext, ResolvePool
  <2>4. ASSUME NEW q \in Pool, q # p, PoolNext(q) \/ ResolveNext(q)
        PROVE  pool'[p] = pool[p] /\ entry'[p] = entry[p] /\ vault'[p] = vault[p]
    BY <1>2, <2>4 DEF PoolNext, ResolveNext, CreatePool, OpenAccount, EnterPool, LockPool, CancelPool,
       ClaimWinnings, ClaimRefund, PayFromVault, ResolvePool, ResolveToVoid,
       ResolveToWinners, TypeOK
  <2>5. CASE Tick \/ ConfigNext \/ UNCHANGED vars
    <3>1. pool' = pool /\ entry' = entry /\ vault' = vault
      BY <2>5 DEF Tick, ConfigNext, InitializeConfig, UpdateConfig, vars
    <3> QED
      BY <2>1, <3>1
  <2> QED
    BY <2>1, <2>2, <2>3, <2>4, <2>5 DEF Next
<1> QED
  BY <1>1, <1>3 DEF IInv

\* The inductive invariant holds in every reachable state of the program.
THEOREM Invariance == Spec => []IInv
BY InitInv, StepInv, PTL DEF Spec

\* Accounts always hold data of their Rust types: no transfer takes a balance
\* below zero, no amount resolve_pool computes is negative.
THEOREM TypeCorrect == Spec => []TypeOK
<1>1. IInv => TypeOK
  BY DEF IInv
<1> QED
  BY <1>1, Invariance, PTL

\* The counters of a pool always agree with its entry accounts.
THEOREM LedgerAgrees == Spec => []EntryLedger
<1>1. IInv => EntryLedger
  BY DEF IInv, PoolInvOf, EntryLedger
<1> QED
  BY <1>1, Invariance, PTL

\* Whatever the resolver does, claim_refund never runs short.
THEOREM RefundsCovered == Spec => []Refundable
<1>1. IInv => Refundable
  BY DEF IInv, PoolInvOf, Refundable
<1> QED
  BY <1>1, Invariance, PTL

\* Whatever count the resolver reports, a pool pays at most that many shares,
\* each to an entry on the winning outcome.
THEOREM SharesBudgeted == Spec => []ShareBudget
<1>1. IInv => ShareBudget
  BY DEF IInv, PoolInvOf, ShareBudget
<1> QED
  BY <1>1, Invariance, PTL

\* The treasury takes the rake and a rest of less than one token per winner.
THEOREM TreasuryBounded == Spec => []RakeBounded
<1>1. IInv => RakeBounded
  BY DEF IInv, PoolInvOf, RakeBounded
<1> QED
  BY <1>1, Invariance, PTL

-----------------------------------------------------------------------------
(* What an instruction never changes *)

LEMMA StepIsFinal == ASSUME TypeOK, Next, NEW p \in Pool PROVE FinalStep(p)
<1> SUFFICES ASSUME pool[p].status \in Terminal PROVE pool'[p] = pool[p]
  BY DEF FinalStep
<1>1. CASE Tick \/ ConfigNext
  BY <1>1 DEF Tick, ConfigNext, InitializeConfig, UpdateConfig
<1>2. ASSUME NEW q \in Pool, PoolNext(q) PROVE pool'[p] = pool[p]
  <2>1. ASSUME NEW host \in Member, NEW terms \in Terms, CreatePool(host, q, terms)
        PROVE  pool'[p] = pool[p]
    BY <2>1 DEF CreatePool, TypeOK, NoPool, Terminal
  <2>2. ASSUME NEW m \in Member, NEW x \in OutcomeArg, EnterPool(m, q, x)
        PROVE  pool'[p] = pool[p]
    BY <2>2 DEF EnterPool, TypeOK, Terminal
  <2>3. ASSUME NEW signer \in Signer, LockPool(signer, q) \/ CancelPool(signer, q)
        PROVE  pool'[p] = pool[p]
    BY <2>3 DEF LockPool, CancelPool, TypeOK, Terminal
  <2>4. ASSUME NEW m \in Member, ClaimWinnings(m, q) \/ ClaimRefund(m, q)
        PROVE  pool'[p] = pool[p]
    BY <2>4 DEF ClaimWinnings, ClaimRefund, PayFromVault
  <2> QED
    BY <1>2, <2>1, <2>2, <2>3, <2>4 DEF PoolNext
<1>3. ASSUME NEW q \in Pool, ResolveNext(q) PROVE pool'[p] = pool[p]
  BY <1>3 DEF ResolveNext, ResolvePool, ResolveToVoid, ResolveToWinners, MayResolve,
              TypeOK, Terminal
<1> QED
  BY <1>1, <1>2, <1>3 DEF Next

LEMMA StepIsFrozen ==
    ASSUME TypeOK, Next, NEW p \in Pool, NEW m \in Member
    PROVE  FrozenStep(p, m)
<1> SUFFICES ASSUME pool[p].status \notin {"Absent", "Open"} PROVE FrozenStep(p, m)
  BY DEF FrozenStep
<1>1. CASE entry'[p] = entry[p]
  BY <1>1 DEF FrozenStep
<1>2. CASE Tick \/ ConfigNext
  BY <1>1, <1>2 DEF Tick, ConfigNext, InitializeConfig, UpdateConfig
<1>3. ASSUME NEW q \in Pool, PoolNext(q) PROVE FrozenStep(p, m)
  <2>1. ASSUME NEW host \in Member, NEW terms \in Terms, CreatePool(host, q, terms)
        PROVE  FrozenStep(p, m)
    BY <1>1, <2>1 DEF CreatePool
  <2>2. ASSUME NEW k \in Member, NEW x \in OutcomeArg, EnterPool(k, q, x)
        PROVE  FrozenStep(p, m)
    <3>1. entry'[p] = entry[p]
      BY <2>2 DEF EnterPool, TypeOK
    <3> QED
      BY <1>1, <3>1
  <2>3. ASSUME NEW signer \in Signer, LockPool(signer, q) \/ CancelPool(signer, q)
        PROVE  FrozenStep(p, m)
    BY <1>1, <2>3 DEF LockPool, CancelPool
  <2>4. ASSUME NEW k \in Member, ClaimWinnings(k, q) \/ ClaimRefund(k, q)
        PROVE  FrozenStep(p, m)
    <3>1. PICK amount : PayFromVault(q, k, amount)
      BY <2>4 DEF ClaimWinnings, ClaimRefund
    <3>2. k \in Entrants(q) \ Claimed(q) /\ pool[q].status \in Terminal
      BY <2>4 DEF ClaimWinnings, ClaimRefund, Terminal
    <3>3. CASE q = p /\ k = m
      BY <3>1, <3>2, <3>3 DEF PayFromVault, TypeOK, FrozenStep
    <3>4. CASE ~(q = p /\ k = m)
      BY <3>1, <3>4 DEF PayFromVault, TypeOK, FrozenStep
    <3> QED
      BY <3>3, <3>4
  <2> QED
    BY <1>3, <2>1, <2>2, <2>3, <2>4 DEF PoolNext
<1>4. ASSUME NEW q \in Pool, ResolveNext(q) PROVE FrozenStep(p, m)
  BY <1>1, <1>4 DEF ResolveNext, ResolvePool, ResolveToVoid, ResolveToWinners
<1> QED
  BY <1>2, <1>3, <1>4 DEF Next

\* A terminal account never changes again, and the entries of a pool that has
\* left Open change only by being claimed, each at most once.
THEOREM FinalAndFrozenAlways == Spec => FinalAndFrozen
<1>1. IInv /\ [Next]_vars =>
        [\A p \in Pool : FinalStep(p) /\ \A m \in Member : FrozenStep(p, m)]_vars
  BY StepIsFinal, StepIsFrozen DEF IInv
<1> QED
  BY <1>1, Invariance, PTL DEF Spec, FinalAndFrozen

-----------------------------------------------------------------------------
(* The audited program *)

CountIsAudited(p) ==
    pool[p].status = "Resolved" =>
        pool[p].winner_count = AuditedCount(p, pool[p].winning_outcome)

AInv == IInv /\ \A p \in Pool : CountIsAudited(p)

LEMMA AuditedCountIsArg ==
    ASSUME NEW p \in Pool, NEW w
    PROVE  /\ AuditedCount(p, w) \in CountArg
           /\ AuditedCount(p, w) \in Nat
           /\ IsFiniteSet(Winners(p, w))
<1>1. Winners(p, w) \in SUBSET Member
  BY DEF Winners, Entrants
<1>2. /\ IsFiniteSet(Winners(p, w)) /\ Cardinality(Winners(p, w)) \in Nat
      /\ Cardinality(Winners(p, w)) <= Cardinality(Member) /\ Cardinality(Member) \in Nat
  BY <1>1, ArgumentTypes, FS_Subset, FS_CardinalityType
<1>3. Cardinality(Winners(p, w)) \in 0 .. Cardinality(Member)
  BY <1>2
<1> QED
  BY <1>2, <1>3, ArgumentTypes DEF AuditedCount

LEMMA AuditedIsNext == [AuditedNext]_vars => [Next]_vars
<1>1. \A p \in Pool : AuditedResolve(p) => ResolveNext(p)
  BY AuditedCountIsArg DEF AuditedResolve, ResolveNext
<1> QED
  BY <1>1 DEF AuditedNext, Next

\* Once a pool is resolved neither its account nor a prediction changes.
LEMMA AuditedStep == AInv /\ [AuditedNext]_vars => AInv'
<1> SUFFICES ASSUME AInv, [AuditedNext]_vars PROVE AInv'
  OBVIOUS
<1>1. IInv' /\ TypeOK
  BY AuditedIsNext, StepInv DEF AInv, IInv
<1>2. ASSUME NEW p \in Pool PROVE CountIsAudited(p)'
  <2>0. CountIsAudited(p)
    BY DEF AInv
  <2>1. CASE pool'[p] = pool[p] /\ entry'[p] = entry[p]
    <3>1. AuditedCount(p, pool[p].winning_outcome)' = AuditedCount(p, pool[p].winning_outcome)
      BY <2>1 DEF AuditedCount, Winners, Entrants
    <3> QED
      BY <2>0, <2>1, <3>1 DEF CountIsAudited
  <2>2. CASE \E m \in Member : ClaimWinnings(m, p) \/ ClaimRefund(m, p)
    <3>1. PICK m \in Member : ClaimWinnings(m, p) \/ ClaimRefund(m, p)
      BY <2>2
    <3>2. PICK amount : PayFromVault(p, m, amount) /\ m \in Entrants(p) \ Claimed(p)
      BY <3>1 DEF ClaimWinnings, ClaimRefund
    <3>3. /\ pool'[p] = pool[p] /\ Entrants(p)' = Entrants(p)
          /\ \A k \in Entrants(p) : entry'[p][k].prediction = entry[p][k].prediction
      BY <1>1, <3>2, ClaimEffect
    <3>4. Winners(p, pool[p].winning_outcome)' = Winners(p, pool[p].winning_outcome)
      BY <3>3 DEF Winners
    <3> QED
      BY <2>0, <3>3, <3>4 DEF CountIsAudited, AuditedCount
  <2>3. CASE /\ pool'[p].status # "Resolved"
    BY <2>3 DEF CountIsAudited
  <2>4. ASSUME NEW signer \in Signer, NEW w \in OutcomeArg, NEW t \in Treasury,
               ResolveToWinners(signer, p, w, AuditedCount(p, w), t)
        PROVE  CountIsAudited(p)'
    <3>1. pool[p] \in PoolAccount
      BY <1>1, <2>4, PresentPool DEF ResolveToWinners, MayResolve
    <3>2. pool'[p].winning_outcome = w /\ pool'[p].winner_count = AuditedCount(p, w)
      BY <1>1, <2>4, <3>1 DEF ResolveToWinners, TypeOK, PoolAccount
    <3>3. entry' = entry
      BY <2>4 DEF ResolveToWinners
    <3>4. AuditedCount(p, w)' = AuditedCount(p, w)
      BY <3>3 DEF AuditedCount, Winners, Entrants
    <3> QED
      BY <3>2, <3>4 DEF CountIsAudited
  <2>5. ASSUME NEW signer \in Signer, NEW w \in OutcomeArg, NEW t \in Treasury,
               ResolveToVoid(signer, p, w, AuditedCount(p, w), t)
        PROVE  pool'[p].status # "Resolved"
    <3>1. pool[p] \in PoolAccount
      BY <1>1, <2>5, PresentPool DEF ResolveToVoid, MayResolve
    <3> QED
      BY <1>1, <2>5, <3>1 DEF ResolveToVoid, TypeOK, PoolAccount
  <2>6. ASSUME NEW host \in Member, NEW terms \in Terms, CreatePool(host, p, terms)
        PROVE  pool'[p].status # "Resolved"
    BY <1>1, <2>6 DEF CreatePool, OpenAccount, TypeOK
  <2>7. ASSUME NEW m \in Member, NEW x \in OutcomeArg, EnterPool(m, p, x)
        PROVE  pool'[p].status # "Resolved"
    <3>1. pool[p] \in PoolAccount /\ pool[p].status = "Open"
      BY <1>1, <2>7, PresentPool DEF EnterPool
    <3> QED
      BY <1>1, <2>7, <3>1 DEF EnterPool, TypeOK, PoolAccount
  <2>8. ASSUME NEW signer \in Signer, LockPool(signer, p) \/ CancelPool(signer, p)
        PROVE  pool'[p].status # "Resolved"
    <3>1. pool[p] \in PoolAccount
      BY <1>1, <2>8, PresentPool DEF LockPool, CancelPool
    <3> QED
      BY <1>1, <2>8, <3>1 DEF LockPool, CancelPool, TypeOK, PoolAccount
  <2>9. ASSUME NEW q \in Pool, q # p, PoolNext(q) \/ AuditedResolve(q)
        PROVE  pool'[p] = pool[p] /\ entry'[p] = entry[p]
    BY <1>1, <2>9 DEF PoolNext, AuditedResolve, CreatePool, OpenAccount, EnterPool, LockPool, CancelPool,
       ClaimWinnings, ClaimRefund, PayFromVault, ResolvePool, ResolveToVoid,
       ResolveToWinners, TypeOK
  <2>10. CASE Tick \/ ConfigNext \/ UNCHANGED vars
    BY <2>1, <2>10 DEF Tick, ConfigNext, InitializeConfig, UpdateConfig, vars
  <2>11. CASE PoolNext(p)
    BY <2>2, <2>3, <2>6, <2>7, <2>8, <2>11 DEF PoolNext
  <2>12. CASE AuditedResolve(p)
    BY <2>3, <2>4, <2>5, <2>12 DEF AuditedResolve, ResolvePool
  <2> QED
    BY <2>1, <2>9, <2>10, <2>11, <2>12 DEF AuditedNext
<1> QED
  BY <1>1, <1>2 DEF AInv

LEMMA AuditedInvariance == AuditedSpec => []AInv
<1>1. Init => AInv
  BY InitInv DEF Init, NoPool, AInv, CountIsAudited
<1> QED
  BY <1>1, AuditedStep, PTL DEF AuditedSpec

\* What an unaudited budget becomes once the count is right: the vault holds the
\* share of every winner that has not claimed.
LEMMA BudgetCoversWinners ==
    ASSUME AInv, NEW p \in Pool
    PROVE  WinnersCoveredOf(p)
<1> SUFFICES ASSUME pool[p].status = "Resolved" PROVE WinnersCoveredOf(p)
  BY DEF WinnersCoveredOf
<1> DEFINE W == Winners(p, pool[p].winning_outcome)
           C == Claimed(p)
           share == pool[p].share_amount
<1>1. /\ pool[p].winner_count = Cardinality(W)
      /\ C \subseteq W
      /\ vault[p] + share * Cardinality(C) = share * Cardinality(W)
      /\ vault[p] \in Nat /\ share \in Nat
  BY PresentPool DEF AInv, IInv, PoolInvOf, ShareBudgetOf, CountIsAudited, AuditedCount, TypeOK
<1>2. IsFiniteSet(W) /\ Cardinality(W) \in Nat /\ IsFiniteSet(C) /\ Cardinality(C) \in Nat
  BY AuditedCountIsArg, EntrantsFinite, FS_CardinalityType
<1>3. /\ Cardinality(W \ C) = Cardinality(W) - Cardinality(C)
      /\ Cardinality(W \ C) \in Nat
  <2>1. /\ Cardinality(W \ C) = Cardinality(W) - Cardinality(W \cap C)
        /\ IsFiniteSet(W \ C)
    BY <1>2, FS_Difference
  <2>2. W \cap C = C
    BY <1>1
  <2> QED
    BY <2>1, <2>2, FS_CardinalityType
<1>4. vault[p] = share * Cardinality(W \ C)
  <2>1. share * Cardinality(W)
          = share * Cardinality(C) + share * (Cardinality(W) - Cardinality(C))
    BY <1>1, <1>2, <1>3, SMT
  <2>2. share * Cardinality(C) \in Nat /\ share * Cardinality(W \ C) \in Nat
    BY <1>1, <1>2, <1>3, Distribute
  <2> QED
    BY <1>1, <1>3, <2>1, <2>2
<1> QED
  BY <1>1, <1>4 DEF WinnersCoveredOf, AuditedCount

LEMMA AuditedCovers == AInv <=> IInv /\ WinnersCovered
<1>1. AInv => WinnersCovered
  BY BudgetCoversWinners DEF WinnersCovered
<1> QED
  BY <1>1 DEF AInv, WinnersCovered, WinnersCoveredOf, CountIsAudited

\* With an audited resolver no winner is ever left short, in any number of pools
\* with any number of members, and the last claim empties the vault.
THEOREM WinnersAreCovered == AuditedSpec => []WinnersCovered
BY AuditedCovers, AuditedInvariance, PTL

\* The same for other specifications that take steps of the audited program.
LEMMA CoverageStep ==
    ASSUME IInv, WinnersCovered, [AuditedNext]_vars
    PROVE  WinnersCovered'
<1>1. AInv' => WinnersCovered'
  BY AuditedCovers, PTL
<1> QED
  BY <1>1, AuditedCovers, AuditedStep

LEMMA OneOfSeveral ==
    ASSUME NEW S, IsFiniteSet(S), NEW x \in S, NEW amount \in Nat
    PROVE  amount * Cardinality(S) >= amount
<1>1. Cardinality(S) \in Nat /\ Cardinality(S) # 0
  BY FS_CardinalityType, FS_EmptySet
<1>2. 1 <= Cardinality(S)
  BY <1>1
<1>3. amount * 1 <= amount * Cardinality(S) /\ amount * 1 = amount
  BY <1>1, <1>2, Monotone
<1>4. amount * Cardinality(S) \in Nat
  BY <1>1, Distribute
<1> QED
  BY <1>3, <1>4

LEMMA CoveredClaims ==
    ASSUME IInv, WinnersCovered
    PROVE  ClaimsCovered
<1> SUFFICES ASSUME NEW p \in Pool, NEW m \in Entrants(p) \ Claimed(p)
             PROVE  /\ pool[p].status = "Resolved" /\ m \in Winners(p, pool[p].winning_outcome)
                        => vault[p] >= pool[p].share_amount
                    /\ pool[p].status \in {"Voided", "Cancelled"}
                        => vault[p] >= entry[p][m].stake_paid
  BY DEF ClaimsCovered
<1>0. /\ TypeOK /\ PoolInvOf(p) /\ WinnersCoveredOf(p)
      /\ IsFiniteSet(Entrants(p)) /\ IsFiniteSet(Entrants(p) \ Claimed(p))
  <2>1. IsFiniteSet(Entrants(p))
    BY EntrantsFinite
  <2> QED
    BY <2>1, FS_Subset DEF IInv, WinnersCovered
<1>1. ASSUME pool[p].status = "Resolved", m \in Winners(p, pool[p].winning_outcome)
      PROVE  vault[p] >= pool[p].share_amount
  <2> DEFINE owed == Winners(p, pool[p].winning_outcome) \ Claimed(p)
  <2>1. vault[p] = pool[p].share_amount * Cardinality(owed)
    BY <1>0, <1>1 DEF WinnersCoveredOf
  <2>2. owed \subseteq Entrants(p)
    BY DEF Winners
  <2>3. IsFiniteSet(owed) /\ m \in owed
    BY <1>0, <1>1, <2>2, FS_Subset
  <2>4. pool[p].share_amount \in Nat
    BY <1>0, <1>1, PresentPool
  <2> HIDE DEF owed
  <2> QED
    BY <2>1, <2>3, <2>4, OneOfSeveral
<1>2. ASSUME pool[p].status \in {"Voided", "Cancelled"}
      PROVE  vault[p] >= entry[p][m].stake_paid
  <2>1. /\ vault[p] = pool[p].stake_amount * Cardinality(Entrants(p) \ Claimed(p))
        /\ entry[p][m].stake_paid = pool[p].stake_amount
    BY <1>0, <1>2 DEF PoolInvOf, RefundableOf, EntryLedgerOf
  <2>2. pool[p].stake_amount \in Nat
    BY <1>0, <1>2, PresentPool
  <2> QED
    BY <1>0, <2>1, <2>2, OneOfSeveral
<1> QED
  BY <1>1, <1>2

\* Under an audited count the vault never falls short of a claim that the program
\* would otherwise accept: EntitledCanClaim, without ENABLED.
THEOREM ClaimsAlwaysCovered == AuditedSpec => []ClaimsCovered
<1>1. AInv => ClaimsCovered
  BY AuditedCovers, CoveredClaims
<1> QED
  BY <1>1, AuditedInvariance, PTL

-----------------------------------------------------------------------------
(* Refinement *)

LEMMA OtherMapped ==
    ASSUME NEW q \in Pool, pool'[q] = pool[q], entry'[q] = entry[q]
    PROVE  Stage(q)' = Stage(q) /\ Unit(q)' = Unit(q) /\ Owed(q)' = Owed(q)
<1>1. /\ Entrants(q)' = Entrants(q) /\ Claimed(q)' = Claimed(q)
      /\ Winners(q, pool[q].winning_outcome)' = Winners(q, pool[q].winning_outcome)
  BY DEF Entrants, Claimed, Winners
<1> QED
  BY <1>1 DEF Stage, Unit, Owed

\* A step that leaves every mapped value alone is a stuttering step.
LEMMA Stutter ==
    ASSUME vault' = vault,
           \A q \in Pool : Stage(q)' = Stage(q) /\ Unit(q)' = Unit(q) /\ Owed(q)' = Owed(q)
    PROVE  UNCHANGED Escrow!vars
BY DEF Escrow!vars

\* The escrow's instance of the library counts like the program's.
LEMMA SameCardinality ==
    ASSUME NEW S
    PROVE  Escrow!Cardinality(S) = Cardinality(S)
BY DEF Escrow!Cardinality, Cardinality

LEMMA InitRefines == Init => Escrow!Init
<1> SUFFICES ASSUME Init PROVE Escrow!Init
  OBVIOUS
<1>1. \A p \in Pool : pool[p].status = "Absent" /\ Entrants(p) = {}
  BY DEF Init, NoPool, Entrants
<1> QED
  BY <1>1 DEF Init, Escrow!Init, Stage, Unit, Owed

LEMMA CreateRefines ==
    ASSUME AInv, NEW p \in Pool, NEW host \in Member, NEW terms \in Terms,
           CreatePool(host, p, terms)
    PROVE  Escrow!Open(p, terms.stake_amount)
<1>1. TypeOK /\ PoolInvOf(p) /\ pool[p].status = "Absent"
  BY DEF AInv, IInv, CreatePool, OpenAccount, NoPool
<1>2. /\ pool'[p].status = "Open" /\ pool'[p].stake_amount = terms.stake_amount
      /\ \A q \in Pool : q # p => pool'[q] = pool[q]
      /\ entry' = entry /\ vault' = vault
  BY <1>1 DEF CreatePool, OpenAccount, TypeOK
<1>3. Entrants(p) = {} /\ Entrants(p)' = {}
  BY <1>1, <1>2 DEF PoolInvOf, EntryLedgerOf, Entrants
<1>4. \A q \in Pool : q # p => Stage(q)' = Stage(q) /\ Unit(q)' = Unit(q) /\ Owed(q)' = Owed(q)
  BY <1>2, OtherMapped
<1>5. /\ Stage(p) = "unopened" /\ Stage(p)' = "collecting"
      /\ Unit(p)' = terms.stake_amount /\ Owed(p)' = Owed(p)
  BY <1>1, <1>2, <1>3 DEF Stage, Unit, Owed
<1> QED
  BY <1>2, <1>4, <1>5 DEF Escrow!Open

LEMMA EnterRefines ==
    ASSUME AInv, NEW p \in Pool, NEW m \in Member, NEW x \in OutcomeArg,
           EnterPool(m, p, x)
    PROVE  Escrow!Deposit(p, m)
<1>1. TypeOK /\ PoolInvOf(p) /\ pool[p].status = "Open"
  BY DEF AInv, IInv, EnterPool
<1>2. /\ pool'[p].status = "Open" /\ pool'[p].stake_amount = pool[p].stake_amount
      /\ \A q \in Pool : q # p => pool'[q] = pool[q] /\ entry'[q] = entry[q]
  BY <1>1, PresentPool DEF EnterPool, TypeOK, PoolAccount
<1>3. m \notin Entrants(p) /\ Claimed(p) = {}
  BY <1>1 DEF EnterPool, Entrants, PoolInvOf, EntryLedgerOf
<1>4. Entrants(p)' = Entrants(p) \cup {m} /\ Claimed(p)' = {}
  BY EnterEffect DEF AInv
<1>5. \A q \in Pool : q # p => Stage(q)' = Stage(q) /\ Unit(q)' = Unit(q) /\ Owed(q)' = Owed(q)
  BY <1>2, OtherMapped
<1>6. /\ Stage(p) = "collecting" /\ Stage(p)' = "collecting"
      /\ Unit(p) = pool[p].stake_amount /\ Unit(p)' = pool[p].stake_amount
      /\ Owed(p) = Entrants(p) /\ Owed(p)' = Owed(p) \cup {m}
  BY <1>1, <1>2, <1>3, <1>4 DEF Stage, Unit, Owed
<1>7. vault' = [vault EXCEPT ![p] = @ + Unit(p)]
  BY <1>6 DEF EnterPool
<1> QED
  BY <1>3, <1>5, <1>6, <1>7 DEF Escrow!Deposit

LEMMA LockRefines ==
    ASSUME AInv, NEW p \in Pool, NEW signer \in Signer, LockPool(signer, p)
    PROVE  UNCHANGED Escrow!vars
<1>1. TypeOK /\ pool[p].status = "Open"
  BY DEF AInv, IInv, LockPool
<1>2. /\ pool'[p].status = "Locked" /\ pool'[p].stake_amount = pool[p].stake_amount
      /\ \A q \in Pool : q # p => pool'[q] = pool[q]
      /\ entry' = entry /\ vault' = vault
  BY <1>1, PresentPool DEF LockPool, TypeOK, PoolAccount
<1>3. Stage(p)' = Stage(p) /\ Unit(p)' = Unit(p) /\ Owed(p)' = Owed(p)
  BY <1>1, <1>2 DEF Stage, Unit, Owed, Entrants, Claimed
<1> QED
  BY <1>2, <1>3, OtherMapped, Stutter

LEMMA CancelRefines ==
    ASSUME AInv, NEW p \in Pool, NEW signer \in Signer, CancelPool(signer, p)
    PROVE  Escrow!GiveBack(p)
<1>1. TypeOK /\ pool[p].status \in {"Open", "Locked"}
  BY DEF AInv, IInv, CancelPool
<1>2. /\ pool'[p].status = "Cancelled" /\ pool'[p].stake_amount = pool[p].stake_amount
      /\ \A q \in Pool : q # p => pool'[q] = pool[q]
      /\ entry' = entry /\ vault' = vault
  BY <1>1, PresentPool DEF CancelPool, TypeOK, PoolAccount
<1>3. \A q \in Pool : q # p => Stage(q)' = Stage(q) /\ Unit(q)' = Unit(q) /\ Owed(q)' = Owed(q)
  BY <1>2, OtherMapped
<1>4. /\ Stage(p) = "collecting" /\ Stage(p)' = "paying"
      /\ Unit(p)' = Unit(p) /\ Owed(p)' = Owed(p)
  BY <1>1, <1>2 DEF Stage, Unit, Owed, Entrants, Claimed
<1> QED
  BY <1>2, <1>3, <1>4 DEF Escrow!GiveBack

LEMMA VoidRefines ==
    ASSUME AInv, NEW p \in Pool, NEW signer \in Signer, NEW w \in OutcomeArg,
           NEW n \in CountArg, NEW t \in Treasury, ResolveToVoid(signer, p, w, n, t)
    PROVE  Escrow!GiveBack(p)
<1>1. TypeOK /\ pool[p].status = "Locked"
  BY DEF AInv, IInv, ResolveToVoid, MayResolve
<1>2. /\ pool'[p].status = "Voided" /\ pool'[p].stake_amount = pool[p].stake_amount
      /\ \A q \in Pool : q # p => pool'[q] = pool[q]
      /\ entry' = entry /\ vault' = vault
  BY <1>1, PresentPool DEF ResolveToVoid, TypeOK, PoolAccount
<1>3. \A q \in Pool : q # p => Stage(q)' = Stage(q) /\ Unit(q)' = Unit(q) /\ Owed(q)' = Owed(q)
  BY <1>2, OtherMapped
<1>4. /\ Stage(p) = "collecting" /\ Stage(p)' = "paying"
      /\ Unit(p)' = Unit(p) /\ Owed(p)' = Owed(p)
  BY <1>1, <1>2 DEF Stage, Unit, Owed, Entrants, Claimed
<1> QED
  BY <1>2, <1>3, <1>4 DEF Escrow!GiveBack

LEMMA AwardRefines ==
    ASSUME AInv, NEW p \in Pool, NEW signer \in Signer, NEW w \in OutcomeArg,
           NEW t \in Treasury, ResolveToWinners(signer, p, w, AuditedCount(p, w), t)
    PROVE  /\ Escrow!Award(p, Winners(p, w), Share(p, AuditedCount(p, w)))
           /\ Winners(p, w) \in (SUBSET Owed(p)) \ {{}}
           /\ Share(p, AuditedCount(p, w)) \in 0 .. vault[p]
<1> DEFINE n == AuditedCount(p, w)
           share == Share(p, n)
<1>0. n \in Nat /\ n > 0 /\ n = Cardinality(Winners(p, w))
  BY AuditedCountIsArg DEF ResolveToWinners, AuditedCount
<1>1. TypeOK /\ PoolInvOf(p) /\ pool[p].status = "Locked"
  BY DEF AInv, IInv, ResolveToWinners, MayResolve
<1>2. /\ pool'[p].status = "Resolved" /\ pool'[p].share_amount = share
      /\ pool'[p].winning_outcome = w
      /\ \A q \in Pool : q # p => pool'[q] = pool[q]
      /\ entry' = entry /\ vault' = [vault EXCEPT ![p] = @ - Sweep(p, n)]
  BY <1>1, PresentPool DEF ResolveToWinners, TypeOK, PoolAccount
<1>3. \A q \in Pool : q # p => Stage(q)' = Stage(q) /\ Unit(q)' = Unit(q) /\ Owed(q)' = Owed(q)
  BY <1>2, OtherMapped
<1>4. Claimed(p) = {} /\ Claimed(p)' = {} /\ Winners(p, w)' = Winners(p, w)
  BY <1>1, <1>2 DEF PoolInvOf, EntryLedgerOf, Claimed, Winners, Entrants
<1>5. /\ Stage(p) = "collecting" /\ Stage(p)' = "paying"
      /\ Unit(p)' = share /\ Owed(p) = Entrants(p) /\ Owed(p)' = Winners(p, w)
  BY <1>1, <1>2, <1>4 DEF Stage, Unit, Owed
<1>6. /\ pool[p].total_pool \in Nat /\ pool[p].rake_bps \in Nat
      /\ pool[p].rake_bps <= MaxRakeBps
  BY <1>1, PresentPool DEF PoolInvOf, TermsKeptOf, U16
<1>7. /\ Rake(p) \in Nat /\ share \in Nat /\ Sweep(p, n) \in Nat
      /\ share * n \in Nat
      /\ share * n + Sweep(p, n) = pool[p].total_pool
      /\ Rake(p) <= Sweep(p, n) /\ Sweep(p, n) < Rake(p) + n
      /\ 10 * Rake(p) <= pool[p].total_pool
  BY <1>0, <1>6, ResolveAmounts
<1>8. vault[p] = pool[p].total_pool
  <2>1. Entrants(p) \ {} = Entrants(p)
    OBVIOUS
  <2> QED
    BY <1>1, <1>4, <2>1 DEF PoolInvOf, RefundableOf, EntryLedgerOf
<1>9. /\ 0 <= vault[p] - share * n
      /\ 10 * (vault[p] - share * n) < vault[p] + 10 * n
      /\ vault[p] - Sweep(p, n) = share * n
  <2> HIDE DEF n, share
  <2> QED
    BY <1>0, <1>6, <1>7, <1>8
<1>10. share \in 0 .. vault[p]
  <2>1. share * 1 <= share * n /\ share * 1 = share
    BY <1>0, <1>7, Monotone
  <2> HIDE DEF n, share
  <2> QED
    BY <1>0, <1>6, <1>7, <1>8, <2>1
<1>11. vault' = [vault EXCEPT ![p] = share * n]
  BY <1>2, <1>9
<1>12. Winners(p, w) \in (SUBSET Owed(p)) \ {{}}
  <2>1. Winners(p, w) # {}
    BY <1>0, FS_EmptySet
  <2>2. Winners(p, w) \subseteq Owed(p)
    BY <1>5 DEF Winners
  <2> QED
    BY <2>1, <2>2
<1>13. Escrow!Award(p, Winners(p, w), share)
  <2> HIDE DEF n, share
  <2>1. /\ [q \in Pool |-> Stage(q)]' = [[q \in Pool |-> Stage(q)] EXCEPT ![p] = "paying"]
        /\ [q \in Pool |-> Unit(q)]' = [[q \in Pool |-> Unit(q)] EXCEPT ![p] = share]
        /\ [q \in Pool |-> Owed(q)]'
              = [[q \in Pool |-> Owed(q)] EXCEPT ![p] = Winners(p, w)]
    BY <1>3, <1>5
  <2>2. [q \in Pool |-> Stage(q)][p] = "collecting"
    BY <1>5
  <2>3. /\ 0 <= vault[p] - share * Cardinality(Winners(p, w))
        /\ 10 * (vault[p] - share * Cardinality(Winners(p, w)))
             < vault[p] + 10 * Cardinality(Winners(p, w))
        /\ vault' = [vault EXCEPT ![p] = share * Cardinality(Winners(p, w))]
    BY <1>0, <1>9, <1>11
  <2> QED
    BY <2>1, <2>2, <2>3, SameCardinality, Zenon DEF Escrow!Award
<1> QED
  BY <1>10, <1>12, <1>13

LEMMA ClaimRefines ==
    ASSUME AInv, NEW p \in Pool, NEW m \in Member,
           ClaimWinnings(m, p) \/ ClaimRefund(m, p)
    PROVE  Escrow!Pay(p, m)
<1>1. /\ TypeOK /\ PoolInvOf(p) /\ pool[p].status \in Terminal
      /\ m \in Entrants(p) \ Claimed(p)
      /\ pool[p].status = "Resolved" => m \in Winners(p, pool[p].winning_outcome)
  BY DEF AInv, IInv, ClaimWinnings, ClaimRefund, Terminal, Winners
<1>2. PayFromVault(p, m, Unit(p))
  BY <1>1 DEF ClaimWinnings, ClaimRefund, Unit, PoolInvOf, EntryLedgerOf
<1>3. /\ pool'[p] = pool[p] /\ Entrants(p)' = Entrants(p)
      /\ Claimed(p)' = Claimed(p) \cup {m}
      /\ \A k \in Entrants(p) : entry'[p][k].prediction = entry[p][k].prediction
  BY <1>1, <1>2, ClaimEffect
<1>4. Winners(p, pool[p].winning_outcome)' = Winners(p, pool[p].winning_outcome)
  BY <1>3 DEF Winners
<1>5. \A q \in Pool : q # p => pool'[q] = pool[q] /\ entry'[q] = entry[q]
  BY <1>1, <1>2 DEF PayFromVault, TypeOK
<1>6. \A q \in Pool : q # p => Stage(q)' = Stage(q) /\ Unit(q)' = Unit(q) /\ Owed(q)' = Owed(q)
  BY <1>5, OtherMapped
<1>7. /\ Stage(p) = "paying" /\ Stage(p)' = "paying" /\ Unit(p)' = Unit(p)
      /\ m \in Owed(p) /\ Owed(p)' = Owed(p) \ {m}
  BY <1>1, <1>3, <1>4 DEF Stage, Unit, Owed, Terminal
<1>8. vault' = [vault EXCEPT ![p] = @ - Unit(p)]
  BY <1>2 DEF PayFromVault
<1> QED
  BY <1>6, <1>7, <1>8 DEF Escrow!Pay

LEMMA StepRefines == AInv /\ [AuditedNext]_vars => [Escrow!Next]_Escrow!vars
<1> SUFFICES ASSUME AInv, [AuditedNext]_vars PROVE [Escrow!Next]_Escrow!vars
  OBVIOUS
<1>1. CASE Tick \/ ConfigNext \/ UNCHANGED vars
  <2>1. pool' = pool /\ entry' = entry /\ vault' = vault
    BY <1>1 DEF Tick, ConfigNext, InitializeConfig, UpdateConfig, vars
  <2> QED
    BY <2>1, OtherMapped, Stutter
<1>2. ASSUME NEW p \in Pool, NEW host \in Member, NEW terms \in Terms,
             CreatePool(host, p, terms)
      PROVE  Escrow!Next
  <2>1. terms.stake_amount \in {tt.stake_amount : tt \in Terms}
    OBVIOUS
  <2> QED
    BY <1>2, <2>1, CreateRefines DEF Escrow!Next
<1>3. ASSUME NEW p \in Pool, NEW m \in Member, NEW x \in OutcomeArg, EnterPool(m, p, x)
      PROVE  Escrow!Next
  BY <1>3, EnterRefines DEF Escrow!Next
<1>4. ASSUME NEW p \in Pool, NEW signer \in Signer, LockPool(signer, p)
      PROVE  UNCHANGED Escrow!vars
  BY <1>4, LockRefines
<1>5. ASSUME NEW p \in Pool, NEW signer \in Signer, CancelPool(signer, p)
      PROVE  Escrow!Next
  BY <1>5, CancelRefines DEF Escrow!Next
<1>6. ASSUME NEW p \in Pool, NEW m \in Member, ClaimWinnings(m, p) \/ ClaimRefund(m, p)
      PROVE  Escrow!Next
  BY <1>6, ClaimRefines DEF Escrow!Next
<1>7. ASSUME NEW p \in Pool, NEW signer \in Signer, NEW w \in OutcomeArg, NEW t \in Treasury,
             ResolveToVoid(signer, p, w, AuditedCount(p, w), t)
      PROVE  Escrow!Next
  BY <1>7, AuditedCountIsArg, VoidRefines DEF Escrow!Next
<1>8. ASSUME NEW p \in Pool, NEW signer \in Signer, NEW w \in OutcomeArg, NEW t \in Treasury,
             ResolveToWinners(signer, p, w, AuditedCount(p, w), t)
      PROVE  Escrow!Next
  <2>1. Escrow!Award(p, Winners(p, w), Share(p, AuditedCount(p, w)))
    BY <1>8, AwardRefines
  <2>2. Winners(p, w) \in (SUBSET Owed(p)) \ {{}} /\ Share(p, AuditedCount(p, w)) \in 0 .. vault[p]
    BY <1>8, AwardRefines
  <2> QED
    BY <2>1, <2>2 DEF Escrow!Next
<1> QED
  BY <1>1, <1>2, <1>3, <1>4, <1>5, <1>6, <1>7, <1>8
  DEF AuditedNext, PoolNext, AuditedResolve, ResolvePool

\* The program, under a resolver that reports the count anyone can audit, is an
\* implementation of the equal-share escrow: every step keeps the promise of
\* EqualShareEscrow, for any pools, members and terms.
THEOREM ProgramImplementsEscrow == AuditedSpec => ImplementsEscrow
BY InitRefines, StepRefines, AuditedInvariance, PTL
DEF AuditedSpec, ImplementsEscrow, Escrow!Spec

-----------------------------------------------------------------------------
(* The escrow's promise *)

EscrowInv ==
    /\ vault \in [Pool -> Nat]
    /\ \A p \in Pool :
         /\ Unit(p) \in Nat /\ Owed(p) \in SUBSET Member
         /\ Stage(p) = "unopened" => Owed(p) = {}
         /\ vault[p] = Unit(p) * Cardinality(Owed(p))

LEMMA OwedIsFinite ==
    ASSUME EscrowInv, NEW p \in Pool
    PROVE  IsFiniteSet(Owed(p)) /\ Cardinality(Owed(p)) \in Nat
BY FS_Subset, FS_CardinalityType, ArgumentTypes DEF EscrowInv

LEMMA OpenKeepsPromise ==
    ASSUME EscrowInv, NEW p \in Pool, NEW stake \in Nat, Escrow!Open(p, stake)
    PROVE  EscrowInv'
<1>1. /\ Stage(p) = "unopened" /\ vault' = vault
      /\ \A q \in Pool : /\ Unit(q)' = IF q = p THEN stake ELSE Unit(q)
                         /\ Stage(q)' = IF q = p THEN "collecting" ELSE Stage(q)
                         /\ Owed(q)' = Owed(q)
  BY DEF Escrow!Open
<1>2. Cardinality(Owed(p)) = 0 /\ Owed(p) = {}
  BY <1>1, FS_EmptySet DEF EscrowInv
<1>3. Unit(p) * 0 = 0 /\ stake * 0 = 0
  BY SMT DEF EscrowInv
<1> QED
  BY <1>1, <1>2, <1>3 DEF EscrowInv

LEMMA DepositKeepsPromise ==
    ASSUME EscrowInv, NEW p \in Pool, NEW m \in Member, Escrow!Deposit(p, m)
    PROVE  EscrowInv'
<1>1. /\ Stage(p) = "collecting" /\ m \notin Owed(p)
      /\ vault' = [vault EXCEPT ![p] = @ + Unit(p)]
      /\ \A q \in Pool : /\ Unit(q)' = Unit(q) /\ Stage(q)' = Stage(q)
                         /\ Owed(q)' = IF q = p THEN Owed(p) \cup {m} ELSE Owed(q)
  BY DEF Escrow!Deposit
<1>2. Cardinality(Owed(p)') = Cardinality(Owed(p)) + 1
  BY <1>1, OwedIsFinite, FS_AddElement
<1>3. Unit(p) * (Cardinality(Owed(p)) + 1) = Unit(p) * Cardinality(Owed(p)) + Unit(p)
  BY OwedIsFinite, Distribute DEF EscrowInv
<1> QED
  BY <1>1, <1>2, <1>3 DEF EscrowInv

LEMMA AwardKeepsPromise ==
    ASSUME EscrowInv, NEW p \in Pool, NEW winners \in SUBSET Owed(p), NEW share \in Nat,
           Escrow!Award(p, winners, share)
    PROVE  EscrowInv'
<1>1. /\ vault' = [vault EXCEPT ![p] = share * Cardinality(winners)]
      /\ \A q \in Pool : /\ Unit(q)' = IF q = p THEN share ELSE Unit(q)
                         /\ Stage(q)' = IF q = p THEN "paying" ELSE Stage(q)
                         /\ Owed(q)' = IF q = p THEN winners ELSE Owed(q)
  BY SameCardinality DEF Escrow!Award
<1>2. winners \in SUBSET Member /\ share * Cardinality(winners) \in Nat
  <2>1. IsFiniteSet(winners) /\ winners \in SUBSET Member
    BY OwedIsFinite, FS_Subset DEF EscrowInv
  <2> QED
    BY <2>1, FS_CardinalityType, Distribute
<1> QED
  BY <1>1, <1>2 DEF EscrowInv

LEMMA PayKeepsPromise ==
    ASSUME EscrowInv, NEW p \in Pool, NEW m \in Member, Escrow!Pay(p, m)
    PROVE  EscrowInv'
<1>1. /\ Stage(p) = "paying" /\ m \in Owed(p)
      /\ vault' = [vault EXCEPT ![p] = @ - Unit(p)]
      /\ \A q \in Pool : /\ Unit(q)' = Unit(q) /\ Stage(q)' = Stage(q)
                         /\ Owed(q)' = IF q = p THEN Owed(p) \ {m} ELSE Owed(q)
  BY DEF Escrow!Pay
<1>2. /\ Cardinality(Owed(p)') = Cardinality(Owed(p)) - 1
      /\ Cardinality(Owed(p)) > 0 /\ Cardinality(Owed(p)) \in Nat
  <2>1. Cardinality(Owed(p)) # 0
    BY <1>1, OwedIsFinite, FS_EmptySet
  <2> QED
    BY <1>1, <2>1, OwedIsFinite, FS_RemoveElement
<1>3. /\ Unit(p) * Cardinality(Owed(p)) = Unit(p) * (Cardinality(Owed(p)) - 1) + Unit(p)
      /\ Unit(p) * (Cardinality(Owed(p)) - 1) \in Nat
  BY <1>2, Distribute DEF EscrowInv
<1> QED
  BY <1>1, <1>2, <1>3 DEF EscrowInv

\* Every state of the escrow holds the unit times the number of its creditors, for
\* any pools, members and stakes.
THEOREM PromiseKept == Escrow!Spec => []Escrow!HoldsWhatItOwes
<1>1. Escrow!Init => EscrowInv
  <2> SUFFICES ASSUME Escrow!Init PROVE EscrowInv
    OBVIOUS
  <2>1. /\ vault = [p \in Pool |-> 0]
        /\ \A p \in Pool : Unit(p) = 0 /\ Owed(p) = {}
    BY DEF Escrow!Init
  <2> QED
    BY <2>1, FS_EmptySet DEF EscrowInv
<1>2. EscrowInv /\ [Escrow!Next]_Escrow!vars => EscrowInv'
  <2> SUFFICES ASSUME EscrowInv, [Escrow!Next]_Escrow!vars PROVE EscrowInv'
    OBVIOUS
  <2>1. ASSUME NEW p \in Pool, Escrow!GiveBack(p) PROVE EscrowInv'
    <3>1. /\ Stage(p) = "collecting" /\ vault' = vault
          /\ \A q \in Pool : /\ Unit(q)' = Unit(q) /\ Owed(q)' = Owed(q)
                             /\ Stage(q)' = IF q = p THEN "paying" ELSE Stage(q)
      BY <2>1 DEF Escrow!GiveBack
    <3> QED
      BY <3>1 DEF EscrowInv
  <2>2. ASSUME UNCHANGED Escrow!vars PROVE EscrowInv'
    <3>1. /\ vault' = vault
          /\ \A q \in Pool : Unit(q)' = Unit(q) /\ Owed(q)' = Owed(q) /\ Stage(q)' = Stage(q)
      BY <2>2 DEF Escrow!vars
    <3> QED
      BY <3>1 DEF EscrowInv
  <2>3. ASSUME NEW p \in Pool, NEW stake \in {terms.stake_amount : terms \in Terms},
               Escrow!Open(p, stake)
        PROVE  EscrowInv'
    <3>1. stake \in Nat
      BY ArgumentTypes
    <3> QED
      BY <2>3, <3>1, OpenKeepsPromise
  <2>4. ASSUME NEW p \in Pool, NEW winners \in SUBSET Owed(p), NEW share \in 0 .. vault[p],
               Escrow!Award(p, winners, share)
        PROVE  EscrowInv'
    <3>1. share \in Nat
      BY DEF EscrowInv
    <3> QED
      BY <2>4, <3>1, AwardKeepsPromise
  <2> QED
    BY <2>1, <2>2, <2>3, <2>4, DepositKeepsPromise, PayKeepsPromise DEF Escrow!Next
<1>3. EscrowInv => Escrow!HoldsWhatItOwes
  BY SameCardinality DEF EscrowInv, Escrow!HoldsWhatItOwes
<1> QED
  BY <1>1, <1>2, <1>3, PTL DEF Escrow!Spec

\* A pool of the program holds at any time exactly what it owes its members: the
\* refinement carries the promise of the escrow over to the program.
THEOREM ProgramKeepsPromise == AuditedSpec => []Escrow!HoldsWhatItOwes
BY ProgramImplementsEscrow, PromiseKept, PTL DEF ImplementsEscrow

-----------------------------------------------------------------------------
(* Tokens *)

\* There are finitely many accounts that hold tokens.
FiniteAccounts == IsFiniteSet(Pool) /\ IsFiniteSet(Treasury)

\* What a vault gives a wallet gets, or the other way round, and the entry accounts
\* show it.
Transfer(p, a, d) ==
    /\ vault' = [vault EXCEPT ![p] = vault[p] - d]
    /\ wallet' = [wallet EXCEPT ![a] = wallet[a] + d]
    /\ \A q \in Pool, m \in Member \ Treasury :
        Moved(m, q)' = Moved(m, q) + (IF q = p /\ m = a THEN d ELSE 0)
NoTransfer ==
    /\ UNCHANGED <<vault, wallet>>
    /\ \A q \in Pool, m \in Member : Moved(m, q)' = Moved(m, q)

LEMMA MovedType ==
    ASSUME TypeOK, NEW p \in Pool, NEW m \in Member
    PROVE  Moved(m, p) \in Int
<1>1. CASE m \notin Entrants(p)
  BY <1>1 DEF Moved
<1>2. CASE m \in Entrants(p)
  <2>1. entry[p][m].stake_paid \in Nat
    BY <1>2, EntryType
  <2>2. pool[p].status = "Resolved" => pool[p].share_amount \in Nat
    BY PresentPool
  <2> QED
    BY <1>2, <2>1, <2>2 DEF Moved
<1> QED
  BY <1>1, <1>2

LEMMA TransferConserves ==
    ASSUME FiniteAccounts, TypeOK, NEW p \in Pool, NEW a \in Account, NEW d \in Int,
           Transfer(p, a, d), FundsConserved
    PROVE  FundsConserved'
<1>1. /\ IsFiniteSet(Account) /\ IsFiniteSet(Pool)
      /\ wallet \in [Account -> Int] /\ vault \in [Pool -> Int]
  <2>1. IsFiniteSet(Account) /\ IsFiniteSet(Pool)
    BY ArgumentTypes, FS_Union DEF FiniteAccounts, Account
  <2>2. wallet \in [Account -> Nat] /\ vault \in [Pool -> Nat]
    BY DEF TypeOK
  <2> QED
    BY <2>1, <2>2
<1>2. wallet[a] + d \in Int /\ vault[p] - d \in Int /\ wallet[a] \in Int /\ vault[p] \in Int
  BY <1>1
<1>3. SumFunction(wallet') = SumFunction(wallet) - wallet[a] + (wallet[a] + d)
  BY <1>1, <1>2, SumUpdate DEF Transfer
<1>4. SumFunction(vault') = SumFunction(vault) - vault[p] + (vault[p] - d)
  BY <1>1, <1>2, SumUpdate DEF Transfer
<1>5. SumFunction(wallet) \in Int /\ SumFunction(vault) \in Int
  BY <1>1, SumType DEF SumFunction
<1>6. SumFunction(wallet') + SumFunction(vault') = Endowment * Cardinality(Member)
  BY <1>2, <1>3, <1>4, <1>5 DEF FundsConserved
<1>7. ASSUME NEW m \in Member \ Treasury
      PROVE  wallet'[m] = Endowment + SumFunction([q \in Pool |-> Moved(m, q)'])
  <2> DEFINE f == [q \in Pool |-> Moved(m, q)]
             g == [q \in Pool |-> Moved(m, q)']
  <2>1. wallet[m] = Endowment + SumFunction(f)
    BY DEF FundsConserved
  <2>2. f \in [Pool -> Int] /\ f[p] = Moved(m, p)
    BY MovedType
  <2>3. wallet'[m] = wallet[m] + (IF m = a THEN d ELSE 0)
    BY <1>1 DEF Transfer, Account
  <2>4. CASE m # a
    <3>1. g = f
      <4>1. \A q \in Pool : Moved(m, q)' = Moved(m, q)
        BY <2>4, MovedType DEF Transfer
      <4> QED
        BY <4>1
    <3> HIDE DEF f, g
    <3> QED
      BY <1>1, <2>1, <2>3, <2>4, <3>1 DEF g, Account
  <2>5. CASE m = a
    <3>1. g = [f EXCEPT ![p] = f[p] + d]
      <4>1. \A q \in Pool : g[q] = IF q = p THEN f[q] + d ELSE f[q]
        BY <2>2, <2>5, MovedType DEF Transfer
      <4> QED
        BY <4>1
    <3>2. SumFunction(f) \in Int /\ f[p] \in Int
      <4> HIDE DEF f
      <4>1. DOMAIN f = Pool /\ \A q \in Pool : f[q] \in Int
        BY <2>2
      <4> QED
        BY <1>1, <4>1, SumType DEF SumFunction
    <3> HIDE DEF f, g
    <3>3. SumFunction(g) = SumFunction(f) - f[p] + (f[p] + d)
      <4>1. f \in [Pool -> Int] /\ f[p] + d \in Int /\ IsFiniteSet(Pool)
        BY <1>1, <2>2, <3>2
      <4>2. SumFunction([f EXCEPT ![p] = f[p] + d]) = SumFunction(f) - f[p] + (f[p] + d)
        BY <4>1, SumUpdate
      <4> QED
        BY <3>1, <4>2
    <3>4. Endowment \in Nat
      BY ArgumentTypes
    <3>5. wallet'[m] = Endowment + SumFunction(g)
      BY <2>1, <2>3, <2>5, <3>2, <3>3, <3>4
    <3> QED
      BY <3>5 DEF g
  <2> QED
    BY <2>4, <2>5
<1> QED
  BY <1>6, <1>7 DEF FundsConserved

LEMMA NoTransferConserves ==
    ASSUME NoTransfer, FundsConserved
    PROVE  FundsConserved'
<1>1. ASSUME NEW m \in Member
      PROVE  [q \in Pool |-> Moved(m, q)'] = [q \in Pool |-> Moved(m, q)]
  BY DEF NoTransfer
<1> QED
  BY <1>1 DEF NoTransfer, FundsConserved

LEMMA FundsInitially ==
    ASSUME FiniteAccounts,
           entry = [p \in Pool |-> [m \in Member |-> NoEntry]], vault = [p \in Pool |-> 0],
           wallet = [a \in Account |-> IF a \in Member THEN Endowment ELSE 0]
    PROVE  FundsConserved
<1>1. IsFiniteSet(Account) /\ IsFiniteSet(Pool) /\ Endowment \in Nat
  BY ArgumentTypes, FS_Union DEF FiniteAccounts, Account
<1>2. SumFunction(wallet) = Endowment * Cardinality(Member)
  <2>1. \A a \in Account : wallet[a] = IF a \in Member THEN Endowment ELSE 0
    OBVIOUS
  <2>2. Account \cap Member = Member /\ DOMAIN wallet = Account
    BY DEF Account
  <2>3. SumFunctionOnSet(wallet, Account) = Endowment * Cardinality(Account \cap Member)
    BY <1>1, <2>1, SumOfEqual
  <2> QED
    BY <2>2, <2>3 DEF SumFunction
<1>3. ASSUME NEW f, DOMAIN f = Pool, \A p \in Pool : f[p] = 0 PROVE SumFunction(f) = 0
  <2>1. \A p \in Pool : f[p] = IF p \in {} THEN 0 ELSE 0
    BY <1>3
  <2>2. SumFunctionOnSet(f, Pool) = 0 * Cardinality(Pool \cap {})
    BY <1>1, <2>1, SumOfEqual
  <2> QED
    BY <1>3, <2>2, FS_EmptySet DEF SumFunction
<1>4. DOMAIN vault = Pool /\ \A p \in Pool : vault[p] = 0
  OBVIOUS
<1>5. Endowment * Cardinality(Member) \in Int
  BY <1>1, ArgumentTypes, FS_CardinalityType
<1>6. ASSUME NEW m \in Member \ Treasury
      PROVE  wallet[m] = Endowment + SumFunction([p \in Pool |-> Moved(m, p)])
  <2> DEFINE f == [p \in Pool |-> Moved(m, p)]
  <2>1. DOMAIN f = Pool /\ \A p \in Pool : f[p] = 0
    BY DEF Moved, Entrants
  <2> HIDE DEF f
  <2>2. SumFunction(f) = 0
    BY <1>3, <2>1
  <2>3. wallet[m] = Endowment
    BY DEF Account
  <2> QED
    BY <1>1, <2>2, <2>3 DEF f
<1> QED
  BY <1>2, <1>3, <1>4, <1>5, <1>6 DEF FundsConserved

\* What a pool has moved stays so while the entry does, but for the share and the
\* end of a pool in which something is claimed.
LEMMA MovedSame ==
    ASSUME NEW p \in Pool, NEW m \in Member, entry'[p][m] = entry[p][m],
           m \in Claimed(p) =>
                /\ pool'[p].status = pool[p].status
                /\ pool'[p].share_amount = pool[p].share_amount
    PROVE  Moved(m, p)' = Moved(m, p)
<1>1. /\ m \in Entrants(p)' <=> m \in Entrants(p)
      /\ m \in Claimed(p)' <=> m \in Claimed(p)
  BY DEF Entrants, Claimed, NoEntry
<1> QED
  BY <1>1 DEF Moved

LEMMA NothingClaimed ==
    ASSUME NEW p \in Pool, EntryLedgerOf(p), pool[p].status \in {"Absent", "Open", "Locked"}
    PROVE  Claimed(p) = {}
BY DEF EntryLedgerOf, Claimed

\* A step that writes the account of a pool that has not ended, and no entry.
LEMMA MovedUnlessEnded ==
    ASSUME NEW p \in Pool, EntryLedgerOf(p), pool[p].status \in {"Absent", "Open", "Locked"},
           entry' = entry, \A q \in Pool : q # p => pool'[q] = pool[q],
           NEW q \in Pool, NEW m \in Member
    PROVE  Moved(m, q)' = Moved(m, q)
<1>1. CASE q = p
  BY <1>1, NothingClaimed, MovedSame
<1>2. CASE q # p
  BY <1>2, MovedSame
<1> QED
  BY <1>1, <1>2

LEMMA EnterTransfers ==
    ASSUME IInv, NEW p \in Pool, NEW m \in Member, NEW x \in OutcomeArg, EnterPool(m, p, x)
    PROVE  \E a \in Account, d \in Int : Transfer(p, a, d)
<1>1. TypeOK /\ EntryLedgerOf(p)
  BY DEF IInv, PoolInvOf
<1> DEFINE d == -pool[p].stake_amount
<1>2. pool[p].stake_amount \in Nat /\ d \in Int
  BY <1>1, PresentPool DEF EnterPool
<1>3. /\ vault' = [vault EXCEPT ![p] = vault[p] + pool[p].stake_amount]
      /\ wallet' = [wallet EXCEPT ![m] = wallet[m] - pool[p].stake_amount]
  BY DEF EnterPool
<1>4. /\ vault[p] - d = vault[p] + pool[p].stake_amount
      /\ wallet[m] + d = wallet[m] - pool[p].stake_amount
      /\ m \in Account
  BY <1>1, <1>2 DEF TypeOK, Account
<1>5. Moved(m, p) = 0 /\ Moved(m, p)' = d
  <2>1. m \notin Entrants(p)
    BY DEF EnterPool, Entrants
  <2>2. entry'[p][m] = [prediction |-> x, stake_paid |-> pool[p].stake_amount, claimed |-> FALSE]
    BY <1>1 DEF EnterPool, TypeOK
  <2>3. m \in Entrants(p)' /\ m \notin Claimed(p)'
    BY <2>2 DEF Entrants, Claimed, NoEntry
  <2>4. Moved(m, p)' = 0 - entry'[p][m].stake_paid
    BY <2>3 DEF Moved
  <2> QED
    BY <1>2, <2>1, <2>2, <2>4 DEF Moved
<1>6. ASSUME NEW q \in Pool, NEW n \in Member, q # p \/ n # m
      PROVE  Moved(n, q)' = Moved(n, q)
  <2>1. entry'[q][n] = entry[q][n]
    BY <1>1, <1>6 DEF EnterPool, TypeOK
  <2>2. q # p => pool'[q] = pool[q]
    BY <1>1 DEF EnterPool, TypeOK
  <2>3. q = p => Claimed(q) = {}
    BY <1>1, NothingClaimed DEF EnterPool
  <2> QED
    BY <2>1, <2>2, <2>3, MovedSame
<1>7. ASSUME NEW q \in Pool, NEW n \in Member
      PROVE  Moved(n, q)' = Moved(n, q) + (IF q = p /\ n = m THEN d ELSE 0)
  <2>1. Moved(n, q) \in Int
    BY <1>1, MovedType
  <2> HIDE DEF d
  <2> QED
    BY <1>2, <1>5, <1>6, <2>1
<1> HIDE DEF d
<1>8. Transfer(p, m, d)
  BY <1>3, <1>4, <1>7 DEF Transfer
<1> QED
  BY <1>2, <1>4, <1>8

LEMMA ClaimTransfers ==
    ASSUME IInv, NEW p \in Pool, NEW m \in Member, ClaimWinnings(m, p) \/ ClaimRefund(m, p)
    PROVE  \E a \in Account, d \in Int : Transfer(p, a, d)
<1>1. TypeOK /\ m \in Entrants(p) \ Claimed(p) /\ m \in Account
  BY DEF IInv, ClaimWinnings, ClaimRefund, Account
<1> DEFINE d == IF pool[p].status = "Resolved" THEN pool[p].share_amount
                ELSE entry[p][m].stake_paid
<1>2. PayFromVault(p, m, d)
  BY DEF ClaimWinnings, ClaimRefund
<1>3. entry[p][m] \in Entry /\ entry[p][m].stake_paid \in Nat
  BY <1>1, EntryType
<1>4. d \in Nat /\ d \in Int
  BY <1>1, <1>3, PresentPool
<1>5. Moved(m, p) = -entry[p][m].stake_paid
  BY <1>1, <1>3 DEF Moved
<1>6. Moved(m, p)' = d - entry[p][m].stake_paid
  <2>1. /\ entry'[p][m] = [entry[p][m] EXCEPT !.claimed = TRUE]
        /\ pool' = pool
    BY <1>1, <1>2 DEF PayFromVault, TypeOK
  <2>2. entry'[p][m] \in Entry /\ entry'[p][m].claimed = TRUE
        /\ entry'[p][m].stake_paid = entry[p][m].stake_paid
    BY <1>3, <2>1 DEF Entry
  <2>3. m \in Entrants(p)' /\ m \in Claimed(p)'
    BY <2>2 DEF Entrants, Claimed, Entry, NoEntry
  <2> QED
    BY <2>1, <2>2, <2>3 DEF Moved
<1>7. ASSUME NEW q \in Pool, NEW n \in Member, q # p \/ n # m
      PROVE  Moved(n, q)' = Moved(n, q)
  <2>1. entry'[q][n] = entry[q][n] /\ pool' = pool
    BY <1>1, <1>2, <1>7 DEF PayFromVault, TypeOK
  <2> QED
    BY <2>1, MovedSame
<1> HIDE DEF d
<1>8. ASSUME NEW q \in Pool, NEW n \in Member
      PROVE  Moved(n, q)' = Moved(n, q) + (IF q = p /\ n = m THEN d ELSE 0)
  <2>1. Moved(n, q) \in Int
    BY <1>1, MovedType
  <2> QED
    BY <1>3, <1>4, <1>5, <1>6, <1>7, <2>1
<1>9. Transfer(p, m, d)
  BY <1>2, <1>8 DEF PayFromVault, Transfer
<1> QED
  BY <1>1, <1>4, <1>9

LEMMA ResolveTransfers ==
    ASSUME IInv, NEW p \in Pool, ResolveNext(p)
    PROVE  NoTransfer \/ \E a \in Account, d \in Int : Transfer(p, a, d)
<1>1. TypeOK /\ PoolInvOf(p) /\ EntryLedgerOf(p)
  BY DEF IInv, PoolInvOf
<1>2. PICK signer \in Signer, w \in OutcomeArg, n \in CountArg, t \in Treasury :
          ResolvePool(signer, p, w, n, t)
  BY DEF ResolveNext
<1>3. /\ pool[p].status = "Locked" /\ entry' = entry
      /\ \A q \in Pool : q # p => pool'[q] = pool[q]
  BY <1>1, <1>2 DEF ResolvePool, ResolveToVoid, ResolveToWinners, MayResolve, TypeOK
<1>4. \A q \in Pool, m \in Member : Moved(m, q)' = Moved(m, q)
  BY <1>1, <1>3, MovedUnlessEnded
<1>5. CASE ResolveToVoid(signer, p, w, n, t)
  BY <1>4, <1>5 DEF ResolveToVoid, NoTransfer
<1>6. CASE ResolveToWinners(signer, p, w, n, t)
  <2>1. Sweep(p, n) \in Nat
    <3>1. n > 0 /\ n \in Nat
      BY <1>6, ArgumentTypes DEF ResolveToWinners
    <3>2. pool[p].total_pool \in Nat /\ pool[p].rake_bps \in Nat /\ pool[p].rake_bps <= MaxRakeBps
      BY <1>1, <1>3, PresentPool DEF PoolInvOf, TermsKeptOf, U16
    <3> QED
      BY <3>1, <3>2, ResolveAmounts
  <2>2. ASSUME NEW q \in Pool, NEW m \in Member \ Treasury
        PROVE  Moved(m, q)' = Moved(m, q) + (IF q = p /\ m = t THEN Sweep(p, n) ELSE 0)
    <3>1. Moved(m, q) \in Int
      BY <1>1, MovedType
    <3> QED
      BY <1>4, <3>1
  <2>3. Transfer(p, t, Sweep(p, n)) /\ t \in Account
    BY <1>6, <2>2 DEF ResolveToWinners, Transfer, Account
  <2> QED
    BY <2>1, <2>3
<1> QED
  BY <1>2, <1>5, <1>6 DEF ResolvePool

\* Every instruction is a transfer between one vault and one wallet, or none.
LEMMA StepTransfers ==
    ASSUME IInv, [Next]_vars
    PROVE  NoTransfer \/ \E p \in Pool, a \in Account, d \in Int : Transfer(p, a, d)
<1>1. TypeOK /\ \A p \in Pool : EntryLedgerOf(p)
  BY DEF IInv, PoolInvOf
<1>2. CASE Tick \/ ConfigNext \/ UNCHANGED vars
  <2>1. UNCHANGED <<pool, entry, vault, wallet>>
    BY <1>2 DEF Tick, ConfigNext, InitializeConfig, UpdateConfig, vars
  <2> QED
    BY <2>1, MovedSame DEF NoTransfer
<1>3. ASSUME NEW p \in Pool, PoolNext(p)
      PROVE  NoTransfer \/ \E a \in Account, d \in Int : Transfer(p, a, d)
  <2>1. ASSUME \/ \E host \in Member, terms \in Terms : CreatePool(host, p, terms)
               \/ \E signer \in Signer : LockPool(signer, p) \/ CancelPool(signer, p)
        PROVE  NoTransfer
    <3>1. /\ pool[p].status \in {"Absent", "Open", "Locked"} /\ UNCHANGED <<entry, vault, wallet>>
          /\ \A q \in Pool : q # p => pool'[q] = pool[q]
      BY <1>1, <2>1 DEF CreatePool, LockPool, CancelPool, NoPool, TypeOK
    <3> QED
      BY <1>1, <3>1, MovedUnlessEnded DEF NoTransfer
  <2> QED
    BY <1>3, <2>1, EnterTransfers, ClaimTransfers DEF PoolNext
<1> QED
  BY <1>2, <1>3, ResolveTransfers DEF Next

LEMMA FundsStep ==
    ASSUME FiniteAccounts, IInv, FundsConserved, [Next]_vars
    PROVE  FundsConserved'
<1>1. CASE \E p \in Pool, a \in Account, d \in Int : Transfer(p, a, d)
  BY <1>1, TransferConserves DEF IInv
<1> QED
  BY <1>1, NoTransferConserves, StepTransfers

\* No instruction makes or loses a token, and every member has what the entry
\* accounts say, whatever the resolver reports and however the accounts of several
\* pools share wallets and treasuries (enter_pool.rs, resolve_pool.rs, the claims).
THEOREM FundsAlwaysConserved ==
    ASSUME FiniteAccounts
    PROVE  Spec => []FundsConserved
<1>1. Init => FundsConserved
  BY FundsInitially DEF Init
<1>2. IInv /\ FundsConserved /\ [Next]_vars => FundsConserved'
  BY FundsStep
<1> QED
  BY <1>1, <1>2, Invariance, PTL DEF Spec

=============================================================================
