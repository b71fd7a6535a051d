------------------------------ MODULE FiniteSums ------------------------------
(***************************************************************************)
(* Sums over finite sets, for the loads of the trips and the balances of   *)
(* the ledger: SumFunctionOnSet of the community modules, whose definition *)
(* adds the elements in the order in which CHOOSE picks them.              *)
(*                                                                         *)
(* Everything is by induction on finite sets, in the form of a smallest    *)
(* counterexample: the strict subsets of a finite set are well-founded, so *)
(* that a nonempty set of sets for which a claim fails has a least member. *)
(***************************************************************************)
EXTENDS Integers, Functions, FiniteSetTheorems, TLAPS

\* The element that the community modules' folds take next.
Pick(s) == CHOOSE x \in s : TRUE

\* g gives the sum of f over every subset of S.
SumsUp(f, S, g) ==
    g = [s \in SUBSET S |-> IF s = {} THEN 0 ELSE f[Pick(s)] + g[s \ {Pick(s)}]]

SumsOf(f, S) == CHOOSE g : SumsUp(f, S, g)

\* Induction on a finite set: if some subset is bad, some is whose strict subsets are not.
LEMMA SmallestSubset ==
    ASSUME NEW S, IsFiniteSet(S), NEW Bad \in SUBSET (SUBSET S), Bad # {}
    PROVE  \E T \in Bad : \A U \in SUBSET T : U # T => U \notin Bad
<1>1. IsWellFoundedOn(StrictSubsetOrdering(S), SUBSET S)
      BY FS_StrictSubsetOrderingWellFounded, FS_FiniteSubsetsOfFinite
<1>2. PICK T \in Bad : \A U \in Bad : ~ (<<U, T>> \in StrictSubsetOrdering(S))
      BY <1>1, WFMin
<1>3. ASSUME NEW U \in SUBSET T, U # T, U \in Bad PROVE FALSE
      BY <1>2, <1>3 DEF StrictSubsetOrdering
<1> QED
    BY <1>3

\* A nonempty set has the element picked.
LEMMA PickIn == ASSUME NEW s, s # {} PROVE Pick(s) \in s
BY DEF Pick

\* The sums of one function over the subsets of two sets agree where both are defined.
LEMMA SumsAgree ==
    ASSUME NEW f, NEW A, IsFiniteSet(A), NEW B, NEW g, SumsUp(f, A, g), NEW h, SumsUp(f, B, h),
           NEW s \in SUBSET A, s \in SUBSET B
    PROVE  g[s] = h[s]
<1> DEFINE Bad == {t \in SUBSET A : t \in SUBSET B /\ g[t] # h[t]}
<1> SUFFICES ASSUME Bad # {} PROVE FALSE
    OBVIOUS
<1>1. PICK t \in Bad : \A u \in SUBSET t : u # t => u \notin Bad
      BY SmallestSubset
<1>2. /\ g[t] = IF t = {} THEN 0 ELSE f[Pick(t)] + g[t \ {Pick(t)}]
      /\ h[t] = IF t = {} THEN 0 ELSE f[Pick(t)] + h[t \ {Pick(t)}]
      BY DEF SumsUp
<1>3. t # {}
      BY <1>2
<1>4. t \ {Pick(t)} \in SUBSET t /\ t \ {Pick(t)} # t
      BY <1>3, PickIn
<1>5. g[t \ {Pick(t)}] = h[t \ {Pick(t)}]
      BY <1>1, <1>4
<1> QED
    BY <1>2, <1>3, <1>5

\* The recursion that defines the sums of f over the subsets of S has a solution.
LEMMA SumsExist ==
    ASSUME NEW f, NEW S, IsFiniteSet(S)
    PROVE  SumsUp(f, S, SumsOf(f, S))
<1> DEFINE Bad == {t \in SUBSET S : ~ SumsUp(f, t, SumsOf(f, t))}
<1> SUFFICES ASSUME Bad # {} PROVE FALSE
    OBVIOUS
<1>0. Bad \in SUBSET (SUBSET S)
      OBVIOUS
<1>1. PICK t \in Bad : \A u \in SUBSET t : u # t => u \notin Bad
  <2> HIDE DEF Bad
  <2> QED
      BY <1>0, SmallestSubset
<1>2. \A u \in SUBSET t : u # t => SumsUp(f, u, SumsOf(f, u)) /\ IsFiniteSet(u)
      BY <1>1, FS_Subset
<1> DEFINE G == [s \in SUBSET t |-> IF s = {} THEN 0
                   ELSE f[Pick(s)] + SumsOf(f, s \ {Pick(s)})[s \ {Pick(s)}]]
<1>3. ASSUME NEW u \in SUBSET t, u # t
      PROVE  G[u] = SumsOf(f, u)[u]
  <2>1. SumsUp(f, u, SumsOf(f, u)) /\ IsFiniteSet(u)
        BY <1>2, <1>3
  <2>2. SumsOf(f, u)[u] = IF u = {} THEN 0 ELSE f[Pick(u)] + SumsOf(f, u)[u \ {Pick(u)}]
        BY <2>1 DEF SumsUp
  <2>3. CASE u = {}
        BY <2>2, <2>3
  <2>4. CASE u # {}
    <3> DEFINE v == u \ {Pick(u)}
    <3>1. v \in SUBSET t /\ v # t /\ v \in SUBSET u
          BY <1>3
    <3>2. SumsUp(f, v, SumsOf(f, v)) /\ IsFiniteSet(v)
          BY <1>2, <3>1
    <3>3. SumsOf(f, v)[v] = SumsOf(f, u)[v]
          BY <2>1, <3>1, <3>2, SumsAgree
    <3>4. G[u] = f[Pick(u)] + SumsOf(f, v)[v]
          BY <2>4
    <3> HIDE DEF v
    <3>5. SumsOf(f, u)[u] = f[Pick(u)] + SumsOf(f, u)[v]
          BY <2>2, <2>4 DEF v
    <3> QED
        BY <3>3, <3>4, <3>5
  <2> QED
      BY <2>3, <2>4
<1>4. ASSUME NEW s \in SUBSET t
      PROVE  G[s] = IF s = {} THEN 0 ELSE f[Pick(s)] + G[s \ {Pick(s)}]
  <2>1. CASE s = {}
        BY <2>1
  <2>2. CASE s # {}
    <3>1. s \ {Pick(s)} \in SUBSET t /\ s \ {Pick(s)} # t
          BY <2>2, PickIn
    <3>2. G[s \ {Pick(s)}] = SumsOf(f, s \ {Pick(s)})[s \ {Pick(s)}]
          BY <1>3, <3>1
    <3>3. G[s] = f[Pick(s)] + SumsOf(f, s \ {Pick(s)})[s \ {Pick(s)}]
          BY <2>2
    <3> HIDE DEF G
    <3> QED
        BY <2>2, <3>2, <3>3
  <2> QED
      BY <2>1, <2>2
<1>5. G = [s \in SUBSET t |-> G[s]]
      OBVIOUS
<1> HIDE DEF G
<1>6. SumsUp(f, t, G)
      BY <1>4, <1>5 DEF SumsUp
<1>7. SumsUp(f, t, SumsOf(f, t))
      BY <1>6 DEF SumsOf
<1> QED
    BY <1>7

\* The library's sum is the last of them.
LEMMA SumIsLast ==
    ASSUME NEW f, NEW S
    PROVE  SumFunctionOnSet(f, S) = SumsOf(f, S)[S]
BY DEF SumFunctionOnSet, FoldFunctionOnSet, MapThenFoldSet, SumsOf, SumsUp, Pick

\* The sum over nothing.
LEMMA SumEmpty == ASSUME NEW f PROVE SumFunctionOnSet(f, {}) = 0
<1>1. SumsUp(f, {}, SumsOf(f, {}))
      BY FS_EmptySet, SumsExist
<1> QED
    BY <1>1, SumIsLast DEF SumsUp

\* The recursion, in the order in which elements are picked.
LEMMA SumPick ==
    ASSUME NEW f, NEW S, IsFiniteSet(S), S # {}
    PROVE  SumFunctionOnSet(f, S) = f[Pick(S)] + SumFunctionOnSet(f, S \ {Pick(S)})
<1> DEFINE R == S \ {Pick(S)}
<1>1. IsFiniteSet(R) /\ R \in SUBSET S /\ R \in SUBSET R
      BY FS_RemoveElement
<1> HIDE DEF R
<1>2. SumsUp(f, S, SumsOf(f, S)) /\ SumsUp(f, R, SumsOf(f, R))
      BY <1>1, SumsExist
<1>3. SumsOf(f, R)[R] = SumsOf(f, S)[R]
  <2> DEFINE g == SumsOf(f, R)
             h == SumsOf(f, S)
  <2>1. SumsUp(f, R, g) /\ SumsUp(f, S, h)
        BY <1>2
  <2> HIDE DEF g, h
  <2>2. g[R] = h[R]
        BY <1>1, <2>1, SumsAgree
  <2> QED
      BY <2>2 DEF g, h
<1>4. SumsOf(f, S)[S] = f[Pick(S)] + SumsOf(f, S)[R]
      BY <1>2 DEF SumsUp, R
<1> QED
    BY <1>3, <1>4, SumIsLast DEF R

\* A sum of natural numbers is one.
LEMMA SumNat ==
    ASSUME NEW f, NEW S, IsFiniteSet(S), \A x \in S : f[x] \in Nat
    PROVE  SumFunctionOnSet(f, S) \in Nat
<1> DEFINE Bad == {t \in SUBSET S : SumFunctionOnSet(f, t) \notin Nat}
<1> SUFFICES ASSUME Bad # {} PROVE FALSE
    OBVIOUS
<1>0. Bad \in SUBSET (SUBSET S)
      OBVIOUS
<1>1. PICK t \in Bad : \A u \in SUBSET t : u # t => u \notin Bad
  <2> HIDE DEF Bad
  <2> QED
      BY <1>0, SmallestSubset
<1>2. t # {}
      BY SumEmpty
<1>3. IsFiniteSet(t)
      BY FS_Subset
<1>4. SumFunctionOnSet(f, t) = f[Pick(t)] + SumFunctionOnSet(f, t \ {Pick(t)})
      BY <1>2, <1>3, SumPick
<1>5. Pick(t) \in t /\ f[Pick(t)] \in Nat
      BY <1>2, PickIn
<1>6. t \ {Pick(t)} \in SUBSET t /\ t \ {Pick(t)} # t
      BY <1>5
<1>7. SumFunctionOnSet(f, t \ {Pick(t)}) \in Nat
      BY <1>1, <1>6
<1> QED
    BY <1>4, <1>5, <1>7

\* Any element may be taken first.
LEMMA SumRemove ==
    ASSUME NEW f, NEW S, IsFiniteSet(S), \A y \in S : f[y] \in Nat, NEW x \in S
    PROVE  SumFunctionOnSet(f, S) = f[x] + SumFunctionOnSet(f, S \ {x})
<1> DEFINE Splits(t, y) == SumFunctionOnSet(f, t) = f[y] + SumFunctionOnSet(f, t \ {y})
           Bad == {t \in SUBSET S : \E y \in t : ~ Splits(t, y)}
<1> SUFFICES ASSUME Bad # {} PROVE FALSE
    OBVIOUS
<1>0. Bad \in SUBSET (SUBSET S)
      OBVIOUS
<1>1. PICK t \in Bad : \A u \in SUBSET t : u # t => u \notin Bad
  <2> HIDE DEF Bad
  <2> QED
      BY <1>0, SmallestSubset
<1>2. PICK y \in t : ~ Splits(t, y)
      OBVIOUS
<1> DEFINE p == Pick(t)
           r == (t \ {y}) \ {p}
<1>3. p \in t
      BY <1>2, PickIn
<1>4. IsFiniteSet(t) /\ IsFiniteSet(r) /\ r \in SUBSET S
      BY FS_Subset, FS_RemoveElement
<1>5. Splits(t, p)
      BY <1>2, <1>4, SumPick
<1> HIDE DEF p
<1>6. p # y
      BY <1>2, <1>5
<1>7. Splits(t \ {p}, y) /\ Splits(t \ {y}, p)
  <2> HIDE DEF Splits
  <2>1. \A u \in SUBSET t : u # t => \A z \in u : Splits(u, z)
        BY <1>1
  <2>2. t \ {p} \in SUBSET t /\ t \ {p} # t /\ y \in t \ {p}
        BY <1>3, <1>6
  <2>3. t \ {y} \in SUBSET t /\ t \ {y} # t /\ p \in t \ {y}
        BY <1>3, <1>6
  <2> HIDE DEF Bad
  <2> QED
      BY <2>1, <2>2, <2>3
<1>8. (t \ {p}) \ {y} = r
      OBVIOUS
<1>9. f[y] \in Nat /\ f[p] \in Nat /\ SumFunctionOnSet(f, r) \in Nat
      BY <1>3, <1>4, SumNat
<1> HIDE DEF r
<1>10. /\ SumFunctionOnSet(f, t) = f[p] + SumFunctionOnSet(f, t \ {p})
       /\ SumFunctionOnSet(f, t \ {p}) = f[y] + SumFunctionOnSet(f, r)
       /\ SumFunctionOnSet(f, t \ {y}) = f[p] + SumFunctionOnSet(f, r)
       BY <1>5, <1>7, <1>8 DEF r
<1>11. SumFunctionOnSet(f, t) = f[y] + SumFunctionOnSet(f, t \ {y})
       BY <1>9, <1>10
<1> QED
    BY <1>2, <1>11

\* A larger function over a larger set has a larger sum.
LEMMA SumMonotone ==
    ASSUME NEW f, NEW g, NEW T, IsFiniteSet(T), NEW S \in SUBSET T,
           \A x \in S : f[x] \in Nat /\ f[x] <= g[x], \A x \in T : g[x] \in Nat
    PROVE  SumFunctionOnSet(f, S) <= SumFunctionOnSet(g, T)
<1> DEFINE Bad == {t \in SUBSET T : ~ (SumFunctionOnSet(f, t \cap S) <= SumFunctionOnSet(g, t))}
<1>0. Bad \in SUBSET (SUBSET T)
      OBVIOUS
<1>1. ASSUME Bad # {} PROVE FALSE
  <2>1. PICK t \in Bad : \A u \in SUBSET t : u # t => u \notin Bad
    <3> HIDE DEF Bad
    <3> QED
        BY <1>0, <1>1, SmallestSubset
  <2>2. t # {}
    <3>1. {} \cap S = {} /\ SumFunctionOnSet(f, {}) = 0 /\ SumFunctionOnSet(g, {}) = 0
          BY SumEmpty
    <3> QED
        BY <3>1
  <2>3. PICK p \in t : TRUE
        BY <2>2
  <2> DEFINE r == t \ {p}
             q == r \cap S
  <2>4. /\ IsFiniteSet(t) /\ IsFiniteSet(t \cap S) /\ IsFiniteSet(r) /\ IsFiniteSet(q)
        BY FS_Subset
  <2>5. SumFunctionOnSet(f, q) <= SumFunctionOnSet(g, r)
        BY <2>1
  <2>6. SumFunctionOnSet(g, t) = g[p] + SumFunctionOnSet(g, r)
        BY <2>4, SumRemove
  <2>7. SumFunctionOnSet(f, q) \in Nat /\ SumFunctionOnSet(g, r) \in Nat /\ g[p] \in Nat
        BY <2>4, SumNat
  <2>8. CASE p \in S
    <3>1. q = (t \cap S) \ {p} /\ p \in t \cap S
          BY <2>8
    <3>2. SumFunctionOnSet(f, t \cap S) = f[p] + SumFunctionOnSet(f, (t \cap S) \ {p})
          BY <2>4, <3>1, SumRemove
    <3>3. f[p] \in Nat /\ f[p] <= g[p]
          BY <2>8
    <3> HIDE DEF q, r
    <3>4. SumFunctionOnSet(f, t \cap S) <= SumFunctionOnSet(g, t)
          BY <2>5, <2>6, <2>7, <3>1, <3>2, <3>3
    <3> QED
        BY <3>4
  <2>9. CASE p \notin S
    <3>1. q = t \cap S
          BY <2>9
    <3> HIDE DEF q, r
    <3>2. SumFunctionOnSet(f, t \cap S) <= SumFunctionOnSet(g, t)
          BY <2>5, <2>6, <2>7, <3>1
    <3> QED
        BY <3>2
  <2> QED
      BY <2>8, <2>9
<1>2. T \cap S = S
      OBVIOUS
<1> QED
    BY <1>1, <1>2

\* The sum over two disjoint sets.
LEMMA SumUnion ==
    ASSUME NEW f, NEW S, IsFiniteSet(S), NEW T, IsFiniteSet(T), S \cap T = {},
           \A x \in S \cup T : f[x] \in Nat
    PROVE  SumFunctionOnSet(f, S \cup T) = SumFunctionOnSet(f, S) + SumFunctionOnSet(f, T)
<1> DEFINE Splits(t) == SumFunctionOnSet(f, S \cup t) = SumFunctionOnSet(f, S) + SumFunctionOnSet(f, t)
           Bad == {t \in SUBSET T : ~ Splits(t)}
<1>1. Bad \in SUBSET (SUBSET T)
      OBVIOUS
<1>2. ASSUME Bad # {} PROVE FALSE
  <2>1. PICK t \in Bad : \A u \in SUBSET t : u # t => u \notin Bad
    <3> HIDE DEF Bad
    <3> QED
        BY <1>1, <1>2, SmallestSubset
  <2>2. t \in SUBSET T /\ ~ Splits(t)
        OBVIOUS
  <2>3. IsFiniteSet(t) /\ IsFiniteSet(S \cup t)
        BY <2>2, FS_Subset, FS_Union
  <2>4. t # {}
    <3>1. S \cup {} = S /\ SumFunctionOnSet(f, {}) = 0 /\ SumFunctionOnSet(f, S) \in Nat
          BY SumEmpty, SumNat
    <3>2. Splits({})
          BY <3>1
    <3> HIDE DEF Splits
    <3> QED
        BY <2>2, <3>2
  <2>5. PICK p \in t : TRUE
        BY <2>4
  <2> DEFINE r == t \ {p}
             s == S \cup r
  <2>6. r \in SUBSET t /\ r # t /\ r \in SUBSET T
        BY <2>2
  <2>7. Splits(r)
    <3> HIDE DEF r, Splits
    <3> QED
        BY <2>1, <2>6
  <2>8. (S \cup t) \ {p} = s /\ p \in S \cup t
        BY <2>2
  <2>9. IsFiniteSet(r) /\ IsFiniteSet(s)
        BY <2>3, FS_Subset, FS_Union
  <2>10. /\ SumFunctionOnSet(f, t) = f[p] + SumFunctionOnSet(f, r)
         /\ SumFunctionOnSet(f, S \cup t) = f[p] + SumFunctionOnSet(f, s)
    <3> HIDE DEF s
    <3> QED
        BY <2>2, <2>3, <2>8, SumRemove
  <2>11. /\ f[p] \in Nat /\ SumFunctionOnSet(f, r) \in Nat /\ SumFunctionOnSet(f, S) \in Nat
         BY <2>2, <2>9, SumNat
  <2> HIDE DEF r
  <2> QED
      BY <2>2, <2>7, <2>10, <2>11
<1> QED
    BY <1>2

\* One more element.
LEMMA SumAdd ==
    ASSUME NEW f, NEW S, IsFiniteSet(S), NEW x, x \notin S, \A y \in S \cup {x} : f[y] \in Nat
    PROVE  SumFunctionOnSet(f, S \cup {x}) = f[x] + SumFunctionOnSet(f, S)
<1> DEFINE T == S \cup {x}
<1>1. IsFiniteSet(T) /\ x \in T /\ T \ {x} = S
      BY FS_AddElement
<1> HIDE DEF T
<1>2. \A y \in T : f[y] \in Nat
      BY DEF T
<1>3. SumFunctionOnSet(f, T) = f[x] + SumFunctionOnSet(f, T \ {x})
      BY <1>1, <1>2, SumRemove
<1> QED
    BY <1>1, <1>3 DEF T

\* The sum depends on the values over the set only.
LEMMA SumSame ==
    ASSUME NEW f, NEW g, NEW S, IsFiniteSet(S), \A x \in S : f[x] \in Nat /\ f[x] = g[x]
    PROVE  SumFunctionOnSet(f, S) = SumFunctionOnSet(g, S)
<1>1. /\ \A x \in S : f[x] \in Nat /\ f[x] <= g[x]
      /\ \A x \in S : g[x] \in Nat /\ g[x] <= f[x]
      /\ S \in SUBSET S
      OBVIOUS
<1>2. SumFunctionOnSet(f, S) <= SumFunctionOnSet(g, S) /\ SumFunctionOnSet(g, S) <= SumFunctionOnSet(f, S)
      BY <1>1, SumMonotone
<1>3. SumFunctionOnSet(f, S) \in Nat /\ SumFunctionOnSet(g, S) \in Nat
      BY <1>1, SumNat
<1> QED
    BY <1>2, <1>3

\* Elements of no weight may be left out.
LEMMA SumSkip ==
    ASSUME NEW f, NEW T, IsFiniteSet(T), \A x \in T : f[x] \in Nat, NEW S \in SUBSET T,
           \A x \in T \ S : f[x] = 0
    PROVE  SumFunctionOnSet(f, T) = SumFunctionOnSet(f, S)
<1> DEFINE Z == T \ S
           Bad == {t \in SUBSET Z : SumFunctionOnSet(f, t) # 0}
<1>1. IsFiniteSet(S) /\ IsFiniteSet(Z)
      BY FS_Subset
<1>2. ASSUME Bad # {} PROVE FALSE
  <2>1. Bad \in SUBSET (SUBSET Z)
        OBVIOUS
  <2>2. PICK t \in Bad : \A u \in SUBSET t : u # t => u \notin Bad
    <3> HIDE DEF Bad, Z
    <3> QED
        BY <1>1, <1>2, <2>1, SmallestSubset
  <2>3. t # {}
        BY SumEmpty
  <2>4. PICK p \in t : TRUE
        BY <2>3
  <2>5. IsFiniteSet(t) /\ t \in SUBSET Z
        BY <1>1, FS_Subset
  <2>6. \A x \in t : f[x] \in Nat /\ f[x] = 0
        BY <2>5
  <2>7. SumFunctionOnSet(f, t) = f[p] + SumFunctionOnSet(f, t \ {p})
    <3> HIDE DEF Bad, Z
    <3> QED
        BY <2>5, <2>6, SumRemove
  <2>8. SumFunctionOnSet(f, t \ {p}) = 0
        BY <2>2, <2>5
  <2> QED
      BY <2>6, <2>7, <2>8
<1>3. SumFunctionOnSet(f, Z) = 0
      BY <1>2
<1>4. S \cup Z = T /\ S \cap Z = {}
      OBVIOUS
<1> HIDE DEF Z
<1>5. SumFunctionOnSet(f, S \cup Z) = SumFunctionOnSet(f, S) + SumFunctionOnSet(f, Z)
      BY <1>1, <1>4, SumUnion
<1>6. SumFunctionOnSet(f, S) \in Nat
      BY <1>1, SumNat
<1> QED
    BY <1>3, <1>4, <1>5, <1>6

\* The sum of a pointwise sum.
LEMMA SumPlus ==
    ASSUME NEW f, NEW g, NEW h, NEW S, IsFiniteSet(S),
           \A x \in S : g[x] \in Nat /\ h[x] \in Nat /\ f[x] = g[x] + h[x]
    PROVE  SumFunctionOnSet(f, S) = SumFunctionOnSet(g, S) + SumFunctionOnSet(h, S)
<1> DEFINE Splits(t) == SumFunctionOnSet(f, t) = SumFunctionOnSet(g, t) + SumFunctionOnSet(h, t)
           Bad == {t \in SUBSET S : ~ Splits(t)}
<1>1. Bad \in SUBSET (SUBSET S)
      OBVIOUS
<1>2. ASSUME Bad # {} PROVE FALSE
  <2>1. PICK t \in Bad : \A u \in SUBSET t : u # t => u \notin Bad
    <3> HIDE DEF Bad
    <3> QED
        BY <1>1, <1>2, SmallestSubset
  <2>2. t \in SUBSET S /\ IsFiniteSet(t) /\ ~ Splits(t)
        BY <2>1, FS_Subset
  <2>3. t # {}
    <3>1. Splits({})
          BY SumEmpty
    <3> QED
        BY <2>2, <3>1
  <2> DEFINE p == Pick(t)
             u == t \ {p}
  <2>4. p \in t /\ u \in SUBSET t /\ u # t /\ u \in SUBSET S
        BY <2>2, <2>3, PickIn
  <2>5. Splits(u)
        BY <2>1, <2>4
  <2>6. /\ SumFunctionOnSet(f, t) = f[p] + SumFunctionOnSet(f, u)
        /\ SumFunctionOnSet(g, t) = g[p] + SumFunctionOnSet(g, u)
        /\ SumFunctionOnSet(h, t) = h[p] + SumFunctionOnSet(h, u)
        BY <2>2, <2>3, SumPick
  <2>7. IsFiniteSet(u) /\ \A x \in u : g[x] \in Nat /\ h[x] \in Nat
        BY <2>2, <2>4, FS_Subset
  <2> HIDE DEF p, u
  <2>8. SumFunctionOnSet(g, u) \in Nat /\ SumFunctionOnSet(h, u) \in Nat
        BY <2>7, SumNat
  <2>9. g[p] \in Nat /\ h[p] \in Nat /\ f[p] = g[p] + h[p]
        BY <2>2, <2>4
  <2> QED
      BY <2>2, <2>5, <2>6, <2>8, <2>9
<1>3. S \in SUBSET S
      OBVIOUS
<1> QED
    BY <1>2, <1>3

\* A sum of which all terms but one are zero.
LEMMA SumOnly ==
    ASSUME NEW f, NEW S, IsFiniteSet(S), NEW x \in S, f[x] \in Nat, \A y \in S : y # x => f[y] = 0
    PROVE  SumFunctionOnSet(f, S) = f[x]
<1>1. \A y \in S : f[y] \in Nat
      OBVIOUS
<1>2. SumFunctionOnSet(f, S) = SumFunctionOnSet(f, {x})
      BY <1>1, SumSkip
<1>3. SumFunctionOnSet(f, {} \cup {x}) = f[x] + SumFunctionOnSet(f, {})
      BY FS_EmptySet, SumAdd
<1>4. {} \cup {x} = {x} /\ SumFunctionOnSet(f, {}) = 0
      BY SumEmpty
<1> QED
    BY <1>2, <1>3, <1>4
===============================================================================
