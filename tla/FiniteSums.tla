------------------------------- MODULE FiniteSums -------------------------------
(* The sum of integers over a finite set, as the community modules define it, and the
   laws of it that the proofs about reserved stock, ledgers and logged hours rest on.

   Induction over finite sets appears as its contrapositive: a nonempty family of
   subsets of a finite set has a minimal member (MinimalSubset), so that a proof looks
   at a minimal counterexample.                                                    *)
EXTENDS Integers, FiniteSets, Functions, FiniteSetTheorems, WellFoundedInduction, TLAPS

(* g is the function by which that operator computes the sums over the subsets of S. *)
IsSum(g, f, S) ==
    g = [s \in SUBSET S |-> IF s = {} THEN 0
                            ELSE f[CHOOSE x \in s : TRUE] + g[s \ {CHOOSE x \in s : TRUE}]]

(* The member a sum takes first. *)
First(s) == CHOOSE x \in s : TRUE

-----------------------------------------------------------------------------
(* Minimal members *)

(* A nonempty set of natural numbers has a least element. *)
LEMMA LeastNumber ==
    ASSUME NEW T, T \subseteq Nat, T # {}
    PROVE  \E n \in T : \A m \in T : n <= m
<1> DEFINE R == OpToRel(<, Nat)
<1>1. IsWellFoundedOn(R, Nat)
  BY NatLessThanWellFounded
<1>2. \A x, y \in Nat : x < y => <<x, y>> \in R
  BY Zenon DEF OpToRel
<1> HIDE DEF R
<1>3. PICK x \in T : \A y \in T : ~ (<<y, x>> \in R)
  BY <1>1, WFMin
<1>4. \A y \in T : ~(y < x)
  BY <1>2, <1>3
<1>5. \A y \in T : x <= y
  BY <1>4
<1> QED BY <1>5

(* A nonempty family of subsets of a finite set has a member that contains no other. *)
LEMMA MinimalSubset ==
    ASSUME NEW S, IsFiniteSet(S), NEW B, B \subseteq SUBSET S, B # {}
    PROVE  \E t \in B : \A r \in B : r \subseteq t => r = t
<1> DEFINE Sizes == {n \in Nat : \E t \in B : Cardinality(t) = n}
<1>1. ASSUME NEW t \in B
      PROVE  IsFiniteSet(t) /\ Cardinality(t) \in Sizes
  BY FS_Subset, FS_CardinalityType
<1>2. PICK n \in Sizes : \A m \in Sizes : n <= m
  <2>1. Sizes \subseteq Nat /\ Sizes # {}
    BY <1>1
  <2> HIDE DEF Sizes
  <2> QED BY <2>1, LeastNumber
<1>3. PICK t \in B : Cardinality(t) = n
  OBVIOUS
<1>4. ASSUME NEW r \in B, r \subseteq t, r # t
      PROVE  FALSE
  <2>1. /\ Cardinality(r) <= Cardinality(t)
        /\ Cardinality(t) = Cardinality(r) => t = r
    BY <1>1, <1>4, FS_Subset
  <2>2. Cardinality(r) \in Nat /\ n \in Nat
    BY <1>1
  <2>3. Cardinality(r) \in Sizes
    BY <1>1
  <2> HIDE DEF Sizes
  <2>4. n <= Cardinality(r)
    BY <1>2, <2>3
  <2> QED BY <1>3, <1>4, <2>1, <2>2, <2>4
<1> QED BY <1>4

-----------------------------------------------------------------------------
(* The recursion *)

(* The library's sum, with its folds expanded. *)
LEMMA SumUnfold ==
    ASSUME NEW f, NEW S
    PROVE  SumFunctionOnSet(f, S) = (CHOOSE g : IsSum(g, f, S))[S]
BY Zenon DEF SumFunctionOnSet, FoldFunctionOnSet, MapThenFoldSet, IsSum

(* The value a summing function has at a set. *)
LEMMA SumAt ==
    ASSUME NEW f, NEW g, NEW S, IsSum(g, f, S), NEW s, s \subseteq S
    PROVE  g[s] = IF s = {} THEN 0 ELSE f[First(s)] + g[s \ {First(s)}]
BY Zenon DEF IsSum, First

(* A nonempty set has a first member. *)
LEMMA FirstIn ==
    ASSUME NEW s, s # {}
    PROVE  First(s) \in s
BY DEF First

(* Two summing functions agree wherever both are defined. *)
LEMMA SumsAgree ==
    ASSUME NEW f, NEW g, NEW h, NEW S, NEW T, IsSum(g, f, S), IsSum(h, f, T),
           NEW s, IsFiniteSet(s), s \subseteq S, s \subseteq T
    PROVE  g[s] = h[s]
<1> DEFINE B == {t \in SUBSET s : g[t] # h[t]}
<1>1. SUFFICES ASSUME B # {} PROVE FALSE
  OBVIOUS
<1>2. PICK t \in B : \A r \in B : r \subseteq t => r = t
  <2>1. B \subseteq SUBSET s
    OBVIOUS
  <2> HIDE DEF B
  <2> QED BY <1>1, <2>1, MinimalSubset
<1>3. t \subseteq S /\ t \subseteq T
  OBVIOUS
<1>4. t # {}
  BY <1>3, SumAt
<1>5. /\ g[t] = f[First(t)] + g[t \ {First(t)}]
      /\ h[t] = f[First(t)] + h[t \ {First(t)}]
  BY <1>3, <1>4, SumAt
<1>6. g[t \ {First(t)}] = h[t \ {First(t)}]
  BY <1>2, <1>4, FirstIn
<1> QED BY <1>5, <1>6

(* Every finite set has a summing function. *)
LEMMA SumExists ==
    ASSUME NEW f, NEW S, IsFiniteSet(S)
    PROVE  \E g : IsSum(g, f, S)
<1> DEFINE B == {t \in SUBSET S : ~ \E g : IsSum(g, f, t)}
<1>1. SUFFICES ASSUME B # {} PROVE FALSE
  OBVIOUS
<1>2. PICK t \in B : \A r \in B : r \subseteq t => r = t
  <2>1. B \subseteq SUBSET S
    OBVIOUS
  <2> HIDE DEF B
  <2> QED BY <1>1, <2>1, MinimalSubset
<1> DEFINE Of(s) == CHOOSE g : IsSum(g, f, s)
           G == [s \in SUBSET t |-> IF s = {} THEN 0
                                    ELSE f[First(s)] + Of(s \ {First(s)})[s \ {First(s)}]]
<1>3. ASSUME NEW r, r \subseteq t, r # t
      PROVE  IsSum(Of(r), f, r)
  BY <1>2, <1>3
(* The values G uses are its own. *)
<1>4. ASSUME NEW r, r \subseteq t, r # t
      PROVE  G[r] = Of(r)[r]
  <2>1. PICK h : h = Of(r)
    OBVIOUS
  <2>2. IsSum(h, f, r)
    BY <1>3, <1>4, <2>1
  <2>3. CASE r = {}
    BY <1>4, <2>1, <2>2, <2>3, SumAt
  <2>4. CASE r # {}
    <3> DEFINE q == r \ {First(r)}
    <3>1. IsFiniteSet(q) /\ q \subseteq r /\ q \subseteq t /\ q # t
      BY <1>4, <2>4, FirstIn, FS_Subset
    <3>2. IsSum(Of(q), f, q)
      BY <1>3, <3>1
    <3>3. G[r] = f[First(r)] + Of(q)[q]
      BY <1>4, <2>4
    <3>4. h[r] = f[First(r)] + h[q]
      BY <2>2, <2>4, SumAt
    <3> HIDE DEF Of, G, q
    <3>5. Of(q)[q] = h[q]
      BY <2>2, <3>1, <3>2, SumsAgree
    <3> QED BY <2>1, <3>3, <3>4, <3>5
  <2> QED BY <2>3, <2>4
<1>5. IsSum(G, f, t)
  <2> DEFINE Old(s) == IF s = {} THEN 0
                       ELSE f[First(s)] + Of(s \ {First(s)})[s \ {First(s)}]
             New(s) == IF s = {} THEN 0 ELSE f[First(s)] + G[s \ {First(s)}]
  <2>1. ASSUME NEW s \in SUBSET t PROVE Old(s) = New(s)
    <3>1. CASE s # {}
      <4>1. s \ {First(s)} \subseteq t /\ s \ {First(s)} # t
        BY <3>1, FirstIn
      <4>2. G[s \ {First(s)}] = Of(s \ {First(s)})[s \ {First(s)}]
        BY <1>4, <4>1
      <4> HIDE DEF G, Of
      <4> QED BY <3>1, <4>2
    <3> QED BY <3>1
  <2>2. G = [s \in SUBSET t |-> Old(s)]
    OBVIOUS
  <2> HIDE DEF Old, New
  <2>3. G = [s \in SUBSET t |-> New(s)]
    <3> HIDE DEF G
    <3> QED BY <2>1, <2>2
  <2>4. G = [s \in SUBSET t |-> IF s = {} THEN 0 ELSE f[First(s)] + G[s \ {First(s)}]]
    BY <2>3, Zenon DEF New
  <2> HIDE DEF G
  <2> QED BY <2>4, Zenon DEF IsSum, First
<1> QED BY <1>5

(* A sum agrees with any summing function of a set it is part of. *)
LEMMA SumIs ==
    ASSUME NEW f, NEW g, NEW S, IsFiniteSet(S), IsSum(g, f, S), NEW s, s \subseteq S
    PROVE  SumFunctionOnSet(f, s) = g[s]
<1>1. IsFiniteSet(s)
  BY FS_Subset
<1>2. \E h : IsSum(h, f, s)
  BY <1>1, SumExists
<1>3. IsSum(CHOOSE h : IsSum(h, f, s), f, s)
  BY <1>2
<1>4. PICK h : h = (CHOOSE k : IsSum(k, f, s))
  OBVIOUS
<1>5. IsSum(h, f, s)
  BY <1>3, <1>4
<1>6. h[s] = g[s]
  BY <1>1, <1>5, SumsAgree
<1>7. SumFunctionOnSet(f, s) = h[s]
  BY <1>4, SumUnfold
<1> QED BY <1>6, <1>7

-----------------------------------------------------------------------------
(* The laws *)

(* Nothing adds up to zero. *)
LEMMA SumEmpty ==
    ASSUME NEW f
    PROVE  SumFunctionOnSet(f, {}) = 0
<1>1. IsFiniteSet({})
  BY FS_EmptySet
<1>2. PICK g : IsSum(g, f, {})
  BY <1>1, SumExists
<1>3. SumFunctionOnSet(f, {}) = g[{}]
  BY <1>1, <1>2, SumIs
<1>4. g[{}] = 0
  BY <1>2, SumAt
<1> QED BY <1>3, <1>4

(* A sum is its first term and the sum of the others. *)
LEMMA SumFirst ==
    ASSUME NEW f, NEW S, IsFiniteSet(S), S # {}
    PROVE  SumFunctionOnSet(f, S) = f[First(S)] + SumFunctionOnSet(f, S \ {First(S)})
<1>1. PICK g : IsSum(g, f, S)
  BY SumExists
<1>2. g[S] = f[First(S)] + g[S \ {First(S)}]
  BY <1>1, SumAt
<1>3. SumFunctionOnSet(f, S) = g[S]
  BY <1>1, SumIs
<1>4. SumFunctionOnSet(f, S \ {First(S)}) = g[S \ {First(S)}]
  BY <1>1, SumIs
<1> QED BY <1>2, <1>3, <1>4

(* Integers add up to an integer. *)
LEMMA SumType ==
    ASSUME NEW f, NEW S, IsFiniteSet(S), \A x \in S : f[x] \in Int
    PROVE  SumFunctionOnSet(f, S) \in Int
<1> DEFINE B == {t \in SUBSET S : SumFunctionOnSet(f, t) \notin Int}
<1>1. SUFFICES ASSUME B # {} PROVE FALSE
  OBVIOUS
<1>2. PICK t \in B : \A r \in B : r \subseteq t => r = t
  <2>1. B \subseteq SUBSET S
    OBVIOUS
  <2> HIDE DEF B
  <2> QED BY <1>1, <2>1, MinimalSubset
<1>3. t \subseteq S /\ IsFiniteSet(t) /\ SumFunctionOnSet(f, t) \notin Int
  BY FS_Subset
<1>4. t # {}
  BY <1>3, SumEmpty
<1>5. First(t) \in t /\ f[First(t)] \in Int
  BY <1>3, <1>4, FirstIn
<1>6. SumFunctionOnSet(f, t \ {First(t)}) \in Int
  BY <1>2, <1>3, <1>5
<1>7. SumFunctionOnSet(f, t) = f[First(t)] + SumFunctionOnSet(f, t \ {First(t)})
  BY <1>3, <1>4, SumFirst
<1> QED BY <1>3, <1>5, <1>6, <1>7

(* Functions that agree on a set have the same sum over it. *)
LEMMA SumSame ==
    ASSUME NEW f, NEW g, NEW S, IsFiniteSet(S), \A x \in S : f[x] = g[x]
    PROVE  SumFunctionOnSet(f, S) = SumFunctionOnSet(g, S)
<1> DEFINE B == {t \in SUBSET S : SumFunctionOnSet(f, t) # SumFunctionOnSet(g, t)}
<1>1. SUFFICES ASSUME B # {} PROVE FALSE
  OBVIOUS
<1>2. PICK t \in B : \A r \in B : r \subseteq t => r = t
  <2>1. B \subseteq SUBSET S
    OBVIOUS
  <2> HIDE DEF B
  <2> QED BY <1>1, <2>1, MinimalSubset
<1>3. t \subseteq S /\ IsFiniteSet(t) /\ SumFunctionOnSet(f, t) # SumFunctionOnSet(g, t)
  BY FS_Subset
<1>4. t # {}
  BY <1>3, SumEmpty
<1>5. First(t) \in t /\ f[First(t)] = g[First(t)]
  BY <1>3, <1>4, FirstIn
<1>6. SumFunctionOnSet(f, t \ {First(t)}) = SumFunctionOnSet(g, t \ {First(t)})
  BY <1>2, <1>3, <1>5
<1>7. /\ SumFunctionOnSet(f, t) = f[First(t)] + SumFunctionOnSet(f, t \ {First(t)})
      /\ SumFunctionOnSet(g, t) = g[First(t)] + SumFunctionOnSet(g, t \ {First(t)})
  BY <1>3, <1>4, SumFirst
<1> QED BY <1>3, <1>5, <1>6, <1>7

(* Any term may be taken out of a sum. *)
LEMMA SumRemove ==
    ASSUME NEW f, NEW S, IsFiniteSet(S), \A x \in S : f[x] \in Int, NEW a \in S
    PROVE  SumFunctionOnSet(f, S) = f[a] + SumFunctionOnSet(f, S \ {a})
<1> DEFINE Splits(t) == \A x \in t : SumFunctionOnSet(f, t) = f[x] + SumFunctionOnSet(f, t \ {x})
           B == {t \in SUBSET S : ~ Splits(t)}
<1>1. SUFFICES ASSUME B # {} PROVE FALSE
  <2>1. S \notin B => Splits(S)
    OBVIOUS
  <2> QED BY <2>1
<1>2. PICK t \in B : \A r \in B : r \subseteq t => r = t
  <2>1. B \subseteq SUBSET S
    OBVIOUS
  <2> HIDE DEF B
  <2> QED BY <1>1, <2>1, MinimalSubset
<1>3. /\ t \subseteq S /\ IsFiniteSet(t)
      /\ \E x \in t : SumFunctionOnSet(f, t) # f[x] + SumFunctionOnSet(f, t \ {x})
  BY FS_Subset
<1>4. PICK b \in t : SumFunctionOnSet(f, t) # f[b] + SumFunctionOnSet(f, t \ {b})
  BY <1>3
<1> DEFINE c == First(t)
           w == (t \ {b}) \ {c}
<1>5. c \in t /\ SumFunctionOnSet(f, t) = f[c] + SumFunctionOnSet(f, t \ {c})
  BY <1>3, SumFirst, FirstIn
<1> HIDE DEF c
<1>6. c # b
  BY <1>4, <1>5
<1>7. Splits(t \ {b}) /\ Splits(t \ {c})
  <2>1. t \ {b} \notin B /\ t \ {c} \notin B
    <3> HIDE DEF B
    <3> QED BY <1>2, <1>4, <1>5
  <2>2. t \ {b} \subseteq S /\ t \ {c} \subseteq S
    BY <1>3
  <2> HIDE DEF Splits
  <2> QED BY <2>1, <2>2
<1>8. SumFunctionOnSet(f, t \ {b}) = f[c] + SumFunctionOnSet(f, w)
  BY <1>5, <1>6, <1>7
<1>9. SumFunctionOnSet(f, t \ {c}) = f[b] + SumFunctionOnSet(f, w)
  <2>1. w = (t \ {c}) \ {b}
    OBVIOUS
  <2>2. b \in t \ {c}
    BY <1>4, <1>6
  <2> HIDE DEF w
  <2> QED BY <1>7, <2>1, <2>2
<1>10. f[b] \in Int /\ f[c] \in Int /\ SumFunctionOnSet(f, w) \in Int
  <2>1. w \subseteq S /\ IsFiniteSet(w)
    BY <1>3, FS_Subset
  <2>2. f[b] \in Int /\ f[c] \in Int
    BY <1>3, <1>4, <1>5
  <2> HIDE DEF w
  <2>3. SumFunctionOnSet(f, w) \in Int
    BY <2>1, SumType
  <2> QED BY <2>2, <2>3
<1> HIDE DEF B, Splits, w
<1> QED BY <1>4, <1>5, <1>8, <1>9, <1>10

(* The sum of f when one term changes by d. *)
LEMMA SumChange ==
    ASSUME NEW f, NEW g, NEW S, IsFiniteSet(S), \A x \in S : f[x] \in Int, NEW a \in S,
           \A x \in S \ {a} : g[x] = f[x], g[a] \in Int
    PROVE  SumFunctionOnSet(g, S) = SumFunctionOnSet(f, S) + g[a] - f[a]
<1>1. \A x \in S : g[x] \in Int
  OBVIOUS
<1>2. IsFiniteSet(S \ {a})
  BY FS_Subset
<1>3. /\ SumFunctionOnSet(f, S) = f[a] + SumFunctionOnSet(f, S \ {a})
      /\ SumFunctionOnSet(g, S) = g[a] + SumFunctionOnSet(g, S \ {a})
  BY <1>1, SumRemove
<1>4. SumFunctionOnSet(g, S \ {a}) = SumFunctionOnSet(f, S \ {a})
  BY <1>2, SumSame
<1>5. SumFunctionOnSet(f, S \ {a}) \in Int
  BY <1>2, SumType
<1> QED BY <1>3, <1>4, <1>5

(* Zeros add up to zero. *)
LEMMA SumZeros ==
    ASSUME NEW f, NEW S, IsFiniteSet(S), \A x \in S : f[x] = 0
    PROVE  SumFunctionOnSet(f, S) = 0
<1> DEFINE B == {t \in SUBSET S : SumFunctionOnSet(f, t) # 0}
<1>1. SUFFICES ASSUME B # {} PROVE FALSE
  OBVIOUS
<1>2. PICK t \in B : \A r \in B : r \subseteq t => r = t
  <2>1. B \subseteq SUBSET S
    OBVIOUS
  <2> HIDE DEF B
  <2> QED BY <1>1, <2>1, MinimalSubset
<1>3. t \subseteq S /\ IsFiniteSet(t) /\ SumFunctionOnSet(f, t) # 0
  BY FS_Subset
<1>4. t # {}
  BY <1>3, SumEmpty
<1>5. First(t) \in t /\ f[First(t)] = 0
  BY <1>3, <1>4, FirstIn
<1>6. SumFunctionOnSet(f, t \ {First(t)}) = 0
  BY <1>2, <1>3, <1>5
<1>7. SumFunctionOnSet(f, t) = f[First(t)] + SumFunctionOnSet(f, t \ {First(t)})
  BY <1>3, <1>4, SumFirst
<1> QED BY <1>3, <1>5, <1>6, <1>7

(* Natural numbers add up to a natural number. *)
LEMMA SumNat ==
    ASSUME NEW f, NEW S, IsFiniteSet(S), \A x \in S : f[x] \in Nat
    PROVE  SumFunctionOnSet(f, S) \in Nat
<1> DEFINE B == {t \in SUBSET S : SumFunctionOnSet(f, t) \notin Nat}
<1>1. SUFFICES ASSUME B # {} PROVE FALSE
  OBVIOUS
<1>2. PICK t \in B : \A r \in B : r \subseteq t => r = t
  <2>1. B \subseteq SUBSET S
    OBVIOUS
  <2> HIDE DEF B
  <2> QED BY <1>1, <2>1, MinimalSubset
<1>3. t \subseteq S /\ IsFiniteSet(t) /\ SumFunctionOnSet(f, t) \notin Nat
  BY FS_Subset
<1>4. t # {}
  BY <1>3, SumEmpty
<1>5. First(t) \in t /\ f[First(t)] \in Nat
  BY <1>3, <1>4, FirstIn
<1>6. SumFunctionOnSet(f, t \ {First(t)}) \in Nat
  BY <1>2, <1>3, <1>5
<1>7. SumFunctionOnSet(f, t) = f[First(t)] + SumFunctionOnSet(f, t \ {First(t)})
  BY <1>3, <1>4, SumFirst
<1> QED BY <1>3, <1>5, <1>6, <1>7

(* A natural number is at most any sum of natural numbers it is part of. *)
LEMMA SumBounds ==
    ASSUME NEW f, NEW S, IsFiniteSet(S), \A x \in S : f[x] \in Nat, NEW a \in S
    PROVE  f[a] <= SumFunctionOnSet(f, S)
<1>1. SumFunctionOnSet(f, S) = f[a] + SumFunctionOnSet(f, S \ {a})
  BY SumRemove
<1>2. IsFiniteSet(S \ {a})
  BY FS_Subset
<1>3. SumFunctionOnSet(f, S \ {a}) \in Nat
  BY <1>2, SumNat
<1> QED BY <1>1, <1>3

(* Members whose terms are zero may be left out of a sum. *)
LEMMA SumSupport ==
    ASSUME NEW f, NEW S, NEW T, IsFiniteSet(T), S \subseteq T,
           \A x \in T : f[x] \in Int, \A x \in T \ S : f[x] = 0
    PROVE  SumFunctionOnSet(f, T) = SumFunctionOnSet(f, S)
<1> DEFINE B == {t \in SUBSET (T \ S) : SumFunctionOnSet(f, S \cup t) # SumFunctionOnSet(f, S)}
<1>1. SUFFICES ASSUME B # {} PROVE FALSE
  <2>1. T = S \cup (T \ S)
    OBVIOUS
  <2>2. T \ S \notin B
    BY <1>1
  <2> QED BY <2>1, <2>2
<1>2. PICK t \in B : \A r \in B : r \subseteq t => r = t
  <2>1. B \subseteq SUBSET (T \ S) /\ IsFiniteSet(T \ S)
    BY FS_Subset
  <2> HIDE DEF B
  <2> QED BY <1>1, <2>1, MinimalSubset
<1>3. t \subseteq T \ S /\ SumFunctionOnSet(f, S \cup t) # SumFunctionOnSet(f, S)
  OBVIOUS
<1>4. PICK a \in t : TRUE
  <2>1. t = {} => S \cup t = S
    OBVIOUS
  <2> QED BY <1>3, <2>1
<1>5. SumFunctionOnSet(f, S \cup (t \ {a})) = SumFunctionOnSet(f, S)
  <2>1. t \ {a} \notin B
    <3>1. t \ {a} \subseteq t /\ t \ {a} # t
      BY <1>4
    <3> HIDE DEF B
    <3> QED BY <1>2, <3>1
  <2>2. t \ {a} \in SUBSET (T \ S)
    BY <1>3
  <2> QED BY <2>1, <2>2
<1>6. S \cup (t \ {a}) = (S \cup t) \ {a}
  BY <1>3, <1>4
<1>7. SumFunctionOnSet(f, S \cup t) = f[a] + SumFunctionOnSet(f, (S \cup t) \ {a})
  <2>1. IsFiniteSet(S \cup t) /\ a \in S \cup t /\ \A x \in S \cup t : f[x] \in Int
    BY <1>3, FS_Subset
  <2> QED BY <2>1, SumRemove
<1>8. f[a] = 0
  BY <1>3
<1>9. SumFunctionOnSet(f, S) \in Int
  <2>1. IsFiniteSet(S) /\ \A x \in S : f[x] \in Int
    BY FS_Subset
  <2> QED BY <2>1, SumType
<1>10. SumFunctionOnSet(f, S \cup t) = 0 + SumFunctionOnSet(f, S)
  BY <1>5, <1>6, <1>7, <1>8
<1> HIDE DEF B
<1> QED BY <1>3, <1>9, <1>10

(* The sum of a function h is that of its extension by zeros over any finite set. *)
LEMMA SumExtended ==
    ASSUME NEW h, NEW g, NEW T, IsFiniteSet(T), DOMAIN h \subseteq T,
           \A x \in T : g[x] = IF x \in DOMAIN h THEN h[x] ELSE 0,
           \A x \in T : g[x] \in Int
    PROVE  SumFunction(h) = SumFunctionOnSet(g, T)
<1>1. SumFunctionOnSet(g, T) = SumFunctionOnSet(g, DOMAIN h)
  <2>1. \A x \in T \ DOMAIN h : g[x] = 0
    OBVIOUS
  <2> QED BY <2>1, SumSupport
<1>2. IsFiniteSet(DOMAIN h)
  BY FS_Subset
<1>3. \A x \in DOMAIN h : h[x] = g[x]
  OBVIOUS
<1>4. SumFunctionOnSet(h, DOMAIN h) = SumFunctionOnSet(g, DOMAIN h)
  BY <1>2, <1>3, SumSame
<1> QED BY <1>1, <1>4 DEF SumFunction
=============================================================================
