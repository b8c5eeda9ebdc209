------------------------- MODULE PartialMapsProofs -------------------------
(***************************************************************************)
(* Facts about maps, and about the sums of a map's values that the totals  *)
(* of the agents are, which the proofs of the other modules cite.          *)
(*                                                                         *)
(* SumFunctionOnSet is defined by recursion over finite sets.  Its facts   *)
(* are shown by taking, among the subsets where one fails, a smallest one  *)
(* (MinimalSubset), and reaching a contradiction from it.                  *)
(***************************************************************************)
EXTENDS BpfHash, Functions, FiniteSetTheorems, TLAPS

(* Storing a value under a key keeps a map a map.                          *)
LEMMA PutIsMap ==
    ASSUME NEW K, NEW V, NEW m, IsMap(m, K, V), NEW k \in K, NEW v \in V
    PROVE  IsMap(Put(m, k, v), K, V)
BY DEF IsMap, Put

(* What a map holds after a store.                                         *)
LEMMA PutFacts ==
    ASSUME NEW m, NEW k, NEW v
    PROVE  /\ DOMAIN Put(m, k, v) = DOMAIN m \cup {k}
           /\ Put(m, k, v)[k] = v
           /\ \A x \in DOMAIN m \ {k} : Put(m, k, v)[x] = m[x]
BY DEF Put

(* The empty map.                                                         *)
LEMMA NoKeysIsMap ==
    ASSUME NEW K, NEW V
    PROVE  IsMap(NoKeys, K, V) /\ DOMAIN NoKeys = {}
BY DEF IsMap, NoKeys

-----------------------------------------------------------------------------
(* Sums of the values of a map *)

(* The recursion that a sum over the sets s is computed by.                *)
SumStep(f, g, s) ==
    IF s = {} THEN 0 ELSE f[CHOOSE x \in s : TRUE] + g[s \ {CHOOSE x \in s : TRUE}]
IsSum(f, S, g) == g = [s \in SUBSET S |-> SumStep(f, g, s)]

(* The library's sum is the function that this recursion defines.          *)
LEMMA SumUnfolds ==
    ASSUME NEW f, NEW S
    PROVE  SumFunctionOnSet(f, S) = (CHOOSE g : IsSum(f, S, g))[S]
BY DEF SumFunctionOnSet, FoldFunctionOnSet, MapThenFoldSet, IsSum, SumStep

(* Of any subsets of a finite set there is one that contains no other.     *)
LEMMA MinimalSubset ==
    ASSUME NEW S, IsFiniteSet(S), NEW B, B \subseteq SUBSET S, B # {}
    PROVE  \E s \in B : \A t \in B : t \subseteq s => t = s
<1> DEFINE R == StrictSubsetOrdering(S)
           F == FiniteSubsetsOf(S)
<1>1. IsWellFoundedOn(R, F)
  BY FS_StrictSubsetOrderingWellFounded
<1>2. B \subseteq F
  BY FS_FiniteSubsetsOfFinite
<1>3. \A s, t \in B : t \subseteq s /\ t # s => <<t, s>> \in R
  BY DEF StrictSubsetOrdering
<1> HIDE DEF R, F
<1>4. \E s \in B : \A t \in B : ~(<<t, s>> \in R)
  BY <1>1, <1>2, WFMin
<1> QED BY <1>3, <1>4
(* The recursion has one solution at most on the subsets of a finite set.  *)
LEMMA SumUnique ==
    ASSUME NEW f, NEW S, IsFiniteSet(S), NEW g, IsSum(f, S, g), NEW h, IsSum(f, S, h)
    PROVE  g = h
<1> DEFINE B == {s \in SUBSET S : g[s] # h[s]}
<1>1. /\ g = [s \in SUBSET S |-> SumStep(f, g, s)]
      /\ h = [s \in SUBSET S |-> SumStep(f, h, s)]
  BY DEF IsSum
<1>2. SUFFICES ASSUME B # {} PROVE FALSE
  <2>1. \A s \in SUBSET S : g[s] = h[s]
    BY <1>2
  <2> QED BY <1>1, <2>1
<1>3. PICK s \in B : \A t \in B : t \subseteq s => t = s
  <2> HIDE DEF B
  <2>1. B \subseteq SUBSET S
    BY DEF B
  <2> QED BY <1>2, <2>1, MinimalSubset
<1>4. s \in SUBSET S /\ g[s] = SumStep(f, g, s) /\ h[s] = SumStep(f, h, s)
  BY <1>1
<1>5. s # {}
  BY <1>4 DEF SumStep
<1> DEFINE c == CHOOSE x \in s : TRUE
<1>6. c \in s /\ s \ {c} \in SUBSET S
  BY <1>4, <1>5
<1>7. s \ {c} \notin B
  BY <1>3, <1>6
<1>8. g[s \ {c}] = h[s \ {c}]
  BY <1>6, <1>7
<1>9. g[s] = h[s]
  BY <1>4, <1>5, <1>8 DEF SumStep
<1> QED BY <1>9

(* A solution on a set is one on each of its subsets.                      *)
LEMMA SumRestricts ==
    ASSUME NEW f, NEW S, NEW T \in SUBSET S, NEW g, IsSum(f, S, g)
    PROVE  IsSum(f, T, [s \in SUBSET T |-> g[s]])
<1> DEFINE h == [s \in SUBSET T |-> g[s]]
<1>1. ASSUME NEW s \in SUBSET T
      PROVE  h[s] = SumStep(f, h, s)
  <2>1. g[s] = SumStep(f, g, s)
    BY DEF IsSum
  <2>2. SumStep(f, g, s) = SumStep(f, h, s)
    BY DEF SumStep
  <2> QED BY <2>1, <2>2
<1> QED BY <1>1 DEF IsSum

(* The recursion has a solution on the subsets of a finite set.            *)
LEMMA SumExists ==
    ASSUME NEW f, NEW S, IsFiniteSet(S)
    PROVE  \E g : IsSum(f, S, g)
<1> DEFINE G(s) == CHOOSE g : IsSum(f, s, g)
           B == {s \in SUBSET S : ~ \E g : IsSum(f, s, g)}
<1>1. SUFFICES ASSUME B # {} PROVE FALSE
  BY <1>1
<1>2. PICK T \in B : \A t \in B : t \subseteq T => t = T
  <2> HIDE DEF B
  <2>1. B \subseteq SUBSET S
    BY DEF B
  <2> QED BY <1>1, <2>1, MinimalSubset
<1>3. \A s \in SUBSET T : s # T => IsSum(f, s, G(s))
  BY <1>2
<1> HIDE DEF G
<1> DEFINE h == [s \in SUBSET T |-> IF s = T THEN SumStep(f, [u \in SUBSET T |-> G(u)[u]], T)
                                            ELSE G(s)[s]]
<1>4. ASSUME NEW s \in SUBSET T, s # T
      PROVE  h[s] = SumStep(f, h, s)
  <2>1. CASE s = {}
    BY <1>3, <1>4, <2>1 DEF IsSum, SumStep
  <2>2. CASE s # {}
    <3> DEFINE c == CHOOSE x \in s : TRUE
               r == s \ {c}
    <3>1. c \in s /\ r \in SUBSET T /\ r # T /\ r \in SUBSET s /\ r # s
      BY <1>4, <2>2
    <3>2. G(s)[s] = f[c] + G(s)[r]
      BY <1>3, <1>4, <2>2 DEF IsSum, SumStep
    <3>3. IsSum(f, r, [u \in SUBSET r |-> G(s)[u]])
      <4>1. \A g : IsSum(f, s, g) => IsSum(f, r, [u \in SUBSET r |-> g[u]])
        <5> HIDE DEF r
        <5> QED BY <3>1, SumRestricts
      <4> QED BY <1>3, <1>4, <4>1
    <3>4. IsSum(f, r, G(r)) /\ IsFiniteSet(r)
      BY <1>2, <1>3, <3>1, FS_Subset
    <3>5. [u \in SUBSET r |-> G(s)[u]] = G(r)
      BY <3>3, <3>4, SumUnique
    <3>6. G(s)[r] = G(r)[r]
      BY <3>5
    <3>7. h[s] = f[c] + h[r]
      BY <1>4, <3>1, <3>2, <3>6
    <3> QED BY <2>2, <3>7 DEF SumStep
  <2> QED BY <2>1, <2>2
<1>5. h[T] = SumStep(f, h, T)
  <2>1. CASE T = {}
    BY <2>1 DEF SumStep
  <2>2. CASE T # {}
    <3> DEFINE c == CHOOSE x \in T : TRUE
    <3>1. c \in T /\ T \ {c} \in SUBSET T /\ T \ {c} # T
      BY <2>2
    <3>2. h[T \ {c}] = G(T \ {c})[T \ {c}]
      BY <3>1
    <3> QED BY <2>2, <3>1, <3>2 DEF SumStep
  <2> QED BY <2>1, <2>2
<1>6. IsSum(f, T, h)
  <2>1. \A s \in SUBSET T : h[s] = SumStep(f, h, s)
    BY <1>4, <1>5
  <2> QED BY <2>1 DEF IsSum
<1> QED BY <1>2, <1>6

(* Hence a sum is the sum without the chosen element, and that element.    *)
LEMMA SumRecursion ==
    ASSUME NEW f, NEW S, IsFiniteSet(S)
    PROVE  /\ SumFunctionOnSet(f, {}) = 0
           /\ S # {} => LET c == CHOOSE x \in S : TRUE
                        IN  SumFunctionOnSet(f, S) = f[c] + SumFunctionOnSet(f, S \ {c})
<1> DEFINE G(s) == CHOOSE g : IsSum(f, s, g)
<1>1. ASSUME NEW s \in SUBSET S
      PROVE  IsSum(f, s, G(s)) /\ SumFunctionOnSet(f, s) = G(s)[s]
  <2>1. IsFiniteSet(s)
    BY FS_Subset
  <2> QED BY <2>1, SumExists, SumUnfolds
<1> HIDE DEF G
<1>2. SumFunctionOnSet(f, {}) = 0
  BY <1>1 DEF IsSum, SumStep
<1>3. ASSUME S # {}, NEW c, c = CHOOSE x \in S : TRUE
      PROVE  SumFunctionOnSet(f, S) = f[c] + SumFunctionOnSet(f, S \ {c})
  <2>0. \A T \in SUBSET S : \A g :
           IsSum(f, S, g) => IsSum(f, T, [u \in SUBSET T |-> g[u]])
    BY SumRestricts
  <2> DEFINE r == S \ {c}
  <2>1. c \in S /\ r \in SUBSET S
    BY <1>3
  <2>2. G(S)[S] = f[c] + G(S)[r]
    BY <1>1, <1>3 DEF IsSum, SumStep
  <2>3. IsSum(f, r, [u \in SUBSET r |-> G(S)[u]])
    <3>1. \A g : IsSum(f, S, g) => IsSum(f, r, [u \in SUBSET r |-> g[u]])
      <4> HIDE DEF r
      <4> QED BY <2>0, <2>1
    <3> QED BY <1>1, <3>1
  <2>4. IsFiniteSet(r)
    BY <2>1, FS_Subset
  <2>5. [u \in SUBSET r |-> G(S)[u]] = G(r)
    BY <1>1, <2>1, <2>3, <2>4, SumUnique
  <2>6. G(S)[r] = G(r)[r]
    BY <2>5
  <2> QED BY <1>1, <2>1, <2>2, <2>6
<1> QED BY <1>2, <1>3

(* A sum of integers is one, and a sum of naturals is one.                 *)
LEMMA SumType ==
    ASSUME NEW S, IsFiniteSet(S), NEW f, \A x \in S : f[x] \in Int
    PROVE  /\ SumFunctionOnSet(f, S) \in Int
           /\ (\A x \in S : f[x] \in Nat) => SumFunctionOnSet(f, S) \in Nat
<1> DEFINE Good(s) == /\ SumFunctionOnSet(f, s) \in Int
                      /\ (\A x \in S : f[x] \in Nat) => SumFunctionOnSet(f, s) \in Nat
           B == {s \in SUBSET S : ~ Good(s)}
<1>1. SUFFICES ASSUME B # {} PROVE FALSE
  <2>1. S \in SUBSET S
    OBVIOUS
  <2> QED BY <1>1, <2>1
<1>2. PICK s \in B : \A t \in B : t \subseteq s => t = s
  <2> HIDE DEF B
  <2>1. B \subseteq SUBSET S
    BY DEF B
  <2> QED BY <1>1, <2>1, MinimalSubset
<1>3. IsFiniteSet(s)
  BY FS_Subset
<1>4. s # {}
  <2>1. SumFunctionOnSet(f, {}) = 0
    BY <1>3, SumRecursion
  <2>2. Good({})
    BY <2>1
  <2> QED BY <2>2
<1>5. PICK c \in s : SumFunctionOnSet(f, s) = f[c] + SumFunctionOnSet(f, s \ {c})
  <2>1. (CHOOSE x \in s : TRUE) \in s
    BY <1>4
  <2> QED BY <1>3, <1>4, <2>1, SumRecursion
<1>6. Good(s \ {c})
  BY <1>2
<1>7. c \in S /\ f[c] \in Int
  BY <1>5
<1>8. Good(s)
  BY <1>5, <1>6, <1>7
<1> QED BY <1>8

(* It does not matter which element is taken out first: a sum is the same  *)
(* in whatever order Go ranges over the map.                               *)
LEMMA SumRemoves ==
    ASSUME NEW S, IsFiniteSet(S), NEW f, \A x \in S : f[x] \in Int, NEW z \in S
    PROVE  SumFunctionOnSet(f, S) = f[z] + SumFunctionOnSet(f, S \ {z})
<1> DEFINE Sum(s) == SumFunctionOnSet(f, s)
           Good(s) == \A y \in s : Sum(s) = f[y] + Sum(s \ {y})
           B == {s \in SUBSET S : ~ Good(s)}
<1>1. SUFFICES ASSUME B # {} PROVE FALSE
  <2>1. S \in SUBSET S
    OBVIOUS
  <2> QED BY <1>1, <2>1
<1>2. PICK s \in B : \A t \in B : t \subseteq s => t = s
  <2> HIDE DEF B
  <2>1. B \subseteq SUBSET S
    BY DEF B
  <2> QED BY <1>1, <2>1, MinimalSubset
<1>3. \A t \in SUBSET S : IsFiniteSet(t) /\ Sum(t) \in Int
  <2>1. ASSUME NEW t \in SUBSET S PROVE IsFiniteSet(t)
    BY FS_Subset
  <2> QED BY <2>1, SumType
<1>4. PICK y \in s : Sum(s) # f[y] + Sum(s \ {y})
  OBVIOUS
<1>5. PICK c \in s : Sum(s) = f[c] + Sum(s \ {c})
  <2>1. (CHOOSE x \in s : TRUE) \in s
    BY <1>4
  <2> QED BY <1>3, <2>1, SumRecursion
<1>6. c # y
  BY <1>4, <1>5
<1>7. \A x \in s : Good(s \ {x})
  BY <1>2
<1> DEFINE d == (s \ {c}) \ {y}
<1>8. Sum(s \ {c}) = f[y] + Sum(d)
  BY <1>6, <1>7
<1>9. Sum(s \ {y}) = f[c] + Sum(d)
  <2>1. d = (s \ {y}) \ {c}
    OBVIOUS
  <2> QED BY <1>6, <1>7, <2>1
<1>10. f[y] \in Int /\ f[c] \in Int /\ Sum(d) \in Int
  BY <1>3
<1> HIDE DEF d, Sum
<1>11. Sum(s) = f[c] + (f[y] + Sum(d)) /\ Sum(s) # f[y] + (f[c] + Sum(d))
  BY <1>4, <1>5, <1>8, <1>9
<1> QED BY <1>10, <1>11

(* A sum depends only on the values in the set.                            *)
LEMMA SumEqual ==
    ASSUME NEW S, IsFiniteSet(S), NEW f, NEW g, \A x \in S : f[x] = g[x]
    PROVE  SumFunctionOnSet(f, S) = SumFunctionOnSet(g, S)
<1> DEFINE Good(s) == SumFunctionOnSet(f, s) = SumFunctionOnSet(g, s)
           B == {s \in SUBSET S : ~ Good(s)}
<1>1. SUFFICES ASSUME B # {} PROVE FALSE
  <2>1. S \in SUBSET S
    OBVIOUS
  <2> QED BY <1>1, <2>1
<1>2. PICK s \in B : \A t \in B : t \subseteq s => t = s
  <2> HIDE DEF B
  <2>1. B \subseteq SUBSET S
    BY DEF B
  <2> QED BY <1>1, <2>1, MinimalSubset
<1>3. IsFiniteSet(s)
  BY FS_Subset
<1>4. s # {}
  BY <1>3, SumRecursion
<1> DEFINE c == CHOOSE x \in s : TRUE
<1>5. /\ SumFunctionOnSet(f, s) = f[c] + SumFunctionOnSet(f, s \ {c})
      /\ SumFunctionOnSet(g, s) = g[c] + SumFunctionOnSet(g, s \ {c})
  BY <1>3, <1>4, SumRecursion
<1>6. c \in s /\ f[c] = g[c]
  BY <1>4
<1>7. Good(s \ {c})
  BY <1>2, <1>6
<1> QED BY <1>5, <1>6, <1>7

(* The sum over two sets apart is the sum of their sums.                   *)
LEMMA SumUnion ==
    ASSUME NEW S, IsFiniteSet(S), NEW T, IsFiniteSet(T), S \cap T = {},
           NEW f, \A x \in S \cup T : f[x] \in Int
    PROVE  SumFunctionOnSet(f, S \cup T) = SumFunctionOnSet(f, S) + SumFunctionOnSet(f, T)
<1> DEFINE Sum(s) == SumFunctionOnSet(f, s)
           Good(s) == Sum(s \cup T) = Sum(s) + Sum(T)
           B == {s \in SUBSET S : ~ Good(s)}
<1>1. SUFFICES ASSUME B # {} PROVE FALSE
  <2>1. S \in SUBSET S
    OBVIOUS
  <2> QED BY <1>1, <2>1
<1>2. PICK s \in B : \A t \in B : t \subseteq s => t = s
  <2> HIDE DEF B
  <2>1. B \subseteq SUBSET S
    BY DEF B
  <2> QED BY <1>1, <2>1, MinimalSubset
<1>3. \A t \in SUBSET S : IsFiniteSet(t) /\ IsFiniteSet(t \cup T) /\ Sum(t) \in Int
  <2>1. ASSUME NEW t \in SUBSET S PROVE IsFiniteSet(t)
    BY FS_Subset
  <2> QED BY <2>1, SumType, FS_Union
<1>4. Sum(T) \in Int
  BY SumType
<1>5. s # {}
  <2>1. Sum({}) = 0 /\ {} \cup T = T
    BY SumRecursion
  <2>2. Good({})
    <3> HIDE DEF Sum
    <3> QED BY <1>4, <2>1
  <2> QED BY <2>2
<1>6. PICK c \in s : TRUE
  BY <1>5
<1>7. Sum(s) = f[c] + Sum(s \ {c})
  BY <1>3, SumRemoves
<1>8. Sum(s \cup T) = f[c] + Sum((s \ {c}) \cup T)
  <2>1. (s \cup T) \ {c} = (s \ {c}) \cup T
    OBVIOUS
  <2>2. c \in s \cup T /\ \A x \in s \cup T : f[x] \in Int
    OBVIOUS
  <2>3. Sum(s \cup T) = f[c] + Sum((s \cup T) \ {c})
    <3> HIDE DEF B
    <3>1. s \in SUBSET S
      BY DEF B
    <3> QED BY <1>3, <2>2, <3>1, SumRemoves
  <2> QED BY <2>1, <2>3
<1>9. Good(s \ {c})
  BY <1>2
<1>10. f[c] \in Int /\ Sum(s \ {c}) \in Int
  BY <1>3
<1> HIDE DEF Sum
<1>11. Good(s)
  BY <1>4, <1>7, <1>8, <1>9, <1>10
<1> QED BY <1>11

(* A part of a sum of naturals is no more than all of it.                  *)
LEMMA SumPart ==
    ASSUME NEW S, IsFiniteSet(S), NEW T \in SUBSET S, NEW f, \A x \in S : f[x] \in Nat
    PROVE  SumFunctionOnSet(f, T) <= SumFunctionOnSet(f, S)
<1> DEFINE U == S \ T
<1>1. IsFiniteSet(T) /\ IsFiniteSet(U)
  BY FS_Subset
<1>2. /\ T \cup U = S /\ T \cap U = {}
      /\ \A x \in T \cup U : f[x] \in Nat
  OBVIOUS
<1> HIDE DEF U
<1>3. SumFunctionOnSet(f, T) \in Nat /\ SumFunctionOnSet(f, U) \in Nat
  BY <1>1, <1>2, SumType
<1>4. SumFunctionOnSet(f, T \cup U) = SumFunctionOnSet(f, T) + SumFunctionOnSet(f, U)
  BY <1>1, <1>2, SumUnion
<1>5. SumFunctionOnSet(f, S) = SumFunctionOnSet(f, T) + SumFunctionOnSet(f, U)
  BY <1>2, <1>4
<1> QED BY <1>3, <1>5

(* The sum of sums of two values is the sum of both sums.                  *)
LEMMA SumPlus ==
    ASSUME NEW S, IsFiniteSet(S), NEW f, NEW g, NEW h,
           \A x \in S : f[x] \in Int /\ g[x] \in Int /\ h[x] = f[x] + g[x]
    PROVE  SumFunctionOnSet(h, S) = SumFunctionOnSet(f, S) + SumFunctionOnSet(g, S)
<1> DEFINE Good(s) == SumFunctionOnSet(h, s) = SumFunctionOnSet(f, s) + SumFunctionOnSet(g, s)
           B == {s \in SUBSET S : ~ Good(s)}
<1>1. SUFFICES ASSUME B # {} PROVE FALSE
  <2>1. S \in SUBSET S
    OBVIOUS
  <2> QED BY <1>1, <2>1
<1>2. PICK s \in B : \A t \in B : t \subseteq s => t = s
  <2> HIDE DEF B
  <2>1. B \subseteq SUBSET S
    BY DEF B
  <2> QED BY <1>1, <2>1, MinimalSubset
<1>3. IsFiniteSet(s)
  BY FS_Subset
<1>4. s # {}
  <2>1. SumFunctionOnSet(f, {}) = 0 /\ SumFunctionOnSet(g, {}) = 0 /\ SumFunctionOnSet(h, {}) = 0
    BY <1>3, SumRecursion
  <2>2. Good({})
    BY <2>1
  <2> QED BY <2>2
<1>5. PICK c \in s : TRUE
  BY <1>4
<1>6. \A x \in s : f[x] \in Int /\ g[x] \in Int /\ h[x] \in Int
  OBVIOUS
<1>7. /\ SumFunctionOnSet(f, s) = f[c] + SumFunctionOnSet(f, s \ {c})
      /\ SumFunctionOnSet(g, s) = g[c] + SumFunctionOnSet(g, s \ {c})
      /\ SumFunctionOnSet(h, s) = h[c] + SumFunctionOnSet(h, s \ {c})
  BY <1>3, <1>6, SumRemoves
<1>8. Good(s \ {c})
  BY <1>2
<1>9. SumFunctionOnSet(f, s \ {c}) \in Int /\ SumFunctionOnSet(g, s \ {c}) \in Int
  <2>1. IsFiniteSet(s \ {c})
    BY <1>3, FS_RemoveElement
  <2> QED BY <1>6, <2>1, SumType
<1>10. Good(s)
  BY <1>6, <1>7, <1>8, <1>9
<1> QED BY <1>10

(* Only zero is twice itself.                                              *)
LEMMA Doubled == \A x \in Int : x = x + x => x = 0
OBVIOUS

(* The sum of zeros.                                                       *)
LEMMA SumZero ==
    ASSUME NEW S, IsFiniteSet(S), NEW f, \A x \in S : f[x] = 0
    PROVE  SumFunctionOnSet(f, S) = 0
<1>1. SumFunctionOnSet(f, S) \in Int
  BY SumType
<1>2. SumFunctionOnSet(f, S) = SumFunctionOnSet(f, S) + SumFunctionOnSet(f, S)
  BY SumPlus
<1> QED BY <1>1, <1>2, Doubled

(* Rows by a key, each the sum of the values with that key, add up to the  *)
(* sum of all the values.                                                  *)
LEMMA SumByKey ==
    ASSUME NEW S, IsFiniteSet(S), NEW f, \A x \in S : f[x] \in Int, NEW key,
           NEW rows, DOMAIN rows = {key[x] : x \in S},
           \A k \in DOMAIN rows : rows[k] = SumFunctionOnSet(f, {x \in S : key[x] = k})
    PROVE  SumFunction(rows) = SumFunctionOnSet(f, S)
<1> DEFINE K == DOMAIN rows
           In(s) == {x \in S : key[x] \in s}
           Good(s) == SumFunctionOnSet(rows, s) = SumFunctionOnSet(f, In(s))
           B == {s \in SUBSET K : ~ Good(s)}
<1>1. IsFiniteSet(K)
  <2>1. [x \in S |-> key[x]] \in Surjection(S, K)
    BY DEF Surjection
  <2> QED BY <2>1, FS_Surjection
<1>2. SUFFICES ASSUME B # {} PROVE FALSE
  <2>1. Good(K) /\ In(K) = S
    BY <1>2
  <2> QED BY <2>1 DEF SumFunction
<1>3. PICK s \in B : \A t \in B : t \subseteq s => t = s
  <2> HIDE DEF B, K
  <2>1. B \subseteq SUBSET K
    BY DEF B
  <2> QED BY <1>1, <1>2, <2>1, MinimalSubset
<1>4. \A t : IsFiniteSet(In(t)) /\ SumFunctionOnSet(f, In(t)) \in Int
  <2>1. ASSUME NEW t PROVE IsFiniteSet(In(t))
    BY FS_Subset
  <2> QED BY <2>1, SumType
<1>5. IsFiniteSet(s)
  BY <1>1, FS_Subset
<1>6. s # {}
  <2>1. In({}) = {}
    OBVIOUS
  <2>2. SumFunctionOnSet(rows, {}) = 0 /\ SumFunctionOnSet(f, {}) = 0
    BY <1>5, SumRecursion
  <2>3. Good({})
    BY <2>1, <2>2
  <2> QED BY <2>3
<1>7. PICK k \in s : TRUE
  BY <1>6
<1>8. \A j \in K : rows[j] = SumFunctionOnSet(f, In({j})) /\ rows[j] \in Int
  <2>1. \A j : In({j}) = {x \in S : key[x] = j}
    OBVIOUS
  <2>2. \A j \in K : rows[j] = SumFunctionOnSet(f, In({j}))
    BY <2>1
  <2> HIDE DEF In
  <2> QED BY <1>4, <2>2
<1>9. SumFunctionOnSet(rows, s) = rows[k] + SumFunctionOnSet(rows, s \ {k})
  <2>1. k \in s /\ \A j \in s : rows[j] \in Int
    BY <1>3, <1>7, <1>8
  <2> HIDE DEF In, K, Good, B
  <2> QED BY <1>5, <2>1, SumRemoves
<1>10. Good(s \ {k})
  BY <1>3
<1>11. SumFunctionOnSet(f, In(s))
         = SumFunctionOnSet(f, In({k})) + SumFunctionOnSet(f, In(s \ {k}))
  <2>1. In(s) = In({k}) \cup In(s \ {k}) /\ In({k}) \cap In(s \ {k}) = {}
    OBVIOUS
  <2>2. \A x \in In({k}) \cup In(s \ {k}) : f[x] \in Int
    OBVIOUS
  <2>3. \A X, Y : /\ IsFiniteSet(X) /\ IsFiniteSet(Y) /\ X \cap Y = {}
                  /\ \A x \in X \cup Y : f[x] \in Int
                  => SumFunctionOnSet(f, X \cup Y) = SumFunctionOnSet(f, X) + SumFunctionOnSet(f, Y)
    BY SumUnion
  <2> HIDE DEF In
  <2> QED BY <1>4, <2>1, <2>2, <2>3
<1>12. Good(s)
  BY <1>8, <1>9, <1>10, <1>11
<1> QED BY <1>12
-----------------------------------------------------------------------------
(***************************************************************************)
(* Quotients, for proofs about clocks and periods.                         *)
(***************************************************************************)
(* What the quotient of an integer is.                                     *)
LEMMA DivBounds ==
    ASSUME NEW t \in Int, NEW d \in Nat \ {0}
    PROVE  /\ t \div d \in Int /\ d * (t \div d) <= t /\ t < d * (t \div d) + d
OBVIOUS

(* A quotient is known by its bounds.                                      *)
LEMMA DivIs ==
    ASSUME NEW t \in Int, NEW d \in Nat \ {0}, NEW q \in Int, d * q <= t, t < d * q + d
    PROVE  t \div d = q
<1> DEFINE p == t \div d
<1>1. p \in Int /\ d * p <= t /\ t < d * p + d
  BY DivBounds
<1> HIDE DEF p
<1>2. CASE p < q
  <2>1. d * q - d * p = d * (q - p) /\ q - p >= 1 /\ q - p \in Nat
    BY <1>1, <1>2
  <2>2. \A n \in Nat : n >= 1 => d * n >= d
    OBVIOUS
  <2> QED BY <1>1, <2>1, <2>2
<1>3. CASE p > q
  <2>1. d * p - d * q = d * (p - q) /\ p - q >= 1 /\ p - q \in Nat
    BY <1>1, <1>3
  <2>2. \A n \in Nat : n >= 1 => d * n >= d
    OBVIOUS
  <2> QED BY <1>1, <2>1, <2>2
<1> QED BY <1>1, <1>2, <1>3 DEF p
-----------------------------------------------------------------------------
(***************************************************************************)
(* The maps of the probes: which elements an operation touches.            *)
(***************************************************************************)
(* No element is in two uses: for two keys, for two CPUs, or in use and    *)
(* free.                                                                   *)
Disjoint(map) ==
    /\ \A g, h \in DOMAIN map.slot : map.slot[g] = map.slot[h] => g = h
    /\ \A c, d \in DOMAIN map.extra : map.extra[c] = map.extra[d] => c = d
    /\ \A g \in DOMAIN map.slot, c \in DOMAIN map.extra : map.slot[g] # map.extra[c]
    /\ \A g \in DOMAIN map.slot : map.slot[g] \notin map.free
    /\ \A c \in DOMAIN map.extra : map.extra[c] \notin map.free

(* An update of a key that is present swaps the key's element with the     *)
(* CPU's extra one.                                                        *)
LEMMA ReplaceFacts ==
    ASSUME NEW Keys, NEW Values, NEW Elems, NEW Cpus, NEW map,
           IsBpfMap(map, Keys, Values, Elems, Cpus), Disjoint(map),
           NEW c \in Cpus, NEW key \in Keys, NEW v \in Values, Present(map, key),
           NEW next \in Updated(map, c, key, v)
    PROVE  /\ IsBpfMap(next, Keys, Values, Elems, Cpus) /\ Disjoint(next)
           /\ next.slot = [map.slot EXCEPT ![key] = map.extra[c]]
           /\ next.value = [map.value EXCEPT ![map.extra[c]] = v]
           /\ next.extra = [map.extra EXCEPT ![c] = map.slot[key]]
           /\ next.free = map.free
<1>0. /\ DOMAIN map = {"slot", "value", "free", "extra"}
      /\ DOMAIN map.slot \subseteq Keys /\ map.slot \in [DOMAIN map.slot -> Elems]
      /\ map.value \in [Elems -> Values]
      /\ map.free \subseteq Elems
      /\ map.extra \in [Cpus -> Elems]
      /\ key \in DOMAIN map.slot
  BY DEF IsBpfMap, IsMap, Present
<1>1. /\ next.slot = [map.slot EXCEPT ![key] = map.extra[c]]
      /\ next.value = [map.value EXCEPT ![map.extra[c]] = v]
      /\ next.extra = [map.extra EXCEPT ![c] = map.slot[key]]
      /\ next.free = map.free
      /\ DOMAIN next = DOMAIN map
  BY <1>0 DEF Updated
<1>2. IsBpfMap(next, Keys, Values, Elems, Cpus)
  BY <1>0, <1>1 DEF IsBpfMap, IsMap
<1>3. Disjoint(next)
  BY <1>0, <1>1 DEF Disjoint
<1> QED BY <1>1, <1>2, <1>3

(* An update of a key that is absent takes a free element, if there is one. *)
LEMMA InsertFacts ==
    ASSUME NEW Keys, NEW Values, NEW Elems, NEW Cpus, NEW map,
           IsBpfMap(map, Keys, Values, Elems, Cpus), Disjoint(map),
           NEW c \in Cpus, NEW key \in Keys, NEW v \in Values, ~Present(map, key),
           map.free # {}, NEW next \in Updated(map, c, key, v)
    PROVE  /\ IsBpfMap(next, Keys, Values, Elems, Cpus) /\ Disjoint(next)
           /\ next.slot[key] \in map.free
           /\ DOMAIN next.slot = DOMAIN map.slot \cup {key}
           /\ \A k \in DOMAIN map.slot : next.slot[k] = map.slot[k]
           /\ next.value = [map.value EXCEPT ![next.slot[key]] = v]
           /\ next.free = map.free \ {next.slot[key]}
           /\ next.extra = map.extra
<1>0. /\ DOMAIN map = {"slot", "value", "free", "extra"}
      /\ IsMap(map.slot, Keys, Elems)
      /\ map.value \in [Elems -> Values]
      /\ map.free \subseteq Elems
      /\ map.extra \in [Cpus -> Elems]
      /\ key \notin DOMAIN map.slot
  BY DEF IsBpfMap, Present
<1>1. PICK e \in map.free :
          /\ next.slot = Put(map.slot, key, e)
          /\ next.value = [map.value EXCEPT ![e] = v]
          /\ next.free = map.free \ {e}
          /\ next.extra = map.extra
          /\ DOMAIN next = DOMAIN map
  <2>1. PICK e \in map.free : next = [map EXCEPT !.slot = Put(map.slot, key, e),
                                               !.value[e] = v,
                                               !.free = map.free \ {e}]
    BY DEF Updated
  <2>2. /\ next.slot = Put(map.slot, key, e)
        /\ next.value = [map.value EXCEPT ![e] = v]
        /\ next.free = map.free \ {e}
        /\ next.extra = map.extra
        /\ DOMAIN next = DOMAIN map
    BY <1>0, <2>1
  <2> QED BY <2>2
<1>2. /\ DOMAIN next.slot = DOMAIN map.slot \cup {key}
      /\ next.slot[key] = e
      /\ \A k \in DOMAIN map.slot : next.slot[k] = map.slot[k]
  <2>1. /\ DOMAIN Put(map.slot, key, e) = DOMAIN map.slot \cup {key}
        /\ Put(map.slot, key, e)[key] = e
        /\ \A x \in DOMAIN map.slot \ {key} : Put(map.slot, key, e)[x] = map.slot[x]
    BY DEF Put
  <2>2. DOMAIN map.slot \ {key} = DOMAIN map.slot
    BY <1>0
  <2> QED BY <1>1, <2>1, <2>2
<1>3. IsMap(next.slot, Keys, Elems)
  BY <1>0, <1>1, PutIsMap
<1>4. IsBpfMap(next, Keys, Values, Elems, Cpus)
  BY <1>0, <1>1, <1>3 DEF IsBpfMap
<1>5. Disjoint(next)
  BY <1>0, <1>1, <1>2 DEF Disjoint
<1> QED BY <1>1, <1>2, <1>4, <1>5

(* In a full map such an update changes nothing.                           *)
LEMMA FullFacts ==
    ASSUME NEW map, NEW c, NEW key, NEW v, ~Present(map, key), map.free = {},
           NEW next \in Updated(map, c, key, v)
    PROVE  next = map
BY DEF Updated

(* A delete frees the element of the key.                                  *)
LEMMA DeletedFacts ==
    ASSUME NEW Keys, NEW Values, NEW Elems, NEW Cpus, NEW map,
           IsBpfMap(map, Keys, Values, Elems, Cpus), Disjoint(map), NEW key
    PROVE  LET next == Deleted(map, key)
           IN  /\ IsBpfMap(next, Keys, Values, Elems, Cpus) /\ Disjoint(next)
               /\ DOMAIN next.slot = DOMAIN map.slot \ {key}
               /\ \A k \in DOMAIN next.slot : next.slot[k] = map.slot[k]
               /\ next.value = map.value /\ next.extra = map.extra
               /\ next.free = map.free \cup {map.slot[k] : k \in DOMAIN map.slot \cap {key}}
<1> DEFINE next == Deleted(map, key)
<1>0. /\ DOMAIN map = {"slot", "value", "free", "extra"}
      /\ DOMAIN map.slot \subseteq Keys /\ map.slot \in [DOMAIN map.slot -> Elems]
      /\ map.value \in [Elems -> Values]
      /\ map.free \subseteq Elems
      /\ map.extra \in [Cpus -> Elems]
  BY DEF IsBpfMap, IsMap
<1>1. CASE key \in DOMAIN map.slot
  <2>1. /\ next.slot = [k \in DOMAIN map.slot \ {key} |-> map.slot[k]]
        /\ next.value = map.value /\ next.extra = map.extra
        /\ next.free = map.free \cup {map.slot[key]}
        /\ DOMAIN next = DOMAIN map
    BY <1>0, <1>1 DEF Deleted, Present
  <2> HIDE DEF next
  <2>2. IsBpfMap(next, Keys, Values, Elems, Cpus)
    BY <1>0, <1>1, <2>1 DEF IsBpfMap, IsMap
  <2>3. Disjoint(next)
    BY <1>0, <1>1, <2>1 DEF Disjoint
  <2>4. {map.slot[k] : k \in DOMAIN map.slot \cap {key}} = {map.slot[key]}
    BY <1>1
  <2> QED BY <2>1, <2>2, <2>3, <2>4 DEF next
<1>2. CASE key \notin DOMAIN map.slot
  <2>1. next = map
    BY <1>2 DEF Deleted, Present
  <2>2. {map.slot[k] : k \in DOMAIN map.slot \cap {key}} = {}
    BY <1>2
  <2>3. DOMAIN map.slot \ {key} = DOMAIN map.slot
    BY <1>2
  <2> QED BY <2>1, <2>2, <2>3
<1> QED BY <1>1, <1>2
(* Writing into the elements leaves the keys alone.                        *)
LEMMA WriteFacts ==
    ASSUME NEW Keys, NEW Values, NEW Elems, NEW Cpus, NEW map,
           IsBpfMap(map, Keys, Values, Elems, Cpus), Disjoint(map),
           NEW value \in [Elems -> Values], NEW next, next = [map EXCEPT !.value = value]
    PROVE  /\ IsBpfMap(next, Keys, Values, Elems, Cpus) /\ Disjoint(next)
           /\ next.slot = map.slot /\ next.free = map.free /\ next.extra = map.extra
           /\ next.value = value
<1>1. /\ next.slot = map.slot /\ next.free = map.free /\ next.extra = map.extra
      /\ next.value = value /\ DOMAIN next = DOMAIN map
  BY DEF IsBpfMap
<1>2. IsBpfMap(next, Keys, Values, Elems, Cpus)
  BY <1>1 DEF IsBpfMap
<1>3. Disjoint(next)
  BY <1>1 DEF Disjoint
<1> QED BY <1>1, <1>2, <1>3
=============================================================================
