---------------------------- MODULE SumTheorems ----------------------------
(***************************************************************************)
(* Sums over finite sets, as SumFunctionOnSet of the community modules     *)
(* computes them: what the sum of nothing is, that one element may be      *)
(* taken out or changed, and that the order of the elements is irrelevant. *)
(* The induction theorems of the library take an operator; here the        *)
(* induction is over a set of subsets, through the fact that the strict    *)
(* subsets of a finite set are well founded.                               *)
(***************************************************************************)
EXTENDS Integers, FiniteSets, Functions, FiniteSetTheorems, TLAPS

-----------------------------------------------------------------------------
(* Induction *)

\* A property of sets that a set has when it has it without any one of its elements.
LEMMA SubsetInduction ==
    ASSUME NEW S, IsFiniteSet(S), NEW G,
           \A T \in SUBSET S : (\A x \in T : T \ {x} \in G) => T \in G
    PROVE  \A T \in SUBSET S : T \in G
<1> DEFINE Bad == {T \in SUBSET S : T \notin G}
<1> SUFFICES ASSUME Bad # {} PROVE FALSE
  OBVIOUS
<1>1. IsWellFoundedOn(StrictSubsetOrdering(S), SUBSET S)
  <2>1. FiniteSubsetsOf(S) = SUBSET S
    BY FS_FiniteSubsetsOfFinite
  <2>2. IsWellFoundedOn(StrictSubsetOrdering(S), FiniteSubsetsOf(S))
    BY FS_StrictSubsetOrderingWellFounded
  <2> QED BY <2>1, <2>2, Zenon
<1>2. Bad \subseteq SUBSET S
  OBVIOUS
<1>3. PICK T \in Bad : \A U \in Bad : <<U, T>> \notin StrictSubsetOrdering(S)
  <2> HIDE DEF Bad
  <2> QED BY <1>1, <1>2, WFMin
<1>4. \A x \in T : <<T \ {x}, T>> \in StrictSubsetOrdering(S)
  BY DEF StrictSubsetOrdering
<1>5. \A x \in T : T \ {x} \in G
  BY <1>3, <1>4
<1> QED BY <1>5

\* A set of numbers that has a number when it has the one before.
LEMMA NumberInduction ==
    ASSUME NEW G, 0 \in G, \A n \in Nat : n \in G => n + 1 \in G
    PROVE  \A n \in Nat : n \in G
<1> DEFINE Bad == {n \in Nat : n \notin G}
<1> SUFFICES ASSUME Bad # {} PROVE FALSE
  OBVIOUS
<1>1. PICK n \in Bad : \A m \in Bad : <<m, n>> \notin OpToRel(<, Nat)
  <2>1. Bad \subseteq Nat
    OBVIOUS
  <2> HIDE DEF Bad
  <2> QED BY <2>1, NatLessThanWellFounded, WFMin
<1>2. n # 0 /\ n - 1 \in Nat /\ n - 1 + 1 = n
  OBVIOUS
<1>3. <<n - 1, n>> \in OpToRel(<, Nat)
  BY <1>2 DEF OpToRel
<1>4. n - 1 \in G
  BY <1>1, <1>2, <1>3
<1> QED BY <1>2, <1>4

-----------------------------------------------------------------------------
(* The recursive function that computes the sum *)

Pick(s) == CHOOSE x \in s : TRUE

\* One round of the recursion: the sums of the sets in D from those of smaller sets.
Round(w, D, g) == [s \in D |-> IF s = {} THEN 0 ELSE w[Pick(s)] + g[s \ {Pick(s)}]]

Iter(w, S) == CHOOSE g : g = Round(w, SUBSET S, g)

LEMMA SumIsIter == ASSUME NEW w, NEW S PROVE SumFunctionOnSet(w, S) = Iter(w, S)[S]
  BY DEF SumFunctionOnSet, FoldFunctionOnSet, MapThenFoldSet, Iter, Round, Pick

\* The recursion has a solution for the sets of up to n elements, for each n.
LEMMA RoundSolved ==
    ASSUME NEW w, NEW S, IsFiniteSet(S)
    PROVE  \E g : g = Round(w, SUBSET S, g)
<1> DEFINE Small(n) == {T \in SUBSET S : Cardinality(T) <= n}
           G == {n \in Nat : \E g : g = Round(w, Small(n), g)}
<1>1. \A T \in SUBSET S : IsFiniteSet(T) /\ Cardinality(T) \in Nat
                          /\ Cardinality(T) <= Cardinality(S)
  BY FS_Subset, FS_CardinalityType
<1>2. 0 \in G
  <2> DEFINE g == [s \in Small(0) |-> 0]
  <2>1. \A T \in Small(0) : T = {}
    BY <1>1, FS_EmptySet
  <2>2. g = Round(w, Small(0), g)
    BY <2>1 DEF Round
  <2> QED BY <2>2
<1>3. ASSUME NEW n \in Nat, n \in G PROVE n + 1 \in G
  <2>1. PICK g : g = Round(w, Small(n), g)
    BY <1>3
  <2> DEFINE h == Round(w, Small(n + 1), g)
  <2>2. ASSUME NEW s \in Small(n + 1), s # {}
        PROVE  s \ {Pick(s)} \in Small(n) /\ s \ {Pick(s)} \in Small(n + 1)
    <3>1. Pick(s) \in s
      BY <2>2 DEF Pick
    <3>2. Cardinality(s \ {Pick(s)}) = Cardinality(s) - 1
      BY <1>1, <3>1, FS_RemoveElement
    <3> QED BY <1>1, <3>2
  <2>3. \A s \in Small(n) : s \in Small(n + 1)
    BY <1>1
  <2>4. \A s \in Small(n) : h[s] = g[s]
    <3>1. \A s \in Small(n) : h[s] = IF s = {} THEN 0 ELSE w[Pick(s)] + g[s \ {Pick(s)}]
      BY <2>3 DEF Round
    <3>2. \A s \in Small(n) : g[s] = IF s = {} THEN 0 ELSE w[Pick(s)] + g[s \ {Pick(s)}]
      <4> HIDE DEF h, Small
      <4> QED BY <2>1 DEF Round
    <3> QED BY <3>1, <3>2
  <2>5. h = Round(w, Small(n + 1), h)
    <3>1. \A s \in Small(n + 1) : s # {} => h[s \ {Pick(s)}] = g[s \ {Pick(s)}]
      BY <2>2, <2>4
    <3> HIDE DEF Small
    <3> QED BY <3>1 DEF Round
  <2> QED BY <2>5
<1>4. Cardinality(S) \in G
  <2> HIDE DEF G
  <2>1. \A n \in Nat : n \in G
    BY <1>2, <1>3, NumberInduction
  <2> QED BY <2>1, FS_CardinalityType
<1>5. Small(Cardinality(S)) = SUBSET S
  BY <1>1
<1> QED BY <1>4, <1>5

LEMMA IterSolves ==
    ASSUME NEW w, NEW S, IsFiniteSet(S)
    PROVE  Iter(w, S) = Round(w, SUBSET S, Iter(w, S))
  BY RoundSolved DEF Iter

LEMMA IterAt ==
    ASSUME NEW w, NEW S, IsFiniteSet(S), NEW T \in SUBSET S
    PROVE  Iter(w, S)[T] = IF T = {} THEN 0 ELSE w[Pick(T)] + Iter(w, S)[T \ {Pick(T)}]
<1> DEFINE g == Iter(w, S)
<1>1. g = Round(w, SUBSET S, g)
  BY IterSolves
<1> HIDE DEF g
<1>2. g[T] = IF T = {} THEN 0 ELSE w[Pick(T)] + g[T \ {Pick(T)}]
  BY <1>1 DEF Round
<1> QED BY <1>2 DEF g

\* The sum of a set is the same within any larger set.
LEMMA IterSame ==
    ASSUME NEW w, NEW S, IsFiniteSet(S), NEW T \in SUBSET S
    PROVE  Iter(w, S)[T] = Iter(w, T)[T]
<1> DEFINE G == {U \in SUBSET T : Iter(w, S)[U] = Iter(w, T)[U]}
<1>1. IsFiniteSet(T)
  BY FS_Subset
<1>2. ASSUME NEW U \in SUBSET T, \A x \in U : U \ {x} \in G PROVE U \in G
  <2>1. /\ Iter(w, S)[U] = IF U = {} THEN 0 ELSE w[Pick(U)] + Iter(w, S)[U \ {Pick(U)}]
        /\ Iter(w, T)[U] = IF U = {} THEN 0 ELSE w[Pick(U)] + Iter(w, T)[U \ {Pick(U)}]
    BY <1>1, IterAt
  <2>2. U # {} => Pick(U) \in U
    BY DEF Pick
  <2> QED BY <1>2, <2>1, <2>2
<1>3. \A U \in SUBSET T : U \in G
  <2> HIDE DEF G
  <2> QED BY <1>1, <1>2, SubsetInduction
<1> QED BY <1>3

-----------------------------------------------------------------------------
(* The sum *)

LEMMA SumNothing == ASSUME NEW w PROVE SumFunctionOnSet(w, {}) = 0
<1>1. Iter(w, {})[{}] = 0
  BY IterAt, FS_EmptySet
<1> QED BY <1>1, SumIsIter

LEMMA SumPicked ==
    ASSUME NEW w, NEW S, IsFiniteSet(S), S # {}
    PROVE  SumFunctionOnSet(w, S) = w[Pick(S)] + SumFunctionOnSet(w, S \ {Pick(S)})
<1>1. Iter(w, S)[S] = w[Pick(S)] + Iter(w, S)[S \ {Pick(S)}]
  BY IterAt
<1>2. Iter(w, S)[S \ {Pick(S)}] = Iter(w, S \ {Pick(S)})[S \ {Pick(S)}]
  BY IterSame
<1> QED BY <1>1, <1>2, SumIsIter

\* The sum of integers is an integer, and of natural numbers a natural number.
LEMMA SumInt ==
    ASSUME NEW w, NEW S, IsFiniteSet(S), \A x \in S : w[x] \in Int
    PROVE  SumFunctionOnSet(w, S) \in Int
<1> DEFINE G == {T \in SUBSET S : SumFunctionOnSet(w, T) \in Int}
<1>1. ASSUME NEW T \in SUBSET S, \A x \in T : T \ {x} \in G PROVE T \in G
  <2>1. CASE T = {}
    BY <2>1, SumNothing
  <2>2. CASE T # {}
    <3>1. Pick(T) \in T
      BY <2>2 DEF Pick
    <3>2. SumFunctionOnSet(w, T) = w[Pick(T)] + SumFunctionOnSet(w, T \ {Pick(T)})
      BY <2>2, SumPicked, FS_Subset
    <3> QED BY <1>1, <3>1, <3>2
  <2> QED BY <2>1, <2>2
<1>2. \A T \in SUBSET S : T \in G
  <2> HIDE DEF G
  <2> QED BY <1>1, SubsetInduction
<1> QED BY <1>2

LEMMA SumNat ==
    ASSUME NEW w, NEW S, IsFiniteSet(S), \A x \in S : w[x] \in Nat
    PROVE  SumFunctionOnSet(w, S) \in Nat
<1> DEFINE G == {T \in SUBSET S : SumFunctionOnSet(w, T) \in Nat}
<1>1. ASSUME NEW T \in SUBSET S, \A x \in T : T \ {x} \in G PROVE T \in G
  <2>1. CASE T = {}
    BY <2>1, SumNothing
  <2>2. CASE T # {}
    <3>1. Pick(T) \in T
      BY <2>2 DEF Pick
    <3>2. SumFunctionOnSet(w, T) = w[Pick(T)] + SumFunctionOnSet(w, T \ {Pick(T)})
      BY <2>2, SumPicked, FS_Subset
    <3> QED BY <1>1, <3>1, <3>2
  <2> QED BY <2>1, <2>2
<1>2. \A T \in SUBSET S : T \in G
  <2> HIDE DEF G
  <2> QED BY <1>1, SubsetInduction
<1> QED BY <1>2

\* Any element may be taken out of a sum.
LEMMA SumWithout ==
    ASSUME NEW w, NEW S, IsFiniteSet(S), \A x \in S : w[x] \in Int
    PROVE  \A x \in S : SumFunctionOnSet(w, S) = w[x] + SumFunctionOnSet(w, S \ {x})
<1> DEFINE G == {T \in SUBSET S :
                    \A x \in T : SumFunctionOnSet(w, T) = w[x] + SumFunctionOnSet(w, T \ {x})}
<1>1. ASSUME NEW T \in SUBSET S, \A x \in T : T \ {x} \in G PROVE T \in G
  <2> SUFFICES ASSUME NEW x \in T
               PROVE  SumFunctionOnSet(w, T) = w[x] + SumFunctionOnSet(w, T \ {x})
    OBVIOUS
  <2> DEFINE c == Pick(T)
  <2>1. c \in T
    BY DEF Pick
  <2>2. SumFunctionOnSet(w, T) = w[c] + SumFunctionOnSet(w, T \ {c})
    BY SumPicked, FS_Subset
  <2>3. \A U \in SUBSET S : SumFunctionOnSet(w, U) \in Int
    BY SumInt, FS_Subset
  <2> HIDE DEF c
  <2>4. CASE c = x
    BY <2>2, <2>4
  <2>5. CASE c # x
    <3>1. SumFunctionOnSet(w, T \ {c}) = w[x] + SumFunctionOnSet(w, (T \ {c}) \ {x})
      BY <1>1, <2>1, <2>5
    <3>2. SumFunctionOnSet(w, T \ {x}) = w[c] + SumFunctionOnSet(w, (T \ {x}) \ {c})
      BY <1>1, <2>1, <2>5
    <3>3. (T \ {c}) \ {x} = (T \ {x}) \ {c}
      OBVIOUS
    <3>4. w[x] \in Int /\ w[c] \in Int /\ SumFunctionOnSet(w, (T \ {x}) \ {c}) \in Int
      BY <2>1, <2>3
    <3> DEFINE rest == SumFunctionOnSet(w, (T \ {x}) \ {c})
    <3>5. SumFunctionOnSet(w, T) = w[c] + (w[x] + rest)
      BY <2>2, <3>1, <3>3
    <3>6. SumFunctionOnSet(w, T \ {x}) = w[c] + rest
      BY <3>2
    <3> HIDE DEF rest
    <3> QED BY <3>4, <3>5, <3>6 DEF rest
  <2> QED BY <2>4, <2>5
<1>2. \A T \in SUBSET S : T \in G
  <2> HIDE DEF G
  <2> QED BY <1>1, SubsetInduction
<1> QED BY <1>2

\* Weights that agree on the set have the same sum.
LEMMA SumSame ==
    ASSUME NEW w, NEW v, NEW S, IsFiniteSet(S), \A x \in S : w[x] = v[x]
    PROVE  SumFunctionOnSet(w, S) = SumFunctionOnSet(v, S)
<1> DEFINE G == {T \in SUBSET S : SumFunctionOnSet(w, T) = SumFunctionOnSet(v, T)}
<1>1. ASSUME NEW T \in SUBSET S, \A x \in T : T \ {x} \in G PROVE T \in G
  <2>1. CASE T = {}
    BY <2>1, SumNothing
  <2>2. CASE T # {}
    <3>1. Pick(T) \in T
      BY <2>2 DEF Pick
    <3>2. /\ SumFunctionOnSet(w, T) = w[Pick(T)] + SumFunctionOnSet(w, T \ {Pick(T)})
          /\ SumFunctionOnSet(v, T) = v[Pick(T)] + SumFunctionOnSet(v, T \ {Pick(T)})
      BY <2>2, SumPicked, FS_Subset
    <3> QED BY <1>1, <3>1, <3>2
  <2> QED BY <2>1, <2>2
<1>2. \A T \in SUBSET S : T \in G
  <2> HIDE DEF G
  <2> QED BY <1>1, SubsetInduction
<1> QED BY <1>2

\* When one weight changes, the sum changes by as much.
LEMMA SumChanged ==
    ASSUME NEW w, NEW v, NEW S, IsFiniteSet(S), NEW c \in S,
           \A x \in S : w[x] \in Int /\ v[x] \in Int,
           \A x \in S \ {c} : v[x] = w[x]
    PROVE  SumFunctionOnSet(v, S) = SumFunctionOnSet(w, S) + v[c] - w[c]
<1>1. /\ SumFunctionOnSet(w, S) = w[c] + SumFunctionOnSet(w, S \ {c})
      /\ SumFunctionOnSet(v, S) = v[c] + SumFunctionOnSet(v, S \ {c})
  BY SumWithout
<1>2. IsFiniteSet(S \ {c})
  BY FS_RemoveElement
<1>3. SumFunctionOnSet(w, S \ {c}) = SumFunctionOnSet(v, S \ {c})
  BY <1>2, SumSame
<1>4. SumFunctionOnSet(w, S \ {c}) \in Int
  BY <1>2, SumInt
<1> QED BY <1>1, <1>3, <1>4

\* A new element brings its weight, when the others keep theirs.
LEMMA SumAdded ==
    ASSUME NEW w, NEW v, NEW S, IsFiniteSet(S), NEW c, c \notin S,
           \A x \in S : w[x] \in Int /\ v[x] = w[x], v[c] \in Int
    PROVE  SumFunctionOnSet(v, S \cup {c}) = SumFunctionOnSet(w, S) + v[c]
<1>1. IsFiniteSet(S \cup {c})
  BY FS_AddElement
<1>2. SumFunctionOnSet(v, S \cup {c}) = v[c] + SumFunctionOnSet(v, (S \cup {c}) \ {c})
  BY <1>1, SumWithout
<1>3. (S \cup {c}) \ {c} = S
  OBVIOUS
<1>4. SumFunctionOnSet(v, S) = SumFunctionOnSet(w, S)
  BY SumSame
<1>5. SumFunctionOnSet(w, S) \in Int
  BY SumInt
<1>6. SumFunctionOnSet(v, S \cup {c}) = v[c] + SumFunctionOnSet(w, S)
  BY <1>2, <1>3, <1>4
<1> QED BY <1>5, <1>6

\* Nothing but zeros add up to zero.
LEMMA SumZeros ==
    ASSUME NEW w, NEW S, IsFiniteSet(S), \A x \in S : w[x] = 0
    PROVE  SumFunctionOnSet(w, S) = 0
<1> DEFINE G == {T \in SUBSET S : SumFunctionOnSet(w, T) = 0}
<1>1. ASSUME NEW T \in SUBSET S, \A x \in T : T \ {x} \in G PROVE T \in G
  <2>1. CASE T = {}
    BY <2>1, SumNothing
  <2>2. CASE T # {}
    <3>1. Pick(T) \in T
      BY <2>2 DEF Pick
    <3>2. SumFunctionOnSet(w, T) = w[Pick(T)] + SumFunctionOnSet(w, T \ {Pick(T)})
      BY <2>2, SumPicked, FS_Subset
    <3> QED BY <1>1, <3>1, <3>2
  <2> QED BY <2>1, <2>2
<1>2. \A T \in SUBSET S : T \in G
  <2> HIDE DEF G
  <2> QED BY <1>1, SubsetInduction
<1> QED BY <1>2

LEMMA SumSingle == ASSUME NEW w, NEW x, w[x] \in Int PROVE SumFunctionOnSet(w, {x}) = w[x]
<1>1. IsFiniteSet({x}) /\ {x} \ {x} = {}
  BY FS_Singleton
<1>2. SumFunctionOnSet(w, {x}) = w[x] + SumFunctionOnSet(w, {x} \ {x})
  BY <1>1, SumWithout
<1> QED BY <1>1, <1>2, SumNothing

\* The sums of two sets without a common element add up.
LEMMA SumUnion ==
    ASSUME NEW w, NEW S, IsFiniteSet(S), NEW T, IsFiniteSet(T), S \cap T = {},
           \A x \in S \cup T : w[x] \in Int
    PROVE  SumFunctionOnSet(w, S \cup T) = SumFunctionOnSet(w, S) + SumFunctionOnSet(w, T)
<1> DEFINE G == {U \in SUBSET T :
             SumFunctionOnSet(w, S \cup U) = SumFunctionOnSet(w, S) + SumFunctionOnSet(w, U)}
<1>1. \A U \in SUBSET T : IsFiniteSet(U) /\ IsFiniteSet(S \cup U)
  BY FS_Subset, FS_Union
<1>2. \A U \in SUBSET T : SumFunctionOnSet(w, U) \in Int
  BY <1>1, SumInt
<1>3. SumFunctionOnSet(w, S) \in Int
  BY SumInt
<1>4. ASSUME NEW U \in SUBSET T, \A x \in U : U \ {x} \in G PROVE U \in G
  <2>1. CASE U = {}
    BY <1>3, <2>1, SumNothing
  <2>2. CASE U # {}
    <3>1. PICK x \in U : TRUE
      BY <2>2
    <3>2. /\ SumFunctionOnSet(w, U) = w[x] + SumFunctionOnSet(w, U \ {x})
          /\ SumFunctionOnSet(w, S \cup U) = w[x] + SumFunctionOnSet(w, (S \cup U) \ {x})
      BY <1>1, <3>1, SumWithout
    <3>3. (S \cup U) \ {x} = S \cup (U \ {x})
      BY <3>1
    <3>4. SumFunctionOnSet(w, S \cup (U \ {x}))
          = SumFunctionOnSet(w, S) + SumFunctionOnSet(w, U \ {x})
      BY <1>4, <3>1
    <3>5. w[x] \in Int /\ SumFunctionOnSet(w, U \ {x}) \in Int
      BY <1>2, <3>1
    <3>6. SumFunctionOnSet(w, S \cup U)
          = w[x] + (SumFunctionOnSet(w, S) + SumFunctionOnSet(w, U \ {x}))
      BY <3>2, <3>3, <3>4
    <3>7. SumFunctionOnSet(w, S \cup U) = SumFunctionOnSet(w, S) + SumFunctionOnSet(w, U)
      BY <1>3, <3>2, <3>5, <3>6
    <3> QED BY <3>7
  <2> QED BY <2>1, <2>2
<1>5. \A U \in SUBSET T : U \in G
  <2> HIDE DEF G
  <2> QED BY <1>4, SubsetInduction
<1> QED BY <1>5

\* What is zero may be left out.
LEMMA SumSubset ==
    ASSUME NEW w, NEW S, IsFiniteSet(S), NEW T \in SUBSET S,
           \A x \in T : w[x] \in Int, \A x \in S \ T : w[x] = 0
    PROVE  SumFunctionOnSet(w, S) = SumFunctionOnSet(w, T)
<1>1. IsFiniteSet(T) /\ IsFiniteSet(S \ T)
  BY FS_Subset
<1>2. S = T \cup (S \ T) /\ T \cap (S \ T) = {}
  OBVIOUS
<1>3. SumFunctionOnSet(w, S \ T) = 0
  BY <1>1, SumZeros
<1>4. SumFunctionOnSet(w, T) \in Int
  BY <1>1, SumInt
<1>5. \A x \in T \cup (S \ T) : w[x] \in Int
  OBVIOUS
<1> DEFINE rest == S \ T
<1>6. IsFiniteSet(T) /\ IsFiniteSet(rest) /\ T \cap rest = {} /\ (\A x \in T \cup rest : w[x] \in Int)
  BY <1>1, <1>2, <1>5
<1>7. T \cup rest = S /\ SumFunctionOnSet(w, rest) = 0
  BY <1>2, <1>3
<1> HIDE DEF rest
<1>8. SumFunctionOnSet(w, T \cup rest) = SumFunctionOnSet(w, T) + SumFunctionOnSet(w, rest)
  BY <1>6, SumUnion
<1>9. SumFunctionOnSet(w, S) = SumFunctionOnSet(w, T) + SumFunctionOnSet(w, rest)
  BY <1>7, <1>8, Zenon
<1> QED BY <1>4, <1>7, <1>9

LEMMA ImageFinite ==
    ASSUME NEW h, NEW S, IsFiniteSet(S)
    PROVE  IsFiniteSet({h[x] : x \in S})
<1> DEFINE T == {h[x] : x \in S}
           f == [x \in S |-> h[x]]
<1>1. f \in Surjection(S, T)
  BY DEF Surjection
<1>2. IsFiniteSet(T)
  <2> HIDE DEF T, f
  <2> QED BY <1>1, FS_Surjection
<1> QED BY <1>2

\* Elements may be renamed, one by one.
LEMMA SumImage ==
    ASSUME NEW w, NEW v, NEW h, NEW S, IsFiniteSet(S),
           \A x, y \in S : h[x] = h[y] => x = y,
           \A x \in S : v[x] = w[h[x]] /\ v[x] \in Int
    PROVE  SumFunctionOnSet(w, {h[x] : x \in S}) = SumFunctionOnSet(v, S)
<1> DEFINE Image(T) == {h[x] : x \in T}
           G == {T \in SUBSET S : SumFunctionOnSet(w, Image(T)) = SumFunctionOnSet(v, T)}
<1>1. \A T \in SUBSET S : IsFiniteSet(T) /\ IsFiniteSet(Image(T)) /\ (\A x \in T : v[x] \in Int)
  <2> TAKE T \in SUBSET S
  <2>1. IsFiniteSet(T)
    BY FS_Subset
  <2>2. IsFiniteSet({h[x] : x \in T})
    BY <2>1, ImageFinite
  <2> QED BY <2>1, <2>2
<1>2. \A T \in SUBSET S : \A z \in Image(T) : w[z] \in Int
  OBVIOUS
<1>3. Image({}) = {}
  OBVIOUS
<1>4. \A T \in SUBSET S : \A x \in T : h[x] \in Image(T) /\ Image(T) \ {h[x]} = Image(T \ {x})
  OBVIOUS
<1> HIDE DEF Image
<1>5. ASSUME NEW T \in SUBSET S, \A x \in T : T \ {x} \in G PROVE T \in G
  <2>1. CASE T = {}
    BY <1>3, <2>1, SumNothing
  <2>2. CASE T # {}
    <3>1. PICK x \in T : TRUE
      BY <2>2
    <3>2. SumFunctionOnSet(v, T) = v[x] + SumFunctionOnSet(v, T \ {x})
      BY <1>1, <3>1, SumWithout
    <3>3. SumFunctionOnSet(w, Image(T)) = w[h[x]] + SumFunctionOnSet(w, Image(T \ {x}))
      BY <1>1, <1>2, <1>4, <3>1, SumWithout
    <3>4. SumFunctionOnSet(w, Image(T \ {x})) = SumFunctionOnSet(v, T \ {x})
      BY <1>5, <3>1
    <3>5. SumFunctionOnSet(w, Image(T)) = SumFunctionOnSet(v, T)
      BY <3>1, <3>2, <3>3, <3>4
    <3> QED BY <3>5
  <2> QED BY <2>1, <2>2
<1>6. \A T \in SUBSET S : T \in G
  <2> HIDE DEF G
  <2> QED BY <1>5, SubsetInduction
<1>7. SumFunctionOnSet(w, Image(S)) = SumFunctionOnSet(v, S)
  BY <1>6
<1> QED BY <1>7 DEF Image

\* The same for everything.
LEMMA SumConstant ==
    ASSUME NEW w, NEW S, IsFiniteSet(S), NEW c \in Int, \A x \in S : w[x] = c
    PROVE  SumFunctionOnSet(w, S) = Cardinality(S) * c
<1> DEFINE G == {T \in SUBSET S : SumFunctionOnSet(w, T) = Cardinality(T) * c}
<1>1. \A T \in SUBSET S : IsFiniteSet(T) /\ Cardinality(T) \in Nat
  BY FS_Subset, FS_CardinalityType
<1>2. ASSUME NEW T \in SUBSET S, \A x \in T : T \ {x} \in G PROVE T \in G
  <2>1. CASE T = {}
    BY <2>1, SumNothing, FS_EmptySet
  <2>2. CASE T # {}
    <3>1. PICK x \in T : TRUE
      BY <2>2
    <3>2. SumFunctionOnSet(w, T) = c + SumFunctionOnSet(w, T \ {x})
      BY <1>1, <3>1, SumWithout
    <3>3. Cardinality(T \ {x}) = Cardinality(T) - 1
      BY <1>1, <3>1, FS_RemoveElement
    <3>4. SumFunctionOnSet(w, T \ {x}) = Cardinality(T \ {x}) * c
      BY <1>2, <3>1
    <3>5. PICK n \in Nat : n = Cardinality(T)
      BY <1>1
    <3>6. c + (n - 1) * c = n * c
      OBVIOUS
    <3>7. SumFunctionOnSet(w, T) = Cardinality(T) * c
      BY <3>2, <3>3, <3>4, <3>5, <3>6
    <3> QED BY <3>7
  <2> QED BY <2>1, <2>2
<1>3. \A T \in SUBSET S : T \in G
  <2> HIDE DEF G
  <2> QED BY <1>2, SubsetInduction
<1> QED BY <1>3

\* Sums of two functions add up.
LEMMA SumPlus ==
    ASSUME NEW u, NEW v, NEW w, NEW S, IsFiniteSet(S),
           \A x \in S : u[x] \in Int /\ v[x] \in Int /\ w[x] = u[x] + v[x]
    PROVE  SumFunctionOnSet(w, S) = SumFunctionOnSet(u, S) + SumFunctionOnSet(v, S)
<1> DEFINE G == {T \in SUBSET S :
             SumFunctionOnSet(w, T) = SumFunctionOnSet(u, T) + SumFunctionOnSet(v, T)}
<1>1. \A T \in SUBSET S : IsFiniteSet(T)
  BY FS_Subset
<1>2. \A T \in SUBSET S : SumFunctionOnSet(u, T) \in Int /\ SumFunctionOnSet(v, T) \in Int
  BY <1>1, SumInt
<1>3. \A x \in S : w[x] \in Int
  OBVIOUS
<1>4. ASSUME NEW T \in SUBSET S, \A x \in T : T \ {x} \in G PROVE T \in G
  <2>1. CASE T = {}
    BY <2>1, SumNothing
  <2>2. CASE T # {}
    <3>1. PICK x \in T : TRUE
      BY <2>2
    <3>2. SumFunctionOnSet(u, T) = u[x] + SumFunctionOnSet(u, T \ {x})
      BY <1>1, <3>1, SumWithout
    <3>3. SumFunctionOnSet(v, T) = v[x] + SumFunctionOnSet(v, T \ {x})
      BY <1>1, <3>1, SumWithout
    <3>4. SumFunctionOnSet(w, T) = w[x] + SumFunctionOnSet(w, T \ {x})
      BY <1>1, <1>3, <3>1, SumWithout
    <3>5. SumFunctionOnSet(w, T \ {x})
          = SumFunctionOnSet(u, T \ {x}) + SumFunctionOnSet(v, T \ {x})
      BY <1>4, <3>1
    <3>6. /\ SumFunctionOnSet(u, T \ {x}) \in Int /\ SumFunctionOnSet(v, T \ {x}) \in Int
          /\ u[x] \in Int /\ v[x] \in Int /\ w[x] = u[x] + v[x]
      BY <1>2, <3>1
    <3>7. SumFunctionOnSet(w, T) = SumFunctionOnSet(u, T) + SumFunctionOnSet(v, T)
      BY <3>2, <3>3, <3>4, <3>5, <3>6
    <3> QED BY <3>7
  <2> QED BY <2>1, <2>2
<1>5. \A T \in SUBSET S : T \in G
  <2> HIDE DEF G
  <2> QED BY <1>4, SubsetInduction
<1> QED BY <1>5

\* When every weight changes its sign, so does the sum.
LEMMA SumNegated ==
    ASSUME NEW w, NEW v, NEW S, IsFiniteSet(S), \A x \in S : v[x] \in Int /\ w[x] = -v[x]
    PROVE  /\ SumFunctionOnSet(w, S) = -SumFunctionOnSet(v, S)
           /\ SumFunctionOnSet(w, S) \in Int /\ SumFunctionOnSet(v, S) \in Int
<1> DEFINE zero == [x \in S |-> 0]
<1>1. \A x \in S : w[x] \in Int /\ v[x] \in Int /\ zero[x] = w[x] + v[x] /\ zero[x] = 0
  OBVIOUS
<1> HIDE DEF zero
<1>2. SumFunctionOnSet(zero, S) = 0
  BY <1>1, SumZeros
<1>3. SumFunctionOnSet(zero, S) = SumFunctionOnSet(w, S) + SumFunctionOnSet(v, S)
  BY <1>1, SumPlus
<1>4. SumFunctionOnSet(w, S) \in Int /\ SumFunctionOnSet(v, S) \in Int
  BY <1>1, SumInt
<1> QED BY <1>2, <1>3, <1>4
=============================================================================
