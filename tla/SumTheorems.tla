------------------------------ MODULE SumTheorems ------------------------------
(***************************************************************************)
(* Sums over finite sets and functions, as SumFunctionOnSet and            *)
(* SumFunction of the community modules define them: what is left of a sum *)
(* when an element is taken, added or changed. The library proves nothing  *)
(* of its folds; everything here follows from their definitions, by        *)
(* induction.                                                              *)
(***************************************************************************)
EXTENDS FiniteSetsExt, FiniteSetTheorems, FunctionTheorems, TLAPS

(* Induction over the natural numbers for a set T of them, from the well-  *)
(* foundedness of <: the library's own theorem takes a predicate as a      *)
(* parameter, which no prover here instantiates; {n \in Nat : P(n)} serves *)
(* as well.                                                                *)
LEMMA NatInd ==
  ASSUME NEW T, 0 \in T, \A n \in Nat : n \in T => n + 1 \in T
  PROVE  Nat \subseteq T
<1> DEFINE R == {ss \in Nat \X Nat : ss[1] < ss[2]}
           U == Nat \ T
<1>1. IsWellFoundedOn(R, Nat)
  BY NatLessThanWellFounded DEF OpToRel
<1>2. SUFFICES ASSUME U # {} PROVE FALSE
  OBVIOUS
<1>3. U \subseteq Nat
  OBVIOUS
<1>4. PICK n \in U : \A m \in U : ~ (<<m, n>> \in R)
  <2> HIDE DEF R, U
  <2> QED BY <1>1, <1>2, <1>3, WFMin
<1>5. n # 0 /\ n - 1 \in Nat /\ n - 1 < n
  OBVIOUS
<1>6. n - 1 \in T
  BY <1>4, <1>5
<1> QED BY <1>5, <1>6

(* The element a fold takes first. *)
AnyOf(s) == CHOOSE x \in s : TRUE
(* The recursive function that MapThenFoldSet chooses for a sum.           *)
IsRec(f, w, S) == f = [s \in SUBSET S |-> IF s = {} THEN 0 ELSE w[AnyOf(s)] + f[s \ {AnyOf(s)}]]
(* The solution it chooses. *)
Rec(w, S) == CHOOSE f : IsRec(f, w, S)

(* There is an element to take. *)
LEMMA AnyOfIn == ASSUME NEW s, s # {} PROVE AnyOf(s) \in s
  BY DEF AnyOf

(* What the library's sum unfolds to. *)
LEMMA SumIsRec == ASSUME NEW w, NEW S PROVE SumFunctionOnSet(w, S) = Rec(w, S)[S]
  BY DEF SumFunctionOnSet, FoldFunctionOnSet, MapThenFoldSet, Rec, IsRec, AnyOf

(* Taking an element leaves a smaller subset. *)
LEMMA SmallerSubset ==
  ASSUME NEW S, IsFiniteSet(S), NEW s \in SUBSET S, s # {}
  PROVE  /\ s \ {AnyOf(s)} \in SUBSET S
         /\ Cardinality(s) \in Nat /\ Cardinality(s \ {AnyOf(s)}) = Cardinality(s) - 1
<1>1. IsFiniteSet(s)
  BY FS_Subset
<1>2. AnyOf(s) \in s
  BY AnyOfIn
<1> QED BY <1>1, <1>2, FS_CardinalityType, FS_RemoveElement

(* The recursion has a solution: by induction on the size of S. *)
LEMMA RecExists ==
  ASSUME NEW w, NEW S, IsFiniteSet(S)
  PROVE  \E f : IsRec(f, w, S)
<1> DEFINE D(n) == {s \in SUBSET S : Cardinality(s) <= n}
           E(f, n) == f = [s \in D(n) |-> IF s = {} THEN 0 ELSE w[AnyOf(s)] + f[s \ {AnyOf(s)}]]
           T == {n \in Nat : \E f : E(f, n)}
<1>1. 0 \in T
  <2> DEFINE f == [s \in D(0) |-> 0]
  <2>1. \A s \in D(0) : s = {}
    BY FS_Subset, FS_EmptySet, FS_CardinalityType
  <2>2. E(f, 0)
    BY <2>1
  <2> QED BY <2>2
<1>2. ASSUME NEW n \in Nat, n \in T PROVE n + 1 \in T
  <2>1. PICK f : E(f, n)
    BY <1>2
  <2> DEFINE g == [s \in D(n + 1) |-> IF s \in D(n) THEN f[s] ELSE w[AnyOf(s)] + f[s \ {AnyOf(s)}]]
  <2>2. D(n) \subseteq D(n + 1)
    BY FS_Subset, FS_CardinalityType
  <2>3. ASSUME NEW s \in D(n + 1), s # {} PROVE s \ {AnyOf(s)} \in D(n)
    BY <2>3, SmallerSubset
  <2>4. ASSUME NEW s \in D(n), s # {} PROVE f[s] = w[AnyOf(s)] + f[s \ {AnyOf(s)}]
    <3> HIDE DEF D
    <3> QED BY <2>1, <2>4
  <2>5. {} \in D(n) /\ f[{}] = 0
    <3>1. {} \in D(n)
      BY FS_EmptySet
    <3> HIDE DEF D
    <3> QED BY <2>1, <3>1
  <2>6. ASSUME NEW s \in D(n + 1)
        PROVE  g[s] = IF s = {} THEN 0 ELSE w[AnyOf(s)] + g[s \ {AnyOf(s)}]
    <3> HIDE DEF D
    <3> QED BY <2>2, <2>3, <2>4, <2>5
  <2>7. E(g, n + 1)
    <3> HIDE DEF D
    <3> QED BY <2>6
  <2> HIDE DEF D, E, g
  <2> QED BY <2>7
<1>3. Cardinality(S) \in T
  <2> HIDE DEF T
  <2> QED BY <1>1, <1>2, NatInd, FS_CardinalityType
<1>4. D(Cardinality(S)) = SUBSET S
  BY FS_Subset, FS_CardinalityType
<1>5. PICK f : E(f, Cardinality(S))
  <2> HIDE DEF E
  <2> QED BY <1>3
<1> QED
  <2> HIDE DEF D
  <2> QED BY <1>4, <1>5 DEF IsRec

(* So the sum of a subset is its first element's weight and the rest.      *)
LEMMA RecDef ==
  ASSUME NEW w, NEW S, IsFiniteSet(S), NEW s \in SUBSET S
  PROVE  Rec(w, S)[s] = IF s = {} THEN 0 ELSE w[AnyOf(s)] + Rec(w, S)[s \ {AnyOf(s)}]
<1>1. IsRec(Rec(w, S), w, S)
  BY RecExists, Zenon DEF Rec
<1> QED BY <1>1 DEF IsRec

(* The sum of a subset does not depend on the set it is a subset of.       *)
LEMMA RecAgrees ==
  ASSUME NEW w, NEW S, IsFiniteSet(S), NEW U \in SUBSET S
  PROVE  \A s \in SUBSET U : Rec(w, S)[s] = Rec(w, U)[s]
<1> DEFINE T == {n \in Nat : \A s \in SUBSET U : Cardinality(s) = n => Rec(w, S)[s] = Rec(w, U)[s]}
<1>0. IsFiniteSet(U) /\ \A s \in SUBSET U : IsFiniteSet(s) /\ Cardinality(s) \in Nat
  BY FS_Subset, FS_CardinalityType
<1>1. 0 \in T
  <2>1. ASSUME NEW s \in SUBSET U, Cardinality(s) = 0 PROVE s = {}
    BY <1>0, <2>1, FS_EmptySet
  <2>2. Rec(w, S)[{}] = 0 /\ Rec(w, U)[{}] = 0
    BY RecDef, <1>0
  <2> QED BY <2>1, <2>2
<1>2. ASSUME NEW n \in Nat, n \in T PROVE n + 1 \in T
  <2>1. SUFFICES ASSUME NEW s \in SUBSET U, Cardinality(s) = n + 1
                 PROVE  Rec(w, S)[s] = Rec(w, U)[s]
    OBVIOUS
  <2>2. s # {}
    BY <2>1, FS_EmptySet
  <2>3. s \ {AnyOf(s)} \in SUBSET U /\ Cardinality(s \ {AnyOf(s)}) = n
    BY <1>0, <2>1, <2>2, SmallerSubset
  <2>4. Rec(w, S)[s \ {AnyOf(s)}] = Rec(w, U)[s \ {AnyOf(s)}]
    BY <1>2, <2>3
  <2>5. /\ Rec(w, S)[s] = w[AnyOf(s)] + Rec(w, S)[s \ {AnyOf(s)}]
        /\ Rec(w, U)[s] = w[AnyOf(s)] + Rec(w, U)[s \ {AnyOf(s)}]
    BY <1>0, <2>2, RecDef
  <2> QED BY <2>4, <2>5
<1>3. \A n \in Nat : n \in T
  <2> HIDE DEF T
  <2> QED BY <1>1, <1>2, NatInd
<1> QED BY <1>0, <1>3

(* An empty sum. *)
LEMMA SumEmpty == ASSUME NEW w PROVE SumFunctionOnSet(w, {}) = 0
  BY SumIsRec, RecDef, FS_EmptySet

(* A sum without its first element. *)
LEMMA SumAny ==
  ASSUME NEW w, NEW S, IsFiniteSet(S), S # {}
  PROVE  SumFunctionOnSet(w, S) = w[AnyOf(S)] + SumFunctionOnSet(w, S \ {AnyOf(S)})
<1>1. SumFunctionOnSet(w, S) = w[AnyOf(S)] + Rec(w, S)[S \ {AnyOf(S)}]
  BY SumIsRec, RecDef
<1>2. Rec(w, S)[S \ {AnyOf(S)}] = Rec(w, S \ {AnyOf(S)})[S \ {AnyOf(S)}]
  BY RecAgrees
<1> QED BY <1>1, <1>2, SumIsRec

(* A sum of numbers is a number. *)
LEMMA SumType ==
  ASSUME NEW w, NEW S, IsFiniteSet(S), NEW N, N \in {Nat, Int}, \A x \in S : w[x] \in N
  PROVE  SumFunctionOnSet(w, S) \in N
<1> DEFINE T == {n \in Nat : \A s \in SUBSET S : Cardinality(s) = n => SumFunctionOnSet(w, s) \in N}
<1>0. \A s \in SUBSET S : IsFiniteSet(s) /\ Cardinality(s) \in Nat
  BY FS_Subset, FS_CardinalityType
<1>1. 0 \in T
  BY <1>0, FS_EmptySet, SumEmpty
<1>2. ASSUME NEW n \in Nat, n \in T PROVE n + 1 \in T
  <2>1. SUFFICES ASSUME NEW s \in SUBSET S, Cardinality(s) = n + 1
                 PROVE  SumFunctionOnSet(w, s) \in N
    OBVIOUS
  <2>2. s # {}
    BY <2>1, FS_EmptySet
  <2>3. s \ {AnyOf(s)} \in SUBSET S /\ Cardinality(s \ {AnyOf(s)}) = n
    BY <1>0, <2>1, <2>2, SmallerSubset
  <2>4. SumFunctionOnSet(w, s \ {AnyOf(s)}) \in N
    BY <1>2, <2>3
  <2>5. w[AnyOf(s)] \in N
    BY <2>2, AnyOfIn
  <2>6. SumFunctionOnSet(w, s) = w[AnyOf(s)] + SumFunctionOnSet(w, s \ {AnyOf(s)})
    BY <1>0, <2>2, SumAny
  <2> QED BY <2>4, <2>5, <2>6
<1>3. \A n \in Nat : n \in T
  <2> HIDE DEF T
  <2> QED BY <1>1, <1>2, NatInd
<1> QED BY <1>0, <1>3

(* Taking any element out. *)
LEMMA SumRemove ==
  ASSUME NEW w, NEW S, IsFiniteSet(S), \A x \in S : w[x] \in Int, NEW e \in S
  PROVE  SumFunctionOnSet(w, S) = w[e] + SumFunctionOnSet(w, S \ {e})
<1> DEFINE T == {n \in Nat : \A s \in SUBSET S : Cardinality(s) = n =>
                   \A x \in s : SumFunctionOnSet(w, s) = w[x] + SumFunctionOnSet(w, s \ {x})}
<1>0. \A s \in SUBSET S : IsFiniteSet(s) /\ Cardinality(s) \in Nat /\ SumFunctionOnSet(w, s) \in Int
  BY FS_Subset, FS_CardinalityType, SumType
<1>1. 0 \in T
  BY <1>0, FS_EmptySet
<1>2. ASSUME NEW n \in Nat, n \in T PROVE n + 1 \in T
  <2>1. SUFFICES ASSUME NEW s \in SUBSET S, Cardinality(s) = n + 1, NEW x \in s
                 PROVE  SumFunctionOnSet(w, s) = w[x] + SumFunctionOnSet(w, s \ {x})
    OBVIOUS
  <2> DEFINE a == AnyOf(s)
  <2>2. a \in s
    BY <2>1, AnyOfIn
  <2>3. SumFunctionOnSet(w, s) = w[a] + SumFunctionOnSet(w, s \ {a})
    BY <1>0, <2>1, SumAny
  <2>4. CASE a = x
    BY <2>3, <2>4
  <2>5. CASE a # x
    <3> DEFINE b == AnyOf(s \ {x})
    <3>1. x \in s \ {a} /\ s \ {a} \in SUBSET S /\ Cardinality(s \ {a}) = n
      BY <1>0, <2>1, <2>2, <2>5, SmallerSubset
    <3>2. SumFunctionOnSet(w, s \ {a}) = w[x] + SumFunctionOnSet(w, (s \ {a}) \ {x})
      BY <1>2, <3>1
    <3>3. s \ {x} \in SUBSET S /\ a \in s \ {x} /\ Cardinality(s \ {x}) = n
      <4>1. IsFiniteSet(s) /\ Cardinality(s \ {x}) = Cardinality(s) - 1
        BY <1>0, <2>1, FS_RemoveElement
      <4>2. a \in s \ {x}
        BY <2>2, <2>5
      <4> QED BY <2>1, <4>1, <4>2
    <3>4. SumFunctionOnSet(w, s \ {x}) = w[a] + SumFunctionOnSet(w, (s \ {x}) \ {a})
      <4> HIDE DEF a
      <4> QED BY <1>2, <3>3
    <3>5. SumFunctionOnSet(w, (s \ {a}) \ {x}) = SumFunctionOnSet(w, (s \ {x}) \ {a})
      <4>1. (s \ {a}) \ {x} = (s \ {x}) \ {a}
        OBVIOUS
      <4> QED BY <4>1
    <3>6. /\ w[a] \in Int /\ w[x] \in Int
          /\ SumFunctionOnSet(w, (s \ {x}) \ {a}) \in Int
      BY <1>0, <2>1, <2>2
    <3> HIDE DEF a
    <3> QED BY <2>3, <3>2, <3>4, <3>5, <3>6
  <2> QED BY <2>4, <2>5
<1>3. \A n \in Nat : n \in T
  <2> HIDE DEF T
  <2> QED BY <1>1, <1>2, NatInd
<1> QED BY <1>0, <1>3

(* The same, of natural numbers. *)
LEMMA SumTakeOut ==
  ASSUME NEW w, NEW S, IsFiniteSet(S), \A x \in S : w[x] \in Nat, NEW e \in S
  PROVE  /\ SumFunctionOnSet(w, S) = w[e] + SumFunctionOnSet(w, S \ {e})
         /\ SumFunctionOnSet(w, S \ {e}) \in Nat
<1>1. SumFunctionOnSet(w, S) = w[e] + SumFunctionOnSet(w, S \ {e})
  BY SumRemove
<1>2. IsFiniteSet(S \ {e})
  BY FS_RemoveElement
<1>3. SumFunctionOnSet(w, S \ {e}) \in Nat
  BY <1>2, SumType
<1> QED BY <1>1, <1>3

(* Adding an element. *)
LEMMA SumAdd ==
  ASSUME NEW w, NEW S, IsFiniteSet(S), NEW e, e \notin S, \A x \in S \cup {e} : w[x] \in Int
  PROVE  SumFunctionOnSet(w, S \cup {e}) = w[e] + SumFunctionOnSet(w, S)
<1>1. (S \cup {e}) \ {e} = S /\ IsFiniteSet(S \cup {e})
  BY FS_AddElement
<1> QED BY <1>1, SumRemove

(* A sum depends on the weights of its elements only. *)
LEMMA SumSame ==
  ASSUME NEW v, NEW w, NEW S, IsFiniteSet(S), \A x \in S : v[x] = w[x]
  PROVE  SumFunctionOnSet(v, S) = SumFunctionOnSet(w, S)
<1> DEFINE T == {n \in Nat : \A s \in SUBSET S : Cardinality(s) = n =>
                   SumFunctionOnSet(v, s) = SumFunctionOnSet(w, s)}
<1>0. \A s \in SUBSET S : IsFiniteSet(s) /\ Cardinality(s) \in Nat
  BY FS_Subset, FS_CardinalityType
<1>1. 0 \in T
  BY <1>0, FS_EmptySet, SumEmpty
<1>2. ASSUME NEW n \in Nat, n \in T PROVE n + 1 \in T
  <2>1. SUFFICES ASSUME NEW s \in SUBSET S, Cardinality(s) = n + 1
                 PROVE  SumFunctionOnSet(v, s) = SumFunctionOnSet(w, s)
    OBVIOUS
  <2>2. s # {} /\ AnyOf(s) \in s
    BY <2>1, FS_EmptySet, AnyOfIn
  <2>3. s \ {AnyOf(s)} \in SUBSET S /\ Cardinality(s \ {AnyOf(s)}) = n
    BY <1>0, <2>1, <2>2, SmallerSubset
  <2>4. SumFunctionOnSet(v, s \ {AnyOf(s)}) = SumFunctionOnSet(w, s \ {AnyOf(s)})
    BY <1>2, <2>3
  <2>5. v[AnyOf(s)] = w[AnyOf(s)]
    BY <2>2
  <2> QED BY <1>0, <2>2, <2>4, <2>5, SumAny
<1>3. \A n \in Nat : n \in T
  <2> HIDE DEF T
  <2> QED BY <1>1, <1>2, NatInd
<1> QED BY <1>0, <1>3

(* A sum is that of a part and that of the rest. *)
LEMMA SumSplit ==
  ASSUME NEW w, NEW S, IsFiniteSet(S), \A x \in S : w[x] \in Nat, NEW U \in SUBSET S
  PROVE  /\ SumFunctionOnSet(w, S) = SumFunctionOnSet(w, U) + SumFunctionOnSet(w, S \ U)
         /\ SumFunctionOnSet(w, U) \in Nat /\ SumFunctionOnSet(w, S \ U) \in Nat
<1> DEFINE T == {n \in Nat : \A u \in SUBSET S : Cardinality(u) = n =>
                   SumFunctionOnSet(w, S) = SumFunctionOnSet(w, u) + SumFunctionOnSet(w, S \ u)}
<1>0. \A s \in SUBSET S : IsFiniteSet(s) /\ Cardinality(s) \in Nat /\ SumFunctionOnSet(w, s) \in Nat
  BY FS_Subset, FS_CardinalityType, SumType
<1>1. 0 \in T
  <2>1. ASSUME NEW u \in SUBSET S, Cardinality(u) = 0
        PROVE  SumFunctionOnSet(w, S) = SumFunctionOnSet(w, u) + SumFunctionOnSet(w, S \ u)
    <3>1. u = {} /\ S \ u = S
      BY <1>0, <2>1, FS_EmptySet
    <3> QED BY <1>0, <3>1, SumEmpty
  <2> QED BY <2>1
<1>2. ASSUME NEW n \in Nat, n \in T PROVE n + 1 \in T
  <2>1. SUFFICES ASSUME NEW u \in SUBSET S, Cardinality(u) = n + 1
                 PROVE  SumFunctionOnSet(w, S) = SumFunctionOnSet(w, u) + SumFunctionOnSet(w, S \ u)
    OBVIOUS
  <2>2. u # {} /\ AnyOf(u) \in u
    BY <2>1, FS_EmptySet, AnyOfIn
  <2> DEFINE x == AnyOf(u)
             t == u \ {x}
  <2>3. x \in u /\ t \in SUBSET S /\ Cardinality(t) = n
    BY <1>0, <2>1, <2>2, SmallerSubset
  <2> HIDE DEF x
  <2>4. SumFunctionOnSet(w, S) = SumFunctionOnSet(w, t) + SumFunctionOnSet(w, S \ t)
    BY <1>2, <2>3
  <2>5. SumFunctionOnSet(w, u) = w[x] + SumFunctionOnSet(w, t)
    BY <1>0, <2>3, SumTakeOut
  <2>6. SumFunctionOnSet(w, S \ t) = w[x] + SumFunctionOnSet(w, S \ u)
    <3>1. x \in S \ t /\ (S \ t) \ {x} = S \ u
      BY <2>3
    <3>2. IsFiniteSet(S \ t) /\ \A y \in S \ t : w[y] \in Nat
      BY <1>0
    <3> HIDE DEF t
    <3> QED BY <3>1, <3>2, SumTakeOut
  <2>7. w[x] \in Nat /\ SumFunctionOnSet(w, t) \in Nat /\ SumFunctionOnSet(w, S \ u) \in Nat
    BY <1>0, <2>3
  <2> HIDE DEF t
  <2> QED BY <2>4, <2>5, <2>6, <2>7
<1>3. \A n \in Nat : n \in T
  <2> HIDE DEF T
  <2> QED BY <1>1, <1>2, NatInd
<1> QED BY <1>0, <1>3

(* Changing one weight. *)
LEMMA SumChange ==
  ASSUME NEW v, NEW w, NEW S, IsFiniteSet(S), NEW e \in S,
         \A x \in S : v[x] \in Nat /\ w[x] \in Nat,
         \A x \in S \ {e} : v[x] = w[x]
  PROVE  SumFunctionOnSet(v, S) = SumFunctionOnSet(w, S) - w[e] + v[e]
<1>1. /\ SumFunctionOnSet(v, S) = v[e] + SumFunctionOnSet(v, S \ {e})
      /\ SumFunctionOnSet(w, S) = w[e] + SumFunctionOnSet(w, S \ {e})
      /\ SumFunctionOnSet(w, S \ {e}) \in Nat
  BY SumTakeOut
<1>2. SumFunctionOnSet(v, S \ {e}) = SumFunctionOnSet(w, S \ {e})
  <2>1. IsFiniteSet(S \ {e})
    BY FS_RemoveElement
  <2> QED BY <2>1, SumSame
<1>3. v[e] \in Nat /\ w[e] \in Nat
  OBVIOUS
<1> QED BY <1>1, <1>2, <1>3

(* 1 or 0, as e is in S or not. *)
One(e, S) == IF e \in S THEN 1 ELSE 0

(* The size of a set, when one element enters or leaves it. *)
LEMMA CardChange ==
  ASSUME NEW S, NEW T, NEW e, IsFiniteSet(S), \A x : x # e => (x \in S <=> x \in T)
  PROVE  /\ IsFiniteSet(T) /\ Cardinality(S) \in Nat
         /\ Cardinality(T) = Cardinality(S) - One(e, S) + One(e, T)
<1>1. CASE e \in S /\ e \in T
  <2>1. S = T
    BY <1>1
  <2> QED BY <1>1, <2>1, FS_CardinalityType DEF One
<1>2. CASE e \notin S /\ e \notin T
  <2>1. S = T
    BY <1>2
  <2> QED BY <1>2, <2>1, FS_CardinalityType DEF One
<1>3. CASE e \in S /\ e \notin T
  <2>1. T = S \ {e}
    BY <1>3
  <2> QED BY <1>3, <2>1, FS_CardinalityType, FS_RemoveElement DEF One
<1>4. CASE e \notin S /\ e \in T
  <2>1. T = S \cup {e}
    BY <1>4
  <2> QED BY <1>4, <2>1, FS_CardinalityType, FS_AddElement DEF One
<1> QED BY <1>1, <1>2, <1>3, <1>4

(* A function's sum when one of its values changes. *)
LEMMA SumStep ==
  ASSUME NEW D, IsFiniteSet(D), NEW v \in [D -> Nat], NEW w \in [D -> Nat], NEW e \in D,
         \A x \in D \ {e} : v[x] = w[x]
  PROVE  /\ SumFunction(v) = SumFunction(w) - w[e] + v[e]
         /\ SumFunction(w) \in Nat
<1>1. SumFunction(v) = SumFunctionOnSet(v, D) /\ SumFunction(w) = SumFunctionOnSet(w, D)
  BY DEF SumFunction, SumFunctionOnSet, FoldFunction
<1>2. SumFunctionOnSet(v, D) = SumFunctionOnSet(w, D) - w[e] + v[e]
  BY SumChange
<1>3. SumFunctionOnSet(w, D) \in Nat
  BY SumType
<1> QED BY <1>1, <1>2, <1>3

(* A sum of zeros. *)
LEMMA SumZero ==
  ASSUME NEW D, IsFiniteSet(D), NEW w \in [D -> {0}]
  PROVE  SumFunction(w) = 0
<1> DEFINE T == {n \in Nat : \A s \in SUBSET D : Cardinality(s) = n => SumFunctionOnSet(w, s) = 0}
<1>0. \A s \in SUBSET D : IsFiniteSet(s) /\ Cardinality(s) \in Nat
  BY FS_Subset, FS_CardinalityType
<1>1. 0 \in T
  BY <1>0, FS_EmptySet, SumEmpty
<1>2. ASSUME NEW n \in Nat, n \in T PROVE n + 1 \in T
  <2>1. SUFFICES ASSUME NEW s \in SUBSET D, Cardinality(s) = n + 1 PROVE SumFunctionOnSet(w, s) = 0
    OBVIOUS
  <2>2. s # {} /\ AnyOf(s) \in s
    BY <2>1, FS_EmptySet, AnyOfIn
  <2>3. s \ {AnyOf(s)} \in SUBSET D /\ Cardinality(s \ {AnyOf(s)}) = n
    BY <1>0, <2>1, <2>2, SmallerSubset
  <2>4. SumFunctionOnSet(w, s \ {AnyOf(s)}) = 0
    BY <1>2, <2>3
  <2>5. w[AnyOf(s)] = 0
    BY <2>2
  <2> QED BY <1>0, <2>2, <2>4, <2>5, SumAny
<1>3. \A n \in Nat : n \in T
  <2> HIDE DEF T
  <2> QED BY <1>1, <1>2, NatInd
<1>4. SumFunction(w) = SumFunctionOnSet(w, D)
  BY DEF SumFunction, SumFunctionOnSet, FoldFunction
<1> QED BY <1>0, <1>3, <1>4

(* The sum of a function is that over its domain. *)
LEMMA SumOf ==
  ASSUME NEW D, IsFiniteSet(D), NEW w \in [D -> Nat]
  PROVE  SumFunction(w) = SumFunctionOnSet(w, D) /\ SumFunction(w) \in Nat
<1>1. SumFunction(w) = SumFunctionOnSet(w, D)
  BY DEF SumFunction, SumFunctionOnSet, FoldFunction
<1>2. SumFunctionOnSet(w, D) \in Nat
  BY SumType
<1> QED BY <1>1, <1>2

(* A function's sum when its domain gains an element. *)
LEMMA SumGrow ==
  ASSUME NEW D, IsFiniteSet(D), NEW e, e \notin D, NEW E, E = D \cup {e},
         NEW v \in [E -> Nat], NEW w \in [D -> Nat], \A x \in D : v[x] = w[x]
  PROVE  /\ SumFunction(v) = SumFunction(w) + v[e]
         /\ SumFunction(w) \in Nat
<1>1. IsFiniteSet(D \cup {e})
  BY FS_AddElement
<1>2. SumFunction(v) = SumFunctionOnSet(v, E) /\ SumFunction(w) = SumFunctionOnSet(w, D)
  BY <1>1, SumOf
<1>3. SumFunctionOnSet(v, D \cup {e}) = v[e] + SumFunctionOnSet(v, D)
  BY SumAdd
<1>4. SumFunctionOnSet(v, D) = SumFunctionOnSet(w, D)
  BY SumSame
<1>5. SumFunctionOnSet(w, D) \in Nat /\ v[e] \in Nat
  BY SumType
<1> QED BY <1>2, <1>3, <1>4, <1>5

(* The sum of a sequence of numbers when one is appended. *)
LEMMA SumAppend ==
  ASSUME NEW n \in Nat, NEW v \in [1 .. n + 1 -> Nat], NEW w \in [1 .. n -> Nat],
         \A i \in 1 .. n : v[i] = w[i]
  PROVE  /\ SumFunction(v) = SumFunction(w) + v[n + 1]
         /\ SumFunction(w) \in Nat
<1>1. PICK m, D, E : m = n + 1 /\ D = 1 .. n /\ E = 1 .. n + 1
  OBVIOUS
<1>2. IsFiniteSet(D)
  BY <1>1, FS_Interval
<1>3. m \notin D /\ E = D \cup {m}
  BY <1>1
<1>4. v \in [E -> Nat] /\ w \in [D -> Nat] /\ \A x \in D : v[x] = w[x]
  BY <1>1
<1>5. SumFunction(v) = SumFunction(w) + v[m] /\ SumFunction(w) \in Nat
  BY <1>2, <1>3, <1>4, SumGrow
<1> QED BY <1>1, <1>5

(* A sum over a set is that over another its elements correspond to. *)
LEMMA SumReindex ==
  ASSUME NEW S, IsFiniteSet(S), NEW T, NEW g \in [S -> T],
         \A x, y \in S : g[x] = g[y] => x = y, \A z \in T : \E x \in S : g[x] = z,
         NEW v \in [S -> Nat], NEW w \in [T -> Nat], \A x \in S : v[x] = w[g[x]]
  PROVE  SumFunction(v) = SumFunction(w)
<1> DEFINE Im(s) == {g[x] : x \in s}
           U == {n \in Nat : \A s \in SUBSET S : Cardinality(s) = n =>
                   SumFunctionOnSet(v, s) = SumFunctionOnSet(w, Im(s))}
<1>0. /\ \A s \in SUBSET S : IsFiniteSet(s) /\ Cardinality(s) \in Nat
      /\ IsFiniteSet(T)
  <2>1. g \in Surjection(S, T)
    BY Fun_IsSurj
  <2> QED BY <2>1, FS_Subset, FS_CardinalityType, FS_Surjection
<1>1. 0 \in U
  <2>1. Im({}) = {}
    OBVIOUS
  <2> QED BY <1>0, <2>1, FS_EmptySet, SumEmpty
<1>2. ASSUME NEW n \in Nat, n \in U PROVE n + 1 \in U
  <2>1. SUFFICES ASSUME NEW s \in SUBSET S, Cardinality(s) = n + 1
                 PROVE  SumFunctionOnSet(v, s) = SumFunctionOnSet(w, Im(s))
    OBVIOUS
  <2>2. s # {} /\ AnyOf(s) \in s
    <3>1. Cardinality(s) # 0
      BY <2>1
    <3>2. s # {}
      BY <3>1, FS_EmptySet
    <3> QED BY <3>2, AnyOfIn
  <2> DEFINE a == AnyOf(s)
  <2>3. a \in s /\ a \in S
    BY <2>2
  <2>4. s \ {a} \in SUBSET S /\ Cardinality(s \ {a}) = n
    BY <1>0, <2>1, <2>2, SmallerSubset
  <2> HIDE DEF a
  <2>5. SumFunctionOnSet(v, s \ {a}) = SumFunctionOnSet(w, Im(s \ {a}))
    BY <1>2, <2>4
  <2>6. Im(s \ {a}) = Im(s) \ {g[a]} /\ g[a] \in Im(s) /\ Im(s) \in SUBSET T
    BY <2>3
  <2>7. SumFunctionOnSet(v, s) = v[a] + SumFunctionOnSet(v, s \ {a})
    BY <1>0, <2>1, <2>3, SumTakeOut
  <2>8. IsFiniteSet(Im(s)) /\ \A z \in Im(s) : w[z] \in Nat
    BY <1>0, <2>6, FS_Subset
  <2> HIDE DEF Im
  <2>9. SumFunctionOnSet(w, Im(s)) = w[g[a]] + SumFunctionOnSet(w, Im(s) \ {g[a]})
    BY <2>6, <2>8, SumTakeOut
  <2>10. v[a] = w[g[a]]
    BY <2>3
  <2> QED BY <2>5, <2>6, <2>7, <2>9, <2>10
<1>3. \A n \in Nat : n \in U
  <2> HIDE DEF U
  <2> QED BY <1>1, <1>2, NatInd
<1>4. Im(S) = T
  OBVIOUS
<1>5. SumFunctionOnSet(v, S) = SumFunctionOnSet(w, T)
  <2>1. SumFunctionOnSet(v, S) = SumFunctionOnSet(w, Im(S))
    BY <1>0, <1>3
  <2> QED BY <1>4, <2>1
<1> QED BY <1>0, <1>5, SumOf

(* Sums, in two scales, between whose terms there is a bound. *)
LEMMA SumBetween ==
  ASSUME NEW D, IsFiniteSet(D), NEW v \in [D -> Nat], NEW w \in [D -> Nat],
         NEW a \in Nat, NEW b \in Nat, NEW c \in Nat,
         \A x \in D : b * w[x] <= a * v[x] + c /\ a * v[x] <= b * w[x] + c
  PROVE  /\ b * SumFunction(w) <= a * SumFunction(v) + c * Cardinality(D)
         /\ a * SumFunction(v) <= b * SumFunction(w) + c * Cardinality(D)
<1> DEFINE Close(x, y, d) == b * y <= a * x + d /\ a * x <= b * y + d
           Bounded(s, n) == Close(SumFunctionOnSet(v, s), SumFunctionOnSet(w, s), c * n)
           U == {n \in Nat : \A s \in SUBSET D : Cardinality(s) = n => Bounded(s, n)}
<1>0. \A s \in SUBSET D : IsFiniteSet(s) /\ Cardinality(s) \in Nat
  BY FS_Subset, FS_CardinalityType
<1>1. 0 \in U
  <2>1. SumFunctionOnSet(v, {}) = 0 /\ SumFunctionOnSet(w, {}) = 0
    BY SumEmpty
  <2>2. a * 0 = 0 /\ b * 0 = 0 /\ c * 0 = 0
    OBVIOUS
  <2>3. Bounded({}, 0)
    BY <2>1, <2>2
  <2>4. \A s \in SUBSET D : Cardinality(s) = 0 => s = {}
    BY <1>0, FS_EmptySet
  <2> QED BY <2>3, <2>4
<1>2. ASSUME NEW n \in Nat, n \in U PROVE n + 1 \in U
  <2>1. SUFFICES ASSUME NEW s \in SUBSET D, Cardinality(s) = n + 1 PROVE Bounded(s, n + 1)
    OBVIOUS
  <2>2. s # {} /\ AnyOf(s) \in s
    <3>1. Cardinality(s) # 0
      BY <2>1
    <3>2. s # {}
      BY <3>1, FS_EmptySet
    <3> QED BY <3>2, AnyOfIn
  <2> DEFINE e == AnyOf(s)
  <2>3. e \in s /\ e \in D
    BY <2>2
  <2>4. s \ {e} \in SUBSET D /\ Cardinality(s \ {e}) = n
    <3>1. e = AnyOf(s) /\ s \in SUBSET D /\ s # {}
      BY <2>1, <2>2
    <3> HIDE DEF e
    <3>2. /\ s \ {e} \in SUBSET D
          /\ Cardinality(s) \in Nat /\ Cardinality(s \ {e}) = Cardinality(s) - 1
      BY <3>1, SmallerSubset
    <3> QED BY <2>1, <3>2
  <2> HIDE DEF e
  <2>5. /\ SumFunctionOnSet(v, s) = v[e] + SumFunctionOnSet(v, s \ {e})
        /\ SumFunctionOnSet(w, s) = w[e] + SumFunctionOnSet(w, s \ {e})
        /\ SumFunctionOnSet(v, s \ {e}) \in Nat /\ SumFunctionOnSet(w, s \ {e}) \in Nat
    <3>1. IsFiniteSet(s)
      BY <1>0
    <3>2. \A x \in s : v[x] \in Nat
      OBVIOUS
    <3>3. \A x \in s : w[x] \in Nat
      OBVIOUS
    <3>4. SumFunctionOnSet(v, s) = v[e] + SumFunctionOnSet(v, s \ {e}) /\ SumFunctionOnSet(v, s \ {e}) \in Nat
      BY <2>3, <3>1, <3>2, SumTakeOut
    <3>5. SumFunctionOnSet(w, s) = w[e] + SumFunctionOnSet(w, s \ {e}) /\ SumFunctionOnSet(w, s \ {e}) \in Nat
      BY <2>3, <3>1, <3>3, SumTakeOut
    <3> QED BY <3>4, <3>5
  <2>6. PICK x, y, X, Y : /\ x = v[e] /\ y = w[e]
                          /\ X = SumFunctionOnSet(v, s \ {e}) /\ Y = SumFunctionOnSet(w, s \ {e})
    OBVIOUS
  <2>7. {x, y, X, Y} \subseteq Nat /\ Close(x, y, c) /\ Close(X, Y, c * n)
    BY <1>2, <2>3, <2>4, <2>5, <2>6
  <2>8. /\ c * (n + 1) = c * n + c /\ a * (x + X) = a * x + a * X /\ b * (y + Y) = b * y + b * Y
        /\ {c * n, a * x, a * X, b * y, b * Y} \subseteq Nat
    BY <2>7
  <2>9. Close(x + X, y + Y, c * (n + 1))
    BY <2>7, <2>8
  <2> QED BY <2>5, <2>6, <2>9
<1>3. \A n \in Nat : n \in U
  <2> HIDE DEF U
  <2> QED BY <1>1, <1>2, NatInd
<1>4. Bounded(D, Cardinality(D))
  BY <1>0, <1>3
<1> QED BY <1>4, SumOf

(* A sum whose terms are no more than so many times another's. *)
LEMMA SumTimes ==
  ASSUME NEW D, IsFiniteSet(D), NEW v \in [D -> Nat], NEW w \in [D -> Nat], NEW c \in Nat,
         \A x \in D : v[x] <= c * w[x]
  PROVE  SumFunction(v) <= c * SumFunction(w)
<1> DEFINE U == {n \in Nat : \A s \in SUBSET D : Cardinality(s) = n =>
                   SumFunctionOnSet(v, s) <= c * SumFunctionOnSet(w, s)}
<1>0. \A s \in SUBSET D : IsFiniteSet(s) /\ Cardinality(s) \in Nat
  BY FS_Subset, FS_CardinalityType
<1>1. 0 \in U
  <2>1. SumFunctionOnSet(v, {}) = 0 /\ SumFunctionOnSet(w, {}) = 0
    BY SumEmpty
  <2>2. c * 0 = 0
    OBVIOUS
  <2>3. SumFunctionOnSet(v, {}) <= c * SumFunctionOnSet(w, {})
    BY <2>1, <2>2
  <2>4. \A s \in SUBSET D : Cardinality(s) = 0 => s = {}
    BY <1>0, FS_EmptySet
  <2> QED BY <2>3, <2>4
<1>2. ASSUME NEW n \in Nat, n \in U PROVE n + 1 \in U
  <2>1. SUFFICES ASSUME NEW s \in SUBSET D, Cardinality(s) = n + 1
                 PROVE  SumFunctionOnSet(v, s) <= c * SumFunctionOnSet(w, s)
    OBVIOUS
  <2>2. s # {} /\ AnyOf(s) \in s
    <3>1. Cardinality(s) # 0
      BY <2>1
    <3>2. s # {}
      BY <3>1, FS_EmptySet
    <3> QED BY <3>2, AnyOfIn
  <2> DEFINE a == AnyOf(s)
  <2>3. a \in s /\ a \in D
    BY <2>2
  <2>4. s \ {a} \in SUBSET D /\ Cardinality(s \ {a}) = n
    <3>1. a = AnyOf(s) /\ s \in SUBSET D /\ s # {}
      BY <2>1, <2>2
    <3> HIDE DEF a
    <3>2. /\ s \ {a} \in SUBSET D
          /\ Cardinality(s) \in Nat /\ Cardinality(s \ {a}) = Cardinality(s) - 1
      BY <3>1, SmallerSubset
    <3> QED BY <2>1, <3>2
  <2> HIDE DEF a
  <2>5. /\ SumFunctionOnSet(v, s) = v[a] + SumFunctionOnSet(v, s \ {a})
        /\ SumFunctionOnSet(w, s) = w[a] + SumFunctionOnSet(w, s \ {a})
        /\ SumFunctionOnSet(v, s \ {a}) \in Nat /\ SumFunctionOnSet(w, s \ {a}) \in Nat
    <3>1. IsFiniteSet(s)
      BY <1>0
    <3>2. \A x \in s : v[x] \in Nat
      OBVIOUS
    <3>3. \A x \in s : w[x] \in Nat
      OBVIOUS
    <3>4. SumFunctionOnSet(v, s) = v[a] + SumFunctionOnSet(v, s \ {a}) /\ SumFunctionOnSet(v, s \ {a}) \in Nat
      BY <2>3, <3>1, <3>2, SumTakeOut
    <3>5. SumFunctionOnSet(w, s) = w[a] + SumFunctionOnSet(w, s \ {a}) /\ SumFunctionOnSet(w, s \ {a}) \in Nat
      BY <2>3, <3>1, <3>3, SumTakeOut
    <3> QED BY <3>4, <3>5
  <2>6. PICK x, y, p, q : /\ x = v[a] /\ y = w[a]
                          /\ p = SumFunctionOnSet(v, s \ {a}) /\ q = SumFunctionOnSet(w, s \ {a})
    OBVIOUS
  <2>7. {x, y, p, q} \subseteq Nat /\ x <= c * y /\ p <= c * q
    BY <1>2, <2>3, <2>4, <2>5, <2>6
  <2>8. c * (y + q) = c * y + c * q /\ c * y \in Nat /\ c * q \in Nat
    BY <2>7
  <2>9. x + p <= c * (y + q)
    BY <2>7, <2>8
  <2> QED BY <2>5, <2>6, <2>9
<1>3. \A n \in Nat : n \in U
  <2> HIDE DEF U
  <2> QED BY <1>1, <1>2, NatInd
<1>4. SumFunctionOnSet(v, D) <= c * SumFunctionOnSet(w, D)
  BY <1>0, <1>3
<1> QED BY <1>4, SumOf

(* No term is more than the sum. *)
LEMMA SumTerm ==
  ASSUME NEW D, IsFiniteSet(D), NEW w \in [D -> Nat], NEW e \in D
  PROVE  w[e] <= SumFunction(w)
<1>1. /\ SumFunctionOnSet(w, D) = w[e] + SumFunctionOnSet(w, D \ {e})
      /\ SumFunctionOnSet(w, D \ {e}) \in Nat
  BY SumTakeOut
<1> QED BY <1>1, SumOf

(* Zeros may be added. *)
LEMMA SumPadded ==
  ASSUME NEW E, IsFiniteSet(E), NEW D \in SUBSET E, NEW v \in [E -> Nat], NEW w \in [D -> Nat],
         \A x \in D : v[x] = w[x], \A x \in E \ D : v[x] = 0
  PROVE  SumFunction(v) = SumFunction(w)
<1>1. IsFiniteSet(D) /\ IsFiniteSet(E \ D)
  BY FS_Subset
<1>2. SumFunction(v) = SumFunctionOnSet(v, D) + SumFunctionOnSet(v, E \ D)
  BY SumSplit, SumOf
<1>3. SumFunctionOnSet(v, D) = SumFunction(w)
  BY <1>1, SumSame, SumOf
<1>4. SumFunctionOnSet(v, E \ D) = 0
  <2> DEFINE z == [x \in E \ D |-> 0]
  <2>1. z \in [E \ D -> {0}] /\ z \in [E \ D -> Nat] /\ \A x \in E \ D : v[x] = z[x]
    OBVIOUS
  <2> HIDE DEF z
  <2>2. SumFunctionOnSet(v, E \ D) = SumFunctionOnSet(z, E \ D)
    BY <1>1, <2>1, SumSame
  <2>3. SumFunctionOnSet(z, E \ D) = SumFunction(z) /\ SumFunction(z) = 0
    BY <1>1, <2>1, SumOf, SumZero
  <2> QED BY <2>2, <2>3
<1>5. SumFunction(w) \in Nat
  BY <1>1, SumOf
<1> QED BY <1>2, <1>3, <1>4, <1>5
================================================================================
