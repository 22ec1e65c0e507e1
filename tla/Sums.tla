-------------------------------- MODULE Sums --------------------------------
(***************************************************************************)
(* Sums over finite sets: what SumFunctionOnSet of the community modules   *)
(* returns, whatever order it takes the elements in.                       *)
(***************************************************************************)
EXTENDS Integers, FiniteSets, Functions, FiniteSetTheorems, TLAPS

\* Induction over the subsets of a finite set, without an operator parameter:
\* a family of subsets that is not empty has one with none below it.
LEMMA SmallestSubset ==
  ASSUME NEW S, IsFiniteSet(S), NEW F, F \subseteq SUBSET S, F # {}
  PROVE  \E T \in F : \A U \in F : U \subseteq T => U = T
<1>1. F \subseteq FiniteSubsetsOf(S)
  BY FS_FiniteSubsetsOfFinite
<1>2. PICK T \in F : \A U \in F : ~(<<U, T>> \in StrictSubsetOrdering(S))
  BY <1>1, WFMin, FS_StrictSubsetOrderingWellFounded
<1>3. QED
  BY <1>2 DEF StrictSubsetOrdering

\* The element a sum takes first.
First(s) == CHOOSE x \in s : TRUE

\* g is the recursive function that sums f over the subsets of S.
Sums(g, f, S) ==
    g = [s \in SUBSET S |-> IF s = {} THEN 0 ELSE f[First(s)] + g[s \ {First(s)}]]

LEMMA SumIsChosen ==
  ASSUME NEW f, NEW S
  PROVE  SumFunctionOnSet(f, S) = (CHOOSE g : Sums(g, f, S))[S]
  BY DEF SumFunctionOnSet, FoldFunctionOnSet, MapThenFoldSet, Sums, First

\* Two such functions agree on the sets both are defined on.
LEMMA SumsAgree ==
  ASSUME NEW f, NEW S, NEW T, NEW g, NEW h, Sums(g, f, S), Sums(h, f, T),
         NEW U \in SUBSET (S \cap T), IsFiniteSet(U)
  PROVE  g[U] = h[U]
<1> DEFINE F == {V \in SUBSET U : g[V] # h[V]}
<1> SUFFICES ASSUME F # {} PROVE FALSE
  OBVIOUS
<1>0. F \subseteq SUBSET U
  OBVIOUS
<1>1. PICK V \in F : \A W \in F : W \subseteq V => W = V
  <2> HIDE DEF F
  <2> QED
    BY <1>0, SmallestSubset
<1>2. V # {}
  BY <1>1 DEF Sums
<1>3. First(V) \in V
  BY <1>2 DEF First
<1>4. V \ {First(V)} \in SUBSET U /\ V \ {First(V)} # V
  BY <1>1, <1>3
<1>5. g[V \ {First(V)}] = h[V \ {First(V)}]
  BY <1>1, <1>4
<1>6. /\ g[V] = f[First(V)] + g[V \ {First(V)}]
      /\ h[V] = f[First(V)] + h[V \ {First(V)}]
  BY <1>1, <1>2 DEF Sums
<1>7. QED
  BY <1>1, <1>5, <1>6

LEMMA SumsExist ==
  ASSUME NEW f, NEW S, IsFiniteSet(S)
  PROVE  \E g : Sums(g, f, S)
<1> DEFINE F == {V \in SUBSET S : ~\E g : Sums(g, f, V)}
           Of(V) == CHOOSE g : Sums(g, f, V)
<1> SUFFICES ASSUME F # {} PROVE FALSE
  OBVIOUS
<1>0. F \subseteq SUBSET S
  OBVIOUS
<1>1. PICK V \in F : \A W \in F : W \subseteq V => W = V
  <2> HIDE DEF F
  <2> QED
    BY <1>0, SmallestSubset
<1>2. \A W \in SUBSET V : W # V => Sums(Of(W), f, W)
  <2> SUFFICES ASSUME NEW W \in SUBSET V, W # V PROVE Sums(Of(W), f, W)
    OBVIOUS
  <2>1. \E g : Sums(g, f, W)
    BY <1>1
  <2>2. QED
    BY <2>1
<1> DEFINE G == [s \in SUBSET V |->
                   IF s = {} THEN 0
                   ELSE f[First(s)] + Of(s \ {First(s)})[s \ {First(s)}]]
<1>3. ASSUME NEW s \in SUBSET V, s # {}
      PROVE  G[s \ {First(s)}] = Of(s \ {First(s)})[s \ {First(s)}]
  <2> DEFINE t == s \ {First(s)}
  <2>1. First(s) \in s
    BY <1>3 DEF First
  <2>2. t \in SUBSET V /\ t # V
    BY <2>1
  <2>3. Sums(Of(t), f, t)
    BY <1>2, <2>2
  <2>4. CASE t = {}
    BY <2>2, <2>3, <2>4 DEF Sums
  <2>5. CASE t # {}
    <3> DEFINE r == t \ {First(t)}
    <3>1. First(t) \in t
      BY <2>5 DEF First
    <3>2. r \in SUBSET V /\ r # V /\ r \in SUBSET t
      BY <2>2, <3>1
    <3>3. Sums(Of(r), f, r)
      BY <1>2, <3>2
    <3>4. IsFiniteSet(r)
      BY <3>2, FS_Subset
    <3>5. r \in SUBSET (t \cap r)
      BY <3>2
    <3>6. Of(t)[r] = Of(r)[r]
      <4> HIDE DEF Of, r, t
      <4> QED
        BY <2>3, <3>3, <3>4, <3>5, SumsAgree
    <3>7. Of(t)[t] = f[First(t)] + Of(t)[r]
      <4> HIDE DEF Of
      <4> QED
        BY <2>3, <2>5 DEF Sums
    <3>8. G[t] = f[First(t)] + Of(r)[r]
      BY <2>2, <2>5
    <3>9. QED
      BY <3>6, <3>7, <3>8
  <2>6. QED
    BY <2>4, <2>5
<1>4. Sums(G, f, V)
  <2> HIDE DEF Of
  <2>1. \A s \in SUBSET V :
          G[s] = IF s = {} THEN 0 ELSE f[First(s)] + G[s \ {First(s)}]
    BY <1>3
  <2>2. G = [s \in SUBSET V |-> G[s]]
    OBVIOUS
  <2> HIDE DEF G
  <2>3. QED
    BY <2>1, <2>2 DEF Sums
<1>5. QED
  BY <1>1, <1>4

\* A sum is one of its terms and the sum of the others.
LEMMA SumUnfolds ==
  ASSUME NEW f, NEW S, IsFiniteSet(S)
  PROVE  /\ S = {} => SumFunctionOnSet(f, S) = 0
         /\ S # {} => /\ First(S) \in S
                      /\ SumFunctionOnSet(f, S) =
                           f[First(S)] + SumFunctionOnSet(f, S \ {First(S)})
<1> DEFINE Of(V) == CHOOSE g : Sums(g, f, V)
           T == S \ {First(S)}
<1>1. IsFiniteSet(T)
  BY FS_RemoveElement
<1>2. Sums(Of(S), f, S) /\ Sums(Of(T), f, T)
  BY <1>1, SumsExist
<1>3. /\ SumFunctionOnSet(f, S) = Of(S)[S]
      /\ SumFunctionOnSet(f, T) = Of(T)[T]
  BY SumIsChosen
<1> HIDE DEF Of
<1>4. Of(S)[T] = Of(T)[T]
  BY <1>1, <1>2, SumsAgree
<1>5. S # {} => First(S) \in S
  BY DEF First
<1>6. Of(S)[S] = IF S = {} THEN 0 ELSE f[First(S)] + Of(S)[T]
  BY <1>2 DEF Sums
<1>7. QED
  BY <1>3, <1>4, <1>5, <1>6

-----------------------------------------------------------------------------
(* What the proofs about the models cite.                                  *)

LEMMA SumOfNone == \A f : SumFunctionOnSet(f, {}) = 0
  BY SumUnfolds, FS_EmptySet

\* Functions that agree on a set have the same sum over it.
LEMMA SumSame ==
  ASSUME NEW S, IsFiniteSet(S), NEW f, NEW g, \A x \in S : f[x] = g[x]
  PROVE  SumFunctionOnSet(f, S) = SumFunctionOnSet(g, S)
<1> DEFINE F == {V \in SUBSET S : SumFunctionOnSet(f, V) # SumFunctionOnSet(g, V)}
<1> SUFFICES ASSUME F # {} PROVE FALSE
  OBVIOUS
<1>0. F \subseteq SUBSET S
  OBVIOUS
<1>1. PICK V \in F : \A W \in F : W \subseteq V => W = V
  <2> HIDE DEF F
  <2> QED
    BY <1>0, SmallestSubset
<1>2. IsFiniteSet(V)
  BY <1>1, FS_Subset
<1>3. V # {} /\ First(V) \in V
  BY <1>1, <1>2, SumUnfolds
<1>4. SumFunctionOnSet(f, V \ {First(V)}) = SumFunctionOnSet(g, V \ {First(V)})
  BY <1>1, <1>3
<1>5. QED
  BY <1>1, <1>2, <1>3, <1>4, SumUnfolds

LEMMA SumIsInt ==
  ASSUME NEW S, IsFiniteSet(S), NEW f, \A x \in S : f[x] \in Int
  PROVE  SumFunctionOnSet(f, S) \in Int
<1> DEFINE F == {V \in SUBSET S : SumFunctionOnSet(f, V) \notin Int}
<1> SUFFICES ASSUME F # {} PROVE FALSE
  OBVIOUS
<1>0. F \subseteq SUBSET S
  OBVIOUS
<1>1. PICK V \in F : \A W \in F : W \subseteq V => W = V
  <2> HIDE DEF F
  <2> QED
    BY <1>0, SmallestSubset
<1>2. IsFiniteSet(V)
  BY <1>1, FS_Subset
<1>3. V # {} /\ First(V) \in V
  <2>1. V # {}
    BY <1>1, SumOfNone
  <2>2. QED
    BY <1>2, <2>1, SumUnfolds
<1>4. SumFunctionOnSet(f, V \ {First(V)}) \in Int
  BY <1>1, <1>3
<1>5. QED
  BY <1>1, <1>2, <1>3, <1>4, SumUnfolds

\* Any term may be taken out, not only the one the sum takes first.
LEMMA SumRemove ==
  ASSUME NEW S, IsFiniteSet(S), NEW f, \A x \in S : f[x] \in Int, NEW y \in S
  PROVE  SumFunctionOnSet(f, S) = f[y] + SumFunctionOnSet(f, S \ {y})
<1> DEFINE F == {V \in SUBSET S :
                   \E z \in V : SumFunctionOnSet(f, V) # f[z] + SumFunctionOnSet(f, V \ {z})}
<1> SUFFICES ASSUME F # {} PROVE FALSE
  OBVIOUS
<1>0. F \subseteq SUBSET S
  OBVIOUS
<1>1. PICK V \in F : \A W \in F : W \subseteq V => W = V
  <2> HIDE DEF F
  <2> QED
    BY <1>0, SmallestSubset
<1>2. PICK z \in V : SumFunctionOnSet(f, V) # f[z] + SumFunctionOnSet(f, V \ {z})
  BY <1>1
<1>3. PICK x \in V : SumFunctionOnSet(f, V) = f[x] + SumFunctionOnSet(f, V \ {x})
  <2>1. IsFiniteSet(V) /\ V # {}
    BY <1>1, <1>2, FS_Subset
  <2>2. QED
    BY <2>1, SumUnfolds
<1>4. x # z
  BY <1>2, <1>3
<1>5. V \ {x} \notin F /\ V \ {z} \notin F
  BY <1>1, <1>2, <1>3
<1>6. SumFunctionOnSet(f, V \ {x}) = f[z] + SumFunctionOnSet(f, (V \ {x}) \ {z})
  BY <1>1, <1>2, <1>4, <1>5
<1>7. SumFunctionOnSet(f, V \ {z}) = f[x] + SumFunctionOnSet(f, (V \ {z}) \ {x})
  BY <1>1, <1>3, <1>4, <1>5
<1>8. (V \ {x}) \ {z} = (V \ {z}) \ {x}
  OBVIOUS
<1>9. SumFunctionOnSet(f, (V \ {x}) \ {z}) \in Int
  <2>1. (V \ {x}) \ {z} \in SUBSET S
    BY <1>1
  <2>2. QED
    BY <2>1, FS_Subset, SumIsInt
<1>10. f[x] \in Int /\ f[z] \in Int
  BY <1>0, <1>1, <1>2, <1>3
<1>11. \A a, b, c, d \in Int : c = b + d => a + c = b + (a + d)
  OBVIOUS
<1>12. SumFunctionOnSet(f, V \ {x}) \in Int
  BY <1>6, <1>9, <1>10
<1>13. QED
  BY <1>2, <1>3, <1>6, <1>7, <1>8, <1>9, <1>10, <1>11, <1>12

\* One more element adds its term.
LEMMA SumAdd ==
  ASSUME NEW S, IsFiniteSet(S), NEW f, NEW y, y \notin S, \A x \in S \cup {y} : f[x] \in Int
  PROVE  SumFunctionOnSet(f, S \cup {y}) = f[y] + SumFunctionOnSet(f, S)
<1>1. IsFiniteSet(S \cup {y}) /\ y \in S \cup {y} /\ (S \cup {y}) \ {y} = S
  BY FS_AddElement
<1>2. QED
  BY <1>1, SumRemove

\* A change of one term changes the sum by as much.
LEMMA SumChange ==
  ASSUME NEW S, IsFiniteSet(S), NEW y \in S, NEW f, NEW g,
         \A x \in S : f[x] \in Int /\ g[x] \in Int,
         \A x \in S \ {y} : g[x] = f[x]
  PROVE  SumFunctionOnSet(g, S) = SumFunctionOnSet(f, S) + g[y] - f[y]
<1>1. IsFiniteSet(S \ {y})
  BY FS_RemoveElement
<1>2. SumFunctionOnSet(f, S \ {y}) = SumFunctionOnSet(g, S \ {y})
  BY <1>1, SumSame
<1>3. SumFunctionOnSet(f, S) = f[y] + SumFunctionOnSet(f, S \ {y})
  BY SumRemove
<1>4. SumFunctionOnSet(g, S) = g[y] + SumFunctionOnSet(g, S \ {y})
  BY SumRemove
<1>5. SumFunctionOnSet(f, S \ {y}) \in Int
  BY <1>1, SumIsInt
<1>6. QED
  BY <1>2, <1>3, <1>4, <1>5

\* With terms that are not negative, a part sums to no more than the whole.
LEMMA SumOfPart ==
  ASSUME NEW S, IsFiniteSet(S), NEW T \in SUBSET S, NEW f, \A x \in S : f[x] \in Nat
  PROVE  /\ SumFunctionOnSet(f, S) \in Nat
         /\ SumFunctionOnSet(f, T) \in Nat
         /\ SumFunctionOnSet(f, T) <= SumFunctionOnSet(f, S)
<1> DEFINE F == {V \in SUBSET S :
                   \E W \in SUBSET V : ~(/\ SumFunctionOnSet(f, V) \in Nat
                                         /\ SumFunctionOnSet(f, W) \in Nat
                                         /\ SumFunctionOnSet(f, W) <= SumFunctionOnSet(f, V))}
<1> SUFFICES ASSUME F # {} PROVE FALSE
  OBVIOUS
<1>0. F \subseteq SUBSET S
  OBVIOUS
<1>1. PICK V \in F : \A U \in F : U \subseteq V => U = V
  <2> HIDE DEF F
  <2> QED
    BY <1>0, SmallestSubset
<1>2. PICK W \in SUBSET V : ~(/\ SumFunctionOnSet(f, V) \in Nat
                              /\ SumFunctionOnSet(f, W) \in Nat
                              /\ SumFunctionOnSet(f, W) <= SumFunctionOnSet(f, V))
  BY <1>1
<1>3. IsFiniteSet(V) /\ IsFiniteSet(W) /\ \A x \in V : f[x] \in Nat
  BY <1>1, <1>2, FS_Subset
<1>4. CASE V = {}
  BY <1>2, <1>4, SumOfNone
<1>5. CASE V # {}
  <2>1. PICK y \in V : W = V \/ W \subseteq V \ {y}
    BY <1>5
  <2>2. V \ {y} \notin F
    BY <1>1
  <2>3. V \ {y} \in SUBSET S
    BY <1>1
  <2>4. \A U \in SUBSET (V \ {y}) : /\ SumFunctionOnSet(f, V \ {y}) \in Nat
                                    /\ SumFunctionOnSet(f, U) \in Nat
                                    /\ SumFunctionOnSet(f, U) <= SumFunctionOnSet(f, V \ {y})
    BY <2>2, <2>3
  <2>5. SumFunctionOnSet(f, V) = f[y] + SumFunctionOnSet(f, V \ {y}) /\ f[y] \in Nat
    BY <1>3, SumRemove
  <2>6. SumFunctionOnSet(f, V \ {y}) \in Nat
    BY <2>4
  <2>7. SumFunctionOnSet(f, V) \in Nat /\ SumFunctionOnSet(f, V \ {y}) <= SumFunctionOnSet(f, V)
    BY <2>5, <2>6
  <2>8. CASE W = V
    BY <1>2, <2>7, <2>8
  <2>9. CASE W \subseteq V \ {y}
    BY <1>2, <2>4, <2>6, <2>7, <2>9
  <2>10. QED
    BY <2>1, <2>8, <2>9
<1>6. QED
  BY <1>4, <1>5

\* Where the terms left out are 0, leaving them out changes nothing.
LEMMA SumOfSupport ==
  ASSUME NEW S, IsFiniteSet(S), NEW T \in SUBSET S, NEW f,
         \A x \in S : f[x] \in Int, \A x \in S \ T : f[x] = 0
  PROVE  SumFunctionOnSet(f, S) = SumFunctionOnSet(f, T)
<1> DEFINE F == {V \in SUBSET S : T \subseteq V /\ SumFunctionOnSet(f, V) # SumFunctionOnSet(f, T)}
<1> SUFFICES ASSUME F # {} PROVE FALSE
  OBVIOUS
<1>0. F \subseteq SUBSET S
  OBVIOUS
<1>1. PICK V \in F : \A U \in F : U \subseteq V => U = V
  <2> HIDE DEF F
  <2> QED
    BY <1>0, SmallestSubset
<1>2. /\ V \subseteq S /\ T \subseteq V /\ IsFiniteSet(V) /\ IsFiniteSet(T)
      /\ SumFunctionOnSet(f, V) # SumFunctionOnSet(f, T)
  BY <1>1, FS_Subset
<1>3. PICK y \in V : y \notin T
  BY <1>2
<1>4. SumFunctionOnSet(f, V \ {y}) = SumFunctionOnSet(f, T)
  BY <1>1, <1>2, <1>3
<1>5. SumFunctionOnSet(f, V) = f[y] + SumFunctionOnSet(f, V \ {y}) /\ f[y] = 0
  BY <1>2, <1>3, SumRemove
<1>6. SumFunctionOnSet(f, T) \in Int
  BY <1>2, SumIsInt
<1>7. QED
  BY <1>2, <1>4, <1>5, <1>6

\* A sum of ones counts.
LEMMA SumOfOnes ==
  ASSUME NEW S, IsFiniteSet(S), NEW f, \A x \in S : f[x] = 1
  PROVE  SumFunctionOnSet(f, S) = Cardinality(S)
<1> DEFINE F == {V \in SUBSET S : SumFunctionOnSet(f, V) # Cardinality(V)}
<1> SUFFICES ASSUME F # {} PROVE FALSE
  OBVIOUS
<1>0. F \subseteq SUBSET S
  OBVIOUS
<1> HIDE DEF F
<1>1. PICK V \in F : \A U \in F : U \subseteq V => U = V
  BY <1>0, SmallestSubset
<1>2. V \subseteq S /\ IsFiniteSet(V) /\ SumFunctionOnSet(f, V) # Cardinality(V)
  BY <1>1, FS_Subset DEF F
<1>3. V # {}
  BY <1>2, SumOfNone, FS_EmptySet
<1>4. PICK y : y \in V
  BY <1>3
<1>5. SumFunctionOnSet(f, V \ {y}) = Cardinality(V \ {y})
  BY <1>1, <1>2, <1>4 DEF F
<1>6. SumFunctionOnSet(f, V) = f[y] + SumFunctionOnSet(f, V \ {y})
  BY <1>2, <1>4, SumRemove
<1>7. Cardinality(V \ {y}) = Cardinality(V) - 1 /\ Cardinality(V) \in Nat
  BY <1>2, <1>4, FS_RemoveElement, FS_CardinalityType
<1> QED BY <1>2, <1>4, <1>5, <1>6, <1>7

LEMMA ImageIsFinite ==
  ASSUME NEW S, IsFiniteSet(S), NEW key
  PROVE  IsFiniteSet({key[x] : x \in S})
<1> DEFINE K == {key[x] : x \in S}
           g == [x \in S |-> key[x]]
<1>1. g \in Surjection(S, K)
  BY DEF Surjection
<1> QED BY <1>1, FS_Surjection

\* The sums of the parts a key divides a set into add up to the sum over the set.
LEMMA SumByKey ==
  ASSUME NEW S, IsFiniteSet(S), NEW f, \A x \in S : f[x] \in Int,
         NEW K, IsFiniteSet(K), NEW key, \A x \in S : key[x] \in K,
         NEW part, \A k \in K : part[k] \subseteq S /\ \A x \in S : x \in part[k] <=> key[x] = k,
         NEW g, \A k \in K : g[k] = SumFunctionOnSet(f, part[k])
  PROVE  SumFunctionOnSet(g, K) = SumFunctionOnSet(f, S)
<1> DEFINE Part(V, k) == {x \in V : key[x] = k}
           G(V) == [k \in K |-> SumFunctionOnSet(f, Part(V, k))]
           F == {V \in SUBSET S : SumFunctionOnSet(G(V), K) # SumFunctionOnSet(f, V)}
<1>1. ASSUME NEW V \in SUBSET S
      PROVE  /\ IsFiniteSet(V) /\ \A k \in K : IsFiniteSet(Part(V, k)) /\ Part(V, k) \subseteq V
             /\ \A k \in K : G(V)[k] \in Int
  <2>1. IsFiniteSet(V)
    BY FS_Subset
  <2>2. ASSUME NEW k \in K PROVE IsFiniteSet(Part(V, k)) /\ Part(V, k) \subseteq V
    BY <2>1, FS_Subset
  <2>3. ASSUME NEW k \in K PROVE G(V)[k] \in Int
    <3>1. G(V)[k] = SumFunctionOnSet(f, Part(V, k))
      OBVIOUS
    <3>2. \A x \in Part(V, k) : f[x] \in Int
      OBVIOUS
    <3> HIDE DEF Part, G
    <3> QED BY <2>2, <3>1, <3>2, SumIsInt
  <2> QED BY <2>1, <2>2, <2>3
<1>2. F = {}
  <2> SUFFICES ASSUME F # {} PROVE FALSE
    OBVIOUS
  <2>0. F \subseteq SUBSET S
    OBVIOUS
  <2> HIDE DEF F
  <2>1. PICK V \in F : \A U \in F : U \subseteq V => U = V
    BY <2>0, SmallestSubset
  <2>2. V \in SUBSET S /\ SumFunctionOnSet(G(V), K) # SumFunctionOnSet(f, V)
    BY <2>1 DEF F
  <2>3. CASE V = {}
    <3>1. \A k \in K : G(V)[k] = 0
      <4> TAKE k \in K
      <4>1. Part(V, k) = {} /\ G(V)[k] = SumFunctionOnSet(f, Part(V, k))
        BY <2>3
      <4> QED BY <4>1, SumOfNone
    <3> HIDE DEF G
    <3>2. {} \in SUBSET K /\ \A k \in K : G(V)[k] \in Int
      BY <3>1
    <3>3. SumFunctionOnSet(G(V), K) = SumFunctionOnSet(G(V), {})
      BY <3>1, <3>2, SumOfSupport
    <3> QED BY <2>2, <2>3, <3>3, SumOfNone
  <2>4. CASE V # {}
    <3>1. PICK y : y \in V
      BY <2>4
    <3> DEFINE W == V \ {y}
    <3>2. W \in SUBSET S /\ y \in S /\ W \subseteq V /\ W # V
      BY <2>2, <3>1
    <3>3. SumFunctionOnSet(G(W), K) = SumFunctionOnSet(f, W)
      BY <2>1, <3>2 DEF F
    <3>4. SumFunctionOnSet(f, V) = f[y] + SumFunctionOnSet(f, W)
      <4>1. IsFiniteSet(V) /\ \A x \in V : f[x] \in Int
        BY <1>1, <2>2
      <4> QED BY <3>1, <4>1, SumRemove
    <3>5. G(V)[key[y]] = f[y] + G(W)[key[y]]
      <4>1. y \in Part(V, key[y]) /\ Part(W, key[y]) = Part(V, key[y]) \ {y} /\ key[y] \in K
        BY <3>1, <3>2
      <4>2. IsFiniteSet(Part(V, key[y])) /\ \A x \in Part(V, key[y]) : f[x] \in Int
        BY <1>1, <2>2, <4>1
      <4>3. G(V)[key[y]] = SumFunctionOnSet(f, Part(V, key[y])) /\ G(W)[key[y]] = SumFunctionOnSet(f, Part(W, key[y]))
        BY <4>1
      <4> HIDE DEF Part, G, W
      <4> QED BY <4>1, <4>2, <4>3, SumRemove
    <3>6. \A k \in K \ {key[y]} : G(V)[k] = G(W)[k]
      <4> TAKE k \in K \ {key[y]}
      <4>1. Part(V, k) = Part(W, k)
        OBVIOUS
      <4> HIDE DEF Part
      <4> QED BY <4>1
    <3>7. \A k \in K : G(V)[k] \in Int /\ G(W)[k] \in Int
      BY <1>1, <2>2, <3>2
    <3>8. f[y] \in Int /\ key[y] \in K /\ SumFunctionOnSet(f, W) \in Int
      BY <1>1, <3>2, SumIsInt
    <3> HIDE DEF G, W
    <3>9. SumFunctionOnSet(G(V), K) = SumFunctionOnSet(G(W), K) + G(V)[key[y]] - G(W)[key[y]]
      BY <3>6, <3>7, <3>8, SumChange
    <3> QED BY <2>2, <3>3, <3>4, <3>5, <3>7, <3>8, <3>9
  <2> QED BY <2>3, <2>4
<1>3. SumFunctionOnSet(G(S), K) = SumFunctionOnSet(f, S)
  BY <1>2
<1>4. \A k \in K : G(S)[k] = g[k]
  <2> TAKE k \in K
  <2>1. Part(S, k) = part[k]
    OBVIOUS
  <2>2. G(S)[k] = SumFunctionOnSet(f, Part(S, k))
    OBVIOUS
  <2> HIDE DEF Part, G
  <2> QED BY <2>1, <2>2
<1> HIDE DEF G
<1>5. SumFunctionOnSet(G(S), K) = SumFunctionOnSet(g, K)
  BY <1>4, SumSame
<1> QED BY <1>3, <1>5
=============================================================================
