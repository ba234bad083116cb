------------------------------ MODULE FoldLemmas ------------------------------
(***************************************************************************)
(* Sums over finite sets and joins of sequences, for the proofs about what *)
(* the other modules fold: the registers of a range, the bits of a number  *)
(* and the parts of a text.                                                *)
(*                                                                         *)
(* The library states that the order of the numbers is well founded for a  *)
(* set and not for an operator, so an induction goes by a counterexample   *)
(* that is least, or smallest.                                             *)
(***************************************************************************)
EXTENDS Integers, FiniteSets, FiniteSetsExt, FiniteSetTheorems, SequenceTheorems,
        WellFoundedInduction, TLAPS

\* The least-number principle, for a set.
LEMMA Least ==
    ASSUME NEW T \in SUBSET Nat, T # {}
    PROVE  \E x \in T : \A y \in T : x <= y
<1> DEFINE R == OpToRel(<, Nat)
<1>1. IsWellFoundedOn(R, Nat)
  BY NatLessThanWellFounded
<1>2. \A x, y \in Nat : y < x => <<y, x>> \in R
  BY DEF OpToRel
<1> HIDE DEF R
<1>3. PICK x \in T : \A y \in T : ~ (<<y, x>> \in R)
  BY <1>1, WFMin
<1>4. \A y \in T : ~(y < x)
  BY <1>2, <1>3
<1> QED
  BY <1>4

\* A smallest one of some finite sets.
LEMMA Smallest ==
    ASSUME NEW F, F # {}, \A s \in F : IsFiniteSet(s)
    PROVE  \E s \in F : \A t \in F : Cardinality(s) <= Cardinality(t)
<1> DEFINE sizes == {Cardinality(s) : s \in F}
<1>1. \A s \in F : Cardinality(s) \in Nat
  BY FS_CardinalityType
<1>2. PICK x \in sizes : \A y \in sizes : x <= y
  BY <1>1, Least
<1> QED
  BY <1>2

\* one of the elements, the one that a fold takes next
Pick(T) == CHOOSE x \in T : TRUE

\* what a fold of the community modules is defined by
Summing(g, weight, T) ==
    g = [s \in SUBSET T |-> IF s = {} THEN 0 ELSE weight[Pick(s)] + g[s \ {Pick(s)}]]

\* The sum of the weights of the elements of a finite set.
SumOver(weight, T) == (CHOOSE g : Summing(g, weight, T))[T]

\* A fold takes one element of a set, and there is one less.
LEMMA PickFacts ==
    ASSUME NEW T, T # {}, IsFiniteSet(T)
    PROVE  /\ Pick(T) \in T /\ IsFiniteSet(T \ {Pick(T)})
           /\ Cardinality(T \ {Pick(T)}) < Cardinality(T)
<1>1. Pick(T) \in T
  BY DEF Pick
<1>2. Cardinality(T) \in Nat /\ Cardinality(T \ {Pick(T)}) = Cardinality(T) - 1
      /\ IsFiniteSet(T \ {Pick(T)})
  BY <1>1, FS_RemoveElement, FS_CardinalityType
<1> QED
  BY <1>1, <1>2

\* There is one way to sum.
LEMMA OneSum ==
    ASSUME NEW weight, NEW s, NEW t, IsFiniteSet(s), NEW g, NEW h,
           Summing(g, weight, s), Summing(h, weight, t),
           NEW u, u \subseteq s, u \subseteq t
    PROVE  g[u] = h[u]
<1> DEFINE F == {v \in SUBSET (s \cap t) : g[v] # h[v]}
<1> SUFFICES ASSUME F # {} PROVE FALSE
  OBVIOUS
<1>1. \A v \in F : IsFiniteSet(v)
  BY FS_Subset
<1>2. PICK v \in F : \A w \in F : Cardinality(v) <= Cardinality(w)
  BY <1>1, Smallest
<1>3. /\ v \in SUBSET s /\ v \in SUBSET t /\ IsFiniteSet(v)
  BY <1>1
<1>4. v # {}
  BY <1>3 DEF Summing
<1>5. /\ g[v] = weight[Pick(v)] + g[v \ {Pick(v)}]
      /\ h[v] = weight[Pick(v)] + h[v \ {Pick(v)}]
  BY <1>3, <1>4 DEF Summing
<1>6. v \ {Pick(v)} \in F
  BY <1>3, <1>5
<1>7. /\ Cardinality(v \ {Pick(v)}) < Cardinality(v)
      /\ Cardinality(v \ {Pick(v)}) \in Nat /\ Cardinality(v) \in Nat
  BY <1>3, <1>4, PickFacts, FS_CardinalityType
<1> QED
  BY <1>2, <1>6, <1>7

\* A sum is one element and the sum of the others, if both exist.
LEMMA SumOfPart ==
    ASSUME NEW weight, NEW T, T # {}, IsFiniteSet(T), NEW g, Summing(g, weight, T),
           NEW h, Summing(h, weight, T \ {Pick(T)})
    PROVE  SumOver(weight, T) = weight[Pick(T)] + SumOver(weight, T \ {Pick(T)})
<1> DEFINE rest == T \ {Pick(T)}
           k == CHOOSE k : Summing(k, weight, T)
           l == CHOOSE l : Summing(l, weight, rest)
<1>1. Summing(k, weight, T) /\ Summing(l, weight, rest)
      /\ SumOver(weight, T) = k[T] /\ SumOver(weight, rest) = l[rest]
  BY DEF SumOver
<1> HIDE DEF k, l
<1>2. k[T] = weight[Pick(T)] + k[rest]
  BY <1>1 DEF Summing
<1>3. k[rest] = l[rest]
  BY <1>1, OneSum
<1> QED
  BY <1>1, <1>2, <1>3

\* Every finite set has a sum.
LEMMA SumExists ==
    ASSUME NEW weight, NEW T, IsFiniteSet(T) PROVE \E g : Summing(g, weight, T)
<1> DEFINE F == {s \in SUBSET T : ~ \E g : Summing(g, weight, s)}
<1> SUFFICES ASSUME F # {} PROVE FALSE
  OBVIOUS
<1>1. \A s \in F : IsFiniteSet(s)
  BY FS_Subset
<1>2. PICK s \in F : \A t \in F : Cardinality(s) <= Cardinality(t)
  BY <1>1, Smallest
<1>3. IsFiniteSet(s)
  BY <1>1
<1>4. ASSUME NEW v \in SUBSET s, v # s PROVE \E g : Summing(g, weight, v)
  <2>1. /\ Cardinality(v) < Cardinality(s)
        /\ Cardinality(v) \in Nat /\ Cardinality(s) \in Nat
    BY <1>3, <1>4, FS_Subset, FS_CardinalityType
  <2> QED
    BY <1>2, <2>1
<1>5. SumOver(weight, {}) = 0
  <2>1. Summing([v \in SUBSET {} |-> 0], weight, {})
    BY DEF Summing
  <2>2. Summing(CHOOSE g : Summing(g, weight, {}), weight, {})
    BY <2>1
  <2> QED
    BY <2>2 DEF Summing, SumOver
<1>6. ASSUME NEW v \in SUBSET s, v # s, v # {}
      PROVE  SumOver(weight, v) = weight[Pick(v)] + SumOver(weight, v \ {Pick(v)})
  <2>1. IsFiniteSet(v) /\ v \ {Pick(v)} \in SUBSET s /\ v \ {Pick(v)} # s
    BY <1>3, <1>6, FS_Subset
  <2> QED
    BY <1>4, <1>6, <2>1, SumOfPart
<1> DEFINE G == [v \in SUBSET s |-> IF v = {} THEN 0
                                    ELSE weight[Pick(v)] + SumOver(weight, v \ {Pick(v)})]
<1>7. ASSUME NEW v \in SUBSET s, v # {} PROVE G[v \ {Pick(v)}] = SumOver(weight, v \ {Pick(v)})
  <2>1. v \ {Pick(v)} \in SUBSET s /\ v \ {Pick(v)} # s
    BY <1>3, <1>7, FS_Subset, PickFacts
  <2> QED
    BY <1>5, <1>6, <2>1
<1>8. Summing(G, weight, s)
  BY <1>7 DEF Summing
<1> QED
  BY <1>8

\* The sum of nothing is 0.
LEMMA SumOfNone ==
    ASSUME NEW weight PROVE SumOver(weight, {}) = 0
<1>1. Summing(CHOOSE g : Summing(g, weight, {}), weight, {})
  BY SumExists, FS_EmptySet
<1> QED
  BY <1>1 DEF Summing, SumOver

\* A sum is one element and the sum of the others.
LEMMA SumStep ==
    ASSUME NEW weight, NEW T, T # {}, IsFiniteSet(T)
    PROVE  SumOver(weight, T) = weight[Pick(T)] + SumOver(weight, T \ {Pick(T)})
<1>1. (\E g : Summing(g, weight, T)) /\ (\E h : Summing(h, weight, T \ {Pick(T)}))
  BY SumExists, PickFacts
<1> QED
  BY <1>1, SumOfPart

\* A sum of integers is an integer.
LEMMA SumType ==
    ASSUME NEW weight, NEW T, IsFiniteSet(T), \A p \in T : weight[p] \in Int
    PROVE  SumOver(weight, T) \in Int
<1> DEFINE F == {s \in SUBSET T : SumOver(weight, s) \notin Int}
<1> SUFFICES ASSUME F # {} PROVE FALSE
  OBVIOUS
<1>1. \A s \in F : IsFiniteSet(s)
  BY FS_Subset
<1>2. PICK s \in F : \A t \in F : Cardinality(s) <= Cardinality(t)
  BY <1>1, Smallest
<1>3. IsFiniteSet(s) /\ s # {} /\ s \in SUBSET T
  BY <1>1, SumOfNone
<1>4. /\ Pick(s) \in s /\ Cardinality(s \ {Pick(s)}) < Cardinality(s)
      /\ Cardinality(s \ {Pick(s)}) \in Nat /\ Cardinality(s) \in Nat
  BY <1>3, PickFacts, FS_CardinalityType
<1>5. SumOver(weight, s \ {Pick(s)}) \in Int
  BY <1>2, <1>3, <1>4
<1> QED
  BY <1>3, <1>4, <1>5, SumStep

\* The sum does not depend on the order: one more adds itself.
LEMMA SumOfMore ==
    ASSUME NEW weight, NEW T, IsFiniteSet(T), \A q \in T : weight[q] \in Int,
           NEW p, p \notin T, weight[p] \in Int
    PROVE  SumOver(weight, T \cup {p}) = SumOver(weight, T) + weight[p]
<1> DEFINE U == T \cup {p}
           F == {s \in SUBSET U :
                     \E q \in U \ s : SumOver(weight, s \cup {q}) # SumOver(weight, s) + weight[q]}
<1> SUFFICES ASSUME F # {} PROVE FALSE
  OBVIOUS
<1>0. IsFiniteSet(U) /\ \A q \in U : weight[q] \in Int
  BY FS_AddElement
<1> HIDE DEF U
<1>1. \A s \in F : IsFiniteSet(s)
  BY <1>0, FS_Subset
<1>2. PICK s \in F : \A t \in F : Cardinality(s) <= Cardinality(t)
  BY <1>1, Smallest
<1>3. PICK q \in U \ s : SumOver(weight, s \cup {q}) # SumOver(weight, s) + weight[q]
  BY <1>2
<1> DEFINE all == s \cup {q}
           x == Pick(all)
<1>4. IsFiniteSet(s) /\ s \subseteq U /\ IsFiniteSet(all) /\ all # {}
  BY <1>1, FS_AddElement
<1>5. x \in all /\ SumOver(weight, all) = weight[x] + SumOver(weight, all \ {x})
  BY <1>4, PickFacts, SumStep
<1> HIDE DEF x
<1>6. SumOver(weight, s) \in Int /\ weight[q] \in Int
  BY <1>0, <1>3, <1>4, SumType
<1>7. CASE x = q
  <2>1. all \ {x} = s
    BY <1>3, <1>7
  <2>2. SumOver(weight, all) = weight[q] + SumOver(weight, s)
    BY <1>5, <1>7, <2>1
  <2>3. SumOver(weight, all) # SumOver(weight, s) + weight[q]
    BY <1>3
  <2> QED
    BY <1>6, <2>2, <2>3
<1>8. CASE x # q
  <2> DEFINE rest == s \ {x}
  <2>1. /\ x \in s /\ weight[x] \in Int /\ x \notin rest /\ q \notin rest
        /\ all \ {x} = rest \cup {q} /\ rest \cup {x} = s
        /\ rest \subseteq U /\ x \in U /\ IsFiniteSet(rest)
    BY <1>0, <1>3, <1>4, <1>5, <1>8, FS_RemoveElement
  <2>2. Cardinality(rest) < Cardinality(s) /\ Cardinality(rest) \in Nat /\ Cardinality(s) \in Nat
    BY <1>4, <2>1, FS_RemoveElement, FS_CardinalityType
  <2> HIDE DEF rest
  <2>3. rest \notin F
    BY <1>2, <2>2
  <2>4. /\ SumOver(weight, rest \cup {q}) = SumOver(weight, rest) + weight[q]
        /\ SumOver(weight, rest \cup {x}) = SumOver(weight, rest) + weight[x]
    BY <1>3, <2>1, <2>3
  <2>5. SumOver(weight, rest) \in Int
    BY <1>0, <2>1, SumType
  <2>6. /\ SumOver(weight, all) = weight[x] + SumOver(weight, rest \cup {q})
        /\ SumOver(weight, s) = SumOver(weight, rest) + weight[x]
    BY <1>5, <2>1, <2>4
  <2>7. SumOver(weight, all) # SumOver(weight, s) + weight[q]
    BY <1>3
  <2> HIDE DEF all
  <2> QED
    BY <1>6, <2>1, <2>4, <2>5, <2>6, <2>7
<1> QED
  BY <1>7, <1>8

-----------------------------------------------------------------------------
(* Sequences joined in the order of their indices.                         *)

\* A finite set has a largest index, and there is one less without it.
LEMMA MaxFacts ==
    ASSUME NEW T \in SUBSET Nat, T # {}, IsFiniteSet(T)
    PROVE  /\ Max(T) \in T /\ IsFiniteSet(T \ {Max(T)})
           /\ Cardinality(T \ {Max(T)}) < Cardinality(T)
<1> DEFINE F == {s \in SUBSET T : s # {} /\ ~ \E x \in s : \A y \in s : x >= y}
<1>1. F = {}
  <2> SUFFICES ASSUME F # {} PROVE FALSE
    OBVIOUS
  <2>1. \A s \in F : IsFiniteSet(s)
    BY FS_Subset
  <2>2. PICK s \in F : \A t \in F : Cardinality(s) <= Cardinality(t)
    BY <2>1, Smallest
  <2>3. PICK x : x \in s
    OBVIOUS
  <2> DEFINE r == s \ {x}
  <2>4. /\ Cardinality(r) < Cardinality(s) /\ Cardinality(r) \in Nat /\ Cardinality(s) \in Nat
    <3>1. IsFiniteSet(s)
      BY <2>1
    <3>2. IsFiniteSet(r) /\ Cardinality(r) = Cardinality(s) - 1
      BY <2>3, <3>1, FS_RemoveElement
    <3>3. Cardinality(r) \in Nat /\ Cardinality(s) \in Nat
      BY <3>1, <3>2, FS_CardinalityType
    <3> QED
      BY <3>2, <3>3
  <2>5. r \notin F
    BY <2>2, <2>4
  <2>6. CASE r = {}
    <3>1. \A y \in s : x >= y
      BY <2>3, <2>6
    <3> QED
      BY <2>3, <3>1
  <2>7. CASE r # {}
    <3>1. PICK z \in r : \A y \in r : z >= y
      BY <2>5, <2>7
    <3>2. x \in Nat /\ z \in Nat /\ \A y \in s : y \in Nat /\ (y = x \/ y \in r)
      BY <2>3
    <3>3. CASE x >= z
      BY <2>3, <3>1, <3>2, <3>3
    <3>4. CASE z >= x
      BY <2>3, <3>1, <3>2, <3>4
    <3> QED
      BY <3>2, <3>3, <3>4
  <2> QED
    BY <2>6, <2>7
<1>2. \E x \in T : \A y \in T : x >= y
  BY <1>1
<1>3. Max(T) \in T
  BY <1>2 DEF Max
<1>4. /\ Cardinality(T) \in Nat /\ Cardinality(T \ {Max(T)}) = Cardinality(T) - 1
      /\ IsFiniteSet(T \ {Max(T)})
  BY <1>3, FS_RemoveElement, FS_CardinalityType
<1> QED
  BY <1>3, <1>4

\* what a fold over a sequence is defined by
Joining(g, pieces, T) ==
    g = [s \in SUBSET T |-> IF s = {} THEN <<>> ELSE g[s \ {Max(s)}] \o pieces[Max(s)]]

\* the pieces in the order of their indices
JoinOver(pieces, T) == (CHOOSE g : Joining(g, pieces, T))[T]

\* There is one way to join.
LEMMA OneJoin ==
    ASSUME NEW pieces, NEW s \in SUBSET Nat, NEW t, IsFiniteSet(s), NEW g, NEW h,
           Joining(g, pieces, s), Joining(h, pieces, t),
           NEW u, u \subseteq s, u \subseteq t
    PROVE  g[u] = h[u]
<1> DEFINE F == {v \in SUBSET (s \cap t) : g[v] # h[v]}
<1> SUFFICES ASSUME F # {} PROVE FALSE
  OBVIOUS
<1>1. \A v \in F : IsFiniteSet(v)
  BY FS_Subset
<1>2. PICK v \in F : \A w \in F : Cardinality(v) <= Cardinality(w)
  BY <1>1, Smallest
<1>3. v \in SUBSET s /\ v \in SUBSET t /\ IsFiniteSet(v) /\ v \in SUBSET Nat
  BY <1>1
<1>4. v # {}
  BY <1>3 DEF Joining
<1>5. /\ g[v] = g[v \ {Max(v)}] \o pieces[Max(v)]
      /\ h[v] = h[v \ {Max(v)}] \o pieces[Max(v)]
  BY <1>3, <1>4 DEF Joining
<1>6. v \ {Max(v)} \in F
  BY <1>3, <1>5
<1>7. /\ Cardinality(v \ {Max(v)}) < Cardinality(v)
      /\ Cardinality(v \ {Max(v)}) \in Nat /\ Cardinality(v) \in Nat
  BY <1>3, <1>4, MaxFacts, FS_CardinalityType
<1> QED
  BY <1>2, <1>6, <1>7

\* A join ends with the last piece, if the join of the others exists.
LEMMA JoinOfPart ==
    ASSUME NEW pieces, NEW T \in SUBSET Nat, T # {}, IsFiniteSet(T), NEW g, Joining(g, pieces, T),
           NEW h, Joining(h, pieces, T \ {Max(T)})
    PROVE  JoinOver(pieces, T) = JoinOver(pieces, T \ {Max(T)}) \o pieces[Max(T)]
<1> DEFINE rest == T \ {Max(T)}
           k == CHOOSE k : Joining(k, pieces, T)
           l == CHOOSE l : Joining(l, pieces, rest)
<1>1. Joining(k, pieces, T) /\ Joining(l, pieces, rest)
      /\ JoinOver(pieces, T) = k[T] /\ JoinOver(pieces, rest) = l[rest]
  BY DEF JoinOver
<1> HIDE DEF k, l
<1>2. k[T] = k[rest] \o pieces[Max(T)]
  BY <1>1 DEF Joining
<1>3. k[rest] = l[rest]
  BY <1>1, OneJoin
<1> QED
  BY <1>1, <1>2, <1>3

\* The pieces of every finite set of indices can be joined.
LEMMA JoinExists ==
    ASSUME NEW pieces, NEW T \in SUBSET Nat, IsFiniteSet(T) PROVE \E g : Joining(g, pieces, T)
<1> DEFINE F == {s \in SUBSET T : ~ \E g : Joining(g, pieces, s)}
<1> SUFFICES ASSUME F # {} PROVE FALSE
  OBVIOUS
<1>1. \A s \in F : IsFiniteSet(s)
  BY FS_Subset
<1>2. PICK s \in F : \A t \in F : Cardinality(s) <= Cardinality(t)
  BY <1>1, Smallest
<1>3. IsFiniteSet(s) /\ s \in SUBSET Nat
  BY <1>1
<1>4. ASSUME NEW v \in SUBSET s, v # s PROVE \E g : Joining(g, pieces, v)
  <2>1. /\ Cardinality(v) < Cardinality(s)
        /\ Cardinality(v) \in Nat /\ Cardinality(s) \in Nat
    <3>1. IsFiniteSet(v) /\ Cardinality(v) <= Cardinality(s) /\ Cardinality(v) # Cardinality(s)
      BY <1>3, <1>4, FS_Subset
    <3>2. Cardinality(v) \in Nat /\ Cardinality(s) \in Nat
      BY <1>3, <3>1, FS_CardinalityType
    <3> QED
      BY <3>1, <3>2
  <2>2. v \in SUBSET T /\ v \notin F
    BY <1>2, <2>1
  <2> QED
    BY <2>2
<1>5. JoinOver(pieces, {}) = <<>>
  <2>1. Joining([v \in SUBSET {} |-> <<>>], pieces, {})
    BY DEF Joining
  <2>2. Joining(CHOOSE g : Joining(g, pieces, {}), pieces, {})
    BY <2>1
  <2> QED
    BY <2>2 DEF Joining, JoinOver
<1>6. ASSUME NEW v \in SUBSET s, v # s, v # {}
      PROVE  JoinOver(pieces, v) = JoinOver(pieces, v \ {Max(v)}) \o pieces[Max(v)]
  <2>1. /\ IsFiniteSet(v) /\ v \in SUBSET Nat
        /\ v \ {Max(v)} \in SUBSET s /\ v \ {Max(v)} # s
    BY <1>3, <1>6, FS_Subset
  <2> QED
    BY <1>4, <1>6, <2>1, JoinOfPart
<1> DEFINE G == [v \in SUBSET s |-> IF v = {} THEN <<>>
                                    ELSE JoinOver(pieces, v \ {Max(v)}) \o pieces[Max(v)]]
<1>7. ASSUME NEW v \in SUBSET s, v # {} PROVE G[v \ {Max(v)}] = JoinOver(pieces, v \ {Max(v)})
  <2>1. v \ {Max(v)} \in SUBSET s /\ v \ {Max(v)} # s
    BY <1>3, <1>7, FS_Subset, MaxFacts
  <2> QED
    BY <1>5, <1>6, <2>1
<1>8. Joining(G, pieces, s)
  BY <1>7 DEF Joining
<1> QED
  BY <1>8

\* The join of nothing is empty.
LEMMA JoinOfNone ==
    ASSUME NEW pieces PROVE JoinOver(pieces, {}) = <<>>
<1>1. Joining(CHOOSE g : Joining(g, pieces, {}), pieces, {})
  BY JoinExists, FS_EmptySet
<1> QED
  BY <1>1 DEF Joining, JoinOver

\* The join of one piece more ends with it.
LEMMA JoinStep ==
    ASSUME NEW pieces, NEW k \in Nat
    PROVE  JoinOver(pieces, 1 .. k + 1) = JoinOver(pieces, 1 .. k) \o pieces[k + 1]
<1>1. 1 .. k + 1 \in SUBSET Nat /\ 1 .. k + 1 # {} /\ IsFiniteSet(1 .. k + 1)
  <2>1. 1 \in Int /\ k + 1 \in Int /\ 1 \in 1 .. k + 1
    OBVIOUS
  <2>2. IsFiniteSet(1 .. k + 1)
    BY <2>1, FS_Interval
  <2> QED
    BY <2>1, <2>2
<1>2. Max(1 .. k + 1) = k + 1 /\ (1 .. k + 1) \ {k + 1} = 1 .. k
  <2>1. k + 1 \in 1 .. k + 1 /\ \A y \in 1 .. k + 1 : k + 1 >= y
    OBVIOUS
  <2>2. \A x \in 1 .. k + 1 : (\A y \in 1 .. k + 1 : x >= y) => x = k + 1
    OBVIOUS
  <2> QED
    BY <2>1, <2>2 DEF Max
<1>3. 1 .. k \in SUBSET Nat /\ IsFiniteSet(1 .. k)
  BY FS_Interval
<1>4. (\E g : Joining(g, pieces, 1 .. k + 1)) /\ (\E h : Joining(h, pieces, 1 .. k))
  BY <1>1, <1>3, JoinExists
<1> QED
  BY <1>1, <1>2, <1>4, JoinOfPart

\* a part of a sequence, from after one index to the other
IsPart(piece, whole, from, to) ==
    Len(piece) = to - from /\ \A i \in 1 .. Len(piece) : piece[i] = whole[from + i]

\* A sequence is the join of its parts: length[k] is where the part k ends.
LEMMA JoinOfParts ==
    ASSUME NEW S, NEW whole \in Seq(S), NEW n \in Nat, NEW length \in [0 .. n -> Nat],
           length[0] = 0, length[n] = Len(whole), NEW pieces,
           \A k \in 1 .. n : /\ pieces[k] \in Seq(S)
                             /\ IsPart(pieces[k], whole, length[k - 1], length[k]),
           \A k \in 0 .. n : length[k] <= Len(whole)
    PROVE  JoinOver(pieces, 1 .. n) = whole
<1> DEFINE Right(k) == JoinOver(pieces, 1 .. k) = SubSeq(whole, 1, length[k])
           T == {k \in 0 .. n : ~ Right(k)}
<1>0. Len(whole) \in Nat /\ \A i \in 1 .. Len(whole) : whole[i] \in S
  OBVIOUS
<1>1. T = {}
  <2> SUFFICES ASSUME T # {} PROVE FALSE
    OBVIOUS
  <2>1. PICK k \in T : \A l \in T : k <= l
    <3>1. T \in SUBSET Nat
      OBVIOUS
    <3> HIDE DEF T
    <3> QED
      BY <3>1, Least
  <2>2. k # 0
    <3>1. JoinOver(pieces, 1 .. 0) = <<>>
      <4>1. 1 .. 0 = {}
        OBVIOUS
      <4> QED
        BY <4>1, JoinOfNone
    <3>2. SubSeq(whole, 1, 0) = <<>>
      BY SubSeqEmpty
    <3> QED
      BY <2>1, <3>1, <3>2
  <2>3. k \in 1 .. n /\ k - 1 \in 0 .. n /\ k - 1 \in Nat /\ (k - 1) + 1 = k
    BY <2>2
  <2>4. JoinOver(pieces, 1 .. k - 1) = SubSeq(whole, 1, length[k - 1])
    <3>1. k - 1 \notin T
      BY <2>1, <2>3
    <3> QED
      BY <2>3, <3>1
  <2>5. JoinOver(pieces, 1 .. k) = JoinOver(pieces, 1 .. k - 1) \o pieces[k]
    BY <2>3, JoinStep
  <2>6. PICK a, b : a = length[k - 1] /\ b = length[k]
    OBVIOUS
  <2>7. a \in Nat /\ b \in Nat /\ a <= Len(whole) /\ b <= Len(whole)
    BY <2>3, <2>6
  <2>8. PICK head, next : head = SubSeq(whole, 1, a) /\ next = pieces[k]
    OBVIOUS
  <2>9. /\ head \in Seq(S) /\ Len(head) = a /\ \A i \in 1 .. a : head[i] = whole[i]
    <3>1. 1 \in Int /\ a \in Int /\ \A i \in 1 .. a : whole[i] \in S
      BY <1>0, <2>7
    <3>2. /\ SubSeq(whole, 1, a) \in Seq(S)
          /\ Len(SubSeq(whole, 1, a)) = IF 1 <= a THEN a - 1 + 1 ELSE 0
          /\ \A i \in 1 .. a - 1 + 1 : SubSeq(whole, 1, a)[i] = whole[1 + i - 1]
      BY <3>1, SubSeqProperties
    <3>3. (IF 1 <= a THEN a - 1 + 1 ELSE 0) = a /\ 1 .. a - 1 + 1 = 1 .. a
      BY <2>7
    <3>4. \A i \in 1 .. a : 1 + i - 1 = i
      BY <2>7
    <3> QED
      BY <2>8, <3>2, <3>3, <3>4
  <2>10. /\ next \in Seq(S) /\ Len(next) = b - a
         /\ \A i \in 1 .. b - a : next[i] = whole[a + i]
    BY <2>3, <2>6, <2>8 DEF IsPart
  <2>11. PICK joined : joined = head \o next
    OBVIOUS
  <2>12. /\ joined \in Seq(S) /\ Len(joined) = b
         /\ \A i \in 1 .. b : joined[i] = IF i <= a THEN head[i] ELSE next[i - a]
    <3>1. /\ joined \in Seq(S) /\ Len(joined) = a + (b - a)
          /\ \A i \in 1 .. a + (b - a) : joined[i] = IF i <= a THEN head[i] ELSE next[i - a]
      <4>1. b - a \in Int /\ Len(head) = a /\ Len(next) = b - a
        BY <2>7, <2>9, <2>10
      <4>2. /\ head \o next \in Seq(S) /\ Len(head \o next) = Len(head) + Len(next)
            /\ \A i \in 1 .. Len(head) + Len(next) :
                  (head \o next)[i] = IF i <= Len(head) THEN head[i] ELSE next[i - Len(head)]
        <5>1. head \in Seq(S) /\ next \in Seq(S)
          BY <2>9, <2>10
        <5>2. \A f, g \in Seq(S) :
                 /\ f \o g \in Seq(S) /\ Len(f \o g) = Len(f) + Len(g)
                 /\ \A i \in 1 .. Len(f) + Len(g) :
                       (f \o g)[i] = IF i <= Len(f) THEN f[i] ELSE g[i - Len(f)]
          BY ConcatProperties
        <5> QED
          BY <5>1, <5>2
      <4> QED
        BY <2>11, <4>1, <4>2
    <3>2. a + (b - a) = b
      BY <2>7
    <3> QED
      BY <3>1, <3>2
  <2>13. \A i \in 1 .. b : joined[i] = whole[i]
    <3> SUFFICES ASSUME NEW i \in 1 .. b PROVE joined[i] = whole[i]
      OBVIOUS
    <3>1. CASE i <= a
      BY <2>7, <2>9, <2>12, <3>1
    <3>2. CASE i > a
      <4>1. i - a \in 1 .. b - a /\ a + (i - a) = i
        BY <2>7, <3>2
      <4>2. joined[i] = next[i - a]
        BY <2>7, <2>12, <3>2
      <4>3. next[i - a] = whole[a + (i - a)]
        BY <2>10, <4>1
      <4> QED
        BY <4>1, <4>2, <4>3
    <3> QED
      BY <2>7, <3>1, <3>2
  <2>14. joined = SubSeq(whole, 1, b)
    <3>1. 1 \in Int /\ b \in Int /\ \A i \in 1 .. b : whole[i] \in S
      BY <1>0, <2>7
    <3>2. /\ SubSeq(whole, 1, b) \in Seq(S)
          /\ Len(SubSeq(whole, 1, b)) = IF 1 <= b THEN b - 1 + 1 ELSE 0
          /\ \A i \in 1 .. b - 1 + 1 : SubSeq(whole, 1, b)[i] = whole[1 + i - 1]
      BY <3>1, SubSeqProperties
    <3>3. (IF 1 <= b THEN b - 1 + 1 ELSE 0) = b /\ 1 .. b - 1 + 1 = 1 .. b
      BY <2>7
    <3>4. \A i \in 1 .. b : 1 + i - 1 = i
      BY <2>7
    <3>5. Len(SubSeq(whole, 1, b)) = b /\ \A i \in 1 .. b : SubSeq(whole, 1, b)[i] = whole[i]
      BY <3>2, <3>3, <3>4
    <3> QED
      BY <2>12, <2>13, <3>2, <3>5, SeqEqual
  <2> QED
    BY <2>1, <2>4, <2>5, <2>6, <2>8, <2>11, <2>14
<1>2. Right(n)
  <2>1. n \in 0 .. n /\ n \notin T
    BY <1>1
  <2> QED
    BY <2>1
<1> QED
  BY <1>2, SubSeqFull

\* The join of sequences over a set is one as well.
LEMMA JoinType ==
    ASSUME NEW S, NEW n \in Nat, NEW pieces, \A k \in 1 .. n : pieces[k] \in Seq(S)
    PROVE  JoinOver(pieces, 1 .. n) \in Seq(S)
<1> DEFINE T == {k \in 0 .. n : JoinOver(pieces, 1 .. k) \notin Seq(S)}
<1>1. T = {}
  <2> SUFFICES ASSUME T # {} PROVE FALSE
    OBVIOUS
  <2>1. PICK k \in T : \A l \in T : k <= l
    <3>1. T \in SUBSET Nat
      OBVIOUS
    <3> HIDE DEF T
    <3> QED
      BY <3>1, Least
  <2>2. k # 0
    <3>1. 1 .. 0 = {} /\ <<>> \in Seq(S)
      OBVIOUS
    <3> QED
      BY <2>1, <3>1, JoinOfNone
  <2>3. k \in 1 .. n /\ k - 1 \in 0 .. n /\ k - 1 \in Nat /\ (k - 1) + 1 = k /\ k - 1 \notin T
    BY <2>1, <2>2
  <2>4. JoinOver(pieces, 1 .. k - 1) \in Seq(S)
    BY <2>3
  <2>5. JoinOver(pieces, 1 .. k) = JoinOver(pieces, 1 .. k - 1) \o pieces[k]
    BY <2>3, JoinStep
  <2>6. pieces[k] \in Seq(S)
    BY <2>3
  <2>7. JoinOver(pieces, 1 .. k) \in Seq(S)
    <3>1. PICK s : s = JoinOver(pieces, 1 .. k - 1)
      OBVIOUS
    <3>2. s \o pieces[k] \in Seq(S)
      BY <2>4, <2>6, <3>1, ConcatProperties
    <3> QED
      BY <2>5, <3>1, <3>2
  <2> QED
    BY <2>1, <2>7
<1> QED
  <2>1. n \in 0 .. n /\ n \notin T
    BY <1>1
  <2> QED
    BY <2>1
=============================================================================
