------------------------ MODULE RegisterRangesProofs ------------------------
(***************************************************************************)
(* Theorems about create_register_ranges_(), for every value of the        *)
(* constants: any number of sensors, configured in any way.                *)
(***************************************************************************)
EXTENDS RegisterRanges, FoldLemmas

-----------------------------------------------------------------------------
(* The order of the sensors, criterion by criterion.                       *)

SensorItem == [kind : {"custom", "coil", "holding"}, start : Nat, count : Nat,
               offset : 0 .. ByteModulus - 1, size : 0 .. ByteModulus - 1,
               skip : Nat, force : BOOLEAN]

Forced(a) == IF a.force THEN 0 ELSE 1

Less(a, s, b, t) ==
    \/ Rank(a.kind) < Rank(b.kind)
    \/ Rank(a.kind) = Rank(b.kind) /\
         \/ Forced(a) < Forced(b)
         \/ Forced(a) = Forced(b) /\
              \/ a.start < b.start
              \/ a.start = b.start /\
                   \/ a.offset < b.offset
                   \/ a.offset = b.offset /\ s < t

LEMMA RankType ==
    ASSUME NEW k \in {"custom", "coil", "holding"}, NEW l \in {"custom", "coil", "holding"}
    PROVE  Rank(k) \in Nat /\ (Rank(k) = Rank(l) => k = l)
  BY DEF Rank

LEMMA ItemTypes ==
    ASSUME NEW a \in SensorItem
    PROVE  /\ a.kind \in {"custom", "coil", "holding"} /\ Rank(a.kind) \in Nat
           /\ a.start \in Nat /\ a.offset \in Nat /\ a.force \in BOOLEAN
           /\ a.count \in Nat /\ a.size \in Nat /\ a.skip \in Nat
           /\ Forced(a) \in {0, 1} /\ (Forced(a) = 0 <=> a.force)
<1>1. ByteModulus \in Nat
  BY RangesAssumption
<1> QED
  BY <1>1, RankType DEF SensorItem, Forced

LEMMA KeyOrder ==
    ASSUME NEW a \in SensorItem, NEW s \in Sensors, NEW b \in SensorItem, NEW t \in Sensors
    PROVE  Before(Key(a, s), Key(b, t)) <=> Less(a, s, b, t)
<1> DEFINE k == Key(a, s)
           l == Key(b, t)
<1>1. /\ k[1] = Rank(a.kind) /\ k[2] = Forced(a) /\ k[3] = a.start /\ k[4] = a.offset /\ k[5] = s
      /\ l[1] = Rank(b.kind) /\ l[2] = Forced(b) /\ l[3] = b.start /\ l[4] = b.offset /\ l[5] = t
  BY DEF Key, Forced
<1> HIDE DEF k, l
<1>2. Before(k, l) <=>
        \/ k[1] < l[1]
        \/ k[1] = l[1] /\ k[2] < l[2]
        \/ k[1] = l[1] /\ k[2] = l[2] /\ k[3] < l[3]
        \/ k[1] = l[1] /\ k[2] = l[2] /\ k[3] = l[3] /\ k[4] < l[4]
        \/ k[1] = l[1] /\ k[2] = l[2] /\ k[3] = l[3] /\ k[4] = l[4] /\ k[5] < l[5]
  BY DEF Before
<1> QED
  BY <1>1, <1>2 DEF Less, k, l

LEMMA LessIsAnOrder ==
    ASSUME NEW a \in SensorItem, NEW s \in Sensors, NEW b \in SensorItem, NEW t \in Sensors,
           NEW c \in SensorItem, NEW u \in Sensors
    PROVE  /\ ~Less(a, s, a, s)
           /\ s # t => Less(a, s, b, t) \/ Less(b, t, a, s)
           /\ Less(a, s, b, t) /\ Less(b, t, c, u) => Less(a, s, c, u)
<1>1. s \in Nat /\ t \in Nat /\ u \in Nat
  BY RangesAssumption
<1>2. /\ Rank(a.kind) \in Nat /\ Rank(b.kind) \in Nat /\ Rank(c.kind) \in Nat
      /\ Forced(a) \in {0, 1} /\ Forced(b) \in {0, 1} /\ Forced(c) \in {0, 1}
      /\ a.start \in Nat /\ b.start \in Nat /\ c.start \in Nat
      /\ a.offset \in Nat /\ b.offset \in Nat /\ c.offset \in Nat
  BY ItemTypes
<1> QED
  BY <1>1, <1>2 DEF Less

-----------------------------------------------------------------------------
(* Sequences: one element taken out and put in at another place.           *)

LEMMA Removed ==
    ASSUME NEW S, NEW n \in Nat, NEW seq \in [1 .. n -> S], NEW i \in 1 .. n
    PROVE  Without(seq, i) = [k \in 1 .. n - 1 |-> IF k < i THEN seq[k] ELSE seq[k + 1]]
<1> DEFINE front == SubSeq(seq, 1, i - 1)
           back == SubSeq(seq, i + 1, n)
           both == front \o back
<1>1. seq \in Seq(S) /\ Len(seq) = n
  BY SeqDef
<1>2. /\ front \in Seq(S) /\ Len(front) = i - 1
      /\ \A k \in 1 .. i - 1 : front[k] = seq[k]
  BY <1>1, SubSeqProperties
<1>3. /\ back \in Seq(S) /\ Len(back) = n - i
      /\ \A k \in 1 .. n - i : back[k] = seq[i + k]
  BY <1>1, SubSeqProperties
<1>4. Without(seq, i) = both
  BY <1>1 DEF Without
<1> HIDE DEF front, back
<1>5. /\ both \in Seq(S) /\ Len(both) = Len(front) + Len(back)
      /\ \A k \in 1 .. Len(front) + Len(back) :
           both[k] = IF k <= Len(front) THEN front[k] ELSE back[k - Len(front)]
  BY <1>2, <1>3, ConcatProperties
<1> HIDE DEF both
<1>6. Len(both) = n - 1
  BY <1>2, <1>3, <1>5
<1>7. both \in [1 .. n - 1 -> S]
  BY <1>5, <1>6, LenProperties
<1>8. ASSUME NEW k \in 1 .. n - 1
      PROVE  both[k] = IF k < i THEN seq[k] ELSE seq[k + 1]
  <2>1. CASE k < i
    <3>1. k \in 1 .. i - 1
      BY <2>1
    <3> QED
      BY <1>2, <1>3, <1>5, <2>1, <3>1
  <2>2. CASE ~(k < i)
    <3>1. k - (i - 1) \in 1 .. n - i /\ i + (k - (i - 1)) = k + 1
      BY <2>2
    <3>2. both[k] = back[k - (i - 1)]
      BY <1>2, <1>3, <1>5, <2>2
    <3>3. back[k - (i - 1)] = seq[i + (k - (i - 1))]
      BY <1>3, <3>1
    <3> QED
      BY <2>2, <3>1, <3>2, <3>3
  <2> QED
    BY <2>1, <2>2
<1> QED
  BY <1>4, <1>7, <1>8

With(seq, p, x) == SubSeq(seq, 1, p - 1) \o <<x>> \o SubSeq(seq, p, Len(seq))

LEMMA Inserted ==
    ASSUME NEW S, NEW n \in Nat \ {0}, NEW m, m = n - 1, NEW seq \in [1 .. m -> S],
           NEW p \in 1 .. n, NEW x \in S
    PROVE  With(seq, p, x) =
             [k \in 1 .. n |-> IF k < p THEN seq[k] ELSE IF k = p THEN x ELSE seq[k - 1]]
<1> DEFINE front == SubSeq(seq, 1, p - 1)
           back == SubSeq(seq, p, n - 1)
           one == <<x>>
           both == front \o one
           new == both \o back
<1>1. seq \in Seq(S) /\ Len(seq) = n - 1
  BY SeqDef, m \in Nat
<1>2. /\ front \in Seq(S) /\ Len(front) = p - 1
      /\ \A k \in 1 .. p - 1 : front[k] = seq[k]
  BY <1>1, SubSeqProperties
<1>3. /\ back \in Seq(S) /\ Len(back) = n - p
      /\ \A k \in 1 .. n - p : back[k] = seq[p + k - 1]
  BY <1>1, SubSeqProperties
<1>4. one \in Seq(S) /\ Len(one) = 1 /\ one[1] = x
  OBVIOUS
<1>5. new = With(seq, p, x)
  BY <1>1 DEF With
<1> HIDE DEF front, back, one
<1>6. /\ both \in Seq(S) /\ Len(both) = p
      /\ \A k \in 1 .. p : both[k] = IF k < p THEN front[k] ELSE x
  <2>1. /\ both \in Seq(S) /\ Len(both) = Len(front) + Len(one)
        /\ \A k \in 1 .. Len(front) + Len(one) :
             both[k] = IF k <= Len(front) THEN front[k] ELSE one[k - Len(front)]
    BY <1>2, <1>4, ConcatProperties
  <2> HIDE DEF both
  <2> QED
    BY <1>2, <1>4, <2>1
<1> HIDE DEF both
<1>7. /\ new \in Seq(S) /\ Len(new) = n
      /\ \A k \in 1 .. n : new[k] = IF k <= p THEN both[k] ELSE back[k - p]
  <2>1. /\ new \in Seq(S) /\ Len(new) = Len(both) + Len(back)
        /\ \A k \in 1 .. Len(both) + Len(back) :
             new[k] = IF k <= Len(both) THEN both[k] ELSE back[k - Len(both)]
    BY <1>3, <1>6, ConcatProperties
  <2> HIDE DEF new
  <2> QED
    BY <1>3, <1>6, <2>1
<1> HIDE DEF new
<1>8. new \in [1 .. n -> S]
  BY <1>7, LenProperties
<1>9. ASSUME NEW k \in 1 .. n
      PROVE  new[k] = IF k < p THEN seq[k] ELSE IF k = p THEN x ELSE seq[k - 1]
  <2>1. CASE k <= p
    BY <1>2, <1>6, <1>7, <2>1
  <2>2. CASE ~(k <= p)
    <3>1. k - p \in 1 .. n - p /\ p + (k - p) - 1 = k - 1
      BY <2>2
    <3>2. back[k - p] = seq[p + (k - p) - 1]
      BY <1>3, <3>1
    <3> QED
      BY <1>7, <2>2, <3>1, <3>2
  <2> QED
    BY <2>1, <2>2
<1> QED
  BY <1>5, <1>8, <1>9

\* The place that is counted is the one that keeps the order.
LEMMA PlaceInOrder ==
    ASSUME NEW n \in Nat, NEW rest \in [1 .. n -> Sensors],
           sensor \in [Sensors -> SensorItem], Sorted(sensor, rest),
           NEW a \in SensorItem, NEW s \in Sensors
    PROVE  /\ Place(rest, a, s) \in 1 .. n + 1
           /\ \A k \in 1 .. n :
                k < Place(rest, a, s) <=> Less(sensor[rest[k]], rest[k], a, s)
<1> DEFINE before(k) == Less(sensor[rest[k]], rest[k], a, s)
           D == {k \in 1 .. n : before(k)}
<1>1. rest \in Seq(Sensors) /\ Len(rest) = n
  BY SeqDef
<1>2. \A k \in 1 .. n : rest[k] \in Sensors /\ sensor[rest[k]] \in SensorItem
  OBVIOUS
<1>3. Place(rest, a, s) = 1 + Cardinality(D)
  <2>1. D = {i \in 1 .. Len(rest) : Before(Key(sensor[rest[i]], rest[i]), Key(a, s))}
    BY <1>1, <1>2, KeyOrder
  <2> QED
    BY <2>1 DEF Place
<1>4. \A j, k \in 1 .. n : j < k /\ before(k) => before(j)
  <2> SUFFICES ASSUME NEW j \in 1 .. n, NEW k \in 1 .. n, j < k, before(k)
               PROVE  before(j)
    OBVIOUS
  <2>1. Less(sensor[rest[j]], rest[j], sensor[rest[k]], rest[k])
    BY <1>1, <1>2, KeyOrder DEF Sorted
  <2> QED
    BY <1>2, <2>1, LessIsAnOrder
<1> HIDE DEF before
<1>5. IsFiniteSet(1 .. n) /\ Cardinality(1 .. n) = n
  BY FS_Interval
<1>6. D \in SUBSET (1 .. n) /\ IsFiniteSet(D)
  BY <1>5, FS_Subset
<1>7. Cardinality(D) \in 0 .. n
  BY <1>5, <1>6, FS_Subset, FS_CardinalityType
<1>8. ASSUME NEW k \in 1 .. n PROVE k <= Cardinality(D) <=> before(k)
  <2>1. CASE before(k)
    <3>1. 1 .. k \in SUBSET D
      BY <1>4, <2>1
    <3>2. Cardinality(1 .. k) = k
      BY FS_Interval
    <3>3. Cardinality(1 .. k) <= Cardinality(D)
      BY <1>6, <3>1, FS_Subset
    <3> QED
      BY <2>1, <3>2, <3>3
  <2>2. CASE ~before(k)
    <3>1. D \in SUBSET (1 .. k - 1)
      BY <1>4, <2>2
    <3>2. IsFiniteSet(1 .. k - 1) /\ Cardinality(1 .. k - 1) = k - 1
      BY FS_Interval
    <3>3. Cardinality(D) <= k - 1
      BY <3>1, <3>2, FS_Subset
    <3> QED
      BY <1>7, <2>2, <3>3
  <2> QED
    BY <2>1, <2>2
<1> HIDE DEF D
<1>9. ASSUME NEW k \in 1 .. n PROVE k < Place(rest, a, s) <=> before(k)
  BY <1>3, <1>7, <1>8
<1>10. Place(rest, a, s) \in 1 .. n + 1
  BY <1>3, <1>7
<1> QED
  BY <1>9, <1>10 DEF before

-----------------------------------------------------------------------------
(* Types, and the set in its order.                                        *)

Count == Cardinality(Sensors)

\* what is not rewritten of a sensor
Unchanged(s) ==
    /\ sensor[s].kind = config[s].kind /\ sensor[s].count = config[s].count
    /\ sensor[s].size = config[s].size /\ sensor[s].skip = config[s].skip
    /\ sensor[s].force = config[s].force

OrderType ==
    /\ order \in [1 .. Count -> Sensors]
    /\ \A s \in Sensors : \E i \in 1 .. Count : order[i] = s
    /\ ix \in 1 .. Count + 1

TypeInv ==
    /\ config \in [Sensors -> Items]
    /\ sensor \in [Sensors -> SensorItem]
    /\ \A s \in Sensors : Unchanged(s)
    /\ OrderType
    /\ range \in RegisterRange
    /\ range.count # 0 => prev \in Sensors /\ ix > 1
    /\ buffer \in 0 .. ByteModulus - 1
    /\ ranges \in Seq(RegisterRange)

InOrder == Sorted(sensor, order)

Ahead == {order[i] : i \in ix .. Count}
Behind == {order[i] : i \in 1 .. ix - 1}

LEMMA CountType == Count \in Nat
  BY RangesAssumption, FS_CardinalityType DEF Count

LEMMA OrderFacts ==
    ASSUME sensor \in [Sensors -> SensorItem], OrderType, InOrder
    PROVE  /\ Len(order) = Count
           /\ \A i, j \in 1 .. Count : i < j =>
                /\ order[i] # order[j]
                /\ Less(sensor[order[i]], order[i], sensor[order[j]], order[j])
<1>1. order \in Seq(Sensors) /\ Len(order) = Count
  BY CountType, SeqDef DEF OrderType
<1>2. ASSUME NEW i \in 1 .. Count, NEW j \in 1 .. Count, i < j
      PROVE  /\ order[i] # order[j]
             /\ Less(sensor[order[i]], order[i], sensor[order[j]], order[j])
  <2>1. order[i] \in Sensors /\ order[j] \in Sensors
    BY DEF OrderType
  <2>2. sensor[order[i]] \in SensorItem /\ sensor[order[j]] \in SensorItem
    BY <2>1
  <2>3. Before(Key(sensor[order[i]], order[i]), Key(sensor[order[j]], order[j]))
    BY <1>1, <1>2 DEF InOrder, Sorted
  <2>4. Less(sensor[order[i]], order[i], sensor[order[j]], order[j])
    BY <2>1, <2>2, <2>3, KeyOrder
  <2> QED
    BY <2>1, <2>2, <2>4, LessIsAnOrder
<1> QED
  BY <1>1, <1>2

\* The sensor whose turn it is, and those behind it.
LEMMA CurrFacts ==
    ASSUME TypeInv, InOrder, Running
    PROVE  /\ ix \in 1 .. Count /\ curr \in Sensors /\ item \in SensorItem
           /\ curr \in Ahead /\ curr \notin Behind
           /\ Ahead \subseteq Sensors /\ Behind \subseteq Sensors
<1>1. /\ OrderType /\ sensor \in [Sensors -> SensorItem]
      /\ Len(order) = Count
      /\ \A i, j \in 1 .. Count : i < j => order[i] # order[j]
  BY OrderFacts DEF TypeInv
<1>2. ix \in 1 .. Count
  BY <1>1, CountType DEF OrderType, Running
<1> QED
  BY <1>1, <1>2, CountType DEF OrderType, curr, item, Ahead, Behind

LEMMA Sooner ==
    ASSUME TypeInv, InOrder, Running, NEW s \in Ahead
    PROVE  /\ Rank(item.kind) <= Rank(sensor[s].kind)
           /\ item.kind = sensor[s].kind /\ ~item.force =>
                ~sensor[s].force /\ item.start <= sensor[s].start
<1>1. ix \in 1 .. Count /\ curr \in Sensors /\ item \in SensorItem /\ s \in Sensors
  BY CurrFacts
<1>2. sensor[s] \in SensorItem
  BY <1>1 DEF TypeInv
<1>3. PICK i \in ix .. Count : s = order[i]
  BY DEF Ahead
<1>4. i = ix \/ Less(item, curr, sensor[s], s)
  <2>1. i # ix => i \in 1 .. Count /\ ix < i
    BY <1>1, <1>3, CountType
  <2> QED
    BY <1>1, <1>3, <2>1, OrderFacts DEF TypeInv, item, curr
<1>5. /\ Rank(item.kind) \in Nat /\ Rank(sensor[s].kind) \in Nat
      /\ item.start \in Nat /\ sensor[s].start \in Nat
      /\ item.force \in BOOLEAN /\ sensor[s].force \in BOOLEAN
      /\ Forced(item) \in {0, 1} /\ Forced(sensor[s]) \in {0, 1}
      /\ (Forced(item) = 0 <=> item.force) /\ (Forced(sensor[s]) = 0 <=> sensor[s].force)
  BY <1>1, <1>2, ItemTypes
<1>6. CASE i = ix
  <2>1. sensor[s] = item
    BY <1>3, <1>6 DEF item, curr
  <2> QED
    BY <1>5, <2>1
<1>7. CASE Less(item, curr, sensor[s], s)
  <2>1. item.kind = sensor[s].kind => Rank(item.kind) = Rank(sensor[s].kind)
    OBVIOUS
  <2> HIDE DEF item
  <2> QED
    BY <1>5, <1>7, <2>1 DEF Less
<1> QED
  BY <1>4, <1>6, <1>7

\* The sensor that goes to another place: what is ahead stays ahead, what is
\* behind stays behind, and the order is that of the changed fields.
LEMMA MergeStep ==
    ASSUME TypeInv, InOrder, Running, NEW offset \in 0 .. ByteModulus - 1, Merge(offset)
    PROVE  /\ sensor' = [sensor EXCEPT ![curr] =
                            [item EXCEPT !.start = range.start,
                                         !.offset = (@ + offset) % ByteModulus]]
           /\ sensor' \in [Sensors -> SensorItem]
           /\ OrderType' /\ InOrder'
           /\ Ahead' \subseteq Ahead
           /\ Behind' \subseteq Behind \cup {curr}
           /\ ix' >= ix
           /\ curr \in Ahead' => \E s \in Ahead \ {curr} :
                                 Less(sensor[s], s, sensor'[curr], curr)
<1> DEFINE merged == [item EXCEPT !.start = range.start,
                                  !.offset = (@ + offset) % ByteModulus]
           rest == Without(order, ix)
           place == Place(rest, merged, curr)
<1>1. /\ sensor' = [sensor EXCEPT ![curr] = merged]
      /\ order' = With(rest, place, curr)
      /\ ix' = IF place <= ix THEN ix + 1 ELSE ix
  BY DEF Merge, With
<1>2. ix \in 1 .. Count /\ curr \in Sensors /\ item \in SensorItem /\ Count \in Nat
  BY CurrFacts, CountType
<1>3. sensor \in [Sensors -> SensorItem] /\ OrderType /\ order \in [1 .. Count -> Sensors]
  BY DEF TypeInv, OrderType
<1>4. merged \in SensorItem
  <2>1. range.start \in Nat
    BY DEF TypeInv, RegisterRange
  <2>2. (item.offset + offset) % ByteModulus \in 0 .. ByteModulus - 1
    BY <1>2, RangesAssumption, ItemTypes
  <2> QED
    BY <1>2, <2>1, <2>2 DEF SensorItem
<1>5. \A i, j \in 1 .. Count : i < j =>
        /\ order[i] # order[j]
        /\ Less(sensor[order[i]], order[i], sensor[order[j]], order[j])
  BY <1>3, OrderFacts
<1>6. /\ rest \in [1 .. Count - 1 -> Sensors]
      /\ \A k \in 1 .. Count - 1 : rest[k] = IF k < ix THEN order[k] ELSE order[k + 1]
  <2>1. rest = [k \in 1 .. Count - 1 |-> IF k < ix THEN order[k] ELSE order[k + 1]]
    BY <1>2, <1>3, Removed
  <2> HIDE DEF rest
  <2> QED
    BY <1>2, <1>3, <2>1
<1>7. ASSUME NEW j \in 1 .. Count - 1, NEW k \in 1 .. Count - 1, j < k
      PROVE  Less(sensor[rest[j]], rest[j], sensor[rest[k]], rest[k])
  BY <1>2, <1>5, <1>6, <1>7
<1>8. \A k \in 1 .. Count - 1 : rest[k] # curr
  BY <1>2, <1>5, <1>6 DEF curr
<1> HIDE DEF rest, merged
<1>9. /\ place \in 1 .. Count
      /\ \A k \in 1 .. Count - 1 : k < place <=> Less(sensor[rest[k]], rest[k], merged, curr)
  <2>1. Len(rest) = Count - 1 /\ Count - 1 \in Nat
    BY <1>2, <1>6, SeqDef
  <2>2. Sorted(sensor, rest)
    BY <1>3, <1>6, <1>7, <2>1, KeyOrder DEF Sorted
  <2> DEFINE m == Count - 1
  <2>3. rest \in [1 .. m -> Sensors] /\ m \in Nat /\ m + 1 = Count /\ m = Count - 1
    BY <1>2, <1>6, <2>1
  <2> HIDE DEF m
  <2>4. /\ place \in 1 .. m + 1
        /\ \A k \in 1 .. m : k < place <=> Less(sensor[rest[k]], rest[k], merged, curr)
    BY <1>2, <1>3, <1>4, <2>2, <2>3, PlaceInOrder
  <2> QED
    BY <2>3, <2>4
<1> HIDE DEF place
<1>10. /\ order' \in [1 .. Count -> Sensors]
       /\ \A k \in 1 .. Count : order'[k] = IF k < place THEN rest[k] ELSE IF k = place THEN curr
                                             ELSE rest[k - 1]
  <2> DEFINE m == Count - 1
  <2>2. rest \in [1 .. m -> Sensors] /\ m = Count - 1 /\ Count \in Nat \ {0}
    BY <1>2, <1>6
  <2> HIDE DEF m
  <2>1. order' = [k \in 1 .. Count |-> IF k < place THEN rest[k] ELSE IF k = place THEN curr
                                       ELSE rest[k - 1]]
    BY <1>1, <1>2, <1>9, <2>2, Inserted
  <2> QED
    BY <1>2, <1>6, <1>9, <2>1
<1>11. sensor' \in [Sensors -> SensorItem]
  BY <1>1, <1>2, <1>3, <1>4
<1>12. ix' >= ix /\ ix' \in 1 .. Count + 1
  BY <1>1, <1>2, <1>9
<1>13. ASSUME NEW s \in Sensors PROVE \E k \in 1 .. Count : order'[k] = s
  <2>1. PICK i \in 1 .. Count : order[i] = s
    BY <1>3 DEF OrderType
  <2>2. CASE i = ix
    BY <1>9, <1>10, <2>1, <2>2 DEF curr
  <2>3. CASE i # ix
    <3>1. PICK r \in 1 .. Count - 1 : rest[r] = s
      <4>1. i < ix => i \in 1 .. Count - 1 /\ rest[i] = s
        BY <1>2, <1>6, <2>1
      <4>2. i > ix => i - 1 \in 1 .. Count - 1 /\ rest[i - 1] = s
        BY <1>2, <1>6, <2>1
      <4> QED
        BY <1>2, <2>3, <4>1, <4>2
    <3>2. r < place => r \in 1 .. Count /\ order'[r] = s
      BY <1>2, <1>9, <1>10, <3>1
    <3>3. ~(r < place) => r + 1 \in 1 .. Count /\ order'[r + 1] = s
      BY <1>2, <1>9, <1>10, <3>1
    <3> QED
      BY <3>2, <3>3
  <2> QED
    BY <2>2, <2>3
<1>14. OrderType'
  <2>1. Count' = Count
    BY DEF Count
  <2> QED
    BY <1>10, <1>12, <1>13, <2>1 DEF OrderType
<1>15. \A k \in 1 .. Count - 1 : rest[k] \in Sensors /\ sensor'[rest[k]] = sensor[rest[k]]
  BY <1>1, <1>3, <1>6, <1>8
<1>16. sensor'[curr] = merged
  BY <1>1, <1>2, <1>3
<1>17. ASSUME NEW k \in 1 .. Count - 1, ~(k < place)
       PROVE  Less(merged, curr, sensor[rest[k]], rest[k])
  BY <1>2, <1>3, <1>4, <1>8, <1>9, <1>15, <1>17, LessIsAnOrder
<1>18. ASSUME NEW i \in 1 .. Count, NEW j \in 1 .. Count, i < j
       PROVE  Less(sensor'[order'[i]], order'[i], sensor'[order'[j]], order'[j])
  <2>1. CASE j < place
    <3>1. i \in 1 .. Count - 1 /\ j \in 1 .. Count - 1 /\ order'[i] = rest[i] /\ order'[j] = rest[j]
      BY <1>2, <1>9, <1>10, <1>18, <2>1
    <3> QED
      BY <1>7, <1>15, <1>18, <3>1
  <2>2. CASE j = place
    <3>1. i \in 1 .. Count - 1 /\ order'[i] = rest[i] /\ order'[j] = curr /\ i < place
      BY <1>2, <1>9, <1>10, <1>18, <2>2
    <3> QED
      BY <1>9, <1>15, <1>16, <3>1
  <2>3. CASE j > place
    <3>1. j - 1 \in 1 .. Count - 1 /\ order'[j] = rest[j - 1] /\ ~(j - 1 < place)
      BY <1>2, <1>9, <1>10, <2>3
    <3>2. CASE i < place
      <4>1. i \in 1 .. Count - 1 /\ order'[i] = rest[i] /\ i < j - 1
        BY <1>2, <1>9, <1>10, <2>3, <3>2
      <4> QED
        BY <1>7, <1>15, <3>1, <4>1
    <3>3. CASE i = place
      <4>1. order'[i] = curr
        BY <1>10, <3>3
      <4> QED
        BY <1>15, <1>16, <1>17, <3>1, <4>1
    <3>4. CASE i > place
      <4>1. i - 1 \in 1 .. Count - 1 /\ order'[i] = rest[i - 1] /\ i - 1 < j - 1
        BY <1>2, <1>9, <1>10, <1>18, <3>4
      <4> QED
        BY <1>7, <1>15, <3>1, <4>1
    <3> QED
      BY <1>9, <3>2, <3>3, <3>4
  <2> QED
    BY <1>9, <2>1, <2>2, <2>3
<1>19. InOrder'
  <2>1. Len(order') = Count
    BY <1>2, <1>10, SeqDef
  <2>2. \A i \in 1 .. Count : order'[i] \in Sensors /\ sensor'[order'[i]] \in SensorItem
    BY <1>10, <1>11
  <2> QED
    BY <1>18, <2>1, <2>2, KeyOrder DEF InOrder, Sorted
<1>20. ASSUME NEW k \in ix' .. Count PROVE order'[k] \in Ahead
  <2>1. k \in 1 .. Count /\ k >= ix
    BY <1>2, <1>12
  <2>2. CASE k < place
    <3>1. k \in 1 .. Count - 1 /\ k + 1 \in ix .. Count
      BY <1>2, <1>9, <2>1, <2>2
    <3>2. order'[k] = rest[k] /\ rest[k] = order[k + 1]
      BY <1>2, <1>6, <1>10, <2>1, <2>2, <3>1
    <3> QED
      BY <3>1, <3>2 DEF Ahead
  <2>3. CASE k = place
    BY <1>2, <1>10, <2>1, <2>3 DEF Ahead, curr
  <2>4. CASE k > place
    <3>1. k - 1 \in 1 .. Count - 1 /\ k \in ix .. Count /\ k - 1 >= ix
      BY <1>1, <1>2, <1>9, <2>1, <2>4
    <3>2. order'[k] = rest[k - 1]
      BY <1>2, <1>9, <1>10, <2>1, <2>4
    <3>3. rest[k - 1] = order[k - 1 + 1] /\ k - 1 + 1 = k
      BY <1>2, <1>6, <3>1
    <3> QED
      BY <3>1, <3>2, <3>3 DEF Ahead
  <2> QED
    BY <1>9, <2>1, <2>2, <2>3, <2>4
<1>21. ASSUME NEW k \in 1 .. ix' - 1 PROVE order'[k] \in Behind \cup {curr}
  <2>1. k \in 1 .. Count /\ k <= ix /\ (k = ix => place <= ix)
    BY <1>1, <1>2, <1>9
  <2>2. CASE k < place
    <3>1. k \in 1 .. Count - 1 /\ k \in 1 .. ix - 1
      BY <1>2, <1>9, <2>1, <2>2
    <3>2. order'[k] = rest[k] /\ rest[k] = order[k]
      BY <1>2, <1>6, <1>10, <2>1, <2>2, <3>1
    <3> QED
      BY <3>1, <3>2 DEF Behind
  <2>3. CASE k = place
    BY <1>10, <2>1, <2>3
  <2>4. CASE k > place
    <3>1. k - 1 \in 1 .. Count - 1 /\ k - 1 \in 1 .. ix - 1
      BY <1>2, <1>9, <2>1, <2>4
    <3>2. order'[k] = rest[k - 1]
      BY <1>2, <1>9, <1>10, <2>1, <2>4
    <3>3. rest[k - 1] = order[k - 1]
      BY <1>2, <1>6, <3>1
    <3> QED
      BY <3>1, <3>2, <3>3 DEF Behind
  <2> QED
    BY <1>9, <2>1, <2>2, <2>3, <2>4
<1>22. Count' = Count
  BY DEF Count
<1>23. ASSUME NEW k \in ix' .. Count, order'[k] = curr
       PROVE  \E s \in Ahead \ {curr} : Less(sensor[s], s, sensor'[curr], curr)
  <2>1. k \in 1 .. Count
    BY <1>2, <1>12
  <2>2. k = place
    BY <1>2, <1>8, <1>9, <1>10, <1>23, <2>1
  <2>3. ~(place <= ix)
    BY <1>1, <1>2, <1>9, <2>1, <2>2
  <2>4. ix \in 1 .. Count - 1 /\ ix + 1 \in ix .. Count /\ ix < place
    BY <1>2, <1>9, <2>3
  <2>5. rest[ix] = order[ix + 1] /\ rest[ix] # curr
    BY <1>6, <1>8, <2>4
  <2>6. rest[ix] \in Ahead
    BY <2>4, <2>5 DEF Ahead
  <2> QED
    BY <1>9, <1>16, <2>4, <2>5, <2>6
<1> QED
  BY <1>1, <1>11, <1>12, <1>14, <1>19, <1>20, <1>21, <1>22, <1>23 DEF Ahead, Behind, merged

-----------------------------------------------------------------------------
(* The type invariant.                                                     *)

LEMMA JoinedFacts ==
    ASSUME NEW r \in RegisterRange, NEW s \in Sensors, NEW skip \in Nat
    PROVE  /\ Joined(r, s, skip) \in RegisterRange
           /\ Joined(r, s, skip).start = r.start /\ Joined(r, s, skip).kind = r.kind
           /\ Joined(r, s, skip).count = r.count
           /\ Joined(r, s, skip).sensors = r.sensors \cup {s}
           /\ Joined(r, s, skip).skip =
                IF skip # 0 /\ (r.skip = 0 \/ skip < r.skip) THEN skip ELSE r.skip
  BY DEF Joined, RegisterRange

LEMMA InitType == Init => TypeInv /\ InOrder
<1> SUFFICES ASSUME Init PROVE TypeInv /\ InOrder
  OBVIOUS
<1>1. Items \subseteq SensorItem /\ ByteModulus \in Nat \ {0} /\ Sensors \subseteq Nat
      /\ IsFiniteSet(Sensors) /\ Count \in Nat
  BY RangesAssumption, CountType DEF SensorItem
<1>2. /\ order \in [1 .. Count -> Sensors]
      /\ Len(order) = Count
      /\ \A i, j \in 1 .. Count : i < j => order[i] # order[j]
  <2>1. /\ order \in [1 .. Count -> Sensors]
        /\ \A i, j \in DOMAIN order : i < j => order[i] # order[j]
    BY RangesAssumption DEF Init, Count
  <2>2. Len(order) = Count
    BY <1>1, <2>1, SeqDef
  <2> QED
    BY <2>1, <2>2
<1>3. order \in Surjection(1 .. Count, Sensors)
  <2>1. \A i, j \in 1 .. Count : i # j => order[i] # order[j]
    BY <1>1, <1>2
  <2>2. order \in Injection(1 .. Count, Sensors)
    BY <1>2, <2>1 DEF Injection, IsInjective
  <2>3. Cardinality(1 .. Count) = Count
    BY <1>1, FS_Interval
  <2> QED
    BY <1>1, <2>2, <2>3, FS_Injection DEF Count
<1>4. OrderType
  <2>1. \A s \in Sensors : \E i \in 1 .. Count : order[i] = s
    BY <1>3 DEF Surjection
  <2>2. ix \in 1 .. Count + 1
    BY <1>1 DEF Init
  <2> QED
    BY <1>2, <2>1, <2>2 DEF OrderType
<1>5. range \in RegisterRange /\ range.count = 0
  BY DEF Init, RegisterRange
<1>6. ranges \in Seq(RegisterRange)
  BY DEF Init
<1>7. /\ config \in [Sensors -> Items] /\ sensor \in [Sensors -> SensorItem]
      /\ \A s \in Sensors : Unchanged(s)
  BY <1>1 DEF Init, Unchanged
<1>8. buffer \in 0 .. ByteModulus - 1
  BY <1>1 DEF Init
<1> QED
  BY <1>4, <1>5, <1>6, <1>7, <1>8 DEF TypeInv, InOrder, Init

\* A sensor that goes to another place keeps what is not rewritten.
LEMMA MergeUnchanged ==
    ASSUME TypeInv, InOrder, Running, NEW offset \in 0 .. ByteModulus - 1, Merge(offset),
           config' = config
    PROVE  \A s \in Sensors :
             /\ Unchanged(s)'
             /\ s # curr => sensor'[s] = sensor[s]
             /\ s = curr => /\ sensor'[s].start = range.start
                            /\ sensor'[s].offset = (item.offset + offset) % ByteModulus
                            /\ sensor'[s].kind = item.kind /\ sensor'[s].force = item.force
                            /\ sensor'[s].count = item.count
<1>1. curr \in Sensors /\ item \in SensorItem /\ sensor \in [Sensors -> SensorItem]
  BY CurrFacts DEF TypeInv
<1>2. sensor' = [sensor EXCEPT ![curr] =
                   [item EXCEPT !.start = range.start,
                                !.offset = (@ + offset) % ByteModulus]]
  BY MergeStep
<1> SUFFICES ASSUME NEW s \in Sensors
             PROVE  /\ Unchanged(s)'
                    /\ s # curr => sensor'[s] = sensor[s]
                    /\ s = curr => /\ sensor'[s].start = range.start
                            /\ sensor'[s].offset = (item.offset + offset) % ByteModulus
                            /\ sensor'[s].kind = item.kind /\ sensor'[s].force = item.force
                            /\ sensor'[s].count = item.count
  OBVIOUS
<1>3. CASE s # curr
  <2>1. sensor'[s] = sensor[s]
    BY <1>1, <1>2, <1>3
  <2> QED
    BY <1>3, <2>1 DEF TypeInv, Unchanged
<1>4. CASE s = curr
  <2>1. sensor'[s] = [item EXCEPT !.start = range.start,
                                  !.offset = (@ + offset) % ByteModulus]
    BY <1>1, <1>2, <1>4
  <2>2. item = sensor[s] /\ Unchanged(s)
    BY <1>4 DEF item, TypeInv
  <2> HIDE DEF item
  <2>3. /\ sensor'[s].start = range.start
        /\ sensor'[s].offset = (item.offset + offset) % ByteModulus
        /\ sensor'[s].kind = item.kind /\ sensor'[s].count = item.count
        /\ sensor'[s].size = item.size /\ sensor'[s].skip = item.skip
        /\ sensor'[s].force = item.force
    BY <1>1, <2>1 DEF SensorItem
  <2> QED
    BY <1>4, <2>2, <2>3 DEF Unchanged
<1> QED
  BY <1>3, <1>4

LEMMA NextType == TypeInv /\ InOrder /\ [Next]_vars => TypeInv' /\ InOrder'
<1> SUFFICES ASSUME TypeInv, InOrder, [Next]_vars PROVE TypeInv' /\ InOrder'
  OBVIOUS
<1>1. Count' = Count /\ Count \in Nat /\ ByteModulus \in Nat \ {0}
  BY CountType, RangesAssumption DEF Count
<1>2. ASSUME Running
      PROVE  /\ curr \in Sensors /\ item \in SensorItem /\ ix \in 1 .. Count
             /\ item.start \in Nat /\ item.count \in Nat /\ item.skip \in Nat
             /\ item.kind \in {"custom", "coil", "holding"}
             /\ Size(item) \in Nat
  <2>1. curr \in Sensors /\ item \in SensorItem /\ ix \in 1 .. Count
    BY <1>2, CurrFacts
  <2>2. /\ item.start \in Nat /\ item.count \in Nat /\ item.skip \in Nat /\ item.size \in Nat
        /\ item.kind \in {"custom", "coil", "holding"}
    BY <2>1, ItemTypes
  <2>3. Size(item) \in Nat
    BY <2>2 DEF Size
  <2> QED
    BY <2>1, <2>2, <2>3
<1>3. range \in RegisterRange /\ buffer \in 0 .. ByteModulus - 1 /\ ranges \in Seq(RegisterRange)
      /\ OrderType
  BY DEF TypeInv
\* the steps that leave the set alone
<1>4. ASSUME UNCHANGED <<config, sensor, order>>, ix' \in 1 .. Count + 1,
             range' \in RegisterRange, range'.count # 0 => prev' \in Sensors /\ ix' > 1,
             buffer' \in 0 .. ByteModulus - 1, ranges' \in Seq(RegisterRange)
      PROVE  TypeInv' /\ InOrder'
  BY <1>1, <1>4 DEF TypeInv, OrderType, InOrder, Unchanged
<1>5. CASE NewRange
  <2>1. Running /\ prev' = curr /\ ix' = ix + 1 /\ UNCHANGED <<config, sensor, order, ranges>>
    BY <1>5 DEF NewRange
  <2>2. range' = Joined([range EXCEPT !.start = item.start, !.kind = item.kind,
                                      !.count = item.count, !.skip = item.skip],
                        curr, item.skip)
    BY <1>5 DEF NewRange
  <2>3. [range EXCEPT !.start = item.start, !.kind = item.kind,
                      !.count = item.count, !.skip = item.skip] \in RegisterRange
    BY <1>2, <1>3, <2>1 DEF RegisterRange
  <2>4. range' \in RegisterRange
    BY <1>2, <2>1, <2>2, <2>3, JoinedFacts
  <2>5. buffer' \in 0 .. ByteModulus - 1
    BY <1>1, <1>2, <1>5, <2>1 DEF NewRange
  <2> QED
    BY <1>1, <1>2, <1>3, <1>4, <2>1, <2>4, <2>5
<1>6. ASSUME Reuse \/ Extend PROVE TypeInv' /\ InOrder'
  <2>1. Running /\ range.count # 0 /\ UNCHANGED <<config, ranges>>
    BY <1>6 DEF Reuse, Extend, Reuses, Extends, MayMerge
  <2>2. prev \in Sensors /\ ix > 1 /\ sensor[prev].offset \in 0 .. ByteModulus - 1
    BY <2>1 DEF TypeInv, SensorItem
  <2>3. PICK offset \in 0 .. ByteModulus - 1 : Merge(offset)
    BY <1>3, <1>6, <2>2 DEF Reuse, Extend
  <2>4. /\ sensor' \in [Sensors -> SensorItem] /\ OrderType' /\ InOrder' /\ ix' >= ix
        /\ \A s \in Sensors : Unchanged(s)'
    BY <2>1, <2>3, MergeStep, MergeUnchanged
  <2>5. prev' = curr /\ curr \in Sensors
    BY <1>2, <2>1, <2>3 DEF Merge
  <2>6. buffer' \in 0 .. ByteModulus - 1
    BY <1>1, <1>2, <1>3, <1>6, <2>1 DEF Reuse, Extend
  <2>7. range' \in RegisterRange
    <3>1. CASE Reuse
      BY <1>2, <1>3, <2>1, <3>1, JoinedFacts DEF Reuse
    <3>2. CASE Extend
      <4>1. [range EXCEPT !.count = (@ + item.count) % ByteModulus] \in RegisterRange
        <5>1. (range.count + item.count) % ByteModulus \in Nat
          BY <1>1, <1>2, <1>3, <2>1 DEF RegisterRange
        <5> QED
          BY <1>3, <5>1 DEF RegisterRange
      <4> QED
        BY <1>2, <2>1, <3>2, <4>1, JoinedFacts DEF Extend
    <3> QED
      BY <1>6, <3>1, <3>2
  <2>8. ix' > 1
    BY <1>2, <2>1, <2>2, <2>4 DEF OrderType
  <2> QED
    BY <1>3, <2>1, <2>4, <2>5, <2>6, <2>7, <2>8 DEF TypeInv
<1>7. CASE Join
  <2>1. /\ Running /\ prev' = curr /\ ix' = ix + 1
        /\ UNCHANGED <<config, sensor, order, ranges, buffer>>
        /\ range' = Joined(range, curr, item.skip)
    BY <1>7 DEF Join
  <2>2. range' \in RegisterRange
    BY <1>2, <1>3, <2>1, JoinedFacts
  <2> QED
    BY <1>1, <1>2, <1>3, <1>4, <2>1, <2>2
<1>8. ASSUME Close \/ Finish PROVE TypeInv' /\ InOrder'
  <2>1. /\ UNCHANGED <<config, sensor, order, ix>>
        /\ ranges' = ranges \/ ranges' = Append(ranges, range)
    BY <1>8 DEF Close, Finish
  <2>2. ranges' \in Seq(RegisterRange)
    BY <1>3, <2>1, AppendProperties
  <2>3. CASE Close
    <3>1. range' = [start |-> 0, kind |-> "custom", count |-> 0, skip |-> 0, sensors |-> {}]
          /\ buffer' = 0
      BY <2>3 DEF Close
    <3>2. range' \in RegisterRange /\ range'.count = 0 /\ buffer' \in 0 .. ByteModulus - 1
      BY <1>1, <3>1 DEF RegisterRange
    <3> QED
      BY <1>3, <1>4, <2>1, <2>2, <3>2 DEF OrderType
  <2>4. CASE Finish
    <3>1. UNCHANGED <<range, buffer, prev>>
      BY <2>4 DEF Finish
    <3> QED
      BY <1>3, <1>4, <2>1, <2>2, <3>1 DEF TypeInv, OrderType
  <2> QED
    BY <1>8, <2>3, <2>4
<1>9. CASE UNCHANGED vars
  BY <1>1, <1>9 DEF vars, TypeInv, OrderType, InOrder, Unchanged
<1> QED
  BY <1>5, <1>6, <1>7, <1>8, <1>9 DEF Next

LEMMA InvOrder == Spec => [](TypeInv /\ InOrder)
  BY InitType, NextType, PTL DEF Spec

\* The set keeps every sensor once and every field its type, the offsets and
\* counts of eight bits included; and the set is in its order before every turn,
\* however its fields are rewritten.
THEOREM RangesType == Spec => []TypeOK
<1>1. TypeInv /\ InOrder => TypeOK
  <2> SUFFICES ASSUME TypeInv, InOrder PROVE TypeOK
    OBVIOUS
  <2>1. Len(order) = Count /\ order \in [1 .. Count -> Sensors] /\ ix \in 1 .. Count + 1
        /\ \A s \in Sensors : \E i \in 1 .. Count : order[i] = s
    BY OrderFacts DEF TypeInv, OrderType
  <2>2. {order[i] : i \in 1 .. Len(order)} = Sensors
    BY <2>1
  <2>3. \A s \in Sensors : /\ sensor[s].kind = config[s].kind /\ sensor[s].start \in Nat
                           /\ sensor[s].offset \in 0 .. ByteModulus - 1
    BY DEF TypeInv, Unchanged, SensorItem
  <2> QED
    BY <2>1, <2>2, <2>3 DEF TypeInv, TypeOK, Count
<1> QED
  BY <1>1, InvOrder, PTL
-----------------------------------------------------------------------------
(* A response finds its sensors.                                           *)

\* behind the place where a range begins
Later(kind, start, r) ==
    \/ Rank(r.kind) < Rank(kind)
    \/ r.kind = kind /\ r.start < start

\* A range that no sensor with force_new_range starts begins before everything
\* that is still ahead: the sensors, the range that is being built, and the ranges
\* that will be closed.
AheadIsLater ==
    range.count # 0 /\ ~Starts(range) => \A s \in Ahead :
        \/ Rank(range.kind) < Rank(sensor[s].kind)
        \/ range.kind = sensor[s].kind /\ ~sensor[s].force /\ range.start <= sensor[s].start

ClosedAreEarlier ==
    \A j \in 1 .. Len(ranges) : ~Starts(ranges[j]) => \A s \in Ahead :
        /\ Later(sensor[s].kind, sensor[s].start, ranges[j])
        /\ sensor[s].kind = ranges[j].kind => ~sensor[s].force

RangeIsLater ==
    range.count # 0 /\ ~done => \A j \in 1 .. Len(ranges) :
        ~Starts(ranges[j]) => Later(range.kind, range.start, ranges[j])

FirstIsForced ==
    \A i, j \in 1 .. Len(ranges) :
        j < i /\ ranges[j].kind = ranges[i].kind /\ ranges[j].start = ranges[i].start
          => Starts(ranges[j])

FoundInv == AheadIsLater /\ ClosedAreEarlier /\ RangeIsLater /\ FirstIsForced

LEMMA InitFound == Init => FoundInv
<1> SUFFICES ASSUME Init PROVE FoundInv
  OBVIOUS
<1>1. range.count = 0 /\ Len(ranges) = 0
  BY DEF Init
<1> QED
  BY <1>1 DEF FoundInv, AheadIsLater, ClosedAreEarlier, RangeIsLater, FirstIsForced

\* A turn that does not close a range takes no sensor back.
LEMMA TurnsGoOn ==
    ASSUME TypeInv, InOrder, NewRange \/ Reuse \/ Extend \/ Join
    PROVE  /\ Running /\ curr \in Sensors /\ item \in SensorItem /\ ~done'
           /\ UNCHANGED <<config, ranges>>
           /\ Ahead' \subseteq Ahead
           /\ Behind' \subseteq Behind \cup {curr}
           /\ curr \in Ahead
           /\ \A s \in Sensors :
                \/ sensor'[s] = sensor[s]
                \/ /\ ~NewRange /\ s = curr
                   /\ sensor'[s].kind = item.kind /\ sensor'[s].force = item.force
                   /\ sensor'[s].count = item.count
                   /\ sensor'[s].start = range.start
                   /\ item.kind = range.kind /\ ~item.force
           /\ range'.sensors = range.sensors \cup {curr}
           /\ NewRange => range'.kind = item.kind /\ range'.start = item.start
           /\ ~NewRange => /\ range.count # 0
                           /\ range'.kind = range.kind /\ range'.start = range.start
           /\ NewRange => range'.count = item.count /\ range'.skip = item.skip
           /\ Extend => range'.count = (range.count + item.count) % ByteModulus
           /\ Reuse \/ Join => range'.count = range.count
           /\ ~NewRange => range'.skip =
                IF item.skip # 0 /\ (range.skip = 0 \/ item.skip < range.skip)
                THEN item.skip ELSE range.skip
           /\ prev' = curr
           /\ NewRange \/ Join => sensor' = sensor /\ curr \notin Ahead'
<1> DEFINE Lower == IF item.skip # 0 /\ (range.skip = 0 \/ item.skip < range.skip)
                    THEN item.skip ELSE range.skip
<1> HIDE DEF Lower
<1>1. Running /\ ~done' /\ UNCHANGED <<config, ranges>>
  BY DEF NewRange, Reuse, Extend, Join, Running
<1>2. /\ curr \in Sensors /\ item \in SensorItem /\ curr \in Ahead /\ ix \in 1 .. Count
      /\ Count \in Nat /\ ByteModulus \in Nat \ {0}
  BY <1>1, CurrFacts, CountType, RangesAssumption
<1>3. item.start \in Nat /\ item.count \in Nat /\ item.skip \in Nat /\ item.kind \in {"custom", "coil", "holding"}
  BY <1>2, ItemTypes
<1>4. range \in RegisterRange
  BY DEF TypeInv
<1>5. Count' = Count
  BY DEF Count
<1>9. ASSUME UNCHANGED <<sensor, order>>, ix' = ix + 1
      PROVE  Ahead' \subseteq Ahead /\ Behind' \subseteq Behind \cup {curr} /\ curr \notin Ahead'
  <2>1. \A i, j \in 1 .. Count : i < j => order[i] # order[j]
    BY OrderFacts DEF TypeInv
  <2> QED
    BY <1>2, <1>5, <1>9, <2>1 DEF Ahead, Behind, curr
<1>6. CASE NewRange
  <2>1. /\ UNCHANGED <<sensor, order>> /\ ix' = ix + 1 /\ prev' = curr
        /\ range' = Joined([range EXCEPT !.start = item.start, !.kind = item.kind,
                                         !.count = item.count, !.skip = item.skip],
                           curr, item.skip)
    BY <1>6 DEF NewRange
  <2>2. Ahead' \subseteq Ahead /\ Behind' \subseteq Behind \cup {curr} /\ curr \notin Ahead'
    BY <1>9, <2>1
  <2> DEFINE r == [range EXCEPT !.start = item.start, !.kind = item.kind,
                                !.count = item.count, !.skip = item.skip]
  <2>3. r \in RegisterRange /\ r.start = item.start /\ r.kind = item.kind /\ r.sensors = range.sensors
        /\ r.count = item.count /\ r.skip = item.skip
    BY <1>3, <1>4 DEF RegisterRange
  <2>4. range' = Joined(r, curr, item.skip)
    BY <2>1
  <2> HIDE DEF r
  <2>5. /\ range'.sensors = range.sensors \cup {curr}
        /\ range'.kind = item.kind /\ range'.start = item.start
        /\ range'.count = item.count /\ range'.skip = item.skip
    BY <1>2, <1>3, <2>3, <2>4, JoinedFacts
  <2>6. ~Reuse /\ ~Extend /\ ~Join
    BY <1>6 DEF NewRange, Reuse, Extend, Join, Reuses, Extends, MayMerge
  <2> QED
    BY <1>1, <1>2, <1>6, <2>1, <2>2, <2>5, <2>6
<1>7. CASE Join
  <2>1. /\ UNCHANGED <<sensor, order>> /\ ix' = ix + 1 /\ range.count # 0 /\ prev' = curr
        /\ range' = Joined(range, curr, item.skip)
    BY <1>7 DEF Join
  <2>2. Ahead' \subseteq Ahead /\ Behind' \subseteq Behind \cup {curr} /\ curr \notin Ahead'
    BY <1>9, <2>1
  <2>3. /\ range'.sensors = range.sensors \cup {curr}
        /\ range'.kind = range.kind /\ range'.start = range.start
        /\ range'.count = range.count /\ range'.skip = Lower
    BY <1>2, <1>3, <1>4, <2>1, JoinedFacts DEF Lower
  <2>4. ~NewRange /\ ~Extend
    BY <1>7, <2>1 DEF NewRange, Extend, Join
  <2> QED
    BY <1>1, <1>2, <1>7, <2>1, <2>2, <2>3, <2>4 DEF Lower
<1>8. CASE Reuse \/ Extend
  <2>1. range.count # 0 /\ ~item.force /\ item.kind = range.kind
    BY <1>8 DEF Reuse, Extend, Reuses, Extends, MayMerge
  <2>2. prev \in Sensors /\ sensor[prev].offset \in 0 .. ByteModulus - 1 /\ buffer \in 0 .. ByteModulus - 1
    BY <2>1 DEF TypeInv, SensorItem
  <2>3. PICK offset \in 0 .. ByteModulus - 1 : Merge(offset)
    BY <1>8, <2>2 DEF Reuse, Extend
  <2>4. Ahead' \subseteq Ahead /\ Behind' \subseteq Behind \cup {curr}
    BY <1>1, <2>3, MergeStep
  <2>5. \A s \in Sensors :
          /\ s # curr => sensor'[s] = sensor[s]
          /\ s = curr => /\ sensor'[s].start = range.start
                         /\ sensor'[s].kind = item.kind /\ sensor'[s].force = item.force
                         /\ sensor'[s].count = item.count
    BY <1>1, <2>3, MergeUnchanged
  <2>6. /\ range'.sensors = range.sensors \cup {curr}
        /\ range'.kind = range.kind /\ range'.start = range.start
        /\ range'.skip = Lower
        /\ Extend => range'.count = (range.count + item.count) % ByteModulus
        /\ Reuse => range'.count = range.count
    <3> ~(Reuse /\ Extend)
      BY DEF Reuse, Extend, Extends
    <3>1. CASE Reuse
      <4>1. range' = Joined(range, curr, item.skip)
        BY <3>1 DEF Reuse
      <4> QED
        BY <1>2, <1>3, <1>4, <3>1, <4>1, JoinedFacts DEF Lower
    <3>2. CASE Extend
      <4> DEFINE r == [range EXCEPT !.count = (@ + item.count) % ByteModulus]
      <4>1. (range.count + item.count) % ByteModulus \in Nat
        BY <1>2, <1>3, <1>4 DEF RegisterRange
      <4>2. r \in RegisterRange /\ r.start = range.start /\ r.kind = range.kind /\ r.sensors = range.sensors
            /\ r.skip = range.skip /\ r.count = (range.count + item.count) % ByteModulus
        BY <1>4, <4>1 DEF RegisterRange
      <4>3. range' = Joined(r, curr, item.skip)
        BY <3>2 DEF Extend
      <4> HIDE DEF r
      <4> QED
        BY <1>2, <1>3, <3>2, <4>2, <4>3, JoinedFacts DEF Lower
    <3> QED
      BY <1>8, <3>1, <3>2
  <2>7. ~NewRange /\ ~Join
    BY <1>8, <2>1 DEF NewRange, Join, Reuse, Extend
  <2>8. prev' = curr
    BY <2>3 DEF Merge
  <2> QED
    BY <1>1, <1>2, <2>1, <2>4, <2>5, <2>6, <2>7, <2>8 DEF Lower
<1> QED
  BY <1>6, <1>7, <1>8

LEMMA TurnsFound ==
    ASSUME TypeInv, InOrder, FoundInv, NewRange \/ Reuse \/ Extend \/ Join
    PROVE  FoundInv'
<1>1. /\ Running /\ curr \in Sensors /\ item \in SensorItem /\ ~done'
      /\ UNCHANGED <<config, ranges>>
      /\ Ahead' \subseteq Ahead
      /\ curr \in Ahead
      /\ \A s \in Sensors :
           \/ sensor'[s] = sensor[s]
           \/ /\ ~NewRange /\ s = curr
              /\ sensor'[s].kind = item.kind /\ sensor'[s].force = item.force
              /\ sensor'[s].start = range.start
              /\ item.kind = range.kind /\ ~item.force
      /\ range'.sensors = range.sensors \cup {curr}
      /\ NewRange => range'.kind = item.kind /\ range'.start = item.start
      /\ ~NewRange => /\ range.count # 0
                      /\ range'.kind = range.kind /\ range'.start = range.start
  BY TurnsGoOn
<1>2. ~done /\ item = sensor[curr] /\ Ahead \subseteq Sensors
  BY <1>1, CurrFacts DEF Running, item
<1>3. \A s \in Sensors :
        /\ sensor[s].kind \in {"custom", "coil", "holding"}
        /\ Rank(sensor[s].kind) \in Nat /\ sensor[s].start \in Nat
        /\ sensor[s].force = config[s].force
  BY ItemTypes DEF TypeInv, Unchanged
<1>4. range \in RegisterRange /\ range.start \in Nat /\ Rank(range.kind) \in Nat
  BY RankType DEF TypeInv, RegisterRange
<1>5. ~Starts(range') => ~Starts(range) /\ ~item.force
  BY <1>1, <1>2, <1>3 DEF Starts
<1>6. AheadIsLater'
  <2> SUFFICES ASSUME range'.count # 0, ~Starts(range)', NEW s \in Ahead'
               PROVE  \/ Rank(range'.kind) < Rank(sensor'[s].kind)
                      \/ range'.kind = sensor'[s].kind /\ ~sensor'[s].force
                           /\ range'.start <= sensor'[s].start
    BY DEF AheadIsLater
  <2>1. ~Starts(range) /\ ~item.force
    BY <1>1, <1>5 DEF Starts
  <2>2. s \in Ahead /\ s \in Sensors
    BY <1>1, <1>2
  <2>3. CASE NewRange
    <3>1. sensor'[s] = sensor[s]
      BY <1>1, <2>2, <2>3
    <3>2. /\ Rank(item.kind) <= Rank(sensor[s].kind)
          /\ item.kind = sensor[s].kind /\ ~item.force =>
               ~sensor[s].force /\ item.start <= sensor[s].start
      BY <1>1, <2>2, Sooner
    <3>3. Rank(item.kind) = Rank(sensor[s].kind) => item.kind = sensor[s].kind
      BY <1>1, <1>2, <1>3, <2>2, RankType
    <3> QED
      BY <1>1, <1>2, <1>3, <2>1, <2>2, <2>3, <3>1, <3>2, <3>3
  <2>4. CASE ~NewRange
    <3>1. \/ Rank(range.kind) < Rank(sensor[s].kind)
          \/ range.kind = sensor[s].kind /\ ~sensor[s].force /\ range.start <= sensor[s].start
      BY <1>1, <2>1, <2>2, <2>4 DEF FoundInv, AheadIsLater
    <3>2. sensor'[s] = sensor[s] \/ (/\ sensor'[s].kind = range.kind /\ ~sensor'[s].force
                                     /\ sensor'[s].start = range.start)
      BY <1>1, <2>2
    <3> QED
      BY <1>1, <1>4, <2>4, <3>1, <3>2
  <2> QED
    BY <2>3, <2>4
<1>7. RangeIsLater'
  <2> SUFFICES ASSUME NEW j \in 1 .. Len(ranges), ~Starts(ranges[j])'
               PROVE  Later(range'.kind, range'.start, ranges[j])
    BY <1>1 DEF RangeIsLater, Later
  <2>1. ~Starts(ranges[j])
    BY <1>1 DEF Starts
  <2>2. CASE NewRange
    BY <1>1, <1>2, <2>1, <2>2 DEF FoundInv, ClosedAreEarlier
  <2>3. CASE ~NewRange
    BY <1>1, <1>2, <2>1, <2>3 DEF FoundInv, RangeIsLater
  <2> QED
    BY <2>2, <2>3
<1>8. ClosedAreEarlier'
  <2> SUFFICES ASSUME NEW j \in 1 .. Len(ranges), ~Starts(ranges[j])', NEW s \in Ahead'
               PROVE  /\ Later(sensor'[s].kind, sensor'[s].start, ranges[j])
                      /\ sensor'[s].kind = ranges[j].kind => ~sensor'[s].force
    BY <1>1 DEF ClosedAreEarlier, Later
  <2>1. ~Starts(ranges[j]) /\ s \in Ahead /\ s \in Sensors
    BY <1>1, <1>2 DEF Starts
  <2>2. CASE sensor'[s] = sensor[s]
    BY <2>1, <2>2 DEF FoundInv, ClosedAreEarlier
  <2>3. CASE sensor'[s] # sensor[s]
    <3>1. Later(range.kind, range.start, ranges[j])
      BY <1>1, <1>2, <2>1, <2>3 DEF FoundInv, RangeIsLater
    <3>2. sensor'[s].kind = range.kind /\ ~sensor'[s].force /\ sensor'[s].start = range.start
      BY <1>1, <2>1, <2>3
    <3> QED
      BY <3>1, <3>2
  <2> QED
    BY <2>2, <2>3
<1>9. FirstIsForced'
  BY <1>1 DEF FoundInv, FirstIsForced, Starts
<1> QED
  BY <1>6, <1>7, <1>8, <1>9 DEF FoundInv

\* What a range that is closed adds.
LEMMA ClosesFound ==
    ASSUME TypeInv, InOrder, FoundInv, Close \/ Finish
    PROVE  FoundInv'
<1>1. /\ ~done /\ UNCHANGED <<config, sensor, order, ix>>
      /\ Close => range.count # 0 /\ range'.count = 0 /\ Running /\ ~InRange
      /\ Close => ranges' = Append(ranges, range)
      /\ ~Close => done' = TRUE /\ ix > Len(order) /\ range' = range
      /\ ~Close => ranges' = IF range.count > 0 THEN Append(ranges, range) ELSE ranges
  BY DEF Close, Finish, Running
<1>2. ranges \in Seq(RegisterRange) /\ range \in RegisterRange
  BY DEF TypeInv
<1>3. Ahead' = Ahead /\ (~Close => Ahead = {}) /\ Ahead \subseteq Sensors
  <2>1. Count' = Count /\ Count \in Nat /\ Len(order) = Count /\ ix \in Nat
    BY CountType, OrderFacts DEF Count, TypeInv, OrderType
  <2>2. \A i \in ix .. Count : i \in 1 .. Count
    BY <2>1 DEF TypeInv, OrderType
  <2> QED
    BY <1>1, <2>1, <2>2 DEF Ahead, TypeInv, OrderType
<1>4. \/ ranges' = ranges /\ ~Close
      \/ /\ range.count # 0
         /\ Len(ranges') = Len(ranges) + 1 /\ ranges'[Len(ranges) + 1] = range
         /\ \A j \in 1 .. Len(ranges) : ranges'[j] = ranges[j]
  BY <1>1, <1>2, AppendProperties
<1>5. Len(ranges) \in Nat
  BY <1>2, LenProperties
<1>6. \A s \in Sensors :
        /\ sensor[s].kind \in {"custom", "coil", "holding"}
        /\ Rank(sensor[s].kind) \in Nat /\ sensor[s].start \in Nat
  BY ItemTypes DEF TypeInv
<1>7. range.start \in Nat /\ Rank(range.kind) \in Nat /\ range.kind \in {"custom", "coil", "holding"}
  BY <1>2, RankType DEF RegisterRange
<1>8. AheadIsLater'
  BY <1>1, <1>3 DEF AheadIsLater
<1>9. RangeIsLater'
  BY <1>1 DEF RangeIsLater
<1>10. ASSUME Close, ~Starts(range), NEW s \in Ahead
       PROVE  /\ Later(sensor[s].kind, sensor[s].start, range)
              /\ sensor[s].kind = range.kind => ~sensor[s].force
  <2>1. /\ curr \in Ahead /\ s \in Sensors /\ curr \in Sensors /\ item = sensor[curr]
        /\ Rank(item.kind) <= Rank(sensor[s].kind)
        /\ item.kind = sensor[s].kind /\ ~item.force => item.start <= sensor[s].start
    BY <1>1, <1>3, <1>10, CurrFacts, Sooner DEF item
  <2>2. /\ \/ Rank(range.kind) < Rank(item.kind)
           \/ range.kind = item.kind /\ ~item.force /\ range.start <= item.start
        /\ \/ Rank(range.kind) < Rank(sensor[s].kind)
           \/ range.kind = sensor[s].kind /\ ~sensor[s].force /\ range.start <= sensor[s].start
    BY <1>1, <1>10, <2>1 DEF FoundInv, AheadIsLater
  <2>3. item.start # range.start \/ item.kind # range.kind
    BY <1>1, <1>10 DEF InRange
  <2>4. Rank(item.kind) \in Nat /\ item.start \in Nat
    BY <1>6, <2>1
  <2>5. range.kind = sensor[s].kind => range.start < sensor[s].start /\ ~sensor[s].force
    <3> SUFFICES ASSUME range.kind = sensor[s].kind
                 PROVE  range.start < sensor[s].start /\ ~sensor[s].force
      OBVIOUS
    <3>1. range.kind = item.kind /\ ~item.force /\ range.start <= item.start
      BY <1>7, <2>1, <2>2, <2>4
    <3> QED
      BY <1>6, <1>7, <2>1, <2>2, <2>3, <2>4, <3>1
  <2> QED
    BY <2>2, <2>5 DEF Later
<1>11. ClosedAreEarlier'
  <2> SUFFICES ASSUME NEW j \in 1 .. Len(ranges'), ~Starts(ranges[j])', NEW s \in Ahead, Close
               PROVE  /\ Later(sensor[s].kind, sensor[s].start, ranges'[j])
                      /\ sensor[s].kind = ranges'[j].kind => ~sensor[s].force
    BY <1>1, <1>3 DEF ClosedAreEarlier, Later
  <2>1. ~Starts(ranges'[j])
    BY <1>1 DEF Starts
  <2>2. CASE j \in 1 .. Len(ranges)
    BY <1>4, <2>1, <2>2 DEF FoundInv, ClosedAreEarlier
  <2>3. CASE j \notin 1 .. Len(ranges)
    <3>1. ranges'[j] = range
      BY <1>4, <1>5, <2>3
    <3> QED
      BY <1>10, <2>1, <3>1
  <2> QED
    BY <2>2, <2>3
<1>12. FirstIsForced'
  <2> SUFFICES ASSUME NEW i \in 1 .. Len(ranges'), NEW j \in 1 .. Len(ranges'), j < i,
                      ranges'[j].kind = ranges'[i].kind, ranges'[j].start = ranges'[i].start
               PROVE  Starts(ranges'[j])
    BY <1>1 DEF FirstIsForced, Starts
  <2>1. CASE i \in 1 .. Len(ranges)
    <3>1. j \in 1 .. Len(ranges)
      BY <1>5, <2>1
    <3> QED
      BY <1>4, <2>1, <3>1 DEF FoundInv, FirstIsForced
  <2>2. CASE i \notin 1 .. Len(ranges)
    <3>1. ranges'[i] = range /\ j \in 1 .. Len(ranges) /\ range.count # 0 /\ ranges'[j] = ranges[j]
      BY <1>4, <1>5, <2>2
    <3>2. ~Later(range.kind, range.start, ranges[j])
      BY <1>7, <3>1 DEF Later
    <3> QED
      BY <1>1, <3>1, <3>2 DEF FoundInv, RangeIsLater
  <2> QED
    BY <2>1, <2>2
<1> QED
  BY <1>8, <1>9, <1>11, <1>12 DEF FoundInv

LEMMA NextFound == TypeInv /\ InOrder /\ FoundInv /\ [Next]_vars => FoundInv'
<1> SUFFICES ASSUME TypeInv, InOrder, FoundInv, [Next]_vars PROVE FoundInv'
  OBVIOUS
<1>1. CASE NewRange \/ Reuse \/ Extend \/ Join
  BY <1>1, TurnsFound
<1>2. CASE Close \/ Finish
  BY <1>2, ClosesFound
<1>3. CASE UNCHANGED vars
  BY <1>3 DEF vars, FoundInv, AheadIsLater, ClosedAreEarlier, RangeIsLater, FirstIsForced,
              Starts, Later, Ahead, Count
<1> QED
  BY <1>1, <1>2, <1>3 DEF Next

\* find_sensors_() returns the sensors of the very range that was asked for, however
\* the sensors are configured and whatever wraps, unless a sensor with
\* force_new_range starts an earlier range at the same address: only such a range
\* has a successor that begins at its own address (FirstIsForced).
THEOREM ResponsesFindTheirSensors == Spec => []SensorsAreFound
<1>1. TypeInv /\ FoundInv => SensorsAreFound
  <2> SUFFICES ASSUME TypeInv, FoundInv, NEW i \in 1 .. Len(ranges)
               PROVE  \/ ranges[i].sensors = FindSensors(ranges[i])
                      \/ \E j \in 1 .. i - 1 :
                           Starts(ranges[j]) /\ ranges[j].start = ranges[i].start
    BY DEF SensorsAreFound
  <2> DEFINE matching == {k \in 1 .. Len(ranges) :
                            ranges[k].start = ranges[i].start /\ ranges[k].kind = ranges[i].kind}
             m == CHOOSE k \in matching : \A l \in matching : k <= l
  <2>1. Len(ranges) \in Nat
    BY LenProperties DEF TypeInv
  <2>2. matching \in SUBSET Nat /\ i \in matching
    BY <2>1
  <2>3. m \in matching /\ \A l \in matching : m <= l
    <3>1. \E k \in matching : \A l \in matching : k <= l
      BY <2>2, Least
    <3> QED
      BY <3>1
  <2>4. FindSensors(ranges[i]) = ranges[m].sensors
    BY <2>2 DEF FindSensors
  <2> HIDE DEF m
  <2>5. m = i \/ (m \in 1 .. i - 1 /\ Starts(ranges[m]))
    BY <2>1, <2>2, <2>3 DEF FoundInv, FirstIsForced
  <2> QED
    BY <2>3, <2>4, <2>5
<1>2. Init => FoundInv
  BY InitFound
<1>3. TypeInv /\ InOrder /\ FoundInv /\ [Next]_vars => FoundInv'
  BY NextFound
<1> QED
  BY <1>1, <1>2, <1>3, InvOrder, PTL DEF Spec

-----------------------------------------------------------------------------
(* Every sensor in one range.                                              *)

\* Behind every sensor, less than ByteModulus registers on, there is a register
\* that no sensor of its kind reads: register_count does not wrap.  Ranges are far
\* shorter than that in a protocol that reads at most 125 registers at once.
ShortRuns ==
    \A s \in Sensors :
        \E a \in config[s].start .. config[s].start + ByteModulus - 1 :
            \A t \in Sensors : config[t].kind = config[s].kind =>
                a \notin config[t].start .. config[t].start + config[t].count - 1

Free(s) == \A j \in 1 .. Len(ranges) : s \notin ranges[j].sensors

InOneRange(s) ==
    \E i \in 1 .. Len(ranges) : \A j \in 1 .. Len(ranges) : s \in ranges[j].sensors <=> j = i

Same(s) == sensor[s].kind = range.kind

EmptyAtFirst == range.count = 0 => range.sensors = {}

\* A sensor ahead is as it is configured, or it waits, in the range, for a second turn.
FreshOrWaiting ==
    \A s \in Ahead :
        /\ Free(s)
        /\ \/ sensor[s] = config[s] /\ s \notin range.sensors
           \/ s \in range.sensors /\ Same(s) /\ sensor[s].start = range.start

PlacedOnce ==
    \A s \in Behind :
        \/ s \in range.sensors /\ Free(s)
        \/ s \notin range.sensors /\ InOneRange(s)

\* What can no longer be found before the range.
Higher == \A s \in Ahead : Same(s) => ~sensor[s].force /\ range.start <= sensor[s].start

WaitingIsHigher == (\E s \in Ahead : s \in range.sensors) => Higher

\* The address that the next sensor is compared with lies in the range, or it does
\* not matter.
LastFits == range.count # 0 => sensor[prev].count <= range.count \/ Higher

ForcedFits ==
    range.count # 0 =>
        \/ \E f \in Sensors : /\ config[f].force /\ config[f].kind = range.kind
                              /\ config[f].start = range.start
                              /\ config[f].count = range.count
        \/ \A s \in Ahead : Same(s) => ~sensor[s].force

KindsAhead == range.count # 0 => \A s \in Ahead : Rank(range.kind) <= Rank(sensor[s].kind)

\* Every register of the range is one that a sensor was configured to read.
Covered ==
    range.count # 0 =>
        /\ \E f \in Sensors : config[f].kind = range.kind /\ config[f].start = range.start
        /\ \A a \in range.start .. range.start + range.count - 1 : \E t \in Sensors :
              /\ config[t].kind = range.kind
              /\ a \in config[t].start .. config[t].start + config[t].count - 1

WalkInv ==
    EmptyAtFirst /\ FreshOrWaiting /\ PlacedOnce /\ WaitingIsHigher /\ LastFits
      /\ ForcedFits /\ KindsAhead /\ Covered

\* The types that the steps below compare.
LEMMA WalkTypes ==
    ASSUME TypeInv
    PROVE  /\ range.start \in Nat /\ range.count \in Nat /\ Rank(range.kind) \in Nat
           /\ range.kind \in {"custom", "coil", "holding"}
           /\ \A s \in Sensors :
                /\ sensor[s].kind \in {"custom", "coil", "holding"}
                /\ Rank(sensor[s].kind) \in Nat /\ sensor[s].start \in Nat
                /\ sensor[s].count \in Nat
                /\ sensor[s].force = config[s].force /\ sensor[s].kind = config[s].kind
                /\ sensor[s].count = config[s].count /\ sensor[s].skip = config[s].skip
                /\ config[s].count \in Nat \ {0} /\ config[s].start \in Nat
                /\ config[s].skip \in Nat /\ config[s].force \in BOOLEAN
<1>1. \A s \in Sensors : config[s] \in Items /\ config[s] \in SensorItem /\ sensor[s] \in SensorItem
  BY RangesAssumption DEF TypeInv, SensorItem
<1>2. \A s \in Sensors : config[s].count > 0
  BY <1>1, RangesAssumption
<1>3. range.start \in Nat /\ range.count \in Nat /\ range.kind \in {"custom", "coil", "holding"}
  BY DEF TypeInv, RegisterRange
<1>4. Rank(range.kind) \in Nat
  BY <1>3, RankType
<1> QED
  BY <1>1, <1>2, <1>3, <1>4, ItemTypes DEF TypeInv, Unchanged

\* The sensor whose turn it is begins nowhere before the range unless it is forced.
LEMMA HigherFromHere ==
    ASSUME TypeInv, InOrder, Running, item.kind = range.kind, ~item.force,
           range.start <= item.start
    PROVE  Higher
<1> SUFFICES ASSUME NEW s \in Ahead, Same(s)
             PROVE  ~sensor[s].force /\ range.start <= sensor[s].start
  BY DEF Higher
<1>1. s \in Sensors /\ curr \in Sensors /\ item = sensor[curr]
  BY CurrFacts DEF item
<1>2. ~sensor[s].force /\ item.start <= sensor[s].start
  BY Sooner DEF Same
<1> QED
  BY <1>1, <1>2, WalkTypes

LEMMA NewRangeWalks ==
    ASSUME TypeInv, InOrder, ~done, WalkInv, NewRange
    PROVE  WalkInv'
<1>1. /\ Running /\ curr \in Sensors /\ item \in SensorItem
      /\ UNCHANGED <<config, ranges, sensor>>
      /\ Ahead' \subseteq Ahead /\ Behind' \subseteq Behind \cup {curr}
      /\ curr \in Ahead /\ curr \notin Ahead'
      /\ range'.sensors = range.sensors \cup {curr}
      /\ range'.kind = item.kind /\ range'.start = item.start /\ range'.count = item.count
      /\ prev' = curr
  BY TurnsGoOn
<1>2. range.count = 0 /\ range.sensors = {} /\ item = sensor[curr] /\ curr \notin Behind
      /\ Ahead \subseteq Sensors /\ Behind \subseteq Sensors
  BY <1>1, CurrFacts DEF NewRange, WalkInv, EmptyAtFirst, item
<1>3. sensor[curr] = config[curr] /\ \A s \in Ahead : sensor[s] = config[s] /\ Free(s)
  BY <1>1, <1>2 DEF WalkInv, FreshOrWaiting
<1>4. /\ item.start \in Nat /\ item.count \in Nat \ {0} /\ item.force \in BOOLEAN
      /\ \A s \in Ahead : /\ Rank(item.kind) <= Rank(sensor[s].kind)
                          /\ item.kind = sensor[s].kind /\ ~item.force => ~sensor[s].force
  BY <1>1, <1>2, WalkTypes, Sooner
<1>5. EmptyAtFirst'
  BY <1>1, <1>4 DEF EmptyAtFirst
<1>6. FreshOrWaiting'
  BY <1>1, <1>2, <1>3 DEF FreshOrWaiting, Free
<1>7. PlacedOnce'
  <2> SUFFICES ASSUME NEW s \in Behind'
               PROVE  \/ s \in range'.sensors /\ Free(s)'
                      \/ s \notin range'.sensors /\ InOneRange(s)'
    BY DEF PlacedOnce
  <2>1. Free(s)' = Free(s) /\ InOneRange(s)' = InOneRange(s)
    BY <1>1 DEF Free, InOneRange
  <2>2. CASE s = curr
    BY <1>1, <1>3, <2>1, <2>2
  <2>3. CASE s # curr
    BY <1>1, <1>2, <2>1, <2>3 DEF WalkInv, PlacedOnce
  <2> QED
    BY <2>2, <2>3
<1>8. WaitingIsHigher'
  BY <1>1, <1>2 DEF WaitingIsHigher
<1>9. LastFits'
  BY <1>1, <1>2, <1>4 DEF LastFits
<1>10. ForcedFits'
  <2>1. CASE item.force
    BY <1>1, <1>2, <1>3, <2>1 DEF ForcedFits
  <2>2. CASE ~item.force
    BY <1>1, <1>4, <2>2 DEF ForcedFits, Same
  <2> QED
    BY <2>1, <2>2
<1>11. KindsAhead'
  BY <1>1, <1>4 DEF KindsAhead
<1>12. Covered'
  BY <1>1, <1>2, <1>3 DEF Covered
<1> QED
  BY <1>5, <1>6, <1>7, <1>8, <1>9, <1>10, <1>11, <1>12 DEF WalkInv

\* A sensor that may merge is where nothing of its kind is before the range.
LEMMA MergesAreHigher ==
    ASSUME TypeInv, InOrder, WalkInv, Running, Reuses \/ Extends
    PROVE  Higher
<1>1. range.count # 0 /\ ~item.force /\ range.kind = item.kind
  BY DEF Reuses, Extends, MayMerge
<1>2. curr \in Sensors /\ item = sensor[curr] /\ prev \in Sensors
  BY <1>1, CurrFacts DEF item, TypeInv
<1>3. /\ item.start \in Nat /\ range.start \in Nat /\ range.count \in Nat
      /\ sensor[prev].count \in Nat
  BY <1>2, WalkTypes
<1>4. CASE Extends
  <2>1. item.start = range.start + range.count
    BY <1>4 DEF Extends
  <2> QED
    BY <1>1, <1>3, <2>1, HigherFromHere
<1>5. CASE Reuses
  <2>1. item.start = range.start + range.count - sensor[prev].count
    BY <1>5 DEF Reuses
  <2>2. sensor[prev].count <= range.count \/ Higher
    BY <1>1 DEF WalkInv, LastFits
  <2>3. CASE sensor[prev].count <= range.count
    <3>1. range.start <= item.start
      BY <1>3, <2>1, <2>3
    <3> QED
      BY <1>1, <3>1, HigherFromHere
  <2> QED
    BY <2>2, <2>3
<1> QED
  BY <1>4, <1>5

\* The count of a range that grows does not wrap.
LEMMA NoWrap ==
    ASSUME TypeInv, InOrder, WalkInv, ShortRuns, Running, Extends
    PROVE  /\ (range.count + item.count) % ByteModulus = range.count + item.count
           /\ sensor[curr] = config[curr]
           /\ \A a \in range.start .. range.start + range.count + item.count - 1 :
                \E t \in Sensors :
                  /\ config[t].kind = range.kind
                  /\ a \in config[t].start .. config[t].start + config[t].count - 1
<1>1. /\ range.count # 0 /\ range.kind = item.kind
      /\ item.start = range.start + range.count
  BY DEF Extends, MayMerge
<1>2. curr \in Sensors /\ item = sensor[curr] /\ curr \in Ahead
  BY <1>1, CurrFacts DEF item
<1>3. /\ item.start \in Nat /\ item.count \in Nat \ {0} /\ range.start \in Nat
      /\ range.count \in Nat \ {0} /\ ByteModulus \in Nat \ {0}
  BY <1>1, <1>2, WalkTypes, RangesAssumption
<1>4. sensor[curr] = config[curr]
  <2>1. sensor[curr].start # range.start
    BY <1>1, <1>2, <1>3
  <2> QED
    BY <1>2, <2>1 DEF WalkInv, FreshOrWaiting
<1>5. ASSUME NEW a \in range.start .. range.start + range.count + item.count - 1
      PROVE  \E t \in Sensors :
               /\ config[t].kind = range.kind
               /\ a \in config[t].start .. config[t].start + config[t].count - 1
  <2>1. CASE a < item.start
    <3>1. a \in range.start .. range.start + range.count - 1
      BY <1>1, <1>3, <2>1
    <3> QED
      BY <1>1, <3>1 DEF WalkInv, Covered
  <2>2. CASE ~(a < item.start)
    <3>1. a \in item.start .. item.start + item.count - 1
      BY <1>1, <1>3, <2>2
    <3> QED
      BY <1>1, <1>2, <1>4, <3>1
  <2> QED
    BY <2>1, <2>2
<1>6. PICK f \in Sensors : config[f].kind = range.kind /\ config[f].start = range.start
  BY <1>1 DEF WalkInv, Covered
<1>7. PICK a \in range.start .. range.start + ByteModulus - 1 :
        \A t \in Sensors : config[t].kind = range.kind =>
            a \notin config[t].start .. config[t].start + config[t].count - 1
  BY <1>6 DEF ShortRuns
<1>8. a \notin range.start .. range.start + range.count + item.count - 1
  BY <1>5, <1>7
<1>9. range.count + item.count < ByteModulus
  BY <1>3, <1>7, <1>8
<1>10. (range.count + item.count) % ByteModulus = range.count + item.count
  BY <1>3, <1>9
<1> QED
  BY <1>4, <1>5, <1>10

LEMMA MergeWalks ==
    ASSUME TypeInv, InOrder, ~done, WalkInv, ShortRuns, Reuse \/ Extend
    PROVE  WalkInv'
<1>1. /\ Running /\ curr \in Sensors /\ item \in SensorItem /\ ~NewRange
      /\ UNCHANGED <<config, ranges>>
      /\ Ahead' \subseteq Ahead /\ Behind' \subseteq Behind \cup {curr}
      /\ curr \in Ahead
      /\ \A s \in Sensors :
           \/ sensor'[s] = sensor[s]
           \/ /\ s = curr
              /\ sensor'[s].kind = item.kind /\ sensor'[s].force = item.force
              /\ sensor'[s].start = range.start
              /\ item.kind = range.kind /\ ~item.force
      /\ range'.sensors = range.sensors \cup {curr}
      /\ range'.kind = range.kind /\ range'.start = range.start /\ range.count # 0
      /\ Extend => range'.count = (range.count + item.count) % ByteModulus
      /\ Reuse => range'.count = range.count
  <2>1. ~NewRange
    BY DEF NewRange, Reuse, Extend, Reuses, Extends, MayMerge
  <2> QED
    BY <2>1, TurnsGoOn
<1>2. /\ item = sensor[curr] /\ curr \notin Behind
      /\ Ahead \subseteq Sensors /\ Behind \subseteq Sensors
      /\ item.kind = range.kind /\ ~item.force
      /\ Reuse => Reuses
      /\ Extend => Extends
  BY <1>1, CurrFacts DEF item, Reuse, Extend, Reuses, Extends, MayMerge
<1>3. \A s \in Sensors : s # curr => sensor'[s] = sensor[s]
  BY <1>1
<1>4. sensor'[curr].kind = range.kind /\ ~sensor'[curr].force /\ sensor'[curr].start = range.start
  <2>1. PICK offset \in 0 .. ByteModulus - 1 : Merge(offset)
    <3>1. /\ prev \in Sensors /\ sensor[prev].offset \in 0 .. ByteModulus - 1
          /\ buffer \in 0 .. ByteModulus - 1
      BY <1>1 DEF TypeInv, SensorItem
    <3> QED
      BY <3>1 DEF Reuse, Extend
  <2> QED
    BY <1>1, <1>2, <2>1, MergeUnchanged
<1>5. Higher
  BY <1>1, <1>2, MergesAreHigher
<1>6. Higher'
  <2> SUFFICES ASSUME NEW s \in Ahead', sensor'[s].kind = range.kind
               PROVE  ~sensor'[s].force /\ range.start <= sensor'[s].start
    BY <1>1 DEF Higher, Same
  <2>1. s \in Ahead /\ s \in Sensors
    BY <1>1, <1>2
  <2>2. CASE s = curr
    BY <1>4, <2>2, WalkTypes
  <2>3. CASE s # curr
    BY <1>3, <1>5, <2>1, <2>3 DEF Higher, Same
  <2> QED
    BY <2>2, <2>3
<1>7. range'.count # 0 /\ Covered'
  <2>1. CASE Reuse
    BY <1>1, <2>1 DEF WalkInv, Covered
  <2>2. CASE Extend
    <3>1. /\ (range.count + item.count) % ByteModulus = range.count + item.count
          /\ \A a \in range.start .. range.start + range.count + item.count - 1 :
                \E t \in Sensors :
                  /\ config[t].kind = range.kind
                  /\ a \in config[t].start .. config[t].start + config[t].count - 1
      BY <1>1, <1>2, <2>2, NoWrap
    <3>2. range.count \in Nat /\ item.count \in Nat /\ range.start \in Nat
      BY <1>1, <1>2, WalkTypes
    <3>3. range'.count = range.count + item.count
      BY <1>1, <2>2, <3>1
    <3>4. range'.start + range'.count - 1 = range.start + range.count + item.count - 1
      BY <1>1, <3>2, <3>3
    <3>5. range'.count # 0
      BY <1>1, <3>2, <3>3
    <3>6. \E f \in Sensors : config[f].kind = range.kind /\ config[f].start = range.start
      BY <1>1 DEF WalkInv, Covered
    <3> QED
      BY <1>1, <3>1, <3>4, <3>5, <3>6 DEF Covered
  <2> QED
    BY <2>1, <2>2
<1>8. EmptyAtFirst' /\ WaitingIsHigher' /\ LastFits'
  BY <1>6, <1>7 DEF EmptyAtFirst, WaitingIsHigher, LastFits
<1>9. FreshOrWaiting'
  <2> SUFFICES ASSUME NEW s \in Ahead'
               PROVE  /\ Free(s)'
                      /\ \/ sensor'[s] = config[s] /\ s \notin range'.sensors
                         \/ s \in range'.sensors /\ sensor'[s].kind = range.kind
                              /\ sensor'[s].start = range.start
    BY <1>1 DEF FreshOrWaiting, Same
  <2>1. s \in Ahead /\ s \in Sensors /\ (Free(s)' <=> Free(s))
    BY <1>1, <1>2 DEF Free
  <2>2. CASE s = curr
    BY <1>1, <1>4, <2>1, <2>2 DEF WalkInv, FreshOrWaiting
  <2>3. CASE s # curr
    BY <1>1, <1>3, <2>1, <2>3 DEF WalkInv, FreshOrWaiting, Same
  <2> QED
    BY <2>2, <2>3
<1>10. PlacedOnce'
  <2> SUFFICES ASSUME NEW s \in Behind'
               PROVE  \/ s \in range'.sensors /\ Free(s)'
                      \/ s \notin range'.sensors /\ InOneRange(s)'
    BY DEF PlacedOnce
  <2>1. Free(s)' = Free(s) /\ InOneRange(s)' = InOneRange(s)
    BY <1>1 DEF Free, InOneRange
  <2>2. CASE s = curr
    BY <1>1, <2>1, <2>2 DEF WalkInv, FreshOrWaiting
  <2>3. CASE s # curr
    BY <1>1, <2>1, <2>3 DEF WalkInv, PlacedOnce
  <2> QED
    BY <2>2, <2>3
<1>11. ForcedFits'
  BY <1>1, <1>6 DEF ForcedFits, Higher, Same
<1>12. KindsAhead'
  <2> SUFFICES ASSUME NEW s \in Ahead' PROVE Rank(range.kind) <= Rank(sensor'[s].kind)
    BY <1>1 DEF KindsAhead
  <2>1. s \in Ahead /\ s \in Sensors
    BY <1>1, <1>2
  <2>2. CASE s = curr
    BY <1>4, <2>2, WalkTypes
  <2>3. CASE s # curr
    BY <1>1, <1>3, <2>1, <2>3 DEF WalkInv, KindsAhead
  <2> QED
    BY <2>2, <2>3
<1> QED
  BY <1>7, <1>8, <1>9, <1>10, <1>11, <1>12 DEF WalkInv

LEMMA JoinWalks ==
    ASSUME TypeInv, InOrder, ~done, WalkInv, ForcedAlike, Join
    PROVE  WalkInv'
<1>1. /\ Running /\ curr \in Sensors /\ item \in SensorItem
      /\ UNCHANGED <<config, ranges, sensor>>
      /\ Ahead' \subseteq Ahead /\ Behind' \subseteq Behind \cup {curr}
      /\ curr \in Ahead /\ curr \notin Ahead'
      /\ range'.sensors = range.sensors \cup {curr}
      /\ range'.kind = range.kind /\ range'.start = range.start /\ range.count # 0
      /\ range'.count = range.count
      /\ prev' = curr
  <2>1. ~NewRange
    BY DEF NewRange, Join
  <2> QED
    BY <2>1, TurnsGoOn
<1>2. /\ item = sensor[curr] /\ curr \notin Behind
      /\ Ahead \subseteq Sensors /\ Behind \subseteq Sensors
      /\ item.kind = range.kind /\ item.start = range.start
  BY <1>1, CurrFacts DEF item, Join, InRange
<1>3. Higher => Higher'
  BY <1>1 DEF Higher, Same
<1>4. EmptyAtFirst' /\ Covered' /\ KindsAhead'
  BY <1>1 DEF WalkInv, EmptyAtFirst, Covered, KindsAhead
<1>5. ForcedFits'
  BY <1>1 DEF WalkInv, ForcedFits, Same
<1>6. FreshOrWaiting'
  BY <1>1 DEF WalkInv, FreshOrWaiting, Free, Same
<1>7. PlacedOnce'
  <2> SUFFICES ASSUME NEW s \in Behind'
               PROVE  \/ s \in range'.sensors /\ Free(s)'
                      \/ s \notin range'.sensors /\ InOneRange(s)'
    BY DEF PlacedOnce
  <2>1. Free(s)' = Free(s) /\ InOneRange(s)' = InOneRange(s)
    BY <1>1 DEF Free, InOneRange
  <2>2. CASE s = curr
    BY <1>1, <2>1, <2>2 DEF WalkInv, FreshOrWaiting
  <2>3. CASE s # curr
    BY <1>1, <2>1, <2>3 DEF WalkInv, PlacedOnce
  <2> QED
    BY <2>2, <2>3
<1>8. WaitingIsHigher'
  BY <1>1, <1>3 DEF WalkInv, WaitingIsHigher
<1>9. LastFits'
  <2>1. CASE ~item.force
    <3>1. range.start <= item.start
      BY <1>2, WalkTypes
    <3> QED
      BY <1>1, <1>2, <1>3, <2>1, <3>1, HigherFromHere DEF LastFits
  <2>2. CASE item.force
    <3>1. ~Higher
      BY <1>1, <1>2, <2>2 DEF Higher, Same
    <3>2. sensor[curr] = config[curr]
      BY <1>1, <3>1 DEF WalkInv, FreshOrWaiting, WaitingIsHigher
    <3>3. PICK f \in Sensors : /\ config[f].force /\ config[f].kind = range.kind
                               /\ config[f].start = range.start
                               /\ config[f].count = range.count
      BY <1>1, <1>2, <2>2 DEF WalkInv, ForcedFits, Same
    <3>4. config[curr].count = range.count
      BY <1>1, <1>2, <2>2, <3>2, <3>3 DEF ForcedAlike
    <3>5. sensor'[prev'].count <= range'.count
      BY <1>1, <3>2, <3>4, WalkTypes
    <3> QED
      BY <3>5 DEF LastFits
  <2> QED
    BY <2>1, <2>2
<1> QED
  BY <1>4, <1>5, <1>6, <1>7, <1>8, <1>9 DEF WalkInv

LEMMA CloseWalks ==
    ASSUME TypeInv, InOrder, ~done, WalkInv, Close
    PROVE  WalkInv'
<1>1. /\ Running /\ UNCHANGED <<config, sensor, order, ix>> /\ range.count # 0 /\ ~InRange
      /\ ranges' = Append(ranges, range) /\ range'.count = 0 /\ range'.sensors = {}
  BY DEF Close
<1>2. curr \in Ahead /\ curr \in Sensors /\ Ahead \subseteq Sensors /\ item = sensor[curr]
  BY <1>1, CurrFacts DEF item
<1>3. Count' = Count /\ Ahead' = Ahead /\ Behind' = Behind
  BY <1>1 DEF Count, Ahead, Behind
<1>4. /\ Len(ranges) \in Nat
      /\ Len(ranges') = Len(ranges) + 1 /\ ranges'[Len(ranges) + 1] = range
      /\ \A j \in 1 .. Len(ranges) : ranges'[j] = ranges[j]
  BY <1>1, AppendProperties, LenProperties DEF TypeInv
<1>5. ASSUME NEW s \in Ahead PROVE s \notin range.sensors
  <2> SUFFICES ASSUME s \in range.sensors PROVE FALSE
    OBVIOUS
  <2>1. s \in Sensors /\ Same(s) /\ sensor[s].start = range.start /\ Higher
    BY <1>2 DEF WalkInv, FreshOrWaiting, WaitingIsHigher
  <2>2. /\ Rank(range.kind) <= Rank(item.kind) /\ Rank(item.kind) <= Rank(sensor[s].kind)
        /\ item.kind = sensor[s].kind /\ ~item.force => item.start <= sensor[s].start
    BY <1>1, <1>2, Sooner DEF WalkInv, KindsAhead
  <2>3. item.kind = range.kind
    <3>1. /\ Rank(item.kind) \in Nat /\ Rank(range.kind) \in Nat
          /\ item.kind \in {"custom", "coil", "holding"}
          /\ range.kind \in {"custom", "coil", "holding"}
      BY <1>2, WalkTypes
    <3>2. Rank(item.kind) = Rank(range.kind)
      BY <2>1, <2>2, <3>1 DEF Same
    <3> QED
      BY <3>1, <3>2, RankType
  <2>4. ~item.force /\ range.start <= item.start /\ item.start <= range.start
    BY <1>2, <2>1, <2>2, <2>3 DEF Higher, Same
  <2>5. item.start = range.start
    BY <1>2, <2>4, WalkTypes
  <2> QED
    BY <1>1, <2>3, <2>5 DEF InRange
<1>6. ASSUME NEW s, Free(s), s \notin range.sensors PROVE Free(s)'
  <2> SUFFICES ASSUME NEW j \in 1 .. Len(ranges') PROVE s \notin ranges'[j].sensors
    BY DEF Free
  <2>1. j \in 1 .. Len(ranges) \/ j = Len(ranges) + 1
    BY <1>4
  <2> QED
    BY <1>4, <1>6, <2>1 DEF Free
<1>7. EmptyAtFirst' /\ Covered' /\ KindsAhead' /\ ForcedFits' /\ WaitingIsHigher' /\ LastFits'
  BY <1>1 DEF EmptyAtFirst, Covered, KindsAhead, ForcedFits, WaitingIsHigher, LastFits
<1>8. FreshOrWaiting'
  BY <1>1, <1>3, <1>5, <1>6 DEF WalkInv, FreshOrWaiting
<1>9. PlacedOnce'
  <2> SUFFICES ASSUME NEW s \in Behind PROVE InOneRange(s)'
    BY <1>1, <1>3 DEF PlacedOnce
  <2>1. CASE s \in range.sensors /\ Free(s)
    <3>1. \A j \in 1 .. Len(ranges') : s \in ranges'[j].sensors <=> j = Len(ranges) + 1
      BY <1>4, <2>1 DEF Free
    <3>2. Len(ranges) + 1 \in 1 .. Len(ranges')
      BY <1>4
    <3> QED
      BY <3>1, <3>2 DEF InOneRange
  <2>2. CASE s \notin range.sensors /\ InOneRange(s)
    <3>1. PICK i \in 1 .. Len(ranges) : \A j \in 1 .. Len(ranges) :
                                           s \in ranges[j].sensors <=> j = i
      BY <2>2 DEF InOneRange
    <3>2. i \in 1 .. Len(ranges') /\ i # Len(ranges) + 1
      BY <1>4
    <3>3. \A j \in 1 .. Len(ranges') : s \in ranges'[j].sensors <=> j = i
      <4> SUFFICES ASSUME NEW j \in 1 .. Len(ranges')
                   PROVE  s \in ranges'[j].sensors <=> j = i
        OBVIOUS
      <4>1. j \in 1 .. Len(ranges) \/ j = Len(ranges) + 1
        BY <1>4
      <4> QED
        BY <1>4, <2>2, <3>1, <3>2, <4>1
    <3> QED
      BY <3>2, <3>3 DEF InOneRange
  <2> QED
    BY <2>1, <2>2 DEF WalkInv, PlacedOnce
<1> QED
  BY <1>7, <1>8, <1>9 DEF WalkInv

LEMMA FinishPlaces ==
    ASSUME TypeInv, InOrder, WalkInv, Finish
    PROVE  \A s \in Sensors : InOneRange(s)'
<1>1. /\ ix > Len(order)
      /\ ranges' = IF range.count > 0 THEN Append(ranges, range) ELSE ranges
  BY DEF Finish
<1>2. /\ range.count \in Nat /\ Len(ranges) \in Nat /\ ranges \in Seq(RegisterRange)
      /\ range \in RegisterRange
  BY WalkTypes, LenProperties DEF TypeInv
<1>3. \A s \in Sensors : s \in Behind
  <2>1. Count \in Nat /\ Len(order) = Count /\ ix \in 1 .. Count + 1
        /\ \A s \in Sensors : \E i \in 1 .. Count : order[i] = s
    BY CountType, OrderFacts DEF TypeInv, OrderType
  <2> QED
    BY <1>1, <2>1 DEF Behind
<1> SUFFICES ASSUME NEW s \in Sensors PROVE InOneRange(s)'
  OBVIOUS
<1>4. CASE range.count = 0
  BY <1>1, <1>3, <1>4 DEF WalkInv, PlacedOnce, EmptyAtFirst, InOneRange
<1>5. CASE range.count # 0
  <2>1. /\ Len(ranges') = Len(ranges) + 1 /\ ranges'[Len(ranges) + 1] = range
        /\ \A j \in 1 .. Len(ranges) : ranges'[j] = ranges[j]
    BY <1>1, <1>2, <1>5, AppendProperties
  <2>2. \A j \in 1 .. Len(ranges') : j \in 1 .. Len(ranges) \/ j = Len(ranges) + 1
    BY <1>2, <2>1
  <2>3. 1 .. Len(ranges) \subseteq 1 .. Len(ranges') /\ Len(ranges) + 1 \in 1 .. Len(ranges')
        /\ Len(ranges) + 1 \notin 1 .. Len(ranges)
    BY <1>2, <2>1
  <2>4. CASE s \in range.sensors /\ Free(s)
    <3>1. \A j \in 1 .. Len(ranges') : s \in ranges'[j].sensors <=> j = Len(ranges) + 1
      BY <2>1, <2>2, <2>3, <2>4 DEF Free
    <3> QED
      BY <2>3, <3>1 DEF InOneRange
  <2>5. CASE s \notin range.sensors /\ InOneRange(s)
    <3>1. PICK i \in 1 .. Len(ranges) : \A j \in 1 .. Len(ranges) :
                                           s \in ranges[j].sensors <=> j = i
      BY <2>5 DEF InOneRange
    <3>2. \A j \in 1 .. Len(ranges') : s \in ranges'[j].sensors <=> j = i
      BY <2>1, <2>2, <2>3, <2>5, <3>1
    <3> QED
      BY <2>3, <3>1, <3>2 DEF InOneRange
  <2> QED
    BY <1>3, <2>4, <2>5 DEF WalkInv, PlacedOnce
<1> QED
  BY <1>4, <1>5

Walked ==
    ForcedAlike /\ ShortRuns => /\ ~done => WalkInv
                                /\ done => \A s \in Sensors : InOneRange(s)

LEMMA InitWalked == Init => Walked
<1> SUFFICES ASSUME Init PROVE WalkInv /\ ~done
  BY DEF Walked
<1>1. TypeInv /\ InOrder
  BY InitType
<1>2. /\ range.count = 0 /\ range.sensors = {} /\ ix = 1 /\ sensor = config /\ Len(ranges) = 0
      /\ ~done
  BY DEF Init
<1>3. Behind = {} 
  BY <1>2 DEF Behind
<1> QED
  BY <1>2, <1>3 DEF WalkInv, EmptyAtFirst, FreshOrWaiting, PlacedOnce, WaitingIsHigher, LastFits,
                    ForcedFits, KindsAhead, Covered, Free

LEMMA NextWalked == TypeInv /\ InOrder /\ Walked /\ [Next]_vars => Walked'
<1> SUFFICES ASSUME TypeInv, InOrder, Walked, [Next]_vars PROVE Walked'
  OBVIOUS
<1>1. config' = config
  BY DEF Next, vars, NewRange, Reuse, Extend, Join, Close, Finish
<1>2. (ForcedAlike <=> ForcedAlike') /\ (ShortRuns <=> ShortRuns')
  BY <1>1 DEF ForcedAlike, ShortRuns
<1> SUFFICES ASSUME ForcedAlike, ShortRuns
             PROVE  (~done' => WalkInv') /\ (done' => \A s \in Sensors : InOneRange(s)')
  BY <1>2 DEF Walked
<1>3. (~done => WalkInv) /\ (done => \A s \in Sensors : InOneRange(s))
  BY DEF Walked
<1>4. CASE NewRange \/ Reuse \/ Extend \/ Join
  <2>1. ~done /\ ~done'
    BY <1>4, TurnsGoOn DEF Running
  <2> QED
    BY <1>3, <1>4, <2>1, NewRangeWalks, MergeWalks, JoinWalks
<1>5. CASE Close
  <2>1. ~done /\ done' = done
    BY <1>5 DEF Close, Running
  <2> QED
    BY <1>3, <1>5, <2>1, CloseWalks
<1>6. CASE Finish
  <2>1. ~done /\ done' = TRUE
    BY <1>6 DEF Finish
  <2> QED
    BY <1>3, <1>6, <2>1, FinishPlaces
<1>7. CASE UNCHANGED vars
  <2>1. /\ WalkInv' = WalkInv
        /\ \A s \in Sensors : InOneRange(s)' = InOneRange(s)
        /\ done' = done
    BY <1>7 DEF vars, WalkInv, EmptyAtFirst, FreshOrWaiting, PlacedOnce, WaitingIsHigher, LastFits,
                ForcedFits, KindsAhead, Covered, Free, InOneRange, Higher, Same, Ahead, Behind, Count
  <2> QED
    BY <1>3, <2>1
<1> QED
  BY <1>4, <1>5, <1>6, <1>7 DEF Next

\* However the loop moves the sensors it walks along, each of them ends in one range
\* and only in one, as long as the sensors with force_new_range at one address read
\* the same registers (in EverySensorInOneRange) and register_count does not wrap.
THEOREM SensorsHaveOneRange == Spec => [](ShortRuns => EverySensorInOneRange)
<1>1. Walked => (ShortRuns => EverySensorInOneRange)
  BY DEF Walked, EverySensorInOneRange, InOneRange
<1> QED
  BY <1>1, InitWalked, NextWalked, InvOrder, PTL DEF Spec

-----------------------------------------------------------------------------
(* The lowest skip_updates.                                                *)

Lowest(r) ==
    /\ r.skip = 0 => \A s \in r.sensors : config[s].skip = 0
    /\ r.skip # 0 => \E s \in r.sensors : config[s].skip = r.skip
    /\ \A s \in r.sensors : config[s].skip # 0 => r.skip <= config[s].skip

SkipInv ==
    ForcedAlike /\ ShortRuns =>
        /\ range.count # 0 => Lowest(range)
        /\ \A i \in 1 .. Len(ranges) : Lowest(ranges[i])

LEMMA InitSkip == Init => SkipInv
<1> SUFFICES ASSUME Init PROVE range.count = 0 /\ Len(ranges) = 0
  BY DEF SkipInv
<1> QED
  BY DEF Init

LEMMA NextSkip == TypeInv /\ InOrder /\ Walked /\ SkipInv /\ [Next]_vars => SkipInv'
<1> SUFFICES ASSUME TypeInv, InOrder, Walked, SkipInv, [Next]_vars PROVE SkipInv'
  OBVIOUS
<1>1. config' = config
  BY DEF Next, vars, NewRange, Reuse, Extend, Join, Close, Finish
<1>2. (ForcedAlike <=> ForcedAlike') /\ (ShortRuns <=> ShortRuns')
  BY <1>1 DEF ForcedAlike, ShortRuns
<1> SUFFICES ASSUME ForcedAlike, ShortRuns
             PROVE  /\ range'.count # 0 => Lowest(range)'
                    /\ \A i \in 1 .. Len(ranges') : Lowest(ranges[i])'
  BY <1>2 DEF SkipInv
<1>3. /\ range.count # 0 => Lowest(range)
      /\ \A i \in 1 .. Len(ranges) : Lowest(ranges[i])
  BY DEF SkipInv
<1>4. /\ range.skip \in Nat /\ range.sensors \subseteq Sensors
      /\ \A s \in Sensors : config[s].skip \in Nat /\ sensor[s].skip = config[s].skip
  BY WalkTypes DEF TypeInv, RegisterRange
<1>5. CASE NewRange \/ Reuse \/ Extend \/ Join
  <2>1. /\ curr \in Sensors /\ ranges' = ranges /\ Running
        /\ range'.sensors = range.sensors \cup {curr}
        /\ NewRange => range'.skip = item.skip
        /\ ~NewRange => range.count # 0
        /\ ~NewRange => range'.skip =
                IF item.skip # 0 /\ (range.skip = 0 \/ item.skip < range.skip)
                THEN item.skip ELSE range.skip
    BY <1>5, TurnsGoOn
  <2>2. item.skip = config[curr].skip /\ item.skip \in Nat
    BY <1>4, <2>1 DEF item
  <2>3. \A i \in 1 .. Len(ranges') : Lowest(ranges[i])'
    BY <1>1, <1>3, <2>1 DEF Lowest
  <2>4. CASE NewRange
    <3>1. range.sensors = {}
      BY <2>1, <2>4 DEF Walked, WalkInv, EmptyAtFirst, NewRange, Running
    <3>2. Lowest(range)'
      BY <1>1, <2>1, <2>2, <2>4, <3>1 DEF Lowest
    <3> QED
      BY <2>3, <3>2
  <2>5. CASE ~NewRange
    <3>1. Lowest(range)
      BY <1>3, <2>1, <2>5
    <3>2. range'.skip = IF item.skip # 0 /\ (range.skip = 0 \/ item.skip < range.skip)
                        THEN item.skip ELSE range.skip
      BY <2>1, <2>5
    <3> HIDE DEF item
    <3>3. Lowest(range)'
      <4> DEFINE sensors == range.sensors
                 skip == range.skip
      <4>1. range'.sensors = sensors \cup {curr} /\ \A s \in sensors : config[s].skip \in Nat
        BY <1>4, <2>1
      <4>2. CASE item.skip # 0 /\ (skip = 0 \/ item.skip < skip)
        <5>1. range'.skip = item.skip
          BY <3>2, <4>2
        <5>2. \A s \in sensors : config[s].skip # 0 => item.skip <= config[s].skip
          BY <1>4, <2>2, <3>1, <4>1, <4>2 DEF Lowest
        <5> QED
          BY <1>1, <2>2, <4>1, <4>2, <5>1, <5>2 DEF Lowest
      <4>3. CASE ~(item.skip # 0 /\ (skip = 0 \/ item.skip < skip))
        <5>1. range'.skip = skip
          BY <3>2, <4>3
        <5>2. item.skip = 0 \/ (skip # 0 /\ skip <= item.skip)
          BY <1>4, <2>2, <4>3
        <5> QED
          BY <1>1, <2>2, <3>1, <4>1, <5>1, <5>2 DEF Lowest
      <4> QED
        BY <4>2, <4>3
    <3> QED
      BY <2>3, <3>3
  <2> QED
    BY <2>4, <2>5
<1>6. CASE Close \/ Finish
  <2>1. /\ range'.count = 0 \/ range' = range
        /\ \/ ranges' = ranges
           \/ range.count # 0 /\ ranges' = Append(ranges, range)
    BY <1>6 DEF Close, Finish
  <2>2. range'.count # 0 => Lowest(range)'
    BY <1>1, <1>3, <2>1 DEF Lowest
  <2>3. \A i \in 1 .. Len(ranges') : Lowest(ranges'[i])
    <3>1. CASE ranges' = ranges
      BY <1>3, <3>1
    <3>2. CASE range.count # 0 /\ ranges' = Append(ranges, range)
      <4>1. /\ Len(ranges) \in Nat
            /\ Len(ranges') = Len(ranges) + 1 /\ ranges'[Len(ranges) + 1] = range
            /\ \A j \in 1 .. Len(ranges) : ranges'[j] = ranges[j]
        BY <3>2, AppendProperties, LenProperties DEF TypeInv
      <4>2. \A j \in 1 .. Len(ranges') : j \in 1 .. Len(ranges) \/ j = Len(ranges) + 1
        BY <4>1
      <4> QED
        BY <1>3, <3>2, <4>1, <4>2
    <3> QED
      BY <2>1, <3>1, <3>2
  <2> QED
    BY <1>1, <2>2, <2>3 DEF Lowest
<1>7. CASE UNCHANGED vars
  BY <1>3, <1>7 DEF vars, Lowest
<1> QED
  BY <1>5, <1>6, <1>7 DEF Next

\* A range is polled as often as its most often polled sensor, whatever the order in
\* which the sensors come to it; the same hypotheses keep a wrapped register_count from
\* leaving the sensors of one range in the next.
THEOREM RangesPollOften == Spec => [](ForcedAlike /\ ShortRuns => LowestSkip)
<1>1. TypeInv /\ SkipInv => (ForcedAlike /\ ShortRuns => LowestSkip)
  <2> SUFFICES ASSUME TypeInv, SkipInv, ForcedAlike, ShortRuns, NEW i \in 1 .. Len(ranges),
                      NEW skips, skips = {config[s].skip : s \in ranges[i].sensors} \ {0}
               PROVE  IF skips = {} THEN ranges[i].skip = 0
                      ELSE ranges[i].skip \in skips /\ \A k \in skips : ranges[i].skip <= k
    BY DEF LowestSkip
  <2>1. Lowest(ranges[i])
    BY DEF SkipInv
  <2> QED
    BY <2>1 DEF Lowest
<1> QED
  BY <1>1, InitWalked, NextWalked, InitSkip, NextSkip, InvOrder, PTL DEF Spec

-----------------------------------------------------------------------------
(* Sums over pairs.                                                        *)

\* The sum over a set that PlaceIn() is made of.
SumOf(T) == MapThenSumSet(LAMBDA pair : pair[2], T)

\* It is the sum of the numbers that the pairs carry.
LEMMA PairsAreSummed ==
    ASSUME NEW U, NEW T, T \subseteq U, IsFiniteSet(T)
    PROVE  SumOf(T) = SumOver([p \in U |-> p[2]], T)
<1> DEFINE weight == [p \in U |-> p[2]]
           G(g) == g = [s \in SUBSET T |-> IF s = {} THEN 0
                                           ELSE Pick(s)[2] + g[s \ {Pick(s)}]]
           h == CHOOSE g : G(g)
<1>1. SumOf(T) = h[T]
  BY DEF SumOf, MapThenSumSet, MapThenFoldSet, Pick
<1>2. \A g : G(g) <=> Summing(g, weight, T)
  <2>1. \A s \in SUBSET T : s # {} => Pick(s)[2] = weight[Pick(s)]
    BY DEF Pick
  <2> HIDE DEF weight
  <2> QED
    BY <2>1 DEF Summing
<1> HIDE DEF weight, G
<1>3. Summing(h, weight, T)
  BY <1>2, SumExists
<1>4. Summing(CHOOSE g : Summing(g, weight, T), weight, T)
  BY SumExists
<1>5. h[T] = (CHOOSE g : Summing(g, weight, T))[T]
  BY <1>3, <1>4, OneSum
<1> QED
  BY <1>1, <1>5 DEF SumOver, weight

LEMMA PairsNone == SumOf({}) = 0
  BY PairsAreSummed, SumOfNone, FS_EmptySet

LEMMA PairsType ==
    ASSUME NEW T, IsFiniteSet(T), \A p \in T : p[2] \in Int
    PROVE  SumOf(T) \in Int
<1> DEFINE weight == [p \in T |-> p[2]]
<1>1. SumOf(T) = SumOver(weight, T) /\ \A p \in T : weight[p] \in Int
  BY PairsAreSummed
<1> HIDE DEF weight
<1> QED
  BY <1>1, SumType

LEMMA PairsMore ==
    ASSUME NEW T, IsFiniteSet(T), \A q \in T : q[2] \in Int, NEW p, p \notin T, p[2] \in Int
    PROVE  SumOf(T \cup {p}) = SumOf(T) + p[2]
<1> DEFINE weight == [q \in T \cup {p} |-> q[2]]
<1>1. SumOf(T) = SumOver(weight, T)
  BY PairsAreSummed
<1>2. SumOf(T \cup {p}) = SumOver(weight, T \cup {p})
  BY FS_AddElement, PairsAreSummed
<1>3. (\A q \in T : weight[q] \in Int) /\ weight[p] = p[2]
  OBVIOUS
<1> HIDE DEF weight
<1> QED
  BY <1>1, <1>2, <1>3, SumOfMore

-----------------------------------------------------------------------------
(* Every sensor reads its own registers.                                   *)

\* A sensor on coils is one coil: get_register_size() counts one place for it.
SingleCoils == \A s \in Sensors : config[s].kind = "coil" => config[s].count = 1

Regular == Apart /\ Plain /\ ShortRuns /\ SingleCoils

Configs == [Sensors -> Items]

\* What a response_size adds to the two bytes of each register, by addresses.
Extras(c, T) ==
    {<<c[t].start, c[t].size - 2 * c[t].count>> : t \in {u \in T : c[u].size > 0}}

Extra(i) == IF i.size > 0 THEN i.size - 2 * i.count ELSE 0

\* The sensors at lower addresses, and PlaceIn() from the configuration.
Below(c, r, s) == {t \in r.sensors : c[t].start < c[s].start}

PlaceAt(c, r, s) ==
    c[s].offset + (IF c[s].kind = "coil" THEN c[s].start - r.start
                   ELSE 2 * (c[s].start - r.start) + SumOf(Extras(c, Below(c, r, s))))

\* The places in the response to all registers of a range.
Places(c, r) ==
    IF r.kind = "coil" THEN r.count ELSE 2 * r.count + SumOf(Extras(c, r.sensors))

LEMMA PlaceIs ==
    ASSUME NEW r, NEW s PROVE PlaceIn(r, s) = PlaceAt(config, r, s)
  BY DEF PlaceIn, PlaceAt, SumOf, Extras, Below

LEMMA ConfigTypes ==
    ASSUME NEW c \in Configs, NEW s \in Sensors
    PROVE  /\ c[s].kind \in {"custom", "coil", "holding"}
           /\ c[s].start \in Nat /\ c[s].count \in Nat \ {0}
           /\ c[s].offset \in Nat /\ c[s].size \in Nat /\ c[s].force \in BOOLEAN
           /\ c[s] \in SensorItem /\ Extra(c[s]) \in Int
<1>1. c[s] \in Items /\ c[s] \in SensorItem /\ c[s].count > 0
  BY RangesAssumption DEF SensorItem, Configs
<1> QED
  BY <1>1, ItemTypes DEF Extra

LEMMA ExtrasTypes ==
    ASSUME NEW c \in Configs, NEW T \in SUBSET Sensors
    PROVE  /\ IsFiniteSet(Extras(c, T)) /\ \A p \in Extras(c, T) : p[2] \in Int
           /\ SumOf(Extras(c, T)) \in Int
<1> DEFINE U == {u \in T : c[u].size > 0}
           f == [t \in U |-> <<c[t].start, c[t].size - 2 * c[t].count>>]
<1>1. IsFiniteSet(U)
  BY RangesAssumption, FS_Subset
<1>2. f \in Surjection(U, Extras(c, T))
  BY DEF Surjection, Extras
<1>3. IsFiniteSet(Extras(c, T))
  BY <1>1, <1>2, FS_Surjection
<1>4. \A p \in Extras(c, T) : p[2] \in Int
  <2>1. \A t \in T : c[t].size \in Nat /\ c[t].count \in Nat
    BY ConfigTypes
  <2> QED
    BY <2>1 DEF Extras
<1> QED
  BY <1>3, <1>4, PairsType

\* A sensor at another address than the others adds its own extra bytes.
LEMMA MoreExtras ==
    ASSUME NEW c \in Configs, NEW T \in SUBSET Sensors, NEW s \in Sensors,
           \A t \in T : c[t].start # c[s].start
    PROVE  SumOf(Extras(c, T \cup {s})) = SumOf(Extras(c, T)) + Extra(c[s])
<1> DEFINE p == <<c[s].start, c[s].size - 2 * c[s].count>>
<1>1. /\ IsFiniteSet(Extras(c, T)) /\ \A q \in Extras(c, T) : q[2] \in Int
      /\ SumOf(Extras(c, T)) \in Int
  BY ExtrasTypes
<1>2. CASE c[s].size > 0
  <2>1. Extras(c, T \cup {s}) = Extras(c, T) \cup {p}
    BY <1>2 DEF Extras
  <2>2. p \notin Extras(c, T)
    BY DEF Extras
  <2>3. p[2] = Extra(c[s]) /\ p[2] \in Int
    BY <1>2, ConfigTypes DEF Extra
  <2> QED
    BY <1>1, <2>1, <2>2, <2>3, PairsMore
<1>3. CASE ~(c[s].size > 0)
  <2>1. Extras(c, T \cup {s}) = Extras(c, T)
    BY <1>3 DEF Extras
  <2> QED
    BY <1>1, <1>3, <2>1 DEF Extra
<1> QED
  BY <1>2, <1>3

LEMMA SizeIs ==
    ASSUME NEW c \in Configs, NEW s \in Sensors, c[s].kind = "coil" => c[s].count = 1
    PROVE  /\ Size(c[s]) \in Nat
           /\ Size(c[s]) = IF c[s].kind = "coil" THEN c[s].count
                           ELSE 2 * c[s].count + Extra(c[s])
  BY ConfigTypes DEF Size, Extra

\* A sensor that joins a range leaves the places of the others alone, if it reads
\* what one of them reads or what lies behind them.
LEMMA PlaceKept ==
    ASSUME NEW c \in Configs, NEW q, NEW r, NEW t \in Sensors, q.sensors \subseteq Sensors,
           r.start = q.start, r.sensors = q.sensors \cup {t}, NEW s \in q.sensors,
           \/ c[s].start <= c[t].start
           \/ \E p \in q.sensors : /\ c[p].start = c[t].start
                                   /\ c[p].count = c[t].count /\ c[p].size = c[t].size
    PROVE  PlaceAt(c, r, s) = PlaceAt(c, q, s)
<1>1. \A u \in Sensors : c[u].start \in Nat
  BY ConfigTypes
<1>2. CASE c[s].start <= c[t].start
  <2>1. ~(c[t].start < c[s].start)
    BY <1>1, <1>2
  <2>2. Below(c, r, s) = Below(c, q, s)
    BY <2>1 DEF Below
  <2> QED
    BY <2>2 DEF PlaceAt
<1>3. ASSUME NEW p \in q.sensors, c[p].start = c[t].start, c[p].count = c[t].count, c[p].size = c[t].size
      PROVE  PlaceAt(c, r, s) = PlaceAt(c, q, s)
  <2>1. Below(c, r, s) \subseteq Below(c, q, s) \cup {t} /\ Below(c, q, s) \subseteq Below(c, r, s)
        /\ (t \in Below(c, r, s) => p \in Below(c, q, s))
    BY <1>3 DEF Below
  <2>2. Extras(c, Below(c, r, s)) = Extras(c, Below(c, q, s))
    BY <1>3, <2>1 DEF Extras
  <2> QED
    BY <2>2 DEF PlaceAt
<1> QED
  BY <1>2, <1>3

\* The first place, the place of what reads the same, and the place behind all.
LEMMA FirstPlace ==
    ASSUME NEW c \in Configs, NEW r, r.sensors \subseteq Sensors, NEW s \in Sensors,
           c[s].offset = 0, c[s].start = r.start, \A t \in r.sensors : r.start <= c[t].start
    PROVE  PlaceAt(c, r, s) = 0
<1>1. c[s].start \in Nat /\ \A t \in r.sensors : c[t].start \in Nat
  BY ConfigTypes
<1>2. Below(c, r, s) = {}
  BY <1>1 DEF Below
<1>3. SumOf(Extras(c, Below(c, r, s))) = 0
  BY <1>2, PairsNone DEF Extras
<1>4. c[s].start - r.start = 0
  BY <1>1
<1> QED
  BY <1>3, <1>4 DEF PlaceAt

LEMMA LikePlace ==
    ASSUME NEW c \in Configs, NEW q, NEW r, NEW t \in Sensors, q.sensors \subseteq Sensors,
           r.start = q.start, r.sensors = q.sensors \cup {t}, NEW p \in q.sensors,
           c[p].start = c[t].start, c[p].kind = c[t].kind, c[p].offset = c[t].offset
    PROVE  PlaceAt(c, r, t) = PlaceAt(c, q, p)
<1>1. c[t].start \in Nat
  BY ConfigTypes
<1>2. Below(c, r, t) = Below(c, q, p)
  BY <1>1 DEF Below
<1> QED
  BY <1>2 DEF PlaceAt

LEMMA LastPlace ==
    ASSUME NEW c \in Configs, NEW q, NEW r, NEW t \in Sensors, q.sensors \subseteq Sensors,
           r.start = q.start, r.sensors = q.sensors \cup {t}, q.start \in Nat, q.count \in Nat,
           \A s \in q.sensors : c[s].start < c[t].start, c[t].offset = 0,
           c[t].start = q.start + q.count, c[t].kind = q.kind
    PROVE  PlaceAt(c, r, t) = Places(c, q)
<1>1. c[t].start \in Nat
  BY ConfigTypes
<1>2. Below(c, r, t) = q.sensors
  BY <1>1 DEF Below
<1>3. SumOf(Extras(c, q.sensors)) \in Int
  BY ExtrasTypes
<1> QED
  BY <1>1, <1>2, <1>3 DEF PlaceAt, Places

-----------------------------------------------------------------------------
\* Sensors that read different registers of a type read them apart.
LEMMA ApartFacts ==
    ASSUME config \in Configs, Apart, NEW s \in Sensors, NEW t \in Sensors,
           config[s].kind = config[t].kind
    PROVE  /\ config[s].start = config[t].start =>
                config[s].count = config[t].count /\ config[s].size = config[t].size
           /\ config[s].start < config[t].start =>
                config[s].start + config[s].count <= config[t].start
<1>1. /\ config[s].start \in Nat /\ config[t].start \in Nat
      /\ config[s].count \in Nat \ {0} /\ config[t].count \in Nat \ {0}
  BY ConfigTypes
<1>2. \/ /\ config[s].start = config[t].start
         /\ config[s].count = config[t].count /\ config[s].size = config[t].size
      \/ config[s].start + config[s].count <= config[t].start
      \/ config[t].start + config[t].count <= config[s].start
  BY DEF Apart
<1> QED
  BY <1>1, <1>2

LEMMA ApartIsAlike == config \in Configs /\ Apart => ForcedAlike
  BY ApartFacts DEF ForcedAlike

\* All sensors ahead are as they are configured: no sensor gets a second turn.
OneTurn == \A s \in Ahead : sensor[s] = config[s] /\ s \notin range.sensors

\* The range ends with the registers of the last sensor.  Once it is longer than
\* these, nothing ahead begins before them.
LastEnds ==
    range.count # 0 =>
        /\ prev \in range.sensors
        /\ config[prev].start + config[prev].count = range.start + range.count
        /\ config[prev].start # range.start =>
              \A s \in Ahead : Same(s) => ~sensor[s].force /\ config[prev].start <= sensor[s].start

\* The request for a range asks for the registers of its sensors.
Inside(r) ==
    \A s \in r.sensors :
        /\ config[s].kind = r.kind /\ r.start <= config[s].start
        /\ config[s].start + config[s].count <= r.start + r.count

\* The offsets are the places, as far as a byte can hold them.
InPlace(r) ==
    \A s \in r.sensors :
        /\ PlaceAt(config, r, s) \in Nat
        /\ sensor[s].offset = PlaceAt(config, r, s) % ByteModulus

\* buffer is where the response ends.
Filled ==
    /\ Places(config, range) \in Nat
    /\ buffer = Places(config, range) % ByteModulus

BuiltInPlace == range.count # 0 => Inside(range) /\ InPlace(range) /\ Filled
ClosedInPlace == \A i \in 1 .. Len(ranges) : Inside(ranges[i]) /\ InPlace(ranges[i])

PlacesInv == OneTurn /\ LastEnds /\ BuiltInPlace /\ ClosedInPlace

\* What a turn that does not close the range does to its sensor and to the others.
LEMMA TurnFacts ==
    ASSUME TypeInv, InOrder, Plain, OneTurn, NewRange \/ Reuse \/ Extend \/ Join
    PROVE  /\ Running /\ curr \in Sensors /\ curr \in Ahead /\ Ahead \subseteq Sensors
           /\ config \in Configs /\ config' = config
           /\ item = config[curr] /\ sensor[curr] = config[curr] /\ item.offset = 0
           /\ range.sensors \subseteq Sensors /\ curr \notin range.sensors
           /\ range'.sensors = range.sensors \cup {curr} /\ prev' = curr
           /\ \A s \in Sensors : s # curr => sensor'[s] = sensor[s]
           /\ Ahead' \subseteq Ahead
           /\ (curr \notin Ahead' => OneTurn')
<1>1. /\ Running /\ curr \in Sensors /\ curr \in Ahead /\ config' = config
      /\ range'.sensors = range.sensors \cup {curr} /\ prev' = curr /\ Ahead' \subseteq Ahead
      /\ \A s \in Sensors : s # curr => sensor'[s] = sensor[s]
  BY TurnsGoOn
<1>2. item = sensor[curr] /\ sensor[curr] = config[curr] /\ curr \notin range.sensors
  BY <1>1 DEF item, OneTurn
<1>3. Ahead \subseteq Sensors /\ config \in Configs /\ range.sensors \subseteq Sensors
  BY <1>1, CurrFacts DEF TypeInv, Configs, RegisterRange
<1>4. item.offset = 0
  BY <1>1, <1>2 DEF Plain
<1>5. curr \notin Ahead' => OneTurn'
  BY <1>1, <1>3 DEF OneTurn
<1> QED
  BY <1>1, <1>2, <1>3, <1>4, <1>5

\* A sensor that does not lie before the range is put back where it was.
LEMMA MergeStays ==
    ASSUME TypeInv, InOrder, Running, NEW offset \in 0 .. ByteModulus - 1, Merge(offset),
           config' = config,
           item.offset = 0, range.start <= item.start, range.start = item.start => offset = 0
    PROVE  curr \notin Ahead'
<1> SUFFICES ASSUME curr \in Ahead' PROVE FALSE
  OBVIOUS
<1>1. PICK s \in Ahead \ {curr} : Less(sensor[s], s, sensor'[curr], curr)
  BY MergeStep
<1>2. /\ ix \in 1 .. Count /\ curr \in Sensors /\ item \in SensorItem /\ Count \in Nat
      /\ s \in Sensors /\ sensor[s] \in SensorItem /\ sensor'[curr] \in SensorItem
  BY CurrFacts, MergeStep, CountType DEF TypeInv
<1>3. PICK i \in ix .. Count : order[i] = s
  BY <1>1 DEF Ahead
<1>4. i \in 1 .. Count /\ ix < i
  BY <1>1, <1>2, <1>3 DEF curr
<1>5. Less(item, curr, sensor[s], s)
  BY <1>2, <1>3, <1>4, OrderFacts DEF TypeInv, item, curr
<1>6. /\ sensor'[curr].start = range.start
      /\ sensor'[curr].offset = (item.offset + offset) % ByteModulus
      /\ sensor'[curr].kind = item.kind /\ sensor'[curr].force = item.force
  BY <1>2, MergeUnchanged
<1>7. range.start = item.start => sensor'[curr].offset = item.offset
  <2>1. ByteModulus \in Nat \ {0}
    BY RangesAssumption
  <2> QED
    BY <1>6, <2>1
<1>8. Less(item, curr, sensor'[curr], curr)
  BY <1>1, <1>2, <1>5, LessIsAnOrder
<1> HIDE DEF item
<1>9. Forced(sensor'[curr]) = Forced(item) /\ Rank(sensor'[curr].kind) = Rank(item.kind)
  BY <1>6 DEF Forced
<1>10. range.start = sensor'[curr].start /\ range.start <= item.start
  BY <1>6
<1>11. /\ item.start \in Nat /\ sensor'[curr].start \in Nat /\ item.offset \in Nat
       /\ sensor'[curr].offset \in Nat /\ Forced(item) \in {0, 1} /\ Rank(item.kind) \in Nat
       /\ curr \in Nat
  BY <1>2, ItemTypes, RangesAssumption
<1> HIDE DEF curr
<1> QED
  BY <1>7, <1>8, <1>9, <1>10, <1>11 DEF Less

\* Nothing happens to the sensors of a closed range.
LEMMA ClosedStayInPlace ==
    ASSUME TypeInv, InOrder, Plain, WalkInv, PlacesInv, NewRange \/ Reuse \/ Extend \/ Join
    PROVE  ClosedInPlace'
<1>1. /\ ranges' = ranges /\ config' = config /\ curr \in Ahead
      /\ \A s \in Sensors : s # curr => sensor'[s] = sensor[s]
  BY TurnsGoOn, TurnFacts DEF PlacesInv
<1> SUFFICES ASSUME NEW i \in 1 .. Len(ranges), NEW s \in ranges[i].sensors
             PROVE  /\ config[s].kind = ranges[i].kind /\ ranges[i].start <= config[s].start
                    /\ config[s].start + config[s].count <= ranges[i].start + ranges[i].count
                    /\ PlaceAt(config, ranges[i], s) \in Nat
                    /\ sensor'[s].offset = PlaceAt(config, ranges[i], s) % ByteModulus
  BY <1>1 DEF ClosedInPlace, Inside, InPlace
<1>2. s # curr
  BY <1>1 DEF WalkInv, FreshOrWaiting, Free
<1>3. s \in Sensors
  <2>1. ranges[i] \in RegisterRange
    BY DEF TypeInv
  <2> QED
    BY <2>1 DEF RegisterRange
<1> QED
  BY <1>1, <1>2, <1>3 DEF PlacesInv, ClosedInPlace, Inside, InPlace

LEMMA NewRangePlaces ==
    ASSUME TypeInv, InOrder, Regular, WalkInv, PlacesInv, NewRange
    PROVE  PlacesInv'
<1>1. /\ curr \in Sensors /\ config \in Configs /\ config' = config
      /\ item = config[curr] /\ sensor[curr] = config[curr] /\ item.offset = 0
      /\ prev' = curr /\ (curr \notin Ahead' => OneTurn') /\ Ahead \subseteq Sensors
  BY TurnFacts DEF PlacesInv, Regular
<1>2. /\ range.count = 0 /\ range.sensors = {} /\ buffer' = Size(item) % ByteModulus
  BY DEF NewRange, WalkInv, EmptyAtFirst
<1>3. /\ range'.sensors = {curr} /\ range'.kind = item.kind /\ range'.start = item.start
      /\ range'.count = item.count /\ sensor' = sensor /\ curr \notin Ahead'
  BY <1>2, TurnsGoOn
<1>4. OneTurn' /\ ClosedInPlace'
  BY <1>1, <1>3, ClosedStayInPlace DEF Regular
<1>5. LastEnds'
  BY <1>1, <1>3 DEF LastEnds
<1>6. item.start \in Nat /\ item.count \in Nat \ {0}
  BY <1>1, ConfigTypes
<1>7. Inside(range)'
  BY <1>1, <1>3, <1>6 DEF Inside
<1>8. PlaceAt(config, range', curr) = 0
  BY <1>1, <1>3, <1>6, FirstPlace
<1>9. ByteModulus \in Nat \ {0} /\ 0 % ByteModulus = 0
  BY RangesAssumption
<1>10. InPlace(range)'
  BY <1>1, <1>3, <1>8, <1>9 DEF InPlace
<1>11. Places(config, range') = Size(item) /\ Size(item) \in Nat
  <2>1. /\ Size(item) \in Nat
        /\ Size(item) = IF item.kind = "coil" THEN item.count ELSE 2 * item.count + Extra(item)
    BY <1>1, SizeIs DEF Regular, SingleCoils
  <2>2. SumOf(Extras(config, {} \cup {curr})) = SumOf(Extras(config, {})) + Extra(item)
    BY <1>1, MoreExtras
  <2>3. Extras(config, {}) = {} /\ {} \cup {curr} = {curr} /\ Extra(item) \in Int
    BY <1>1, ConfigTypes DEF Extras
  <2>4. SumOf(Extras(config, {curr})) = Extra(item)
    BY <2>2, <2>3, PairsNone
  <2> QED
    BY <1>3, <2>1, <2>4 DEF Places
<1>12. Filled'
  BY <1>1, <1>2, <1>11 DEF Filled
<1> QED
  BY <1>4, <1>5, <1>7, <1>10, <1>12 DEF PlacesInv, BuiltInPlace

\* What the next steps need of a range and its last sensor.
LEMMA LastFacts ==
    ASSUME TypeInv, Regular, PlacesInv, range.count # 0
    PROVE  /\ prev \in range.sensors /\ prev \in Sensors /\ range.sensors \subseteq Sensors
           /\ config[prev].kind = range.kind /\ range.start <= config[prev].start
           /\ config[prev].start + config[prev].count = range.start + range.count
           /\ config[prev].start \in Nat /\ config[prev].count \in Nat \ {0}
           /\ config[prev].offset = 0 /\ sensor[prev].count = config[prev].count
           /\ Size(sensor[prev]) = Size(config[prev])
           /\ range.start \in Nat /\ range.count \in Nat
           /\ PlaceAt(config, range, prev) \in Nat
           /\ sensor[prev].offset = PlaceAt(config, range, prev) % ByteModulus
           /\ config[prev].start = range.start => PlaceAt(config, range, prev) = 0
           /\ \A s \in range.sensors : range.start <= config[s].start
<1>1. prev \in range.sensors /\ range.sensors \subseteq Sensors
      /\ range.start \in Nat /\ range.count \in Nat /\ config \in Configs
  BY DEF PlacesInv, LastEnds, TypeInv, RegisterRange, Configs
<1>2. prev \in Sensors /\ config[prev].offset = 0
  BY <1>1 DEF Regular, Plain
<1>3. config[prev].start \in Nat /\ config[prev].count \in Nat \ {0}
  BY <1>1, <1>2, ConfigTypes
<1>4. /\ sensor[prev].count = config[prev].count /\ sensor[prev].size = config[prev].size
      /\ sensor[prev].kind = config[prev].kind
  BY <1>2 DEF TypeInv, Unchanged
<1>5. Size(sensor[prev]) = Size(config[prev])
  BY <1>4 DEF Size
<1>6. Inside(range) /\ InPlace(range)
  BY DEF PlacesInv, BuiltInPlace
<1>7. \A s \in range.sensors : range.start <= config[s].start
  BY <1>6 DEF Inside
<1>8. config[prev].start = range.start => PlaceAt(config, range, prev) = 0
  BY <1>1, <1>2, <1>7, FirstPlace
<1> QED
  BY <1>1, <1>2, <1>3, <1>4, <1>5, <1>6, <1>7, <1>8 DEF PlacesInv, LastEnds, Inside, InPlace

\* A sensor that reads what the last one reads, moved (Reuse) or not (Join).
LEMMA LikeLast ==
    ASSUME TypeInv, InOrder, Regular, WalkInv, PlacesInv, Reuse \/ Join,
           curr \notin Ahead', item.start = config[prev].start,
           sensor'[curr].offset = sensor[prev].offset
    PROVE  PlacesInv'
<1>1. /\ curr \in Sensors /\ config \in Configs /\ config' = config
      /\ item = config[curr] /\ item.offset = 0 /\ curr \notin range.sensors
      /\ prev' = curr /\ OneTurn' /\ Ahead \subseteq Sensors /\ Ahead' \subseteq Ahead
      /\ range'.sensors = range.sensors \cup {curr}
      /\ \A s \in Sensors : s # curr => sensor'[s] = sensor[s]
  BY TurnFacts DEF PlacesInv, Regular
<1>2. /\ range.count # 0 /\ range'.kind = range.kind /\ range'.start = range.start
      /\ range'.count = range.count /\ buffer' = buffer /\ item.kind = range.kind
  <2>1. ~NewRange
    BY DEF NewRange, Reuse, Join, Reuses, MayMerge
  <2> QED
    BY <2>1, TurnsGoOn DEF Reuse, Join, Reuses, MayMerge, InRange
<1>3. /\ prev \in range.sensors /\ prev \in Sensors /\ range.sensors \subseteq Sensors
      /\ config[prev].kind = range.kind /\ range.start <= config[prev].start
      /\ config[prev].start + config[prev].count = range.start + range.count
      /\ config[prev].offset = 0
      /\ PlaceAt(config, range, prev) \in Nat
      /\ sensor[prev].offset = PlaceAt(config, range, prev) % ByteModulus
  BY <1>2, LastFacts
<1>4. item.count = config[prev].count /\ item.size = config[prev].size
  BY <1>1, <1>2, <1>3, ApartFacts DEF Regular
<1>5. LastEnds'
  <2> SUFFICES ASSUME config[curr].start # range.start, NEW s \in Ahead', sensor'[s].kind = range.kind
               PROVE  ~sensor'[s].force /\ config[curr].start <= sensor'[s].start
    BY <1>1, <1>2, <1>3, <1>4 DEF LastEnds, Same
  <2>1. s \in Ahead /\ sensor'[s] = sensor[s]
    BY <1>1
  <2> QED
    BY <1>1, <1>2, <2>1 DEF PlacesInv, LastEnds, Same
<1>6. Inside(range)'
  BY <1>1, <1>2, <1>3, <1>4 DEF PlacesInv, BuiltInPlace, Inside
<1>7. ASSUME NEW s \in range.sensors PROVE PlaceAt(config, range', s) = PlaceAt(config, range, s)
  BY <1>1, <1>2, <1>3, <1>4, PlaceKept
<1>8. PlaceAt(config, range', curr) = PlaceAt(config, range, prev)
  BY <1>1, <1>2, <1>3, LikePlace
<1>9. InPlace(range)'
  <2> SUFFICES ASSUME NEW s \in range.sensors \cup {curr}
               PROVE  /\ PlaceAt(config, range', s) \in Nat
                      /\ sensor'[s].offset = PlaceAt(config, range', s) % ByteModulus
    BY <1>1 DEF InPlace
  <2>1. CASE s = curr
    BY <1>3, <1>8, <2>1
  <2>2. CASE s # curr
    <3>1. s \in range.sensors /\ sensor'[s] = sensor[s]
      BY <1>1, <1>3, <2>2
    <3> QED
      BY <1>2, <1>7, <3>1 DEF PlacesInv, BuiltInPlace, InPlace
  <2> QED
    BY <2>1, <2>2
<1>10. Places(config, range') = Places(config, range)
  <2>1. Extras(config, range.sensors \cup {curr}) = Extras(config, range.sensors)
    BY <1>1, <1>3, <1>4 DEF Extras
  <2> QED
    BY <1>1, <1>2, <2>1 DEF Places
<1>11. Filled'
  BY <1>1, <1>2, <1>10 DEF PlacesInv, BuiltInPlace, Filled
<1>12. ClosedInPlace'
  BY ClosedStayInPlace DEF Regular
<1> QED
  BY <1>1, <1>5, <1>6, <1>9, <1>11, <1>12 DEF PlacesInv, BuiltInPlace

LEMMA AppendedInPlace ==
    ASSUME TypeInv, ClosedInPlace, Inside(range), InPlace(range),
           UNCHANGED <<config, sensor>>, ranges' = Append(ranges, range)
    PROVE  ClosedInPlace'
<1> SUFFICES ASSUME NEW i \in 1 .. Len(ranges'), NEW s \in ranges'[i].sensors
             PROVE  /\ config[s].kind = ranges'[i].kind /\ ranges'[i].start <= config[s].start
                    /\ config[s].start + config[s].count <= ranges'[i].start + ranges'[i].count
                    /\ PlaceAt(config, ranges'[i], s) \in Nat
                    /\ sensor[s].offset = PlaceAt(config, ranges'[i], s) % ByteModulus
  BY DEF ClosedInPlace, Inside, InPlace
<1>1. ranges \in Seq(RegisterRange) /\ range \in RegisterRange
  BY DEF TypeInv
<1>2. CASE i = Len(ranges) + 1
  <2>1. ranges'[i] = range
    BY <1>1, <1>2
  <2> QED
    BY <2>1 DEF Inside, InPlace
<1>3. CASE i # Len(ranges) + 1
  <2>1. i \in 1 .. Len(ranges) /\ ranges'[i] = ranges[i]
    BY <1>1, <1>3
  <2> QED
    BY <2>1 DEF ClosedInPlace, Inside, InPlace
<1> QED
  BY <1>2, <1>3

LEMMA Remainder ==
    ASSUME NEW m \in Nat \ {0}, NEW a \in Nat, NEW r \in 0 .. m - 1
    PROVE  (a * m + r) % m = r
<1> DEFINE y == a * m + r
           b == y \div m
           s == y % m
<1>1. y \in Nat /\ b \in Int /\ s \in 0 .. m - 1 /\ y = b * m + s
  OBVIOUS
<1>2. y = a * m + r
  OBVIOUS
<1> HIDE DEF y, b, s
<1>3. (a - b) * m = s - r
  BY <1>1, <1>2
<1>4. ~(a - b >= 1) /\ ~(a - b <= -1)
  BY <1>1, <1>3
<1>5. a - b = 0
  BY <1>1, <1>4
<1>6. s = r
  BY <1>1, <1>3, <1>5
<1> QED
  BY <1>6 DEF s, y

LEMMA ModOfSum ==
    ASSUME NEW p \in Nat, NEW z \in Nat, NEW m \in Nat \ {0}
    PROVE  ((p % m) + z) % m = (p + z) % m
<1> DEFINE a == p \div m
           r == p % m
           b == (r + z) \div m
           s == (r + z) % m
<1>1. a \in Nat /\ r \in 0 .. m - 1 /\ p = a * m + r
  OBVIOUS
<1> HIDE DEF a, r
<1>2. b \in Nat /\ s \in 0 .. m - 1 /\ r + z = b * m + s
  BY <1>1
<1> HIDE DEF b, s
<1>3. p + z = (a + b) * m + s
  BY <1>1, <1>2
<1>4. (p + z) % m = s
  <2> DEFINE c == a + b
  <2>1. c \in Nat /\ p + z = c * m + s
    BY <1>1, <1>2, <1>3
  <2> HIDE DEF c
  <2>2. (c * m + s) % m = s
    BY <1>2, <2>1, Remainder
  <2> QED
    BY <2>1, <2>2
<1> QED
  BY <1>4 DEF r, s

LEMMA ReusePlaces ==
    ASSUME TypeInv, InOrder, Regular, WalkInv, PlacesInv, Reuse
    PROVE  PlacesInv'
<1>1. /\ Running /\ curr \in Sensors /\ item \in SensorItem /\ item.offset = 0 /\ config' = config
  BY TurnFacts, CurrFacts DEF PlacesInv, Regular
<1>2. range.count # 0 /\ item.start = range.start + range.count - sensor[prev].count
  BY DEF Reuse, Reuses, MayMerge
<1>3. /\ config[prev].start + config[prev].count = range.start + range.count
      /\ range.start <= config[prev].start /\ sensor[prev].count = config[prev].count
      /\ config[prev].start \in Nat /\ config[prev].count \in Nat
      /\ range.start \in Nat /\ range.count \in Nat
      /\ sensor[prev].offset = PlaceAt(config, range, prev) % ByteModulus
      /\ config[prev].start = range.start => PlaceAt(config, range, prev) = 0
      /\ PlaceAt(config, range, prev) \in Nat
  BY <1>2, LastFacts
<1>4. item.start = config[prev].start
  BY <1>2, <1>3
<1>5. ByteModulus \in Nat \ {0} /\ 0 % ByteModulus = 0
  BY RangesAssumption
<1>6. /\ Merge(sensor[prev].offset)
      /\ sensor[prev].offset \in 0 .. ByteModulus - 1
      /\ range.start = item.start => sensor[prev].offset = 0
  BY <1>3, <1>4, <1>5 DEF Reuse
<1>7. curr \notin Ahead'
  BY <1>1, <1>3, <1>4, <1>6, MergeStays
<1>8. sensor'[curr].offset = (item.offset + sensor[prev].offset) % ByteModulus
  BY <1>1, <1>6, MergeUnchanged
<1>9. sensor'[curr].offset = sensor[prev].offset
  BY <1>1, <1>5, <1>6, <1>8
<1> QED
  BY <1>4, <1>7, <1>9, LikeLast

LEMMA JoinPlaces ==
    ASSUME TypeInv, InOrder, Regular, WalkInv, PlacesInv, Join
    PROVE  PlacesInv'
<1>1. /\ Running /\ curr \in Sensors /\ curr \in Ahead /\ item \in SensorItem
      /\ item.offset = 0 /\ config \in Configs
      /\ item = config[curr] /\ item = sensor[curr]
  BY TurnFacts, CurrFacts DEF PlacesInv, Regular
<1>2. range.count # 0 /\ item.start = range.start /\ item.kind = range.kind
  BY DEF Join, InRange
<1>3. sensor' = sensor /\ curr \notin Ahead'
  BY TurnsGoOn
<1>4. /\ range.start <= config[prev].start
      /\ config[prev].start \in Nat /\ range.start \in Nat
      /\ sensor[prev].offset = PlaceAt(config, range, prev) % ByteModulus
      /\ config[prev].start = range.start => PlaceAt(config, range, prev) = 0
  BY <1>2, LastFacts
<1>5. config[prev].start = range.start
  <2> SUFFICES ASSUME config[prev].start # range.start PROVE FALSE
    OBVIOUS
  <2>1. config[prev].start <= sensor[curr].start
    BY <1>1, <1>2 DEF PlacesInv, LastEnds, Same
  <2> QED
    BY <1>1, <1>2, <1>4, <2>1
<1>6. ByteModulus \in Nat \ {0} /\ 0 % ByteModulus = 0
  BY RangesAssumption
<1>7. sensor'[curr].offset = sensor[prev].offset
  BY <1>1, <1>3, <1>4, <1>5, <1>6
<1> QED
  BY <1>2, <1>3, <1>5, <1>7, LikeLast

LEMMA ExtendPlaces ==
    ASSUME TypeInv, InOrder, Regular, WalkInv, PlacesInv, Extend
    PROVE  PlacesInv'
<1>0. Running /\ curr \in Ahead /\ item = sensor[curr]
  BY TurnFacts, CurrFacts DEF PlacesInv, Regular
<1>1. /\ curr \in Sensors /\ item = config[curr] /\ item.offset = 0
      /\ config \in Configs /\ config' = config
      /\ range.sensors \subseteq Sensors /\ curr \notin range.sensors
      /\ prev' = curr /\ (curr \notin Ahead' => OneTurn')
      /\ Ahead \subseteq Sensors /\ Ahead' \subseteq Ahead
      /\ range'.sensors = range.sensors \cup {curr}
      /\ \A s \in Sensors : s # curr => sensor'[s] = sensor[s]
  BY TurnFacts, CurrFacts DEF PlacesInv, Regular
<1>2. /\ range.count # 0 /\ item.start = range.start + range.count
      /\ item.kind = range.kind /\ ~item.force
      /\ buffer' = (buffer + Size(item)) % ByteModulus /\ Merge(buffer)
  BY DEF Extend, Extends, MayMerge
<1>3. range'.kind = range.kind /\ range'.start = range.start
  BY <1>2, TurnsGoOn DEF NewRange
<1>4. /\ item.start \in Nat /\ item.count \in Nat \ {0} /\ range.start \in Nat
      /\ range.count \in Nat \ {0} /\ ByteModulus \in Nat \ {0}
      /\ buffer \in 0 .. ByteModulus - 1
  BY <1>1, <1>2, ConfigTypes, RangesAssumption DEF TypeInv, RegisterRange
<1>5. range'.count = range.count + item.count
  <2>1. range'.count = (range.count + item.count) % ByteModulus
    BY TurnsGoOn
  <2> QED
    BY <1>0, <1>1, <2>1, NoWrap DEF Regular, Extend
<1>6. curr \notin Ahead'
  BY <1>0, <1>1, <1>2, <1>4, MergeStays
<1>7. Inside(range) /\ InPlace(range) /\ Filled
  BY <1>2 DEF PlacesInv, BuiltInPlace
<1>8. \A s \in range.sensors : /\ config[s].start \in Nat /\ config[s].count \in Nat \ {0}
                               /\ config[s].start + config[s].count <= item.start
                               /\ config[s].start < item.start
  <2> SUFFICES ASSUME NEW s \in range.sensors
               PROVE  /\ config[s].start \in Nat /\ config[s].count \in Nat \ {0}
                      /\ config[s].start + config[s].count <= item.start
                      /\ config[s].start < item.start
    OBVIOUS
  <2>1. config[s].start \in Nat /\ config[s].count \in Nat \ {0}
    BY <1>1, ConfigTypes
  <2>2. config[s].start + config[s].count <= item.start
    BY <1>2, <1>7 DEF Inside
  <2> QED
    BY <1>4, <2>1, <2>2
<1>9. LastEnds'
  <2> SUFFICES ASSUME NEW s \in Ahead', sensor'[s].kind = range.kind
               PROVE  ~sensor'[s].force /\ config[curr].start <= sensor'[s].start
    BY <1>1, <1>2, <1>3, <1>4, <1>5 DEF LastEnds, Same
  <2>1. s \in Ahead /\ sensor'[s] = sensor[s]
    BY <1>1, <1>6
  <2> QED
    BY <1>0, <1>1, <1>2, <2>1, Sooner
<1>10. Inside(range)'
  <2> SUFFICES ASSUME NEW s \in range.sensors \cup {curr}
               PROVE  /\ config[s].kind = range.kind /\ range.start <= config[s].start
                      /\ config[s].start + config[s].count <= range.start + range'.count
    BY <1>1, <1>3 DEF Inside
  <2>1. CASE s = curr
    BY <1>1, <1>2, <1>4, <1>5, <2>1
  <2>2. CASE s # curr
    <3>1. s \in range.sensors
      BY <2>2
    <3> QED
      BY <1>2, <1>4, <1>5, <1>7, <1>8, <3>1 DEF Inside
  <2> QED
    BY <2>1, <2>2
<1>11. ASSUME NEW s \in range.sensors PROVE PlaceAt(config, range', s) = PlaceAt(config, range, s)
  <2>1. config[s].start <= config[curr].start
    BY <1>1, <1>4, <1>8
  <2> QED
    BY <1>1, <1>3, <2>1, PlaceKept
<1>12. PlaceAt(config, range', curr) = Places(config, range)
  BY <1>1, <1>2, <1>3, <1>4, <1>8, LastPlace
<1>13. sensor'[curr].offset = (item.offset + buffer) % ByteModulus
  BY <1>0, <1>1, <1>2, <1>4, MergeUnchanged
<1>14. /\ Places(config, range) \in Nat
       /\ sensor'[curr].offset = Places(config, range) % ByteModulus
  <2>1. Places(config, range) \in Nat /\ buffer = Places(config, range) % ByteModulus
    BY <1>7 DEF Filled
  <2>2. sensor'[curr].offset = buffer
    BY <1>1, <1>4, <1>13
  <2> QED
    BY <2>1, <2>2
<1>15. InPlace(range)'
  <2> SUFFICES ASSUME NEW s \in range.sensors \cup {curr}
               PROVE  /\ PlaceAt(config, range', s) \in Nat
                      /\ sensor'[s].offset = PlaceAt(config, range', s) % ByteModulus
    BY <1>1 DEF InPlace
  <2>1. CASE s = curr
    BY <1>12, <1>14, <2>1
  <2>2. CASE s # curr
    <3>1. s \in range.sensors /\ sensor'[s] = sensor[s]
      BY <1>1, <2>2
    <3> QED
      BY <1>7, <1>11, <3>1 DEF InPlace
  <2> QED
    BY <2>1, <2>2
<1>16. Size(item) \in Nat /\ Places(config, range') = Places(config, range) + Size(item)
  <2>1. /\ Size(item) \in Nat
        /\ Size(item) = IF item.kind = "coil" THEN item.count ELSE 2 * item.count + Extra(item)
    BY <1>1, SizeIs DEF Regular, SingleCoils
  <2>2. \A t \in range.sensors : config[t].start # config[curr].start
    BY <1>1, <1>4, <1>8
  <2>3. SumOf(Extras(config, range'.sensors)) = SumOf(Extras(config, range.sensors)) + Extra(item)
    <3>1. SumOf(Extras(config, range.sensors \cup {curr}))
            = SumOf(Extras(config, range.sensors)) + Extra(config[curr])
      BY <1>1, <2>2, MoreExtras
    <3> QED
      BY <1>1, <3>1
  <2>4. SumOf(Extras(config, range.sensors)) \in Int /\ Extra(item) \in Int
    BY <1>1, ExtrasTypes, ConfigTypes
  <2> QED
    BY <1>2, <1>3, <1>4, <1>5, <2>1, <2>3, <2>4 DEF Places
<1>17. Filled'
  <2> DEFINE p == Places(config, range)
             z == Size(item)
  <2>1. p \in Nat /\ z \in Nat /\ buffer = p % ByteModulus /\ buffer' = (buffer + z) % ByteModulus
    BY <1>2, <1>7, <1>16 DEF Filled
  <2> HIDE DEF p, z
  <2>2. buffer' = (p + z) % ByteModulus
    BY <1>4, <2>1, ModOfSum
  <2>3. Places(config, range') = p + z /\ p + z \in Nat
    BY <1>16, <2>1 DEF p, z
  <2> QED
    BY <1>1, <2>2, <2>3 DEF Filled
<1>18. ClosedInPlace'
  BY ClosedStayInPlace DEF Regular
<1> QED
  BY <1>1, <1>6, <1>9, <1>10, <1>15, <1>17, <1>18 DEF PlacesInv, BuiltInPlace

LEMMA ClosePlaces ==
    ASSUME TypeInv, PlacesInv, Close
    PROVE  PlacesInv'
<1>1. /\ UNCHANGED <<config, sensor, order, ix>> /\ range.count # 0
      /\ ranges' = Append(ranges, range)
      /\ range'.count = 0 /\ range'.sensors = {}
  BY DEF Close
<1>2. Ahead' = Ahead
  BY <1>1 DEF Ahead, Count
<1>3. OneTurn' /\ LastEnds' /\ BuiltInPlace'
  BY <1>1, <1>2 DEF PlacesInv, OneTurn, LastEnds, BuiltInPlace
<1>4. ClosedInPlace'
  BY <1>1, AppendedInPlace DEF PlacesInv, BuiltInPlace
<1> QED
  BY <1>3, <1>4 DEF PlacesInv

InPlaces ==
    Regular => (~done => PlacesInv) /\ ClosedInPlace

LEMMA InitPlaces == Init => InPlaces
<1> SUFFICES ASSUME Init PROVE PlacesInv
  BY DEF InPlaces, PlacesInv
<1>1. /\ range.count = 0 /\ range.sensors = {} /\ sensor = config /\ Len(ranges) = 0
  BY DEF Init
<1> QED
  BY <1>1 DEF PlacesInv, OneTurn, LastEnds, BuiltInPlace, ClosedInPlace

LEMMA NextPlaces == TypeInv /\ InOrder /\ Walked /\ InPlaces /\ [Next]_vars => InPlaces'
<1> SUFFICES ASSUME TypeInv, InOrder, Walked, InPlaces, [Next]_vars PROVE InPlaces'
  OBVIOUS
<1>1. config' = config
  BY DEF Next, vars, NewRange, Reuse, Extend, Join, Close, Finish
<1>2. Regular <=> Regular'
  BY <1>1 DEF Regular, Apart, Plain, ShortRuns, SingleCoils
<1> SUFFICES ASSUME Regular PROVE (~done' => PlacesInv') /\ ClosedInPlace'
  BY <1>2 DEF InPlaces
<1>3. (~done => PlacesInv) /\ ClosedInPlace
  BY DEF InPlaces
<1>4. ~done => WalkInv
  BY ApartIsAlike DEF Walked, Regular, TypeInv, Configs
<1>5. CASE NewRange \/ Reuse \/ Extend \/ Join
  <2>1. ~done
    BY <1>5, TurnsGoOn DEF Running
  <2>2. PlacesInv'
    BY <1>3, <1>4, <1>5, <2>1, NewRangePlaces, ReusePlaces, ExtendPlaces, JoinPlaces
  <2> QED
    BY <2>2 DEF PlacesInv
<1>6. CASE Close
  <2>1. ~done
    BY <1>6 DEF Close, Running
  <2>2. PlacesInv'
    BY <1>3, <1>6, <2>1, ClosePlaces
  <2> QED
    BY <2>2 DEF PlacesInv
<1>7. CASE Finish
  <2>1. ~done /\ done' = TRUE /\ UNCHANGED <<config, sensor>>
    BY <1>7 DEF Finish
  <2>2. PlacesInv
    BY <1>3, <2>1
  <2>3. CASE range.count > 0
    <3>1. ranges' = Append(ranges, range) /\ range.count # 0
      BY <1>7, <2>3 DEF Finish, TypeInv, RegisterRange
    <3> QED
      BY <1>3, <2>1, <2>2, <3>1, AppendedInPlace DEF PlacesInv, BuiltInPlace
  <2>4. CASE ~(range.count > 0)
    <3>1. ranges' = ranges
      BY <1>7, <2>4 DEF Finish
    <3> QED
      BY <1>3, <2>1, <3>1 DEF ClosedInPlace, Inside, InPlace
  <2> QED
    BY <2>3, <2>4
<1>8. CASE UNCHANGED vars
  <2>1. PlacesInv' = PlacesInv /\ ClosedInPlace' = ClosedInPlace /\ done' = done
    BY <1>8 DEF vars, PlacesInv, OneTurn, LastEnds, BuiltInPlace, ClosedInPlace, Inside, InPlace, Filled,
                Same, Ahead, Count
  <2> QED
    BY <1>3, <2>1
<1> QED
  BY <1>5, <1>6, <1>7, <1>8 DEF Next

\* The request for a range asks for the registers of each of its sensors, and the
\* sensor finds them at its offset in the response (create_register_ranges_()), for
\* any number of sensors, as long as register_count does not wrap and a sensor on
\* coils is one coil.
THEOREM SensorsReadTheirOwn == Spec => [](ShortRuns /\ SingleCoils => OwnRegistersAreRead)
<1>1. TypeInv /\ InPlaces => (ShortRuns /\ SingleCoils => OwnRegistersAreRead)
  <2> SUFFICES ASSUME TypeInv, InPlaces, ShortRuns, SingleCoils, Apart, Plain,
                      NEW i \in 1 .. Len(ranges), NEW s \in ranges[i].sensors
               PROVE  /\ PlaceIn(ranges[i], s) < ByteModulus =>
                           sensor[s].offset = PlaceIn(ranges[i], s)
                      /\ config[s].start + config[s].count <= ranges[i].start + ranges[i].count
    BY DEF OwnRegistersAreRead
  <2>1. Inside(ranges[i]) /\ InPlace(ranges[i])
    BY DEF InPlaces, Regular, ClosedInPlace
  <2>2. config[s].start + config[s].count <= ranges[i].start + ranges[i].count
    BY <2>1 DEF Inside
  <2> DEFINE p == PlaceAt(config, ranges[i], s)
  <2>3. p \in Nat /\ sensor[s].offset = p % ByteModulus
    BY <2>1 DEF InPlace
  <2>4. PlaceIn(ranges[i], s) = p
    BY PlaceIs
  <2> HIDE DEF p
  <2>5. p < ByteModulus => p % ByteModulus = p
    BY <2>3, RangesAssumption
  <2> QED
    BY <2>2, <2>3, <2>4, <2>5
<1>2. Init => InPlaces /\ Walked
  BY InitPlaces, InitWalked
<1>3. TypeInv /\ InOrder /\ Walked /\ InPlaces /\ [Next]_vars => Walked' /\ InPlaces'
  BY NextWalked, NextPlaces
<1> QED
  BY <1>1, <1>2, <1>3, InvOrder, PTL DEF Spec
=============================================================================
