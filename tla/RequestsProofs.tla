--------------------------- MODULE RequestsProofs ---------------------------
(***************************************************************************)
(* Theorems about the requests, for every value of the constants.          *)
(***************************************************************************)
EXTENDS Requests, FoldLemmas

-----------------------------------------------------------------------------
(* Numbers and their bits.                                                 *)

LEMMA Widths ==
    /\ \A n : n \in UInt(8) <=> n \in Nat /\ n < 256
    /\ \A n : n \in UInt(16) <=> n \in Nat /\ n < 65536
<1>1. 2^8 = 256 /\ 2^16 = 65536
  OBVIOUS
<1>2. \A n : n \in UInt(8) <=> n \in Nat /\ n < 256
  BY <1>1 DEF UInt
<1>3. \A n : n \in UInt(16) <=> n \in Nat /\ n < 65536
  BY <1>1 DEF UInt
<1> QED
  BY <1>2, <1>3

LEMMA Powers ==
    /\ 2^0 = 1 /\ 2^1 = 2 /\ 2^2 = 4 /\ 2^3 = 8
    /\ 2^4 = 16 /\ 2^5 = 32 /\ 2^6 = 64 /\ 2^7 = 128
    /\ 2^8 = 256 /\ 2^9 = 512 /\ 2^10 = 1024 /\ 2^11 = 2048
    /\ 2^12 = 4096 /\ 2^13 = 8192 /\ 2^14 = 16384 /\ 2^15 = 32768
  OBVIOUS

\* what the bits of a word stand for
Weight == [b \in 0 .. 15 |-> 2^b]

LEMMA WeightType ==
    ASSUME NEW b \in 0 .. 15 PROVE Weight[b] = 2^b /\ Weight[b] \in Nat \ {0}
<1>1. \/ b = 0 \/ b = 1 \/ b = 2 \/ b = 3 \/ b = 4 \/ b = 5 \/ b = 6 \/ b = 7
      \/ b = 8 \/ b = 9 \/ b = 10 \/ b = 11 \/ b = 12 \/ b = 13 \/ b = 14 \/ b = 15
  OBVIOUS
<1>2. \A k : b = k => 2^b = 2^k
  BY Zenon
<1>3. \/ 2^b = 2^0 \/ 2^b = 2^1 \/ 2^b = 2^2 \/ 2^b = 2^3 \/ 2^b = 2^4 \/ 2^b = 2^5
      \/ 2^b = 2^6 \/ 2^b = 2^7 \/ 2^b = 2^8 \/ 2^b = 2^9 \/ 2^b = 2^10 \/ 2^b = 2^11
      \/ 2^b = 2^12 \/ 2^b = 2^13 \/ 2^b = 2^14 \/ 2^b = 2^15
  BY <1>1, <1>2, Zenon
<1>4. 2^b \in Nat \ {0}
  BY <1>3, Powers
<1>5. Weight[b] = 2^b
  BY Zenon DEF Weight
<1> QED
  BY <1>4, <1>5

LEMMA WordIsFinite ==
    ASSUME NEW bits \in Word PROVE IsFiniteSet(bits)
<1>1. IsFiniteSet(0 .. 15)
  <2>1. 0 \in Int /\ 15 \in Int
    OBVIOUS
  <2> QED
    BY <2>1, FS_Interval
<1>2. bits \subseteq 0 .. 15
  BY DEF Word
<1> QED
  BY <1>1, <1>2, FS_Subset

LEMMA NumberIsSum ==
    ASSUME NEW bits \in Word PROVE Number(bits) = SumOver(Weight, bits)
<1> DEFINE G(g) == g = [s \in SUBSET bits |-> IF s = {} THEN 0
                                              ELSE 2^Pick(s) + g[s \ {Pick(s)}]]
           h == CHOOSE g : G(g)
<1>0. IsFiniteSet(bits)
  BY WordIsFinite
<1>1. Number(bits) = h[bits]
  BY DEF Number, MapThenSumSet, MapThenFoldSet, Pick
<1>2. \A g : G(g) <=> Summing(g, Weight, bits)
  <2>1. ASSUME NEW s \in SUBSET bits, s # {} PROVE 2^Pick(s) = Weight[Pick(s)]
    <3>1. Pick(s) \in 0 .. 15
      BY <2>1 DEF Pick, Word
    <3> QED
      BY <3>1, WeightType
  <2> QED
    BY <2>1 DEF Summing
<1> HIDE DEF G
<1>3. Summing(h, Weight, bits)
  BY <1>0, <1>2, SumExists
<1>4. Summing(CHOOSE g : Summing(g, Weight, bits), Weight, bits)
  BY <1>0, SumExists
<1>5. h[bits] = (CHOOSE g : Summing(g, Weight, bits))[bits]
  BY <1>0, <1>3, <1>4, OneSum
<1> QED
  BY <1>1, <1>5 DEF SumOver

LEMMA NumberType ==
    ASSUME NEW bits \in Word PROVE Number(bits) \in Int
<1>1. \A b \in bits : Weight[b] \in Int
  BY WeightType DEF Word
<1> QED
  BY <1>1, NumberIsSum, SumType, WordIsFinite

\* The highest bit adds its weight.
LEMMA HighestBit ==
    ASSUME NEW bits \in Word, NEW b \in 0 .. 15
    PROVE  Number(bits \cap (0 .. b))
               = Number(bits \cap (0 .. b - 1)) + IF b \in bits THEN 2^b ELSE 0
<1> DEFINE rest == bits \cap (0 .. b - 1)
<1>1. rest \in Word /\ bits \cap (0 .. b) \in Word /\ b \notin rest
  BY DEF Word
<1>2. IsFiniteSet(rest)
  BY <1>1, WordIsFinite
<1>3. CASE b \in bits
  <2>1. bits \cap (0 .. b) = rest \cup {b}
    BY <1>3 DEF Word
  <2> HIDE DEF rest
  <2>2. (\A c \in rest : Weight[c] \in Int) /\ Weight[b] \in Int
    BY <1>1, WeightType DEF Word
  <2>3. SumOver(Weight, rest \cup {b}) = SumOver(Weight, rest) + Weight[b]
    BY <1>1, <1>2, <2>2, SumOfMore
  <2>4. Number(rest \cup {b}) = Number(rest) + Weight[b]
    BY <1>1, <2>1, <2>3, NumberIsSum
  <2>5. Number(bits \cap (0 .. b)) = Number(rest) + 2^b
    BY <2>1, <2>4, WeightType
  <2> QED
    BY <1>3, <2>5 DEF rest
<1>4. CASE b \notin bits
  <2>1. bits \cap (0 .. b) = rest
    BY <1>4 DEF Word
  <2>2. Number(rest) \in Int
    BY <1>1, NumberType
  <2> HIDE DEF rest
  <2>3. Number(bits \cap (0 .. b)) = Number(rest) + 0
    BY <2>1, <2>2
  <2> QED
    BY <1>4, <2>3 DEF rest
<1> QED
  BY <1>3, <1>4

LEMMA NumberOfNone == Number({}) = 0
  BY NumberIsSum, SumOfNone DEF Word

BitOf(bits, b) == IF b \in bits THEN 1 ELSE 0

\* the four bits from position k on
Nibble(bits, k) ==
    BitOf(bits, k) + 2 * BitOf(bits, k + 1) + 4 * BitOf(bits, k + 2) + 8 * BitOf(bits, k + 3)

LEMMA NibbleType ==
    ASSUME NEW bits, NEW k PROVE Nibble(bits, k) \in 0 .. 15
<1>1. \A b : BitOf(bits, b) \in {0, 1}
  BY DEF BitOf
<1> QED
  BY <1>1 DEF Nibble

LEMMA NumberOfWord ==
    ASSUME NEW bits \in Word
    PROVE  Number(bits) = Nibble(bits, 0) + 16 * Nibble(bits, 4) + 256 * Nibble(bits, 8)
                              + 4096 * Nibble(bits, 12)
<1> DEFINE upTo(b) == Number(bits \cap (0 .. b))
<1>1. upTo(-1) = 0
  BY NumberOfNone
<1>2. \A b \in 0 .. 15 : upTo(b) = upTo(b - 1) + IF b \in bits THEN 2^b ELSE 0
  BY HighestBit
<1>3. upTo(15) = Number(bits)
  <2>1. bits \cap (0 .. 15) = bits
    BY DEF Word
  <2> QED
    BY <2>1
<1> HIDE DEF upTo
<1>4. /\ upTo(0) = BitOf(bits, 0)
      /\ upTo(1) = upTo(0) + 2 * BitOf(bits, 1)
      /\ upTo(2) = upTo(1) + 4 * BitOf(bits, 2)
      /\ upTo(3) = upTo(2) + 8 * BitOf(bits, 3)
      /\ upTo(4) = upTo(3) + 16 * BitOf(bits, 4)
      /\ upTo(5) = upTo(4) + 32 * BitOf(bits, 5)
      /\ upTo(6) = upTo(5) + 64 * BitOf(bits, 6)
      /\ upTo(7) = upTo(6) + 128 * BitOf(bits, 7)
  BY <1>1, <1>2, Powers DEF BitOf
<1>5. /\ upTo(8) = upTo(7) + 256 * BitOf(bits, 8)
      /\ upTo(9) = upTo(8) + 512 * BitOf(bits, 9)
      /\ upTo(10) = upTo(9) + 1024 * BitOf(bits, 10)
      /\ upTo(11) = upTo(10) + 2048 * BitOf(bits, 11)
      /\ upTo(12) = upTo(11) + 4096 * BitOf(bits, 12)
      /\ upTo(13) = upTo(12) + 8192 * BitOf(bits, 13)
      /\ upTo(14) = upTo(13) + 16384 * BitOf(bits, 14)
      /\ upTo(15) = upTo(14) + 32768 * BitOf(bits, 15)
  BY <1>2, Powers DEF BitOf
<1>6. \A b : BitOf(bits, b) \in {0, 1}
  BY DEF BitOf
<1>7. upTo(7) = Nibble(bits, 0) + 16 * Nibble(bits, 4)
  BY <1>4, <1>6 DEF Nibble
<1>8. upTo(11) = upTo(7) + 256 * Nibble(bits, 8)
  BY <1>5, <1>6, <1>7, NibbleType DEF Nibble
<1>9. upTo(15) = upTo(11) + 4096 * Nibble(bits, 12)
  <2>1. upTo(11) \in Int
    BY <1>7, <1>8, NibbleType
  <2> QED
    BY <1>5, <1>6, <2>1 DEF Nibble
<1> QED
  BY <1>3, <1>7, <1>8, <1>9, NibbleType

LEMMA NumberOfByte ==
    ASSUME NEW bits \in Byte
    PROVE  /\ Number(bits) = Nibble(bits, 0) + 16 * Nibble(bits, 4)
           /\ Number(bits) \in 0 .. 255
<1>1. bits \in Word
  BY DEF Byte, Word
<1>2. Nibble(bits, 8) = 0 /\ Nibble(bits, 12) = 0
  BY DEF Byte, BitOf, Nibble
<1> QED
  BY <1>1, <1>2, NumberOfWord, NibbleType

LowFour(n) ==
    (n % 2) + 2 * ((n \div 2) % 2) + 4 * ((n \div 4) % 2) + 8 * ((n \div 8) % 2)

LEMMA FourBits ==
    ASSUME NEW n \in Nat PROVE n = LowFour(n) + 16 * (n \div 16)
  BY DEF LowFour

LEMMA NibblesOfBits ==
    ASSUME NEW n \in Nat
    PROVE  /\ Nibble(Bits(n), 0) = LowFour(n)
           /\ Nibble(Bits(n), 4) = LowFour(n \div 16)
           /\ Nibble(Bits(n), 8) = LowFour(n \div 256)
           /\ Nibble(Bits(n), 12) = LowFour(n \div 4096)
<1>1. ASSUME NEW k \in Nat \ {0}, NEW b \in 0 .. 15, 2^b = k
      PROVE  BitOf(Bits(n), b) = (n \div k) % 2
  <2>1. (n \div k) % 2 \in {0, 1}
    <3>1. n \div k \in Nat
      OBVIOUS
    <3> HIDE DEF Bits
    <3> QED
      BY <3>1
  <2>2. b \in Bits(n) <=> (n \div k) % 2 = 1
    BY <1>1 DEF Bits
  <2> QED
    BY <2>1, <2>2 DEF BitOf
<1>2. BitOf(Bits(n), 0) = n % 2
  BY <1>1, Powers
<1>3. /\ BitOf(Bits(n), 1) = (n \div 2) % 2
      /\ BitOf(Bits(n), 2) = (n \div 4) % 2
      /\ BitOf(Bits(n), 3) = (n \div 8) % 2
  BY <1>1, Powers
<1>4. /\ BitOf(Bits(n), 4) = (n \div 16) % 2
      /\ BitOf(Bits(n), 5) = (n \div 32) % 2
      /\ BitOf(Bits(n), 6) = (n \div 64) % 2
      /\ BitOf(Bits(n), 7) = (n \div 128) % 2
  BY <1>1, Powers
<1>5. /\ BitOf(Bits(n), 8) = (n \div 256) % 2
      /\ BitOf(Bits(n), 9) = (n \div 512) % 2
      /\ BitOf(Bits(n), 10) = (n \div 1024) % 2
      /\ BitOf(Bits(n), 11) = (n \div 2048) % 2
  BY <1>1, Powers
<1>6. /\ BitOf(Bits(n), 12) = (n \div 4096) % 2
      /\ BitOf(Bits(n), 13) = (n \div 8192) % 2
      /\ BitOf(Bits(n), 14) = (n \div 16384) % 2
      /\ BitOf(Bits(n), 15) = (n \div 32768) % 2
  BY <1>1, Powers
<1>7. Nibble(Bits(n), 0) = LowFour(n)
  BY <1>2, <1>3 DEF Nibble, LowFour
<1>8. Nibble(Bits(n), 4) = LowFour(n \div 16)
  <2> DEFINE q == n \div 16
  <2>1. q \div 2 = n \div 32 /\ q \div 4 = n \div 64 /\ q \div 8 = n \div 128
    OBVIOUS
  <2>2. BitOf(Bits(n), 4) = q % 2
    BY <1>4
  <2> HIDE DEF q
  <2>3. /\ BitOf(Bits(n), 5) = (q \div 2) % 2
        /\ BitOf(Bits(n), 6) = (q \div 4) % 2
        /\ BitOf(Bits(n), 7) = (q \div 8) % 2
    BY <1>4, <2>1
  <2>4. Nibble(Bits(n), 4) = BitOf(Bits(n), 4) + 2 * BitOf(Bits(n), 5)
                                 + 4 * BitOf(Bits(n), 6) + 8 * BitOf(Bits(n), 7)
    BY DEF Nibble
  <2>5. Nibble(Bits(n), 4) = LowFour(q)
    BY <2>2, <2>3, <2>4 DEF LowFour
  <2> QED
    BY <2>5 DEF q
<1>9. Nibble(Bits(n), 8) = LowFour(n \div 256)
  <2> DEFINE q == n \div 256
  <2>1. q \div 2 = n \div 512 /\ q \div 4 = n \div 1024 /\ q \div 8 = n \div 2048
    OBVIOUS
  <2>2. BitOf(Bits(n), 8) = q % 2
    BY <1>5
  <2> HIDE DEF q
  <2>3. /\ BitOf(Bits(n), 9) = (q \div 2) % 2
        /\ BitOf(Bits(n), 10) = (q \div 4) % 2
        /\ BitOf(Bits(n), 11) = (q \div 8) % 2
    BY <1>5, <2>1
  <2>4. Nibble(Bits(n), 8) = BitOf(Bits(n), 8) + 2 * BitOf(Bits(n), 9)
                                 + 4 * BitOf(Bits(n), 10) + 8 * BitOf(Bits(n), 11)
    BY DEF Nibble
  <2>5. Nibble(Bits(n), 8) = LowFour(q)
    BY <2>2, <2>3, <2>4 DEF LowFour
  <2> QED
    BY <2>5 DEF q
<1>10. Nibble(Bits(n), 12) = LowFour(n \div 4096)
  <2> DEFINE q == n \div 4096
  <2>1. q \div 2 = n \div 8192 /\ q \div 4 = n \div 16384 /\ q \div 8 = n \div 32768
    OBVIOUS
  <2>2. BitOf(Bits(n), 12) = q % 2
    BY <1>6
  <2> HIDE DEF q
  <2>3. /\ BitOf(Bits(n), 13) = (q \div 2) % 2
        /\ BitOf(Bits(n), 14) = (q \div 4) % 2
        /\ BitOf(Bits(n), 15) = (q \div 8) % 2
    BY <1>6, <2>1
  <2>4. Nibble(Bits(n), 12) = BitOf(Bits(n), 12) + 2 * BitOf(Bits(n), 13)
                                 + 4 * BitOf(Bits(n), 14) + 8 * BitOf(Bits(n), 15)
    BY DEF Nibble
  <2>5. Nibble(Bits(n), 12) = LowFour(q)
    BY <2>2, <2>3, <2>4 DEF LowFour
  <2> QED
    BY <2>5 DEF q
<1> QED
  BY <1>7, <1>8, <1>9, <1>10

LEMMA Highest ==
    ASSUME NEW n \in Nat, n < 65536
    PROVE  n \div 4096 < 16
<1>1. n = 4096 * (n \div 4096) + (n % 4096) /\ n % 4096 \in Nat /\ n \div 4096 \in Nat
  OBVIOUS
<1> DEFINE q == n \div 4096
           r == n % 4096
<1> HIDE DEF q, r
<1>2. n = 4096 * q + r /\ r \in Nat /\ q \in Nat
  BY <1>1 DEF q, r
<1>3. q < 16
  BY <1>2
<1> QED
  BY <1>3 DEF q

\* The bits of a number stand for it.
LEMMA NumberOfBits ==
    ASSUME NEW n \in Nat, n < 65536
    PROVE  Bits(n) \in Word /\ Number(Bits(n)) = n
<1>1. Bits(n) \in Word
  BY DEF Bits, Word
<1> DEFINE a == n \div 16
           b == n \div 256
           c == n \div 4096
<1>2. a \in Nat /\ b \in Nat /\ c \in Nat
  OBVIOUS
<1>3. a \div 16 = b /\ b \div 16 = c
  OBVIOUS
<1>4. c < 16
  BY Highest
<1>5. n = LowFour(n) + 16 * a
  BY FourBits
<1>6. Number(Bits(n)) = LowFour(n) + 16 * LowFour(a) + 256 * LowFour(b) + 4096 * LowFour(c)
  BY <1>1, NumberOfWord, NibblesOfBits
<1>7. LowFour(n) \in Int
  BY NibblesOfBits, NibbleType
<1> HIDE DEF a, b, c
<1>8. c \div 16 = 0
  BY <1>2, <1>4
<1>9. a = LowFour(a) + 16 * b /\ b = LowFour(b) + 16 * c /\ c = LowFour(c) + 16 * 0
  BY <1>2, <1>3, <1>8, FourBits
<1>10. LowFour(a) \in Int /\ LowFour(b) \in Int /\ LowFour(c) \in Int
  BY <1>2 DEF LowFour
<1> QED
  BY <1>1, <1>2, <1>5, <1>6, <1>7, <1>9, <1>10

\* Different numbers have different bits.
LEMMA BitsDiffer ==
    ASSUME NEW m \in Nat, NEW n \in Nat, m < 65536, n < 65536, Bits(m) = Bits(n)
    PROVE  m = n
<1>1. Number(Bits(m)) = m /\ Number(Bits(n)) = n
  BY NumberOfBits
<1> QED
  BY <1>1

LEMMA BitsOfByte ==
    ASSUME NEW n \in Nat, n < 256
    PROVE  Bits(n) \in Byte /\ Number(Bits(n)) = n
<1>1. n \div 256 = 0 /\ n \div 4096 = 0
  OBVIOUS
<1>2. LowFour(0) = 0
  BY DEF LowFour
<1>3. Nibble(Bits(n), 8) = 0 /\ Nibble(Bits(n), 12) = 0
  BY <1>1, <1>2, NibblesOfBits
<1>4. \A b : BitOf(Bits(n), b) \in {0, 1}
  BY DEF BitOf
<1>5. \A b \in 8 .. 15 : BitOf(Bits(n), b) = 0
  BY <1>3, <1>4 DEF Nibble
<1>6. ASSUME NEW b \in Bits(n) PROVE b \in 0 .. 7
  <2>1. b \in 0 .. 15
    BY DEF Bits
  <2>2. BitOf(Bits(n), b) = 1
    BY DEF BitOf
  <2> QED
    BY <1>5, <2>1, <2>2
<1> QED
  BY <1>6, NumberOfBits DEF Byte

-----------------------------------------------------------------------------
(* Words and bytes.                                                        *)

LEMMA HalvesOfWord ==
    ASSUME NEW word \in Word
    PROVE  ShiftRight(word, 8) \in Byte /\ word \cap (0 .. 7) \in Byte
<1>1. \A b : b \in ShiftRight(word, 8) <=> b \in 0 .. 7 /\ b + 8 \in word
  BY DEF ShiftRight, Word
<1> QED
  BY <1>1 DEF Byte

LEMMA TwoBytesOfWord ==
    ASSUME NEW word \in Word
    PROVE  /\ TwoBytes(word) \in Seq(Byte) /\ Len(TwoBytes(word)) = 2
           /\ TwoBytes(word)[1] \in Byte /\ TwoBytes(word)[2] \in Byte
           /\ \A b \in 0 .. 7 : b \in TwoBytes(word)[1] <=> b + 8 \in word
           /\ \A b \in 0 .. 7 : b \in TwoBytes(word)[2] <=> b \in word
<1>1. TwoBytes(word)[1] = ShiftRight(word, 8) /\ TwoBytes(word)[2] = word \cap (0 .. 7)
  BY DEF TwoBytes
<1>2. \A b : b \in ShiftRight(word, 8) <=> b \in 0 .. 7 /\ b + 8 \in word
  BY DEF ShiftRight, Word
<1>3. ShiftRight(word, 8) \in Byte /\ word \cap (0 .. 7) \in Byte
  BY <1>2 DEF Byte
<1>4. TwoBytes(word) \in Seq(Byte) /\ Len(TwoBytes(word)) = 2
  BY <1>3 DEF TwoBytes
<1> QED
  BY <1>1, <1>2, <1>3, <1>4

\* A word is the number of its two bytes.
LEMMA NumberOfTwoBytes ==
    ASSUME NEW word \in Word
    PROVE  256 * Number(TwoBytes(word)[1]) + Number(TwoBytes(word)[2]) = Number(word)
<1> DEFINE high == TwoBytes(word)[1]
           low == TwoBytes(word)[2]
<1>1. high \in Byte /\ low \in Byte
  BY TwoBytesOfWord
<1>2. \A b \in 0 .. 7 : BitOf(high, b) = BitOf(word, b + 8) /\ BitOf(low, b) = BitOf(word, b)
  BY TwoBytesOfWord DEF BitOf
<1> HIDE DEF high, low
<1>3. /\ Nibble(high, 0) = Nibble(word, 8) /\ Nibble(high, 4) = Nibble(word, 12)
      /\ Nibble(low, 0) = Nibble(word, 0) /\ Nibble(low, 4) = Nibble(word, 4)
  BY <1>2 DEF Nibble
<1>4. /\ Number(high) = Nibble(word, 8) + 16 * Nibble(word, 12)
      /\ Number(low) = Nibble(word, 0) + 16 * Nibble(word, 4)
  BY <1>1, <1>3, NumberOfByte
<1>5. Number(word) = Nibble(word, 0) + 16 * Nibble(word, 4) + 256 * Nibble(word, 8)
                         + 4096 * Nibble(word, 12)
  BY NumberOfWord
<1>6. /\ Nibble(word, 0) \in Int /\ Nibble(word, 4) \in Int
      /\ Nibble(word, 8) \in Int /\ Nibble(word, 12) \in Int
  BY NibbleType
<1>7. 256 * Number(high) + Number(low) = Number(word)
  BY <1>4, <1>5, <1>6
<1> QED
  BY <1>7 DEF high, low

-----------------------------------------------------------------------------
(* The frames.                                                             *)

\* s is a sequence of n bytes
Bytes(s, n) == s \in Seq(Byte) /\ n <= Len(s) /\ Len(s) <= n
Joins(u, s, t) == u = s \o t
Composed(u, p1, p2, p3, p4, p5) == u = p1 \o p2 \o p3 \o p4 \o p5

LEMMA Appended ==
    ASSUME NEW s, NEW t, NEW u, NEW m \in Nat, NEW n \in Nat,
           Bytes(s, m), Bytes(t, n), Joins(u, s, t)
    PROVE  /\ Bytes(u, m + n)
           /\ \A i \in 1 .. m : u[i] = s[i]
           /\ \A i \in 1 .. n : u[m + i] = t[i]
<1>0. s \in Seq(Byte) /\ t \in Seq(Byte)
  BY DEF Bytes
<1>1. \A i \in Int : 1 <= i /\ i <= Len(s) => (s \o t)[i] = s[i]
  BY <1>0
<1>2. \A i \in Int : 1 <= i /\ i <= Len(t) => (s \o t)[Len(s) + i] = t[i]
  BY <1>0
<1>3. s \o t \in Seq(Byte) /\ Len(s \o t) = Len(s) + Len(t)
  BY <1>0
<1>4. Len(s) = m /\ Len(t) = n
  BY DEF Bytes
<1> QED
  BY <1>1, <1>2, <1>3, <1>4, <1>0 DEF Bytes, Joins

LEMMA Beginning ==
    ASSUME NEW s, NEW m \in Nat, NEW n \in Nat, Bytes(s, m), n <= m
    PROVE  Bytes(SubSeq(s, 1, n), n) /\ \A i \in 1 .. n : SubSeq(s, 1, n)[i] = s[i]
<1>1. s \in Seq(Byte) /\ n <= Len(s)
  BY DEF Bytes
<1>2. SubSeq(s, 1, n) \in Seq(Byte) /\ Len(SubSeq(s, 1, n)) = n
  BY <1>1
<1>3. \A i \in 1 .. n : SubSeq(s, 1, n)[i] = s[i]
  BY <1>1
<1> QED
  BY <1>2, <1>3 DEF Bytes

LEMMA OneByte ==
    ASSUME NEW b \in Byte PROVE Bytes(<<b>>, 1) /\ <<b>>[1] = b
  BY DEF Bytes

LEMMA PairOfBytes ==
    ASSUME NEW a \in Byte, NEW b \in Byte
    PROVE  Bytes(<<a, b>>, 2) /\ <<a, b>>[1] = a /\ <<a, b>>[2] = b
  BY DEF Bytes

LEMMA BytesOfWord ==
    ASSUME NEW word \in Word PROVE Bytes(TwoBytes(word), 2)
<1>1. ShiftRight(word, 8) \in Byte /\ word \cap (0 .. 7) \in Byte
  BY HalvesOfWord
<1> QED
  BY <1>1, PairOfBytes, Zenon DEF TwoBytes

LEMMA FiveParts ==
    ASSUME NEW p1, NEW p2, NEW p3, NEW p4, NEW p5,
           Bytes(p1, 2), Bytes(p2, 3), Bytes(p3, 1), Bytes(p4, 2), Bytes(p5, 2),
           NEW q5, Composed(q5, p1, p2, p3, p4, p5)
    PROVE  /\ Bytes(q5, 10)
           /\ q5[6] = p3[1] /\ q5[7] = p4[1] /\ q5[8] = p4[2] /\ q5[9] = p5[1] /\ q5[10] = p5[2]
<1>1. PICK q2 : Joins(q2, p1, p2)
  BY DEF Joins
<1>2. PICK q3 : Joins(q3, q2, p3)
  BY DEF Joins
<1>3. PICK q4 : Joins(q4, q3, p4)
  BY DEF Joins
<1>4. Joins(q5, q4, p5)
  BY <1>1, <1>2, <1>3, Zenon DEF Joins, Composed
<1>6. Bytes(q2, 5)
  BY <1>1, Appended
<1>7. Bytes(q3, 6) /\ q3[6] = p3[1]
  BY <1>2, <1>6, Appended
<1>8. Bytes(q4, 8) /\ q4[6] = q3[6] /\ q4[7] = p4[1] /\ q4[8] = p4[2]
  BY <1>3, <1>7, Appended
<1>9. /\ Bytes(q5, 10)
      /\ q5[6] = q4[6] /\ q5[7] = q4[7] /\ q5[8] = q4[8] /\ q5[9] = p5[1] /\ q5[10] = p5[2]
  BY <1>4, <1>8, Appended
<1> QED
  BY <1>7, <1>8, <1>9

\* The parts of a header before and behind the length byte.
LEMMA HeaderBytes ==
    ASSUME NEW fc \in UInt(8), NEW address \in UInt(16), NEW count \in UInt(16)
    PROVE  /\ Bytes(TwoBytes(Bits(Tid)), 2) /\ Bytes(<<{}, {}, {}>>, 3)
           /\ Bits(Unit) \in Byte /\ Bits(fc) \in Byte
           /\ Bytes(<<Bits(Unit), Bits(fc)>>, 2)
           /\ <<Bits(Unit), Bits(fc)>>[1] = Bits(Unit) /\ <<Bits(Unit), Bits(fc)>>[2] = Bits(fc)
           /\ Bytes(TwoBytes(Bits(address)), 2) /\ Bytes(TwoBytes(Bits(count)), 2)
<1>1. fc \in Nat /\ fc < 256 /\ Unit \in Nat /\ Unit < 256
  BY ConfigurationAssumption, Widths
<1>2. Bits(Unit) \in Byte /\ Bits(fc) \in Byte
  BY <1>1, BitsOfByte
<1>3. Bits(Tid) \in Word /\ Bits(address) \in Word /\ Bits(count) \in Word
  BY DEF Bits, Word
<1>4. Bytes(<<{}, {}, {}>>, 3)
  BY DEF Bytes, Byte
<1> QED
  BY <1>2, <1>3, <1>4, PairOfBytes, BytesOfWord

\* the sixth byte of a frame
Length(payload) == IF payload = <<>> THEN 6 ELSE (4 + Len(payload)) % 256

LEMMA LengthType ==
    ASSUME NEW n \in Nat PROVE (4 + n) % 256 \in Nat /\ (4 + n) % 256 < 256
  OBVIOUS

LEMMA LengthByte ==
    ASSUME NEW payload \in Seq(Byte)
    PROVE  Length(payload) \in Nat /\ Length(payload) < 256 /\ Bits(Length(payload)) \in Byte
<1>1. Len(payload) \in Nat
  OBVIOUS
<1>2. (4 + Len(payload)) % 256 \in Nat /\ (4 + Len(payload)) % 256 < 256
  BY <1>1, LengthType
<1>3. Length(payload) \in Nat /\ Length(payload) < 256
  BY <1>2 DEF Length
<1> QED
  BY <1>3, BitsOfByte

\* What all headers have, and what follows it when there is a count.
LEMMA HeaderIs ==
    ASSUME NEW c, c.function_code \in UInt(8), c.address \in UInt(16), c.count \in UInt(16),
           c.payload \in Seq(Byte), NEW h, h = Header(c)
    PROVE  /\ Bytes(h, IF c.function_code \in {5, 6} THEN 10 ELSE 12)
           /\ h[6] = Bits(Length(c.payload)) /\ h[7] = Bits(Unit) /\ h[8] = Bits(c.function_code)
           /\ h[9] = TwoBytes(Bits(c.address))[1] /\ h[10] = TwoBytes(Bits(c.address))[2]
           /\ c.function_code \notin {5, 6} => /\ h[11] = TwoBytes(Bits(c.count))[1]
                                  /\ h[12] = TwoBytes(Bits(c.count))[2]
<1>1. PICK p1 : p1 = TwoBytes(Bits(Tid))
  OBVIOUS
<1>2. PICK p2 : p2 = <<{}, {}, {}>>
  OBVIOUS
<1>3. PICK p3 : p3 = <<Bits(Length(c.payload))>>
  OBVIOUS
<1>4. PICK p4 : p4 = <<Bits(Unit), Bits(c.function_code)>>
  OBVIOUS
<1>5. PICK p5 : p5 = TwoBytes(Bits(c.address))
  OBVIOUS
<1>6. PICK p6 : p6 = IF c.function_code \in {5, 6} THEN <<>> ELSE TwoBytes(Bits(c.count))
  OBVIOUS
<1>7. PICK q5 : Composed(q5, p1, p2, p3, p4, p5)
  BY DEF Composed
<1>8. Joins(h, q5, p6)
  <2>1. p3 = <<IF c.payload = <<>> THEN Bits(6) ELSE Bits((4 + Len(c.payload)) % 256)>>
    BY <1>3 DEF Length
  <2> QED
    BY <1>1, <1>2, <1>4, <1>5, <1>6, <1>7, <2>1, Zenon DEF Header, Composed, Joins
<1>9. Bytes(p1, 2) /\ Bytes(p2, 3) /\ Bytes(p5, 2)
  BY <1>1, <1>2, <1>5, HeaderBytes, Zenon
<1>10. Bytes(p3, 1) /\ p3[1] = Bits(Length(c.payload))
  BY <1>3, LengthByte, OneByte, Zenon
<1>11. Bytes(p4, 2) /\ p4[1] = Bits(Unit) /\ p4[2] = Bits(c.function_code)
  BY <1>4, HeaderBytes, Zenon
<1>12. /\ Bytes(q5, 10)
       /\ q5[6] = p3[1] /\ q5[7] = p4[1] /\ q5[8] = p4[2] /\ q5[9] = p5[1] /\ q5[10] = p5[2]
  BY <1>7, <1>9, <1>10, <1>11, FiveParts
<1>13. CASE c.function_code \in {5, 6}
  <2>1. Bytes(p6, 0)
    BY <1>6, <1>13 DEF Bytes
  <2>2. Bytes(h, 10) /\ \A i \in 1 .. 10 : h[i] = q5[i]
    BY <1>8, <1>12, <2>1, Appended
  <2> QED
    BY <1>5, <1>10, <1>11, <1>12, <1>13, <2>2
<1>14. CASE c.function_code \notin {5, 6}
  <2>1. Bytes(p6, 2) /\ p6 = TwoBytes(Bits(c.count))
    BY <1>6, <1>14, HeaderBytes, Zenon
  <2>2. Bytes(h, 12) /\ (\A i \in 1 .. 10 : h[i] = q5[i]) /\ \A i \in 1 .. 2 : h[10 + i] = p6[i]
    BY <1>8, <1>12, <2>1, Appended
  <2> QED
    BY <1>5, <1>10, <1>11, <1>12, <1>14, <2>1, <2>2
<1> QED
  BY <1>13, <1>14

\* The fields of a command.
LEMMA FieldsOfCommand ==
    ASSUME NEW fc \in {1, 2, 3, 4, 5, 6, 15, 16}, NEW address \in UInt(16), NEW count \in UInt(16),
           NEW payload \in Seq(Byte), NEW c, c = Command(fc, address, count, payload)
    PROVE  /\ c.function_code = fc /\ c.address = address /\ c.count = count
           /\ c.payload = payload /\ c.function_code \in UInt(8)
           /\ c.address \in UInt(16) /\ c.count \in UInt(16)
<1>1. address \in Nat /\ address < 65536 /\ fc \in UInt(8)
  BY Widths
<1>2. address % 65536 = address
  BY <1>1
<1> QED
  BY <1>1, <1>2 DEF Command

\* The request that writes one register or coil is sent as a whole.
LEMMA SingleFrame ==
    ASSUME NEW fc \in {5, 6}, NEW address \in UInt(16), NEW a \in Byte, NEW b \in Byte,
           NEW bytes, bytes = Transmitted(Frame(Command(fc, address, 1, <<a, b>>)))
    PROVE  /\ Bytes(bytes, 12) /\ bytes[7] = Bits(Unit) /\ bytes[8] = Bits(fc)
           /\ NumberAt(bytes, 9) = address /\ bytes[11] = a /\ bytes[12] = b
<1>1. PICK payload : payload = <<a, b>>
  OBVIOUS
<1>2. Bytes(payload, 2) /\ payload[1] = a /\ payload[2] = b /\ payload # <<>>
  BY <1>1, PairOfBytes
<1>3. PICK c : c = Command(fc, address, 1, payload)
  OBVIOUS
<1>4. 1 \in UInt(16)
  BY Widths
<1>5. /\ c.function_code = fc /\ c.address = address /\ c.count = 1
      /\ c.payload = payload /\ c.function_code \in UInt(8)
      /\ c.address \in UInt(16) /\ c.count \in UInt(16) /\ c.payload \in Seq(Byte)
  BY <1>2, <1>3, <1>4, FieldsOfCommand DEF Bytes
<1>6. PICK h : h = Header(c)
  OBVIOUS
<1>7. /\ Bytes(h, 10) /\ h[6] = Bits(Length(payload)) /\ h[7] = Bits(Unit) /\ h[8] = Bits(fc)
      /\ h[9] = TwoBytes(Bits(address))[1] /\ h[10] = TwoBytes(Bits(address))[2]
  <2>1. /\ Bytes(h, IF c.function_code \in {5, 6} THEN 10 ELSE 12)
        /\ h[6] = Bits(Length(c.payload)) /\ h[7] = Bits(Unit) /\ h[8] = Bits(c.function_code)
        /\ h[9] = TwoBytes(Bits(c.address))[1] /\ h[10] = TwoBytes(Bits(c.address))[2]
    BY <1>5, <1>6, HeaderIs
  <2> QED
    BY <1>5, <2>1
<1>8. PICK p : p = Payload(c)
  OBVIOUS
<1>9. Bytes(p, 2) /\ p[1] = a /\ p[2] = b
  <2>1. p = SubSeq(payload, 1, 2)
    BY <1>2, <1>5, <1>8 DEF Payload
  <2> QED
    BY <1>2, <2>1, Beginning
<1>10. PICK f : Joins(f, h, p)
  BY DEF Joins
<1>11. /\ Bytes(f, 12) /\ (\A i \in 1 .. 10 : f[i] = h[i])
       /\ \A i \in 1 .. 2 : f[10 + i] = p[i]
  BY <1>7, <1>9, <1>10, Appended
<1>12. Frame(c) = f /\ f # <<>>
  <2>1. ~(c.count > MAX_VALUES)
    BY <1>5 DEF MAX_VALUES
  <2>2. ~(Len(f) > MAX_FRAME_SIZE) /\ f # <<>>
    BY <1>11 DEF MAX_FRAME_SIZE, Bytes
  <2>3. f = Header(c) \o Payload(c)
    BY <1>6, <1>8, <1>10 DEF Joins
  <2> QED
    BY <2>1, <2>2, <2>3, Zenon DEF Frame
<1>13. Number(f[6]) = 6
  <2>1. Length(payload) = 6
    <3>1. Len(payload) = 2
      BY <1>2 DEF Bytes
    <3>2. (4 + Len(payload)) % 256 = 6
      BY <3>1
    <3> QED
      BY <3>2 DEF Length
  <2>2. f[6] = Bits(6)
    BY <1>7, <1>11, <2>1
  <2> QED
    BY <2>2, NumberOfBits
<1>14. bytes = SubSeq(f, 1, 12)
  <2>1. Number(f[6]) + 6 = 12
    BY <1>13
  <2> QED
    BY <1>1, <1>3, <1>12, <2>1, Zenon DEF Transmitted
<1>15. Bytes(bytes, 12) /\ \A i \in 1 .. 12 : bytes[i] = f[i]
  <2>1. 12 \in Nat /\ 12 <= 12 /\ Bytes(f, 12)
    BY <1>11
  <2>2. Bytes(SubSeq(f, 1, 12), 12) /\ \A i \in 1 .. 12 : SubSeq(f, 1, 12)[i] = f[i]
    BY <2>1, Beginning, Zenon
  <2> QED
    BY <1>14, <2>2
<1>16. /\ bytes[7] = Bits(Unit) /\ bytes[8] = Bits(fc) /\ bytes[11] = a /\ bytes[12] = b
       /\ bytes[9] = TwoBytes(Bits(address))[1] /\ bytes[10] = TwoBytes(Bits(address))[2]
  BY <1>7, <1>9, <1>11, <1>15
<1>17. NumberAt(bytes, 9) = address
  <2>1. NumberAt(bytes, 9) = Number(Bits(address))
    <3>1. Bits(address) \in Word
      BY DEF Bits, Word
    <3> QED
      BY <1>16, <3>1, NumberOfTwoBytes DEF NumberAt
  <2>2. address \in Nat /\ address < 65536
    BY Widths
  <2> QED
    BY <2>1, <2>2, NumberOfBits
<1> QED
  BY <1>15, <1>16, <1>17

\* The last three bytes of a request that writes several values are not sent.
LEMMA SeveralFrame ==
    ASSUME NEW fc \in {15, 16}, NEW address \in UInt(16), NEW count \in UInt(16),
           NEW payload, NEW n \in Nat, 0 < n, n < 128, Bytes(payload, n),
           NEW bytes, bytes = Transmitted(Frame(Command(fc, address, count, payload)))
    PROVE  ~Whole(bytes)
<1>2. payload # <<>> /\ payload \in Seq(Byte) /\ Len(payload) = n
  BY DEF Bytes
<1>3. PICK c : c = Command(fc, address, count, payload)
  OBVIOUS
<1>5. /\ c.function_code = fc /\ c.address = address /\ c.count = count
      /\ c.payload = payload /\ c.function_code \in UInt(8)
      /\ c.address \in UInt(16) /\ c.count \in UInt(16) /\ c.payload \in Seq(Byte)
  BY <1>2, <1>3, FieldsOfCommand
<1>6. PICK h : h = Header(c)
  OBVIOUS
<1>7. Bytes(h, 12) /\ h[6] = Bits(Length(payload)) /\ h[8] = Bits(fc)
  <2>1. /\ Bytes(h, IF c.function_code \in {5, 6} THEN 10 ELSE 12)
        /\ h[6] = Bits(Length(c.payload)) /\ h[8] = Bits(c.function_code)
    BY <1>5, <1>6, HeaderIs
  <2> QED
    BY <1>5, <2>1
<1>8. PICK l : l = <<Bits(n)>>
  OBVIOUS
<1>9. Bytes(l, 1) /\ l[1] = Bits(n)
  <2>1. Bits(n) \in Byte
    BY BitsOfByte
  <2> QED
    BY <1>8, <2>1, OneByte, Zenon
<1>10. PICK p : Joins(p, l, payload)
  BY DEF Joins
<1>11. Bytes(p, 1 + n) /\ p[1] = l[1]
  BY <1>9, <1>10, Appended
<1>12. p = Payload(c)
  <2>1. n % 256 = n
    OBVIOUS
  <2>2. Payload(c) = <<Bits(Len(payload) % 256)>> \o payload
    BY <1>2, <1>5 DEF Payload
  <2> QED
    BY <1>2, <1>8, <1>10, <2>1, <2>2 DEF Joins
<1>13. PICK f : Joins(f, h, p)
  BY DEF Joins
<1>14. /\ Bytes(f, 13 + n) /\ (\A i \in 1 .. 12 : f[i] = h[i])
       /\ \A i \in 1 .. 1 + n : f[12 + i] = p[i]
  <2>1. 1 + n \in Nat /\ 12 + (1 + n) = 13 + n
    OBVIOUS
  <2>2. /\ Bytes(f, 12 + (1 + n)) /\ (\A i \in 1 .. 12 : f[i] = h[i])
        /\ \A i \in 1 .. 1 + n : f[12 + i] = p[i]
    BY <1>7, <1>11, <1>13, <2>1, Appended
  <2> QED
    BY <2>1, <2>2
<1>15. CASE Frame(c) = <<>>
  <2>1. bytes = <<>>
    BY <1>3, <1>15 DEF Transmitted
  <2> QED
    BY <2>1 DEF Whole
<1>16. CASE Frame(c) # <<>>
  <2>1. Frame(c) = f
    <3>1. f = Header(c) \o Payload(c)
      BY <1>6, <1>12, <1>13 DEF Joins
    <3> QED
      BY <1>16, <3>1, Zenon DEF Frame
  <2>2. Number(f[6]) = 4 + n
    <3>1. Length(payload) = 4 + n
      <4>1. (4 + n) % 256 = 4 + n
        OBVIOUS
      <4> QED
        BY <1>2, <4>1 DEF Length
    <3>2. f[6] = Bits(4 + n)
      BY <1>7, <1>14, <3>1
    <3>3. 4 + n \in Nat /\ 4 + n < 65536
      OBVIOUS
    <3> QED
      BY <3>2, <3>3, NumberOfBits
  <2>3. bytes = SubSeq(f, 1, 10 + n)
    <3>1. Number(f[6]) + 6 = 10 + n
      BY <2>2
    <3> QED
      BY <1>3, <1>16, <2>1, <3>1, Zenon DEF Transmitted
  <2>4. Bytes(bytes, 10 + n) /\ \A i \in 1 .. 10 + n : bytes[i] = f[i]
    <3>1. 10 + n \in Nat /\ 13 + n \in Nat /\ 10 + n <= 13 + n
      OBVIOUS
    <3> QED
      BY <1>14, <2>3, <3>1, Beginning
  <2>5. Len(bytes) = 10 + n
    BY <2>4 DEF Bytes
  <2>6. SUFFICES ASSUME Whole(bytes) PROVE FALSE
    OBVIOUS
  <2>7. bytes[8] = Bits(fc)
    BY <1>7, <1>14, <2>4
  <2>8. Len(bytes) > 12 /\ Len(bytes) = 13 + Number(bytes[13])
    BY <2>6, <2>7 DEF Whole
  <2>9. bytes[13] = Bits(n)
    <3>1. 13 \in 1 .. 10 + n /\ 1 \in 1 .. 1 + n
      BY <2>5, <2>8
    <3>2. f[13] = p[1]
      BY <1>14, <3>1
    <3> QED
      BY <1>9, <1>11, <2>4, <3>1, <3>2
  <2>10. Number(bytes[13]) = n
    BY <2>9, NumberOfBits
  <2> QED
    BY <2>5, <2>8, <2>10
<1> QED
  BY <1>15, <1>16

-----------------------------------------------------------------------------
(* The entities.                                                           *)

Extended(r, f, g) == r = With(f, g)

LEMMA Fields ==
    ASSUME NEW f, NEW g, NEW r, Extended(r, f, g) PROVE DOMAIN r = DOMAIN f \cup DOMAIN g
  BY DEF With, Extended

LEMMA NewField ==
    ASSUME NEW f, NEW g, NEW r, Extended(r, f, g), NEW x \in DOMAIN g PROVE r[x] = g[x]
  BY DEF With, Extended

LEMMA OldField ==
    ASSUME NEW f, NEW g, NEW r, Extended(r, f, g), NEW x \in DOMAIN f, x \notin DOMAIN g
    PROVE  r[x] = f[x]
  BY DEF With, Extended

\* The fields of the entity that a constructor and its place make of a configuration.
PlacedOffset(c, offset) == (offset + IF HasBits(c) THEN c.before ELSE 2 * c.before) % 256
Made(e, c, start_address, offset, count) ==
    /\ e.kind = c.kind /\ e.register_type = c.register_type /\ e.value_type = c.value_type
    /\ e.address = c.address /\ e.byte_offset = c.byte_offset /\ e.mask = c.mask
    /\ e.use_write_multiple = c.use_write_multiple
    /\ e.register_count = c.register_count /\ e.response_size = c.response_size
    /\ e.encode = c.encode
    /\ e.start = start_address - c.before
    /\ e.offset = PlacedOffset(c, offset)
    /\ e.count = count /\ e.range = c.before + count + c.after

LEMMA PlacedFields ==
    ASSUME NEW c \in Configuration, NEW s, NEW o, NEW n
    PROVE  Made(Placed(SensorItem(c, s, o, n), c), c, s, o, n)
<1>1. DOMAIN c = {"kind", "register_type", "value_type", "address", "byte_offset", "mask",
                  "use_write_multiple", "register_count", "response_size", "encode",
                  "before", "after"}
  BY DEF Configuration
<1>2. PICK g : g = [start |-> s, offset |-> o, count |-> n]
  OBVIOUS
<1>3. DOMAIN g = {"start", "offset", "count"} /\ g["start"] = s /\ g["offset"] = o /\ g["count"] = n
  BY <1>2
<1>4. PICK item : Extended(item, c, g)
  BY DEF Extended
<1>5. /\ DOMAIN item = DOMAIN c \cup {"start", "offset", "count"}
      /\ \A x \in DOMAIN c : item[x] = c[x]
      /\ item["start"] = s /\ item["offset"] = o /\ item["count"] = n
  <2>1. /\ DOMAIN item = DOMAIN c \cup DOMAIN g
        /\ \A x \in DOMAIN c \ DOMAIN g : item[x] = c[x]
        /\ \A x \in DOMAIN g : item[x] = g[x]
    <3>1. DOMAIN item = DOMAIN c \cup DOMAIN g
      BY <1>4, Fields
    <3>2. \A x \in DOMAIN c \ DOMAIN g : item[x] = c[x]
      BY <1>4, OldField
    <3>3. \A x \in DOMAIN g : item[x] = g[x]
      BY <1>4, NewField
    <3> QED
      BY <3>1, <3>2, <3>3, Zenon
  <2>2. "start" \in DOMAIN g /\ "offset" \in DOMAIN g /\ "count" \in DOMAIN g
    BY <1>3
  <2>3. DOMAIN c \ DOMAIN g = DOMAIN c
    BY <1>1, <1>3
  <2> QED
    BY <1>3, <2>1, <2>2, <2>3, Zenon
<1>6. PICK placed : placed = (o + IF HasBits(c) THEN c.before ELSE 2 * c.before) % 256
  OBVIOUS
<1>9. PICK r : r = [start |-> item.start - c.before, offset |-> (item.offset + IF HasBits(c) THEN c.before ELSE 2 * c.before) % 256,
                    range |-> c.before + item.count + c.after]
  OBVIOUS
<1>10. /\ DOMAIN r = {"start", "offset", "range"} /\ r["range"] = c.before + n + c.after
       /\ r["start"] = s - c.before /\ r["offset"] = placed
  BY <1>5, <1>6, <1>9
<1>11. PICK e : Extended(e, item, r)
  BY DEF Extended
<1>12. /\ \A x \in DOMAIN c : e[x] = c[x]
       /\ e["count"] = n /\ e["range"] = c.before + n + c.after
       /\ e["start"] = s - c.before /\ e["offset"] = placed
  <2>1. /\ \A x \in DOMAIN item \ DOMAIN r : e[x] = item[x]
        /\ \A x \in DOMAIN r : e[x] = r[x]
    BY <1>11, NewField, OldField
  <2>2. "start" \in DOMAIN r /\ "offset" \in DOMAIN r /\ "range" \in DOMAIN r
    BY <1>10
  <2>3. "count" \in DOMAIN item \ DOMAIN r
    BY <1>5, <1>10
  <2>4. DOMAIN c \ DOMAIN r = DOMAIN c
    BY <1>1, <1>10
  <2>5. \A x \in DOMAIN c : x \in DOMAIN item \ DOMAIN r
    BY <1>5, <2>4
  <2> QED
    BY <1>5, <1>10, <2>1, <2>2, <2>3, <2>5, Zenon
<1>13. e = Placed(SensorItem(c, s, o, n), c)
  BY <1>2, <1>4, <1>9, <1>11 DEF Placed, SensorItem, Extended
<1>15. Made(e, c, s, o, n)
  BY <1>1, <1>6, <1>12 DEF Made, PlacedOffset
<1> QED
  BY <1>13, <1>15

LEMMA NumberMade ==
    ASSUME NEW c \in Configurations, c.kind = "number"
    PROVE  /\ Made(Entity(c), c, c.address, c.byte_offset, RegisterCount(c.value_type))
           /\ c.register_type = "holding" /\ c.value_type \in ValueTypes /\ ~HasBits(c)
<1>1. c \in Configuration /\ c.register_type = "holding" /\ c.register_count = 0
  BY ConfigurationAssumption
<1>2. c.value_type \in ValueTypes /\ ~HasBits(c)
  BY ConfigurationAssumption DEF IsNumeric
<1>3. ModbusTCPNumber(c) = SensorItem(c, c.address, c.byte_offset, RegisterCount(c.value_type))
  BY <1>1 DEF ModbusTCPNumber, ValueCount
<1>4. Entity(c) = Placed(ModbusTCPNumber(c), c)
  BY DEF Entity
<1> QED
  BY <1>1, <1>2, <1>3, <1>4, PlacedFields

LEMMA SwitchMade ==
    ASSUME NEW c \in Configurations, c.kind = "switch"
    PROVE  /\ Made(Entity(c), c, c.address + c.byte_offset, 0, 1)
           /\ c.register_type \in {"coil", "holding"}
<1>1. c \in Configuration /\ c.register_type \in {"coil", "holding"}
  BY ConfigurationAssumption
<1>2. ModbusTCPSwitch(c) = SensorItem(c, c.address + c.byte_offset, 0, 1)
  BY DEF ModbusTCPSwitch
<1>3. Entity(c) = Placed(ModbusTCPSwitch(c), c)
  BY DEF Entity
<1> QED
  BY <1>1, <1>2, <1>3, PlacedFields

-----------------------------------------------------------------------------
(* What the server does with a write.                                      *)

\* its memory with one register or coil changed
Written(type, address, value) ==
    [memory EXCEPT ![type] = [a \in Addresses |-> IF a = address THEN value ELSE @[a]]]

LEMMA WrittenIs ==
    ASSUME memory \in Memory, NEW type \in Types, NEW address, NEW value \in Word,
           NEW m, m = Written(type, address, value)
    PROVE  /\ m \in Memory
           /\ address \in Addresses => m[type][address] = value
           /\ \A t \in Types : \A a \in Addresses :
                 m[t][a] # memory[t][a] => t = type /\ a = address
<1>1. PICK row : row = [a \in Addresses |-> IF a = address THEN value ELSE memory[type][a]]
  OBVIOUS
<1>2. m = [memory EXCEPT ![type] = row]
  BY <1>1 DEF Written
<1>3. row \in [Addresses -> Word]
  BY <1>1 DEF Memory
<1>4. \A t \in Types : m[t] = IF t = type THEN row ELSE memory[t]
  BY <1>2 DEF Memory
<1>5. m \in Memory
  BY <1>2, <1>3 DEF Memory
<1> QED
  BY <1>1, <1>4, <1>5

\* the two bytes of a payload as one word
Joined(a, b) == ShiftLeft(a, 8) \cup b

LEMMA JoinedIs ==
    ASSUME NEW a \in Byte, NEW b \in Byte
    PROVE  /\ Joined(a, b) \in Word
           /\ \A i \in 0 .. 7 : (i \in Joined(a, b) <=> i \in b) /\ (i + 8 \in Joined(a, b) <=> i \in a)
<1>1. \A i : i \in ShiftLeft(a, 8) <=> i \in 8 .. 15 /\ i - 8 \in a
  BY DEF ShiftLeft, Byte
<1>2. \A i : i \in b => i \in 0 .. 7
  BY DEF Byte
<1>3. Joined(a, b) \in Word
  BY <1>1, <1>2 DEF Joined, Word
<1>4. ASSUME NEW i \in 0 .. 7
      PROVE  (i \in Joined(a, b) <=> i \in b) /\ (i + 8 \in Joined(a, b) <=> i \in a)
  BY <1>1, <1>2 DEF Joined
<1> QED
  BY <1>3, <1>4

LEMMA DataOfTwo ==
    ASSUME NEW data, NEW offset \in Nat, NEW a \in Byte, NEW b \in Byte,
           data[offset + 1] = a, data[offset + 2] = b
    PROVE  GetData(data, offset, 2) = Joined(a, b)
<1>1. GetData(data, offset, 2) = ShiftLeft(data[offset + 1], 8 * (2 - 1))
                                     \cup ShiftLeft(data[offset + 2], 8 * (2 - 2))
  <2>1. 1 .. 2 = {1, 2}
    OBVIOUS
  <2> QED
    BY <2>1, Zenon DEF GetData
<1>2. ShiftLeft(b, 8 * (2 - 2)) = b
  <2>1. 8 * (2 - 2) = 0 /\ \A i \in b : i + 0 = i
    BY DEF Byte
  <2>2. ShiftLeft(b, 0) = b
    BY <2>1 DEF ShiftLeft
  <2> QED
    BY <2>1, <2>2
<1>3. ShiftLeft(a, 8 * (2 - 1)) = ShiftLeft(a, 8)
  OBVIOUS
<1> QED
  BY <1>1, <1>2, <1>3, Zenon DEF Joined

LEMMA SingleWrite ==
    ASSUME NEW fc \in {5, 6}, NEW address \in UInt(16), NEW a \in Byte, NEW b \in Byte,
           NEW bytes, bytes = Transmitted(Frame(Command(fc, address, 1, <<a, b>>)))
    PROVE  /\ Served(bytes) <=> address \in Addresses
           /\ MemoryAfter(bytes) =
                 Written(IF fc = 5 THEN "coil" ELSE "holding", address,
                         IF fc = 6 THEN Joined(a, b)
                         ELSE IF Joined(a, b) = 8 .. 15 THEN {0} ELSE {})
<1>1. /\ Bytes(bytes, 12) /\ bytes[7] = Bits(Unit) /\ bytes[8] = Bits(fc)
      /\ NumberAt(bytes, 9) = address /\ bytes[11] = a /\ bytes[12] = b
  BY SingleFrame
<1>2. Bits(fc) # Bits(15) /\ Bits(fc) # Bits(16) /\ (fc = 6 => Bits(fc) # Bits(5))
  BY BitsDiffer
<1>3. Asked(bytes) = {address}
  <2>1. address \in Int
    BY Widths
  <2>2. Asked(bytes) = address .. address + 1 - 1
    <3>1. bytes[8] \in {Bits(5), Bits(6)}
      BY <1>1
    <3> QED
      BY <1>1, <3>1, Zenon DEF Asked
  <2> QED
    BY <2>1, <2>2
<1>4. Whole(bytes)
  BY <1>1, <1>2 DEF Whole, Bytes
<1>5. Served(bytes) <=> address \in Addresses
  BY <1>1, <1>3, <1>4 DEF Served
<1>6. GetData(bytes, 10, 2) = Joined(a, b)
  BY <1>1, DataOfTwo
<1>7. PICK sent : sent = GetData(bytes, 10, 2)
  OBVIOUS
<1>8. ASSUME NEW type, NEW value,
             MemoryAfter(bytes) =
                [memory EXCEPT ![type] =
                    [x \in Addresses |-> IF x \in Asked(bytes) THEN value ELSE @[x]]]
      PROVE  MemoryAfter(bytes) = Written(type, address, value)
  <2>1. [x \in Addresses |-> IF x \in Asked(bytes) THEN value ELSE memory[type][x]]
          = [x \in Addresses |-> IF x = address THEN value ELSE memory[type][x]]
    BY <1>3
  <2> QED
    BY <1>8, <2>1 DEF Written
<1>9. CASE fc = 5
  <2>1. MemoryAfter(bytes) =
          [memory EXCEPT !["coil"] =
              [x \in Addresses |->
                  IF x \in Asked(bytes) THEN IF sent = 8 .. 15 THEN {0} ELSE {} ELSE @[x]]]
    <3>1. bytes[8] = Bits(5) /\ bytes[8] # Bits(6) /\ bytes[8] # Bits(15) /\ bytes[8] # Bits(16)
      BY <1>1, <1>2, <1>9, BitsDiffer
    <3> QED
      BY <1>7, <3>1 DEF MemoryAfter
  <2>2. PICK value : value = IF sent = 8 .. 15 THEN {0} ELSE {}
    OBVIOUS
  <2>3. MemoryAfter(bytes) = Written("coil", address, value)
    BY <1>8, <2>1, <2>2
  <2>4. /\ (IF fc = 5 THEN "coil" ELSE "holding") = "coil"
        /\ (IF fc = 6 THEN Joined(a, b)
            ELSE IF Joined(a, b) = 8 .. 15 THEN {0} ELSE {}) = value
    BY <1>6, <1>7, <1>9, <2>2
  <2> QED
    BY <1>5, <2>3, <2>4, Zenon
<1>10. CASE fc = 6
  <2>1. MemoryAfter(bytes) =
          [memory EXCEPT !["holding"] =
              [x \in Addresses |-> IF x \in Asked(bytes) THEN sent ELSE @[x]]]
    BY <1>1, <1>2, <1>7, <1>10 DEF MemoryAfter
  <2>2. MemoryAfter(bytes) = Written("holding", address, sent)
    BY <1>8, <2>1
  <2>3. /\ (IF fc = 5 THEN "coil" ELSE "holding") = "holding"
        /\ (IF fc = 6 THEN Joined(a, b)
            ELSE IF Joined(a, b) = 8 .. 15 THEN {0} ELSE {}) = sent
    BY <1>6, <1>7, <1>10
  <2> QED
    BY <1>5, <2>2, <2>3, Zenon
<1> QED
  BY <1>5, <1>9, <1>10

-----------------------------------------------------------------------------
(* The commands of a number and of a switch.                               *)

LEMMA SequenceOf ==
    ASSUME NEW S, NEW n \in Nat, NEW f \in [1 .. n -> S]
    PROVE  f \in Seq(S) /\ Len(f) = n
<1>1. f \in Seq(S) /\ DOMAIN f = 1 .. n
  BY SeqDef
<1> QED
  BY <1>1

LEMMA SequenceOfBytes ==
    ASSUME NEW n \in Nat, NEW f \in [1 .. n -> Byte] PROVE Bytes(f, n)
  BY SequenceOf DEF Bytes

LEMMA BytesOfWords ==
    ASSUME NEW n \in Nat, NEW words \in [1 .. n -> Word]
    PROVE  Bytes(WordsAsBytes(words), 2 * n)
<1>1. Len(words) = n
  BY SequenceOf
<1>2. ASSUME NEW k \in 1 .. 2 * n
      PROVE  TwoBytes(words[(k + 1) \div 2])[IF k % 2 = 1 THEN 1 ELSE 2] \in Byte
  <2>1. (k + 1) \div 2 \in 1 .. n
    OBVIOUS
  <2>2. words[(k + 1) \div 2] \in Word
    BY <2>1
  <2> QED
    BY <2>2, TwoBytesOfWord
<1>3. WordsAsBytes(words) = [k \in 1 .. 2 * n |->
                                TwoBytes(words[(k + 1) \div 2])[IF k % 2 = 1 THEN 1 ELSE 2]]
  BY <1>1, Zenon DEF WordsAsBytes
<1>4. WordsAsBytes(words) \in [1 .. 2 * n -> Byte]
  BY <1>2, <1>3
<1>5. 2 * n \in Nat
  OBVIOUS
<1> QED
  BY <1>4, <1>5, SequenceOf DEF Bytes

LEMMA WordAtType ==
    ASSUME NEW value, NEW k PROVE WordAt(value, k) \in Word
  BY DEF WordAt, Word

LEMMA CommandWraps ==
    ASSUME NEW fc, NEW address \in Nat, NEW count, NEW payload
    PROVE  /\ address % 65536 \in UInt(16)
           /\ Command(fc, address, count, payload) = Command(fc, address % 65536, count, payload)
<1>1. address % 65536 \in UInt(16) /\ (address % 65536) % 65536 = address % 65536
  <2>1. address % 65536 \in Nat /\ address % 65536 < 65536
    OBVIOUS
  <2>2. (address % 65536) % 65536 = address % 65536
    BY <2>1
  <2> QED
    BY <2>1, <2>2, Widths
<1> QED
  BY <1>1 DEF Command

\* the address a command of the entity is for
Target(e) == (e.start + IF HasBits(e) THEN e.offset ELSE e.offset \div 2) % 65536

LEMMA OffsetType ==
    ASSUME NEW c \in Configurations, NEW e, NEW s, NEW n, NEW o \in Nat, Made(e, c, s, o, n)
    PROVE  e.offset \in Nat /\ e.offset < 256 /\ e.offset \div 2 \in Nat
<1>1. c.before \in Nat
  BY ConfigurationAssumption DEF Configuration
<1>2. PICK m : m = o + IF HasBits(c) THEN c.before ELSE 2 * c.before
  OBVIOUS
<1>3. m \in Nat
  BY <1>1, <1>2
<1>4. e.offset = m % 256
  BY <1>2 DEF Made, PlacedOffset
<1>5. e.offset \in Nat /\ e.offset < 256
  BY <1>3, <1>4
<1> QED
  BY <1>5

LEMMA CountOfRegisters ==
    ASSUME NEW type \in ValueTypes
    PROVE  /\ RegisterCount(type) \in {1, 2, 4}
           /\ RegisterCount(type) = 1 => type \in WordTypes
  BY DEF RegisterCount

LEMMA NumberRequest ==
    ASSUME NEW c \in Configurations, c.kind = "number", NEW e, e = Entity(c),
           NEW value \in SUBSET (0 .. 63)
    PROVE  /\ Target(e) \in UInt(16)
           /\ (c.value_type \in WordTypes /\ ~c.use_write_multiple) =>
                 NumberCommand(e, value)
                     = Command(6, Target(e), 1, TwoBytes(value \cap (0 .. 15)))
           /\ ~(c.value_type \in WordTypes /\ ~c.use_write_multiple) =>
                 \E count \in UInt(16), n \in Nat, payload \in Seq(Byte) :
                    /\ 0 < n /\ n < 128 /\ Bytes(payload, n)
                    /\ NumberCommand(e, value) = Command(16, Target(e), count, payload)
<1>1. /\ Made(e, c, c.address, c.byte_offset, RegisterCount(c.value_type))
      /\ c.register_type = "holding" /\ c.value_type \in ValueTypes /\ ~HasBits(c)
  BY NumberMade
<1>2. /\ e.value_type = c.value_type /\ e.count = RegisterCount(c.value_type)
      /\ e.use_write_multiple = c.use_write_multiple /\ ~HasBits(e)
  BY <1>1 DEF Made, HasBits
<1>3. e \in Entities
  BY DEF Entities
<1>4. e.start \in Nat
  BY <1>3, RangeAssumption, Widths
<1>5. e.offset \div 2 \in Nat
  <2>1. c.byte_offset \in Nat
    BY ConfigurationAssumption, Widths DEF Configuration
  <2> QED
    BY <1>1, <2>1, OffsetType
<1>6. PICK address : address = e.start + e.offset \div 2
  OBVIOUS
<1>7. address \in Nat /\ Target(e) = address % 65536
  BY <1>2, <1>4, <1>5, <1>6 DEF Target
<1>8. Target(e) \in UInt(16)
  BY <1>7, CommandWraps
<1>9. PICK n : n = RegisterCount(c.value_type)
  OBVIOUS
<1>10. n \in {1, 2, 4} /\ (n = 1 <=> c.value_type \in WordTypes)
  BY <1>1, <1>9, CountOfRegisters DEF RegisterCount
<1>11. PICK data : data = NumberToPayload(value, e.value_type)
  OBVIOUS
<1>12. data \in [1 .. n -> Word]
  BY <1>2, <1>9, <1>11, WordAtType DEF NumberToPayload
<1>13. CASE n = 1 /\ ~c.use_write_multiple
  <2>1. NumberCommand(e, value) = CreateWriteSingleCommand(address, data[1])
    BY <1>2, <1>6, <1>9, <1>11, <1>13 DEF NumberCommand
  <2>2. data[1] = value \cap (0 .. 15)
    <3>1. c.value_type \notin LowWordFirst
      BY <1>10, <1>13 DEF WordTypes, LowWordFirst
    <3>2. data[1] = WordAt(value, n - 1)
      BY <1>2, <1>9, <1>11, <1>13, <3>1 DEF NumberToPayload
    <3>3. n - 1 = 0 /\ 16 * 0 = 0
      BY <1>13
    <3>4. WordAt(value, 0) = ShiftRight(value, 0) \cap (0 .. 15)
      BY <3>3 DEF WordAt
    <3>5. ShiftRight(value, 0) \cap (0 .. 15) = value \cap (0 .. 15)
      <4>1. \A b \in value : b \in Int /\ b >= 0 /\ b - 0 = b
        OBVIOUS
      <4> QED
        BY <4>1 DEF ShiftRight
    <3> QED
      BY <3>2, <3>3, <3>4, <3>5
  <2>3. NumberCommand(e, value) = Command(6, Target(e), 1, TwoBytes(value \cap (0 .. 15)))
    BY <1>7, <2>1, <2>2, CommandWraps DEF CreateWriteSingleCommand
  <2> QED
    BY <1>8, <1>10, <1>13, <2>3
<1>14. CASE ~(n = 1 /\ ~c.use_write_multiple)
  <2>1. NumberCommand(e, value) = CreateWriteMultipleCommand(address, n, data)
    BY <1>2, <1>6, <1>9, <1>11, <1>14 DEF NumberCommand
  <2>2. NumberCommand(e, value) = Command(16, Target(e), n, WordsAsBytes(data))
    BY <1>7, <2>1, CommandWraps DEF CreateWriteMultipleCommand
  <2>3. Bytes(WordsAsBytes(data), 2 * n) /\ WordsAsBytes(data) \in Seq(Byte)
        /\ 2 * n \in Nat /\ 0 < 2 * n /\ 2 * n < 128
    BY <1>10, <1>12, BytesOfWords DEF Bytes
  <2>4. n \in UInt(16)
    BY <1>10, Widths
  <2>5. \E count \in UInt(16), m \in Nat, payload \in Seq(Byte) :
           /\ 0 < m /\ m < 128 /\ Bytes(payload, m)
           /\ NumberCommand(e, value) = Command(16, Target(e), count, payload)
    BY <2>2, <2>3, <2>4
  <2> QED
    BY <1>8, <1>10, <1>14, <2>5
<1> QED
  BY <1>13, <1>14

\* a command that writes one value like several
WritesSeveral(command, address) ==
    \E fc \in {15, 16}, n \in Nat, payload \in Seq(Byte) :
       /\ 0 < n /\ n < 128 /\ Bytes(payload, n)
       /\ command = Command(fc, address, 1, payload)

LEMMA SwitchRequest ==
    ASSUME NEW c \in Configurations, c.kind = "switch", NEW e, e = Entity(c), NEW state \in BOOLEAN
    PROVE  /\ Target(e) \in UInt(16)
           /\ (c.register_type = "coil" /\ ~c.use_write_multiple) =>
                 SwitchCommand(e, state)
                     = Command(5, Target(e), 1, <<IF state THEN 0 .. 7 ELSE {}, {}>>)
           /\ (c.register_type = "holding" /\ ~c.use_write_multiple) =>
                 SwitchCommand(e, state)
                     = Command(6, Target(e), 1,
                               TwoBytes(IF state THEN c.mask \cap (0 .. 15) ELSE {}))
           /\ c.use_write_multiple =>
                 WritesSeveral(SwitchCommand(e, state), Target(e))
<1>1. /\ Made(e, c, c.address + c.byte_offset, 0, 1)
      /\ c.register_type \in {"coil", "holding"}
  BY SwitchMade
<1>2. /\ e.mask = c.mask /\ e.register_type = c.register_type
      /\ e.use_write_multiple = c.use_write_multiple
      /\ HasBits(e) <=> c.register_type = "coil"
  BY <1>1 DEF Made, HasBits, BitTypes
<1>3. e \in Entities
  BY DEF Entities
<1>4. e.start \in Nat
  BY <1>3, RangeAssumption, Widths
<1>5. e.offset \in Nat /\ e.offset \div 2 \in Nat
  BY <1>1, OffsetType
<1>6. PICK address : address = e.start + IF HasBits(e) THEN e.offset ELSE e.offset \div 2
  OBVIOUS
<1>7. address \in Nat /\ Target(e) = address % 65536
  BY <1>4, <1>5, <1>6 DEF Target
<1>8. Target(e) \in UInt(16)
  BY <1>7, CommandWraps
<1>9. PICK word : word = IF state THEN e.mask \cap (0 .. 15) ELSE {}
  OBVIOUS
<1>10. word \in Word
  BY <1>9 DEF Word
<1>11. CASE c.register_type = "coil" /\ ~c.use_write_multiple
  <2>1. SwitchCommand(e, state) = CreateWriteSingleCoil(address, state)
    BY <1>2, <1>6, <1>11 DEF SwitchCommand
  <2>2. SwitchCommand(e, state) = Command(5, Target(e), 1, <<IF state THEN 0 .. 7 ELSE {}, {}>>)
    BY <1>7, <2>1, CommandWraps DEF CreateWriteSingleCoil
  <2> QED
    BY <1>8, <1>11, <2>2
<1>12. CASE c.register_type = "holding" /\ ~c.use_write_multiple
  <2>1. SwitchCommand(e, state) = CreateWriteSingleCommand(address, word)
    BY <1>2, <1>6, <1>9, <1>12 DEF SwitchCommand
  <2>2. SwitchCommand(e, state) = Command(6, Target(e), 1, TwoBytes(word))
    BY <1>7, <2>1, CommandWraps DEF CreateWriteSingleCommand
  <2> QED
    BY <1>2, <1>8, <1>9, <1>12, <2>2
<1>13. CASE c.register_type = "coil" /\ c.use_write_multiple
  <2>1. SwitchCommand(e, state) = CreateWriteMultipleCoils(address, <<state>>)
    BY <1>2, <1>6, <1>13 DEF SwitchCommand
  <2>2. Len(<<state>>) = 1
    OBVIOUS
  <2>3. SwitchCommand(e, state) = Command(15, Target(e), 1, CoilsAsBytes(<<state>>))
    BY <1>7, <2>1, <2>2, CommandWraps DEF CreateWriteMultipleCoils
  <2>4. Bytes(CoilsAsBytes(<<state>>), 1)
    <3>1. CoilsAsBytes(<<state>>) \in [1 .. 1 -> Byte]
      <4>1. (Len(<<state>>) + 7) \div 8 = 1
        BY <2>2
      <4> QED
        BY <4>1 DEF CoilsAsBytes, Byte
    <3>2. 1 \in Nat
      OBVIOUS
    <3> QED
      BY <3>1, <3>2, SequenceOfBytes, Zenon
  <2>5. 0 < 1 /\ 1 < 128 /\ 1 \in Nat
    OBVIOUS
  <2>6. WritesSeveral(SwitchCommand(e, state), Target(e))
    BY <2>3, <2>4, <2>5, Zenon DEF WritesSeveral, Bytes
  <2> QED
    BY <1>8, <1>13, <2>6
<1>14. CASE c.register_type = "holding" /\ c.use_write_multiple
  <2>1. SwitchCommand(e, state) = CreateWriteMultipleCommand(address, 1, <<word>>)
    BY <1>2, <1>6, <1>9, <1>14 DEF SwitchCommand
  <2>2. SwitchCommand(e, state) = Command(16, Target(e), 1, WordsAsBytes(<<word>>))
    BY <1>7, <2>1, CommandWraps DEF CreateWriteMultipleCommand
  <2>3. Bytes(WordsAsBytes(<<word>>), 2 * 1)
    <3>1. <<word>> \in [1 .. 1 -> Word] /\ 1 \in Nat
      BY <1>10
    <3> QED
      BY <3>1, BytesOfWords, Zenon
  <2>4. 0 < 2 * 1 /\ 2 * 1 < 128 /\ 2 * 1 \in Nat
    OBVIOUS
  <2>5. WritesSeveral(SwitchCommand(e, state), Target(e))
    BY <2>2, <2>3, <2>4, Zenon DEF WritesSeveral, Bytes
  <2> QED
    BY <1>8, <1>14, <2>5
<1> QED
  BY <1>1, <1>11, <1>12, <1>13, <1>14, ConfigurationAssumption DEF Configuration

\* What a write that several values are sent with does: nothing.
LEMMA SeveralWrite ==
    ASSUME NEW fc \in {15, 16}, NEW address \in UInt(16), NEW count \in UInt(16),
           NEW n \in Nat, NEW payload, 0 < n, n < 128, Bytes(payload, n),
           NEW value, WriteState(Command(fc, address, count, payload), value)
    PROVE  memory' = memory /\ entity' = entity
<1>1. ~Whole(Transmitted(Frame(Command(fc, address, count, payload))))
  BY SeveralFrame
<1> QED
  BY <1>1, Zenon DEF WriteState, Served

LEMMA OneWrite ==
    ASSUME NEW fc \in {5, 6}, NEW address \in UInt(16), NEW a \in Byte, NEW b \in Byte,
           NEW value, WriteState(Command(fc, address, 1, <<a, b>>), value)
    PROVE  /\ entity' = entity
           /\ memory' = IF address \in Addresses
                        THEN Written(IF fc = 5 THEN "coil" ELSE "holding", address,
                                     IF fc = 6 THEN Joined(a, b)
                                     ELSE IF Joined(a, b) = 8 .. 15 THEN {0} ELSE {})
                        ELSE memory
<1>1. PICK bytes : bytes = Transmitted(Frame(Command(fc, address, 1, <<a, b>>)))
  OBVIOUS
<1>2. /\ Served(bytes) <=> address \in Addresses
      /\ MemoryAfter(bytes) =
            Written(IF fc = 5 THEN "coil" ELSE "holding", address,
                    IF fc = 6 THEN Joined(a, b)
                    ELSE IF Joined(a, b) = 8 .. 15 THEN {0} ELSE {})
  BY <1>1, SingleWrite
<1>3. entity' = entity /\ memory' = IF Served(bytes) THEN MemoryAfter(bytes) ELSE memory
  BY <1>1, Zenon DEF WriteState
<1> QED
  BY <1>2, <1>3, Zenon

LEMMA EntityMade ==
    ASSUME NEW c \in Configurations
    PROVE  \E s, n : \E o \in Nat : Made(Entity(c), c, s, o, n)
<1>1. c \in Configuration /\ c.byte_offset \in Nat
  BY ConfigurationAssumption, Widths DEF Configuration
<1>2. ASSUME NEW item, Entity(c) = Placed(item, c), NEW s, NEW n, NEW o \in Nat,
             item = SensorItem(c, s, o, n)
      PROVE  \E t, m : \E p \in Nat : Made(Entity(c), c, t, p, m)
  BY <1>1, <1>2, PlacedFields
<1>3. CASE c.kind = "sensor"
  <2>1. Entity(c) = Placed(ModbusTCPSensor(c), c)
    BY <1>3 DEF Entity
  <2> QED
    BY <1>1, <1>2, <2>1 DEF ModbusTCPSensor
<1>4. CASE c.kind = "number"
  <2>1. Entity(c) = Placed(ModbusTCPNumber(c), c)
    BY <1>4 DEF Entity
  <2> QED
    BY <1>1, <1>2, <2>1 DEF ModbusTCPNumber
<1>5. CASE c.kind = "binary_sensor"
  <2>1. Entity(c) = Placed(ModbusTCPBinarySensor(c), c)
    BY <1>5 DEF Entity
  <2> QED
    BY <1>1, <1>2, <2>1 DEF ModbusTCPBinarySensor
<1>6. CASE c.kind = "switch"
  <2>1. Entity(c) = Placed(ModbusTCPSwitch(c), c)
    BY <1>6 DEF Entity
  <2>2. 0 \in Nat
    OBVIOUS
  <2> QED
    BY <1>1, <1>2, <2>1, <2>2 DEF ModbusTCPSwitch
<1>7. CASE c.kind = "text_sensor"
  <2>1. Entity(c) = Placed(ModbusTCPTextSensor(c), c)
    BY <1>7 DEF Entity
  <2> QED
    BY <1>1, <1>2, <2>1 DEF ModbusTCPTextSensor
<1> QED
  BY <1>1, <1>3, <1>4, <1>5, <1>6, <1>7 DEF Configuration

LEMMA WordJoined ==
    ASSUME NEW word \in Word
    PROVE  \E a \in Byte, b \in Byte : TwoBytes(word) = <<a, b>> /\ Joined(a, b) = word
<1>1. PICK a : a = TwoBytes(word)[1]
  OBVIOUS
<1>2. PICK b : b = TwoBytes(word)[2]
  OBVIOUS
<1>3. /\ a \in Byte /\ b \in Byte
      /\ \A i \in 0 .. 7 : i \in a <=> i + 8 \in word
      /\ \A i \in 0 .. 7 : i \in b <=> i \in word
  BY <1>1, <1>2, TwoBytesOfWord
<1>4. TwoBytes(word) = <<a, b>>
  <2>1. TwoBytes(word) = <<ShiftRight(word, 8), word \cap (0 .. 7)>>
    BY DEF TwoBytes
  <2>2. a = ShiftRight(word, 8) /\ b = word \cap (0 .. 7)
    BY <1>1, <1>2 DEF TwoBytes
  <2> QED
    BY <2>1, <2>2, Zenon
<1>5. Joined(a, b) = word
  <2>1. Joined(a, b) \in Word
    BY <1>3, JoinedIs
  <2>2. \A i \in 0 .. 7 : (i \in Joined(a, b) <=> i \in word)
                         /\ (i + 8 \in Joined(a, b) <=> i + 8 \in word)
    BY <1>3, JoinedIs
  <2>3. PICK j : j = Joined(a, b)
    OBVIOUS
  <2>4. \A i \in 0 .. 15 : i \in j <=> i \in word
    <3>1. ASSUME NEW i \in 0 .. 15 PROVE i \in j <=> i \in word
      <4>1. CASE i \in 0 .. 7
        BY <2>2, <2>3, <4>1
      <4>2. CASE i \notin 0 .. 7
        <5>1. i - 8 \in 0 .. 7 /\ (i - 8) + 8 = i
          BY <4>2
        <5> QED
          BY <2>2, <2>3, <5>1
      <4> QED
        BY <4>1, <4>2
    <3> QED
      BY <3>1
  <2> QED
    BY <2>1, <2>3, <2>4 DEF Word
<1> QED
  BY <1>3, <1>4, <1>5

LEMMA CoilJoined ==
    ASSUME NEW state \in BOOLEAN
    PROVE  /\ (IF state THEN 0 .. 7 ELSE {}) \in Byte /\ {} \in Byte
           /\ Joined(IF state THEN 0 .. 7 ELSE {}, {}) = 8 .. 15 <=> state
<1>1. CASE state
  <2>1. 0 .. 7 \in Byte /\ {} \in Byte
    BY DEF Byte
  <2>2. Joined(0 .. 7, {}) = 8 .. 15
    <3>1. \A i : i \in ShiftLeft(0 .. 7, 8) <=> i \in 8 .. 15
      <4>1. ASSUME NEW i \in 8 .. 15 PROVE i \in ShiftLeft(0 .. 7, 8)
        <5>1. i - 8 \in 0 .. 7 /\ i = (i - 8) + 8
          OBVIOUS
        <5> QED
          BY <5>1 DEF ShiftLeft
      <4> QED
        BY <4>1 DEF ShiftLeft
    <3> QED
      BY <3>1 DEF Joined
  <2> QED
    BY <1>1, <2>1, <2>2
<1>2. CASE ~state
  <2>1. Joined({}, {}) = {}
    BY DEF Joined, ShiftLeft
  <2>2. 8 \in 8 .. 15
    OBVIOUS
  <2> QED
    BY <1>2, <2>1, <2>2 DEF Byte
<1> QED
  BY <1>1, <1>2

\* What setting a number changes.
LEMMA NumberStep ==
    ASSUME NEW c \in Configurations, entity = Entity(c), memory \in Memory,
           NEW value \in Numbers, SetNumber(value)
    PROVE  /\ c.kind = "number" /\ entity' = entity /\ Target(entity) \in UInt(16)
           /\ Fits(value, c.value_type)
           /\ \/ memory' = memory
              \/ /\ Target(entity) \in Addresses
                 /\ memory' = Written("holding", Target(entity), value \cap (0 .. 15))
           /\ (c.value_type \in WordTypes /\ ~c.use_write_multiple /\ Target(entity) \in Addresses) =>
                 memory' = Written("holding", Target(entity), value \cap (0 .. 15))
<1>1. entity.kind = c.kind /\ entity.value_type = c.value_type
  BY EntityMade DEF Made
<1>2. c.kind = "number" /\ Fits(value, c.value_type)
  BY <1>1 DEF SetNumber
<1>3. WriteState(NumberCommand(entity, value), value)
  BY DEF SetNumber
<1>4. value \in SUBSET (0 .. 63)
  BY ConfigurationAssumption
<1>5. Target(entity) \in UInt(16)
  BY <1>2, <1>4, NumberRequest
<1>6. CASE c.value_type \in WordTypes /\ ~c.use_write_multiple
  <2>1. value \cap (0 .. 15) \in Word
    BY DEF Word
  <2>2. PICK a \in Byte, b \in Byte :
            /\ TwoBytes(value \cap (0 .. 15)) = <<a, b>>
            /\ Joined(a, b) = value \cap (0 .. 15)
    BY <2>1, WordJoined
  <2>3. NumberCommand(entity, value) = Command(6, Target(entity), 1, <<a, b>>)
    BY <1>2, <1>4, <1>6, <2>2, NumberRequest
  <2>4. WriteState(Command(6, Target(entity), 1, <<a, b>>), value)
    BY <1>3, <2>3
  <2>5. /\ entity' = entity
        /\ memory' = IF Target(entity) \in Addresses
                     THEN Written("holding", Target(entity), Joined(a, b)) ELSE memory
    BY <1>5, <2>4, OneWrite
  <2> QED
    BY <1>2, <1>5, <2>2, <2>5
<1>7. CASE ~(c.value_type \in WordTypes /\ ~c.use_write_multiple)
  <2>1. PICK count \in UInt(16), n \in Nat, payload \in Seq(Byte) :
            /\ 0 < n /\ n < 128 /\ Bytes(payload, n)
            /\ NumberCommand(entity, value) = Command(16, Target(entity), count, payload)
    BY <1>2, <1>4, <1>7, NumberRequest
  <2>2. WriteState(Command(16, Target(entity), count, payload), value)
    BY <1>3, <2>1
  <2>3. memory' = memory /\ entity' = entity
    BY <1>5, <2>1, <2>2, SeveralWrite
  <2> QED
    BY <1>2, <1>5, <1>7, <2>3
<1> QED
  BY <1>6, <1>7

\* what is in the register or coil of a switch
SwitchWord(c, state) ==
    IF ~state THEN {} ELSE IF c.register_type = "coil" THEN {0} ELSE c.mask \cap (0 .. 15)

\* What setting a switch changes.
LEMMA SwitchStep ==
    ASSUME NEW c \in Configurations, entity = Entity(c), memory \in Memory,
           NEW state \in BOOLEAN, SetSwitch(state)
    PROVE  /\ c.kind = "switch" /\ entity' = entity /\ Target(entity) \in UInt(16)
           /\ \/ memory' = memory
              \/ /\ Target(entity) \in Addresses
                 /\ memory' = Written(c.register_type, Target(entity), SwitchWord(c, state))
           /\ (~c.use_write_multiple /\ Target(entity) \in Addresses) =>
                 memory' = Written(c.register_type, Target(entity), SwitchWord(c, state))
<1>1. entity.kind = c.kind
  BY EntityMade DEF Made
<1>2. c.kind = "switch" /\ c.register_type \in {"coil", "holding"} /\ c.use_write_multiple \in BOOLEAN
  BY <1>1, ConfigurationAssumption DEF SetSwitch, Configuration
<1>3. WriteState(SwitchCommand(entity, state), state)
  BY DEF SetSwitch
<1>4. Target(entity) \in UInt(16)
  BY <1>2, SwitchRequest
<1>5. CASE c.register_type = "coil" /\ ~c.use_write_multiple
  <2>1. PICK a : a = IF state THEN 0 .. 7 ELSE {}
    OBVIOUS
  <2>2. a \in Byte /\ {} \in Byte /\ (Joined(a, {}) = 8 .. 15 <=> state)
    BY <2>1, CoilJoined
  <2>3. SwitchCommand(entity, state) = Command(5, Target(entity), 1, <<a, {}>>)
    BY <1>2, <1>5, <2>1, SwitchRequest
  <2>4. WriteState(Command(5, Target(entity), 1, <<a, {}>>), state)
    BY <1>3, <2>3
  <2>5. /\ entity' = entity
        /\ memory' = IF Target(entity) \in Addresses
                     THEN Written("coil", Target(entity), IF Joined(a, {}) = 8 .. 15 THEN {0} ELSE {})
                     ELSE memory
    BY <1>4, <2>2, <2>4, OneWrite
  <2>6. (IF Joined(a, {}) = 8 .. 15 THEN {0} ELSE {}) = SwitchWord(c, state)
    BY <1>5, <2>2 DEF SwitchWord
  <2> QED
    BY <1>2, <1>4, <1>5, <2>5, <2>6
<1>6. CASE c.register_type = "holding" /\ ~c.use_write_multiple
  <2>1. SwitchWord(c, state) = IF state THEN c.mask \cap (0 .. 15) ELSE {}
    BY <1>6 DEF SwitchWord
  <2>2. SwitchWord(c, state) \in Word
    BY <2>1 DEF Word
  <2>3. PICK a \in Byte, b \in Byte :
            TwoBytes(SwitchWord(c, state)) = <<a, b>> /\ Joined(a, b) = SwitchWord(c, state)
    BY <2>2, WordJoined
  <2>4. SwitchCommand(entity, state) = Command(6, Target(entity), 1, <<a, b>>)
    BY <1>2, <1>6, <2>1, <2>3, SwitchRequest
  <2>5. WriteState(Command(6, Target(entity), 1, <<a, b>>), state)
    BY <1>3, <2>4
  <2>6. /\ entity' = entity
        /\ memory' = IF Target(entity) \in Addresses
                     THEN Written("holding", Target(entity), Joined(a, b)) ELSE memory
    BY <1>4, <2>5, OneWrite
  <2> QED
    BY <1>2, <1>4, <1>6, <2>3, <2>6
<1>7. CASE c.use_write_multiple
  <2>1. PICK fc \in {15, 16}, n \in Nat, payload \in Seq(Byte) :
            /\ 0 < n /\ n < 128 /\ Bytes(payload, n)
            /\ SwitchCommand(entity, state) = Command(fc, Target(entity), 1, payload)
    <3>1. WritesSeveral(SwitchCommand(entity, state), Target(entity))
      BY <1>2, <1>7, SwitchRequest
    <3> QED
      BY <3>1, Zenon DEF WritesSeveral, Bytes
  <2>2. WriteState(Command(fc, Target(entity), 1, payload), state)
    BY <1>3, <2>1
  <2>3. 1 \in UInt(16)
    BY Widths
  <2>4. memory' = memory /\ entity' = entity
    BY <1>4, <2>1, <2>2, <2>3, SeveralWrite
  <2> QED
    BY <1>2, <1>4, <1>7, <2>4
<1> QED
  BY <1>2, <1>5, <1>6, <1>7

-----------------------------------------------------------------------------
(* The entity and the memory keep their types.                             *)

Kept == entity \in Entities /\ memory \in Memory /\ polled \in BOOLEAN

LEMMA EntityTypes ==
    ASSUME NEW c \in Configurations
    PROVE  /\ Entity(c) \in Entities /\ c.register_type \in Types
           /\ Entity(c).register_type = c.register_type /\ Entity(c).kind = c.kind
           /\ Entity(c).mask = c.mask /\ Entity(c).value_type = c.value_type
           /\ Entity(c).use_write_multiple = c.use_write_multiple
           /\ HasBits(Entity(c)) <=> HasBits(c)
  BY EntityMade, ConfigurationAssumption DEF Made, Entities, Configuration, HasBits

LEMMA KeptInitially == Init => Kept
<1> SUFFICES ASSUME Init PROVE Kept
  OBVIOUS
<1>1. \A n : Bits(n) \in Word
  BY DEF Bits, Word
<1>2. {} \in Word
  BY DEF Word
<1>3. InitialMemory \in Memory
  BY <1>1, <1>2 DEF InitialMemory, Memory
<1> QED
  BY <1>3 DEF Init, Kept

LEMMA KeptByStep == Kept /\ [Next]_vars => Kept'
<1> SUFFICES ASSUME Kept, [Next]_vars PROVE Kept'
  OBVIOUS
<1>1. PICK c \in Configurations : entity = Entity(c)
  BY DEF Kept, Entities
<1>2. memory \in Memory /\ polled \in BOOLEAN /\ entity \in Entities
  BY DEF Kept
<1>3. ASSUME NEW value \in Numbers, SetNumber(value) PROVE Kept'
  <2>1. /\ entity' = entity
        /\ \/ memory' = memory
           \/ memory' = Written("holding", Target(entity), value \cap (0 .. 15))
    BY <1>1, <1>2, <1>3, NumberStep
  <2>2. "holding" \in Types /\ value \cap (0 .. 15) \in Word
    BY DEF Types, Word
  <2>3. memory' \in Memory
    BY <1>2, <2>1, <2>2, WrittenIs
  <2>4. polled' = FALSE
    BY <1>3 DEF SetNumber, WriteState
  <2> QED
    BY <1>2, <2>1, <2>3, <2>4 DEF Kept
<1>4. ASSUME NEW state \in BOOLEAN, SetSwitch(state) PROVE Kept'
  <2>1. /\ entity' = entity
        /\ \/ memory' = memory
           \/ memory' = Written(c.register_type, Target(entity), SwitchWord(c, state))
    BY <1>1, <1>2, <1>4, SwitchStep
  <2>2. c.register_type \in Types /\ SwitchWord(c, state) \in Word
    BY EntityTypes DEF SwitchWord, Word
  <2>3. memory' \in Memory
    BY <1>2, <2>1, <2>2, WrittenIs
  <2>4. polled' = FALSE
    BY <1>4 DEF SetSwitch, WriteState
  <2> QED
    BY <1>2, <2>1, <2>3, <2>4 DEF Kept
<1>5. CASE Poll
  <2>1. entity' = entity /\ memory' = memory /\ (polled' = TRUE \/ polled' = polled)
    BY <1>5, Zenon DEF Poll
  <2> QED
    BY <1>2, <2>1 DEF Kept
<1>6. ASSUME NEW a \in EntityAddresses(entity) \cap Addresses,
             NEW word \in IF HasBits(entity) THEN SUBSET {0} ELSE Words, DeviceChanges(a, word)
      PROVE  Kept'
  <2>1. word \in Word
    BY ConfigurationAssumption DEF Word
  <2>2. /\ memory' = [memory EXCEPT ![entity.register_type][a] = word]
        /\ polled' = FALSE /\ entity' = entity
    BY <1>6 DEF DeviceChanges
  <2>3. memory' \in Memory
    BY <1>1, <1>2, <2>1, <2>2, EntityTypes DEF Memory
  <2> QED
    BY <1>2, <2>2, <2>3 DEF Kept
<1>7. CASE UNCHANGED vars
  BY <1>2, <1>7 DEF vars, Kept
<1> QED
  BY <1>3, <1>4, <1>5, <1>6, <1>7 DEF Next

LEMMA AlwaysKept == Spec => []Kept
  BY KeptInitially, KeptByStep, PTL DEF Spec

-----------------------------------------------------------------------------
(* Whose registers a request changes.                                      *)

\* A number and a switch write where they are.
LEMMA TargetIs ==
    ASSUME PlacesFit, NEW c \in Configurations, c.kind \in {"number", "switch"},
           NEW e, e = Entity(c)
    PROVE  Target(e) = EntityAddress(e) /\ EntityAddress(e) \in EntityAddresses(e)
<1>1. /\ c.address \in Nat /\ c.byte_offset \in Nat /\ c.before \in Nat
      /\ c.register_type \in Types
  BY ConfigurationAssumption, Widths DEF Configuration
<1>2. EntityAddress(e) \in Nat /\ EntityAddress(e) < 65536
  <2>1. EntityAddress(e) \in UInt(16)
    BY DEF PlacesFit, Entities
  <2> QED
    BY <2>1, Widths
<1>3. CASE c.kind = "number"
  <2>1. /\ e.start = c.address - c.before
        /\ e.offset = PlacedOffset(c, c.byte_offset) /\ ~HasBits(c)
        /\ ~HasBits(e) /\ e.kind = "number" /\ e.address = c.address
        /\ e.byte_offset = c.byte_offset /\ e.value_type = c.value_type
    BY <1>3, NumberMade DEF Made, HasBits
  <2>2. EntityAddress(e) = c.address + c.byte_offset \div 2
    BY <2>1 DEF EntityAddress
  <2>3. e.offset = c.byte_offset + 2 * c.before
    <3>1. (c.byte_offset + 2 * c.before) % 256 = c.byte_offset + 2 * c.before
      BY <1>1, <1>3 DEF PlacesFit
    <3> QED
      BY <2>1, <3>1 DEF PlacedOffset
  <2>4. (c.byte_offset + 2 * c.before) \div 2 = c.byte_offset \div 2 + c.before
    BY <1>1
  <2>5. e.start + e.offset \div 2 = EntityAddress(e)
    BY <1>1, <2>1, <2>2, <2>3, <2>4
  <2>6. Target(e) = EntityAddress(e) % 65536
    BY <2>1, <2>5 DEF Target
  <2>7. Target(e) = EntityAddress(e)
    BY <1>2, <2>6
  <2>8. EntityAddress(e) \in EntityAddresses(e)
    <3>1. EntityAddresses(e) = EntityAddress(e) .. EntityAddress(e) + RegisterCount(e.value_type) - 1
      BY <2>1 DEF EntityAddresses, IsText, IsNumeric
    <3>2. RegisterCount(e.value_type) \in {1, 2, 4}
      BY <1>3, <2>1, NumberMade, CountOfRegisters
    <3> QED
      BY <1>2, <3>1, <3>2
  <2> QED
    BY <2>7, <2>8
<1>4. CASE c.kind = "switch"
  <2>1. /\ e.start = (c.address + c.byte_offset) - c.before
        /\ e.offset = PlacedOffset(c, 0)
        /\ HasBits(e) <=> HasBits(c)
        /\ e.kind = "switch" /\ e.address = c.address /\ e.byte_offset = c.byte_offset
    <3>1. Made(e, c, c.address + c.byte_offset, 0, 1)
      BY <1>4, SwitchMade
    <3>2. /\ e.start = (c.address + c.byte_offset) - c.before
          /\ e.offset = PlacedOffset(c, 0)
          /\ e.kind = c.kind /\ e.address = c.address /\ e.byte_offset = c.byte_offset
      BY <3>1 DEF Made
    <3>3. HasBits(e) <=> HasBits(c)
      BY EntityTypes
    <3> QED
      BY <1>4, <3>2, <3>3
  <2>2. EntityAddress(e) = c.address + c.byte_offset
    BY <2>1 DEF EntityAddress
  <2>3. (IF HasBits(e) THEN e.offset ELSE e.offset \div 2) = c.before
    <3>1. CASE HasBits(c)
      <4>1. c.before < 256
        BY <1>4, <3>1 DEF PlacesFit
      <4>2. (0 + c.before) % 256 = c.before
        BY <1>1, <4>1
      <4> QED
        BY <2>1, <3>1, <4>2 DEF PlacedOffset
    <3>2. CASE ~HasBits(c)
      <4>1. 2 * c.before < 256
        BY <1>4, <3>2 DEF PlacesFit
      <4>2. (0 + 2 * c.before) % 256 = 2 * c.before /\ (2 * c.before) \div 2 = c.before
        BY <1>1, <4>1
      <4> QED
        BY <2>1, <3>2, <4>2 DEF PlacedOffset
    <3> QED
      BY <3>1, <3>2
  <2>4. Target(e) = EntityAddress(e) % 65536
    BY <1>1, <2>1, <2>2, <2>3 DEF Target
  <2>5. Target(e) = EntityAddress(e)
    BY <1>2, <2>4
  <2>6. EntityAddress(e) \in EntityAddresses(e)
    <3>1. EntityAddresses(e) = EntityAddress(e) .. EntityAddress(e) + 1 - 1
      BY <2>1 DEF EntityAddresses, IsText, IsNumeric
    <3> QED
      BY <1>2, <3>1
  <2> QED
    BY <2>5, <2>6
<1> QED
  BY <1>3, <1>4

\* the step of OnlyOwnRegistersChange
Own ==
    \A t \in Types : \A a \in Addresses :
        memory'[t][a] # memory[t][a] =>
            t = entity.register_type /\ a \in EntityAddresses(entity)

LEMMA OwnStep ==
    ASSUME PlacesFit, Kept, Next PROVE Own
<1>1. PICK c \in Configurations : entity = Entity(c)
  BY DEF Kept, Entities
<1>2. memory \in Memory /\ entity.register_type = c.register_type
  BY <1>1, EntityTypes DEF Kept
<1>3. ASSUME NEW value \in Numbers, SetNumber(value) PROVE Own
  <2>1. /\ c.kind = "number"
        /\ \/ memory' = memory
           \/ memory' = Written("holding", Target(entity), value \cap (0 .. 15))
    BY <1>1, <1>2, <1>3, NumberStep
  <2>2. c.register_type = "holding"
    BY <2>1, NumberMade
  <2>3. Target(entity) \in EntityAddresses(entity)
    BY <1>1, <2>1, TargetIs
  <2>4. CASE memory' = memory
    BY <2>4 DEF Own
  <2>5. CASE memory' = Written("holding", Target(entity), value \cap (0 .. 15))
    <3>1. "holding" \in Types /\ value \cap (0 .. 15) \in Word
      BY DEF Types, Word
    <3>2. \A t \in Types : \A a \in Addresses :
             memory'[t][a] # memory[t][a] => t = "holding" /\ a = Target(entity)
      BY <1>2, <2>5, <3>1, WrittenIs
    <3> QED
      BY <1>2, <2>2, <2>3, <3>2 DEF Own
  <2> QED
    BY <2>1, <2>4, <2>5
<1>4. ASSUME NEW state \in BOOLEAN, SetSwitch(state) PROVE Own
  <2>1. /\ c.kind = "switch"
        /\ \/ memory' = memory
           \/ memory' = Written(c.register_type, Target(entity), SwitchWord(c, state))
    BY <1>1, <1>2, <1>4, SwitchStep
  <2>2. Target(entity) \in EntityAddresses(entity)
    BY <1>1, <2>1, TargetIs
  <2>3. CASE memory' = memory
    BY <2>3 DEF Own
  <2>4. CASE memory' = Written(c.register_type, Target(entity), SwitchWord(c, state))
    <3>1. c.register_type \in Types /\ SwitchWord(c, state) \in Word
      BY EntityTypes DEF SwitchWord, Word
    <3>2. \A t \in Types : \A a \in Addresses :
             memory'[t][a] # memory[t][a] => t = c.register_type /\ a = Target(entity)
      BY <1>2, <2>4, <3>1, WrittenIs
    <3> QED
      BY <1>2, <2>2, <3>2 DEF Own
  <2> QED
    BY <2>1, <2>3, <2>4
<1>5. CASE Poll
  BY <1>5, Zenon DEF Poll, Own
<1>6. ASSUME NEW a \in EntityAddresses(entity) \cap Addresses,
             NEW word \in IF HasBits(entity) THEN SUBSET {0} ELSE Words, DeviceChanges(a, word)
      PROVE  Own
  <2>1. memory' = [memory EXCEPT ![entity.register_type][a] = word]
    BY <1>6 DEF DeviceChanges
  <2> QED
    BY <1>2, <2>1 DEF Own, Memory
<1> QED
  BY <1>3, <1>4, <1>5, <1>6 DEF Next

\* A request changes nothing in the device but the registers or coils of the
\* entity it was made for, whatever the configurations, their addresses and
\* the device are (ModbusTCPNumber::control(), ModbusTCPSwitch::write_state()
\* and send()), as long as the offsets fit into their byte.
THEOREM OwnRegistersOnly ==
    ASSUME PlacesFit PROVE Spec => OnlyOwnRegistersChange
<1>1. Kept /\ [Next]_vars => [Own]_vars
  BY OwnStep
<1> QED
  BY <1>1, AlwaysKept, PTL DEF Spec, OnlyOwnRegistersChange, Own

-----------------------------------------------------------------------------
(* What is read back of a write.                                           *)

LEMMA ValueOfWord ==
    ASSUME NEW type \in WordTypes, NEW value, Fits(value, type)
    PROVE  /\ Width(type) = 16 /\ RegisterCount(type) = 1
           /\ value = IF type \in SignedTypes THEN SignExtend(value \cap (0 .. 15), 16)
                      ELSE value \cap (0 .. 15)
<1>1. RegisterCount(type) = 1
  BY DEF RegisterCount
<1>2. Width(type) = 16
  BY <1>1 DEF Width
<1>3. 0 .. Width(type) - 1 = 0 .. 15
  BY <1>2
<1> QED
  BY <1>1, <1>2, <1>3 DEF Fits

LEMMA NumberIsRead ==
    ASSUME PlacesFit, DeviceFits, Kept, NEW value \in Numbers, SetNumber(value),
           WritesSingle(entity), entity.mask = 0 .. 31
    PROVE  Meaning(entity)' = value
<1>1. PICK c \in Configurations : entity = Entity(c)
  BY DEF Kept, Entities
<1>2. memory \in Memory /\ entity \in Entities
  BY DEF Kept
<1>3. c.kind = "number" /\ entity' = entity /\ Fits(value, c.value_type)
  BY <1>1, <1>2, NumberStep
<1>4. /\ entity.kind = "number" /\ entity.register_type = "holding"
      /\ entity.value_type = c.value_type /\ c.value_type \in WordTypes
      /\ ~c.use_write_multiple
  <2>1. entity.kind = "number" /\ entity.value_type = c.value_type
        /\ entity.use_write_multiple = c.use_write_multiple
    BY <1>1, <1>3, EntityTypes
  <2>2. entity.register_type = "holding"
    BY <1>1, <1>3, EntityTypes, NumberMade
  <2>3. c.value_type \in ValueTypes
    BY <1>3, NumberMade
  <2>4. RegisterCount(c.value_type) = 1 /\ ~c.use_write_multiple
    BY <2>1 DEF WritesSingle
  <2> QED
    BY <2>1, <2>2, <2>3, <2>4, CountOfRegisters
<1>5. PICK address : address = EntityAddress(entity)
  OBVIOUS
<1>6. Target(entity) = address /\ address \in Addresses /\ address \in Int
  <2>1. Target(entity) = address /\ address \in EntityAddresses(entity)
    BY <1>1, <1>3, <1>5, TargetIs
  <2>2. EntityAddresses(entity) \subseteq Addresses
    BY <1>2 DEF DeviceFits
  <2>3. Target(entity) \in UInt(16)
    BY <1>1, <1>2, NumberStep
  <2> QED
    BY <2>1, <2>2, <2>3, Widths
<1>7. PICK word : word = value \cap (0 .. 15)
  OBVIOUS
<1>8. memory'["holding"][address] = word
  <2>1. memory' = Written("holding", address, word)
    BY <1>1, <1>2, <1>4, <1>6, <1>7, NumberStep
  <2>2. "holding" \in Types /\ word \in Word
    BY <1>7 DEF Types, Word
  <2> QED
    BY <1>2, <1>6, <2>1, <2>2, WrittenIs
<1>9. Width(c.value_type) = 16 /\ RegisterCount(c.value_type) = 1
      /\ value = IF c.value_type \in SignedTypes THEN SignExtend(word, 16) ELSE word
  BY <1>3, <1>4, <1>7, ValueOfWord
<1>10. RawBits(entity)' = word
  <2>1. EntityAddress(entity)' = address
    BY <1>3, <1>5 DEF EntityAddress, HasBits
  <2>2. ShiftLeft(word, 0) = word
    <3>1. \A b \in word : b + 0 = b
      BY <1>7
    <3> QED
      BY <3>1 DEF ShiftLeft
  <2>3. c.value_type \notin LowWordFirst
    BY <1>4 DEF WordTypes, LowWordFirst
  <2>4. RawBits(entity)' =
           UNION {ShiftLeft(memory'["holding"][address + k], 16 * (1 - 1 - k)) : k \in 0 .. 1 - 1}
    BY <1>3, <1>4, <1>9, <2>1, <2>3 DEF RawBits
  <2>5. 0 .. 1 - 1 = {0} /\ 16 * (1 - 1 - 0) = 0 /\ address + 0 = address
    BY <1>6
  <2>6. UNION {ShiftLeft(memory'["holding"][address + k], 16 * (1 - 1 - k)) : k \in 0 .. 1 - 1}
           = ShiftLeft(memory'["holding"][address + 0], 16 * (1 - 1 - 0))
    BY <2>5, Zenon
  <2> QED
    BY <1>8, <2>2, <2>4, <2>5, <2>6
<1>11. Meaning(entity)' = IF c.value_type \in SignedTypes THEN SignExtend(word, 16) ELSE word
  BY <1>3, <1>4, <1>9, <1>10 DEF Meaning, IsText, IsNumeric
<1> QED
  BY <1>9, <1>11

LEMMA SwitchIsRead ==
    ASSUME PlacesFit, DeviceFits, Kept, NEW state \in BOOLEAN, SetSwitch(state),
           WritesSingle(entity)
    PROVE  Meaning(entity)' = state
<1>1. PICK c \in Configurations : entity = Entity(c)
  BY DEF Kept, Entities
<1>2. memory \in Memory /\ entity \in Entities
  BY DEF Kept
<1>3. c.kind = "switch" /\ entity' = entity
  BY <1>1, <1>2, SwitchStep
<1>4. /\ entity.kind = "switch" /\ entity.register_type = c.register_type
      /\ entity.mask = c.mask /\ ~c.use_write_multiple /\ c.register_type \in Types
      /\ HasBits(entity) <=> HasBits(c)
  BY <1>1, <1>3, EntityTypes DEF WritesSingle
<1>5. PICK address : address = EntityAddress(entity)
  OBVIOUS
<1>6. Target(entity) = address /\ address \in Addresses
  <2>1. Target(entity) = address /\ address \in EntityAddresses(entity)
    BY <1>1, <1>3, <1>5, TargetIs
  <2>2. EntityAddresses(entity) \subseteq Addresses
    BY <1>2 DEF DeviceFits
  <2> QED
    BY <2>1, <2>2
<1>7. memory'[c.register_type][address] = SwitchWord(c, state)
  <2>1. memory' = Written(c.register_type, address, SwitchWord(c, state))
    BY <1>1, <1>2, <1>4, <1>6, SwitchStep
  <2>2. SwitchWord(c, state) \in Word
    BY DEF SwitchWord, Word
  <2> QED
    BY <1>2, <1>4, <1>6, <2>1, <2>2, WrittenIs
<1>8. EntityAddress(entity)' = address
  BY <1>3, <1>5 DEF EntityAddress, HasBits
<1>9. CASE HasBits(c)
  <2>1. Meaning(entity)' = (SwitchWord(c, state) # {})
    BY <1>3, <1>4, <1>7, <1>8, <1>9 DEF Meaning, IsText, IsNumeric, HasBits
  <2>2. c.register_type = "coil"
    BY <1>3, <1>9, SwitchMade DEF HasBits, BitTypes
  <2>3. (SwitchWord(c, state) # {}) <=> state
    BY <2>2 DEF SwitchWord
  <2> QED
    BY <2>1, <2>3
<1>10. CASE ~HasBits(c)
  <2>1. Meaning(entity)' = (SwitchWord(c, state) \cap c.mask # {})
    BY <1>3, <1>4, <1>7, <1>8, <1>10 DEF Meaning, IsText, IsNumeric, HasBits
  <2>2. c.register_type # "coil"
    BY <1>10 DEF HasBits, BitTypes
  <2>3. c.mask \cap (0 .. 15) # {}
    BY <1>3, <1>10 DEF DeviceFits
  <2>4. (SwitchWord(c, state) \cap c.mask # {}) <=> state
    BY <2>2, <2>3 DEF SwitchWord
  <2> QED
    BY <2>1, <2>4
<1> QED
  BY <1>9, <1>10

\* Setting a switch, or a number without a mask, by the command for a single
\* register or coil leaves the device with a value that is read back as the
\* one that was set, for every place, value type and mask
\* (control(), write_state(), send() and what the server makes of it).
THEOREM WritesAreRead ==
    ASSUME PlacesFit, DeviceFits PROVE Spec => SingleWritesTakeEffect
<1>1. Kept => [WritesSingle(entity) => TakesEffect(entity)]_vars
  BY NumberIsRead, SwitchIsRead DEF TakesEffect
<1> QED
  BY <1>1, AlwaysKept, PTL DEF Spec, SingleWritesTakeEffect
=============================================================================
