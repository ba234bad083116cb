------------------------------ MODULE PollProofs ------------------------------
(***************************************************************************)
(* Theorems about what the entities show of the answer to a poll, for      *)
(* every value of the constants: the type of it, and that it is what the   *)
(* device holds at the address of the entity.                              *)
(***************************************************************************)
EXTENDS RequestsProofs

-----------------------------------------------------------------------------
(* What a poll asks for and gets.                                          *)

\* A read is sent as a whole or, for more than MAX_VALUES values, not at all.
LEMMA ReadFrame ==
    ASSUME NEW fc \in {1, 2, 3, 4}, NEW address \in UInt(16), NEW count \in UInt(8),
           NEW bytes, bytes = Transmitted(Frame(Command(fc, address, count, <<>>)))
    PROVE  \/ bytes = <<>>
           \/ /\ Bytes(bytes, 12) /\ bytes[8] = Bits(fc)
              /\ NumberAt(bytes, 9) = address /\ NumberAt(bytes, 11) = count
<1>1. PICK payload : payload = <<>>
  OBVIOUS
<1>2. payload \in Seq(Byte)
  BY <1>1
<1>3. PICK c : c = Command(fc, address, count, payload)
  OBVIOUS
<1>4. count \in UInt(16) /\ count \in Nat /\ count < 65536 /\ address \in Nat /\ address < 65536
  BY Widths
<1>5. /\ c.function_code = fc /\ c.address = address /\ c.count = count
      /\ c.payload = payload /\ c.function_code \in UInt(8)
      /\ c.address \in UInt(16) /\ c.count \in UInt(16) /\ c.payload \in Seq(Byte)
  BY <1>2, <1>3, <1>4, FieldsOfCommand
<1>6. PICK h : h = Header(c)
  OBVIOUS
<1>7. /\ Bytes(h, 12) /\ h[6] = Bits(Length(payload)) /\ h[8] = Bits(fc)
      /\ h[9] = TwoBytes(Bits(address))[1] /\ h[10] = TwoBytes(Bits(address))[2]
      /\ h[11] = TwoBytes(Bits(count))[1] /\ h[12] = TwoBytes(Bits(count))[2]
  <2>1. /\ Bytes(h, IF c.function_code \in {5, 6} THEN 10 ELSE 12)
        /\ h[6] = Bits(Length(c.payload)) /\ h[8] = Bits(c.function_code)
        /\ h[9] = TwoBytes(Bits(c.address))[1] /\ h[10] = TwoBytes(Bits(c.address))[2]
        /\ c.function_code \notin {5, 6} => /\ h[11] = TwoBytes(Bits(c.count))[1]
                                            /\ h[12] = TwoBytes(Bits(c.count))[2]
    BY <1>5, <1>6, HeaderIs
  <2>2. c.function_code \notin {5, 6}
    BY <1>5
  <2> QED
    BY <1>5, <2>1, <2>2
<1>8. Payload(c) = <<>>
  BY <1>1, <1>5 DEF Payload
<1>9. h \o Payload(c) = h
  <2>1. h \in Seq(Byte)
    BY <1>7 DEF Bytes
  <2> QED
    BY <1>8, <2>1
<1>10. bytes = Transmitted(Frame(c))
  BY <1>1, <1>3
<1>11. Frame(c) = <<>> \/ Frame(c) = h
  BY <1>6, <1>9, Zenon DEF Frame
<1>12. ASSUME Frame(c) = <<>> PROVE bytes = <<>>
  BY <1>10, <1>12 DEF Transmitted
<1>13. ASSUME Frame(c) = h, h # <<>> PROVE bytes = SubSeq(h, 1, 12)
  <2>1. Length(payload) = 6
    BY <1>1 DEF Length
  <2>2. Number(h[6]) = 6
    BY <1>7, <2>1, NumberOfBits
  <2>3. Number(h[6]) + 6 = 12
    BY <2>2
  <2> QED
    BY <1>10, <1>13, <2>3, Zenon DEF Transmitted
<1>14. h # <<>>
  BY <1>7 DEF Bytes
<1>15. Bytes(SubSeq(h, 1, 12), 12) /\ \A i \in 1 .. 12 : SubSeq(h, 1, 12)[i] = h[i]
  <2>1. 12 \in Nat /\ 12 <= 12
    OBVIOUS
  <2> QED
    BY <1>7, <2>1, Beginning, Zenon
<1>16. ASSUME NEW i \in {9, 11}, NEW n \in Nat, n < 65536,
              h[i] = TwoBytes(Bits(n))[1], h[i + 1] = TwoBytes(Bits(n))[2],
              bytes[i] = h[i], bytes[i + 1] = h[i + 1]
       PROVE  NumberAt(bytes, i) = n
  <2>1. Bits(n) \in Word
    BY DEF Bits, Word
  <2>2. 256 * Number(TwoBytes(Bits(n))[1]) + Number(TwoBytes(Bits(n))[2]) = Number(Bits(n))
    BY <2>1, NumberOfTwoBytes
  <2>3. Number(Bits(n)) = n
    BY <1>16, NumberOfBits
  <2>4. NumberAt(bytes, i) = 256 * Number(bytes[i]) + Number(bytes[i + 1])
    BY DEF NumberAt
  <2> QED
    BY <1>16, <2>2, <2>3, <2>4
<1>17. CASE bytes = SubSeq(h, 1, 12)
  <2>1. Bytes(bytes, 12) /\ \A i \in 1 .. 12 : bytes[i] = h[i]
    BY <1>15, <1>17, Zenon
  <2>2. /\ bytes[8] = h[8] /\ bytes[9] = h[9] /\ bytes[10] = h[10] /\ bytes[11] = h[11]
        /\ bytes[12] = h[12]
    BY <2>1
  <2>3. NumberAt(bytes, 9) = address
    BY <1>4, <1>7, <1>16, <2>2
  <2>4. NumberAt(bytes, 11) = count
    BY <1>4, <1>7, <1>16, <2>2
  <2> QED
    BY <1>7, <2>1, <2>2, <2>3, <2>4
<1> QED
  BY <1>11, <1>12, <1>13, <1>14, <1>17

\* the registers or coils of the entity's range
Cells(e) == [i \in 1 .. e.range |-> memory[e.register_type][e.start + i - 1]]

\* The answer to a poll holds what the registers or coils of the range have.
LEMMA AnswerIs ==
    ASSUME Kept, NEW e, e = entity,
           NEW bytes, bytes = Transmitted(Frame(CreateReadCommand(e))), Served(bytes)
    PROVE  /\ e.range \in Nat /\ Cells(e) \in [1 .. e.range -> Word]
           /\ Answered(bytes) = IF HasBits(e)
                                THEN CoilsAsBytes([i \in 1 .. e.range |-> Cells(e)[i] # {}])
                                ELSE WordsAsBytes(Cells(e))
<1>1. PICK c \in Configurations : e = Entity(c)
  BY DEF Kept, Entities
<1>2. e \in Entities /\ memory \in Memory
  BY DEF Kept
<1>3. PICK type \in Types : type = e.register_type
  BY <1>1, EntityTypes
<1>4. e.start \in UInt(16) /\ e.range \in UInt(8) /\ e.start \in Nat /\ e.range \in Nat
  BY <1>2, RangeAssumption, Widths
<1>5. PICK start, range : start = e.start /\ range = e.range
  OBVIOUS
<1>6. PICK fc : fc = ReadFunction[type]
  OBVIOUS
<1>7. fc \in {1, 2, 3, 4} /\ \A t \in Types : ReadFunction[t] = fc => t = type
  BY <1>6 DEF ReadFunction, Types
<1>8. /\ Bytes(bytes, 12) /\ bytes[8] = Bits(fc)
      /\ NumberAt(bytes, 9) = start /\ NumberAt(bytes, 11) = range
  <2>1. bytes = Transmitted(Frame(Command(fc, start, range, <<>>)))
    BY <1>3, <1>5, <1>6 DEF CreateReadCommand
  <2>2. \/ bytes = <<>>
        \/ /\ Bytes(bytes, 12) /\ bytes[8] = Bits(fc)
           /\ NumberAt(bytes, 9) = start /\ NumberAt(bytes, 11) = range
    BY <1>4, <1>5, <1>7, <2>1, ReadFrame
  <2>3. bytes # <<>>
    BY DEF Served, Whole
  <2> QED
    BY <2>2, <2>3
<1>9. start .. start + range - 1 \subseteq Addresses
  <2>1. Bits(fc) # Bits(5) /\ Bits(fc) # Bits(6)
    BY <1>7, BitsDiffer
  <2>2. Asked(bytes) = start .. start + range - 1
    BY <1>8, <2>1 DEF Asked
  <2> QED
    BY <2>2 DEF Served
<1>10. Cells(e) \in [1 .. e.range -> Word]
  <2>1. ASSUME NEW i \in 1 .. range PROVE memory[type][start + i - 1] \in Word
    <3>1. start + i - 1 \in start .. start + range - 1
      BY <1>4, <1>5
    <3>2. start + i - 1 \in Addresses
      BY <1>9, <3>1
    <3> QED
      BY <1>2, <3>2 DEF Memory
  <2> QED
    BY <1>3, <1>5, <2>1 DEF Cells
<1>11. (CHOOSE t \in Types : bytes[8] = Bits(ReadFunction[t])) = type
  <2>1. ASSUME NEW t \in Types, bytes[8] = Bits(ReadFunction[t]) PROVE t = type
    <3>1. ReadFunction[t] \in {1, 2, 3, 4}
      BY DEF ReadFunction, Types
    <3>2. ReadFunction[t] \in Nat /\ ReadFunction[t] < 65536 /\ fc \in Nat /\ fc < 65536
      BY <1>7, <3>1
    <3>3. Bits(ReadFunction[t]) = Bits(fc)
      BY <1>8, <2>1
    <3>4. ReadFunction[t] = fc
      BY <3>2, <3>3, BitsDiffer
    <3> QED
      BY <1>7, <3>4
  <2>2. bytes[8] = Bits(ReadFunction[type])
    BY <1>6, <1>8
  <2> QED
    BY <2>1, <2>2
<1>12. Answered(bytes) = IF type \in BitTypes
                         THEN CoilsAsBytes([i \in 1 .. range |-> Cells(e)[i] # {}])
                         ELSE WordsAsBytes(Cells(e))
  <2>1. Cells(e) = [i \in 1 .. range |-> memory[type][start + i - 1]]
    BY <1>3, <1>5, Zenon DEF Cells
  <2> DEFINE f == NumberAt(bytes, 9)
             n == NumberAt(bytes, 11)
             u == CHOOSE t \in Types : bytes[8] = Bits(ReadFunction[t])
             cells == [i \in 1 .. n |-> memory[u][f + i - 1]]
  <2>4. Answered(bytes) = IF u \in BitTypes THEN CoilsAsBytes([i \in 1 .. n |-> cells[i] # {}])
                          ELSE WordsAsBytes(cells)
    BY Zenon DEF Answered
  <2>5. f = start /\ n = range /\ u = type
    BY <1>8, <1>11
  <2> HIDE DEF f, n, u
  <2>6. cells = Cells(e)
    BY <2>1, <2>5
  <2> HIDE DEF cells
  <2> QED
    BY <2>4, <2>5, <2>6, Zenon
<1> QED
  BY <1>3, <1>4, <1>5, <1>10, <1>12 DEF HasBits

\* A coil is in the byte and at the bit where it was put.
LEMMA CoilIsRead ==
    ASSUME NEW n \in Nat, NEW states \in [1 .. n -> BOOLEAN], NEW i \in Nat, i < n
    PROVE  CoilFromVector(i, CoilsAsBytes(states)) = states[i + 1]
<1>1. Len(states) = n /\ DOMAIN states = 1 .. n
  BY SequenceOf
<1>2. PICK k : k = i \div 8 + 1
  OBVIOUS
<1>3. k \in 1 .. (n + 7) \div 8 /\ 8 * (k - 1) + (i % 8) + 1 = i + 1 /\ i % 8 \in 0 .. 7
  BY <1>2
<1>4. CoilsAsBytes(states)[k] =
         {b \in 0 .. 7 : 8 * (k - 1) + b + 1 \in {j \in 1 .. n : states[j]}}
  BY <1>1, <1>3 DEF CoilsAsBytes
<1>5. i % 8 \in CoilsAsBytes(states)[k] <=> i + 1 \in {j \in 1 .. n : states[j]}
  BY <1>3, <1>4
<1>6. i + 1 \in 1 .. n
  OBVIOUS
<1>7. CoilFromVector(i, CoilsAsBytes(states)) <=> states[i + 1]
  BY <1>2, <1>5, <1>6 DEF CoilFromVector
<1>8. CoilFromVector(i, CoilsAsBytes(states)) \in BOOLEAN /\ states[i + 1] \in BOOLEAN
  BY <1>6 DEF CoilFromVector
<1> QED
  BY <1>7, <1>8

\* The word i is in the bytes 2 * i - 1 and 2 * i.
LEMMA BytesOfTheWord ==
    ASSUME NEW n \in Nat, NEW words \in [1 .. n -> Word], NEW i \in 1 .. n
    PROVE  /\ WordsAsBytes(words)[2 * i - 1] = TwoBytes(words[i])[1]
           /\ WordsAsBytes(words)[2 * i] = TwoBytes(words[i])[2]
<1>1. Len(words) = n
  BY SequenceOf
<1>2. WordsAsBytes(words) = [k \in 1 .. 2 * n |->
                                TwoBytes(words[(k + 1) \div 2])[IF k % 2 = 1 THEN 1 ELSE 2]]
  BY <1>1, Zenon DEF WordsAsBytes
<1>3. /\ 2 * i - 1 \in 1 .. 2 * n /\ ((2 * i - 1) + 1) \div 2 = i /\ (2 * i - 1) % 2 = 1
      /\ 2 * i \in 1 .. 2 * n /\ (2 * i + 1) \div 2 = i /\ (2 * i) % 2 = 0
  OBVIOUS
<1> QED
  BY <1>2, <1>3

\* Of the fields of a sensor, number or binary sensor.
LEMMA SensorMade ==
    ASSUME NEW c \in Configurations, c.kind \in {"sensor", "number", "binary_sensor"}
    PROVE  \E n : /\ Made(Entity(c), c, c.address, c.byte_offset, n)
                  /\ HasBits(c) => c.kind = "binary_sensor" /\ n = c.byte_offset + 1
<1>1. c \in Configuration /\ (c.kind \in {"sensor", "number"} => ~HasBits(c))
  BY ConfigurationAssumption DEF IsNumeric
<1>2. ASSUME NEW n, Entity(c) = Placed(SensorItem(c, c.address, c.byte_offset, n), c)
      PROVE  Made(Entity(c), c, c.address, c.byte_offset, n)
  BY <1>1, <1>2, PlacedFields
<1>3. CASE c.kind = "sensor"
  BY <1>1, <1>2, <1>3 DEF Entity, ModbusTCPSensor
<1>4. CASE c.kind = "number"
  BY <1>1, <1>2, <1>4 DEF Entity, ModbusTCPNumber
<1>5. CASE c.kind = "binary_sensor"
  <2>1. PICK n : n = IF HasBits(c) THEN c.byte_offset + 1 ELSE 1
    OBVIOUS
  <2>2. Entity(c) = Placed(SensorItem(c, c.address, c.byte_offset, n), c)
    BY <1>5, <2>1 DEF Entity, ModbusTCPBinarySensor
  <2> QED
    BY <1>2, <1>5, <2>1, <2>2
<1> QED
  BY <1>3, <1>4, <1>5

\* where an entity that is not a text is in the answer: before the end of it,
\* and at the place of its own first register or coil
Place(e) == IF HasBits(e) THEN e.offset ELSE e.offset \div 2
Cover(e) == IF IsNumeric(e) THEN RegisterCount(e.value_type) ELSE 1

\* The place of an entity in its range is its own address, and within the range.
LEMMA PlaceIsOwn ==
    ASSUME ReadsFit, NEW c \in Configurations, ~IsText(c), NEW e, e = Entity(c)
    PROVE  /\ Place(e) \in Nat /\ Cover(e) \in {1, 2, 4} /\ e.start + Place(e) = EntityAddress(e)
           /\ Place(e) + Cover(e) <= e.range
           /\ ~HasBits(e) => e.offset = 2 * Place(e)
<1>1. /\ c.address \in Nat /\ c.byte_offset \in Nat /\ c.before \in Nat /\ c.after \in Nat
      /\ c.kind \in {"number", "sensor", "switch", "binary_sensor"}
      /\ IsNumeric(c) => ~HasBits(c) /\ c.value_type \in ValueTypes
  BY ConfigurationAssumption, Widths DEF Configuration, IsText
<1>2. /\ (HasBits(e) <=> HasBits(c)) /\ (IsNumeric(e) <=> IsNumeric(c))
      /\ ~IsText(e) /\ e.kind = c.kind /\ e.value_type = c.value_type
  BY <1>1, EntityTypes DEF IsNumeric, IsText
<1>3. PICK cover : cover = Cover(e)
  OBVIOUS
<1>4. cover \in {1, 2, 4} /\ (HasBits(c) => cover = 1)
  BY <1>1, <1>2, <1>3, CountOfRegisters DEF Cover
<1>5. e.range \in Nat /\ e.range < 256
  <2>1. e \in Entities
    BY EntityTypes
  <2> QED
    BY <2>1, RangeAssumption, Widths
<1>6. /\ HasBits(c) => e.offset < e.range
      /\ ~HasBits(c) => e.offset + 2 * cover <= 2 * e.range
  <2>1. e \in Entities
    BY EntityTypes
  <2>2. \/ HasBits(e) /\ e.offset < e.range
        \/ ~HasBits(e) /\ e.offset + 2 * cover <= 2 * e.range
    BY <1>2, <1>3, <2>1, RangeAssumption DEF Cover
  <2> QED
    BY <1>2, <2>2
<1>7. CASE c.kind = "switch"
  <2>1. /\ e.start = (c.address + c.byte_offset) - c.before /\ e.range = c.before + 1 + c.after
        /\ e.offset = PlacedOffset(c, 0) /\ e.address = c.address /\ e.byte_offset = c.byte_offset
    <3>1. Made(e, c, c.address + c.byte_offset, 0, 1)
      BY <1>7, SwitchMade
    <3> QED
      BY <3>1 DEF Made
  <2>2. EntityAddress(e) = c.address + c.byte_offset
    BY <1>2, <1>7, <2>1 DEF EntityAddress
  <2>3. CASE HasBits(c)
    <3>1. e.offset = c.before
      <4>1. c.before < 256
        BY <1>1, <1>5, <2>1
      <4>2. (0 + c.before) % 256 = c.before
        BY <1>1, <4>1
      <4> QED
        BY <2>1, <2>3, <4>2 DEF PlacedOffset
    <3> QED
      BY <1>1, <1>2, <1>3, <1>4, <1>6, <2>1, <2>2, <2>3, <3>1 DEF Place
  <2>4. CASE ~HasBits(c)
    <3>1. e.offset = 2 * c.before
      <4>1. (0 + 2 * c.before) % 256 = 2 * c.before
        BY <1>1, <1>7, <2>4 DEF ReadsFit
      <4> QED
        BY <2>1, <2>4, <4>1 DEF PlacedOffset
    <3>2. e.offset \div 2 = c.before
      BY <1>1, <3>1
    <3> QED
      BY <1>1, <1>2, <1>3, <1>4, <1>5, <1>6, <2>1, <2>2, <2>4, <3>1, <3>2 DEF Place
  <2> QED
    BY <2>3, <2>4
<1>8. CASE c.kind # "switch"
  <2>1. PICK n : /\ Made(e, c, c.address, c.byte_offset, n)
                 /\ HasBits(c) => c.kind = "binary_sensor" /\ n = c.byte_offset + 1
    BY <1>1, <1>8, SensorMade
  <2>2. /\ e.start = c.address - c.before /\ e.range = c.before + n + c.after
        /\ e.offset = PlacedOffset(c, c.byte_offset)
        /\ e.address = c.address /\ e.byte_offset = c.byte_offset
    BY <2>1 DEF Made
  <2>3. CASE HasBits(c)
    <3>1. e.offset = c.byte_offset + c.before
      <4>1. (c.byte_offset + c.before) % 256 = c.byte_offset + c.before
        BY <1>1, <1>5, <2>1, <2>2, <2>3
      <4> QED
        BY <2>2, <2>3, <4>1 DEF PlacedOffset
    <3>2. EntityAddress(e) = c.address + c.byte_offset
      BY <1>2, <2>2, <2>3 DEF EntityAddress
    <3> QED
      BY <1>1, <1>2, <1>3, <1>4, <1>5, <1>6, <2>2, <2>3, <3>1, <3>2 DEF Place
  <2>4. CASE ~HasBits(c)
    <3>1. c.byte_offset + 2 * c.before < 256 /\ c.byte_offset % 2 = 0
      BY <1>1, <1>8, <2>4 DEF ReadsFit
    <3>2. e.offset = c.byte_offset + 2 * c.before
      <4>1. (c.byte_offset + 2 * c.before) % 256 = c.byte_offset + 2 * c.before
        BY <1>1, <3>1
      <4> QED
        BY <2>2, <2>4, <4>1 DEF PlacedOffset
    <3>3. PICK half : half = c.byte_offset \div 2
      OBVIOUS
    <3>4. half \in Nat /\ c.byte_offset = 2 * half
      BY <1>1, <3>1, <3>3
    <3>5. EntityAddress(e) = c.address + half
      BY <1>2, <1>8, <2>2, <2>4, <3>3 DEF EntityAddress
    <3>6. e.offset \div 2 = half + c.before
      BY <1>1, <3>2, <3>4
    <3> QED
      BY <1>1, <1>2, <1>3, <1>4, <1>5, <1>6, <2>2, <2>4, <3>2, <3>4, <3>5, <3>6 DEF Place
  <2> QED
    BY <2>3, <2>4
<1> QED
  BY <1>7, <1>8

-----------------------------------------------------------------------------
(* Values of several registers.                                            *)

\* n registers as one value, the highest or the lowest first
HighFirst(words, n) == UNION {ShiftLeft(words[k], 16 * (n - 1 - k)) : k \in 0 .. n - 1}
LowFirst(words, n) == UNION {ShiftLeft(words[k], 16 * k) : k \in 0 .. n - 1}

\* The bits of a shifted word.
LEMMA Shifted ==
    ASSUME NEW bits, NEW m, NEW b
    PROVE  b \in ShiftLeft(bits, m) <=> \E x \in bits : b = x + m
  BY DEF ShiftLeft

\* the bits of a word k that is moved by 16 * k
HighBit(b, words, n) ==
    \E k \in 0 .. n - 1 : \E x \in 0 .. 15 : x \in words[k] /\ b = x + 16 * (n - 1 - k)
LowBit(b, words, n) ==
    \E k \in 0 .. n - 1 : \E x \in 0 .. 15 : x \in words[k] /\ b = x + 16 * k

\* The bits of a value, in both orders of its words.
LEMMA MovedBits ==
    ASSUME NEW n \in Nat, NEW words \in [0 .. n - 1 -> Word], NEW b
    PROVE  /\ b \in HighFirst(words, n) <=> HighBit(b, words, n)
           /\ b \in LowFirst(words, n) <=> LowBit(b, words, n)
<1>1. \A k \in 0 .. n - 1 : \A x : x \in words[k] => x \in 0 .. 15
  BY DEF Word
<1>2. b \in HighFirst(words, n) <=>
         \E k \in 0 .. n - 1 : \E x \in words[k] : b = x + 16 * (n - 1 - k)
  <2>1. b \in HighFirst(words, n) <=>
           \E k \in 0 .. n - 1 : b \in ShiftLeft(words[k], 16 * (n - 1 - k))
    BY DEF HighFirst
  <2> QED
    BY <2>1, Shifted
<1>3. b \in LowFirst(words, n) <=>
         \E k \in 0 .. n - 1 : \E x \in words[k] : b = x + 16 * k
  <2>1. b \in LowFirst(words, n) <=> \E k \in 0 .. n - 1 : b \in ShiftLeft(words[k], 16 * k)
    BY DEF LowFirst
  <2> QED
    BY <2>1, Shifted
<1> QED
  BY <1>1, <1>2, <1>3, Zenon DEF HighBit, LowBit

\* get_data() puts the bytes of the registers together.
LEMMA DataOfWords ==
    ASSUME NEW n \in Nat, NEW words \in [0 .. n - 1 -> Word], NEW data, NEW offset \in Nat,
           \A k \in 0 .. n - 1 : /\ data[offset + (2 * k + 1)] = TwoBytes(words[k])[1]
                                 /\ data[offset + (2 * k + 2)] = TwoBytes(words[k])[2]
    PROVE  GetData(data, offset, 2 * n) = HighFirst(words, n)
<1>0. \A b : b \in HighFirst(words, n) <=> HighBit(b, words, n)
  BY MovedBits
<1>1. ASSUME NEW b
      PROVE  b \in GetData(data, offset, 2 * n) <=>
                \E i \in 1 .. 2 * n : \E x \in data[offset + i] : b = x + 8 * (2 * n - i)
  <2>1. b \in GetData(data, offset, 2 * n) <=>
           \E i \in 1 .. 2 * n : b \in ShiftLeft(data[offset + i], 8 * (2 * n - i))
    BY DEF GetData
  <2> QED
    BY <2>1, Shifted
<1>2. ASSUME NEW k \in 0 .. n - 1
      PROVE  /\ \A x : x \in data[offset + (2 * k + 1)] <=> x \in 0 .. 7 /\ x + 8 \in words[k]
             /\ \A x : x \in data[offset + (2 * k + 2)] <=> x \in 0 .. 7 /\ x \in words[k]
  <2>1. words[k] \in Word
    OBVIOUS
  <2>2. /\ TwoBytes(words[k])[1] \in Byte /\ TwoBytes(words[k])[2] \in Byte
        /\ \A x \in 0 .. 7 : x \in TwoBytes(words[k])[1] <=> x + 8 \in words[k]
        /\ \A x \in 0 .. 7 : x \in TwoBytes(words[k])[2] <=> x \in words[k]
    BY <2>1, TwoBytesOfWord
  <2>3. \A x : x \in TwoBytes(words[k])[1] \/ x \in TwoBytes(words[k])[2] => x \in 0 .. 7
    BY <2>2 DEF Byte
  <2> QED
    BY <2>2, <2>3
<1>3. ASSUME NEW b, b \in GetData(data, offset, 2 * n) PROVE b \in HighFirst(words, n)
  <2>1. PICK i \in 1 .. 2 * n : \E x \in data[offset + i] : b = x + 8 * (2 * n - i)
    BY <1>1, <1>3
  <2>2. PICK x : x \in data[offset + i] /\ b = x + 8 * (2 * n - i)
    BY <2>1
  <2>3. PICK k \in 0 .. n - 1 : i = 2 * k + 1 \/ i = 2 * k + 2
    <3>1. (i - 1) \div 2 \in 0 .. n - 1
          /\ (i = 2 * ((i - 1) \div 2) + 1 \/ i = 2 * ((i - 1) \div 2) + 2)
      OBVIOUS
    <3> QED
      BY <3>1
  <2>4. CASE i = 2 * k + 1
    <3>1. x \in 0 .. 7 /\ x + 8 \in words[k]
      BY <1>2, <2>2, <2>4
    <3>2. x + 8 \in 0 .. 15
      BY <3>1
    <3>3. b = (x + 8) + 16 * (n - 1 - k)
      BY <2>2, <2>4, <3>1
    <3> QED
      BY <3>1, <3>2, <3>3, <1>0 DEF HighBit
  <2>5. CASE i = 2 * k + 2
    <3>1. x \in 0 .. 7 /\ x \in words[k]
      BY <1>2, <2>2, <2>5
    <3>2. x \in 0 .. 15 /\ b = x + 16 * (n - 1 - k)
      BY <2>2, <2>5, <3>1
    <3> QED
      BY <3>1, <3>2, <1>0 DEF HighBit
  <2> QED
    BY <2>3, <2>4, <2>5
<1>4. ASSUME NEW b, b \in HighFirst(words, n) PROVE b \in GetData(data, offset, 2 * n)
  <2>10. PICK k \in 0 .. n - 1 : \E x \in 0 .. 15 : x \in words[k] /\ b = x + 16 * (n - 1 - k)
    BY <1>4, <1>0 DEF HighBit
  <2>1. PICK x \in 0 .. 15 : x \in words[k] /\ b = x + 16 * (n - 1 - k)
    BY <2>10
  <2>2. CASE x >= 8
    <3>1. x - 8 \in data[offset + (2 * k + 1)]
      <4>1. x - 8 \in 0 .. 7 /\ (x - 8) + 8 = x
        BY <2>2
      <4>2. (x - 8) + 8 \in words[k]
        BY <2>1, <4>1
      <4> QED
        BY <1>2, <4>1, <4>2
    <3>2. 2 * k + 1 \in 1 .. 2 * n /\ b = (x - 8) + 8 * (2 * n - (2 * k + 1))
      BY <2>1
    <3> QED
      BY <1>1, <3>1, <3>2
  <2>3. CASE x < 8
    <3>1. x \in data[offset + (2 * k + 2)]
      BY <1>2, <2>1, <2>3
    <3>2. 2 * k + 2 \in 1 .. 2 * n /\ b = x + 8 * (2 * n - (2 * k + 2))
      BY <2>1
    <3> QED
      BY <1>1, <3>1, <3>2
  <2> QED
    BY <2>2, <2>3
<1> QED
  BY <1>3, <1>4

\* The _R types take the registers in the opposite order.
LEMMA WordsSwapped ==
    ASSUME NEW n \in Nat, NEW words \in [0 .. n - 1 -> Word]
    PROVE  SwapWords(HighFirst(words, n), n) = LowFirst(words, n)
<1>0. \A b : b \in HighFirst(words, n) <=> HighBit(b, words, n)
  BY MovedBits
<1>9. \A b : b \in LowFirst(words, n) <=> LowBit(b, words, n)
  BY MovedBits
<1>1. PICK value : value = HighFirst(words, n)
  OBVIOUS
<1>2. ASSUME NEW k \in 0 .. n - 1 PROVE WordAt(value, k) = words[n - 1 - k]
  <2>1. ASSUME NEW x PROVE x \in WordAt(value, k) <=> x \in 0 .. 15 /\ x + 16 * k \in value
    <3>1. ASSUME NEW b \in value PROVE b \in Int
      <4>10. PICK l \in 0 .. n - 1 : \E y \in 0 .. 15 : y \in words[l] /\ b = y + 16 * (n - 1 - l)
        BY <1>1, <1>0 DEF HighBit
      <4>1. PICK y \in 0 .. 15 : y \in words[l] /\ b = y + 16 * (n - 1 - l)
        BY <4>10
      <4> QED
        BY <4>1
    <3>2. x \in WordAt(value, k) <=>
             x \in 0 .. 15 /\ \E b \in value : b >= 16 * k /\ x = b - 16 * k
      BY Zenon DEF WordAt, ShiftRight
    <3>3. ASSUME x \in 0 .. 15, x + 16 * k \in value
          PROVE  \E b \in value : b >= 16 * k /\ x = b - 16 * k
      BY <3>3
    <3>4. ASSUME NEW b \in value, b >= 16 * k, x = b - 16 * k PROVE x + 16 * k \in value
      <4>1. x + 16 * k = b
        BY <3>1, <3>4
      <4> QED
        BY <4>1
    <3> QED
      BY <3>2, <3>3, <3>4
  <2>2. n - 1 - k \in 0 .. n - 1
    OBVIOUS
  <2>3. ASSUME NEW x \in 0 .. 15 PROVE x + 16 * k \in value <=> x \in words[n - 1 - k]
    <3>1. ASSUME x + 16 * k \in value PROVE x \in words[n - 1 - k]
      <4>10. PICK l \in 0 .. n - 1 : \E y \in 0 .. 15 : y \in words[l] /\ x + 16 * k = y + 16 * (n - 1 - l)
        BY <1>1, <3>1, <1>0 DEF HighBit
      <4>1. PICK y \in 0 .. 15 : y \in words[l] /\ x + 16 * k = y + 16 * (n - 1 - l)
        BY <4>10
      <4>2. l = n - 1 - k /\ x = y
        BY <4>1
      <4> QED
        BY <4>1, <4>2
    <3>2. ASSUME x \in words[n - 1 - k] PROVE x + 16 * k \in value
      <4>1. x + 16 * k = x + 16 * (n - 1 - (n - 1 - k))
        OBVIOUS
      <4> QED
        BY <1>1, <2>2, <3>2, <4>1, <1>0 DEF HighBit
    <3> QED
      BY <3>1, <3>2
  <2>4. \A x \in words[n - 1 - k] : x \in 0 .. 15
    BY <2>2 DEF Word
  <2> QED
    BY <2>1, <2>3, <2>4
<1>3. ASSUME NEW b
      PROVE  b \in SwapWords(value, n) <=>
                \E k \in 0 .. n - 1 : \E x \in WordAt(value, k) : b = x + 16 * (n - 1 - k)
  <2>1. b \in SwapWords(value, n) <=>
           \E k \in 0 .. n - 1 : b \in ShiftLeft(WordAt(value, k), 16 * (n - 1 - k))
    BY DEF SwapWords
  <2> QED
    BY <2>1, Shifted
<1>4. \A k \in 0 .. n - 1 : \A x \in WordAt(value, k) : x \in 0 .. 15
  BY DEF WordAt
<1>5. ASSUME NEW b, b \in SwapWords(value, n) PROVE b \in LowFirst(words, n)
  <2>1. PICK k \in 0 .. n - 1 : \E x \in WordAt(value, k) : b = x + 16 * (n - 1 - k)
    BY <1>3, <1>5
  <2>2. n - 1 - k \in 0 .. n - 1
    OBVIOUS
  <2> QED
    BY <1>2, <1>4, <2>1, <2>2, <1>9 DEF LowBit
<1>6. ASSUME NEW b, b \in LowFirst(words, n) PROVE b \in SwapWords(value, n)
  <2>10. PICK k \in 0 .. n - 1 : \E x \in 0 .. 15 : x \in words[k] /\ b = x + 16 * k
    BY <1>6, <1>9 DEF LowBit
  <2>1. PICK x \in 0 .. 15 : x \in words[k] /\ b = x + 16 * k
    BY <2>10
  <2>2. n - 1 - k \in 0 .. n - 1 /\ n - 1 - (n - 1 - k) = k
    OBVIOUS
  <2>3. WordAt(value, n - 1 - k) = words[k]
    BY <1>2, <2>2
  <2>4. b = x + 16 * (n - 1 - (n - 1 - k))
    BY <2>1, <2>2
  <2> QED
    BY <1>3, <2>1, <2>2, <2>3, <2>4
<1>7. SwapWords(value, n) = LowFirst(words, n)
  BY <1>5, <1>6
<1> QED
  BY <1>1, <1>7

-----------------------------------------------------------------------------
(* Masks and signs.                                                        *)

\* payload_to_number() behind the change of the order, and what is meant by it
Decoded(value, type, mask) ==
    LET number == IF type \in SignedTypes THEN SignExtend(value, Width(type)) ELSE value
        masked == MaskAndShift(number \cap (0 .. 31), mask, Width(type))
    IN  IF type \in QWordTypes THEN value
        ELSE IF type \in SignedTypes THEN SignExtend(masked, Width(type)) ELSE masked
Meant(value, type, mask) ==
    IF mask = 0 .. 31 \/ type \in QWordTypes
    THEN IF type \in SignedTypes THEN SignExtend(value, Width(type)) ELSE value
    ELSE ShiftRight(value \cap mask, Min(mask))

\* The width of the values of a type.
LEMMA WidthOfType ==
    ASSUME NEW type \in ValueTypes
    PROVE  IF type \in QWordTypes THEN Width(type) = 64 ELSE Width(type) \in {16, 32}
<1>1. type \in QWordTypes => RegisterCount(type) = 4
  BY DEF RegisterCount, WordTypes, DWordTypes, QWordTypes
<1>2. type \notin QWordTypes => RegisterCount(type) \in {1, 2}
  BY DEF RegisterCount, ValueTypes
<1> QED
  BY <1>1, <1>2 DEF Width

\* The lowest bit of the mask within the value is the lowest of all.
LEMMA LowestOfMask ==
    ASSUME NEW mask \in SUBSET (0 .. 31), NEW width \in Nat, mask \cap (0 .. width - 1) # {}
    PROVE  /\ Min(mask) \in mask /\ Min(mask) \in 0 .. width - 1
           /\ (CHOOSE b \in mask \cap (0 .. width - 1) :
                  \A c \in mask \cap (0 .. width - 1) : b <= c) = Min(mask)
           /\ \A c \in mask : Min(mask) <= c
<1>1. PICK within : within = mask \cap (0 .. width - 1)
  OBVIOUS
<1>2. PICK l \in within : \A c \in within : l <= c
  <2>1. within \in SUBSET Nat /\ within # {}
    BY <1>1
  <2> QED
    BY <2>1, Least
<1>3. l \in mask /\ l \in 0 .. width - 1 /\ \A c \in mask : l <= c
  <2>1. ASSUME NEW c \in mask PROVE l <= c
    <3>1. c \in Int
      OBVIOUS
    <3> QED
      BY <1>1, <1>2, <3>1
  <2> QED
    BY <1>1, <2>1
<1>4. Min(mask) = l
  <2>1. \A x \in mask : (\A y \in mask : x <= y) => x = l
    BY <1>3
  <2> QED
    BY <1>3, <2>1 DEF Min
<1>5. (CHOOSE b \in within : \A c \in within : b <= c) = l
  <2>1. \A x \in within : (\A y \in within : x <= y) => x = l
    BY <1>1, <1>2
  <2> QED
    BY <1>2, <2>1
<1> QED
  BY <1>1, <1>3, <1>4, <1>5

\* The bits of a word that is shifted right.
LEMMA BitsMovedDown ==
    ASSUME NEW bits \in SUBSET Int, NEW m \in Int, NEW x \in Int
    PROVE  x \in ShiftRight(bits, m) <=> x >= 0 /\ x + m \in bits
<1>1. x \in ShiftRight(bits, m) <=> \E b \in bits : b >= m /\ x = b - m
  BY DEF ShiftRight
<1>2. ASSUME x >= 0, x + m \in bits PROVE \E b \in bits : b >= m /\ x = b - m
  BY <1>2
<1>3. ASSUME NEW b \in bits, b >= m, x = b - m PROVE x >= 0 /\ x + m \in bits
  <2>1. x + m = b
    BY <1>3
  <2> QED
    BY <1>3, <2>1
<1> QED
  BY <1>1, <1>2, <1>3

\* Extending the sign before and after the mask makes no difference to a mask
\* that lies in the value and does not hold both of its ends.
LEMMA MaskIsMeant ==
    ASSUME NEW type \in ValueTypes, NEW value \in SUBSET (0 .. Width(type) - 1),
           NEW mask \in SUBSET (0 .. 31),
           type \in SignedTypes /\ mask # 0 .. 31 =>
              /\ mask \cap (0 .. Width(type) - 1) \in {{}, mask}
              /\ ~({0, Width(type) - 1} \subseteq mask \cap (0 .. Width(type) - 1))
    PROVE  Decoded(value, type, mask) = Meant(value, type, mask)
<1>1. CASE type \in QWordTypes
  <2>1. SignExtend(value, Width(type)) = value
    <3>1. 64 .. 63 = {}
      OBVIOUS
    <3>2. SignExtend(value, 64) = value
      BY <3>1 DEF SignExtend
    <3> QED
      BY <1>1, <3>2, WidthOfType
  <2> QED
    BY <1>1, <2>1, Zenon DEF Decoded, Meant
<1>2. CASE type \notin QWordTypes
  <2>1. PICK width \in {16, 32} : width = Width(type)
    BY <1>2, WidthOfType
  <2>2. PICK data : data = (IF type \in SignedTypes THEN SignExtend(value, width) ELSE value) \cap (0 .. 31)
    OBVIOUS
  <2>3. PICK masked : masked = MaskAndShift(data, mask, width)
    OBVIOUS
  <2>4. Decoded(value, type, mask) =
            IF type \in SignedTypes THEN SignExtend(masked, width) ELSE masked
    BY <1>2, <2>1, <2>2, <2>3, Zenon DEF Decoded
  <2>5. value \in SUBSET (0 .. width - 1)
    BY <2>1
  <2>6. /\ data \in SUBSET (0 .. 31)
        /\ \A b \in 0 .. width - 1 : b \in data <=> b \in value
        /\ type \notin SignedTypes => data = value
    <3>1. ASSUME NEW b \in 0 .. width - 1 PROVE b \in SignExtend(value, width) <=> b \in value
      BY DEF SignExtend
    <3>2. \A b \in 0 .. width - 1 : b \in 0 .. 31
      OBVIOUS
    <3>3. value \cap (0 .. 31) = value
      BY <2>5, <3>2
    <3>4. CASE type \in SignedTypes
      <4>1. data = SignExtend(value, width) \cap (0 .. 31)
        BY <2>2, <3>4
      <4> QED
        BY <3>1, <3>2, <3>4, <4>1
    <3>5. CASE type \notin SignedTypes
      <4>1. data = value
        BY <2>2, <3>3, <3>5
      <4> QED
        BY <2>5, <3>2, <4>1
    <3> QED
      BY <3>4, <3>5
  <2>7. data \cap (0 .. width - 1) = value
    BY <2>5, <2>6
  <2>8. CASE mask = 0 .. 31
    <3>1. masked = value
      BY <2>3, <2>7, <2>8 DEF MaskAndShift
    <3> QED
      BY <2>1, <2>4, <2>8, <3>1 DEF Meant
  <2>9. CASE mask # 0 .. 31
    <3>1. Meant(value, type, mask) = ShiftRight(value \cap mask, Min(mask))
      BY <1>2, <2>9 DEF Meant
    <3>2. PICK within : within = mask \cap (0 .. width - 1)
      OBVIOUS
    <3>3. CASE within = {}
      <4>1. masked = {}
        BY <2>3, <2>9, <3>2, <3>3 DEF MaskAndShift
      <4>2. value \cap mask = {}
        BY <2>5, <3>2, <3>3
      <4>3. ShiftRight(value \cap mask, Min(mask)) = {}
        BY <4>2 DEF ShiftRight
      <4>4. SignExtend({}, width) = {}
        BY DEF SignExtend
      <4> QED
        BY <2>4, <3>1, <4>1, <4>3, <4>4
    <3>4. CASE within # {}
      <4>1. PICK l : l = Min(mask)
        OBVIOUS
      <4>2. /\ l \in mask /\ l \in 0 .. width - 1 /\ \A c \in mask : l <= c
            /\ (CHOOSE b \in within : \A c \in within : b <= c) = l
        BY <3>2, <3>4, <4>1, LowestOfMask
      <4>3. masked = ShiftRight(data \cap mask, l) \cap (0 .. width - 1)
        BY <2>3, <2>9, <3>2, <3>4, <4>2, Zenon DEF MaskAndShift
      <4>4. type \in SignedTypes => within = mask /\ ~(0 \in mask /\ width - 1 \in mask)
        BY <2>1, <2>9, <3>2, <3>4
      <4>5. data \cap mask = value \cap mask
        BY <2>5, <2>6, <3>2, <4>4
      <4>6. PICK bits : bits = value \cap mask
        OBVIOUS
      <4>7. \A b : b \in bits => b \in 0 .. width - 1
        BY <2>5, <4>6
      <4>8. masked = ShiftRight(bits, l)
        <5>1. ASSUME NEW x \in ShiftRight(bits, l) PROVE x \in 0 .. width - 1
          BY <4>2, <4>7 DEF ShiftRight
        <5> QED
          BY <4>3, <4>5, <4>6, <5>1
      <4>9. type \in SignedTypes => width - 1 \notin masked
        <5>1. bits \in SUBSET Int /\ l \in Int /\ width - 1 \in Int
          BY <4>2, <4>7
        <5>2. ASSUME width - 1 \in masked, type \in SignedTypes PROVE FALSE
          <6>1. (width - 1) + l \in bits
            BY <4>8, <5>1, <5>2, BitsMovedDown
          <6>2. l = 0 /\ width - 1 \in mask
            <7>1. l <= 0
              BY <4>2, <4>7, <6>1
            <7>2. l = 0
              BY <4>2, <7>1
            <7> QED
              BY <4>6, <6>1, <7>2
          <6> QED
            BY <4>2, <4>4, <5>2, <6>2
        <5> QED
          BY <5>2
      <4>10. Decoded(value, type, mask) = masked
        BY <2>4, <4>9 DEF SignExtend
      <4> QED
        BY <3>1, <4>1, <4>6, <4>8, <4>10
    <3> QED
      BY <3>3, <3>4
  <2> QED
    BY <2>8, <2>9
<1> QED
  BY <1>1, <1>2

-----------------------------------------------------------------------------
(* What an entity shows of the answer to a poll.                           *)

\* the registers of the entity itself
Registers(e, n) == [k \in 0 .. n - 1 |-> memory[e.register_type][EntityAddress(e) + k]]

\* The bytes of the own registers are at the offset.
LEMMA OwnInAnswer ==
    ASSUME NEW e, e.range \in Nat, Cells(e) \in [1 .. e.range -> Word], e.start \in Nat,
           NEW j \in Nat, NEW n \in Nat, j + n <= e.range,
           e.start + j = EntityAddress(e), e.offset = 2 * j
    PROVE  /\ Registers(e, n) \in [0 .. n - 1 -> Word]
           /\ GetData(WordsAsBytes(Cells(e)), e.offset, 2 * n) = HighFirst(Registers(e, n), n)
           /\ Len(WordsAsBytes(Cells(e))) = 2 * e.range
<1>0. PICK range, cells : /\ range = e.range /\ range \in Nat
                          /\ cells = Cells(e) /\ cells \in [1 .. range -> Word]
  OBVIOUS
<1>1. ASSUME NEW k \in 0 .. n - 1
      PROVE  /\ j + k + 1 \in 1 .. range
             /\ memory[e.register_type][EntityAddress(e) + k] = cells[j + k + 1]
  <2>1. j + k + 1 \in 1 .. range
    BY <1>0
  <2>2. cells[j + k + 1] = memory[e.register_type][e.start + (j + k + 1) - 1]
    BY <1>0, <2>1 DEF Cells
  <2>3. e.start + (j + k + 1) - 1 = EntityAddress(e) + k
    OBVIOUS
  <2> QED
    BY <2>1, <2>2, <2>3
<1>2. PICK words : words = Registers(e, n)
  OBVIOUS
<1>3. words \in [0 .. n - 1 -> Word] /\ \A k \in 0 .. n - 1 : words[k] = cells[j + k + 1]
  BY <1>0, <1>1, <1>2 DEF Registers
<1>4. PICK data : data = WordsAsBytes(cells)
  OBVIOUS
<1>5. ASSUME NEW k \in 0 .. n - 1
      PROVE  /\ data[e.offset + (2 * k + 1)] = TwoBytes(words[k])[1]
             /\ data[e.offset + (2 * k + 2)] = TwoBytes(words[k])[2]
  <2>1. PICK i \in 1 .. range : i = j + k + 1
    BY <1>1
  <2>2. data[2 * i - 1] = TwoBytes(cells[i])[1] /\ data[2 * i] = TwoBytes(cells[i])[2]
    BY <1>0, <1>4, BytesOfTheWord
  <2>3. e.offset + (2 * k + 1) = 2 * i - 1 /\ e.offset + (2 * k + 2) = 2 * i
    BY <2>1
  <2>4. words[k] = cells[i]
    BY <1>3, <2>1
  <2> QED
    BY <2>2, <2>3, <2>4
<1>6. GetData(data, e.offset, 2 * n) = HighFirst(words, n)
  <2>1. e.offset \in Nat
    OBVIOUS
  <2> QED
    BY <1>3, <1>5, <2>1, DataOfWords
<1>7. Len(data) = 2 * range
  BY <1>0, <1>4, BytesOfWords DEF Bytes
<1> QED
  BY <1>0, <1>2, <1>3, <1>4, <1>6, <1>7

\* the registers of a numeric entity as one value
ValueOf(e) ==
    LET n == RegisterCount(e.value_type)
    IN  IF e.value_type \in LowWordFirst THEN LowFirst(Registers(e, n), n)
        ELSE HighFirst(Registers(e, n), n)

\* The value of an entity has the bits of its type, and is what it means.
LEMMA ValueOfType ==
    ASSUME NEW e, e.value_type \in ValueTypes,
           Registers(e, RegisterCount(e.value_type))
               \in [0 .. RegisterCount(e.value_type) - 1 -> Word]
    PROVE  /\ ValueOf(e) \in SUBSET (0 .. Width(e.value_type) - 1)
           /\ RawBits(e) = ValueOf(e)
<1>1. PICK n \in {1, 2, 4} : n = RegisterCount(e.value_type)
  BY CountOfRegisters
<1>2. PICK words \in [0 .. n - 1 -> Word] : words = Registers(e, n)
  BY <1>1
<1>3. PICK width : width = Width(e.value_type) /\ width = 16 * n
  BY <1>1 DEF Width
<1>4. n \in Nat
  BY <1>1
<1>5. ASSUME NEW b, b \in ValueOf(e) PROVE b \in 0 .. width - 1
  <2>1. HighBit(b, words, n) \/ LowBit(b, words, n)
    BY <1>1, <1>2, <1>4, <1>5, MovedBits DEF ValueOf
  <2>2. CASE HighBit(b, words, n)
    <3>1. PICK k \in 0 .. n - 1 : \E x \in 0 .. 15 : b = x + 16 * (n - 1 - k)
      BY <2>2 DEF HighBit
    <3>2. PICK x \in 0 .. 15 : b = x + 16 * (n - 1 - k)
      BY <3>1
    <3> QED
      BY <1>3, <1>4, <3>2
  <2>3. CASE LowBit(b, words, n)
    BY <1>1, <1>3, <2>3 DEF LowBit
  <2> QED
    BY <2>1, <2>2, <2>3
<1>6. RawBits(e) = ValueOf(e)
  <2>1. \A k \in 0 .. n - 1 : memory[e.register_type][EntityAddress(e) + k] = words[k]
    BY <1>2 DEF Registers
  <2>2. CASE e.value_type \in LowWordFirst
    <3>1. RawBits(e) = UNION {ShiftLeft(memory[e.register_type][EntityAddress(e) + k], 16 * k)
                                  : k \in 0 .. n - 1}
      BY <1>1, <2>2, Zenon DEF RawBits
    <3>2. ValueOf(e) = UNION {ShiftLeft(words[k], 16 * k) : k \in 0 .. n - 1}
      BY <1>1, <1>2, <2>2, Zenon DEF ValueOf, LowFirst
    <3> QED
      BY <2>1, <3>1, <3>2
  <2>3. CASE e.value_type \notin LowWordFirst
    <3>1. RawBits(e) = UNION {ShiftLeft(memory[e.register_type][EntityAddress(e) + k], 16 * (n - 1 - k))
                                  : k \in 0 .. n - 1}
      BY <1>1, <2>3, Zenon DEF RawBits
    <3>2. ValueOf(e) = UNION {ShiftLeft(words[k], 16 * (n - 1 - k)) : k \in 0 .. n - 1}
      BY <1>1, <1>2, <2>3, Zenon DEF ValueOf, HighFirst
    <3> QED
      BY <2>1, <3>1, <3>2
  <2> QED
    BY <2>2, <2>3
<1> QED
  BY <1>3, <1>5, <1>6

\* What a number or sensor shows of the answer is what its registers mean.
LEMMA NumberIsShown ==
    ASSUME ReadsFit, Kept, NEW e, e = entity, IsNumeric(e),
           NEW bytes, bytes = Transmitted(Frame(CreateReadCommand(e))), Served(bytes)
    PROVE  NumericState(e, Answered(bytes)) = Meaning(e)
<1>1. PICK c \in Configurations : e = Entity(c)
  BY DEF Kept, Entities
<1>2. /\ e.kind = c.kind /\ e.value_type = c.value_type /\ e.mask = c.mask
      /\ (HasBits(e) <=> HasBits(c)) /\ IsNumeric(c)
  BY <1>1, EntityTypes DEF IsNumeric
<1>3. ~HasBits(c) /\ ~IsText(c) /\ c.value_type \in ValueTypes /\ c.mask \in SUBSET (0 .. 31)
  BY <1>2, ConfigurationAssumption DEF IsText, IsNumeric, Configuration
<1>4. PICK range, cells, n, j, type : /\ range = e.range /\ cells = Cells(e) /\ n = Cover(e)
                                      /\ j = Place(e) /\ type = e.value_type
  OBVIOUS
<1>5. range \in Nat /\ cells \in [1 .. range -> Word] /\ Answered(bytes) = WordsAsBytes(cells)
  BY <1>2, <1>3, <1>4, AnswerIs
<1>6. /\ j \in Nat /\ n \in {1, 2, 4} /\ e.start + j = EntityAddress(e) /\ j + n <= range
      /\ e.offset = 2 * j
  BY <1>1, <1>2, <1>3, <1>4, PlaceIsOwn
<1>7. n = RegisterCount(type)
  BY <1>4 DEF Cover
<1>8. e.start \in Nat
  BY RangeAssumption, Widths DEF Kept
<1>9. /\ Registers(e, n) \in [0 .. n - 1 -> Word]
      /\ GetData(WordsAsBytes(cells), e.offset, 2 * n) = HighFirst(Registers(e, n), n)
      /\ Len(WordsAsBytes(cells)) = 2 * range
  <2>1. /\ n \in Nat /\ e.range \in Nat /\ Cells(e) \in [1 .. e.range -> Word]
        /\ j + n <= e.range
    BY <1>4, <1>5, <1>6
  <2>2. /\ Registers(e, n) \in [0 .. n - 1 -> Word]
        /\ GetData(WordsAsBytes(Cells(e)), e.offset, 2 * n) = HighFirst(Registers(e, n), n)
        /\ Len(WordsAsBytes(Cells(e))) = 2 * e.range
    BY <1>6, <1>8, <2>1, OwnInAnswer
  <2> QED
    BY <1>4, <2>2
<1>10. PICK value : value = ValueOf(e)
  OBVIOUS
<1>11. value \in SUBSET (0 .. Width(type) - 1) /\ RawBits(e) = value
  BY <1>2, <1>3, <1>4, <1>7, <1>9, <1>10, ValueOfType
<1>12. NumericState(e, Answered(bytes)) = Decoded(value, type, e.mask)
  <2>1. PICK data : data = WordsAsBytes(cells)
    OBVIOUS
  <2>2. ~(Len(data) - e.offset < 2 * n)
    BY <1>5, <1>6, <1>9, <2>1
  <2>3. SwapWords(HighFirst(Registers(e, n), n), n) = LowFirst(Registers(e, n), n)
    BY <1>6, <1>9, WordsSwapped
  <2>4. value = IF type \in LowWordFirst THEN SwapWords(GetData(data, e.offset, 2 * n), n)
                ELSE GetData(data, e.offset, 2 * n)
    BY <1>4, <1>7, <1>9, <1>10, <2>1, <2>3 DEF ValueOf
  <2>5. PayloadToNumber(data, type, e.offset, e.mask) = Decoded(value, type, e.mask)
    BY <1>7, <2>2, <2>4, Zenon DEF PayloadToNumber, Decoded
  <2> QED
    BY <1>4, <1>5, <2>1, <2>5 DEF NumericState
<1>13. Decoded(value, type, e.mask) = Meant(value, type, e.mask)
  <2>1. type \in SignedTypes /\ e.mask # 0 .. 31 =>
           /\ e.mask \cap (0 .. Width(type) - 1) \in {{}, e.mask}
           /\ ~({0, Width(type) - 1} \subseteq e.mask \cap (0 .. Width(type) - 1))
    BY <1>2, <1>3, <1>4 DEF ReadsFit
  <2> QED
    BY <1>2, <1>3, <1>4, <1>11, <2>1, MaskIsMeant
<1>14. Meaning(e) = Meant(value, type, e.mask)
  BY <1>2, <1>3, <1>4, <1>11, Zenon DEF Meaning, Meant, IsText, IsNumeric
<1> QED
  BY <1>12, <1>13, <1>14

\* What a switch or binary sensor shows of the answer is what its register or
\* coil means.
LEMMA BinaryIsShown ==
    ASSUME ReadsFit, Kept, NEW e, e = entity, ~IsNumeric(e), ~IsText(e),
           NEW bytes, bytes = Transmitted(Frame(CreateReadCommand(e))), Served(bytes)
    PROVE  BinaryState(e, Answered(bytes)) = Meaning(e)
<1>1. PICK c \in Configurations : e = Entity(c)
  BY DEF Kept, Entities
<1>2. /\ e.kind = c.kind /\ e.register_type = c.register_type
      /\ (HasBits(e) <=> HasBits(c)) /\ ~IsText(c) /\ ~IsNumeric(c)
  BY <1>1, EntityTypes DEF IsNumeric, IsText
<1>3. PICK range, cells, j : range = e.range /\ cells = Cells(e) /\ j = Place(e)
  OBVIOUS
<1>4. /\ range \in Nat /\ cells \in [1 .. range -> Word]
      /\ Answered(bytes) = IF HasBits(e) THEN CoilsAsBytes([i \in 1 .. range |-> cells[i] # {}])
                           ELSE WordsAsBytes(cells)
  BY <1>3, AnswerIs
<1>5. /\ j \in Nat /\ e.start + j = EntityAddress(e) /\ j + 1 <= range
      /\ ~HasBits(e) => e.offset = 2 * j
  BY <1>1, <1>2, <1>3, PlaceIsOwn DEF Cover
<1>6. e.start \in Nat
  BY RangeAssumption, Widths DEF Kept
<1>7. CASE HasBits(e)
  <2>1. PICK states : states = [i \in 1 .. range |-> cells[i] # {}]
    OBVIOUS
  <2>2. states \in [1 .. range -> BOOLEAN] /\ j < range
    BY <1>5, <1>4, <2>1
  <2>3. CoilFromVector(j, CoilsAsBytes(states)) = states[j + 1]
    BY <1>4, <1>5, <2>2, CoilIsRead
  <2>4. j + 1 \in 1 .. range /\ e.start + (j + 1) - 1 = EntityAddress(e)
    BY <1>4, <1>5, <1>6
  <2>5. states[j + 1] = (memory[e.register_type][EntityAddress(e)] # {})
    BY <1>3, <2>1, <2>4 DEF Cells
  <2>6. e.offset = j
    BY <1>3, <1>7 DEF Place
  <2>7. Meaning(e) = (memory[e.register_type][EntityAddress(e)] # {})
    BY <1>7 DEF Meaning
  <2>8. BinaryState(e, Answered(bytes)) = CoilFromVector(j, CoilsAsBytes(states))
    BY <1>4, <1>7, <2>1, <2>6 DEF BinaryState
  <2> QED
    BY <2>3, <2>5, <2>7, <2>8
<1>8. CASE ~HasBits(e)
  <2>1. /\ Registers(e, 1) \in [0 .. 1 - 1 -> Word]
        /\ GetData(WordsAsBytes(cells), e.offset, 2 * 1) = HighFirst(Registers(e, 1), 1)
    <3>1. /\ 1 \in Nat /\ e.offset = 2 * j /\ e.range \in Nat
          /\ Cells(e) \in [1 .. e.range -> Word] /\ j + 1 <= e.range
      BY <1>3, <1>4, <1>5, <1>8
    <3>2. /\ Registers(e, 1) \in [0 .. 1 - 1 -> Word]
          /\ GetData(WordsAsBytes(Cells(e)), e.offset, 2 * 1) = HighFirst(Registers(e, 1), 1)
      BY <1>5, <1>6, <3>1, OwnInAnswer
    <3> QED
      BY <1>3, <3>2
  <2>2. PICK word \in Word : word = memory[e.register_type][EntityAddress(e)]
    <3>1. Registers(e, 1)[0] \in Word /\ EntityAddress(e) + 0 = EntityAddress(e)
      BY <1>5, <1>6, <2>1
    <3>2. Registers(e, 1)[0] = memory[e.register_type][EntityAddress(e) + 0]
      BY DEF Registers
    <3> QED
      BY <3>1, <3>2
  <2>3. HighFirst(Registers(e, 1), 1) = word
    <3>1. 0 .. 1 - 1 = {0} /\ 16 * (1 - 1 - 0) = 0 /\ EntityAddress(e) + 0 = EntityAddress(e)
      BY <1>5, <1>6
    <3>2. Registers(e, 1)[0] = word
      BY <2>2, <3>1 DEF Registers
    <3>3. HighFirst(Registers(e, 1), 1) = ShiftLeft(Registers(e, 1)[0], 16 * (1 - 1 - 0))
      BY <3>1, Zenon DEF HighFirst
    <3>4. ShiftLeft(word, 0) = word
      <4>1. \A b \in word : b + 0 = b
        BY DEF Word
      <4> QED
        BY <4>1 DEF ShiftLeft
    <3> QED
      BY <3>1, <3>2, <3>3, <3>4
  <2>4. GetData(WordsAsBytes(cells), e.offset, 2) = word
    BY <2>1, <2>3
  <2>5. BinaryState(e, Answered(bytes)) = (word \cap e.mask # {})
    BY <1>4, <1>8, <2>4 DEF BinaryState, MaskedState
  <2>6. Meaning(e) = (word \cap e.mask # {})
    BY <1>8, <2>2 DEF Meaning
  <2> QED
    BY <2>5, <2>6
<1> QED
  BY <1>7, <1>8

-----------------------------------------------------------------------------
(* What a text sensor shows of the answer to a poll.                       *)

\* the bytes that a text is composed of, and what each of them adds
Behind(e, data) == SubSeq(data, e.offset + 1, Min({Len(data), e.offset + e.response_size}))
Pieces(bytes, encode) == [k \in 1 .. Len(bytes) |-> Encoded(bytes[k], encode, k = 1)]

\* the fold of TextState, as the community modules define it
Folding(g, bytes, encode, T) ==
    g = [s \in SUBSET T |->
            IF s = {} THEN <<>>
            ELSE g[s \ {Max(s)}] \o Encoded(bytes[[i \in DOMAIN bytes |-> i][Max(s)]], encode,
                                            [i \in DOMAIN bytes |-> i][Max(s)] = 1)]

\* A text is the join of what its bytes add.
LEMMA TextIsJoin ==
    ASSUME NEW e, NEW data, Behind(e, data) \in Seq(Byte)
    PROVE  TextState(e, data) =
               JoinOver(Pieces(Behind(e, data), e.encode), 1 .. Len(Behind(e, data)))
<1>1. PICK bytes, n : bytes = Behind(e, data) /\ n = Len(bytes)
  OBVIOUS
<1>2. bytes \in Seq(Byte) /\ n \in Nat /\ DOMAIN bytes = 1 .. n
  BY <1>1
<1>3. PICK encode : encode = e.encode
  OBVIOUS
<1>4. TextState(e, data) =
          (CHOOSE g : Folding(g, bytes, encode, DOMAIN [i \in DOMAIN bytes |-> i]))
              [DOMAIN [i \in DOMAIN bytes |-> i]]
  <2>1. TextState(e, data) =
            (CHOOSE g : Folding(g, Behind(e, data), e.encode,
                                DOMAIN [i \in DOMAIN Behind(e, data) |-> i]))
                [DOMAIN [i \in DOMAIN Behind(e, data) |-> i]]
    BY Zenon DEF TextState, Behind, FoldLeftDomain, FoldLeft, MapThenFoldSet, Folding
  <2> QED
    BY <1>1, <1>3, <2>1
<1>5. TextState(e, data) = (CHOOSE g : Folding(g, bytes, encode, 1 .. n))[1 .. n]
  <2>1. DOMAIN [i \in DOMAIN bytes |-> i] = 1 .. n
    BY <1>2
  <2> QED
    BY <1>4, <2>1
<1>6. PICK pieces : pieces = Pieces(bytes, encode)
  OBVIOUS
<1>7. IsFiniteSet(1 .. n) /\ 1 .. n \in SUBSET Nat
  <2>1. 1 \in Int /\ n \in Int
    BY <1>2
  <2> QED
    BY <2>1, FS_Interval
<1>8. ASSUME NEW g PROVE Folding(g, bytes, encode, 1 .. n) <=> Joining(g, pieces, 1 .. n)
  <2>1. ASSUME NEW s \in SUBSET (1 .. n), s # {}
        PROVE  pieces[Max(s)] = Encoded(bytes[[i \in DOMAIN bytes |-> i][Max(s)]], encode,
                                        [i \in DOMAIN bytes |-> i][Max(s)] = 1)
    <3>1. Max(s) \in s
      <4>1. IsFiniteSet(s) /\ s \in SUBSET Nat
        BY <1>7, FS_Subset
      <4> QED
        BY <2>1, <4>1, MaxFacts
    <3>2. PICK m : m = Max(s)
      OBVIOUS
    <3>3. m \in 1 .. n
      BY <3>1, <3>2
    <3>4. [i \in DOMAIN bytes |-> i][m] = m
      BY <1>2, <3>3
    <3>5. pieces[m] = Encoded(bytes[m], encode, m = 1)
      BY <1>1, <1>6, <3>3 DEF Pieces
    <3> QED
      BY <3>2, <3>4, <3>5
  <2>2. [s \in SUBSET (1 .. n) |->
            IF s = {} THEN <<>>
            ELSE g[s \ {Max(s)}] \o Encoded(bytes[[i \in DOMAIN bytes |-> i][Max(s)]], encode,
                                            [i \in DOMAIN bytes |-> i][Max(s)] = 1)]
        = [s \in SUBSET (1 .. n) |->
            IF s = {} THEN <<>> ELSE g[s \ {Max(s)}] \o pieces[Max(s)]]
    <3> DEFINE A(s) == IF s = {} THEN <<>>
                       ELSE g[s \ {Max(s)}] \o Encoded(bytes[[i \in DOMAIN bytes |-> i][Max(s)]], encode,
                                                       [i \in DOMAIN bytes |-> i][Max(s)] = 1)
               B(s) == IF s = {} THEN <<>> ELSE g[s \ {Max(s)}] \o pieces[Max(s)]
    <3>1. \A s \in SUBSET (1 .. n) : A(s) = B(s)
      <4> SUFFICES ASSUME NEW s \in SUBSET (1 .. n) PROVE A(s) = B(s)
        OBVIOUS
      <4>1. CASE s = {}
        BY <4>1
      <4>2. CASE s # {}
        <5> DEFINE byte == Encoded(bytes[[i \in DOMAIN bytes |-> i][Max(s)]], encode,
                                   [i \in DOMAIN bytes |-> i][Max(s)] = 1)
        <5>1. pieces[Max(s)] = byte
          BY <2>1, <4>2
        <5>2. A(s) = g[s \ {Max(s)}] \o byte /\ B(s) = g[s \ {Max(s)}] \o pieces[Max(s)]
          <6> HIDE DEF byte
          <6>1. B(s) = g[s \ {Max(s)}] \o pieces[Max(s)]
            BY <4>2
          <6>2. A(s) = g[s \ {Max(s)}] \o byte
            BY <4>2, Zenon DEF byte
          <6> QED
            BY <6>1, <6>2
        <5> HIDE DEF byte, A, B
        <5> QED
          BY <5>1, <5>2
      <4> QED
        BY <4>1, <4>2
    <3> HIDE DEF A, B
    <3>2. [s \in SUBSET (1 .. n) |-> A(s)] = [s \in SUBSET (1 .. n) |-> B(s)]
      BY <3>1
    <3> QED
      BY <3>2, Zenon DEF A, B
  <2> QED
    BY <2>2, Zenon DEF Folding, Joining
<1>9. PICK g : Joining(g, pieces, 1 .. n)
  BY <1>7, JoinExists
<1>10. PICK k : k = (CHOOSE f : Folding(f, bytes, encode, 1 .. n))
  OBVIOUS
<1>11. Joining(k, pieces, 1 .. n)
  <2>1. Folding(g, bytes, encode, 1 .. n)
    BY <1>8, <1>9
  <2>2. Folding(k, bytes, encode, 1 .. n)
    BY <1>10, <2>1
  <2> QED
    BY <1>8, <2>2
<1>12. PICK l : l = (CHOOSE f : Joining(f, pieces, 1 .. n))
  OBVIOUS
<1>13. Joining(l, pieces, 1 .. n) /\ JoinOver(pieces, 1 .. n) = l[1 .. n]
  <2>1. Joining(l, pieces, 1 .. n)
    BY <1>9, <1>12
  <2> QED
    BY <1>12, <2>1 DEF JoinOver
<1>14. k[1 .. n] = l[1 .. n]
  <2>1. PICK T : T = 1 .. n
    OBVIOUS
  <2>2. T \in SUBSET Nat /\ IsFiniteSet(T) /\ Joining(k, pieces, T) /\ Joining(l, pieces, T)
    BY <1>7, <1>11, <1>13, <2>1
  <2>3. T \subseteq T
    OBVIOUS
  <2>4. k[T] = l[T]
    BY <2>2, <2>3, OneJoin
  <2> QED
    BY <2>1, <2>4
<1> QED
  BY <1>1, <1>3, <1>5, <1>6, <1>10, <1>13, <1>14

\* what texts are composed of
Parts == {"digit", "number", "comma", "character"} \X Byte

\* The digits of a byte.
LEMMA HalvesOfByte ==
    ASSUME NEW byte \in Byte PROVE High(byte) \in Byte /\ Low(byte) \in Byte
<1>1. Low(byte) \in Byte
  BY DEF Low, Byte
<1>2. ASSUME NEW x, x \in High(byte) PROVE x \in 0 .. 7
  <2>1. PICK b \in byte : b >= 4 /\ x = b - 4
    BY <1>2 DEF High, ShiftRight
  <2>2. b \in 0 .. 7
    BY DEF Byte
  <2> QED
    BY <2>1, <2>2
<1> QED
  BY <1>1, <1>2 DEF Byte

\* What a byte adds, one encoding after the other.
LEMMA PieceIs ==
    ASSUME NEW byte \in Byte, NEW encode, NEW first \in BOOLEAN
    PROVE  /\ encode = "HEXBYTES" =>
                  Encoded(byte, encode, first) = <<<<"digit", High(byte)>>, <<"digit", Low(byte)>>>>
           /\ encode = "COMMA" =>
                  Encoded(byte, encode, first) =
                      IF first THEN <<<<"number", byte>>>>
                      ELSE <<<<"comma", {}>>, <<"number", byte>>>>
           /\ encode = "ANSI" =>
                  Encoded(byte, encode, first) =
                      IF Number(byte) < 32 THEN <<>> ELSE <<<<"character", byte>>>>
           /\ encode \notin {"HEXBYTES", "COMMA", "ANSI"} =>
                  Encoded(byte, encode, first) = <<<<"character", byte>>>>
           /\ Encoded(byte, encode, first) \in Seq(Parts)
<1>1. /\ <<"number", byte>> \in Parts /\ <<"comma", {}>> \in Parts /\ <<"character", byte>> \in Parts
      /\ <<"digit", High(byte)>> \in Parts /\ <<"digit", Low(byte)>> \in Parts
  BY HalvesOfByte DEF Parts, Byte
<1>2. CASE encode = "HEXBYTES"
  BY <1>1, <1>2 DEF Encoded
<1>3. CASE encode = "COMMA"
  <2>1. PICK comma, number : comma = <<"comma", {}>> /\ number = <<"number", byte>>
    OBVIOUS
  <2>2. Encoded(byte, encode, first) = (IF first THEN <<>> ELSE <<comma>>) \o <<number>>
    BY <1>3, <2>1 DEF Encoded
  <2>3. <<>> \o <<number>> = <<number>> /\ <<comma>> \o <<number>> = <<comma, number>>
    <3>1. number \in Parts /\ comma \in Parts
      BY <1>1, <2>1
    <3>2. <<>> \o <<number>> = <<number>>
      BY <3>1, ConcatEmptySeq
    <3>3. <<comma>> \o <<number>> = <<comma, number>>
      <4>1. PICK both : both = <<comma>> \o <<number>>
        OBVIOUS
      <4>2. both \in Seq(Parts) /\ Len(both) = 2 /\ both[1] = comma /\ both[2] = number
        BY <3>1, <4>1
      <4>3. both = <<comma, number>>
        BY <4>2
      <4> QED
        BY <4>1, <4>3
    <3> QED
      BY <3>2, <3>3
  <2>4. <<number>> \in Seq(Parts) /\ <<comma, number>> \in Seq(Parts)
    BY <1>1, <2>1
  <2> QED
    BY <1>3, <2>1, <2>2, <2>3, <2>4
<1>4. CASE encode = "ANSI"
  BY <1>1, <1>4 DEF Encoded
<1>5. CASE encode \notin {"HEXBYTES", "COMMA", "ANSI"}
  <2>1. Encoded(byte, encode, first) = <<<<"character", byte>>>>
    BY <1>5 DEF Encoded
  <2> QED
    BY <1>1, <1>5, <2>1
<1> QED
  BY <1>2, <1>3, <1>4, <1>5

\* A text is composed of what there is for texts.
LEMMA TextType ==
    ASSUME NEW e, NEW data, Behind(e, data) \in Seq(Byte)
    PROVE  TextState(e, data) \in Seq(Parts)
<1>1. PICK bytes, n, encode : bytes = Behind(e, data) /\ n = Len(bytes) /\ encode = e.encode
  OBVIOUS
<1>2. bytes \in Seq(Byte) /\ n \in Nat /\ \A k \in 1 .. n : bytes[k] \in Byte
  BY <1>1
<1>3. PICK pieces : pieces = Pieces(bytes, encode)
  OBVIOUS
<1>4. ASSUME NEW k \in 1 .. n PROVE pieces[k] \in Seq(Parts)
  <2>1. pieces[k] = Encoded(bytes[k], encode, k = 1)
    BY <1>1, <1>3 DEF Pieces
  <2>2. bytes[k] \in Byte /\ (k = 1) \in BOOLEAN
    BY <1>2
  <2>3. Encoded(bytes[k], encode, k = 1) \in Seq(Parts)
    BY <2>2, PieceIs
  <2> QED
    BY <2>1, <2>3
<1>5. JoinOver(pieces, 1 .. n) \in Seq(Parts)
  BY <1>2, <1>4, JoinType
<1> QED
  BY <1>1, <1>3, <1>5, TextIsJoin

\* Of the fields of a text sensor.
LEMMA TextMade ==
    ASSUME NEW c \in Configurations, IsText(c)
    PROVE  \E n : Made(Entity(c), c, c.address, c.byte_offset, n)
<1>1. PICK n : n = IF c.register_count > 0 THEN c.register_count ELSE c.response_size \div 2
  OBVIOUS
<1>2. Entity(c) = Placed(SensorItem(c, c.address, c.byte_offset, n), c)
  BY <1>1 DEF Entity, ModbusTCPTextSensor, IsText
<1>3. c \in Configuration
  BY ConfigurationAssumption
<1> QED
  BY <1>2, <1>3, PlacedFields

\* The smaller of two numbers.
LEMMA SmallerOfTwo ==
    ASSUME NEW x \in Int, NEW y \in Int
    PROVE  Min({x, y}) = IF x <= y THEN x ELSE y
<1>1. PICK m \in {x, y} : \A z \in {x, y} : m <= z
  OBVIOUS
<1>2. Min({x, y}) \in {x, y} /\ \A z \in {x, y} : Min({x, y}) <= z
  BY <1>1 DEF Min
<1> QED
  BY <1>2

\* The bytes of a text are within the answer.
LEMMA BehindIs ==
    ASSUME NEW e, NEW data \in Seq(Byte), e.offset \in Nat, e.response_size \in Nat,
           NEW m, m = IF Len(data) <= e.offset + e.response_size THEN Len(data)
                      ELSE e.offset + e.response_size
    PROVE  /\ Behind(e, data) \in Seq(Byte)
           /\ Len(Behind(e, data)) = IF e.offset + 1 <= m THEN m - e.offset ELSE 0
           /\ \A k \in 1 .. m - e.offset : Behind(e, data)[k] = data[e.offset + k]
<1>1. PICK o : o = e.offset
  OBVIOUS
<1>2. Len(data) \in Nat /\ o \in Nat /\ m \in Nat /\ m <= Len(data)
  BY <1>1
<1>3. Behind(e, data) = SubSeq(data, o + 1, m)
  <2>1. Len(data) \in Int /\ e.offset + e.response_size \in Int
    OBVIOUS
  <2>2. Min({Len(data), e.offset + e.response_size}) = m
    BY <2>1, SmallerOfTwo
  <2> QED
    BY <1>1, <2>2 DEF Behind
<1>4. o + 1 \in Int /\ m \in Int /\ \A i \in (o + 1) .. m : data[i] \in Byte
  BY <1>2
<1>5. /\ SubSeq(data, o + 1, m) \in Seq(Byte)
      /\ Len(SubSeq(data, o + 1, m)) = IF o + 1 <= m THEN m - (o + 1) + 1 ELSE 0
      /\ \A i \in 1 .. m - (o + 1) + 1 : SubSeq(data, o + 1, m)[i] = data[(o + 1) + i - 1]
  BY <1>4, SubSeqProperties
<1>6. m - (o + 1) + 1 = m - o /\ \A i \in 1 .. m - o : (o + 1) + i - 1 = o + i
  BY <1>2
<1> QED
  BY <1>1, <1>3, <1>5, <1>6

\* They are those of the own registers, as far as the range goes.
LEMMA OwnBytes ==
    ASSUME ReadsFit, Kept, NEW e, e = entity, IsText(e),
           NEW bytes, bytes = Transmitted(Frame(CreateReadCommand(e))), Served(bytes)
    PROVE  Behind(e, Answered(bytes)) = TextBytes(e) /\ TextBytes(e) \in Seq(Byte)
<1>1. PICK c \in Configurations : e = Entity(c)
  BY DEF Kept, Entities
<1>2. IsText(c) /\ ~HasBits(c) /\ (HasBits(e) <=> HasBits(c)) /\ c.kind # "switch"
  <2>1. e.kind = c.kind /\ (HasBits(e) <=> HasBits(c))
    BY <1>1, EntityTypes
  <2> QED
    BY <2>1, ConfigurationAssumption DEF IsText
<1>3. /\ c.address \in Nat /\ c.byte_offset \in Nat /\ c.before \in Nat /\ c.after \in Nat
      /\ c.response_size \in Nat
  BY ConfigurationAssumption, Widths DEF Configuration
<1>4. PICK address, start, offset, range, first, size, type, before :
          /\ before = c.before /\ address = e.address /\ start = e.start /\ offset = e.offset /\ range = e.range
          /\ first = e.byte_offset /\ size = e.response_size /\ type = e.register_type
  OBVIOUS
<1>5. /\ address \in Nat /\ first \in Nat /\ size \in Nat
      /\ start = address - before /\ offset = first + 2 * before /\ before \in Nat
  <2>1. PICK n : Made(e, c, c.address, c.byte_offset, n)
    BY <1>1, <1>2, TextMade
  <2>2. /\ e.start = c.address - c.before /\ e.offset = PlacedOffset(c, c.byte_offset)
        /\ e.address = c.address /\ e.byte_offset = c.byte_offset
        /\ e.response_size = c.response_size
    BY <2>1 DEF Made
  <2>3. c.byte_offset + 2 * c.before < 256
    BY <1>2 DEF ReadsFit
  <2>4. (c.byte_offset + 2 * c.before) % 256 = c.byte_offset + 2 * c.before
    <3>1. PICK x : x = c.byte_offset + 2 * c.before
      OBVIOUS
    <3>2. x \in Nat /\ x < 256
      BY <1>3, <2>3, <3>1
    <3>3. x % 256 = x
      BY <3>2
    <3> QED
      BY <3>1, <3>3
  <2> QED
    BY <1>2, <1>3, <1>4, <2>2, <2>4 DEF PlacedOffset
<1>6. PICK cells, data : cells = Cells(e) /\ data = WordsAsBytes(cells)
  OBVIOUS
<1>7. range \in Nat /\ cells \in [1 .. range -> Word] /\ Answered(bytes) = data
  BY <1>2, <1>4, <1>6, AnswerIs
<1>8. data \in Seq(Byte) /\ Len(data) = 2 * range
  BY <1>6, <1>7, BytesOfWords DEF Bytes
<1>9. Len(cells) = range
  BY <1>7, SequenceOf
<1>10. PICK m : m = IF 2 * range <= offset + size THEN 2 * range ELSE offset + size
  OBVIOUS
<1>11. m \in Nat /\ offset \in Nat /\ m <= 2 * range /\ 2 * range \in Nat
  <2>1. 2 * range \in Nat /\ offset \in Nat /\ offset + size \in Nat
    BY <1>5, <1>7
  <2> QED
    BY <1>10, <2>1
<1>12. PICK there : there = Behind(e, data)
  OBVIOUS
<1>13. /\ there \in Seq(Byte) /\ Len(there) = IF offset + 1 <= m THEN m - offset ELSE 0
       /\ \A k \in 1 .. m - offset : there[k] = data[offset + k]
  <2>1. /\ data \in Seq(Byte) /\ e.offset \in Nat /\ e.response_size \in Nat
        /\ m = IF Len(data) <= e.offset + e.response_size THEN Len(data)
               ELSE e.offset + e.response_size
    BY <1>4, <1>5, <1>8, <1>10, <1>11
  <2>2. /\ Behind(e, data) \in Seq(Byte)
        /\ Len(Behind(e, data)) = IF e.offset + 1 <= m THEN m - e.offset ELSE 0
        /\ \A k \in 1 .. m - e.offset : Behind(e, data)[k] = data[e.offset + k]
    BY <2>1, BehindIs
  <2> QED
    BY <1>4, <1>12, <2>2
<1> DEFINE byte(k) == TwoBytes(memory[type][address + k \div 2])[(k % 2) + 1]
<1>14. TextBytes(e) = [k \in 1 .. m - offset |-> byte(first + k - 1)]
  <2>1. PICK end : end = Min({e.byte_offset + e.response_size, 2 * (e.start + e.range - e.address)})
    OBVIOUS
  <2>2. TextBytes(e) = [k \in 1 .. end - e.byte_offset |->
                           TwoBytes(memory[e.register_type][e.address + (e.byte_offset + k - 1) \div 2])
                               [((e.byte_offset + k - 1) % 2) + 1]]
    BY <2>1, Zenon DEF TextBytes
  <2>3. end - first = m - offset
    <3>1. first + size \in Int /\ 2 * (start + range - address) \in Int
      BY <1>5, <1>7, <1>11
    <3>2. end = IF first + size <= 2 * (start + range - address) THEN first + size
                ELSE 2 * (start + range - address)
      BY <1>4, <2>1, <3>1, SmallerOfTwo
    <3>3. 2 * (start + range - address) = 2 * range - 2 * before
      BY <1>5, <1>7
    <3>4. offset + size = (first + size) + 2 * before
      BY <1>5
    <3>5. PICK t, r, u : t = 2 * before /\ r = 2 * range /\ u = first + size
      OBVIOUS
    <3>6. t \in Nat /\ r \in Nat /\ u \in Nat /\ end = IF u <= r - t THEN u ELSE r - t
      BY <1>5, <1>11, <3>2, <3>3, <3>5
    <3>7. m = IF r <= u + t THEN r ELSE u + t
      BY <1>10, <3>4, <3>5
    <3>8. m = end + t
      BY <3>6, <3>7
    <3>9. offset = first + t
      BY <1>5, <3>5
    <3> QED
      BY <1>5, <3>6, <3>8, <3>9
  <2> QED
    BY <1>4, <2>2, <2>3
<1>15. ASSUME NEW k \in 1 .. m - offset PROVE there[k] = byte(first + k - 1)
  <2>1. PICK p, q, i : p = offset + k /\ q = first + k - 1 /\ i = (p + 1) \div 2
    OBVIOUS
  <2>2. PICK h : h = q \div 2
    OBVIOUS
  <2>3. q \in Nat /\ h \in Nat /\ p = q + 1 + 2 * before /\ p \in 1 .. 2 * range
    <3>1. k \in Nat /\ k >= 1 /\ k <= m - offset
      BY <1>11
    <3>2. q \in Nat /\ p = q + 1 + 2 * before
      BY <1>5, <2>1, <3>1
    <3>3. p \in 1 .. 2 * range
      BY <1>11, <2>1, <3>1
    <3>4. h \in Nat
      BY <2>2, <3>2
    <3> QED
      BY <3>2, <3>3, <3>4
  <2>4. (q = 2 * h /\ q % 2 = 0) \/ (q = 2 * h + 1 /\ q % 2 = 1)
    <3>1. q \in Nat
      BY <2>3
    <3>2. q = 2 * (q \div 2) + (q % 2) /\ q % 2 \in {0, 1}
      BY <3>1
    <3> QED
      BY <2>2, <3>1, <3>2
  <2>5. /\ i = h + 1 + before /\ i \in 1 .. range
        /\ (q % 2) + 1 = IF p % 2 = 1 THEN 1 ELSE 2
    <3>1. PICK g : g = h + before
      OBVIOUS
    <3>2. /\ g \in Nat /\ i = (p + 1) \div 2 /\ i \in Int
          /\ \/ p = 2 * g + 1 /\ q % 2 = 0
             \/ p = 2 * g + 2 /\ q % 2 = 1
      BY <1>5, <2>1, <2>3, <2>4, <3>1
    <3>3. i = g + 1 /\ (q % 2) + 1 = IF p % 2 = 1 THEN 1 ELSE 2
      BY <3>2
    <3>4. g + 1 <= range
      BY <1>7, <2>3, <3>2
    <3> QED
      BY <1>5, <1>7, <2>3, <3>1, <3>2, <3>3, <3>4
  <2>6. data[p] = TwoBytes(cells[i])[IF p % 2 = 1 THEN 1 ELSE 2]
    <3>1. data = [k_ \in 1 .. 2 * range |->
                     TwoBytes(cells[(k_ + 1) \div 2])[IF k_ % 2 = 1 THEN 1 ELSE 2]]
      BY <1>6, <1>9, Zenon DEF WordsAsBytes
    <3> QED
      BY <2>1, <2>3, <3>1
  <2>7. cells[i] = memory[type][address + h]
    <3>1. cells[i] = memory[e.register_type][e.start + i - 1]
      BY <1>4, <1>6, <2>5 DEF Cells
    <3>2. start + i - 1 = address + h
      BY <1>5, <1>7, <2>3, <2>5
    <3> QED
      BY <1>4, <3>1, <3>2
  <2>8. there[k] = data[p]
    BY <1>13, <2>1
  <2>9. byte(q) = TwoBytes(memory[type][address + h])[(q % 2) + 1]
    BY <2>2
  <2> HIDE DEF byte
  <2> QED
    BY <2>1, <2>5, <2>6, <2>7, <2>8, <2>9
<1> HIDE DEF byte
<1>16. there = [k \in 1 .. m - offset |-> byte(first + k - 1)]
  <2>1. DOMAIN there = 1 .. m - offset
    <3>1. CASE offset + 1 <= m
      BY <1>11, <1>13, <3>1
    <3>2. CASE ~ (offset + 1 <= m)
      BY <1>11, <1>13, <3>2
    <3> QED
      BY <3>1, <3>2
  <2>2. there = [k \in DOMAIN there |-> there[k]]
    BY <1>13
  <2> QED
    BY <1>15, <2>1, <2>2
<1> QED
  BY <1>7, <1>12, <1>13, <1>14, <1>16

\* the two digits of each byte, and the numbers with commas between them
Digits(bytes) ==
    [k \in 1 .. 2 * Len(bytes) |->
        <<"digit", IF k % 2 = 1 THEN High(bytes[(k + 1) \div 2]) ELSE Low(bytes[(k + 1) \div 2])>>]
List(bytes) ==
    [k \in 1 .. 2 * Len(bytes) - 1 |->
        IF k % 2 = 1 THEN <<"number", bytes[(k + 1) \div 2]>> ELSE <<"comma", {}>>]
Characters(bytes) == [k \in 1 .. Len(bytes) |-> <<"character", bytes[k]>>]

\* The text of the encoding HEXBYTES.
LEMMA HexText ==
    ASSUME NEW bytes \in Seq(Byte)
    PROVE  JoinOver(Pieces(bytes, "HEXBYTES"), 1 .. Len(bytes)) = Digits(bytes)
<1>1. PICK n, pieces, whole : /\ n = Len(bytes) /\ pieces = Pieces(bytes, "HEXBYTES")
                              /\ whole = Digits(bytes)
  OBVIOUS
<1>2. n \in Nat /\ \A k \in 1 .. n : bytes[k] \in Byte
  BY <1>1
<1>3. ASSUME NEW k \in 1 .. n
      PROVE  /\ whole[2 * k - 1] = <<"digit", High(bytes[k])>>
             /\ whole[2 * k] = <<"digit", Low(bytes[k])>>
  <2>1. 2 * k - 1 \in 1 .. 2 * n /\ (2 * k - 1) % 2 = 1 /\ ((2 * k - 1) + 1) \div 2 = k
    BY <1>2
  <2>2. 2 * k \in 1 .. 2 * n /\ (2 * k) % 2 = 0 /\ (2 * k + 1) \div 2 = k
    BY <1>2
  <2> QED
    BY <1>1, <2>1, <2>2 DEF Digits
<1>4. /\ whole \in Seq(Parts) /\ Len(whole) = 2 * n
  <2>1. \A k \in 1 .. 2 * n : (k + 1) \div 2 \in 1 .. n
    BY <1>2
  <2>2. \A b \in Byte : <<"digit", High(b)>> \in Parts /\ <<"digit", Low(b)>> \in Parts
    BY HalvesOfByte DEF Parts
  <2>3. \A k \in 1 .. 2 * n :
            <<"digit", IF k % 2 = 1 THEN High(bytes[(k + 1) \div 2])
                       ELSE Low(bytes[(k + 1) \div 2])>> \in Parts
    BY <1>2, <2>1, <2>2
  <2>4. whole \in [1 .. 2 * n -> Parts]
    BY <1>1, <2>3 DEF Digits
  <2>5. 2 * n \in Nat
    BY <1>2
  <2> QED
    BY <2>4, <2>5, SequenceOf
<1>5. PICK length : length = [k \in 0 .. n |-> 2 * k]
  OBVIOUS
<1>6. /\ length \in [0 .. n -> Nat] /\ length[0] = 0 /\ length[n] = Len(whole)
      /\ \A k \in 0 .. n : length[k] <= Len(whole)
  BY <1>2, <1>4, <1>5
<1>7. ASSUME NEW k \in 1 .. n
      PROVE  /\ pieces[k] \in Seq(Parts)
             /\ IsPart(pieces[k], whole, length[k - 1], length[k])
  <2>1. pieces[k] = Encoded(bytes[k], "HEXBYTES", k = 1)
    BY <1>1 DEF Pieces
  <2>2. bytes[k] \in Byte /\ (k = 1) \in BOOLEAN
    BY <1>2
  <2>3. /\ Encoded(bytes[k], "HEXBYTES", k = 1)
              = <<<<"digit", High(bytes[k])>>, <<"digit", Low(bytes[k])>>>>
        /\ Encoded(bytes[k], "HEXBYTES", k = 1) \in Seq(Parts)
    BY <2>2, PieceIs
  <2>4. PICK a, b : a = <<"digit", High(bytes[k])>> /\ b = <<"digit", Low(bytes[k])>>
    OBVIOUS
  <2>5. pieces[k] \in Seq(Parts) /\ pieces[k] = <<a, b>>
    BY <2>1, <2>3, <2>4
  <2>6. length[k] = 2 * k /\ length[k - 1] = 2 * k - 2
    BY <1>2, <1>5
  <2>7. (2 * k - 2) + 1 = 2 * k - 1 /\ (2 * k - 2) + 2 = 2 * k /\ (2 * k) - (2 * k - 2) = 2
    BY <1>2
  <2>8. whole[length[k - 1] + 1] = a /\ whole[length[k - 1] + 2] = b
    BY <1>3, <2>4, <2>6, <2>7
  <2>9. Len(pieces[k]) = 2 /\ pieces[k][1] = a /\ pieces[k][2] = b
    BY <2>5
  <2>10. \A i \in 1 .. 2 : pieces[k][i] = whole[length[k - 1] + i]
    BY <2>8, <2>9
  <2> QED
    BY <2>5, <2>6, <2>7, <2>9, <2>10 DEF IsPart
<1>8. JoinOver(pieces, 1 .. n) = whole
  BY <1>2, <1>4, <1>6, <1>7, JoinOfParts
<1> QED
  BY <1>1, <1>8

\* The text of the encoding NONE.
LEMMA CharacterText ==
    ASSUME NEW bytes \in Seq(Byte), NEW encode, encode \notin {"HEXBYTES", "COMMA", "ANSI"}
    PROVE  JoinOver(Pieces(bytes, encode), 1 .. Len(bytes)) = Characters(bytes)
<1>1. PICK n, pieces, whole : /\ n = Len(bytes) /\ pieces = Pieces(bytes, encode)
                              /\ whole = Characters(bytes)
  OBVIOUS
<1>2. n \in Nat /\ \A k \in 1 .. n : bytes[k] \in Byte
  BY <1>1
<1>3. whole \in Seq(Parts) /\ Len(whole) = n
  <2>1. \A b \in Byte : <<"character", b>> \in Parts
    BY DEF Parts
  <2>2. whole \in [1 .. n -> Parts]
    BY <1>1, <1>2, <2>1 DEF Characters
  <2> QED
    BY <1>2, <2>2, SequenceOf
<1>4. PICK length : length = [k \in 0 .. n |-> k]
  OBVIOUS
<1>5. /\ length \in [0 .. n -> Nat] /\ length[0] = 0 /\ length[n] = Len(whole)
      /\ \A k \in 0 .. n : length[k] <= Len(whole)
  BY <1>2, <1>3, <1>4
<1>6. ASSUME NEW k \in 1 .. n
      PROVE  /\ pieces[k] \in Seq(Parts)
             /\ IsPart(pieces[k], whole, length[k - 1], length[k])
  <2>1. pieces[k] = Encoded(bytes[k], encode, k = 1)
    BY <1>1 DEF Pieces
  <2>2. bytes[k] \in Byte /\ (k = 1) \in BOOLEAN
    BY <1>2
  <2>3. /\ Encoded(bytes[k], encode, k = 1) = <<<<"character", bytes[k]>>>>
        /\ Encoded(bytes[k], encode, k = 1) \in Seq(Parts)
    BY <2>2, PieceIs
  <2>4. PICK a : a = <<"character", bytes[k]>>
    OBVIOUS
  <2>5. pieces[k] \in Seq(Parts) /\ pieces[k] = <<a>>
    BY <2>1, <2>3, <2>4
  <2>6. length[k] = k /\ length[k - 1] = k - 1 /\ k - (k - 1) = 1 /\ (k - 1) + 1 = k
    BY <1>2, <1>4
  <2>7. whole[length[k - 1] + 1] = a
    BY <1>1, <2>4, <2>6 DEF Characters
  <2>8. Len(pieces[k]) = 1 /\ pieces[k][1] = a
    BY <2>5
  <2> QED
    BY <2>5, <2>6, <2>7, <2>8 DEF IsPart
<1>7. JoinOver(pieces, 1 .. n) = whole
  <2>1. /\ whole \in Seq(Parts) /\ n \in Nat /\ length \in [0 .. n -> Nat]
        /\ length[0] = 0 /\ length[n] = Len(whole) /\ \A k \in 0 .. n : length[k] <= Len(whole)
    BY <1>2, <1>3, <1>5
  <2>2. \A k \in 1 .. n : /\ pieces[k] \in Seq(Parts)
                         /\ IsPart(pieces[k], whole, length[k - 1], length[k])
    BY <1>6
  <2> QED
    BY <2>1, <2>2, JoinOfParts
<1> QED
  BY <1>1, <1>7

\* The text of the encoding COMMA.
LEMMA ListText ==
    ASSUME NEW bytes \in Seq(Byte)
    PROVE  JoinOver(Pieces(bytes, "COMMA"), 1 .. Len(bytes)) = List(bytes)
<1>1. PICK n, pieces, whole : /\ n = Len(bytes) /\ pieces = Pieces(bytes, "COMMA")
                              /\ whole = List(bytes)
  OBVIOUS
<1>2. n \in Nat /\ \A k \in 1 .. n : bytes[k] \in Byte
  BY <1>1
<1>3. ASSUME NEW k \in 1 .. n
      PROVE  /\ whole[2 * k - 1] = <<"number", bytes[k]>>
             /\ k < n => whole[2 * k] = <<"comma", {}>>
  <2>1. 2 * k - 1 \in 1 .. 2 * n - 1 /\ (2 * k - 1) % 2 = 1 /\ ((2 * k - 1) + 1) \div 2 = k
    BY <1>2
  <2>2. k < n => 2 * k \in 1 .. 2 * n - 1 /\ (2 * k) % 2 = 0
    BY <1>2
  <2> QED
    BY <1>1, <2>1, <2>2 DEF List
<1>4. PICK last : last = IF n = 0 THEN 0 ELSE 2 * n - 1
  OBVIOUS
<1>5. last \in Nat /\ 1 .. 2 * n - 1 = 1 .. last
  <2>1. CASE n = 0
    BY <1>4, <2>1
  <2>2. CASE n # 0
    BY <1>2, <1>4, <2>2
  <2> QED
    BY <2>1, <2>2
<1>6. /\ whole \in Seq(Parts) /\ Len(whole) = last
  <2>1. \A k \in 1 .. 2 * n - 1 : (k + 1) \div 2 \in 1 .. n
    BY <1>2
  <2>2. /\ <<"comma", {}>> \in Parts
        /\ \A b \in Byte : <<"number", b>> \in Parts
    BY DEF Parts, Byte
  <2>3. \A k \in 1 .. 2 * n - 1 :
            (IF k % 2 = 1 THEN <<"number", bytes[(k + 1) \div 2]>> ELSE <<"comma", {}>>) \in Parts
    BY <1>2, <2>1, <2>2
  <2>4. whole \in [1 .. last -> Parts]
    BY <1>1, <1>5, <2>3 DEF List
  <2> QED
    BY <1>5, <2>4, SequenceOf
<1>7. PICK length : length = [k \in 0 .. n |-> IF k = 0 THEN 0 ELSE 2 * k - 1]
  OBVIOUS
<1>8. /\ length \in [0 .. n -> Nat] /\ length[0] = 0 /\ length[n] = Len(whole)
      /\ \A k \in 0 .. n : length[k] <= Len(whole)
  BY <1>2, <1>4, <1>6, <1>7
<1>9. ASSUME NEW k \in 1 .. n
      PROVE  /\ pieces[k] \in Seq(Parts)
             /\ IsPart(pieces[k], whole, length[k - 1], length[k])
  <2>1. pieces[k] = Encoded(bytes[k], "COMMA", k = 1)
    BY <1>1 DEF Pieces
  <2>2. bytes[k] \in Byte /\ (k = 1) \in BOOLEAN
    BY <1>2
  <2>3. PICK a, b : a = <<"comma", {}>> /\ b = <<"number", bytes[k]>>
    OBVIOUS
  <2>4. /\ Encoded(bytes[k], "COMMA", k = 1) = IF k = 1 THEN <<b>> ELSE <<a, b>>
        /\ Encoded(bytes[k], "COMMA", k = 1) \in Seq(Parts)
    BY <2>2, <2>3, PieceIs
  <2>5. pieces[k] \in Seq(Parts) /\ pieces[k] = IF k = 1 THEN <<b>> ELSE <<a, b>>
    BY <2>1, <2>4
  <2>6. CASE k = 1
    <3>1. length[1] = 1 /\ length[1 - 1] = 0 /\ 1 - 0 = 1 /\ 0 + 1 = 1
      BY <1>2, <1>7, <2>6
    <3>2. whole[1] = b
      <4>1. 2 * k - 1 = 1
        BY <2>6
      <4> QED
        BY <1>3, <2>3, <4>1
    <3>3. Len(pieces[k]) = 1 /\ pieces[k][1] = b
      BY <2>5, <2>6
    <3> QED
      BY <2>5, <2>6, <3>1, <3>2, <3>3 DEF IsPart
  <2>7. CASE k # 1
    <3>1. length[k] = 2 * k - 1 /\ length[k - 1] = 2 * k - 3 /\ k - 1 \in 1 .. n /\ k - 1 < n
      BY <1>2, <1>7, <2>7
    <3>2. /\ (2 * k - 3) + 1 = 2 * (k - 1) /\ (2 * k - 3) + 2 = 2 * k - 1
          /\ (2 * k - 1) - (2 * k - 3) = 2
      BY <1>2
    <3>3. whole[length[k - 1] + 1] = a
      BY <1>3, <2>3, <3>1, <3>2
    <3>4. whole[length[k - 1] + 2] = b
      BY <1>3, <2>3, <3>1, <3>2
    <3>5. Len(pieces[k]) = 2 /\ pieces[k][1] = a /\ pieces[k][2] = b
      BY <2>5, <2>7
    <3>6. \A i \in 1 .. 2 : pieces[k][i] = whole[length[k - 1] + i]
      BY <3>3, <3>4, <3>5
    <3> QED
      BY <2>5, <3>1, <3>2, <3>5, <3>6 DEF IsPart
  <2> QED
    BY <2>6, <2>7
<1>10. JoinOver(pieces, 1 .. n) = whole
  BY <1>2, <1>6, <1>8, <1>9, JoinOfParts
<1> QED
  BY <1>1, <1>10

\* A byte below 32 has none of the highest three bits.
LEMMA ControlCharacter ==
    ASSUME NEW byte \in Byte PROVE Number(byte) < 32 <=> byte \cap (5 .. 7) = {}
<1>1. /\ Number(byte) = Nibble(byte, 0) + 16 * Nibble(byte, 4)
      /\ Nibble(byte, 0) \in 0 .. 15
  BY NumberOfByte, NibbleType
<1>2. Nibble(byte, 4) = BitOf(byte, 4) + 2 * BitOf(byte, 5) + 4 * BitOf(byte, 6) + 8 * BitOf(byte, 7)
  <2>1. 4 + 1 = 5 /\ 4 + 2 = 6 /\ 4 + 3 = 7
    OBVIOUS
  <2> QED
    BY <2>1 DEF Nibble
<1>3. \A b : BitOf(byte, b) \in {0, 1} /\ (BitOf(byte, b) = 1 <=> b \in byte)
  BY DEF BitOf
<1>4. byte \cap (5 .. 7) = {} <=> 5 \notin byte /\ 6 \notin byte /\ 7 \notin byte
  <2>1. \A x : x \in 5 .. 7 <=> x \in {5, 6, 7}
    OBVIOUS
  <2> QED
    BY <2>1
<1>5. PICK low, b4, b5, b6, b7 : /\ low = Nibble(byte, 0) /\ b4 = BitOf(byte, 4)
                                 /\ b5 = BitOf(byte, 5) /\ b6 = BitOf(byte, 6)
                                 /\ b7 = BitOf(byte, 7)
  OBVIOUS
<1>6. /\ b4 \in {0, 1} /\ b5 \in {0, 1} /\ b6 \in {0, 1} /\ b7 \in {0, 1} /\ low \in 0 .. 15
      /\ Number(byte) = low + 16 * (b4 + 2 * b5 + 4 * b6 + 8 * b7)
  BY <1>1, <1>2, <1>3, <1>5
<1>7. Number(byte) < 32 <=> (b5 = 0 /\ b6 = 0 /\ b7 = 0)
  BY <1>6
<1>8. byte \cap (5 .. 7) = {} <=> (b5 = 0 /\ b6 = 0 /\ b7 = 0)
  BY <1>3, <1>4, <1>5
<1> QED
  BY <1>7, <1>8

\* the indices up to i of a set of indices
UpTo(P, i) == {j \in P : j <= i}
\* the element that so many are up to
Ranked(P, k) == CHOOSE i \in P : Cardinality(UpTo(P, i)) = k

\* The k-th of some indices is the one that k of them are up to.
LEMMA Ranks ==
    ASSUME NEW n \in Nat, NEW P \in SUBSET (1 .. n)
    PROVE  /\ UpTo(P, 0) = {} /\ UpTo(P, n) = P /\ IsFiniteSet(P)
           /\ \A k \in 0 .. n : /\ Cardinality(UpTo(P, k)) \in Nat
                                /\ Cardinality(UpTo(P, k)) <= Cardinality(P)
           /\ \A k \in 1 .. n : k \notin P => UpTo(P, k) = UpTo(P, k - 1)
           /\ \A k \in P : /\ Cardinality(UpTo(P, k)) = Cardinality(UpTo(P, k - 1)) + 1
                           /\ Ranked(P, Cardinality(UpTo(P, k))) = k
<1>1. \A x \in P : x \in Nat /\ 1 <= x /\ x <= n
  OBVIOUS
<1>0. \A k, x : x \in UpTo(P, k) <=> x \in P /\ x <= k
  BY DEF UpTo
<1>2. UpTo(P, 0) = {} /\ UpTo(P, n) = P
  <2>1. \A x : x \notin UpTo(P, 0)
    <3>1. \A x \in P : ~(x <= 0)
      BY <1>1
    <3> QED
      BY <1>0, <3>1
  <2>2. \A x : x \in UpTo(P, n) <=> x \in P
    BY <1>0, <1>1
  <2> QED
    BY <2>1, <2>2
<1>3. IsFiniteSet(P)
  <2>1. 1 \in Int /\ n \in Int
    OBVIOUS
  <2>2. IsFiniteSet(1 .. n)
    BY <2>1, FS_Interval
  <2> QED
    BY <2>2, FS_Subset
<1>4. ASSUME NEW k
      PROVE  /\ UpTo(P, k) \in SUBSET P /\ IsFiniteSet(UpTo(P, k))
             /\ Cardinality(UpTo(P, k)) \in Nat /\ Cardinality(UpTo(P, k)) <= Cardinality(P)
  <2>1. UpTo(P, k) \in SUBSET P
    BY DEF UpTo
  <2>2. IsFiniteSet(UpTo(P, k)) /\ Cardinality(UpTo(P, k)) <= Cardinality(P)
    BY <1>3, <2>1, FS_Subset
  <2> QED
    BY <2>1, <2>2, FS_CardinalityType
<1>5. ASSUME NEW k \in 1 .. n, k \notin P PROVE UpTo(P, k) = UpTo(P, k - 1)
  <2>1. \A x \in P : x <= k <=> x <= k - 1
    BY <1>1, <1>5
  <2> QED
    BY <2>1 DEF UpTo
<1>6. ASSUME NEW k \in P PROVE Cardinality(UpTo(P, k)) = Cardinality(UpTo(P, k - 1)) + 1
  <2>1. UpTo(P, k) = UpTo(P, k - 1) \cup {k} /\ k \notin UpTo(P, k - 1)
    <3>1. \A x : x \in UpTo(P, k) <=> x \in UpTo(P, k - 1) \/ x = k
      <4>1. k \in Nat /\ \A x \in P : x <= k <=> x <= k - 1 \/ x = k
        BY <1>1
      <4> QED
        BY <1>0, <4>1
    <3>2. k \notin UpTo(P, k - 1)
      BY <1>0, <1>1
    <3> QED
      BY <3>1, <3>2
  <2>2. IsFiniteSet(UpTo(P, k - 1))
    BY <1>4
  <2>3. PICK s : s = UpTo(P, k - 1)
    OBVIOUS
  <2>4. Cardinality(s \cup {k}) = Cardinality(s) + 1
    BY <2>1, <2>2, <2>3, FS_AddElement
  <2> QED
    BY <2>1, <2>3, <2>4
<1>7. ASSUME NEW i \in P, NEW k \in P, i < k
      PROVE  Cardinality(UpTo(P, i)) < Cardinality(UpTo(P, k))
  <2>1. UpTo(P, i) \in SUBSET UpTo(P, k - 1)
    <3>1. \A x \in P : x <= i => x <= k - 1
      BY <1>1, <1>7
    <3> QED
      BY <1>0, <3>1
  <2>2. IsFiniteSet(UpTo(P, k - 1))
    BY <1>4
  <2>3. Cardinality(UpTo(P, i)) <= Cardinality(UpTo(P, k - 1))
    BY <2>1, <2>2, FS_Subset
  <2>4. /\ Cardinality(UpTo(P, i)) \in Nat /\ Cardinality(UpTo(P, k - 1)) \in Nat
        /\ Cardinality(UpTo(P, k)) = Cardinality(UpTo(P, k - 1)) + 1
    BY <1>4, <1>6
  <2> QED
    BY <2>3, <2>4
<1>8. ASSUME NEW k \in P PROVE Ranked(P, Cardinality(UpTo(P, k))) = k
  <2>1. PICK r : r = Cardinality(UpTo(P, k))
    OBVIOUS
  <2>2. PICK i : i = Ranked(P, r)
    OBVIOUS
  <2>3. i \in P /\ Cardinality(UpTo(P, i)) = r
    BY <2>1, <2>2 DEF Ranked
  <2>4. r \in Nat
    BY <1>4, <2>1
  <2>5. ~(i < k)
    BY <1>7, <2>1, <2>3, <2>4
  <2>6. ~(k < i)
    BY <1>7, <2>1, <2>3, <2>4
  <2>7. i = k
    BY <1>1, <2>3, <2>5, <2>6
  <2> QED
    BY <2>1, <2>2, <2>7
<1> QED
  BY <1>2, <1>3, <1>4, <1>5, <1>6, <1>8

\* The text of the encoding ANSI leaves out the control characters.
LEMMA PrintableText ==
    ASSUME NEW bytes \in Seq(Byte)
    PROVE  JoinOver(Pieces(bytes, "ANSI"), 1 .. Len(bytes)) = Printable(Characters(bytes))
<1>1. PICK n, pieces, text, whole :
          /\ n = Len(bytes) /\ pieces = Pieces(bytes, "ANSI") /\ text = Characters(bytes)
          /\ whole = Printable(Characters(bytes))
  OBVIOUS
<1>2. n \in Nat /\ \A k \in 1 .. n : bytes[k] \in Byte
  BY <1>1
<1>3. PICK P : P = {i \in 1 .. n : bytes[i] \cap (5 .. 7) # {}}
  OBVIOUS
<1>4. P \in SUBSET (1 .. n)
  BY <1>3
<1>5. DOMAIN text = 1 .. n /\ \A k \in 1 .. n : text[k] = <<"character", bytes[k]>>
  BY <1>1 DEF Characters
<1>6. whole = [k \in 1 .. Cardinality(P) |-> text[Ranked(P, k)]]
  <2>1. {i \in DOMAIN text : text[i][2] \cap (5 .. 7) # {}} = P
    BY <1>3, <1>5
  <2>2. whole = [k \in 1 .. Cardinality({i \in DOMAIN text : text[i][2] \cap (5 .. 7) # {}}) |->
                    text[Ranked({i \in DOMAIN text : text[i][2] \cap (5 .. 7) # {}}, k)]]
    <3>1. Printable(text) =
              [k \in 1 .. Cardinality({i \in DOMAIN text : text[i][2] \cap (5 .. 7) # {}}) |->
                  text[Ranked({i \in DOMAIN text : text[i][2] \cap (5 .. 7) # {}}, k)]]
      BY Zenon DEF Printable, Ranked, UpTo
    <3> QED
      BY <1>1, <3>1
  <2> QED
    BY <2>1, <2>2
<1>7. /\ UpTo(P, 0) = {} /\ UpTo(P, n) = P /\ IsFiniteSet(P)
      /\ \A k \in 0 .. n : /\ Cardinality(UpTo(P, k)) \in Nat
                           /\ Cardinality(UpTo(P, k)) <= Cardinality(P)
      /\ \A k \in 1 .. n : k \notin P => UpTo(P, k) = UpTo(P, k - 1)
      /\ \A k \in P : /\ Cardinality(UpTo(P, k)) = Cardinality(UpTo(P, k - 1)) + 1
                      /\ Ranked(P, Cardinality(UpTo(P, k))) = k
  BY <1>2, <1>4, Ranks
<1>8. PICK size : size = Cardinality(P)
  OBVIOUS
<1>9. size \in Nat
  BY <1>7, <1>8, FS_CardinalityType
\* which characters there are is left open here
<1>10. PICK S : S = Parts \cup {whole[k] : k \in 1 .. size}
  OBVIOUS
<1>11. whole \in Seq(S) /\ Len(whole) = size
  <2>1. DOMAIN whole = 1 .. size /\ whole = [k \in 1 .. size |-> whole[k]]
    BY <1>6, <1>8
  <2>2. \A k \in 1 .. size : whole[k] \in S
    BY <1>10
  <2>3. whole \in [1 .. size -> S]
    BY <2>1, <2>2
  <2> QED
    BY <1>9, <2>3, SequenceOf
<1>12. PICK length : length = [k \in 0 .. n |-> Cardinality(UpTo(P, k))]
  OBVIOUS
<1>13. /\ length \in [0 .. n -> Nat] /\ length[0] = 0 /\ length[n] = Len(whole)
       /\ \A k \in 0 .. n : length[k] <= Len(whole)
  <2>1. Cardinality({}) = 0
    BY FS_EmptySet
  <2> QED
    <3>1. \A k \in 0 .. n : /\ length[k] = Cardinality(UpTo(P, k))
                            /\ length[k] \in Nat /\ length[k] <= Len(whole)
      BY <1>7, <1>8, <1>11, <1>12
    <3>2. 0 \in 0 .. n /\ n \in 0 .. n
      BY <1>2
    <3>3. length[0] = 0 /\ length[n] = Len(whole)
      BY <1>7, <1>8, <1>11, <2>1, <3>1, <3>2
    <3>4. length \in [0 .. n -> Nat]
      BY <1>12, <3>1
    <3> QED
      BY <3>1, <3>3, <3>4
<1>14. ASSUME NEW k \in 1 .. n
       PROVE  pieces[k] \in Seq(S) /\ IsPart(pieces[k], whole, length[k - 1], length[k])
  <2>1. pieces[k] = Encoded(bytes[k], "ANSI", k = 1)
    BY <1>1 DEF Pieces
  <2>2. bytes[k] \in Byte /\ (k = 1) \in BOOLEAN
    BY <1>2
  <2>3. PICK a : a = <<"character", bytes[k]>>
    OBVIOUS
  <2>4. Encoded(bytes[k], "ANSI", k = 1) = IF Number(bytes[k]) < 32 THEN <<>> ELSE <<a>>
    BY <2>2, <2>3, PieceIs
  <2>5. pieces[k] = IF k \in P THEN <<a>> ELSE <<>>
    BY <1>3, <2>1, <2>2, <2>4, ControlCharacter
  <2>6. a \in S
    BY <1>10, <2>2, <2>3 DEF Parts
  <2>7. k \in 0 .. n /\ k - 1 \in 0 .. n
    BY <1>2
  <2>8. /\ length[k] = Cardinality(UpTo(P, k)) /\ length[k - 1] = Cardinality(UpTo(P, k - 1))
        /\ length[k] \in Nat /\ length[k - 1] \in Nat
    BY <1>12, <1>13, <2>7
  <2>9. CASE k \notin P
    <3>1. pieces[k] = <<>> /\ length[k] = length[k - 1]
      BY <1>7, <2>5, <2>8, <2>9
    <3>2. length[k] - length[k - 1] = 0
      BY <2>8, <3>1
    <3>3. pieces[k] \in Seq(S) /\ Len(pieces[k]) = 0
      BY <3>1
    <3> QED
      BY <3>2, <3>3 DEF IsPart
  <2>10. CASE k \in P
    <3>1. pieces[k] = <<a>> /\ length[k] = length[k - 1] + 1
      BY <1>7, <2>5, <2>8, <2>10
    <3>2. pieces[k] \in Seq(S) /\ Len(pieces[k]) = 1 /\ pieces[k][1] = a
      BY <2>6, <3>1
    <3>3. length[k] - length[k - 1] = 1 /\ length[k - 1] + 1 = length[k]
      BY <2>8, <3>1
    <3>4. whole[length[k]] = a
      <4>1. length[k] \in 1 .. size
        <5>1. length[k] <= size
          BY <1>11, <1>13, <2>7
        <5> QED
          BY <1>9, <2>8, <3>1, <5>1
      <4>2. whole[length[k]] = text[Ranked(P, length[k])]
        BY <1>6, <1>8, <4>1
      <4>3. Ranked(P, length[k]) = k
        BY <1>7, <2>8, <2>10
      <4> QED
        BY <1>5, <2>3, <4>2, <4>3
    <3> QED
      BY <3>2, <3>3, <3>4 DEF IsPart
  <2> QED
    BY <2>9, <2>10
<1>15. JoinOver(pieces, 1 .. n) = whole
  <2>1. \A k \in 1 .. n : /\ pieces[k] \in Seq(S)
                          /\ IsPart(pieces[k], whole, length[k - 1], length[k])
    BY <1>14
  <2> QED
    BY <1>2, <1>11, <1>13, <2>1, JoinOfParts
<1> QED
  BY <1>1, <1>15

\* What a text sensor shows of the answer is what its registers mean.
LEMMA TextIsShown ==
    ASSUME ReadsFit, Kept, NEW e, e = entity, IsText(e),
           NEW bytes, bytes = Transmitted(Frame(CreateReadCommand(e))), Served(bytes)
    PROVE  TextState(e, Answered(bytes)) = Meaning(e)
<1>1. PICK data : data = Answered(bytes)
  OBVIOUS
<1>2. PICK own : own = TextBytes(e)
  OBVIOUS
<1>3. own \in Seq(Byte) /\ Behind(e, data) = own
  BY <1>1, <1>2, OwnBytes
<1>4. TextState(e, data) = JoinOver(Pieces(own, e.encode), 1 .. Len(own))
  BY <1>3, TextIsJoin
<1>5. TextMeaning(e) = IF e.encode = "HEXBYTES" THEN Digits(own)
                       ELSE IF e.encode = "COMMA" THEN List(own) ELSE Characters(own)
  <2>1. CASE e.encode = "HEXBYTES"
    <3>1. TextMeaning(e) = [k \in 1 .. 2 * Len(own) |->
              <<"digit", IF k % 2 = 1 THEN High(own[(k + 1) \div 2]) ELSE Low(own[(k + 1) \div 2])>>]
      BY <1>2, <2>1 DEF TextMeaning
    <3> QED
      BY <2>1, <3>1 DEF Digits
  <2>2. CASE e.encode = "COMMA"
    <3>1. TextMeaning(e) = [k \in 1 .. 2 * Len(own) - 1 |->
              IF k % 2 = 1 THEN <<"number", own[(k + 1) \div 2]>> ELSE <<"comma", {}>>]
      BY <1>2, <2>2 DEF TextMeaning
    <3> QED
      BY <2>2, <3>1 DEF List
  <2>3. CASE e.encode \notin {"HEXBYTES", "COMMA"}
    <3>1. TextMeaning(e) = [k \in 1 .. Len(own) |-> <<"character", own[k]>>]
      BY <1>2, <2>3 DEF TextMeaning
    <3> QED
      BY <2>3, <3>1 DEF Characters
  <2> QED
    BY <2>1, <2>2, <2>3
<1>6. Meaning(e) = IF e.encode = "ANSI" THEN Printable(TextMeaning(e)) ELSE TextMeaning(e)
  BY DEF Meaning
<1>7. JoinOver(Pieces(own, e.encode), 1 .. Len(own)) = Meaning(e)
  <2>1. CASE e.encode = "HEXBYTES"
    BY <1>3, <1>5, <1>6, <2>1, HexText
  <2>2. CASE e.encode = "COMMA"
    BY <1>3, <1>5, <1>6, <2>2, ListText
  <2>3. CASE e.encode = "ANSI"
    BY <1>3, <1>5, <1>6, <2>3, PrintableText
  <2>4. CASE e.encode \notin {"HEXBYTES", "COMMA", "ANSI"}
    BY <1>3, <1>5, <1>6, <2>4, CharacterText
  <2> QED
    BY <2>1, <2>2, <2>3, <2>4
<1> QED
  BY <1>1, <1>4, <1>7

\* The same for every kind of entity.
LEMMA AnswerIsShown ==
    ASSUME ReadsFit, Kept,
           NEW bytes, bytes = Transmitted(Frame(CreateReadCommand(entity))), Served(bytes)
    PROVE  ParseAndPublish(entity, Answered(bytes)) = Meaning(entity)
<1>1. PICK e : e = entity
  OBVIOUS
<1>2. bytes = Transmitted(Frame(CreateReadCommand(e)))
  BY <1>1
<1>3. CASE IsNumeric(e)
  <2>1. NumericState(e, Answered(bytes)) = Meaning(e)
    BY <1>1, <1>2, <1>3, NumberIsShown
  <2> QED
    BY <1>1, <1>3, <2>1 DEF ParseAndPublish
<1>4. CASE ~IsNumeric(e) /\ IsText(e)
  <2>1. TextState(e, Answered(bytes)) = Meaning(e)
    BY <1>1, <1>2, <1>4, TextIsShown
  <2> QED
    BY <1>1, <1>4, <2>1 DEF ParseAndPublish
<1>5. CASE ~IsNumeric(e) /\ ~IsText(e)
  <2>1. BinaryState(e, Answered(bytes)) = Meaning(e)
    BY <1>1, <1>2, <1>5, BinaryIsShown
  <2> QED
    BY <1>1, <1>5, <2>1 DEF ParseAndPublish
<1> QED
  BY <1>3, <1>4, <1>5

\* What the registers mean does not change without them.
LEMMA SameMeaning ==
    ASSUME entity' = entity, memory' = memory PROVE Meaning(entity)' = Meaning(entity)
<1>1. RawBits(entity)' = RawBits(entity)
  BY Zenon DEF RawBits, EntityAddress
<1>2. TextBytes(entity)' = TextBytes(entity)
  BY Zenon DEF TextBytes
<1>3. TextMeaning(entity)' = TextMeaning(entity)
  BY <1>2, Zenon DEF TextMeaning
<1> QED
  BY <1>1, <1>3, Zenon DEF Meaning, EntityAddress

\* A poll shows what the device holds, and any other step that changes
\* something makes what is shown no answer to a poll.
LEMMA RightByStep ==
    ASSUME ReadsFit, Kept, PollShowsTheDevice, [Next]_vars PROVE PollShowsTheDevice'
<1>1. ASSUME NEW value \in Numbers, SetNumber(value) PROVE PollShowsTheDevice'
  <2>1. polled' = FALSE
    BY <1>1 DEF SetNumber, WriteState
  <2> QED
    BY <2>1 DEF PollShowsTheDevice
<1>2. ASSUME NEW state \in BOOLEAN, SetSwitch(state) PROVE PollShowsTheDevice'
  <2>1. polled' = FALSE
    BY <1>2 DEF SetSwitch, WriteState
  <2> QED
    BY <2>1 DEF PollShowsTheDevice
<1>3. ASSUME NEW a, NEW word, DeviceChanges(a, word) PROVE PollShowsTheDevice'
  <2>1. polled' = FALSE
    BY <1>3 DEF DeviceChanges
  <2> QED
    BY <2>1 DEF PollShowsTheDevice
<1>4. CASE Poll
  <2>1. PICK bytes : bytes = Transmitted(Frame(CreateReadCommand(entity)))
    OBVIOUS
  <2>2. /\ IF Served(bytes)
           THEN shown' = ParseAndPublish(entity, Answered(bytes)) /\ polled' = TRUE
           ELSE UNCHANGED <<shown, polled>>
        /\ entity' = entity /\ memory' = memory
    BY <1>4, <2>1, Zenon DEF Poll
  <2>3. Meaning(entity)' = Meaning(entity)
    BY <2>2, SameMeaning
  <2>4. CASE Served(bytes)
    <3>1. ParseAndPublish(entity, Answered(bytes)) = Meaning(entity)
      BY <2>1, <2>4, AnswerIsShown
    <3> QED
      BY <2>2, <2>3, <2>4, <3>1 DEF PollShowsTheDevice
  <2>5. CASE ~Served(bytes)
    BY <2>2, <2>3, <2>5 DEF PollShowsTheDevice
  <2> QED
    BY <2>4, <2>5
<1>5. CASE UNCHANGED vars
  <2>1. entity' = entity /\ memory' = memory /\ shown' = shown /\ polled' = polled
    BY <1>5 DEF vars
  <2>2. Meaning(entity)' = Meaning(entity)
    BY <2>1, SameMeaning
  <2> QED
    BY <2>1, <2>2 DEF PollShowsTheDevice
<1> QED
  BY <1>1, <1>2, <1>3, <1>4, <1>5 DEF Next

\* Whatever its place in the range, its type and its mask are, an entity
\* shows after a poll what the device holds at its own address, for every
\* kind of entity and every content of the device (create_read_command(),
\* send(), payload_to_number(), coil_from_vector() and the text sensor's
\* parse_and_publish()), as long as its offset fits into a byte and begins a
\* register, and a mask of a signed value does not hold both of its ends.
THEOREM PollsAreRight ==
    ASSUME ReadsFit PROVE Spec => []PollShowsTheDevice
<1>1. Init => PollShowsTheDevice
  BY DEF Init, PollShowsTheDevice
<1>2. Kept /\ PollShowsTheDevice /\ [Next]_vars => PollShowsTheDevice'
  BY RightByStep
<1> QED
  BY <1>1, <1>2, AlwaysKept, PTL DEF Spec

-----------------------------------------------------------------------------
(* What the entities show has the type of their kind.                      *)

\* The bytes of an answer that is long enough make a value of 64 bits.
LEMMA BytesReceived ==
    ASSUME NEW n \in {1, 2, 4}, NEW data \in Seq(Byte), NEW offset \in Nat,
           ~(Len(data) - offset < 2 * n)
    PROVE  GetData(data, offset, 2 * n) \in SUBSET (0 .. 63)
<1>1. ASSUME NEW b, b \in GetData(data, offset, 2 * n) PROVE b \in 0 .. 63
  <2>1. PICK i \in 1 .. 2 * n : b \in ShiftLeft(data[offset + i], 8 * (2 * n - i))
    BY <1>1 DEF GetData
  <2>2. PICK x \in data[offset + i] : b = x + 8 * (2 * n - i)
    BY <2>1 DEF ShiftLeft
  <2>3. offset + i \in 1 .. Len(data)
    OBVIOUS
  <2>4. data[offset + i] \in Byte
    BY <2>3
  <2>5. x \in 0 .. 7
    BY <2>4 DEF Byte
  <2> QED
    BY <2>2, <2>5
<1> QED
  BY <1>1

\* payload_to_number() makes a value of 64 bits of any answer.
LEMMA NumberShownType ==
    ASSUME NEW type \in ValueTypes, NEW data \in Seq(Byte), NEW offset \in Nat, NEW mask
    PROVE  PayloadToNumber(data, type, offset, mask) \in SUBSET (0 .. 63)
<1>1. PICK n, width : n = RegisterCount(type) /\ width = Width(type)
  OBVIOUS
<1>2. n \in {1, 2, 4} /\ width = 16 * n
  BY <1>1, CountOfRegisters DEF Width
<1>3. PICK received : received = GetData(data, offset, 2 * n)
  OBVIOUS
<1>4. PICK value : value = IF type \in LowWordFirst THEN SwapWords(received, n) ELSE received
  OBVIOUS
<1>5. PICK number : number = IF type \in SignedTypes THEN SignExtend(value, width) ELSE value
  OBVIOUS
<1>6. PICK masked : masked = MaskAndShift(number \cap (0 .. 31), mask, width)
  OBVIOUS
<1>7. PayloadToNumber(data, type, offset, mask) =
          IF Len(data) - offset < 2 * n THEN {}
          ELSE IF type \in QWordTypes THEN value
          ELSE IF type \in SignedTypes THEN SignExtend(masked, width) ELSE masked
  BY <1>1, <1>3, <1>4, <1>5, <1>6, Zenon DEF PayloadToNumber
<1>8. ASSUME ~(Len(data) - offset < 2 * n) PROVE value \in SUBSET (0 .. 63)
  <2>1. received \in SUBSET (0 .. 63)
    BY <1>2, <1>3, <1>8, BytesReceived
  <2>2. SwapWords(received, n) \in SUBSET (0 .. 63)
    <3>1. ASSUME NEW b, b \in SwapWords(received, n) PROVE b \in 0 .. 63
      <4>1. PICK k \in 0 .. n - 1 : b \in ShiftLeft(WordAt(received, k), 16 * (n - 1 - k))
        BY <3>1 DEF SwapWords
      <4>2. PICK x \in WordAt(received, k) : b = x + 16 * (n - 1 - k)
        BY <4>1 DEF ShiftLeft
      <4>3. x \in 0 .. 15
        BY DEF WordAt
      <4> QED
        BY <1>2, <4>2, <4>3
    <3> QED
      BY <3>1
  <2> QED
    BY <1>4, <2>1, <2>2
<1>9. masked \in SUBSET (0 .. width - 1)
  BY <1>6 DEF MaskAndShift
<1>10. masked \in SUBSET (0 .. 63) /\ SignExtend(masked, width) \in SUBSET (0 .. 63)
  <2>1. 0 .. width - 1 \in SUBSET (0 .. 63) /\ width .. 63 \in SUBSET (0 .. 63)
    BY <1>2
  <2> QED
    BY <1>9, <2>1 DEF SignExtend
<1> QED
  BY <1>7, <1>8, <1>10

\* the state of an entity, once it has shown one
StateOf(e) ==
    IF IsNumeric(e) THEN SUBSET (0 .. 63)
    ELSE IF IsText(e) THEN Seq({"digit", "number", "comma", "character"} \X Byte)
    ELSE BOOLEAN

\* What an entity shows of an answer has the type of its kind.
LEMMA StateOfType ==
    ASSUME Kept, NEW bytes, bytes = Transmitted(Frame(CreateReadCommand(entity))), Served(bytes)
    PROVE  ParseAndPublish(entity, Answered(bytes)) \in StateOf(entity)
<1>1. PICK e : e = entity
  OBVIOUS
<1>2. PICK c \in Configurations : e = Entity(c)
  BY <1>1 DEF Kept, Entities
<1>3. /\ e.kind = c.kind /\ e.value_type = c.value_type /\ (HasBits(e) <=> HasBits(c))
      /\ (IsNumeric(e) <=> IsNumeric(c)) /\ (IsText(e) <=> IsText(c))
  BY <1>2, EntityTypes DEF IsNumeric, IsText
<1>4. e.offset \in Nat /\ e.response_size \in Nat
  <2>1. PICK s, n, o : o \in Nat /\ Made(Entity(c), c, s, o, n)
    BY EntityMade
  <2>2. e.offset \in Nat
    BY <1>2, <2>1, OffsetType
  <2>3. e.response_size = c.response_size
    BY <1>2, <2>1 DEF Made
  <2>4. c.response_size \in Nat
    BY ConfigurationAssumption, Widths DEF Configuration
  <2> QED
    BY <2>2, <2>3, <2>4
<1>5. ASSUME ~HasBits(e) PROVE Answered(bytes) \in Seq(Byte)
  <2>1. /\ e.range \in Nat /\ Cells(e) \in [1 .. e.range -> Word]
        /\ Answered(bytes) = WordsAsBytes(Cells(e))
    BY <1>1, <1>5, AnswerIs
  <2>2. Bytes(WordsAsBytes(Cells(e)), 2 * e.range)
    BY <2>1, BytesOfWords
  <2> QED
    BY <2>1, <2>2 DEF Bytes
<1>6. CASE IsNumeric(e)
  <2>1. ~HasBits(e) /\ e.value_type \in ValueTypes
    BY <1>3, <1>6, ConfigurationAssumption
  <2>2. NumericState(e, Answered(bytes)) \in SUBSET (0 .. 63)
    BY <1>4, <1>5, <2>1, NumberShownType DEF NumericState
  <2> QED
    BY <1>1, <1>6, <2>2 DEF ParseAndPublish, StateOf
<1>7. CASE ~IsNumeric(e) /\ IsText(e)
  <2>1. ~HasBits(e)
    BY <1>3, <1>7, ConfigurationAssumption
  <2>2. PICK data : data = Answered(bytes) /\ data \in Seq(Byte)
    BY <1>5, <2>1
  <2>3. Behind(e, data) \in Seq(Byte)
    <3>1. PICK m : m = IF Len(data) <= e.offset + e.response_size THEN Len(data)
                       ELSE e.offset + e.response_size
      OBVIOUS
    <3> QED
      BY <1>4, <2>2, <3>1, BehindIs
  <2>4. TextState(e, data) \in Seq(Parts)
    BY <2>3, TextType
  <2> QED
    BY <1>1, <1>7, <2>2, <2>4 DEF ParseAndPublish, StateOf, Parts
<1>8. CASE ~IsNumeric(e) /\ ~IsText(e)
  <2>1. BinaryState(e, Answered(bytes)) \in BOOLEAN
    <3>1. \A coil, data : CoilFromVector(coil, data) \in BOOLEAN
      BY DEF CoilFromVector
    <3>2. \A data, offset, mask : MaskedState(data, offset, mask) \in BOOLEAN
      BY DEF MaskedState
    <3> QED
      BY <3>1, <3>2 DEF BinaryState
  <2> QED
    BY <1>1, <1>8, <2>1 DEF ParseAndPublish, StateOf
<1> QED
  BY <1>6, <1>7, <1>8

\* So has what it shows after any step.
LEMMA TypeByStep ==
    ASSUME Kept, shown = NoValue \/ shown \in StateOf(entity), [Next]_vars
    PROVE  shown' = NoValue \/ shown' \in StateOf(entity')
<1>1. ASSUME NEW value \in Numbers, SetNumber(value) PROVE shown' \in StateOf(entity')
  <2>1. shown' = value /\ entity' = entity /\ IsNumeric(entity)
    BY <1>1 DEF SetNumber, WriteState, IsNumeric
  <2>2. value \in SUBSET (0 .. 63)
    BY ConfigurationAssumption
  <2> QED
    BY <2>1, <2>2 DEF StateOf
<1>2. ASSUME NEW state \in BOOLEAN, SetSwitch(state) PROVE shown' \in StateOf(entity')
  <2>1. shown' = state /\ entity' = entity /\ ~IsNumeric(entity) /\ ~IsText(entity)
    BY <1>2 DEF SetSwitch, WriteState, IsNumeric, IsText
  <2> QED
    BY <2>1 DEF StateOf
<1>3. CASE Poll
  <2>1. PICK bytes : bytes = Transmitted(Frame(CreateReadCommand(entity)))
    OBVIOUS
  <2>2. /\ IF Served(bytes)
           THEN shown' = ParseAndPublish(entity, Answered(bytes)) /\ polled' = TRUE
           ELSE UNCHANGED <<shown, polled>>
        /\ entity' = entity /\ memory' = memory
    BY <1>3, <2>1, Zenon DEF Poll
  <2>3. CASE Served(bytes)
    BY <2>1, <2>2, <2>3, StateOfType
  <2>4. CASE ~Served(bytes)
    BY <2>2, <2>4
  <2> QED
    BY <2>3, <2>4
<1>4. ASSUME NEW a, NEW word, DeviceChanges(a, word)
      PROVE  shown' = NoValue \/ shown' \in StateOf(entity')
  <2>1. shown' = shown /\ entity' = entity
    BY <1>4 DEF DeviceChanges
  <2> QED
    BY <2>1
<1>5. CASE UNCHANGED vars
  BY <1>5 DEF vars
<1> QED
  BY <1>1, <1>2, <1>3, <1>4, <1>5 DEF Next

\* An entity shows what its kind is made for and nothing else, and requests
\* leave bits and registers in the device, whatever is configured and
\* written (parse_and_publish() of the entities).
THEOREM RequestsType == Spec => []TypeOK
<1> DEFINE Typed == shown = NoValue \/ shown \in StateOf(entity)
<1>1. Init => Typed
  BY DEF Init
<1>2. Kept /\ Typed /\ [Next]_vars => Typed'
  BY TypeByStep
<1>3. Kept /\ Typed => TypeOK
  BY DEF Kept, TypeOK, StateOf
<1> HIDE DEF Typed
<1> QED
  BY <1>1, <1>2, <1>3, AlwaysKept, PTL DEF Spec
=============================================================================
