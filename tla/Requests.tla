------------------------------ MODULE Requests ------------------------------
(***************************************************************************)
(* What the entities of src/components/modbustcp_controller ask for and    *)
(* show, byte by byte: the constructor of an entity and its place in a     *)
(* register range, the commands that a number, a switch and a poll make of *)
(* it (ModbusCommandItem::create_...), the frame ModbusTCP::send() makes   *)
(* of a command, the bytes send_message() writes, what a Modbus server     *)
(* does with them, and what parse_and_publish() shows of its answer.       *)
(*                                                                         *)
(* One entity is modelled at a time, with one request after the other:     *)
(* the queue and the delays of the other modules are left out here.        *)
(***************************************************************************)
EXTENDS Values, FiniteSetsExt, SequencesExt

CONSTANTS
    Configurations, \* of entities, see ConfigurationAssumption
    Addresses,  \* the addresses at which the server has registers and coils
    Unit,       \* the address of the device
    Tid,        \* the transaction id of a request
    Words,      \* what the device may put into a register
    Numbers,    \* what a number may be set to, as int64_t
    NoValue     \* the state of an entity that has shown none

Types == {"coil", "discrete_input", "holding", "read"}
BitTypes == {"coil", "discrete_input"}
HasBits(e) == e.register_type \in BitTypes
IsNumeric(e) == e.kind \in {"number", "sensor"}
IsText(e) == e.kind = "text_sensor"
-----------------------------------------------------------------------------
(* The entity that a configuration c makes.                                *)

\* a record with those fields, new or other than they were
With(record, fields) ==
    [x \in DOMAIN record \cup DOMAIN fields |->
        IF x \in DOMAIN fields THEN fields[x] ELSE record[x]]

\* offset and register_count as a constructor leaves them
SensorItem(c, start_address, offset, register_count) ==
    With(c, [start |-> start_address, offset |-> offset, count |-> register_count])

\* the registers of a value, unless the configuration says how many there are
ValueCount(c) ==
    IF c.register_count > 0 THEN c.register_count ELSE RegisterCount(c.value_type)

ModbusTCPSensor(c) == SensorItem(c, c.address, c.byte_offset, ValueCount(c))
ModbusTCPNumber(c) == SensorItem(c, c.address, c.byte_offset, ValueCount(c))
ModbusTCPBinarySensor(c) ==
    SensorItem(c, c.address, c.byte_offset, IF HasBits(c) THEN c.byte_offset + 1 ELSE 1)

\* variant: offset is kept as well
ModbusTCPSwitchTwice(c) == SensorItem(c, c.address + c.byte_offset, c.byte_offset, 1)

\* of a coil or a holding register: its offset counts addresses
ModbusTCPSwitch(c) == SensorItem(c, c.address + c.byte_offset, 0, 1)

ModbusTCPTextSensor(c) ==
    SensorItem(c, c.address, c.byte_offset,
               IF c.register_count > 0 THEN c.register_count ELSE c.response_size \div 2)

\* create_register_ranges_(): behind c.before registers or coils of other
\* entities and before c.after, in one range that is read at once
Placed(item, c) ==
    With(item,
         [start |-> item.start - c.before,
          offset |-> (item.offset + IF HasBits(c) THEN c.before ELSE 2 * c.before) % 256,
          range |-> c.before + item.count + c.after])

Entity(c) ==
    Placed(CASE c.kind = "sensor" -> ModbusTCPSensor(c)
             [] c.kind = "number" -> ModbusTCPNumber(c)
             [] c.kind = "binary_sensor" -> ModbusTCPBinarySensor(c)
             [] c.kind = "switch" -> ModbusTCPSwitch(c)
             [] c.kind = "text_sensor" -> ModbusTCPTextSensor(c), c)

Entities == {Entity(c) : c \in Configurations}

\* what the configuration of an entity says
Configuration ==
    [kind : {"number", "sensor", "switch", "binary_sensor", "text_sensor"},
     register_type : Types, value_type : ValueTypes \cup {"BIT"},
     address : UInt(16), byte_offset : UInt(8), mask : SUBSET (0 .. 31),
     use_write_multiple : BOOLEAN, register_count : UInt(8), response_size : UInt(8),
     encode : {"NONE", "HEXBYTES", "COMMA", "ANSI"}, before : Nat, after : Nat]

ASSUME ConfigurationAssumption ==
    /\ Addresses \subseteq UInt(16)
    /\ Unit \in UInt(8) /\ Tid \in UInt(16)
    /\ Words \subseteq Word
    /\ Numbers \subseteq SUBSET (0 .. 63)
    /\ Configurations \subseteq Configuration
    /\ \A c \in Configurations :
          /\ IsNumeric(c) => c.value_type \in ValueTypes /\ ~HasBits(c)
          /\ IsText(c) => ~HasBits(c)
          /\ c.kind = "number" => c.register_type = "holding" /\ c.register_count = 0
          /\ c.kind = "switch" => c.register_type \in {"coil", "holding"}

\* only a text sensor looks at the length of the answer before it reads at its
\* offset: what the others read is part of their range
ASSUME RangeAssumption ==
    \A e \in Entities :
        /\ e.start \in UInt(16) /\ e.range \in UInt(8) \ {0}
        /\ \/ IsText(e)
           \/ HasBits(e) /\ e.offset < e.range
           \/ /\ ~HasBits(e)
              /\ e.offset + 2 * (IF IsNumeric(e) THEN RegisterCount(e.value_type) ELSE 1)
                    <= 2 * e.range

VARIABLES
    entity,   \* one of Entities
    memory,   \* of the server: bits and registers by type and address
    shown,    \* the state of the entity
    polled    \* history: shown is the answer to a poll, and nothing changed since

vars == <<entity, memory, shown, polled>>

\* the addresses a configuration is about.  byte_offset counts coils or bytes of
\* registers, but the registers of a switch; register_count of a text sensor
\* may end it earlier than response_size, and so may the range.
EntityAddress(e) ==
    e.address + IF HasBits(e) \/ e.kind = "switch" THEN e.byte_offset ELSE e.byte_offset \div 2
EntityAddresses(e) ==
    LET last == IF IsText(e) THEN e.address + (e.byte_offset + e.response_size - 1) \div 2
                ELSE EntityAddress(e) + (IF IsNumeric(e) THEN RegisterCount(e.value_type) ELSE 1) - 1
    IN  EntityAddress(e) .. last

\* The offsets that create_register_ranges_() computes fit into their byte,
\* and the registers have addresses.
PlacesFit ==
    /\ \A c \in Configurations :
          /\ c.kind = "number" => c.byte_offset + 2 * c.before < 256
          /\ c.kind = "switch" => (IF HasBits(c) THEN c.before ELSE 2 * c.before) < 256
    /\ \A e \in Entities : EntityAddress(e) \in UInt(16)

\* The device has the registers and coils of the entities, and a switch on a
\* register has a bit of it.
DeviceFits ==
    /\ \A e \in Entities : EntityAddresses(e) \subseteq Addresses
    /\ \A c \in Configurations :
          c.kind = "switch" /\ ~HasBits(c) => c.mask \cap (0 .. 15) # {}

\* The offsets of the entities on registers fit into their byte as well, and
\* those that are not texts begin with a register.  A mask for a signed value
\* has no bit beyond the value, and not both of its ends: the program extends
\* the sign of what is left.
ReadsFit ==
    \A c \in Configurations : ~HasBits(c) =>
        LET last == Width(c.value_type) - 1
            within == c.mask \cap (0 .. last)
        IN  /\ IF c.kind = "switch" THEN 2 * c.before < 256
               ELSE c.byte_offset + 2 * c.before < 256
            /\ c.kind \in {"number", "sensor", "binary_sensor"} => c.byte_offset % 2 = 0
            /\ IsNumeric(c) /\ c.value_type \in SignedTypes /\ c.mask # 0 .. 31 =>
                  within \in {{}, c.mask} /\ ~({0, last} \subseteq within)

\* the registers begin with a different value each
Memory == [Types -> [Addresses -> Word]]
InitialMemory ==
    [t \in Types |-> [a \in Addresses |->
        IF t \in BitTypes THEN {} ELSE Bits((257 * a) % 65536)]]

Init ==
    /\ entity \in Entities
    /\ memory = InitialMemory
    /\ shown = NoValue
    /\ polled = FALSE
-----------------------------------------------------------------------------
(* The commands: function code, register address, count and payload.       *)

Command(fc, address, count, payload) ==
    [function_code |-> fc, address |-> address % 65536, count |-> count, payload |-> payload]

\* modbus_register_read_function()
ReadFunction ==
    [t \in Types |-> CASE t = "coil" -> 1 [] t = "discrete_input" -> 2
                       [] t = "holding" -> 3 [] t = "read" -> 4]

\* update_range_() polls the range and not the entity
CreateReadCommand(e) == Command(ReadFunction[e.register_type], e.start, e.range, <<>>)

\* variant: 1 for a coil that is on, instead of 0xFF
CreateWriteCoilOne(address, state) ==
    Command(5, address, 1, <<IF state THEN {0} ELSE {}, {}>>)

CreateWriteSingleCoil(address, state) ==
    Command(5, address, 1, <<IF state THEN 0 .. 7 ELSE {}, {}>>)
CreateWriteMultipleCoils(address, states) ==
    Command(15, address, Len(states), CoilsAsBytes(states))
CreateWriteSingleCommand(address, word) == Command(6, address, 1, TwoBytes(word))
CreateWriteMultipleCommand(address, count, words) ==
    Command(16, address, count, WordsAsBytes(words))

\* variant: offset taken for a count of registers
NumberCommandAtOffset(e, value) ==
    CreateWriteSingleCommand(e.start + e.offset, NumberToPayload(value, e.value_type)[1])

\* ModbusTCPNumber::control(): a value of more than one register is always
\* written by the command for several
NumberCommand(e, value) ==
    LET data == NumberToPayload(value, e.value_type)
        address == e.start + e.offset \div 2
    IN  IF e.count = 1 /\ ~e.use_write_multiple
        THEN CreateWriteSingleCommand(address, data[1])
        ELSE CreateWriteMultipleCommand(address, e.count, data)

\* ModbusTCPSwitch::write_state()
SwitchCommand(e, state) ==
    LET word == IF state THEN e.mask \cap (0 .. 15) ELSE {}
        address == e.start + e.offset \div 2
    IN  IF e.register_type = "coil"
        THEN IF e.use_write_multiple
             THEN CreateWriteMultipleCoils(e.start + e.offset, <<state>>)
             ELSE CreateWriteSingleCoil(e.start + e.offset, state)
        ELSE IF e.use_write_multiple
             THEN CreateWriteMultipleCommand(address, 1, <<word>>)
             ELSE CreateWriteSingleCommand(address, word)
-----------------------------------------------------------------------------
(* The frames.                                                             *)

MAX_VALUES == 128
MAX_FRAME_SIZE == 256

\* the beginning of a frame, as far as the payload
Header(c) ==
    TwoBytes(Bits(Tid)) \o <<{}, {}, {}>>
        \o <<IF c.payload = <<>> THEN Bits(6) ELSE Bits((4 + Len(c.payload)) % 256)>>
        \o <<Bits(Unit), Bits(c.function_code)>> \o TwoBytes(Bits(c.address))
        \o (IF c.function_code \in {5, 6} THEN <<>> ELSE TwoBytes(Bits(c.count)))

\* the payload, behind its length when several values are written
Payload(c) ==
    IF c.payload = <<>> THEN <<>>
    ELSE IF c.function_code \in {15, 16} THEN <<Bits(Len(c.payload) % 256)>> \o c.payload
    ELSE SubSeq(c.payload, 1, 2)

\* what ModbusTCP::send() composes, <<>> when it returns early
Frame(c) ==
    LET frame == Header(c) \o Payload(c)
    IN  IF \/ c.count > MAX_VALUES /\ c.function_code <= 16
           \/ Len(frame) > MAX_FRAME_SIZE
        THEN <<>> ELSE frame

\* the number a byte or word stands for
Number(bits) == MapThenSumSet(LAMBDA b : 2^b, bits)

\* what send_message() writes of it: as much as its length byte says
Transmitted(frame) ==
    IF frame = <<>> THEN <<>>
    ELSE SubSeq(frame, 1, Number(frame[6]) + 6)
-----------------------------------------------------------------------------
(* The server, with what the Modbus specification asks of it: a request    *)
(* that is not whole, or is for an address it does not have, is refused.   *)

NumberAt(bytes, i) == 256 * Number(bytes[i]) + Number(bytes[i + 1])

\* the addresses a request is about
Asked(bytes) ==
    LET first == NumberAt(bytes, 9)
        count == IF bytes[8] \in {Bits(5), Bits(6)} THEN 1 ELSE NumberAt(bytes, 11)
    IN  first .. first + count - 1

\* the length that the function code calls for
Whole(bytes) ==
    /\ Len(bytes) >= 12
    /\ bytes[8] \in {Bits(15), Bits(16)} =>
          Len(bytes) > 12 /\ Len(bytes) = 13 + Number(bytes[13])

Served(bytes) ==
    /\ Whole(bytes)
    /\ bytes[7] = Bits(Unit)
    /\ Asked(bytes) \subseteq Addresses

\* its memory after a write
MemoryAfter(bytes) ==
    LET first == NumberAt(bytes, 9)
        sent == GetData(bytes, 10, 2)
        word(a) == GetData(bytes, 13 + 2 * (a - first), 2)
        Change(type, Value(_)) ==
            [memory EXCEPT ![type] =
                [a \in Addresses |-> IF a \in Asked(bytes) THEN Value(a) ELSE @[a]]]
        coil(a) == IF CoilFromVector(a - first, SubSeq(bytes, 14, Len(bytes)))
                   THEN {0} ELSE {}
    IN  CASE bytes[8] = Bits(5) ->
                Change("coil", LAMBDA a : IF sent = 8 .. 15 THEN {0} ELSE {})
          [] bytes[8] = Bits(6) -> Change("holding", LAMBDA a : sent)
          [] bytes[8] = Bits(15) -> Change("coil", coil)
          [] bytes[8] = Bits(16) -> Change("holding", word)

\* the data of its answer to a read
Answered(bytes) ==
    LET first == NumberAt(bytes, 9)
        count == NumberAt(bytes, 11)
        type == CHOOSE t \in Types : bytes[8] = Bits(ReadFunction[t])
        cells == [i \in 1 .. count |-> memory[type][first + i - 1]]
    IN  IF type \in BitTypes THEN CoilsAsBytes([i \in 1 .. count |-> cells[i] # {}])
        ELSE WordsAsBytes(cells)
-----------------------------------------------------------------------------
(* parse_and_publish() of the kinds of entities.  Their lambdas, the       *)
(* factor of a number and the rounding to a float are left out.            *)

\* of a sensor and a number: payload_to_float()
NumericState(e, data) == PayloadToNumber(data, e.value_type, e.offset, e.mask)

\* of a switch and a binary sensor
BinaryState(e, data) ==
    IF HasBits(e) THEN CoilFromVector(e.offset, data)
    ELSE MaskedState(data, e.offset, e.mask)

\* A text is a sequence of what it is composed of: hexadecimal digits, decimal
\* numbers, commas and characters.
High(byte) == ShiftRight(byte, 4)
Low(byte) == byte \cap (0 .. 3)

\* variant: a comma in front of the first number too
EncodedLeading(byte, encode, first) ==
    CASE encode = "HEXBYTES" -> <<<<"digit", High(byte)>>, <<"digit", Low(byte)>>>>
      [] encode = "COMMA" -> <<<<"comma", {}>>, <<"number", byte>>>>
      [] encode = "ANSI" -> IF Number(byte) < 32 THEN <<>> ELSE <<<<"character", byte>>>>
      [] OTHER -> <<<<"character", byte>>>>

\* what a byte adds to a text
Encoded(byte, encode, first) ==
    CASE encode = "HEXBYTES" -> <<<<"digit", High(byte)>>, <<"digit", Low(byte)>>>>
      [] encode = "COMMA" ->
            (IF first THEN <<>> ELSE <<<<"comma", {}>>>>) \o <<<<"number", byte>>>>
      [] encode = "ANSI" -> IF Number(byte) < 32 THEN <<>> ELSE <<<<"character", byte>>>>
      [] OTHER -> <<<<"character", byte>>>>

\* of a text sensor: up to response_bytes bytes of what there is behind offset
TextState(e, data) ==
    LET there == SubSeq(data, e.offset + 1, Min({Len(data), e.offset + e.response_size}))
    IN  FoldLeftDomain(LAMBDA text, i : text \o Encoded(there[i], e.encode, i = 1), <<>>, there)

ParseAndPublish(e, data) ==
    IF IsNumeric(e) THEN NumericState(e, data)
    ELSE IF IsText(e) THEN TextState(e, data)
    ELSE BinaryState(e, data)

\* control() or write_state(): the state is shown as soon as the command is
\* queued, whether or not the server takes it
WriteState(command, value) ==
    LET bytes == Transmitted(Frame(command))
    IN  /\ memory' = IF Served(bytes) THEN MemoryAfter(bytes) ELSE memory
        /\ shown' = value
        /\ polled' = FALSE
        /\ UNCHANGED entity

\* only values that the type of the number can hold
SetNumber(value) ==
    /\ entity.kind = "number"
    /\ Fits(value, entity.value_type)
    /\ WriteState(NumberCommand(entity, value), value)

SetSwitch(state) ==
    /\ entity.kind = "switch"
    /\ WriteState(SwitchCommand(entity, state), state)

\* update_range_() of the entity's range, and the answer if there is one
Poll ==
    LET bytes == Transmitted(Frame(CreateReadCommand(entity)))
    IN  /\ IF Served(bytes)
           THEN shown' = ParseAndPublish(entity, Answered(bytes)) /\ polled' = TRUE
           ELSE UNCHANGED <<shown, polled>>
        /\ UNCHANGED <<entity, memory>>

\* the device changes a register or coil of the entity by itself, as a bound
\* one of them between two polls
DeviceChanges(a, word) ==
    /\ polled
    /\ memory' = [memory EXCEPT ![entity.register_type][a] = word]
    /\ polled' = FALSE
    /\ UNCHANGED <<entity, shown>>

Next ==
    \/ \E value \in Numbers : SetNumber(value)
    \/ \E state \in BOOLEAN : SetSwitch(state)
    \/ Poll
    \/ \E a \in EntityAddresses(entity) \cap Addresses :
          \E word \in IF HasBits(entity) THEN SUBSET {0} ELSE Words : DeviceChanges(a, word)

Spec == Init /\ [][Next]_vars
-----------------------------------------------------------------------------
(* What the state of the entity means, from the registers of the device.   *)

\* a register that is high-word first has the bits above those of the next
RawBits(e) ==
    LET n == RegisterCount(e.value_type)
        place(k) == IF e.value_type \in LowWordFirst THEN k ELSE n - 1 - k
    IN  UNION {ShiftLeft(memory[e.register_type][EntityAddress(e) + k], 16 * place(k)) :
                   k \in 0 .. n - 1}

\* the bytes of a text, as far as the range goes: the high byte of a register
\* is the first
TextBytes(e) ==
    LET end == Min({e.byte_offset + e.response_size, 2 * (e.start + e.range - e.address)})
        byte(k) == TwoBytes(memory[e.register_type][e.address + k \div 2])[(k % 2) + 1]
    IN  [k \in 1 .. end - e.byte_offset |-> byte(e.byte_offset + k - 1)]

TextMeaning(e) ==
    LET bytes == TextBytes(e)
        n == Len(bytes)
        byte(k) == bytes[(k + 1) \div 2]
    IN  CASE e.encode = "HEXBYTES" ->
                [k \in 1 .. 2 * n |->
                    <<"digit", IF k % 2 = 1 THEN High(byte(k)) ELSE Low(byte(k))>>]
          [] e.encode = "COMMA" ->
                [k \in 1 .. 2 * n - 1 |->
                    IF k % 2 = 1 THEN <<"number", byte(k)>> ELSE <<"comma", {}>>]
          [] OTHER ->
                [k \in 1 .. n |-> <<"character", bytes[k]>>]

\* in a text of characters only the printable ones are shown
Printable(text) ==
    LET printable == {i \in DOMAIN text : text[i][2] \cap (5 .. 7) # {}}
        upTo(i) == {j \in printable : j <= i}
    IN  [k \in 1 .. Cardinality(printable) |->
            text[CHOOSE i \in printable : Cardinality(upTo(i)) = k]]

Meaning(e) ==
    IF IsText(e) THEN
        IF e.encode = "ANSI" THEN Printable(TextMeaning(e)) ELSE TextMeaning(e)
    ELSE IF ~IsNumeric(e) THEN
        IF HasBits(e) THEN memory[e.register_type][EntityAddress(e)] # {}
        ELSE memory[e.register_type][EntityAddress(e)] \cap e.mask # {}
    ELSE IF e.mask = 0 .. 31 \/ e.value_type \in QWordTypes THEN
        IF e.value_type \in SignedTypes
        THEN SignExtend(RawBits(e), Width(e.value_type)) ELSE RawBits(e)
    ELSE ShiftRight(RawBits(e) \cap e.mask, Min(e.mask))

TypeOK ==
    /\ entity \in Entities
    /\ memory \in Memory
    /\ \/ shown = NoValue
       \/ shown \in IF IsNumeric(entity) THEN SUBSET (0 .. 63)
                    ELSE IF IsText(entity) THEN
                        Seq({"digit", "number", "comma", "character"} \X Byte)
                    ELSE BOOLEAN
    /\ polled \in BOOLEAN

\* Whatever its place in the range, its type and its mask are, an entity
\* shows after a poll what the device holds at its own address
\* (create_read_command(), send(), payload_to_number(), coil_from_vector()).
PollShowsTheDevice == polled => shown = Meaning(entity)

\* what is written with the commands for a single register or coil
WritesSingle(e) ==
    ~e.use_write_multiple /\ (e.kind = "number" => RegisterCount(e.value_type) = 1)

TakesEffect(e) ==
    /\ \A value \in Numbers : SetNumber(value) /\ e.mask = 0 .. 31 => Meaning(e)' = value
    /\ \A state \in BOOLEAN : SetSwitch(state) => Meaning(e)' = state

\* Setting a switch, or a number without a mask, by the command for a single
\* register or coil leaves the device with a value that is read back as the
\* one that was set (control() and write_state() against parse_and_publish()).
SingleWritesTakeEffect == [][WritesSingle(entity) => TakesEffect(entity)]_vars

\* The same for every number and switch.  It is violated: the length byte
\* of a request that writes several values does not count the address, the
\* count and the length of the values, and its last three bytes are not sent.
WritesTakeEffect == [][TakesEffect(entity)]_vars

\* A request changes nothing in the device but the registers or coils of the
\* entity it was made for (the addresses of the commands).
OnlyOwnRegistersChange ==
    [][\A t \in Types : \A a \in Addresses :
          memory'[t][a] # memory[t][a] =>
              t = entity.register_type /\ a \in EntityAddresses(entity)]_vars
=============================================================================
