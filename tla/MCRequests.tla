----------------------------- MODULE MCRequests -----------------------------
(* Model checking of the requests: entities of every kind and value type, at *)
(* addresses around 256, where the address begins to take two bytes.         *)
EXTENDS Requests

MCAddresses == 252 .. 263
MCTid == 513

AllBits == 0 .. 31

Base == [kind |-> "sensor", register_type |-> "holding", value_type |-> "BIT", address |-> 254,
         byte_offset |-> 0, register_count |-> 0, response_size |-> 0, encode |-> "NONE",
         mask |-> AllBits, use_write_multiple |-> FALSE, before |-> 0, after |-> 2]

\* first in its range or behind another register, with and without an offset
Configured(kinds, register_types, value_types, masks) ==
    {[Base EXCEPT !.kind = k, !.register_type = rt, !.value_type = vt, !.mask = m,
                  !.byte_offset = o, !.before = b, !.use_write_multiple = w] :
        k \in kinds, rt \in register_types, vt \in value_types, m \in masks,
        o \in {0, 2}, b \in {0, 1}, w \in IF kinds = {"sensor"} THEN {FALSE} ELSE BOOLEAN}

NumberEntities == Configured({"number"}, {"holding"}, ValueTypes, {AllBits})
SensorEntities ==
    Configured({"sensor"}, {"read"}, ValueTypes \ QWordTypes, {8 .. 15, {0}, {20}})
        \cup {[Base EXCEPT !.value_type = "S_DWORD", !.byte_offset = 4, !.register_count = 5]}
OnRegister ==
    {c \in Configured({"switch", "binary_sensor"}, {"holding"}, {"BIT"}, {AllBits, {0}, {15}}) :
        c.kind = "switch" \/ ~c.use_write_multiple}
OnCoil ==
    {[Base EXCEPT !.kind = k, !.register_type = rt, !.address = 253, !.byte_offset = o,
                  !.before = b, !.use_write_multiple = w] :
        <<k, rt, w>> \in {"switch"} \X {"coil"} \X BOOLEAN
            \cup {"binary_sensor"} \X BitTypes \X {FALSE},
        o \in {0, 5, 7}, b \in {0, 1}}
\* the third ends with its registers, before its response_size
Texts ==
    {[Base EXCEPT !.kind = "text_sensor", !.encode = en, !.byte_offset = o, !.before = b,
                  !.response_size = n[1], !.register_count = n[2], !.after = n[3]] :
        en \in {"NONE", "HEXBYTES", "COMMA", "ANSI"}, o \in {0, 1}, b \in {0, 1},
        n \in {<<2, 0, 1>>, <<5, 3, 0>>, <<6, 1, 0>>}}
\* one whose range is too large to be asked for
TooLarge ==
    {[c EXCEPT !.after = 128] : c \in {d \in NumberEntities : d.value_type = "U_WORD"}}

MCConfigurations ==
    NumberEntities \cup SensorEntities \cup OnRegister \cup OnCoil \cup Texts \cup TooLarge

\* 0x8001, 0xFF41
MCWords == {{0, 15}, {0, 6} \cup 8 .. 15}

\* 0, 1, 0x1234, 0x8000, 0xFFFF, 0x123456, and -1, -2, -32768, -16777215
MCNumbers ==
    {{}, {0}, {2, 4, 5, 9, 12}, {15}, 0 .. 15, {1, 2, 4, 6, 10, 12, 13, 17, 20},
     0 .. 63, 1 .. 63, 15 .. 63, {0} \cup 24 .. 63}

\* what the theorems of RequestsProofs assume
ASSUME PlacesFit /\ DeviceFits /\ ReadsFit
=============================================================================
