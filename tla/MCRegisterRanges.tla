-------------------------- MODULE MCRegisterRanges --------------------------
(* Model checking of create_register_ranges_() on every configuration of     *)
(* four sensors, which lie in memory in the order they are sorted in, or in  *)
(* the opposite one.                                                         *)
EXTENDS RegisterRanges

MCSensors == 1 .. 4

\* the sensors in their order, by their places in memory
MCOrders == {<<1, 2, 3, 4>>, <<4, 3, 2, 1>>}

Holding == [kind : {"holding"}, start : 0 .. 2, count : {1, 2}, offset : {0},
            size : {0}, skip : {0}, force : BOOLEAN]
Skipping == [kind : {"holding"}, start : {0}, count : {1}, offset : {0},
             size : {0}, skip : {1, 2}, force : {FALSE}]
\* a binary sensor of coil start + offset
Coils == UNION {[kind : {"coil"}, start : 0 .. 1, count : {o + 1}, offset : {o},
                 size : {0}, skip : {0}, force : BOOLEAN] : o \in {0, 1}}
\* a value packed into a register, as an offset into its response
Packed == [kind : {"holding"}, start : {0}, count : {1}, offset : {1},
           size : {0}, skip : {0}, force : {FALSE}]
\* custom commands begin a new range, by the configuration's own rule
Custom == [kind : {"custom"}, start : {0}, count : {1}, offset : {0},
           size : {0}, skip : {0}, force : {TRUE}]
\* registers of five bytes, and of three: with three of them, and eight as the
\* number of values of a byte, the offset of the last one wraps
Resized == [kind : {"holding"}, start : 0 .. 2, count : {1}, offset : {0}, size : {3, 5},
            skip : {0}, force : {FALSE}]

MCItems == Resized \cup Holding \cup Skipping \cup Coils \cup Packed \cup Custom
=============================================================================
