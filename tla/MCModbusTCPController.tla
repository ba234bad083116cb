------------------------ MODULE MCModbusTCPController ------------------------
(* Constants for model checking the controller; a .cfg chooses among them.   *)
EXTENDS ModbusTCPController

CONSTANTS c1, c2, r1, r2, r3, r4, n1, v1, v2, bytes

One == [c \in Controllers |-> 1]
OneAndTwo == [c \in Controllers |-> IF c = c1 THEN 1 ELSE 2]
MCUnits == {Unit[c] : c \in Controllers}

OneRange == [c \in Controllers |-> <<r1>>]
TwoRanges == [c \in Controllers |-> <<r1, r2>>]
FourRanges == [c \in Controllers |-> <<r1, r2, r3, r4>>]
TwoAndOne == [c \in Controllers |-> IF c = c1 THEN <<r1, r2>> ELSE <<r3>>]

\* r4, where there is one, is custom with nothing to send
MCCustomPayload == [r \in CustomRanges |-> IF r = r4 THEN NoValue ELSE bytes]
MCRawBytes == [p \in {bytes} |-> [empty |-> FALSE, head |-> 1, tid |-> 0]]
MCKey == [item \in Items |-> item]

NoSkip == [r \in Ranges |-> 0]
SkipOne == [r \in Ranges |-> IF r = r1 THEN 1 ELSE 0]

HomeC1 == [n \in Numbers |-> c1]
RangeR1 == [n \in Numbers |-> r1]
LowAddress == [n \in Numbers |-> 0]
HighAddress == [n \in Numbers |-> 4]
=============================================================================
