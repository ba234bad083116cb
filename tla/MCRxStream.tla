----------------------------- MODULE MCRxStream -----------------------------
(* Model checking of the receive path: an answer of two bytes, an exception, *)
(* the acknowledgement of a write to address 0x400, whose count is larger    *)
(* than what follows it, and frames with a length field of 0, 1 and too much.*)
EXTENDS RxStream

Answer == [tid |-> 1, len |-> 5, pdu |-> <<3, 2, 7, 8>>]
Exception == [tid |-> 1, len |-> 3, pdu |-> <<131, 2>>]
Ack == [tid |-> 2, len |-> 6, pdu |-> <<6, 4, 0, 0, 5>>]
Zero == [tid |-> 1, len |-> 0, pdu |-> <<>>]
Empty == [tid |-> 1, len |-> 1, pdu |-> <<>>]
Long == [tid |-> 1, len |-> 300, pdu |-> <<>>]

MCFrames == {Answer, Exception, Ack, Zero, Empty, Long}
MCTids == {1, 2}
=============================================================================
