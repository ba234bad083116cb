---------------------------- MODULE FrameChannel ----------------------------
(***************************************************************************)
(* What the receive path of ModbusTCP promises to the rest of the          *)
(* component, and what module ModbusTCP takes for granted of fromServer:   *)
(* while a connection is good, every frame that was sent on it arrives,    *)
(* whole, once and in order.                                               *)
(***************************************************************************)
EXTENDS Naturals, Sequences

CONSTANT Frames  \* the frames, as sequences of bytes

VARIABLES
    sent,  \* the frames sent on this connection
    got    \* the frames that have arrived of them

Init == sent = <<>> /\ got = <<>>

Send == \E f \in Frames : sent' = Append(sent, f) /\ UNCHANGED got

Get ==
    /\ Len(got) < Len(sent)
    /\ got' = Append(got, sent[Len(got) + 1])
    /\ UNCHANGED sent

\* the connection is lost, or goes bad
Break == sent' = <<>> /\ got' = <<>>

Next == Send \/ Get \/ Break

Safety == Init /\ [][Next]_<<sent, got>>

\* a frame does not wait for ever while the connection stays good
Delivery == WF_<<sent, got>>(Get)

Spec == Safety /\ Delivery
=============================================================================
