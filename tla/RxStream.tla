------------------------------ MODULE RxStream ------------------------------
(***************************************************************************)
(* The receive path of ModbusTCP, byte by byte: handle_message(),          *)
(* process_buffer_() and handle_frame_() of                                *)
(* src/components/modbustcp/modbustcp.cpp.                                 *)
(*                                                                         *)
(* TCP hands over the bytes of the stream in pieces of any size, and the   *)
(* frames have to be found in them again by the length field of their      *)
(* MBAP header.  One turn of the loop of process_buffer_() is one action;  *)
(* on the ESP32 the main task may send a request between two of them.      *)
(* Module FrameChannel says what the other modules rely on.                *)
(***************************************************************************)
EXTENDS Integers, Sequences, SequencesExt

CONSTANTS
    Frames,         \* what a server may send: [tid, len, pdu], see Bytes
    Tids,           \* the transaction ids of the requests
    MaxFrames,      \* bound on the frames sent on one connection
    MaxConnections  \* bound on the connections

MBAPHeaderLen == 7   \* MBAP_HEADER_LEN
MaxFrameLen == 260   \* MAX_FRAME_LEN

Byte == 0 .. 255
Word == 0 .. 256 * 256 - 1

ASSUME StreamAssumption ==
    /\ Frames \subseteq [tid : Word, len : Word, pdu : Seq(Byte)]
    /\ Tids \subseteq Word
    /\ MaxFrames \in Nat /\ MaxConnections \in Nat

VARIABLES
    stream,      \* the bytes of this connection that have not been read
    rx,          \* rx_buffer_
    expected,    \* expected_transaction_id_
    sent,        \* history: the frames sent on this connection
    handled,     \* history: what handle_frame_() was called with since it began
    delivered,   \* history: what the devices were given since it began
    clean,       \* history: rx was empty when it began
    connections  \* how many there have been

vars == <<stream, rx, expected, sent, handled, delivered, clean, connections>>

\* a frame on the wire: MBAP header (with unit 1) and PDU
Bytes(f) ==
    <<f.tid \div 256, f.tid % 256, 0, 0, f.len \div 256, f.len % 256, 1>> \o f.pdu

WellFormed(f) == f.len = 1 + Len(f.pdu) /\ Len(Bytes(f)) <= MaxFrameLen

Init ==
    /\ stream = <<>> /\ rx = <<>>
    /\ expected = 0
    /\ sent = <<>> /\ handled = <<>> /\ delivered = <<>>
    /\ clean = TRUE
    /\ connections = 1

-----------------------------------------------------------------------------
(* The loop of process_buffer_().                                          *)

LengthField == rx[5] * 256 + rx[6]

\* variant with a mistake: the length begins after the whole header
FrameLenLong == MBAPHeaderLen + LengthField

FrameLen == 6 + LengthField

HasHeader == Len(rx) >= MBAPHeaderLen
Implausible == LengthField = 0 \/ FrameLen > MaxFrameLen

\* the loop has returned: there is no complete frame in the buffer
Waits == HasHeader => ~Implausible /\ Len(rx) < FrameLen

Discard ==
    /\ HasHeader /\ Implausible
    /\ rx' = <<>>
    /\ UNCHANGED <<stream, expected, sent, handled, delivered, clean, connections>>

\* variant with a mistake: the transaction id is not looked at
AcceptsAny(frame) ==
    /\ Len(frame) >= 9
    /\ frame[8] < 128
    /\ 9 + frame[9] <= Len(frame)

\* handle_frame_() does not return early: id, function code, length and count
\* are in order.  (A frame of 7 bytes has no function code, and whatever is
\* read in its place, the frame is too short.)
Accepts(frame) ==
    /\ frame[1] * 256 + frame[2] = expected
    /\ Len(frame) >= 9
    /\ frame[8] < 128
    /\ 9 + frame[9] <= Len(frame)

Data(frame) == SubSeq(frame, 10, 9 + frame[9])

HandleFrame(frame) ==
    /\ handled' = Append(handled, frame)
    /\ delivered' = IF Accepts(frame) THEN Append(delivered, Data(frame)) ELSE delivered

\* variant with a mistake: the rest of the buffer goes with the frame
DispatchAll ==
    /\ HasHeader /\ ~Implausible
    /\ Len(rx) >= FrameLen
    /\ HandleFrame(SubSeq(rx, 1, FrameLen))
    /\ rx' = <<>>
    /\ UNCHANGED <<stream, expected, sent, clean, connections>>

Dispatch ==
    /\ HasHeader /\ ~Implausible
    /\ Len(rx) >= FrameLen
    /\ HandleFrame(SubSeq(rx, 1, FrameLen))
    /\ rx' = SubSeq(rx, FrameLen + 1, Len(rx))
    /\ UNCHANGED <<stream, expected, sent, clean, connections>>

-----------------------------------------------------------------------------
(* What happens between two runs of the loop.                              *)

\* variant with a mistake: the bytes replace those of the last call
HandleMessageReplaces ==
    /\ Waits
    /\ \E n \in 1 .. Len(stream) :
         /\ rx' = SubSeq(stream, 1, n)
         /\ stream' = SubSeq(stream, n + 1, Len(stream))
    /\ UNCHANGED <<expected, sent, handled, delivered, clean, connections>>

\* onData: handle_message() with the next bytes, however many they are
HandleMessage ==
    /\ Waits
    /\ \E n \in 1 .. Len(stream) :
         /\ rx' = rx \o SubSeq(stream, 1, n)
         /\ stream' = SubSeq(stream, n + 1, Len(stream))
    /\ UNCHANGED <<expected, sent, handled, delivered, clean, connections>>

\* the connection is lost, and there is a new one: rx_buffer_ stays as it is
Reconnect ==
    /\ Waits
    /\ connections < MaxConnections
    /\ connections' = connections + 1
    /\ stream' = <<>>
    /\ sent' = <<>> /\ handled' = <<>> /\ delivered' = <<>>
    /\ clean' = (rx = <<>>)
    /\ UNCHANGED <<rx, expected>>

\* send(): the response to this request is the one that is expected
SendRequest ==
    /\ expected' \in Tids
    /\ UNCHANGED <<stream, rx, sent, handled, delivered, clean, connections>>

ServerSends(f) ==
    /\ Len(sent) < MaxFrames
    /\ stream' = stream \o Bytes(f)
    /\ sent' = Append(sent, f)
    /\ UNCHANGED <<rx, expected, handled, delivered, clean, connections>>

Next ==
    \/ Discard
    \/ Dispatch
    \/ HandleMessage
    \/ Reconnect
    \/ SendRequest
    \/ \E f \in Frames : ServerSends(f)

\* the loop goes on to its end, and bytes that were sent come in
Spec ==
    /\ Init /\ [][Next]_vars
    /\ WF_vars(Discard \/ Dispatch)
    /\ WF_vars(HandleMessage)

-----------------------------------------------------------------------------
(* Properties.                                                             *)

\* one frame and nothing more, by its own length field
ADU == {frame \in Seq(Byte) :
          /\ Len(frame) \in MBAPHeaderLen .. MaxFrameLen
          /\ Len(frame) = 6 + frame[5] * 256 + frame[6]}

\* The variables keep their types; whatever comes in, handle_frame_() is only
\* called with a whole frame.
TypeOK ==
    /\ stream \in Seq(Byte)
    /\ rx \in Seq(Byte)
    /\ expected \in Word
    /\ sent \in Seq(Frames)
    /\ handled \in Seq(ADU)
    /\ delivered \in Seq(Seq(Byte))
    /\ clean \in BOOLEAN
    /\ connections \in Nat

\* a connection that began with an empty buffer, and a server that has sent
\* nothing but well-formed frames on it
Good == clean /\ \A i \in 1 .. Len(sent) : WellFormed(sent[i])

\* However TCP cuts the stream, the frames of a good connection are handled
\* whole, once and in order (78-118): a refinement.
Channel == INSTANCE FrameChannel WITH
    Frames <- {Bytes(f) : f \in Frames},
    sent <- IF Good THEN [i \in 1 .. Len(sent) |-> Bytes(sent[i])] ELSE <<>>,
    got <- IF Good THEN handled ELSE <<>>
FramesArriveInOrder == Channel!Safety

\* None of them is left in rx_buffer_ for ever (95-117): the rest of the refinement.
AllFramesArrive == Channel!Delivery

\* the data of a response, told from its PDU
IsAnswer(f) == f.pdu[1] < 128 /\ Len(f.pdu) >= 2 /\ 2 + f.pdu[2] <= Len(f.pdu)
AnswerData(f) == SubSeq(f.pdu, 3, 2 + f.pdu[2])

\* What the devices are given on a good connection is the data of the answer to
\* the last request, all of it and nothing else, never part of an exception or
\* of a frame that promises more than it holds (120-174).
OnlyAnswersAreDelivered ==
    [][Good /\ Len(delivered') > Len(delivered) =>
         LET f == sent[Len(handled')]
         IN  /\ f.tid = expected
             /\ IsAnswer(f)
             /\ delivered' = Append(delivered, AnswerData(f))]_vars
=============================================================================
