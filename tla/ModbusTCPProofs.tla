--------------------------- MODULE ModbusTCPProofs ---------------------------
(***************************************************************************)
(* Theorems about the transport with any devices on its bus, for every     *)
(* value of the constants.                                                 *)
(***************************************************************************)
EXTENDS ModbusTCP, SequenceTheorems, TLAPS

\* The frames of the transport on its own: a device is known by its address.
Requests == [tid : Nat, pdu : Units]
Responses == [tid : Nat, pdu : Units, exception : BOOLEAN, count : Nat, room : Nat]

Frames == toServer \in Seq(Requests) /\ fromServer \in Seq(Responses)

\* The bus is free only once the last request is old enough.
BusIsOld == waiting = 0 /\ tid # 0 => sendAge > SendWait

Inv == TCPTypeOK /\ Frames /\ ConnectedIffOpen

LEMMA InitInv == TCPInit => Inv /\ BusIsOld
<1> SUFFICES ASSUME TCPInit
             PROVE  Inv /\ BusIsOld
  OBVIOUS
<1>1. <<>> \in Seq(Requests) /\ <<>> \in Seq(Responses) /\ Len(<<>>) = 0
  BY EmptySeq
<1>2. /\ 0 \in 0 .. TidModulus - 1 /\ 0 <= Window
      /\ 0 \in 0 .. SendWait + 1 /\ 0 \in 0 .. ReconnectDelay + 1
  BY TransportAssumption
<1>3. toServer = <<>> /\ fromServer = <<>>
  BY DEF TCPInit
<1>4. Frames /\ Len(toServer) <= Window /\ Len(fromServer) <= Window
  BY <1>1, <1>2, <1>3 DEF Frames
<1>5. TCPTypeOK
  BY <1>2, <1>4 DEF TCPInit, TCPTypeOK
<1>6. ConnectedIffOpen /\ BusIsOld
  BY DEF TCPInit, ConnectedIffOpen, BusIsOld
<1> QED
  BY <1>4, <1>5, <1>6 DEF Inv

\* The callbacks of the client and loop().
LEMMA ConnectionInv ==
    ASSUME Inv, ModbusLoop \/ OnConnect \/ OnDisconnect \/ OnError
    PROVE  Inv'
<1>1. 0 \in 0 .. ReconnectDelay + 1
  BY TransportAssumption
<1>2. CASE ModbusLoop
  BY <1>1, <1>2 DEF ModbusLoop, Connect, Inv, TCPTypeOK, Frames, ConnectedIffOpen,
                    tidVars, netVars
<1>3. CASE OnConnect
  BY <1>3 DEF OnConnect, Inv, TCPTypeOK, Frames, ConnectedIffOpen, busVars, tidVars,
              netVars
<1>4. CASE OnDisconnect \/ OnError
  <2>1. /\ toServer' = <<>> /\ fromServer' = <<>>
        /\ <<>> \in Seq(Requests) /\ <<>> \in Seq(Responses) /\ Len(<<>>) = 0
    BY <1>4, EmptySeq DEF OnDisconnect, OnError, LoseFrames
  <2>2. Frames' /\ Len(toServer') <= Window /\ Len(fromServer') <= Window
    BY <2>1, TransportAssumption DEF Frames
  <2> QED
    BY <1>4, <2>2 DEF OnDisconnect, OnError, Inv, TCPTypeOK, ConnectedIffOpen,
                      busVars, tidVars
<1> QED
  BY <1>2, <1>3, <1>4

LEMMA DeviceSendInv ==
    ASSUME Inv, NEW u \in Units, DeviceSend(u)
    PROVE  Inv'
<1> DEFINE frame == [tid |-> tid, pdu |-> u]
<1>1. tid \in Nat /\ TidModulus \in Nat \ {0} /\ u \in Nat
  BY TransportAssumption DEF Inv, TCPTypeOK
<1>2. (tid + 1) % TidModulus \in 0 .. TidModulus - 1
  BY <1>1
<1>3. frame \in Requests
  BY <1>1 DEF Requests
<1>4. toServer' = toServer \/ (Len(toServer) < Window /\ toServer' = Append(toServer, frame))
  BY DEF DeviceSend, SendFrame, SendMessage
<1> HIDE DEF frame
<1>5. toServer' \in Seq(Requests) /\ Len(toServer') <= Window
  <2>1. toServer \in Seq(Requests) /\ Len(toServer) \in Nat /\ Len(toServer) <= Window
    BY DEF Inv, Frames, TCPTypeOK
  <2>2. /\ Append(toServer, frame) \in Seq(Requests)
        /\ Len(Append(toServer, frame)) = Len(toServer) + 1
    BY <1>3, <2>1, AppendProperties
  <2> QED
    BY <1>4, <2>1, <2>2, TransportAssumption
<1>6. 0 \in 0 .. SendWait + 1
  BY TransportAssumption
<1> QED
  BY <1>1, <1>2, <1>5, <1>6 DEF DeviceSend, SendFrame, SendMessage, Stamp, Inv,
                                TCPTypeOK, Frames, ConnectedIffOpen, connVars

\* Frames are taken from the stream, and the server puts back at most one.
LEMMA StreamInv ==
    ASSUME Inv, ServerReply \/ ServerSilent \/ Receive
    PROVE  Inv'
<1>1. /\ toServer \in Seq(Requests) /\ fromServer \in Seq(Responses)
      /\ Len(toServer) \in Nat /\ Len(fromServer) \in Nat
  BY DEF Inv, Frames
<1>2. CASE Receive
  <2>1. fromServer' \in Seq(Responses) /\ Len(fromServer') = Len(fromServer) - 1
    BY <1>1, <1>2, HeadTailProperties DEF Receive
  <2> QED
    BY <1>1, <1>2, <2>1, TransportAssumption
       DEF Receive, Inv, TCPTypeOK, Frames, ConnectedIffOpen, connVars, busVars, tidVars
<1>3. ASSUME NEW replies \in Seq(Responses), Reply(replies) PROVE Inv'
  <2>1. toServer' \in Seq(Requests) /\ Len(toServer') = Len(toServer) - 1
    BY <1>1, <1>3, HeadTailProperties DEF Reply
  <2>2. /\ fromServer' \in Seq(Responses)
        /\ Len(fromServer') = Len(fromServer) + Len(replies)
    BY <1>1, <1>3, ConcatProperties DEF Reply
  <2>3. Len(toServer') <= Window /\ Len(fromServer') <= Window
    BY <1>1, <1>3, <2>1, <2>2, TransportAssumption DEF Reply, Inv, TCPTypeOK
  <2> QED
    BY <1>3, <2>1, <2>2, <2>3 DEF Reply, Inv, TCPTypeOK, Frames, ConnectedIffOpen,
                                  connVars, busVars, tidVars
<1>4. CASE ServerReply
  <2> DEFINE reply == [tid |-> Head(toServer).tid, pdu |-> Head(toServer).pdu,
                       exception |-> FALSE, count |-> 2, room |-> 2]
             replies == <<reply>>
  <2>1. Head(toServer) \in Requests
    BY <1>1, <1>4, HeadTailProperties DEF ServerReply, Reply
  <2>2. reply \in Responses
    BY <2>1 DEF Requests, Responses
  <2>3. Reply(replies)
    BY <1>4 DEF ServerReply
  <2> HIDE DEF reply
  <2>4. replies \in Seq(Responses)
    BY <2>2
  <2> QED
    BY <1>3, <2>3, <2>4
<1>5. CASE ServerSilent
  <2> DEFINE replies == <<>>
  <2>1. replies \in Seq(Responses) /\ Reply(replies)
    BY <1>5, EmptySeq DEF ServerSilent
  <2> HIDE DEF replies
  <2> QED
    BY <1>3, <2>1
<1> QED
  BY <1>2, <1>4, <1>5

LEMMA TickInv == ASSUME Inv, Tick PROVE Inv'
<1>1. \A limit \in Nat : \A age \in 0 .. limit + 1 : Older(age, limit) \in 0 .. limit + 1
  BY DEF Older
<1>2. attemptAge' \in 0 .. ReconnectDelay + 1 /\ sendAge' \in 0 .. SendWait + 1
  BY <1>1, TransportAssumption DEF Tick, TCPTick, Inv, TCPTypeOK
<1> QED
  BY <1>2 DEF Tick, Inv, TCPTypeOK, Frames, ConnectedIffOpen, tidVars, netVars

LEMMA NextInv == Inv /\ [TCPNext]_tcpVars => Inv'
<1> SUFFICES ASSUME Inv, [TCPNext]_tcpVars PROVE Inv'
  OBVIOUS
<1>1. CASE UNCHANGED tcpVars
  BY <1>1 DEF Inv, TCPTypeOK, Frames, ConnectedIffOpen, tcpVars, connVars, busVars,
              tidVars, netVars
<1> QED
  BY <1>1, ConnectionInv, DeviceSendInv, StreamInv, TickInv DEF TCPNext

\* The members keep the ranges of their C++ types, and no more frames are in
\* flight than the client takes.
THEOREM TransportType == TCPSpec => []TCPTypeOK
<1>1. TCPInit => Inv
  BY InitInv
<1>2. Inv => TCPTypeOK
  BY DEF Inv
<1> QED
  BY <1>1, <1>2, NextInv, PTL DEF TCPSpec

\* The three callbacks that keep connected_ never get it wrong, in whatever
\* order errors and disconnections come (modbustcp.cpp 11-31).
THEOREM ConnectedIsRight == TCPSpec => []ConnectedIffOpen
<1>1. TCPInit => Inv
  BY InitInv
<1>2. Inv => ConnectedIffOpen
  BY DEF Inv
<1> QED
  BY <1>1, <1>2, NextInv, PTL DEF TCPSpec

-----------------------------------------------------------------------------
(* Spacing.  waiting_for_response is cleared only when the last request is *)
(* older than send_wait_time, and a device sends only when it is clear.    *)

LEMMA NextOld ==
    ASSUME Inv, BusIsOld, 0 \notin Units, [TCPNext]_tcpVars
    PROVE  BusIsOld' /\ (Sends /\ tid # 0 => sendAge > SendWait)
<1>1. ASSUME NEW u \in Units, DeviceSend(u)
      PROVE  BusIsOld' /\ (Sends /\ tid # 0 => sendAge > SendWait)
  BY <1>1 DEF DeviceSend, Stamp, BusIsOld
<1>2. CASE Tick
  <2>1. \A age \in 0 .. SendWait + 1 : Older(age, SendWait) >= age
    BY TransportAssumption DEF Older
  <2>2. sendAge' >= sendAge /\ sendAge' \in Int /\ sendAge \in Int
    BY <1>2, <2>1, TickInv DEF Tick, TCPTick, Inv, TCPTypeOK
  <2> QED
    BY <1>2, <2>2, TransportAssumption DEF Tick, BusIsOld, Sends, tidVars
<1>3. CASE UNCHANGED tidVars /\ UNCHANGED sendAge /\ (waiting' = 0 => waiting = 0 \/ sendAge > SendWait)
  BY <1>3 DEF BusIsOld, Sends, tidVars
<1>4. CASE ModbusLoop
  BY <1>3, <1>4 DEF ModbusLoop
<1>5. CASE OnConnect \/ OnDisconnect \/ OnError \/ ServerReply \/ ServerSilent \/ UNCHANGED tcpVars
  BY <1>3, <1>5 DEF OnConnect, OnDisconnect, OnError, ServerReply, ServerSilent, Reply,
                    busVars, tcpVars
<1>6. CASE Receive
  BY <1>6 DEF Receive, busVars, tidVars, BusIsOld, Sends
<1> QED
  BY <1>1, <1>2, <1>4, <1>5, <1>6 DEF TCPNext

\* Two requests are more than send_wait_time apart, whichever devices send
\* them (modbustcp.cpp 196-201 with waiting_for_response() of each device),
\* if none has the address 0, which marks a free bus.
THEOREM RequestsAreSpaced ==
    ASSUME 0 \notin Units
    PROVE  TCPSpec => SendSpacing
<1>1. TCPInit => Inv /\ BusIsOld
  BY InitInv
<1>2. Inv /\ BusIsOld /\ [TCPNext]_tcpVars => Inv' /\ BusIsOld'
  BY NextInv, NextOld
<1>3. Inv /\ BusIsOld /\ [TCPNext]_tcpVars => (Sends /\ tid # 0 => sendAge > SendWait)
  BY NextOld
<1> QED
  BY <1>1, <1>2, <1>3, PTL DEF TCPSpec, SendSpacing
=============================================================================
