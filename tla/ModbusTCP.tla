------------------------------ MODULE ModbusTCP ------------------------------
(***************************************************************************)
(* The transport component: class ModbusTCP of                             *)
(* src/components/modbustcp/modbustcp.{h,cpp}.                             *)
(*                                                                         *)
(* One ModbusTCP object owns one AsyncClient (the TCP connection, external *)
(* code), the waiting_for_response mark that every device on the bus       *)
(* consults before it sends, and the transaction id that a response must   *)
(* carry to be accepted.  Requests travel in toServer and responses in     *)
(* fromServer, both FIFO byte streams cut into whole frames.               *)
(*                                                                         *)
(* A timestamp t (last_send_, last_attempt_) is modelled by its age        *)
(* millis() - t, which stops growing once it exceeds the one limit it is   *)
(* compared with.                                                          *)
(***************************************************************************)
EXTENDS Integers, Sequences

CONSTANTS
    SendWait,        \* send_wait_time_: how long waiting_for_response lasts
    ReconnectDelay,  \* the 5000 ms between two connection attempts
    TidModulus,      \* 2^16: Transaction_Identifier is a uint16_t
    TidWraps,        \* FALSE bounds a behaviour to the ids before the wrap
    Window,          \* frames that fit in one direction of the TCP stream
    Units            \* unit addresses of the devices on the bus

ASSUME TransportAssumption ==
    /\ SendWait \in Nat
    /\ ReconnectDelay \in Nat
    /\ TidModulus \in Nat \ {0}
    /\ TidWraps \in BOOLEAN
    /\ Window \in Nat \ {0}
    /\ Units \subseteq Nat

VARIABLES
    client,      \* the AsyncClient: "closed", "connecting", "open", "failed"
    connected,   \* connected_
    attemptAge,  \* age of last_attempt_
    waiting,     \* waiting_for_response
    sendAge,     \* age of last_send_
    tid,         \* Transaction_Identifier
    expected,    \* expected_transaction_id_
    toServer,    \* requests on their way to the server
    fromServer   \* responses on their way back

connVars == <<client, connected, attemptAge>>
busVars  == <<waiting, sendAge>>
tidVars  == <<tid, expected>>
netVars  == <<toServer, fromServer>>
tcpVars  == <<connVars, busVars, tidVars, netVars>>

TCPInit ==
    /\ client = "closed" /\ connected = FALSE /\ attemptAge = 0
    /\ waiting = 0 /\ sendAge = 0
    /\ tid = 0 /\ expected = 0
    /\ toServer = <<>> /\ fromServer = <<>>

-----------------------------------------------------------------------------
(* Time.                                                                   *)

Older(age, limit) == IF age > limit THEN age ELSE age + 1

TCPTick ==
    /\ attemptAge' = Older(attemptAge, ReconnectDelay)
    /\ sendAge' = Older(sendAge, SendWait)

-----------------------------------------------------------------------------
(* The connection.  A lost connection takes the frames in flight with it.  *)

LoseFrames == toServer' = <<>> /\ fromServer' = <<>>

\* client_->connect() runs only on an idle client, and may fail to start
Connect ==
    client' \in IF client = "closed" THEN {"connecting", "closed"} ELSE {client}

\* variants with a mistake: the bus is let go of too early, or only while
\* there is a connection
ModbusLoopTooEarly ==
    /\ IF ~connected /\ attemptAge > ReconnectDelay
         THEN attemptAge' = 0 /\ Connect
         ELSE UNCHANGED <<attemptAge, client>>
    /\ waiting' = IF sendAge >= SendWait THEN 0 ELSE waiting
    /\ UNCHANGED <<connected, sendAge, tidVars, netVars>>

ModbusLoopConnected ==
    IF ~connected
      THEN /\ attemptAge > ReconnectDelay
           /\ attemptAge' = 0
           /\ Connect
           /\ UNCHANGED <<connected, busVars, tidVars, netVars>>
      ELSE /\ waiting' = IF sendAge > SendWait THEN 0 ELSE waiting
           /\ UNCHANGED <<connVars, sendAge, tidVars, netVars>>

\* ModbusTCP::loop(): retry the connection, then let go of the bus
ModbusLoop ==
    /\ IF ~connected /\ attemptAge > ReconnectDelay
         THEN attemptAge' = 0 /\ Connect
         ELSE UNCHANGED <<attemptAge, client>>
    /\ waiting' = IF sendAge > SendWait THEN 0 ELSE waiting
    /\ UNCHANGED <<connected, sendAge, tidVars, netVars>>

OnConnect ==
    /\ client = "connecting"
    /\ client' = "open"
    /\ connected' = TRUE
    /\ UNCHANGED <<attemptAge, busVars, tidVars, netVars>>

\* variants with a mistake: connected_ is left as it was
OnDisconnectKeeps ==
    /\ client \in {"open", "failed"}
    /\ client' = "closed"
    /\ attemptAge' \in 0 .. ReconnectDelay + 1
    /\ LoseFrames
    /\ UNCHANGED <<connected, busVars, tidVars>>

OnErrorKeeps ==
    /\ client \in {"connecting", "open"}
    /\ client' \in {"failed", "closed"}
    /\ LoseFrames
    /\ UNCHANGED <<connected, attemptAge, busVars, tidVars>>

\* last_attempt_ = 0 makes its age whatever millis() happens to read
OnDisconnect ==
    /\ client \in {"open", "failed"}
    /\ client' = "closed"
    /\ connected' = FALSE
    /\ attemptAge' \in 0 .. ReconnectDelay + 1
    /\ LoseFrames
    /\ UNCHANGED <<busVars, tidVars>>

\* the client may or may not report the disconnection after the error
OnError ==
    /\ client \in {"connecting", "open"}
    /\ client' \in {"failed", "closed"}
    /\ connected' = FALSE
    /\ LoseFrames
    /\ UNCHANGED <<attemptAge, busVars, tidVars>>

-----------------------------------------------------------------------------
(* Sending.  A frame that cannot be written is dropped with a warning.     *)

HasTid == TidWraps \/ tid + 1 < TidModulus

\* variant with a mistake: canSend() is not asked
SendMessageUnasked(frame) ==
    /\ toServer' = IF connected THEN Append(toServer, frame) ELSE toServer
    /\ UNCHANGED fromServer

SendMessage(frame) ==
    /\ toServer' = IF connected /\ Len(toServer) < Window
                     THEN Append(toServer, frame) ELSE toServer
    /\ UNCHANGED fromServer

\* ModbusTCP::send() up to and including the write
SendFrame(pdu) ==
    /\ HasTid
    /\ expected' = tid
    /\ tid' = (tid + 1) % TidModulus
    /\ SendMessage([tid |-> tid, pdu |-> pdu])

\* ModbusTCP::send_raw() up to and including the write: no header is added,
\* so the server takes the first two bytes for the transaction id
SendRaw(bytes, pdu) ==
    /\ ~bytes.empty
    /\ toServer' = IF client = "open" /\ Len(toServer) < Window
                     THEN Append(toServer, [tid |-> bytes.tid, pdu |-> pdu])
                     ELSE toServer
    /\ UNCHANGED <<tidVars, fromServer>>

\* its early return: nothing is written and the bus is not marked
SendRawNothing(bytes) == bytes.empty /\ UNCHANGED <<tidVars, netVars>>

\* variant with a mistake: the bus is not marked
StampTimeOnly(mark) == waiting' = waiting /\ sendAge' = 0

\* what both do after the write: mark the bus as taken
Stamp(mark) == waiting' = mark /\ sendAge' = 0

-----------------------------------------------------------------------------
(* Receiving.  count is byte[8] of the frame, room what follows it.        *)

\* variants with a mistake: no look at the transaction id; one byte too few
AcceptedUnmatched(frame) == ~frame.exception /\ frame.count <= frame.room

AcceptedShort(frame) ==
    /\ frame.tid = expected
    /\ ~frame.exception
    /\ frame.count < frame.room

Accepted(frame) ==
    /\ frame.tid = expected
    /\ ~frame.exception
    /\ frame.count <= frame.room

\* handle_frame_() on the next frame of the stream
Receive ==
    /\ fromServer # <<>>
    /\ fromServer' = Tail(fromServer)
    /\ UNCHANGED <<connVars, busVars, tidVars, toServer>>

\* the server (external) takes the next request and puts back a response,
\* or nothing
Reply(replies) ==
    /\ toServer # <<>>
    /\ toServer' = Tail(toServer)
    /\ Len(fromServer) + Len(replies) <= Window
    /\ fromServer' = fromServer \o replies
    /\ UNCHANGED <<connVars, busVars, tidVars>>

-----------------------------------------------------------------------------
(* The transport on its own: any device of the bus may send a request when *)
(* its waiting_for_response() check lets it.                               *)

DeviceSend(u) ==
    /\ waiting = 0
    /\ SendFrame(u)
    /\ Stamp(u)
    /\ UNCHANGED connVars

ServerReply == Reply(<<[tid |-> Head(toServer).tid, pdu |-> Head(toServer).pdu,
                        exception |-> FALSE, count |-> 2, room |-> 2]>>)

ServerSilent == Reply(<<>>)

Tick == TCPTick /\ UNCHANGED <<client, connected, waiting, tidVars, netVars>>

TCPNext ==
    \/ ModbusLoop
    \/ OnConnect
    \/ OnDisconnect
    \/ OnError
    \/ \E u \in Units : DeviceSend(u)
    \/ ServerReply
    \/ ServerSilent
    \/ Receive
    \/ Tick

\* loop() is called for ever and time passes; the network lets some attempt
\* start, and a client that failed reports its disconnection
TCPFairness ==
    /\ WF_tcpVars(Tick)
    /\ WF_tcpVars(ModbusLoop)
    /\ SF_tcpVars(ModbusLoop /\ client' = "connecting")
    /\ WF_tcpVars(client = "failed" /\ OnDisconnect)

TCPSpec == TCPInit /\ [][TCPNext]_tcpVars /\ TCPFairness

-----------------------------------------------------------------------------
(* Properties.                                                             *)

\* The variables keep the ranges of the C++ members they stand for.
TCPTypeOK ==
    /\ client \in {"closed", "connecting", "open", "failed"}
    /\ connected \in BOOLEAN
    /\ attemptAge \in 0 .. ReconnectDelay + 1
    /\ waiting \in Nat
    /\ sendAge \in 0 .. SendWait + 1
    /\ tid \in 0 .. TidModulus - 1
    /\ expected \in 0 .. TidModulus - 1
    /\ Len(toServer) <= Window
    /\ Len(fromServer) <= Window

\* connected_ is kept by three callbacks: it must never say there is a
\* connection the client has lost, nor hide one it has (loop() would then
\* reconnect, or send_message() write, at the wrong time).
ConnectedIffOpen == connected <=> client = "open"

\* Two requests are more than send_wait_time apart, whichever devices send
\* them (modbustcp.cpp 196-201 with the check of every device before it
\* sends), unit addresses other than 0 provided: 0 marks a bus that is free.
\* The request with id 0 is left out, as nothing was sent before the first one.
Sends == tid' # tid /\ expected' = tid
SendSpacing == [][Sends /\ tid # 0 => sendAge > SendWait]_tcpVars

\* A lost connection is always tried again (modbustcp.cpp 185-192), however
\* errors and disconnections interleave with the attempts.
AlwaysReconnects == client \in {"closed", "failed"} ~> client = "connecting"

\* The bus never stays taken: waiting_for_response is cleared even when no
\* response ever comes (modbustcp.cpp 196-201).
BusIsReleased == waiting # 0 ~> waiting = 0
=============================================================================
