------------------------- MODULE ModbusTCPController -------------------------
(***************************************************************************)
(* The controller component: class ModbusTCPController of                  *)
(* src/components/modbustcp_controller/modbustcp_controller.{h,cpp} with   *)
(* its command queue, and the number entity that writes through it,        *)
(* composed with the transport of module ModbusTCP and an external server. *)
(*                                                                         *)
(* Two threads of control meet here.  ESPHome's main task calls update(),  *)
(* loop() and the entities' control(); each runs to its end before the     *)
(* next, and main says how far the running one is.  The AsyncClient's      *)
(* callbacks (onConnect, onDisconnect, onError, onData) run between them,  *)
(* or, when Preemptive (the ESP32, where they have a task of their own),   *)
(* also in the middle of them, wherever they may change what it uses.      *)
(*                                                                         *)
(* A command comes from an item: a register range that is read (some of    *)
(* them by custom commands) or a number that is written.                   *)
(***************************************************************************)
EXTENDS ModbusTCP, FiniteSets

CONSTANTS
    Controllers,      \* the ModbusTCPController objects on the one bus
    Unit,             \* Unit[c]: the unit address of controller c
    RangeList,        \* RangeList[c]: register_ranges_ of c, in order
    CustomRanges,     \* the ranges read by a custom command
    CustomPayload,    \* CustomPayload[r]: what the user wrote for it
    RawBytes,         \* RawBytes[p]: what p looks like without a header
    Key,              \* Key[item]: the function code, register type, address
                      \* and count of its command
    Oversized,        \* the ranges of more than 128 registers
    SkipUpdates,      \* SkipUpdates[r]: skip_updates of range r
    Numbers,          \* the number entities
    Home,             \* Home[n]: the controller of number n
    RangeOf,          \* RangeOf[n]: the range number n is read with
    AddressHigh,      \* AddressHigh[n]: high byte of the register address
    Values,           \* what a number can be set to
    NoValue, Garbage, \* no bytes; bytes that belong to another response
    MaxRetries,       \* max_cmd_retries_
    SendCountModulus, \* 2^8: send_count_ is a uint8_t
    Throttle,         \* command_throttle_
    OfflineSkip,      \* offline_skip_updates_
    CounterModulus,   \* 2^16: skip_updates_counter is a uint16_t
    AllowDuplicates,  \* allow_duplicate_commands_
    Exceptions,       \* may the server answer with an exception?
    Repeats,          \* may a response come twice, as through a proxy?
    Preemptive,       \* may a callback interrupt the main task?
    MaxQueue,         \* bound on a command queue when duplicates are allowed
    MaxIncoming,      \* bound on the responses waiting for loop()
    Nobody

RangesOf(c) == {RangeList[c][i] : i \in 1 .. Len(RangeList[c])}
Ranges == UNION {RangesOf(c) : c \in Controllers}
Items == Ranges \cup Numbers
Owner(item) == IF item \in Numbers THEN Home[item]
               ELSE CHOOSE c \in Controllers : item \in RangesOf(c)

ASSUME ControllerAssumption ==
    /\ Unit \in [Controllers -> Nat]
    /\ DOMAIN RangeList = Controllers
    /\ \A c \in Controllers : RangeList[c] \in Seq(RangesOf(c))
    /\ \A c, d \in Controllers : c # d => RangesOf(c) \cap RangesOf(d) = {}
    /\ CustomRanges \subseteq Ranges
    /\ DOMAIN CustomPayload = CustomRanges
    /\ \A r \in CustomRanges : CustomPayload[r] # Garbage
    /\ \A r \in CustomRanges : CustomPayload[r] # NoValue =>
          RawBytes[CustomPayload[r]] \in [empty : {FALSE}, head : 0 .. 255, tid : Nat]
    /\ DOMAIN Key = Items
    /\ \A n \in Numbers, r \in Ranges : Key[n] # Key[r]
    /\ \A r \in CustomRanges, i \in Items \ CustomRanges : Key[r] # Key[i]
    /\ Oversized \subseteq Ranges \ CustomRanges
    /\ SkipUpdates \in [Ranges -> Nat]
    /\ Numbers \cap Ranges = {}
    /\ Home \in [Numbers -> Controllers]
    /\ DOMAIN RangeOf = Numbers
    /\ AddressHigh \in [Numbers -> 0 .. 255]
    /\ MaxRetries \in Nat /\ SendCountModulus \in Nat \ {0}
    /\ MaxRetries < SendCountModulus
    /\ Throttle \in Nat /\ OfflineSkip \in Nat /\ CounterModulus \in Nat \ {0}
    /\ AllowDuplicates \in BOOLEAN /\ Exceptions \in BOOLEAN
    /\ Repeats \in BOOLEAN /\ Preemptive \in BOOLEAN
    /\ MaxQueue \in Nat /\ MaxIncoming \in Nat
    /\ Nobody \notin Controllers

VARIABLES
    queue,      \* queue[c]: command_queue_
    incoming,   \* incoming[c]: incoming_queue_, each command with its data
    offline,    \* offline[c]: module_offline_
    skip,       \* skip[r]: skip_updates_counter of range r
    cmdAge,     \* cmdAge[c]: age of last_command_timestamp_
    awaited,    \* history: the id of the last request of c; Heard as soon as
                \* a response with this id has come in
    main,       \* what the main task is in the middle of
    published,  \* published[n]: the state number n shows
    device      \* device[n]: what the server's register holds (external)

ctlVars == <<queue, incoming, offline, skip, cmdAge, awaited>>
appVars == <<published, device>>
vars == <<tcpVars, ctlVars, main, appVars>>

Heard == -1

\* A handler in progress, from what it has read to what it is about to do:
\*   update   about to look at range number range
\*   queued   has queued the command of this range
\*   skipped  has seen that the counter of this range is not 0, but mark
\*   chosen   send_next_command_() may send
\*   retry    the command in front may be sent (again)
\*   giveup   it was sent too often
\*   drop     and the device is offline
\*   sent     it is written; mark is for waiting_for_response
\*   unsent   send() or send_raw() returned without writing it
\* place: 0 while the command that was chosen is in front of the queue,
\* otherwise its place in incoming_queue_.
Handler(at, c, range, mark, place) ==
    [at |-> at, who |-> c, range |-> range, mark |-> mark, place |-> place]
Idle == Handler("idle", Nobody, 0, 0, 0)
Updating(c, i) == Handler("update", c, i, 0, 0)
Sending(at, c) == Handler(at, c, 0, 0, 0)
InLoop == {"chosen", "retry", "giveup", "drop", "sent", "unsent"}

Init ==
    /\ TCPInit
    /\ queue = [c \in Controllers |-> <<>>]
    /\ incoming = [c \in Controllers |-> <<>>]
    /\ offline = [c \in Controllers |-> FALSE]
    /\ skip = [r \in Ranges |-> 0]
    /\ cmdAge = [c \in Controllers |-> 0]
    /\ awaited = [c \in Controllers |-> Heard]
    /\ main = Idle
    /\ published = [n \in Numbers |-> NoValue]
    /\ device \in [Numbers -> Values]

-----------------------------------------------------------------------------
(* Commands and the queue.                                                 *)

\* shown: the value a number's handler captured, to publish on the ack
ReadCommand(r) ==
    [item |-> r, payload |-> IF r \in CustomRanges THEN CustomPayload[r] ELSE NoValue,
     shown |-> NoValue, sent |-> 0]
WriteCommand(n, v) == [item |-> n, payload |-> v, shown |-> v, sent |-> 0]

\* a queued custom command looks at payloads, whatever the other command is
IsEqual(queued, command) ==
    IF queued.item \in CustomRanges
      THEN queued.payload = command.payload
      ELSE Key[queued.item] = Key[command.item]

\* variants with a mistake: duplicates are not looked for; the new command
\* overtakes the queued ones
QueueCommandAlways(q, command) == Append(q, command)

QueueCommandInFront(q, command) ==
    IF ~AllowDuplicates /\ \E i \in 1 .. Len(q) : IsEqual(q[i], command)
      THEN q ELSE <<command>> \o q

\* a duplicate only hands its payload to the first command it equals
QueueCommand(q, command) ==
    LET equal == {i \in 1 .. Len(q) : IsEqual(q[i], command)}
        first == CHOOSE i \in equal : \A j \in equal : i <= j
    IN  IF ~AllowDuplicates /\ equal # {}
          THEN [q EXCEPT ![first].payload = command.payload]
          ELSE Append(q, command)

\* variants with a mistake: one send more; no limit
ShouldRetryOnceMore(command) == command.sent <= MaxRetries + 1
ShouldRetryAlways(command) == TRUE

ShouldRetry(command) == command.sent <= MaxRetries

HasRoom(c, more) == AllowDuplicates => Len(queue[c]) + more <= MaxQueue

-----------------------------------------------------------------------------
(* The main task: update() and control().                                  *)

StartUpdate(c) ==
    /\ main = Idle
    /\ RangeList[c] # <<>>
    /\ HasRoom(c, Len(RangeList[c]))
    /\ main' = Updating(c, 1)
    /\ UNCHANGED <<tcpVars, ctlVars, appVars>>

\* variant with a mistake: the range is due one update too early
UpdateRangeEarly(c) ==
    LET r == RangeList[c][main.range] IN
    /\ main.at = "update" /\ main.who = c
    /\ \/ /\ skip[r] = 1
          /\ queue' = [queue EXCEPT ![c] = QueueCommand(@, ReadCommand(r))]
          /\ main' = [main EXCEPT !.at = "queued"]
       \/ /\ skip[r] # 1
          /\ main' = [main EXCEPT !.at = "skipped", !.mark = skip[r]]
          /\ UNCHANGED queue
    /\ UNCHANGED <<tcpVars, incoming, offline, skip, cmdAge, awaited, appVars>>

\* one turn of the loop over register_ranges_: update_range_() up to where it
\* writes the counter
UpdateRange(c) ==
    LET r == RangeList[c][main.range] IN
    /\ main.at = "update" /\ main.who = c
    /\ \/ /\ skip[r] = 0
          /\ queue' = [queue EXCEPT ![c] = QueueCommand(@, ReadCommand(r))]
          /\ main' = [main EXCEPT !.at = "queued"]
       \/ /\ skip[r] # 0
          /\ main' = [main EXCEPT !.at = "skipped", !.mark = skip[r]]
          /\ UNCHANGED queue
    /\ UNCHANGED <<tcpVars, incoming, offline, skip, cmdAge, awaited, appVars>>

\* A callback may have set the counter to 0 since it was looked at: whether it
\* is read again before it is decremented is up to the compiler.
Decremented(r) == {main.mark - 1, (skip[r] - 1) % CounterModulus}

SetCounter(c) ==
    LET r == RangeList[c][main.range] IN
    /\ main.at \in {"queued", "skipped"} /\ main.who = c
    /\ \E k \in IF main.at = "queued" THEN {SkipUpdates[r]} ELSE Decremented(r) :
          skip' = [skip EXCEPT ![r] = k]
    /\ main' = IF main.range < Len(RangeList[c])
                 THEN Updating(c, main.range + 1) ELSE Idle
    /\ UNCHANGED <<tcpVars, queue, incoming, offline, cmdAge, awaited, appVars>>

\* ModbusTCPNumber::control(): queue the write, show the value at once
NumberControl(n, v) ==
    LET c == Home[n] IN
    /\ main = Idle
    /\ HasRoom(c, 1)
    /\ queue' = [queue EXCEPT ![c] = QueueCommand(@, WriteCommand(n, v))]
    /\ published' = [published EXCEPT ![n] = v]
    /\ UNCHANGED <<tcpVars, incoming, offline, skip, cmdAge, awaited, main, device>>

-----------------------------------------------------------------------------
(* The main task: loop().  Responses come before new requests.             *)

\* what number n shows once the handler of this response has run
Shown(n, entry) ==
    IF entry.cmd.item = n THEN entry.cmd.shown
    ELSE IF entry.cmd.item # RangeOf[n] THEN published[n]
    ELSE IF entry.data.of.item = RangeOf[n] THEN entry.data.regs[n]
    ELSE Garbage

\* variant with a mistake: the response is left in incoming_queue_
ProcessDataUnpopped(c) ==
    /\ main = Idle
    /\ incoming[c] # <<>>
    /\ published' = [n \in Numbers |-> Shown(n, Head(incoming[c]))]
    /\ UNCHANGED <<tcpVars, ctlVars, main, device>>

ProcessData(c) ==
    /\ main = Idle
    /\ incoming[c] # <<>>
    /\ published' = [n \in Numbers |-> Shown(n, Head(incoming[c]))]
    /\ incoming' = [incoming EXCEPT ![c] = Tail(@)]
    /\ UNCHANGED <<tcpVars, queue, offline, skip, cmdAge, awaited, main, device>>

\* variants with a mistake: responses do not come first; the other devices
\* of the bus are not respected
SendIsDueUnprocessed(c) ==
    /\ main = Idle
    /\ cmdAge[c] > Throttle
    /\ waiting = 0
    /\ queue[c] # <<>>

SendIsDueUnasked(c) ==
    /\ main = Idle
    /\ incoming[c] = <<>>
    /\ cmdAge[c] > Throttle
    /\ queue[c] # <<>>

\* the guard of send_next_command_()
SendIsDue(c) ==
    /\ main = Idle
    /\ incoming[c] = <<>>
    /\ cmdAge[c] > Throttle
    /\ waiting = 0
    /\ queue[c] # <<>>

\* send_next_command_() has passed its guard and goes on to front()
ChooseCommand(c) ==
    /\ SendIsDue(c)
    /\ main' = Sending("chosen", c)
    /\ UNCHANGED <<tcpVars, ctlVars, appVars>>

\* what it does with the command in front
CheckRetries(c) ==
    /\ main.at = "chosen" /\ main.who = c
    /\ queue[c] # <<>>
    /\ main' = Sending(IF ShouldRetry(Head(queue[c])) THEN "retry" ELSE "giveup", c)
    /\ UNCHANGED <<tcpVars, ctlVars, appVars>>

\* variant with a mistake: the ranges of every controller are skipped
SkipEverywhere(c) ==
    [r \in Ranges |-> IF OfflineSkip > 0 THEN OfflineSkip ELSE skip[r]]

\* a device that falls silent is polled less often
SkipWhenOffline(c) ==
    [r \in Ranges |-> IF r \in RangesOf(c) /\ OfflineSkip > 0
                        THEN OfflineSkip ELSE skip[r]]

\* module_offline_ is read and then, after the counters, written; as long as the
\* device is online, a callback in between touches neither.
SetOffline(c) ==
    /\ main.at = "giveup" /\ main.who = c
    /\ offline' = [offline EXCEPT ![c] = TRUE]
    /\ skip' = IF offline[c] THEN skip ELSE SkipWhenOffline(c)
    /\ main' = [main EXCEPT !.at = "drop"]
    /\ UNCHANGED <<tcpVars, queue, incoming, cmdAge, awaited, appVars>>

\* pop_front() drops what is in front by now
DropCommand(c) ==
    /\ main.at = "drop" /\ main.who = c
    /\ queue[c] # <<>>
    /\ queue' = [queue EXCEPT ![c] = Tail(@)]
    /\ main' = Idle
    /\ UNCHANGED <<tcpVars, incoming, offline, skip, cmdAge, awaited, appVars>>

\* the command that was chosen, wherever it is by now
Chosen(c) ==
    IF main.place = 0 THEN Head(queue[c]) ELSE incoming[c][main.place].cmd

\* a callback that took the command has put the response in its payload, before
\* or after send() read it
SentPayloads(c) ==
    {Chosen(c).payload} \cup (IF main.place = 0 THEN {} ELSE {Garbage})

NoBytes == [empty |-> TRUE, head |-> 0, tid |-> 0]
AnyBytes == [empty : {FALSE}, head : 0 .. 255, tid : 0 .. TidModulus - 1] \cup {NoBytes}
Raw(payload) == IF payload = NoValue THEN {NoBytes}
                ELSE IF payload = Garbage THEN AnyBytes ELSE {RawBytes[payload]}

Written(mark) == main' = [main EXCEPT !.at = "sent", !.mark = mark]

\* ModbusCommandItem::send() up to the write
SendCommand(c) ==
    /\ main.at = "retry" /\ main.who = c
    /\ \E payload \in SentPayloads(c) :
         LET pdu == [item |-> Chosen(c).item, payload |-> payload] IN
         \/ /\ pdu.item \notin CustomRanges \cup Oversized
            /\ SendFrame(pdu)
            /\ awaited' = [awaited EXCEPT ![c] = tid]
            /\ Written(Unit[c])
         \/ /\ pdu.item \in CustomRanges
            /\ \E bytes \in Raw(payload) : SendRaw(bytes, pdu) /\ Written(bytes.head)
            /\ UNCHANGED awaited
    /\ UNCHANGED <<connVars, busVars, queue, incoming, offline, skip, cmdAge, appVars>>

\* send() refuses too many registers, send_raw() an empty payload
SendRefused(c) ==
    /\ main.at = "retry" /\ main.who = c
    /\ \/ /\ Chosen(c).item \in Oversized
          /\ UNCHANGED <<tidVars, netVars>>
       \/ /\ Chosen(c).item \in CustomRanges
          /\ \E payload \in SentPayloads(c) : \E bytes \in Raw(payload) :
                SendRawNothing(bytes)
    /\ main' = [main EXCEPT !.at = "unsent"]
    /\ UNCHANGED <<connVars, busVars, ctlVars, appVars>>

CountSend(command) ==
    [command EXCEPT !.sent = (@ + 1) % SendCountModulus]

\* variant with a mistake: a send that was refused is not counted
FinishSendUncounted(c) ==
    /\ main.at = "unsent" /\ main.who = c
    /\ cmdAge' = [cmdAge EXCEPT ![c] = 0]
    /\ main' = Idle
    /\ UNCHANGED <<tcpVars, queue, incoming, offline, skip, awaited, appVars>>

\* the rest of send_next_command_() after the write; a callback may by then
\* have moved the command to incoming_queue_
FinishSend(c) ==
    /\ main.at \in {"sent", "unsent"} /\ main.who = c
    /\ IF main.at = "sent" THEN Stamp(main.mark) ELSE UNCHANGED busVars
    /\ IF main.place = 0
         THEN /\ queue' = [queue EXCEPT ![c][1] = CountSend(@)]
              /\ UNCHANGED incoming
         ELSE /\ incoming' = [incoming EXCEPT ![c][main.place].cmd = CountSend(@)]
              /\ UNCHANGED queue
    /\ cmdAge' = [cmdAge EXCEPT ![c] = 0]
    /\ main' = Idle
    /\ UNCHANGED <<connVars, tidVars, netVars, offline, skip, awaited, appVars>>

\* send_next_command_() reads the command through a reference to the front of
\* the queue.  When a callback has taken it and freed the place, the memory may
\* still read as a command (the actions above), or the read faults and the node
\* starts again.
Restart ==
    /\ main.at \in InLoop /\ main.place # 0
    /\ client' = "closed" /\ connected' = FALSE /\ attemptAge' = 0
    /\ waiting' = 0 /\ sendAge' = 0
    /\ tid' = 0 /\ expected' = 0
    /\ LoseFrames
    /\ queue' = [c \in Controllers |-> <<>>]
    /\ incoming' = [c \in Controllers |-> <<>>]
    /\ offline' = [c \in Controllers |-> FALSE]
    /\ skip' = [r \in Ranges |-> 0]
    /\ cmdAge' = [c \in Controllers |-> 0]
    /\ awaited' = [c \in Controllers |-> Heard]
    /\ main' = Idle
    /\ published' = [n \in Numbers |-> NoValue]
    /\ UNCHANGED device

Loop(c) == ProcessData(c) \/ ChooseCommand(c)

\* what the main task goes on with once it has begun
Continue(c) ==
    \/ UpdateRange(c)
    \/ SetCounter(c)
    \/ CheckRetries(c)
    \/ SetOffline(c)
    \/ DropCommand(c)
    \/ SendCommand(c)
    \/ SendRefused(c)
    \/ FinishSend(c)

-----------------------------------------------------------------------------
(* The callbacks of the client.                                            *)

MayCallBack == Preemptive \/ main = Idle

\* on_modbus_data() does nothing when the queue of the device is empty
Takes(c) == Accepted(Head(fromServer)) /\ queue[c] # <<>>

\* variant with a mistake: the long pauses are kept
SkipAfterDataKept == skip

\* a device that was offline polls its ranges again at once
SkipAfterData ==
    [r \in Ranges |-> IF Takes(Owner(r)) /\ offline[Owner(r)] /\ OfflineSkip > 0
                        THEN 0 ELSE skip[r]]

\* the command that is taken may be the one that was chosen
MainAfterData ==
    IF main.at \in InLoop /\ main.place = 0 /\ Takes(main.who)
      THEN [main EXCEPT !.place = Len(incoming[main.who]) + 1] ELSE main

AwaitedAfterData ==
    [c \in Controllers |->
       IF awaited[c] = Head(fromServer).tid THEN Heard ELSE awaited[c]]

\* handle_frame_() hands the data to every device, and each on_modbus_data()
\* moves the command at the front of its queue to its incoming_queue_
OnData ==
    /\ MayCallBack
    /\ Receive
    /\ \A c \in Controllers : Len(incoming[c]) < MaxIncoming
    /\ queue' = [c \in Controllers |->
                   IF Takes(c) THEN Tail(queue[c]) ELSE queue[c]]
    /\ incoming' = [c \in Controllers |->
                      IF Takes(c)
                        THEN Append(incoming[c], [cmd |-> Head(queue[c]),
                                                  data |-> Head(fromServer).data])
                        ELSE incoming[c]]
    /\ offline' = [c \in Controllers |-> offline[c] /\ ~Takes(c)]
    /\ skip' = SkipAfterData
    /\ awaited' = AwaitedAfterData
    /\ main' = MainAfterData
    /\ UNCHANGED <<cmdAge, appVars>>

ClientCallback ==
    /\ MayCallBack
    /\ OnConnect \/ OnDisconnect \/ OnError
    /\ UNCHANGED <<ctlVars, main, appVars>>

-----------------------------------------------------------------------------
(* The server (external).  The acknowledgement of a write echoes the       *)
(* address where the response to a read has its byte count; 3 bytes follow *)
(* it.                                                                     *)

Answer(request, regs) ==
    LET write == request.pdu.item \in Numbers
    IN  [tid |-> request.tid, exception |-> FALSE,
         count |-> IF write THEN AddressHigh[request.pdu.item] ELSE 2,
         room |-> IF write THEN 3 ELSE 2,
         data |-> [of |-> request.pdu, regs |-> regs]]

\* the registers once the server has carried out the request
Executed(pdu) == IF pdu.item \in Numbers
                  THEN [device EXCEPT ![pdu.item] = pdu.payload] ELSE device

ServerAnswers ==
    LET request == Head(toServer) IN
    /\ toServer # <<>>
    /\ device' = Executed(request.pdu)
    /\ Reply(<<Answer(request, device')>>)
    /\ UNCHANGED <<ctlVars, main, published>>

\* a response that comes once more: the request stays to be answered again
ServerRepeats ==
    LET request == Head(toServer) IN
    /\ Repeats
    /\ toServer # <<>> /\ Len(fromServer) < Window
    /\ device' = Executed(request.pdu)
    /\ fromServer' = Append(fromServer, Answer(request, device'))
    /\ UNCHANGED <<connVars, busVars, tidVars, toServer, ctlVars, main, published>>

ServerRefuses ==
    /\ Exceptions
    /\ toServer # <<>>
    /\ Reply(<<[Answer(Head(toServer), device) EXCEPT !.exception = TRUE]>>)
    /\ UNCHANGED <<ctlVars, main, appVars>>

ServerIgnores == Reply(<<>>) /\ UNCHANGED <<ctlVars, main, appVars>>

-----------------------------------------------------------------------------

Transport == ModbusLoop /\ main = Idle /\ UNCHANGED <<ctlVars, main, appVars>>

TimePasses ==
    /\ TCPTick
    /\ cmdAge' = [c \in Controllers |-> Older(cmdAge[c], Throttle)]
    /\ UNCHANGED <<client, connected, waiting, tidVars, netVars>>
    /\ UNCHANGED <<queue, incoming, offline, skip, awaited, main, appVars>>

Next ==
    \/ \E c \in Controllers : StartUpdate(c) \/ Loop(c) \/ Continue(c)
    \/ \E n \in Numbers, v \in Values : NumberControl(n, v)
    \/ Restart
    \/ OnData
    \/ ClientCallback
    \/ ServerAnswers
    \/ ServerRepeats
    \/ ServerRefuses
    \/ ServerIgnores
    \/ Transport
    \/ TimePasses

Spec == Init /\ [][Next]_vars

\* App.loop() calls the loop() of every component again and again, whatever
\* flickers in between; a handler that has begun goes on to its end
Fairness ==
    /\ WF_vars(TimePasses)
    /\ SF_vars(Transport)
    /\ \A c \in Controllers : SF_vars(Loop(c)) /\ WF_vars(Continue(c))

FairSpec == Spec /\ Fairness

-----------------------------------------------------------------------------
(* Properties.                                                             *)

\* What the payload of a command can be.
Typed(S) == {x \in S :
               /\ x.item \in CustomRanges => x.payload = CustomPayload[x.item]
               /\ x.item \in Numbers => x.payload \in Values}
Payload == Values \cup {NoValue, Garbage} \cup {CustomPayload[r] : r \in CustomRanges}
Command == Typed([item : Items, payload : Payload,
                  shown : Values \cup {NoValue}, sent : 0 .. SendCountModulus - 1])
Pdu == {x \in [item : Items, payload : Payload] :
          x.item \in Numbers => x.payload \in Values \cup {Garbage}}
Data == [of : Pdu, regs : [Numbers -> Values \cup {Garbage}]]
Entry == [cmd : Command, data : Data]
Request == [tid : Nat, pdu : Pdu]
Response == [tid : Nat, exception : BOOLEAN, count : Nat, room : Nat, data : Data]

\* The main task is in the middle of a handler of a controller that exists,
\* and what that handler is about to touch is there.
MainOK ==
    /\ main \in [at : {"idle", "update", "queued", "skipped"} \cup InLoop,
                 who : Controllers \cup {Nobody},
                 range : Nat, mark : Nat, place : Nat]
    /\ main.at # "idle" => main.who \in Controllers
    /\ main.at \in {"update", "queued", "skipped"}
         => main.range \in 1 .. Len(RangeList[main.who])
    /\ main.at = "skipped" => main.mark > 0
    /\ main.at \in InLoop => IF main.place = 0 THEN queue[main.who] # <<>>
                             ELSE main.place <= Len(incoming[main.who])

\* The variables keep the types of the members they stand for, and MainOK: no
\* handler goes on with a command that is gone from both queues.
TypeOK ==
    /\ TCPTypeOK
    /\ toServer \in Seq(Request)
    /\ fromServer \in Seq(Response)
    /\ queue \in [Controllers -> Seq(Command)]
    /\ incoming \in [Controllers -> Seq(Entry)]
    /\ offline \in [Controllers -> BOOLEAN]
    /\ skip \in [Ranges -> Nat]
    /\ cmdAge \in [Controllers -> 0 .. Throttle + 1]
    /\ awaited \in [Controllers -> Int]
    /\ MainOK
    /\ published \in [Numbers -> Values \cup {NoValue, Garbage}]
    /\ device \in [Numbers -> Values \cup {Garbage}]

\* Without allow_duplicate_commands no command is queued behind one it is equal
\* to: updates that come faster than the bus can serve them do not pile up, and
\* a payload that is replaced makes no new duplicate (queue_command(),
\* modbustcp_controller.cpp 261-277).  is_equal() is not symmetric: a custom
\* command may stand behind a write with the same payload.
NoDuplicateCommands ==
    ~AllowDuplicates =>
        \A c \in Controllers : \A i, j \in 1 .. Len(queue[c]) :
            i < j => ~IsEqual(queue[c][i], queue[c][j])

\* The queue is served strictly in order: only its front has ever been sent,
\* and never more than max_cmd_retries + 1 times (send_next_command_() and
\* should_retry()).
OnlyFrontInFlight ==
    \A c \in Controllers : \A i \in 1 .. Len(queue[c]) :
        /\ i > 1 => queue[c][i].sent = 0
        /\ queue[c][i].sent <= MaxRetries + 1

\* handle_frame_() against the queue: a command that was put on the wire with
\* a transaction id of its own is never completed by the answer to another
\* request, while one controller has the connection for itself and sends no
\* custom command.  (A command that has not been sent yet can be:
\* LateAnswerIsDropped.)
Framed(item) == item \notin CustomRanges \cup Oversized
OnTheWire(c) == \/ Head(queue[c]).sent > 0
                \/ main.at = "sent" /\ main.who = c /\ main.place = 0
SentCommandsGetTheirAnswer ==
    [][\A c \in Controllers :
         Len(incoming'[c]) > Len(incoming[c]) /\ OnTheWire(c) /\ Framed(Head(queue[c]).item)
           => Head(fromServer).data.of.item = Head(queue[c]).item]_vars

\* The long pauses of an offline device end with its first answer: no range
\* of a device that is online is skipped longer than it is configured to
\* (send_next_command_() 29-34, on_modbus_data() 65-74, update_range_() 301),
\* where no callback comes between the test and the decrement of 282-303.
OnlineRangesPollOnTime ==
    \A c \in Controllers : ~offline[c] =>
        \A r \in RangesOf(c) : skip[r] <= SkipUpdates[r]

\* loop() looks at the responses first: a device whose answer is waiting to
\* be processed is never set offline (457-469 with 25-41), where no callback
\* brings the answer while 25-41 is under way.
AnsweringDeviceIsOnline ==
    \A c \in Controllers : incoming[c] # <<>> => ~offline[c]

\* A device is set offline only when it did not answer the last request of its
\* controller (modbustcp_controller.h 522: "didn't respond the last command"),
\* if that had an id of its own.
OfflineOnlyWhenSilent ==
    [][\A c \in Controllers :
         /\ offline'[c] /\ ~offline[c]
         /\ queue[c] # <<>> /\ Framed(Head(queue[c]).item)
         => awaited[c] # Heard]_vars

\* No command stays in the queue for ever, whatever the server and the
\* connection do: it is answered or given up (modbustcp_controller.h 470).
InQueue(item) == \E c \in Controllers : \E i \in 1 .. Len(queue[c]) :
                    queue[c][i].item = item
CommandsLeaveTheQueue == \A item \in Items : InQueue(item) ~> ~InQueue(item)

\* Every response that was accepted reaches its handler.
ResponsesAreProcessed ==
    \A c \in Controllers : incoming[c] # <<>> ~> incoming[c] = <<>>

\* The controllers implement what module CommandQueues promises: commands leave
\* their queue in order, answered or after exactly max_cmd_retries + 1 sends, but
\* for one that is dropped where a callback interrupts, and every response that
\* was taken is processed once and in order.
QueueOf(c) ==
    [pending |-> [i \in 1 .. Len(queue[c]) |-> queue[c][i].item],
     tries |-> IF queue[c] = <<>> THEN 0 ELSE queue[c][1].sent,
     answered |-> [i \in 1 .. Len(incoming[c]) |-> incoming[c][i].cmd.item]]

Queues == INSTANCE CommandQueues
            WITH MaxTries <- MaxRetries + 1, Duplicates <- AllowDuplicates,
                 Interrupts <- Preemptive, queues <- [c \in Controllers |-> QueueOf(c)]

ImplementsCommandQueues == Queues!Spec

-----------------------------------------------------------------------------
(* What comments of the code say and the code does not do; see README.     *)

\* modbustcp.cpp 134-138: a response that arrives after the controller gave
\* up is dropped, not taken for the answer to the next command.
LateAnswerIsDropped ==
    \A c \in Controllers : \A i \in 1 .. Len(incoming[c]) :
        incoming[c][i].cmd.item = incoming[c][i].data.of.item

\* modbustcp_controller.cpp 269-270: a newer value replaces the queued one,
\* so a write leaves the queue only once the value it holds was written.
LastWriteIsSent ==
    [][\A c \in Controllers :
         Len(incoming'[c]) > Len(incoming[c]) /\ Head(queue[c]).item \in Numbers
           => Head(queue[c]).payload = Head(fromServer).data.of.payload]_vars
=============================================================================
