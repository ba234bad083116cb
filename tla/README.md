# Modbus TCP for ESPHome: specifications

TLA+ specifications of the two ESPHome components of this repository,
`src/components/modbustcp` (the transport) and
`src/components/modbustcp_controller` (the command queue and the entities),
with TLC configurations and TLAPS proofs. Line numbers below are those of
`modbustcp.cpp` (M), `modbustcp_controller.cpp` (C) and
`modbustcp_controller.h` (H).

## The system

A `ModbusTCP` object owns one TCP connection to a Modbus server (or to a
gateway with several units behind it). Any number of `ModbusTCPController`
objects share it, each with a unit address, sensors and a queue of commands.
All of them run in ESPHome's main task, which calls `loop()` of every component
in turn, `update()` at the polling interval and `control()`/`write_state()` when
the user moves something. The `AsyncClient` calls back (`onConnect`,
`onDisconnect`, `onError`, `onData`), between those calls on the ESP8266 and in a
task of its own on the ESP32.

| Component | State | Operations | Talks to |
|---|---|---|---|
| connection (M 11-46, 184-192) | `client_`, `connected_`, `last_attempt_` | callbacks, `connect()`, `loop()` | `AsyncClient` |
| bus arbitration (M 194-201, 269-284) | `waiting_for_response`, `last_send_` | `send()`, `send_raw()`, `loop()` | every controller asks it before it sends |
| requests and ids (M 207-271) | `Transaction_Identifier`, `expected_transaction_id_` | `send()` | the server |
| receive path (M 78-174) | `rx_buffer_` | `handle_message()`, `process_buffer_()`, `handle_frame_()` | hands data to every controller |
| command queue (C 17-86, 261-277) | `command_queue_`, `last_command_timestamp_`, `module_offline_`, `send_count_` | `queue_command()`, `send_next_command_()`, `on_modbus_data()` | transport, incoming queue |
| responses (C 217-259, 457-469) | `incoming_queue_` | `loop()`, `process_modbus_data_()`, `find_sensors_()` | sensors and write handlers |
| polling (C 279-320) | `skip_updates_counter` of each range | `update()`, `update_range_()` | queue |
| register ranges (C 324-428) | `sensorset_`, `register_ranges_` | `create_register_ranges_()` at setup | polling, responses |
| number (`number/modbustcp_number.cpp`) | what it publishes | `control()`, its acknowledgement handler | queue |
| switch (`switch/modbustcp_switch.cpp`) | the same | `write_state()` | queue |
| sensors, binary and text sensors | what they publish | `parse_and_publish()` | responses |
| value conversions (C 666-806, H 60-230) | none | `payload_to_number()`, `number_to_payload()`, masks | entities |
| server role (C 87-215) | `server_registers_` | `on_modbus_read_registers()`, ... | nobody calls it |
| configuration (`*.py`) | none at run time | code generation | fixes the ranges of the constants |

What is hard: responses are matched with requests by one remembered id and by
the position of a command in a queue, while requests are repeated, given up and
answered late; two tasks touch the same lists without a lock; the bus is shared
through one mark and a timestamp; the polling counters are rewritten by going
offline and coming back; a connection ends at any byte; setup walks along a set
while it changes the keys of its elements. `PROJECT.json` lists each hazard at
its line.

What makes each part correct: `connected_` says what the client is; requests are
spaced and the bus is always let go of; frames survive any cut of the stream; a
queue is served in order, without duplicates and with a limit on repeats, and
every command leaves it; a response completes the command it answers; a healthy
device is polled on time and never set offline; every sensor reads its own
registers.

## The modules

| Module | Models | Composition |
|---|---|---|
| `ModbusTCP` | connection, bus, ids, whole frames in two FIFO directions | `TCPSpec` on its own |
| `ModbusTCPController` | queues, polling, responses, the number's writes, both tasks | extends `ModbusTCP` and uses its operations inside its own actions |
| `RxStream` | the receive path on bytes | implements `FrameChannel` |
| `FrameChannel` | abstract: frames arrive whole, once and in order | what `fromServer` of `ModbusTCP` assumes |
| `Values` | `number_to_payload()`, `payload_to_number()`, masks, coils, on sets of bits | operators only |
| `Requests` | constructors of the entities, commands and frames byte by byte, and what the entities write and show | extends `Values`; the queue and the connection are left out |
| `CommandQueues` | abstract: commands are served in order, tried a limited number of times, answered once | what `ModbusTCPController` implements |
| `RegisterRanges` | `create_register_ranges_()` and `find_sensors_()` | stands before the others: it makes `RangeList` |
| `ModbusTCPControllerProofs` | theorems: types, duplicates, order, the refinement | extends `ModbusTCPController` |
| `BusProofs` | theorems: polling, the shared bus and the answers | extends `ModbusTCPControllerProofs` |
| `ModbusTCPProofs`, `RxStreamProofs`, `RegisterRangesProofs`, `RequestsProofs` | theorems: the transport on its own, the receive path, the setup of the ranges, the requests | extend the module they are about |
| `PollProofs` | theorems: what the entities show of a poll | extends `RequestsProofs` |
| `FoldLemmas` | lemmas: sums over finite sets, joins of sequences, least elements | used by `RegisterRangesProofs`, `RequestsProofs`, `PollProofs` |
| `MC...` | constants for TLC | |

### ModbusTCP

`client` is the state of the `AsyncClient` as far as its use here tells it
("failed" is an error that has not been followed by a disconnection yet). A
timestamp is modelled by its age, which stops growing above the only limit it is
compared with; setting `last_attempt_` to 0 (M 24) therefore makes the age
arbitrary, since it depends on what `millis()` reads. `ModbusLoop` is `loop()`.
`SendFrame`/`SendRaw` are `send()`/`send_raw()` up to the write, `SendRawNothing`
is the early return of `send_raw()` (M 275), `Stamp` the
bookkeeping after it, so that a callback can come in between. A frame that cannot
be written is lost silently, as in `send_message()`. A response carries its id,
whether it is an exception, the byte at position 8 (`count`) and the number of
bytes after it (`room`): all that `handle_frame_()` looks at.

### ModbusTCPController

`queue[c]` and `incoming[c]` are the two lists of controller `c`. A command is
its item (a range that is read, or a number that is written), its payload, the
value its handler captured (`shown`) and `send_count_`. `Key` stands for the four
fields `is_equal()` compares (C 662), so that two numbers on one register may
have the same; a queued custom command is compared by its payload with whatever
comes (`IsEqual`). `awaited[c]` is a history variable: the id of the last request
of `c`, or `Heard` as soon as a response with this id has come in.

`main` says which handler the main task is in the middle of and how far it is. A
handler is cut wherever a callback that interrupts it could change what it does
next:

| `main.at` | Where | Action that goes on |
|---|---|---|
| `update` | before a turn of `update()` (C 317) | `UpdateRange`: test the counter, queue the command (C 282-300) |
| `queued`, `skipped` | before the counter is written (C 301, 303) | `SetCounter` |
| `chosen` | after the guard of `send_next_command_()` (C 22) | `CheckRetries`: `front()`, `should_retry()` (C 23-25) |
| `giveup` | in the branch of a command that was sent too often (C 26) | `SetOffline` (C 26-38) |
| `drop` | during the log and the user's callbacks (C 37-40) | `DropCommand`: `pop_front()`, whatever is in front by then (C 41) |
| `retry` | before the write (C 45) | `SendCommand`, or `SendRefused` where nothing is written |
| `sent`, `unsent` | after `send()`, `send_raw()` wrote or returned | `FinishSend`: mark, count, timestamp (M 269, C 651, 47) |

`main.place` says where the command is that was chosen: 0 while it is in front of
the queue, else its place in `incoming_queue_`, where a callback moved it
(`MainAfterData`). The handlers begin with:

| Action | Code |
|---|---|
| `StartUpdate` | `update()` |
| `NumberControl` | `ModbusTCPNumber::control()` with `queue_command()` |
| `ProcessData`, `ChooseCommand` | the two branches of `loop()` |
| `OnData` | `handle_frame_()` and `on_modbus_data()` of every controller |
| `ClientCallback`, `Transport` | the transport's callbacks and `loop()` |
| `Restart` | see below |
| `ServerAnswers`, `ServerRepeats`, `ServerRefuses`, `ServerIgnores`, `TimePasses` | the environment: answers may come late, twice (`Repeats`), as exceptions or not at all |

Where the code has undefined behaviour the model has every outcome that the build
can produce. `send_next_command_()` uses the command through a reference into the
queue, which a callback may have emptied and freed (C 23-54): either the memory
still reads as the command, whose payload may be the response by then
(`SentPayloads`), or the read faults and the node starts again (`Restart`, which
is possible wherever the command is gone, and all that is left when the queue is
empty). `update_range_()` may or may not read the counter again before it
decrements it (`Decremented`). `on_modbus_data()` takes the `front()` of a queue
that may be empty (C 63): with the list of libstdc++, the word that is read is
the list's size, 0, so the pointer is null and nothing happens (`Takes`).

The frame of a custom command is what the user wrote, without a header
(M 274-284): the server takes the first two bytes for the id, and the mark of the
bus is the first byte. `RawBytes` gives both for each `CustomPayload`.

`CommandQueues` says what is promised for a command, whatever the transport
does: it waits in order, is tried while it is in front, and leaves by a response
or after exactly `max_cmd_retries` + 1 tries; the responses are processed in the
same order, once each. Where callbacks interrupt (`Interrupts`) there is one more
way out, `Lose`: a command is dropped untried when the one in front of it is
answered just while it is given up. `QueueOf` is the refinement mapping: the items of
`command_queue_`, the `send_count_` of its front, and the items of
`incoming_queue_`. That a response answers the front of *every* queue
(`Respond`) is what M 171 does; that it is the right one is
`SentCommandsGetTheirAnswer`, which holds for one controller only.

### RxStream and FrameChannel

The stream is a sequence of bytes; `HandleMessage` takes any number of them, and
each turn of the loop of `process_buffer_()` is an action, between two of which
the main task may send (`SendRequest`). Frames are records that `Bytes` encodes,
and their `len` may lie. Connections break anywhere, and `rx_buffer_` survives
them. A connection is mapped to `FrameChannel` as long as it began with an empty
buffer and the server has sent well-formed frames only, and to a broken channel
otherwise. The two halves of the refinement are two properties:
`FramesArriveInOrder`, that every step is one of the channel's, and
`AllFramesArrive`, that no frame waits for ever.

### RegisterRanges

One action is one turn of the loop; `order` is the `std::set` in its order and
`ix` the iterator. `Merge` erases and inserts a sensor with its new key, at the
place the comparator of H 323-352 gives it, with the iterator where the code's
`erase`/`ix--`/`ix++` leave it. Its last criterion is the address of the sensor in
memory, which is the sensor's number here: `Orders` are the orders that the
configured sensors may come in. `sensors` of a range is a plain set. `config`
keeps what the sensors were before, to state what they should read. `Size` is
`get_register_size()` (H 239-245): a `response_size` replaces the two bytes of
each register, so `PlaceIn`, the place a sensor should have, counts the bytes of
the registers before it.

### Values and Requests

An integer is the set of the positions of its bits, so that an `int64_t`, a mask
of 32 bits and a register each keep their width: masks are intersections and
shifts move the elements. `NumberToPayload` and `PayloadToNumber` are the two
conversions for all value types but RAW (which has no words, so that a number of
type RAW reads `data[0]` of an empty vector).

`Requests` follows one entity, chosen at the start from `Entities`, which are
the configurations as the constructors (a switch adds its offset to its address,
a binary sensor on coils asks for its offset and one more) and the register
ranges leave them. A text is a sequence of what it is composed of (digits,
numbers, commas, characters): `Encoded` is what one byte adds in each of the four
encodings. `SetNumber`
and `SetSwitch` are `control()` and `write_state()`, `Poll` is a read of the
entity's range with the answer, `DeviceChanges` the device's own doing. Each goes
through the command (`Create...`), the frame (`Header`, `Payload`, with the two
early returns of `send()`), the bytes that `send_message()` writes of it, and a
server that refuses what is not a whole request. `Meaning` is the reference: the
value of the entity taken from the registers at its own address, by type, mask
and encoding.

## What TLC checks

| Run | Instance | Shows |
|---|---|---|
| `MCModbusTCP` | two devices, 3 ids that wrap | type; `ConnectedIffOpen`; `SendSpacing`; under fairness `AlwaysReconnects` and `BusIsReleased` |
| `MCCommands` | one controller, a range, a number, 5 ids, 1 retry, exceptions, repeated answers, callbacks interrupt | type; no duplicates; order and number of repeats; a command that was written is completed by its own answer; refinement of `CommandQueues` |
| `MCTwoControllers` | two controllers with two ranges and one, `skip_updates` 1, `offline_skip_updates` 2, duplicates allowed, exceptions, 5 ids, callbacks between the handlers | order although foreign answers complete commands; spacing across controllers; a device whose answer is waiting is not set offline; counters are back to normal as soon as a device is online, and one going offline leaves the other's alone |
| `MCLiveness` | a normal range, an oversized one and two custom commands, one of them without a payload; 2 ids that wrap; a send count of 3 values, callbacks between the handlers | every command leaves the queue, every response is processed; no duplicates; offline only when the last request was not answered |
| `MCRegisterRanges` | all configurations of four sensors: holding registers (1 or 2), `response_size` 3 and 5, coils, offsets, custom commands, `force_new_range`, `skip_updates`, in two orders of their addresses in memory; a byte of 8 values, so that offsets wrap | the loop ends; each sensor in one range, where forced ones at one address are alike; its registers requested and found in the response; the range reaches its sensors; the lowest skip counts |
| `MCRxStream` | two connections, two frames each of six kinds, every cut | refinement of `FrameChannel`; only data of answers is delivered |
| `MCRequests` | entities of every kind, value type and text encoding at addresses around 256, with offsets, alone and behind others in their range, five masks, single and multiple writes, ten numbers, two words | a poll shows what the device holds; single writes are read back; nothing else in the device changes |

The bounds. One frame per direction (`Window`) is enough for a late answer, since
a request may be repeated while the answer to the previous one is still on its
way; more of them only lengthen the delay. Times are 0 or 1 ticks: each
comparison is true and false on both sides of its limit. A number takes one value
in `MCCommands`, where no property compares payloads, and two in `MCLostWrite`,
which tell an old payload from a new one. Ids stop at `TidModulus` in the runs that compare
requests (`TidWraps` FALSE cuts the behaviour at the wrap, before an id of 16
bits would come again) and wrap in the liveness runs, which need infinite
behaviours. Four requests are two commands with a repeat each and a late
answer. The loop looks at a previous, a current and a next sensor, and a fourth is
what it takes for one to move behind another that has had no turn yet.
`MaxQueue` limits a queue only when duplicates are allowed and the code has no
limit; `MaxIncoming` limits the responses that wait for `loop()`. `send_count_`
has 256 values in the runs, but 3 in `MCLiveness`, where its limit of 1 is the
highest that the count can exceed, as 254 is for 8 bits. In `Requests` the device changes one register between two polls, and
the numbers have at most 24 significant bits, as the configuration has it
(`number/__init__.py` 71-74): the conversion to a float is exact for these.

Fairness. ESPHome calls `loop()` for ever: weak fairness of a handler that has
begun, and strong fairness of `Loop(c)` and `Transport`, as other handlers may
run in between and the bus mark flickers. Time passes. For `AlwaysReconnects` the
network must let an attempt start now and then, and the client must report the
disconnection after an error. Nothing is assumed of the server: it may stay
silent for ever. For `AllFramesArrive` bytes that were sent come in, and the
loop goes on. `RegisterRanges` runs to its end.

Each of these properties has a variant of some definition of the code ("variant
with a mistake" in the modules) under which TLC finds it violated.

### Where the code and its comments disagree

Each of these runs ends in a counterexample.

* `MCLateAnswer`: the comment at M 135 promises that a response that arrives
  after its command was given up is dropped. It is, once the next command has
  been *sent*; until then its id is still the expected one, and it completes the
  next command in the queue, whose sensors decode bytes that are not theirs.
* `MCHighAddress`: the acknowledgement of a write has the high byte of the
  address where a read has its byte count (M 164). From address 0x400 on it is
  discarded, the write repeated, and the device set offline although it answered.
* `MCLostWrite`: `queue_command()` replaces the payload of a command that has
  been sent already (C 269-271); the acknowledgement removes it, and the new value
  is never written.
* `MCTruncatedWrite`: the length byte of a request that writes several values is
  4 + `payload_len` (M 235), 3 less than what follows it, and `send_message()`
  sends as much as it says (M 57). The server gets a request without its last
  three bytes. So a number of two or four registers, and anything with
  `use_write_multiple`, shows its new value and is never written.
* `MCOverlap`: the test for registers that can be re-used (C 358) looks at the
  end of the range and at the size of the previous sensor. After U_DWORD at 0 and
  U_WORD at 0, U_WORD at 1 is given the bytes of register 0.

Others are in the models and have no run of their own:

* with several controllers on one connection a response completes the command at
  the front of every queue (M 171), as nothing in it is compared with the
  controller. It is compared with the last id that was sent by any of them, so a
  command that was sent and timed out is completed by the answer to a later
  request of another controller, against the comment at M 135-138; its sensors
  decode registers of another unit, and a device that is dead is back online. In
  turn, the late answer of a device is dropped when another controller has sent
  since, and the device may be set offline although it answers each request
  (`SentCommandsGetTheirAnswer` and `OfflineOnlyWhenSilent` are for one
  controller);
* with callbacks in a task of their own, a late answer that comes while its
  command is given up (C 25-41) brings the device online before C 36 sets it
  offline with the answer waiting, or lets `pop_front()` drop the next command,
  which was never sent (`Lose`; hence `~Preemptive` in `AnsweringIsOnline`);
* in the same way, a counter that a callback sets to 0 between its test and its
  decrement (C 282, 303) becomes 65535, and the range of an online device is not
  polled for long (hence `~Preemptive` in `PollsOnTime`);
* `is_equal()` compares a queued custom command with any other by the payload
  only: a custom command without a payload takes the place of every read that is
  queued behind it. It is not symmetric (hence the order in
  `NoDuplicateCommands`);
* a switch with a `bitmask` writes its whole register, and clears the bits of
  the other switches on it (hence `OnlyOwnRegistersChange` is about registers);
* the `bitmask` of a number applies to what is read only, so that a number with
  one does not read back what was written (hence the mask in `TakesEffect`);
* a switch on a discrete input or an input register, which the configuration
  accepts, writes a holding register (hence `ConfigurationAssumption`);
* an exception response is only logged (M 144-157), so a device that refuses a
  request is repeated to and set offline, although H 498 names a handler for it
  (hence `Understood` in `OfflineIsSilent`);
* the acknowledgement of a write publishes the value its handler captured, which
  a later duplicate has replaced in the payload but not there;
* `waiting_for_response` is the unit address, so unit 0 never holds the bus
  (`SendSpacing` is about other addresses);
* a range that is polled in the first round after the device went offline has its
  counter set back to `skip_updates`, so that `offline_skip_updates` delays one
  poll only (C 301);
* with `max_cmd_retries` 255 the 8-bit `send_count_` wraps before it exceeds the
  limit, and a dead command is repeated for ever (hence
  `MaxRetries + 1 < SendCountModulus` in `QueuesImplemented` and the runs);
* `rx_buffer_` is not cleared when a connection is lost (hence `clean`);
* a range can be shorter than a sensor that joined it, when two sensors with
  `force_new_range` start at one address and read different numbers of registers.
  The address compared with at 358 then lies before the range; a sensor there is
  moved up behind one that has had no turn, and ends in two ranges (four sensors:
  forced at 1 reading 1 and 2 registers, not forced at 0 reading 1 and 2).
  `ForcedAlike` leaves these configurations out of `EverySensorInOneRange`;
* with `force_new_range` at the start address of another range, `find_sensors_()`
  returns the first range's sensors for both (hence `Starts` in `SensorsAreFound`);
* `register_count` and `offset` of a long range wrap at 8 bits (hence
  `PlaceIn(...) < ByteModulus`);
* a binary sensor on a coil with an offset asks for `offset` + 1 coils but
  `get_register_size()` counts one place for it (H 240), so that an entity right
  behind it reads another coil (hence `Plain`);
* `payload_to_number()` subtracts the offset from the size of the data without a
  sign (C 709), so a response that ends before the offset looks long enough
  (hence `RangeAssumption`).

## What is proved

All theorems hold for every value of the constants that `TransportAssumption`
and `ControllerAssumption` (or `StreamAssumption`, `RangesAssumption`, or
`ConfigurationAssumption` and `RangeAssumption` of `Requests`) allow, which TLC
evaluates on every instance: any number of controllers, ranges, sensors
and numbers, any limits and delays, with and without interrupting callbacks,
duplicates, exceptions and repeated answers. A theorem that needs more says so in
its `ASSUME` or its statement.

The controllers, `ModbusTCPControllerProofs`:

* `TypeCorrect`: `Spec => []TypeOK`. Apart from types it holds `MainOK`: a
  handler that has begun finds the command it works on in one of the two lists,
  whatever callbacks come in between.
* `NoDuplicates`: `Spec => []NoDuplicateCommands`. It is proved together with the
  type invariant, as a replaced payload must not make two commands equal: a
  queued custom command is compared by its payload, and with every command that
  comes after it. It says that no command stands behind one that takes it for a
  duplicate, which is all the code sees to: the other way round, a custom command
  may come to stand behind a write with the same payload. The lemmas `FirstEqual`, `TailDistinct` and `CountDistinct` say what
  the operations on a queue do to it.
* `ServedInOrder`: `Spec => []OnlyFrontInFlight`. The property is not inductive:
  `FinishSend` counts a send, and `DropCommand` drops a command, that were decided
  in an earlier step. `OrderInv` adds `ChosenInv`: while the command that was
  chosen is in front, it still is what `should_retry()` found; once a callback has
  taken it, none of those left has been sent. `QueueSteps` reduces the actions to
  what they do to a queue (append, take the head, change a payload, count the
  front's send, nothing, start again).

On top of these:

* `QueuesImplemented`, in the same module: `Spec => ImplementsCommandQueues`,
  if `send_count_` cannot wrap (`MaxRetries + 1 < SendCountModulus`, which
  `max_cmd_retries` 255 breaks). The initial states map to the initial state,
  and each action to one step of `CommandQueues` or to none: `FinishSend` is
  `Try`, or nothing when a callback took the command; `DropCommand` is `GiveUp`,
  or `Lose` when a callback did; `QueueCommand` on a duplicate is nothing. The
  order invariant gives that the count starts at 0 when the front changes and is
  exactly `MaxTries` when a command is given up.
* `AnswersBelong` (`BusProofs`): `Spec => SentCommandsGetTheirAnswer` with one
  controller on the connection, without custom commands (whose first two bytes
  pass for an id) and before the ids wrap; callbacks interrupt anywhere. The
  property speaks of what has been accepted; the invariant
  `AnswerInv` has to speak of what is in flight. `IdsGrow`: no id in flight is
  above the expected one, the last that was given. `FrontMatches`: what
  carries the expected id is about the command at the front of the
  queue, if that is `Outstanding`, sent or being sent. `FrontSteps` says of every
  action but the send that it leaves the front alone or makes it one that is not
  outstanding.
* `AnsweringIsOnline` and `PollsOnTime` (`BusProofs`), for any number of
  controllers where callbacks run between the handlers (`~Preemptive`, as on the
  ESP8266). `AnsweringInv`: once `send_next_command_()` has begun, no answer waits.
  `PauseInv` strengthens the second for `offline_skip_updates` 0, where an answer
  leaves the counters alone, so that they have to be right while the device is
  offline too, and says that a counter is what it was when it was tested.
* `ControllersAreSpaced` (`BusProofs`): `Spec => SendSpacing` if no unit address
  and no custom command begins with 0 (`Addressed`). Between a write and its
  bookkeeping the bus looks free; `BusInv` says that it is free, outside of this
  handler, only when the last request is old enough, and that it stays free from
  the guard of `send_next_command_()` to the write.
* `OfflineIsSilent` (`BusProofs`): `Spec => OfflineOnlyWhenSilent` with one
  controller, callbacks between the handlers, and where the code takes what the
  server sends for an answer (`Understood`: no exceptions, no writes to 0x400 or
  above). `HeardInv`: once a response to the last request has come in, no command
  at the front is outstanding, so none can be given up before the next request;
  until then the id that is awaited is the expected one.

The transport, `ModbusTCPProofs`, with any devices in the place of the
controllers: `TransportType`, `ConnectedIsRight` and `RequestsAreSpaced`, the
last from `BusIsOld` (a free bus means an old request).

The receive path, `RxStreamProofs`, for all streams, cuts and connections:

* `FramesAreWhole`: `Spec => []TypeOK`. `handle_frame_()` is called with exactly
  one frame of 7 to 260 bytes by its own length, and the data it hands on lies
  inside that frame.
* `FramesInOrder`: `Spec => FramesArriveInOrder`, the safety half of the
  refinement. The invariant `WireInv` says what the bytes are that have not been
  handled, those in `rx_buffer_` followed by those on their way: there are places
  to cut them at, so that each piece is one of the frames that have been sent and
  not handled, in order. Then the length that `process_buffer_()` reads is that of
  the next frame, and the piece it takes off is this frame (`NextFrame`).
* `AnswersAreWhole`: `Spec => OnlyAnswersAreDelivered`, from the same invariant.

The register ranges, `RegisterRangesProofs`, for any number of sensors:

* `RangesType`: `Spec => []TypeOK`. The set keeps all of its sensors while the
  loop moves them, which takes `InOrder`: `order` is sorted from the iterator on,
  so that a sensor whose key is rewritten comes out of the set and goes in again
  at one place (`Removed`, `Inserted`, `PlaceInOrder`, `MergeStep`).
* `ResponsesFindTheirSensors`: `Spec => []SensorsAreFound`. By `FoundInv` a range
  that no sensor with `force_new_range` starts lies before all that comes after
  it, so nothing else starts where it does.
* `SensorsHaveOneRange`: `Spec => [](ShortRuns => EverySensorInOneRange)`.
  `ShortRuns` says that the sensors of one type do not read `ByteModulus` (256)
  registers in a row. In such a run `register_count` may wrap to a range that is
  shorter than its sensors; the protocol reads 125 registers at a time. `WalkInv`
  says of a sensor ahead of the iterator that it is as it was configured or waits
  in the range for its second turn, and of one behind that it is in the range or
  in exactly one of those that were closed. A sensor may only be moved behind
  another that has had no turn when that does no harm: once one waits, no sensor
  of its type ahead lies before the range (`WaitingIsHigher`). This is where the
  range must not be shorter than its last sensor (`LastFits`, `ForcedFits`), hence
  `ForcedAlike`, and where `register_count` must not wrap (`Covered`, `NoWrap`).
* `RangesPollOften`: `Spec => [](ForcedAlike /\ ShortRuns => LowestSkip)`, since
  a second turn in the same range changes nothing and there is none in another.
* `SensorsReadTheirOwn`: `Spec => [](ShortRuns /\ SingleCoils =>
  OwnRegistersAreRead)`. Under the condition of `OwnRegistersAreRead` no sensor
  has a second turn (`OneTurn`, `MergeStays`), so that the last one ends its
  range (`LastEnds`) and `buffer` is the sum over the sensors of the range;
  `BuiltInPlace` and `ClosedInPlace` say that the offset of each is its place
  among them, modulo `ByteModulus` (together `PlacesInv`). `SingleCoils` is
  assumed because `get_register_size()` counts one place for a sensor on coils,
  however many coils it reads (see the hazards). The sum in `PlaceIn` is a fold
  over a set: `SumExists` and `SumOfMore` of `FoldLemmas` show that it is defined and
  grows by each member.

The requests, `RequestsProofs`, for any entities, units, ids and registers of the
device:

* `OwnRegistersOnly`: `Spec => OnlyOwnRegistersChange`, and `WritesAreRead`:
  `Spec => SingleWritesTakeEffect`. Both assume `PlacesFit`, that the offset of
  an entity in its range fits into its byte: when it wraps, `control()` and
  `write_state()` take their address from the wrapped offset and write elsewhere.
  The second assumes `DeviceFits` as well: the device has the registers, and the
  mask of a switch on a register has one of its 16 bits. `MCRequests` states both
  as assumptions that TLC evaluates for its configurations.
* The argument follows the bytes. `EntityMade` and `PlacedFields` give the fields
  that the constructors and `create_register_ranges_()` leave, and that
  `start_address + offset` is again the address that was configured (for a number
  half of the offset, for a switch all of it). `SingleFrame` says that a write of
  one value is twelve bytes, all of which are sent, `SeveralFrame` and `HeaderIs`
  that a write of several loses its last three, so that the server does not serve
  it. `SingleWrite`, `OneWrite` and `SeveralWrite` draw from this what the
  device has afterwards: at most one register or coil is another. The bytes of
  an address or a word give back its number (`Number(Bits(n)) = n`, a sum over
  the bits that are set), so it is the register that was meant, and it has the
  value of the entity; reading it decodes the same value.
* `Kept` is the invariant: the entity is one of those configured, and the device
  has words in its registers and single bits in its coils.

What a poll shows, `PollProofs`, for all kinds of entities, value types, masks,
encodings and contents of the device:

* `PollsAreRight`: `Spec => []PollShowsTheDevice`, assuming `ReadsFit`. It has
  three parts, and each is needed. The offset of an entity on registers fits into
  its byte, or the sensor decodes another's bytes. The `byte_offset` of an entity
  that is not a text is even: an odd one reads halves of two registers, and
  there is no address to compare with. And a mask of a signed value keeps within
  the value and does not hold both of its ends: `payload_to_number()` extends the
  sign before the mask, so that a bit of the mask beyond the value takes a copy of
  the sign, and again after it, so that what a mask with both ends leaves may come
  out negative. `MCRequests` states `ReadsFit` as an assumption that TLC evaluates
  for its configurations; no other bound is left on what it is checked for.
* The property says of one moment what the invariant `Kept` and the answer give:
  every step but a poll ends `polled` or changes nothing, so the proof is about
  the poll. `AnswerIs` follows a read through its frame and the server: the
  answer is the registers or coils of the range. `PlaceIsOwn` and `OwnInAnswer`
  find those of the entity in it. For a number, `DataOfWords` and `WordsSwapped`
  say that the bytes make the registers one value, in both orders of words, and
  `MaskIsMeant` that sign and mask leave what is meant; a coil is found by
  `CoilIsRead`.
* A text is a fold over the bytes behind the offset. `TextIsJoin` turns it into a
  join of pieces, `OwnBytes` shows which bytes these are, and `JoinOfParts` of
  `FoldLemmas` is the induction: a sequence is the join of its parts. Each encoding
  has its own ends of the parts: twice as many, one less for the commas, or, for
  ANSI, as many as there are printable bytes so far (`Ranks`).
* `RequestsType`: `Spec => []TypeOK`, without `ReadsFit`: whatever the offsets
  wrap to, an answer decodes to an `int64_t`, a state or a text.

The proofs use induction in these folds and in the lemma `Least` (a set of
numbers that is not empty has a least one). The library states that the order of
the numbers is well founded for a set and not for an operator, so each goes by a
least counterexample (`FoldLemmas`).

A leaf of the proofs is an SMT or Zenon obligation; the steps follow the
disjuncts of `Next`, one step or lemma each.

Only model-checked: the liveness properties (`AlwaysReconnects`,
`BusIsReleased`, `CommandsLeaveTheQueue`, `ResponsesAreProcessed`,
`AllFramesArrive`, `SetupEnds`), as fairness is out of the prover's reach. Every
invariant and action property of a passing run is a theorem, under the
conditions named above.

## What is not modelled

The lambdas, filters and factors of the entities and the rounding to a float;
values of type RAW and the hexadecimal helpers; the switch in
the queue, where its command is one like the number's, and its restored state;
the triggers; the configuration code; `dump_config()` and logging. The server
role (C 95-215) is left out because no behaviour of the program reaches it:
nothing calls `on_modbus_read_registers()`, `on_modbus_write_registers()` or
`on_modbus_error()`, and the configuration has no server registers. A callback may
interrupt the main task between any two steps of the table above; the places in
the middle of a list operation (`push_back()`, `pop_front()`, the walk of
`queue_command()`), where two tasks would corrupt the list itself, are left out,
and so are two tasks that run at the same time on the two cores of an ESP32: a
callback is one step.

## Plan

Done: all modules, runs and theorems above. Left:

1. The switch and several numbers in the queue, with entities whose addresses
   come from the ranges: setup rewrites `start_address` and `offset`, which
   `control()` and `write_state()` use as well, so that a sensor that is given
   another's place also writes there.
