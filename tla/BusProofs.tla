------------------------------ MODULE BusProofs ------------------------------
(***************************************************************************)
(* Theorems about the controllers of one bus together, for every value of  *)
(* the constants their assumptions allow: their requests keep their        *)
(* distance, a device that answers is online and one that is online is     *)
(* polled on time, and, with one controller, a device is set offline only  *)
(* when it did not answer and an answer completes the command it answers.  *)
(***************************************************************************)
EXTENDS ModbusTCPControllerProofs

\* The steps of the server and of the client's callbacks.
Environment ==
    \/ ClientCallback
    \/ ServerAnswers \/ ServerRepeats \/ ServerRefuses \/ ServerIgnores

LEMMA EnvironmentUnchanged ==
    Environment => UNCHANGED <<busVars, tidVars, queue, incoming, offline, skip,
                               awaited, main>>
  BY DEF Environment, ClientCallback, OnConnect, OnDisconnect, OnError, ServerAnswers,
         ServerRepeats, ServerRefuses, ServerIgnores, Reply, ctlVars, busVars, tidVars

LEMMA InitState == Init => QueueInv
  BY InitType, InitOrder DEF QueueInv

LEMMA NextState == QueueInv /\ [Next]_vars => QueueInv'
  BY NextType, NextOrder DEF QueueInv

\* Where no callback interrupts, the command that was chosen stays in front.
LEMMA InPlace ==
    ASSUME QueueInv, ~Preemptive, main.at \in InLoop
    PROVE  main.place = 0
  BY DEF QueueInv, OrderInv, ChosenInv

-----------------------------------------------------------------------------
(* Spacing.  Between a write and its bookkeeping the bus still looks free;  *)
(* what keeps the others out is that this is one handler of the main task. *)

\* No request marks the bus with 0, the mark of a free bus: no unit address is 0
\* and no custom command begins with it, nor is read while it is overwritten.
Addressed ==
    /\ \A c \in Controllers : Unit[c] # 0
    /\ \A r \in CustomRanges :
         ~Preemptive /\ (CustomPayload[r] # NoValue => RawBytes[CustomPayload[r]].head # 0)

BusInv ==
    /\ main.at \in {"chosen", "retry"} => waiting = 0
    /\ main.at = "sent" => main.mark # 0
    /\ main.at # "sent" /\ waiting = 0 /\ tid # 0 => sendAge > SendWait

Spaced == Sends /\ tid # 0 => sendAge > SendWait

LEMMA InitBus == Init => BusInv
  BY DEF Init, TCPInit, BusInv, Idle, Handler

LEMMA SendCommandBus ==
    ASSUME QueueInv, Addressed, BusInv, NEW c \in Controllers, SendCommand(c)
    PROVE  BusInv' /\ Spaced
<1>1. /\ main.at = "retry" /\ waiting = 0 /\ waiting' = waiting /\ sendAge' = sendAge
      /\ main.at \in InLoop
  BY DEF SendCommand, BusInv, busVars, InLoop
<1>2. PICK payload \in SentPayloads(c) :
        \/ /\ Written(Unit[c])
        \/ /\ Chosen(c).item \in CustomRanges
           /\ \E bytes \in Raw(payload) : ~bytes.empty /\ Written(bytes.head)
  BY DEF SendCommand, SendRaw
<1>3. ASSUME NEW k, Written(k) PROVE main'.at = "sent" /\ main'.mark = k
  BY <1>3 DEF Written, QueueInv, TypeOK, MainOK
<1>4. main'.at = "sent" /\ main'.mark # 0
  <2>1. CASE Written(Unit[c])
    BY <1>3, <2>1 DEF Addressed
  <2>2. ASSUME Chosen(c).item \in CustomRanges, NEW bytes \in Raw(payload), ~bytes.empty,
               Written(bytes.head)
        PROVE  main'.at = "sent" /\ main'.mark # 0
    <3> DEFINE r == Chosen(c).item
    <3>1. ~Preemptive
      BY <2>2 DEF Addressed
    <3>2. main.place = 0
      BY <1>1, <3>1, InPlace
    <3>3. payload = Chosen(c).payload /\ Chosen(c) = Head(queue[c]) /\ queue[c] # <<>>
      <4>1. main.who = c
        BY DEF SendCommand
      <4> QED
        BY <1>1, <3>2, <4>1 DEF SentPayloads, Chosen, QueueInv, TypeOK, MainOK
    <3>4. Chosen(c) \in Command
      BY <3>3, HeadTailProperties DEF QueueInv, TypeOK
    <3>5. payload = CustomPayload[r] /\ r \in CustomRanges
      BY <2>2, <3>3, <3>4 DEF Command, Typed
    <3>6. payload # NoValue
      <4>1. payload = NoValue => bytes = NoBytes
        BY <2>2 DEF Raw
      <4> QED
        BY <2>2, <4>1 DEF NoBytes
    <3>7. payload # Garbage
      BY <3>5, ControllerAssumption
    <3>8. bytes = RawBytes[payload]
      BY <2>2, <3>6, <3>7 DEF Raw
    <3>9. bytes.head # 0
      BY <3>5, <3>6, <3>8 DEF Addressed
    <3> QED
      BY <1>3, <2>2, <3>9
  <2> QED
    BY <1>2, <2>1, <2>2
<1> QED
  BY <1>1, <1>4 DEF BusInv, Spaced

LEMMA NextBus ==
    ASSUME QueueInv, Addressed, BusInv, [Next]_vars
    PROVE  BusInv' /\ Spaced
<1> USE DEF Handler
<1>1. CASE UNCHANGED <<tid, waiting, sendAge, main>>
  BY <1>1 DEF BusInv, Spaced, Sends
<1>2. ASSUME NEW c \in Controllers,
             \/ StartUpdate(c) \/ UpdateRange(c) \/ SetCounter(c) \/ ProcessData(c)
             \/ CheckRetries(c) \/ SetOffline(c) \/ DropCommand(c) \/ SendRefused(c)
      PROVE  BusInv' /\ Spaced
  <2>1. CASE StartUpdate(c) \/ UpdateRange(c) \/ SetCounter(c) \/ ProcessData(c)
    <3>1. UNCHANGED <<tid, waiting, sendAge>>
      BY <2>1 DEF StartUpdate, UpdateRange, SetCounter, ProcessData, tcpVars, busVars,
                  tidVars
    <3>2. main.at \in {"idle", "update", "queued", "skipped"}
      BY <2>1 DEF StartUpdate, UpdateRange, SetCounter, ProcessData, Idle
    <3>3. main'.at \in {"idle", "update", "queued", "skipped"}
      <4>1. CASE StartUpdate(c) \/ ProcessData(c)
        BY <4>1 DEF StartUpdate, ProcessData, Idle, Updating
      <4>2. CASE UpdateRange(c)
        BY <4>2 DEF UpdateRange, QueueInv, TypeOK, MainOK
      <4>3. CASE SetCounter(c)
        BY <4>3 DEF SetCounter, Idle, Updating
      <4> QED
        BY <2>1, <4>1, <4>2, <4>3
    <3> QED
      BY <3>1, <3>2, <3>3 DEF BusInv, Spaced, Sends
  <2>2. CASE CheckRetries(c) \/ SetOffline(c) \/ DropCommand(c) \/ SendRefused(c)
    <3>1. UNCHANGED <<tid, waiting, sendAge>>
      BY <2>2 DEF CheckRetries, SetOffline, DropCommand, SendRefused, SendRawNothing,
                  tcpVars, busVars, tidVars
    <3>2. CASE CheckRetries(c)
      <4>1. main.at = "chosen" /\ main'.at \in {"retry", "giveup"}
        BY <3>2 DEF CheckRetries, Sending
      <4> QED
        BY <3>1, <4>1 DEF BusInv, Spaced, Sends
    <3>3. CASE SetOffline(c) \/ DropCommand(c) \/ SendRefused(c)
      <4>1. main.at \in {"giveup", "drop", "retry"} /\ main'.at \in {"drop", "idle", "unsent"}
        BY <3>3 DEF SetOffline, DropCommand, SendRefused, Idle, QueueInv, TypeOK, MainOK
      <4> QED
        BY <3>1, <4>1 DEF BusInv, Spaced, Sends
    <3> QED
      BY <2>2, <3>2, <3>3
  <2> QED
    BY <1>2, <2>1, <2>2
<1>3. ASSUME NEW c \in Controllers, ChooseCommand(c) PROVE BusInv' /\ Spaced
  <2>1. /\ UNCHANGED <<tid, waiting, sendAge>>
        /\ main.at = "idle" /\ main'.at = "chosen" /\ waiting = 0
    BY <1>3 DEF ChooseCommand, SendIsDue, Idle, Sending, tcpVars, busVars, tidVars
  <2> QED
    BY <2>1 DEF BusInv, Spaced, Sends
<1>4. ASSUME NEW c \in Controllers, FinishSend(c) PROVE BusInv' /\ Spaced
  <2>1. main'.at = "idle" /\ tid' = tid
    BY <1>4 DEF FinishSend, Idle, tidVars
  <2>2. IF main.at = "sent" THEN waiting' # 0 ELSE UNCHANGED <<waiting, sendAge>>
    BY <1>4 DEF FinishSend, Stamp, BusInv, busVars
  <2> QED
    BY <1>4, <2>1, <2>2 DEF FinishSend, BusInv, Spaced, Sends
<1>5. ASSUME NEW n \in Numbers, NEW v \in Values, NumberControl(n, v)
      PROVE  BusInv' /\ Spaced
  BY <1>1, <1>5 DEF NumberControl, tcpVars, busVars, tidVars
<1>6. CASE Restart
  BY <1>6 DEF Restart, Idle, BusInv, Spaced, Sends
<1>7. CASE OnData
  <2>1. UNCHANGED <<tid, waiting, sendAge>>
    BY <1>7 DEF OnData, Receive, busVars, tidVars
  <2>2. main'.at = main.at /\ main'.mark = main.mark
    BY <1>7 DEF OnData, MainAfterData, QueueInv, TypeOK, MainOK
  <2> QED
    BY <2>1, <2>2 DEF BusInv, Spaced, Sends
<1>8. CASE Transport
  <2>1. /\ UNCHANGED <<tid, sendAge, main>> /\ main.at = "idle"
        /\ waiting' = IF sendAge > SendWait THEN 0 ELSE waiting
    BY <1>8 DEF Transport, ModbusLoop, tidVars, Idle
  <2> QED
    BY <2>1 DEF BusInv, Spaced, Sends
<1>9. CASE TimePasses
  <2>1. UNCHANGED <<tid, waiting, main>> /\ sendAge' = Older(sendAge, SendWait)
    BY <1>9 DEF TimePasses, TCPTick, tidVars
  <2>2. sendAge > SendWait => sendAge' > SendWait
    BY <2>1, TransportAssumption DEF QueueInv, TypeOK, TCPTypeOK, Older
  <2> QED
    BY <2>1, <2>2 DEF BusInv, Spaced, Sends
<1>10. CASE Environment
  BY <1>1, <1>10, EnvironmentUnchanged DEF busVars, tidVars
<1>11. CASE UNCHANGED vars
  BY <1>1, <1>11 DEF vars, tcpVars, busVars, tidVars
<1> QED
  BY <1>2, <1>3, <1>4, <1>5, <1>6, <1>7, <1>8, <1>9, <1>10, <1>11, SendCommandBus
     DEF Next, Environment, Loop, Continue

\* However many controllers share the bus, and whatever interrupts them: two
\* requests are more than send_wait_time apart (modbustcp.cpp 196-201, 269-284
\* with waiting_for_response() in send_next_command_()), if nothing marks the bus
\* with 0 (Addressed).
THEOREM ControllersAreSpaced ==
    ASSUME Addressed
    PROVE  Spec => SendSpacing
<1> DEFINE Inv == QueueInv /\ BusInv
<1>1. Init => Inv
  BY InitState, InitBus
<1>2. Inv /\ [Next]_vars => Inv'
  BY NextState, NextBus
<1>3. Inv /\ [Next]_vars => [Sends /\ tid # 0 => sendAge > SendWait]_tcpVars
  BY NextBus DEF Spaced
<1> QED
  BY <1>1, <1>2, <1>3, PTL DEF Spec, SendSpacing

-----------------------------------------------------------------------------
(***************************************************************************)
(* module_offline_ and the pauses between polls, where no callback comes   *)
(* in the middle of a handler (with callbacks that interrupt, the answer   *)
(* may come while the command is given up, or between the test and the     *)
(* decrement of a counter): a device that answers is online, and an online *)
(* device is polled on time.                                               *)
(***************************************************************************)

\* Every range belongs to the one controller that polls it.
LEMMA OwnerOfRange ==
    ASSUME NEW c \in Controllers, NEW r \in RangesOf(c)
    PROVE  r \in Ranges /\ Owner(r) = c
<1>1. r \in Ranges /\ r \notin Numbers
  BY ControllerAssumption DEF Ranges
<1>2. \A d \in Controllers : r \in RangesOf(d) => d = c
  BY ControllerAssumption
<1> QED
  BY <1>1, <1>2 DEF Owner

\* send_next_command_() has begun only because no answer was waiting.
AnsweringInv ==
    /\ AnsweringDeviceIsOnline
    /\ main.at \in InLoop => incoming[main.who] = <<>>

LEMMA InitAnswering == Init => AnsweringInv
  BY DEF Init, AnsweringInv, AnsweringDeviceIsOnline, Idle, Handler, InLoop

LEMMA NextAnswering ==
    ASSUME QueueInv, ~Preemptive, AnsweringInv, [Next]_vars
    PROVE  AnsweringInv'
<1> USE DEF Handler
<1>1. ASSUME UNCHANGED <<offline, incoming>>,
             main'.at \in InLoop => \/ main.at \in InLoop /\ main'.who = main.who
                                    \/ incoming[main'.who] = <<>>
      PROVE  AnsweringInv'
  BY <1>1 DEF AnsweringInv, AnsweringDeviceIsOnline
<1>2. ASSUME NEW c \in Controllers, StartUpdate(c) \/ UpdateRange(c) \/ SetCounter(c)
      PROVE  AnsweringInv'
  <2>1. UNCHANGED <<offline, incoming>>
    BY <1>2 DEF StartUpdate, UpdateRange, SetCounter, ctlVars
  <2>2. main'.at \notin InLoop
    <3>1. CASE StartUpdate(c)
      BY <3>1 DEF StartUpdate, Updating, InLoop
    <3>2. CASE UpdateRange(c)
      BY <3>2 DEF UpdateRange, InLoop, QueueInv, TypeOK, MainOK
    <3>3. CASE SetCounter(c)
      BY <3>3 DEF SetCounter, Idle, Updating, InLoop
    <3> QED
      BY <1>2, <3>1, <3>2, <3>3
  <2> QED
    BY <1>1, <2>1, <2>2
<1>3. ASSUME NEW c \in Controllers, ProcessData(c) PROVE AnsweringInv'
  <2>1. /\ incoming[c] # <<>> /\ offline' = offline /\ main' = main /\ main.at = "idle"
        /\ \A d \in Controllers \ {c} : incoming'[d] = incoming[d]
    BY <1>3 DEF ProcessData, QueueInv, TypeOK, Idle
  <2> QED
    BY <2>1 DEF AnsweringInv, AnsweringDeviceIsOnline, InLoop
<1>4. ASSUME NEW c \in Controllers, ChooseCommand(c) PROVE AnsweringInv'
  <2>1. UNCHANGED <<offline, incoming>> /\ main'.who = c /\ incoming[c] = <<>>
    BY <1>4 DEF ChooseCommand, SendIsDue, Sending, ctlVars
  <2> QED
    BY <1>1, <2>1
<1>5. ASSUME NEW c \in Controllers, CheckRetries(c) \/ SendCommand(c) \/ SendRefused(c)
      PROVE  AnsweringInv'
  <2>1. UNCHANGED <<offline, incoming>> /\ main.at \in InLoop /\ main'.who = main.who
    <3>1. CASE CheckRetries(c)
      BY <3>1 DEF CheckRetries, Sending, ctlVars, InLoop
    <3>2. CASE SendCommand(c)
      BY <3>2 DEF SendCommand, Written, InLoop, QueueInv, TypeOK, MainOK
    <3>3. CASE SendRefused(c)
      BY <3>3 DEF SendRefused, ctlVars, InLoop, QueueInv, TypeOK, MainOK
    <3> QED
      BY <1>5, <3>1, <3>2, <3>3
  <2> QED
    BY <1>1, <2>1
<1>6. ASSUME NEW c \in Controllers, SetOffline(c) PROVE AnsweringInv'
  <2>1. main.at \in InLoop /\ main.who = c /\ incoming' = incoming /\ main'.who = c
    BY <1>6 DEF SetOffline, InLoop, QueueInv, TypeOK, MainOK
  <2>2. \A d \in Controllers \ {c} : offline'[d] = offline[d]
    BY <1>6 DEF SetOffline, QueueInv, TypeOK
  <2> QED
    BY <2>1, <2>2 DEF AnsweringInv, AnsweringDeviceIsOnline
<1>7. ASSUME NEW c \in Controllers, DropCommand(c) PROVE AnsweringInv'
  BY <1>1, <1>7 DEF DropCommand, Idle, InLoop
<1>8. ASSUME NEW c \in Controllers, FinishSend(c) PROVE AnsweringInv'
  <2>1. main.place = 0
    BY <1>8, InPlace DEF FinishSend, InLoop
  <2> QED
    BY <1>1, <1>8, <2>1 DEF FinishSend, Idle, InLoop
<1>9. ASSUME NEW n \in Numbers, NEW v \in Values, NumberControl(n, v)
      PROVE  AnsweringInv'
  BY <1>1, <1>9 DEF NumberControl, Idle, InLoop
<1>10. CASE OnData
  <2>1. main' = Idle
    BY <1>10 DEF OnData, MayCallBack, MainAfterData, Idle, InLoop
  <2>2. \A c \in Controllers : /\ offline'[c] = (offline[c] /\ ~Takes(c))
                               /\ ~Takes(c) => incoming'[c] = incoming[c]
    BY <1>10 DEF OnData
  <2> QED
    BY <2>1, <2>2 DEF AnsweringInv, AnsweringDeviceIsOnline, Idle, InLoop
<1>11. CASE Restart
  BY <1>11 DEF Restart, AnsweringInv, AnsweringDeviceIsOnline, Idle, InLoop
<1>12. CASE Environment
  BY <1>1, <1>12, EnvironmentUnchanged
<1>13. CASE Transport \/ TimePasses \/ UNCHANGED vars
  BY <1>1, <1>13 DEF Transport, TimePasses, vars, ctlVars
<1> QED
  BY <1>2, <1>3, <1>4, <1>5, <1>6, <1>7, <1>8, <1>9, <1>10, <1>11, <1>12, <1>13
     DEF Next, Environment, Loop, Continue

\* loop() never sets a device offline whose answer is waiting to be processed
\* (457-469 with 25-41), however the callbacks fall between the handlers.
THEOREM AnsweringIsOnline ==
    ASSUME ~Preemptive
    PROVE  Spec => []AnsweringDeviceIsOnline
<1> DEFINE Inv == QueueInv /\ AnsweringInv
<1>1. Init => Inv
  BY InitState, InitAnswering
<1>2. Inv /\ [Next]_vars => Inv'
  BY NextState, NextAnswering
<1>3. Inv => AnsweringDeviceIsOnline
  BY DEF AnsweringInv
<1> QED
  BY <1>1, <1>2, <1>3, PTL DEF Spec

-----------------------------------------------------------------------------
(* The pauses end with the first answer.  Without offline_skip_updates an  *)
(* answer leaves the counters alone, so they have to be right all the time. *)

InTime(r) == skip[r] <= SkipUpdates[r]

PauseInv ==
    /\ OnlineRangesPollOnTime
    /\ OfflineSkip = 0 => \A r \in Ranges : InTime(r)
    /\ main.at = "skipped" => main.mark = skip[RangeList[main.who][main.range]]

LEMMA InitPause == Init => PauseInv
<1>1. \A r \in Ranges : 0 <= SkipUpdates[r]
  BY ControllerAssumption
<1>2. \A c \in Controllers : RangesOf(c) \subseteq Ranges
  BY DEF Ranges
<1> QED
  BY <1>1, <1>2 DEF Init, PauseInv, InTime, OnlineRangesPollOnTime, Idle, Handler

LEMMA SetCounterPause ==
    ASSUME QueueInv, PauseInv, NEW c \in Controllers, SetCounter(c)
    PROVE  PauseInv'
<1> DEFINE r == RangeList[c][main.range]
<1>1. r \in Ranges /\ main.who = c /\ main.at \in {"queued", "skipped"}
  BY RangeInRanges DEF SetCounter, QueueInv, TypeOK, MainOK
<1>2. /\ \A s \in Ranges : skip[s] \in Nat /\ SkipUpdates[s] \in Nat
      /\ CounterModulus \in Nat \ {0}
  BY ControllerAssumption DEF QueueInv, TypeOK
<1>3. PICK k \in IF main.at = "queued" THEN {SkipUpdates[r]} ELSE Decremented(r) :
        skip' = [skip EXCEPT ![r] = k]
  BY DEF SetCounter
<1>4. k <= SkipUpdates[r] \/ (k \in Int /\ k <= skip[r])
  <2>1. CASE main.at = "queued"
    BY <1>1, <1>2, <1>3, <2>1
  <2>2. CASE main.at = "skipped"
    <3>1. main.mark = skip[r] /\ skip[r] - 1 \in Nat
      BY <1>1, <1>2, <2>2 DEF PauseInv, QueueInv, TypeOK, MainOK
    <3>2. \A a \in Nat, m \in Nat \ {0} : a % m <= a /\ a % m \in Int
      OBVIOUS
    <3>3. (skip[r] - 1) % CounterModulus <= skip[r] - 1 /\ (skip[r] - 1) % CounterModulus \in Int
      BY <1>2, <3>1, <3>2
    <3>4. k = skip[r] - 1 \/ k = (skip[r] - 1) % CounterModulus
      BY <1>3, <2>2, <3>1 DEF Decremented
    <3> HIDE DEF r
    <3> DEFINE j == (skip[r] - 1) % CounterModulus
    <3>5. j <= skip[r] - 1 /\ j \in Int /\ (k = skip[r] - 1 \/ k = j)
      BY <3>3, <3>4
    <3> HIDE DEF j
    <3> QED
      BY <1>1, <1>2, <3>5 DEF r
  <2> QED
    BY <1>1, <2>1, <2>2
<1> HIDE DEF r
<1>5. \A s \in Ranges : skip'[s] = IF s = r THEN k ELSE skip[s]
  BY <1>1, <1>3 DEF QueueInv, TypeOK
<1>6. \A s \in Ranges : InTime(s) => InTime(s)'
  BY <1>1, <1>2, <1>4, <1>5 DEF InTime
<1>7. offline' = offline /\ main'.at # "skipped"
  BY DEF SetCounter, Updating, Idle, Handler
<1> QED
  BY <1>6, <1>7, OwnerOfRange DEF PauseInv, OnlineRangesPollOnTime, InTime

LEMMA OnDataPause ==
    ASSUME QueueInv, ~Preemptive, PauseInv, OnData
    PROVE  PauseInv'
<1>1. \A c \in Controllers : \A r \in RangesOf(c) : r \in Ranges /\ Owner(r) = c
  BY OwnerOfRange
<1>2. /\ \A r \in Ranges : skip[r] \in Nat /\ SkipUpdates[r] \in Nat
      /\ OfflineSkip \in Nat
  BY ControllerAssumption DEF QueueInv, TypeOK
<1>3. \A r \in Ranges : skip'[r] = IF /\ Takes(Owner(r))
                                      /\ offline[Owner(r)]
                                      /\ OfflineSkip > 0
                                     THEN 0 ELSE skip[r]
  BY DEF OnData, SkipAfterData
<1>4. \A c \in Controllers : offline'[c] = (offline[c] /\ ~Takes(c))
  BY DEF OnData
<1>5. \A r \in Ranges : InTime(r) => InTime(r)'
  BY <1>2, <1>3 DEF InTime
<1>6. ASSUME NEW c \in Controllers, ~offline'[c], NEW r \in RangesOf(c)
      PROVE  InTime(r)'
  <2>1. CASE ~offline[c]
    BY <1>1, <1>5, <1>6, <2>1 DEF PauseInv, OnlineRangesPollOnTime, InTime
  <2>2. CASE offline[c] /\ OfflineSkip = 0
    BY <1>1, <1>5, <1>6, <2>2 DEF PauseInv
  <2>3. CASE offline[c] /\ OfflineSkip > 0
    <3>1. skip'[r] = 0
      BY <1>1, <1>3, <1>4, <1>6, <2>3
    <3> QED
      BY <1>1, <1>2, <1>6, <3>1 DEF InTime
  <2> QED
    BY <1>2, <2>1, <2>2, <2>3
<1>7. main' = Idle
  BY DEF OnData, MayCallBack, MainAfterData, Idle, Handler, InLoop
<1> QED
  BY <1>5, <1>6, <1>7 DEF PauseInv, OnlineRangesPollOnTime, InTime, Idle, Handler

LEMMA NextPause ==
    ASSUME QueueInv, ~Preemptive, PauseInv, [Next]_vars
    PROVE  PauseInv'
<1> USE DEF Handler
<1>1. ASSUME UNCHANGED <<offline, skip>>, main' = main \/ main'.at # "skipped"
      PROVE  PauseInv'
  BY <1>1 DEF PauseInv, InTime, OnlineRangesPollOnTime
<1>2. ASSUME NEW c \in Controllers, UpdateRange(c) PROVE PauseInv'
  <2>1. UNCHANGED <<offline, skip>> /\ main.who = c
    BY <1>2 DEF UpdateRange
  <2>2. main'.at = "skipped" => main'.mark = skip[RangeList[main'.who][main'.range]]
    <3> DEFINE k == skip[RangeList[c][main.range]]
    <3>1. \/ main' = [main EXCEPT !.at = "queued"]
          \/ main' = [main EXCEPT !.at = "skipped", !.mark = k]
      BY <1>2 DEF UpdateRange
    <3> HIDE DEF k
    <3>2. main'.at = "skipped" => main'.mark = k
      BY <3>1 DEF QueueInv, TypeOK, MainOK
    <3>3. main'.who = c /\ main'.range = main.range
      BY <2>1, <3>1 DEF QueueInv, TypeOK, MainOK
    <3> QED
      BY <3>2, <3>3 DEF k
  <2> QED
    BY <2>1, <2>2 DEF PauseInv, InTime, OnlineRangesPollOnTime
<1>3. ASSUME NEW c \in Controllers, SetOffline(c) PROVE PauseInv'
  <2>1. /\ \A r \in Ranges : r \in RangesOf(c) \/ skip'[r] = skip[r]
        /\ OfflineSkip = 0 => \A r \in Ranges : skip'[r] = skip[r]
    BY ControllerAssumption, <1>3 DEF SetOffline, SkipWhenOffline
  <2>2. offline'[c] /\ \A d \in Controllers \ {c} : offline'[d] = offline[d]
    BY <1>3 DEF SetOffline, QueueInv, TypeOK
  <2>3. \A d \in Controllers \ {c} : \A r \in RangesOf(d) : skip'[r] = skip[r]
    BY <2>1, OwnerOfRange
  <2>4. main'.at # "skipped"
    BY <1>3 DEF SetOffline, QueueInv, TypeOK, MainOK
  <2> QED
    BY <2>1, <2>2, <2>3, <2>4, OwnerOfRange DEF PauseInv, InTime, OnlineRangesPollOnTime
<1>4. CASE Restart
  <2>1. /\ \A r \in Ranges : skip'[r] <= SkipUpdates[r]
        /\ main'.at # "skipped"
    BY <1>4, ControllerAssumption DEF Restart, Idle
  <2> QED
    BY <2>1, OwnerOfRange DEF PauseInv, InTime, OnlineRangesPollOnTime
<1>5. ASSUME NEW c \in Controllers,
             \/ StartUpdate(c) \/ ProcessData(c) \/ ChooseCommand(c) \/ CheckRetries(c)
             \/ DropCommand(c) \/ FinishSend(c)
      PROVE  PauseInv'
  BY <1>1, <1>5 DEF StartUpdate, ProcessData, ChooseCommand, CheckRetries, DropCommand,
                    FinishSend, ctlVars, Updating, Sending, Idle
<1>6. ASSUME NEW c \in Controllers, SendCommand(c) \/ SendRefused(c) PROVE PauseInv'
  <2>1. UNCHANGED <<offline, skip>> /\ main'.at \in {"sent", "unsent"}
    BY <1>6 DEF SendCommand, SendRefused, Written, ctlVars, QueueInv, TypeOK, MainOK
  <2> QED
    BY <1>1, <2>1
<1>7. ASSUME NEW n \in Numbers, NEW v \in Values, NumberControl(n, v) PROVE PauseInv'
  BY <1>1, <1>7 DEF NumberControl
<1>8. CASE Environment
  BY <1>1, <1>8, EnvironmentUnchanged
<1>9. CASE Transport \/ TimePasses \/ UNCHANGED vars
  BY <1>1, <1>9 DEF Transport, TimePasses, vars, ctlVars
<1> QED
  BY <1>2, <1>3, <1>4, <1>5, <1>6, <1>7, <1>8, <1>9, SetCounterPause, OnDataPause
     DEF Next, Environment, Loop, Continue

\* With any number of controllers on the bus: a device that is online is never
\* skipped longer than configured (send_next_command_() 29-34, on_modbus_data()
\* 65-74, update_range_() 301), however the callbacks fall between the handlers.
THEOREM PollsOnTime ==
    ASSUME ~Preemptive
    PROVE  Spec => []OnlineRangesPollOnTime
<1> DEFINE Inv == QueueInv /\ PauseInv
<1>1. Init => Inv
  BY InitState, InitPause
<1>2. Inv /\ [Next]_vars => Inv'
  BY NextState, NextPause
<1>3. Inv => OnlineRangesPollOnTime
  BY DEF PauseInv
<1> QED
  BY <1>1, <1>2, <1>3, PTL DEF Spec

-----------------------------------------------------------------------------
(* The front of a queue.  Both of the theorems that follow are about the   *)
(* command that is outstanding: with one controller on the bus, what may   *)
(* still be answered is at the front of its queue.                         *)

\* is the front command of c in the middle of being sent?
BeingSent(c) == main.at = "sent" /\ main.place = 0 /\ main.who = c

\* a framed command at the front that may have been answered
Outstanding(c) ==
    /\ queue[c] # <<>>
    /\ queue[c][1].sent > 0 \/ BeingSent(c)
    /\ Framed(queue[c][1].item)

\* What a step may do to the front of a queue.
FrontStep(c) ==
    Outstanding(c)' => Outstanding(c) /\ queue'[c][1].item = queue[c][1].item

\* Only what has no id of its own is refused.
RefusedInv == main.at = "unsent" /\ main.place = 0 => ~Framed(queue[main.who][1].item)

\* A queue that is left alone, when no send begins.
LEMMA SameFront ==
    ASSUME NEW c \in Controllers, queue'[c] = queue[c], BeingSent(c)' => BeingSent(c)
    PROVE  FrontStep(c)
  BY DEF FrontStep, Outstanding

\* A new command waits behind what was sent.
LEMMA QueueCommandFront ==
    ASSUME QueueInv, NEW d \in Controllers, NEW command \in Command, command.sent = 0,
           queue' = [queue EXCEPT ![d] = QueueCommand(@, command)],
           main'.at # "sent", NEW c \in Controllers
    PROVE  FrontStep(c)
<1> DEFINE q == queue[d]
           p == QueueCommand(q, command)
<1>1. CASE c # d
  <2>1. queue'[c] = queue[c]
    BY <1>1 DEF QueueInv, TypeOK
  <2> QED
    BY <2>1, SameFront DEF BeingSent
<1>2. CASE c = d
  <2>1. q \in Seq(Command)
    BY DEF QueueInv, TypeOK
  <2>2. /\ p \in Seq(Command)
        /\ \A i \in 1 .. Len(q) : p[i].item = q[i].item /\ p[i].sent = q[i].sent
        /\ \/ Len(p) = Len(q)
           \/ Len(p) = Len(q) + 1 /\ p[Len(q) + 1] = command
    BY <2>1, QueueCommandType
  <2>3. queue'[c] = p
    BY <1>2 DEF QueueInv, TypeOK
  <2>4. Len(q) \in Nat /\ Len(p) \in Nat /\ (p # <<>> => Len(p) # 0)
    BY <2>1, <2>2, EmptySeq
  <2> HIDE DEF p
  <2>5. SUFFICES ASSUME p # <<>>, p[1].sent > 0, Framed(p[1].item)
                 PROVE  q # <<>> /\ q[1].sent > 0 /\ q[1].item = p[1].item
    BY <1>2, <2>3 DEF FrontStep, Outstanding, BeingSent
  <2>6. 1 \in 1 .. Len(q)
    BY <2>2, <2>4, <2>5
  <2> QED
    BY <2>2, <2>5, <2>6
<1> QED
  BY <1>1, <1>2

\* Whatever leaves a queue, the next command has not been sent.
LEMMA TailFront ==
    ASSUME QueueInv, NEW c \in Controllers, queue[c] # <<>>,
           queue'[c] = Tail(queue[c]), ~BeingSent(c)'
    PROVE  ~Outstanding(c)'
<1>1. queue[c] \in Seq(Command) /\ InOrder(queue[c])
  BY DEF QueueInv, OrderInv, TypeOK, OnlyFrontInFlight, InOrder
<1>2. Unsent(queue'[c])
  BY <1>1, TailInOrder
<1>3. queue'[c] # <<>> => ~(queue'[c][1].sent > 0)
  BY <1>2 DEF Unsent
<1> QED
  BY <1>3 DEF Outstanding

\* Counting a send changes nothing of the command but the count.
LEMMA CountFront ==
    ASSUME QueueInv, NEW d \in Controllers, queue[d] # <<>>,
           queue' = [queue EXCEPT ![d] = [queue[d] EXCEPT ![1] = CountSend(queue[d][1])]],
           main'.at # "sent",
           BeingSent(d) \/ ~Framed(queue[d][1].item), NEW c \in Controllers
    PROVE  FrontStep(c)
<1> DEFINE q == queue[d]
           x == CountSend(q[1])
           p == [q EXCEPT ![1] = x]
<1>1. CASE c # d
  <2>1. queue'[c] = queue[c]
    BY <1>1 DEF QueueInv, TypeOK
  <2> QED
    BY <2>1, SameFront DEF BeingSent
<1>2. CASE c = d
  <2>1. q \in Seq(Command) /\ Len(q) \in Nat /\ 1 \in 1 .. Len(q)
    BY EmptySeq DEF QueueInv, TypeOK
  <2>2. q[1] \in Command
    BY <2>1, ElementOfSeq
  <2>3. x \in Command /\ x.item = q[1].item
    BY <2>2, CountSendType
  <2> HIDE DEF x
  <2>4. p[1].item = q[1].item
    BY <2>1, <2>3, PatchType
  <2>5. queue'[c] = p
    BY <1>2 DEF QueueInv, TypeOK, x
  <2> HIDE DEF p
  <2> QED
    BY <1>2, <2>4, <2>5 DEF FrontStep, Outstanding
<1> QED
  BY <1>1, <1>2

\* Every step but the sending of a framed command: nothing becomes outstanding.
LEMMA FrontSteps ==
    ASSUME QueueInv, RefusedInv, [Next]_vars, NEW c \in Controllers,
           ~(SendCommand(c) /\ Framed(Chosen(c).item))
    PROVE  FrontStep(c)
<1> USE DEF Handler
<1>1. ASSUME UNCHANGED queue, main'.at # "sent" \/ main' = main PROVE FrontStep(c)
  BY <1>1, SameFront DEF BeingSent
<1>2. ASSUME NEW d \in Controllers, UpdateRange(d) PROVE FrontStep(c)
  <2> DEFINE r == RangeList[d][main.range]
  <2>1. ReadCommand(r) \in Command /\ ReadCommand(r).sent = 0
    BY <1>2, RangeInRanges, NewCommandType DEF QueueInv, TypeOK, MainOK, UpdateRange
  <2>2. main'.at # "sent"
    BY <1>2 DEF UpdateRange, QueueInv, TypeOK, MainOK
  <2>3. CASE queue' = [queue EXCEPT ![d] = QueueCommand(@, ReadCommand(r))]
    BY <2>1, <2>2, <2>3, QueueCommandFront
  <2>4. CASE queue' = queue
    BY <1>1, <2>2, <2>4
  <2> QED
    BY <1>2, <2>3, <2>4 DEF UpdateRange
<1>3. ASSUME NEW n \in Numbers, NEW v \in Values, NumberControl(n, v)
      PROVE  FrontStep(c)
  <2>1. WriteCommand(n, v) \in Command /\ WriteCommand(n, v).sent = 0
    BY NewCommandType
  <2>2. queue' = [queue EXCEPT ![Home[n]] = QueueCommand(@, WriteCommand(n, v))]
    BY <1>3 DEF NumberControl
  <2>3. main'.at # "sent" /\ Home[n] \in Controllers
    BY <1>3, ControllerAssumption DEF NumberControl, Idle
  <2> QED
    BY <2>1, <2>2, <2>3, QueueCommandFront
<1>4. ASSUME NEW d \in Controllers, DropCommand(d) PROVE FrontStep(c)
  <2>1. main'.at # "sent" /\ queue[d] # <<>> /\ queue'[d] = Tail(queue[d])
        /\ \A e \in Controllers \ {d} : queue'[e] = queue[e]
    BY <1>4 DEF DropCommand, Idle, QueueInv, TypeOK
  <2> QED
    BY <2>1, TailFront, SameFront DEF FrontStep, BeingSent
<1>5. ASSUME NEW d \in Controllers, FinishSend(d) PROVE FrontStep(c)
  <2>1. main'.at # "sent" /\ main.who = d /\ main.at \in {"sent", "unsent"}
    BY <1>5 DEF FinishSend, Idle
  <2>2. CASE main.place = 0
    <3>1. queue[d] # <<>>
      BY <2>1, <2>2 DEF QueueInv, TypeOK, MainOK, InLoop
    <3>2. queue' = [queue EXCEPT ![d] = [queue[d] EXCEPT ![1] = CountSend(queue[d][1])]]
      BY <1>5, <2>2 DEF FinishSend
    <3>3. BeingSent(d) \/ ~Framed(queue[d][1].item)
      BY <2>1, <2>2 DEF BeingSent, RefusedInv
    <3> QED
      BY <2>1, <3>1, <3>2, <3>3, CountFront
  <2>3. CASE main.place # 0
    BY <1>1, <1>5, <2>1, <2>3 DEF FinishSend
  <2> QED
    BY <2>2, <2>3
<1>6. ASSUME NEW d \in Controllers, SendCommand(d) PROVE FrontStep(c)
  <2>1. queue' = queue /\ main.who = d /\ main'.who = d /\ main'.place = main.place
        /\ main.at = "retry"
    BY <1>6 DEF SendCommand, Written, QueueInv, TypeOK, MainOK
  <2>2. CASE c = d /\ main.place = 0
    <3>1. Chosen(c) = Head(queue[c]) /\ queue[c] # <<>> /\ queue[c] \in Seq(Command)
      BY <2>1, <2>2 DEF Chosen, QueueInv, TypeOK, MainOK, InLoop
    <3>2. Chosen(c) = queue[c][1]
      BY <3>1
    <3>3. ~Framed(queue'[c][1].item)
      BY <1>6, <2>1, <2>2, <3>2
    <3> QED
      BY <3>3 DEF FrontStep, Outstanding
  <2>3. CASE ~(c = d /\ main.place = 0)
    BY <2>1, <2>3, SameFront DEF BeingSent
  <2> QED
    BY <2>2, <2>3
<1>7. CASE OnData
  <2>1. /\ queue'[c] = IF Takes(c) THEN Tail(queue[c]) ELSE queue[c]
        /\ main' = IF main.at \in InLoop /\ main.place = 0 /\ Takes(main.who)
                     THEN [main EXCEPT !.place = Len(incoming[main.who]) + 1] ELSE main
    BY <1>7 DEF OnData, MainAfterData
  <2>2. BeingSent(c)' => BeingSent(c) /\ ~Takes(c)
    <3>1. CASE main.at \in InLoop /\ main.place = 0 /\ Takes(main.who)
      <4>1. Len(incoming[main.who]) \in Nat
        BY <3>1, LenProperties DEF QueueInv, TypeOK, MainOK, InLoop
      <4> DEFINE k == Len(incoming[main.who]) + 1
      <4>2. k # 0
        BY <4>1
      <4> HIDE DEF k
      <4>3. main' = [main EXCEPT !.place = k]
        BY <2>1, <3>1 DEF k
      <4>4. main'.place # 0
        BY <4>2, <4>3 DEF QueueInv, TypeOK, MainOK
      <4> QED
        BY <4>4 DEF BeingSent
    <3>2. CASE ~(main.at \in InLoop /\ main.place = 0 /\ Takes(main.who))
      BY <2>1, <3>2 DEF BeingSent, InLoop
    <3> QED
      BY <3>1, <3>2
  <2>3. CASE Takes(c)
    BY <2>1, <2>2, <2>3, TailFront DEF Takes, FrontStep
  <2>4. CASE ~Takes(c)
    BY <2>1, <2>2, <2>4, SameFront
  <2> QED
    BY <2>3, <2>4
<1>8. CASE Restart
  BY <1>8 DEF Restart, FrontStep, Outstanding
<1>9. ASSUME NEW d \in Controllers,
             \/ StartUpdate(d) \/ SetCounter(d) \/ ProcessData(d) \/ ChooseCommand(d)
             \/ CheckRetries(d)
      PROVE  FrontStep(c)
  BY <1>1, <1>9 DEF StartUpdate, SetCounter, ProcessData, ChooseCommand, CheckRetries,
                    ctlVars, Updating, Sending, Idle
<1>10. ASSUME NEW d \in Controllers, SetOffline(d) \/ SendRefused(d) PROVE FrontStep(c)
  <2>1. queue' = queue /\ main'.at \in {"drop", "unsent"}
    BY <1>10 DEF SetOffline, SendRefused, ctlVars, QueueInv, TypeOK, MainOK
  <2> QED
    BY <1>1, <2>1
<1>11. CASE Environment
  BY <1>1, <1>11, EnvironmentUnchanged
<1>12. CASE Transport \/ TimePasses \/ UNCHANGED vars
  BY <1>1, <1>12 DEF Transport, TimePasses, vars, ctlVars
<1> QED
  BY <1>2, <1>3, <1>4, <1>5, <1>6, <1>7, <1>8, <1>9, <1>10, <1>11, <1>12
     DEF Next, Environment, Loop, Continue

LEMMA InitRefused == Init => RefusedInv
  BY DEF Init, RefusedInv, Idle, Handler

LEMMA NextRefused ==
    ASSUME QueueInv, RefusedInv, [Next]_vars
    PROVE  RefusedInv'
<1> USE DEF Handler
<1>1. ASSUME UNCHANGED <<queue, main>> PROVE RefusedInv'
  BY <1>1 DEF RefusedInv
<1>2. ASSUME main'.at # "unsent" PROVE RefusedInv'
  BY <1>2 DEF RefusedInv
<1>3. ASSUME NEW c \in Controllers,
             \/ StartUpdate(c) \/ SetCounter(c) \/ ProcessData(c) \/ ChooseCommand(c)
             \/ CheckRetries(c) \/ DropCommand(c) \/ FinishSend(c)
      PROVE  RefusedInv'
  BY <1>2, <1>3 DEF StartUpdate, SetCounter, ProcessData, ChooseCommand, CheckRetries,
                    DropCommand, FinishSend, Updating, Sending, Idle
<1>4. ASSUME NEW c \in Controllers, UpdateRange(c) \/ SetOffline(c) \/ SendCommand(c)
      PROVE  RefusedInv'
  <2>1. main'.at \in {"queued", "skipped", "drop", "sent"}
    <3>1. CASE UpdateRange(c)
      BY <3>1 DEF UpdateRange, QueueInv, TypeOK, MainOK
    <3>2. CASE SetOffline(c)
      BY <3>2 DEF SetOffline, QueueInv, TypeOK, MainOK
    <3>3. CASE SendCommand(c)
      BY <3>3 DEF SendCommand, Written, QueueInv, TypeOK, MainOK
    <3> QED
      BY <1>4, <3>1, <3>2, <3>3
  <2> QED
    BY <1>2, <2>1
<1>5. ASSUME NEW c \in Controllers, SendRefused(c) PROVE RefusedInv'
  <2>1. /\ queue' = queue /\ main.who = c /\ main'.who = c /\ main'.place = main.place
        /\ main.at = "retry"
    BY <1>5 DEF SendRefused, ctlVars, QueueInv, TypeOK, MainOK
  <2>2. ASSUME main.place = 0 PROVE ~Framed(queue[c][1].item)
    <3>1. Chosen(c) = Head(queue[c]) /\ queue[c] # <<>> /\ queue[c] \in Seq(Command)
      BY <2>1, <2>2 DEF Chosen, QueueInv, TypeOK, MainOK, InLoop
    <3>2. Chosen(c) = queue[c][1]
      BY <3>1
    <3> QED
      BY <1>5, <3>2 DEF SendRefused, Framed
  <2> QED
    BY <2>1, <2>2 DEF RefusedInv
<1>6. ASSUME NEW n \in Numbers, NEW v \in Values, NumberControl(n, v)
      PROVE  RefusedInv'
  BY <1>2, <1>6 DEF NumberControl, Idle
<1>7. CASE OnData
  <2>1. /\ \A c \in Controllers : ~Takes(c) => queue'[c] = queue[c]
        /\ main' = IF main.at \in InLoop /\ main.place = 0 /\ Takes(main.who)
                     THEN [main EXCEPT !.place = Len(incoming[main.who]) + 1] ELSE main
    BY <1>7 DEF OnData, MainAfterData
  <2>2. CASE main.at \in InLoop /\ main.place = 0 /\ Takes(main.who)
    <3>1. Len(incoming[main.who]) \in Nat
      BY <2>2, LenProperties DEF QueueInv, TypeOK, MainOK, InLoop
    <3> DEFINE k == Len(incoming[main.who]) + 1
    <3>2. k # 0
      BY <3>1
    <3> HIDE DEF k
    <3>3. main' = [main EXCEPT !.place = k]
      BY <2>1, <2>2 DEF k
    <3>4. main'.place # 0
      BY <3>2, <3>3 DEF QueueInv, TypeOK, MainOK
    <3> QED
      BY <3>4 DEF RefusedInv
  <2>3. CASE ~(main.at \in InLoop /\ main.place = 0 /\ Takes(main.who))
    BY <2>1, <2>3 DEF RefusedInv, InLoop, QueueInv, TypeOK, MainOK
  <2> QED
    BY <2>2, <2>3
<1>8. CASE Restart
  BY <1>2, <1>8 DEF Restart, Idle
<1>9. CASE Environment
  BY <1>1, <1>9, EnvironmentUnchanged
<1>10. CASE Transport \/ TimePasses \/ UNCHANGED vars
  BY <1>1, <1>10 DEF Transport, TimePasses, vars, ctlVars
<1> QED
  BY <1>3, <1>4, <1>5, <1>6, <1>7, <1>8, <1>9, <1>10 DEF Next, Environment, Loop, Continue

-----------------------------------------------------------------------------
(* Silence.  With one controller, a response with the id that is awaited is *)
(* accepted and takes the front of the queue: as long as the last request  *)
(* was answered, no command at the front was sent, and none can be given   *)
(* up.                                                                     *)

\* What the code treats as an answer: not an exception, nor the acknowledgement
\* of a write to 0x400 or above (MCHighAddress).
Understood ==
    /\ ~Exceptions
    /\ \A n \in Numbers : AddressHigh[n] <= 3

Alone == \A c, d \in Controllers : c = d

Readable == \A i \in 1 .. Len(fromServer) :
               ~fromServer[i].exception /\ fromServer[i].count <= fromServer[i].room

HeardInv ==
    /\ RefusedInv
    /\ Readable
    /\ \A c \in Controllers : IF awaited[c] = Heard THEN ~Outstanding(c)
                              ELSE awaited[c] = expected

LEMMA InitHeard == Init => HeardInv
<1>1. Len(<<>>) = 0
  OBVIOUS
<1> QED
  BY <1>1, InitRefused DEF Init, TCPInit, HeardInv, Readable, Outstanding

\* The server answers with what handle_frame_() can read.
LEMMA EnvironmentReadable ==
    ASSUME TypeOK, Understood, Readable, Environment
    PROVE  Readable'
<1> DEFINE request == Head(toServer)
           reply == Answer(request, device')
<1>1. CASE ServerAnswers \/ ServerRepeats
  <2>1. /\ toServer \in Seq(Request) /\ toServer # <<>>
        /\ fromServer \in Seq(Response)
    BY <1>1 DEF TypeOK, ServerAnswers, ServerRepeats
  <2>2. request \in Request
    BY <2>1, HeadTailProperties
  <2>3. ~reply.exception /\ reply.count <= reply.room
    BY <2>2 DEF Answer, Understood
  <2> HIDE DEF reply
  <2>4. fromServer' = Append(fromServer, reply) \/ fromServer' = fromServer \o <<reply>>
    BY <1>1 DEF ServerAnswers, ServerRepeats, Reply, reply
  <2>5. /\ Len(fromServer') = Len(fromServer) + 1
        /\ \A i \in 1 .. Len(fromServer) : fromServer'[i] = fromServer[i]
        /\ fromServer'[Len(fromServer) + 1] = reply
    <3>1. CASE fromServer' = Append(fromServer, reply)
      BY <2>1, <3>1
    <3>2. CASE fromServer' = fromServer \o <<reply>>
      BY <2>1, <3>2
    <3> QED
      BY <2>4, <3>1, <3>2
  <2> QED
    BY <2>1, <2>3, <2>5 DEF Readable
<1>2. CASE ServerRefuses
  BY <1>2 DEF ServerRefuses, Understood
<1>3. CASE ServerIgnores
  <2>1. fromServer \in Seq(Response) /\ fromServer' = fromServer \o <<>>
    BY <1>3 DEF TypeOK, ServerIgnores, Reply
  <2>2. fromServer' = fromServer
    BY <2>1, ConcatEmptySeq
  <2> QED
    BY <2>2 DEF Readable
<1>4. CASE ClientCallback
  <2>1. fromServer' = fromServer \/ fromServer' = <<>>
    BY <1>4 DEF ClientCallback, OnConnect, OnDisconnect, OnError, LoseFrames, netVars
  <2>2. Len(<<>>) = 0
    OBVIOUS
  <2> QED
    BY <2>1, <2>2 DEF Readable
<1> QED
  BY <1>1, <1>2, <1>3, <1>4 DEF Environment

\* The steps that neither send nor receive.
LEMMA QuietHeard ==
    ASSUME QueueInv, HeardInv, [Next]_vars, Readable', UNCHANGED <<awaited, expected>>,
           \A c \in Controllers : ~(SendCommand(c) /\ Framed(Chosen(c).item))
    PROVE  HeardInv'
<1>1. RefusedInv'
  BY NextRefused DEF HeardInv
<1>2. \A c \in Controllers : FrontStep(c)
  BY FrontSteps DEF HeardInv
<1> QED
  BY <1>1, <1>2 DEF HeardInv, FrontStep

LEMMA SendCommandHeard ==
    ASSUME QueueInv, HeardInv, Alone, NEW c \in Controllers, SendCommand(c)
    PROVE  HeardInv'
<1>1. RefusedInv' /\ Next
  <2>1. Next
    BY DEF Next, Continue
  <2> QED
    BY <2>1, NextRefused DEF HeardInv
<1>2. fromServer' = fromServer
  BY DEF SendCommand, SendFrame, SendMessage, SendRaw
<1>3. Readable'
  BY <1>2 DEF HeardInv, Readable
<1>4. CASE Framed(Chosen(c).item)
  <2>1. awaited' = [awaited EXCEPT ![c] = tid] /\ expected' = tid
    BY <1>4 DEF SendCommand, SendFrame, Framed
  <2>2. \A d \in Controllers : d = c
    BY DEF Alone
  <2>3. awaited'[c] = tid /\ tid \in Nat
    BY <2>1, TransportAssumption DEF QueueInv, TypeOK, TCPTypeOK
  <2>4. awaited'[c] # Heard
    BY <2>3 DEF Heard
  <2> QED
    BY <1>1, <1>3, <2>1, <2>2, <2>3, <2>4 DEF HeardInv
<1>5. CASE ~Framed(Chosen(c).item)
  <2>1. UNCHANGED <<awaited, expected>>
    BY <1>5 DEF SendCommand, Framed, SendRaw, tidVars
  <2>2. \A d \in Controllers : d = c
    BY DEF Alone
  <2> QED
    BY <1>1, <1>3, <1>5, <2>1, <2>2, QuietHeard
<1> QED
  BY <1>4, <1>5

LEMMA OnDataHeard ==
    ASSUME QueueInv, HeardInv, ~Preemptive, OnData
    PROVE  HeardInv'
<1> DEFINE frame == Head(fromServer)
<1>1. Next /\ RefusedInv' /\ \A c \in Controllers : FrontStep(c)
  <2>1. Next
    BY DEF Next
  <2>2. \A c \in Controllers : ~SendCommand(c)
    BY DEF OnData, MayCallBack, SendCommand, Idle, Handler
  <2> QED
    BY <2>1, <2>2, NextRefused, FrontSteps DEF HeardInv
<1>2. fromServer \in Seq(Response) /\ fromServer # <<>>
  BY DEF OnData, Receive, QueueInv, TypeOK
<1>3. /\ frame = fromServer[1] /\ 1 \in 1 .. Len(fromServer)
      /\ Len(Tail(fromServer)) = Len(fromServer) - 1 /\ Len(fromServer) \in Nat
      /\ \A i \in 1 .. Len(Tail(fromServer)) : Tail(fromServer)[i] = fromServer[i + 1]
  BY <1>2, HeadTailProperties, EmptySeq
<1>4. Readable'
  BY <1>3 DEF OnData, Receive, HeardInv, Readable
<1>5. expected' = expected /\ main' = Idle
  BY DEF OnData, Receive, tidVars, MayCallBack, MainAfterData, Idle, Handler, InLoop
<1>6. frame.tid \in Nat
  <2>1. frame \in Response
    BY <1>2, HeadTailProperties
  <2> QED
    BY <2>1 DEF Response
<1>7. \A c \in Controllers :
         /\ awaited'[c] = IF awaited[c] = frame.tid THEN Heard ELSE awaited[c]
         /\ queue'[c] = IF Takes(c) THEN Tail(queue[c]) ELSE queue[c]
  BY DEF OnData, AwaitedAfterData
<1>8. ASSUME NEW c \in Controllers
      PROVE  IF awaited'[c] = Heard THEN ~Outstanding(c)' ELSE awaited'[c] = expected'
  <2>1. CASE awaited[c] = frame.tid
    <3>1. awaited[c] # Heard /\ awaited'[c] = Heard
      BY <1>6, <1>7, <2>1 DEF Heard
    <3>2. frame.tid = expected
      BY <2>1, <3>1 DEF HeardInv
    <3>3. Takes(c) <=> queue[c] # <<>>
      BY <1>3, <3>2 DEF HeardInv, Readable, Takes, Accepted
    <3>4. ~BeingSent(c)'
      BY <1>5 DEF BeingSent, Idle, Handler
    <3>5. CASE queue[c] = <<>>
      BY <1>7, <3>1, <3>3, <3>5 DEF Outstanding
    <3>6. CASE queue[c] # <<>>
      BY <1>7, <3>1, <3>3, <3>4, <3>6, TailFront
    <3> QED
      BY <3>5, <3>6
  <2>2. CASE awaited[c] # frame.tid
    BY <1>1, <1>5, <1>7, <2>2 DEF HeardInv, FrontStep
  <2> QED
    BY <2>1, <2>2
<1> QED
  BY <1>1, <1>4, <1>8 DEF HeardInv

LEMMA NextHeard ==
    ASSUME QueueInv, Alone, ~Preemptive, Understood, HeardInv, [Next]_vars
    PROVE  HeardInv'
<1>1. ASSUME UNCHANGED <<awaited, expected>>, Readable',
             \A c \in Controllers : ~SendCommand(c)
      PROVE  HeardInv'
  BY <1>1, QuietHeard
<1>2. ASSUME NEW c \in Controllers, SendCommand(c) PROVE HeardInv'
  BY <1>2, SendCommandHeard
<1>3. CASE OnData
  BY <1>3, OnDataHeard
<1>4. CASE Restart
  <2>1. Len(<<>>) = 0
    OBVIOUS
  <2>2. RefusedInv'
    BY NextRefused DEF HeardInv
  <2> QED
    BY <1>4, <2>1, <2>2 DEF Restart, LoseFrames, HeardInv, Readable, Outstanding
<1>5. CASE Environment
  <2>1. Readable'
    BY <1>5, EnvironmentReadable DEF QueueInv, HeardInv
  <2> QED
    BY <1>1, <1>2, <1>5, <2>1, EnvironmentUnchanged DEF tidVars
<1>6. ASSUME UNCHANGED <<awaited, expected, fromServer>> PROVE HeardInv'
  <2>1. Readable'
    BY <1>6 DEF HeardInv, Readable
  <2> QED
    BY <1>1, <1>2, <1>6, <2>1
<1>7. ASSUME NEW c \in Controllers,
             \/ StartUpdate(c) \/ UpdateRange(c) \/ SetCounter(c) \/ ProcessData(c)
             \/ ChooseCommand(c)
      PROVE  UNCHANGED <<awaited, expected, fromServer>>
  BY <1>7 DEF StartUpdate, UpdateRange, SetCounter, ProcessData, ChooseCommand, ctlVars,
              tcpVars, tidVars, netVars
<1>8. ASSUME NEW c \in Controllers,
             \/ CheckRetries(c) \/ SetOffline(c) \/ DropCommand(c) \/ SendRefused(c)
             \/ FinishSend(c)
      PROVE  UNCHANGED <<awaited, expected, fromServer>>
  BY <1>8 DEF CheckRetries, SetOffline, DropCommand, SendRefused, SendRawNothing,
              FinishSend, ctlVars, tcpVars, tidVars, netVars
<1>9. ASSUME NEW n \in Numbers, NEW v \in Values, NumberControl(n, v)
      PROVE  UNCHANGED <<awaited, expected, fromServer>>
  BY <1>9 DEF NumberControl, tcpVars, tidVars, netVars
<1>10. Transport \/ TimePasses \/ UNCHANGED vars
         => UNCHANGED <<awaited, expected, fromServer>>
  BY DEF Transport, ModbusLoop, TimePasses, vars, ctlVars, tcpVars, tidVars, netVars
<1> QED
  BY <1>2, <1>3, <1>4, <1>5, <1>6, <1>7, <1>8, <1>9, <1>10
     DEF Next, Environment, Loop, Continue

\* Only a command that was sent too often takes its device offline.
LEMMA OfflineStep ==
    ASSUME QueueInv, ~Preemptive, HeardInv, [Next]_vars, NEW c \in Controllers,
           offline'[c], ~offline[c], queue[c] # <<>>, Framed(Head(queue[c]).item)
    PROVE  awaited[c] # Heard
<1>1. CASE SetOffline(c)
  <2>1. main.at = "giveup" /\ main.who = c /\ main.place = 0
    BY <1>1, InPlace DEF SetOffline, InLoop
  <2>2. ~ShouldRetry(queue[c][1])
    BY <2>1 DEF QueueInv, OrderInv, ChosenInv, InLoop
  <2>3. queue[c] \in Seq(Command) /\ 1 \in 1 .. Len(queue[c])
    BY EmptySeq DEF QueueInv, TypeOK
  <2>4. queue[c][1] \in Command /\ Head(queue[c]) = queue[c][1]
    BY <2>3, ElementOfSeq
  <2>5. queue[c][1].sent \in Nat
    BY <2>4, ControllerAssumption DEF Command, Typed
  <2>6. queue[c][1].sent > 0
    BY <2>2, <2>5, ControllerAssumption DEF ShouldRetry
  <2> QED
    BY <2>4, <2>6 DEF HeardInv, Outstanding
<1>2. ASSUME NEW d \in Controllers, SetOffline(d) PROVE d = c
  BY <1>2 DEF SetOffline, QueueInv, TypeOK
<1>3. ASSUME NEW d \in Controllers,
             \/ StartUpdate(d) \/ UpdateRange(d) \/ SetCounter(d) \/ ProcessData(d)
             \/ ChooseCommand(d) \/ CheckRetries(d) \/ DropCommand(d) \/ SendCommand(d)
             \/ SendRefused(d) \/ FinishSend(d)
      PROVE  FALSE
  BY <1>3 DEF StartUpdate, UpdateRange, SetCounter, ProcessData, ChooseCommand,
              CheckRetries, DropCommand, SendCommand, SendRefused, FinishSend, ctlVars
<1>4. ASSUME NEW n \in Numbers, NEW v \in Values, NumberControl(n, v) PROVE FALSE
  BY <1>4 DEF NumberControl
<1>5. ~OnData /\ ~Restart
  BY DEF OnData, Restart
<1>6. ~Transport /\ ~TimePasses /\ ~Environment /\ ~UNCHANGED vars
  BY EnvironmentUnchanged DEF Transport, TimePasses, vars, ctlVars
<1> QED
  BY <1>1, <1>2, <1>3, <1>4, <1>5, <1>6 DEF Next, Environment, Loop, Continue

\* With one controller on the connection, no device is set offline whose answer to
\* the last request has come, however late, lost and repeated answers fall
\* (modbustcp_controller.h 522: "didn't respond the last command"), if it answers
\* with what the code understands and no callback interrupts.
THEOREM OfflineIsSilent ==
    ASSUME Alone, ~Preemptive, Understood
    PROVE  Spec => OfflineOnlyWhenSilent
<1> DEFINE Inv == QueueInv /\ HeardInv
<1>1. Init => Inv
  BY InitState, InitHeard
<1>2. Inv /\ [Next]_vars => Inv'
  BY NextState, NextHeard
<1>3. Inv /\ [Next]_vars
        => [\A c \in Controllers :
              /\ offline'[c] /\ ~offline[c]
              /\ queue[c] # <<>> /\ Framed(Head(queue[c]).item)
              => awaited[c] # Heard]_vars
  BY OfflineStep
<1> QED
  BY <1>1, <1>2, <1>3, PTL DEF Spec, OfflineOnlyWhenSilent

-----------------------------------------------------------------------------
(* Answers.  A command that was sent is completed by the answer to it: the *)
(* transaction ids against the queue, in all interleavings of the          *)
(* callbacks with the main task, with answers that are late, lost or       *)
(* repeated.                                                               *)
(*                                                                         *)
(* Three assumptions.  One controller has the connection for itself: there *)
(* is one expected id, and an accepted response goes to every controller.  *)
(* There is no custom command: its first two bytes are taken for the id.   *)
(* And the ids do not wrap (TidWraps), as after 65536 requests an old      *)
(* answer would match again.                                               *)

(* The inductive invariant.  At the time an answer is accepted, the command *)
(* at the front of the queue is the one that was asked last, or has not    *)
(* been sent; so the ids in flight must be related to the front.           *)

InFlight ==
    {[tid |-> toServer[i].tid, of |-> toServer[i].pdu.item] : i \in 1 .. Len(toServer)}
      \cup {[tid |-> fromServer[i].tid, of |-> fromServer[i].data.of.item] :
              i \in 1 .. Len(fromServer)}

IdsGrow ==
    /\ \A f \in InFlight : f.tid < tid
    /\ tid > 0 => expected = tid - 1

FrontMatches ==
    \A f \in InFlight, c \in Controllers :
        f.tid = expected /\ Outstanding(c) => f.of = queue[c][1].item

AnswerInv == RefusedInv /\ IdsGrow /\ FrontMatches

LEMMA InitAnswer == Init => AnswerInv
<1> SUFFICES ASSUME Init PROVE AnswerInv
  OBVIOUS
<1>1. Len(<<>>) = 0
  OBVIOUS
<1>2. InFlight = {} /\ tid = 0
  BY <1>1 DEF Init, TCPInit, InFlight
<1> QED
  BY <1>2, InitRefused DEF AnswerInv, IdsGrow, FrontMatches

\* What the server does with a request leaves nothing in flight that was not.
LEMMA ReplyWire ==
    ASSUME TypeOK, NEW replies \in Seq(Response), Reply(replies),
           \A i \in 1 .. Len(replies) : /\ replies[i].tid = Head(toServer).tid
                                        /\ replies[i].data.of = Head(toServer).pdu
    PROVE  InFlight' \subseteq InFlight
<1>1. /\ toServer \in Seq(Request) /\ toServer # <<>>
      /\ fromServer \in Seq(Response)
      /\ toServer' = Tail(toServer) /\ fromServer' = fromServer \o replies
  BY DEF TypeOK, Reply
<1>2. /\ Len(toServer) \in Nat /\ Len(toServer') = Len(toServer) - 1
      /\ \A i \in 1 .. Len(toServer') : toServer'[i] = toServer[i + 1]
  BY <1>1, HeadTailProperties
<1>3. /\ Len(fromServer) \in Nat /\ Len(replies) \in Nat
      /\ Len(fromServer') = Len(fromServer) + Len(replies)
      /\ \A i \in 1 .. Len(fromServer') :
            fromServer'[i] = IF i <= Len(fromServer) THEN fromServer[i]
                             ELSE replies[i - Len(fromServer)]
  BY <1>1, ConcatProperties
<1>4. Head(toServer) = toServer[1] /\ 1 \in 1 .. Len(toServer)
  BY <1>1, EmptySeq
<1>5. ASSUME NEW i \in 1 .. Len(toServer')
      PROVE  [tid |-> toServer'[i].tid, of |-> toServer'[i].pdu.item] \in InFlight
  <2>1. i + 1 \in 1 .. Len(toServer) /\ toServer'[i] = toServer[i + 1]
    BY <1>2, <1>5
  <2> QED
    BY <2>1 DEF InFlight
<1>6. ASSUME NEW i \in 1 .. Len(fromServer')
      PROVE  [tid |-> fromServer'[i].tid, of |-> fromServer'[i].data.of.item] \in InFlight
  <2>1. CASE i <= Len(fromServer)
    <3>1. i \in 1 .. Len(fromServer) /\ fromServer'[i] = fromServer[i]
      BY <1>3, <1>6, <2>1
    <3> QED
      BY <3>1 DEF InFlight
  <2>2. CASE ~(i <= Len(fromServer))
    <3>1. i - Len(fromServer) \in 1 .. Len(replies)
      BY <1>3, <1>6, <2>2
    <3>2. /\ fromServer'[i].tid = toServer[1].tid
          /\ fromServer'[i].data.of.item = toServer[1].pdu.item
      BY <1>3, <1>4, <1>6, <2>2, <3>1
    <3> QED
      BY <1>4, <3>2 DEF InFlight
  <2> QED
    BY <2>1, <2>2
<1> QED
  BY <1>5, <1>6 DEF InFlight

LEMMA OneReplyWire ==
    ASSUME TypeOK, NEW reply \in Response, Reply(<<reply>>),
           reply.tid = Head(toServer).tid, reply.data.of = Head(toServer).pdu
    PROVE  InFlight' \subseteq InFlight
<1> DEFINE replies == <<reply>>
<1>1. /\ replies \in Seq(Response) /\ Len(replies) = 1 /\ replies[1] = reply
      /\ Reply(replies)
  OBVIOUS
<1> HIDE DEF replies
<1>2. \A i \in 1 .. Len(replies) : /\ replies[i].tid = Head(toServer).tid
                                   /\ replies[i].data.of = Head(toServer).pdu
  BY <1>1
<1> QED
  BY <1>1, <1>2, ReplyWire

\* A response that comes once more.
LEMMA RepeatWire ==
    ASSUME TypeOK, ServerRepeats
    PROVE  InFlight' \subseteq InFlight
<1> DEFINE reply == Answer(Head(toServer), device')
<1>1. /\ toServer \in Seq(Request) /\ toServer # <<>> /\ toServer' = toServer
      /\ fromServer \in Seq(Response) /\ fromServer' = Append(fromServer, reply)
  BY DEF TypeOK, ServerRepeats
<1>2. Head(toServer) = toServer[1] /\ 1 \in 1 .. Len(toServer)
  BY <1>1, EmptySeq
<1>3. reply.tid = toServer[1].tid /\ reply.data.of.item = toServer[1].pdu.item
  BY <1>2 DEF Answer
<1>4. reply \in Response
  <2>1. Head(toServer) \in Request
    BY <1>1, HeadTailProperties
  <2>2. device' \in [Numbers -> Values \cup {Garbage}]
    BY <2>1 DEF ServerRepeats, Executed, TypeOK, Request, Pdu
  <2> QED
    BY <2>1, <2>2, AnswerType
<1> HIDE DEF reply
<1>5. /\ Len(fromServer) \in Nat /\ Len(fromServer') = Len(fromServer) + 1
      /\ \A i \in 1 .. Len(fromServer) : fromServer'[i] = fromServer[i]
      /\ fromServer'[Len(fromServer) + 1] = reply
  BY <1>1, <1>4, AppendProperties
<1>6. ASSUME NEW i \in 1 .. Len(fromServer')
      PROVE  [tid |-> fromServer'[i].tid, of |-> fromServer'[i].data.of.item] \in InFlight
  <2>1. CASE i \in 1 .. Len(fromServer)
    BY <1>5, <2>1 DEF InFlight
  <2>2. CASE i = Len(fromServer) + 1
    BY <1>2, <1>3, <1>5, <2>2 DEF InFlight
  <2> QED
    BY <1>5, <1>6, <2>1, <2>2
<1> QED
  BY <1>1, <1>6 DEF InFlight

\* The steps of the transport, the server and time.
Outside ==
    \/ ClientCallback \/ Transport \/ TimePasses
    \/ ServerAnswers \/ ServerRepeats \/ ServerRefuses \/ ServerIgnores
    \/ UNCHANGED vars

LEMMA OutsideWire ==
    ASSUME TypeOK, Outside
    PROVE  /\ InFlight' \subseteq InFlight
           /\ UNCHANGED <<tid, expected, queue, incoming, main>>
<1> DEFINE request == Head(toServer)
           refusal == [Answer(request, device) EXCEPT !.exception = TRUE]
<1>1. ASSUME LoseFrames PROVE InFlight' \subseteq InFlight
  <2>1. Len(<<>>) = 0
    OBVIOUS
  <2> QED
    BY <1>1, <2>1 DEF LoseFrames, InFlight
<1>2. ASSUME UNCHANGED netVars PROVE InFlight' \subseteq InFlight
  BY <1>2 DEF netVars, InFlight
<1>3. ASSUME ServerAnswers PROVE InFlight' \subseteq InFlight
  <2>1. request \in Request
    BY <1>3, HeadTailProperties DEF ServerAnswers, TypeOK
  <2>2. device' \in [Numbers -> Values \cup {Garbage}]
    BY <1>3, <2>1 DEF ServerAnswers, Executed, TypeOK, Request, Pdu
  <2> DEFINE reply == Answer(request, device')
  <2>3. reply \in Response /\ reply.tid = request.tid /\ reply.data.of = request.pdu
    BY <2>1, <2>2, AnswerType DEF Answer
  <2>4. Reply(<<reply>>)
    BY <1>3 DEF ServerAnswers
  <2> HIDE DEF reply
  <2> QED
    BY <2>3, <2>4, OneReplyWire
<1>4. ASSUME ServerRefuses PROVE InFlight' \subseteq InFlight
  <2>1. request \in Request
    BY <1>4, HeadTailProperties DEF ServerRefuses, TypeOK
  <2>2. device \in [Numbers -> Values \cup {Garbage}]
    BY DEF TypeOK
  <2>3. /\ refusal \in Response /\ refusal.tid = request.tid
        /\ refusal.data.of = request.pdu
    BY <2>1, <2>2, AnswerType DEF Answer
  <2>4. Reply(<<refusal>>)
    BY <1>4 DEF ServerRefuses
  <2> HIDE DEF refusal
  <2> QED
    BY <2>3, <2>4, OneReplyWire
<1>5. ASSUME ServerIgnores PROVE InFlight' \subseteq InFlight
  <2> DEFINE replies == <<>>
  <2>1. replies \in Seq(Response) /\ Len(replies) = 0 /\ Reply(replies)
    BY <1>5, EmptySeq DEF ServerIgnores
  <2> HIDE DEF replies
  <2>2. \A i \in 1 .. Len(replies) : /\ replies[i].tid = Head(toServer).tid
                                     /\ replies[i].data.of = Head(toServer).pdu
    BY <2>1
  <2> QED
    BY <2>1, <2>2, ReplyWire
<1>6. UNCHANGED <<tid, expected, queue, incoming, main>>
  BY DEF Outside, ClientCallback, OnConnect, OnDisconnect, OnError, Transport,
         ModbusLoop, TimePasses, ServerAnswers, ServerRepeats, ServerRefuses,
         ServerIgnores, Reply, tidVars, ctlVars, vars, tcpVars
<1>7. InFlight' \subseteq InFlight
  BY <1>1, <1>2, <1>3, <1>4, <1>5, RepeatWire
     DEF Outside, ClientCallback, OnConnect, OnDisconnect, OnError, Transport,
         ModbusLoop, TimePasses, vars, tcpVars
<1> QED
  BY <1>6, <1>7

\* A step that sends nothing keeps what is in flight in line with the queues.
LEMMA WireKept ==
    ASSUME QueueInv, AnswerInv, [Next]_vars, InFlight' \subseteq InFlight,
           UNCHANGED <<tid, expected>>,
           \A c \in Controllers : ~(SendCommand(c) /\ Framed(Chosen(c).item))
    PROVE  AnswerInv'
<1>1. RefusedInv' /\ \A c \in Controllers : FrontStep(c)
  BY NextRefused, FrontSteps DEF AnswerInv
<1>2. IdsGrow'
  BY DEF AnswerInv, IdsGrow
<1>3. FrontMatches'
  BY <1>1 DEF AnswerInv, FrontMatches, FrontStep
<1> QED
  BY <1>1, <1>2, <1>3 DEF AnswerInv

\* A send takes an id of its own, so that nothing in flight can answer it but
\* the response to it.
LEMMA SendCommandAnswer ==
    ASSUME QueueInv, AnswerInv, Alone, CustomRanges = {}, ~TidWraps,
           NEW d \in Controllers, SendCommand(d)
    PROVE  AnswerInv'
<1> DEFINE item == Chosen(d).item
<1>1. main.at = "retry" /\ main.who = d /\ queue' = queue /\ Next
  BY DEF SendCommand, Next, Continue
<1>2. PICK payload \in SentPayloads(d) :
        SendFrame([item |-> item, payload |-> payload]) /\ Written(Unit[d])
  BY DEF SendCommand
<1> DEFINE pdu == [item |-> item, payload |-> payload]
           new == [tid |-> tid, of |-> item]
<1>3. RefusedInv'
  BY <1>1, NextRefused DEF AnswerInv
<1>4. tid \in Nat /\ tid' = tid + 1 /\ expected' = tid
  <2>1. tid \in Nat /\ tid + 1 < TidModulus /\ TidModulus \in Nat \ {0}
    BY <1>2, TransportAssumption DEF SendFrame, HasTid, QueueInv, TypeOK, TCPTypeOK
  <2>2. \A a \in Nat, m \in Nat \ {0} : a < m => a % m = a
    OBVIOUS
  <2>3. tid + 1 \in Nat
    BY <2>1
  <2>4. (tid + 1) % TidModulus = tid + 1
    BY <2>1, <2>2, <2>3
  <2> QED
    BY <1>2, <2>1, <2>4 DEF SendFrame
<1>5. pdu \in Pdu /\ pdu.item = item
  BY <1>1, ChosenType DEF QueueInv, InLoop
<1>6. SendFrame(pdu)
  BY <1>2
<1> HIDE DEF item, pdu
<1>7. InFlight' \subseteq InFlight \cup {new}
  <2> DEFINE frame == [tid |-> tid, pdu |-> pdu]
  <2>1. toServer \in Seq(Request) /\ fromServer' = fromServer
    BY <1>6 DEF SendFrame, SendMessage, QueueInv, TypeOK
  <2>2. toServer' = toServer \/ toServer' = Append(toServer, frame)
    BY <1>6 DEF SendFrame, SendMessage
  <2>3. CASE toServer' = toServer
    BY <2>1, <2>3 DEF InFlight
  <2>4. CASE toServer' = Append(toServer, frame)
    <3>1. frame \in Request
      BY <1>4, <1>5 DEF Request
    <3>2. frame.tid = tid /\ frame.pdu.item = item
      BY <1>5
    <3> HIDE DEF frame
    <3>3. /\ Len(toServer) \in Nat /\ Len(toServer') = Len(toServer) + 1
          /\ \A i \in 1 .. Len(toServer) : toServer'[i] = toServer[i]
          /\ toServer'[Len(toServer) + 1] = frame
      BY <2>1, <2>4, <3>1, AppendProperties
    <3>4. ASSUME NEW i \in 1 .. Len(toServer')
          PROVE  [tid |-> toServer'[i].tid, of |-> toServer'[i].pdu.item]
                   \in InFlight \cup {new}
      <4>1. CASE i \in 1 .. Len(toServer)
        BY <3>3, <4>1 DEF InFlight
      <4>2. CASE i = Len(toServer) + 1
        BY <3>2, <3>3, <4>2
      <4> QED
        BY <3>3, <3>4, <4>1, <4>2
    <3>5. ASSUME NEW i \in 1 .. Len(fromServer')
          PROVE  [tid |-> fromServer'[i].tid, of |-> fromServer'[i].data.of.item]
                   \in InFlight
      BY <2>1, <3>5 DEF InFlight
    <3> HIDE DEF new
    <3> QED
      BY <3>4, <3>5 DEF InFlight
  <2> QED
    BY <2>2, <2>3, <2>4
<1>8. \A f \in InFlight : f.tid < tid
  BY DEF AnswerInv, IdsGrow
<1>9. new.tid = tid /\ new.of = item
  OBVIOUS
<1> HIDE DEF new
<1>10. IdsGrow'
  <2>1. ASSUME NEW f \in InFlight' PROVE f.tid < tid + 1
    <3>1. CASE f = new
      BY <1>4, <1>9, <3>1
    <3>2. CASE f \in InFlight
      <4>1. f.tid < tid /\ f.tid \in Int
        <5>1. /\ \A i \in 1 .. Len(toServer) : toServer[i].tid \in Nat
              /\ \A i \in 1 .. Len(fromServer) : fromServer[i].tid \in Nat
          <6>1. \A i \in 1 .. Len(toServer) : toServer[i] \in Request
            BY ElementOfSeq DEF QueueInv, TypeOK
          <6>2. \A i \in 1 .. Len(fromServer) : fromServer[i] \in Response
            BY ElementOfSeq DEF QueueInv, TypeOK
          <6> QED
            BY <6>1, <6>2 DEF Request, Response
        <5> QED
          BY <1>8, <3>2, <5>1 DEF InFlight
      <4> QED
        BY <1>4, <4>1
    <3> QED
      BY <1>7, <2>1, <3>1, <3>2
  <2>2. tid' > 0 => expected' = tid' - 1
    BY <1>4
  <2> QED
    BY <1>4, <2>1, <2>2 DEF IdsGrow
<1>11. FrontMatches'
  <2> SUFFICES ASSUME NEW f \in InFlight', NEW c \in Controllers,
                      f.tid = expected', Outstanding(c)'
               PROVE  f.of = queue'[c][1].item
    BY DEF FrontMatches
  <2>1. f = new
    <3>1. f \in InFlight => f.tid < tid
      BY <1>8
    <3> QED
      BY <1>4, <1>7, <3>1
  <2>2. c = d /\ queue[d] # <<>> /\ queue[d] \in Seq(Command)
    BY <1>1 DEF Alone, Outstanding, QueueInv, TypeOK
  <2>3. main.place = 0
    <3>1. SUFFICES ASSUME main.place # 0 PROVE FALSE
      OBVIOUS
    <3>2. queue[d][1].sent = 0
      BY <1>1, <2>2, <3>1 DEF QueueInv, OrderInv, ChosenInv, InLoop, Unsent
    <3>3. ~BeingSent(d)'
      BY <1>2, <3>1 DEF Written, BeingSent, QueueInv, TypeOK, MainOK
    <3>4. ~(queue[d][1].sent > 0)
      BY <3>2
    <3> QED
      BY <1>1, <2>2, <3>3, <3>4 DEF Outstanding
  <2>4. item = Head(queue[d]).item /\ Head(queue[d]) = queue[d][1]
    BY <2>2, <2>3 DEF item, Chosen
  <2> QED
    BY <1>1, <1>9, <2>1, <2>2, <2>4
<1> QED
  BY <1>3, <1>10, <1>11 DEF AnswerInv

\* What is received is in flight no more.
LEMMA OnDataWire ==
    ASSUME QueueInv, OnData
    PROVE  /\ InFlight' \subseteq InFlight
           /\ UNCHANGED <<tid, expected>>
           /\ [tid |-> Head(fromServer).tid, of |-> Head(fromServer).data.of.item] \in InFlight
<1> DEFINE frame == Head(fromServer)
<1>1. /\ fromServer \in Seq(Response) /\ fromServer # <<>>
      /\ fromServer' = Tail(fromServer) /\ UNCHANGED <<toServer, tid, expected>>
  BY DEF OnData, Receive, tidVars, QueueInv, TypeOK
<1>2. /\ Len(fromServer) \in Nat /\ 1 \in 1 .. Len(fromServer)
      /\ frame = fromServer[1]
      /\ Len(fromServer') = Len(fromServer) - 1
      /\ \A i \in 1 .. Len(fromServer') : fromServer'[i] = fromServer[i + 1]
  BY <1>1, HeadTailProperties, EmptySeq
<1>3. ASSUME NEW i \in 1 .. Len(fromServer')
      PROVE  [tid |-> fromServer'[i].tid, of |-> fromServer'[i].data.of.item] \in InFlight
  <2>1. i + 1 \in 1 .. Len(fromServer) /\ fromServer'[i] = fromServer[i + 1]
    BY <1>2, <1>3
  <2> QED
    BY <2>1 DEF InFlight
<1>4. InFlight' \subseteq InFlight
  BY <1>1, <1>3 DEF InFlight
<1> QED
  BY <1>1, <1>2, <1>4 DEF InFlight

LEMMA NextAnswer ==
    ASSUME QueueInv, AnswerInv, Alone, CustomRanges = {}, ~TidWraps, [Next]_vars
    PROVE  AnswerInv'
<1>1. ASSUME InFlight' \subseteq InFlight, UNCHANGED <<tid, expected>>,
             \A c \in Controllers : ~SendCommand(c)
      PROVE  AnswerInv'
  BY <1>1, WireKept
<1>2. ASSUME NEW c \in Controllers, SendCommand(c) PROVE AnswerInv'
  BY <1>2, SendCommandAnswer
<1>3. ASSUME UNCHANGED <<netVars, tid, expected>> PROVE AnswerInv'
  <2>1. InFlight' \subseteq InFlight
    BY <1>3 DEF netVars, InFlight
  <2> QED
    BY <1>1, <1>2, <1>3, <2>1
<1>4. ASSUME NEW c \in Controllers,
             \/ StartUpdate(c) \/ UpdateRange(c) \/ SetCounter(c) \/ ProcessData(c)
             \/ ChooseCommand(c)
      PROVE  UNCHANGED <<netVars, tid, expected>>
  BY <1>4 DEF StartUpdate, UpdateRange, SetCounter, ProcessData, ChooseCommand, tcpVars,
              tidVars
<1>5. ASSUME NEW c \in Controllers,
             \/ CheckRetries(c) \/ SetOffline(c) \/ DropCommand(c) \/ SendRefused(c)
             \/ FinishSend(c)
      PROVE  UNCHANGED <<netVars, tid, expected>>
  BY <1>5 DEF CheckRetries, SetOffline, DropCommand, SendRefused, SendRawNothing,
              FinishSend, tcpVars, tidVars
<1>6. ASSUME NEW n \in Numbers, NEW v \in Values, NumberControl(n, v)
      PROVE  UNCHANGED <<netVars, tid, expected>>
  BY <1>6 DEF NumberControl, tcpVars, tidVars
<1>7. CASE OnData
  BY <1>1, <1>2, <1>7, OnDataWire
<1>8. CASE Restart
  <2>1. Len(<<>>) = 0
    OBVIOUS
  <2>2. InFlight' = {} /\ tid' = 0
    BY <1>8, <2>1 DEF Restart, LoseFrames, InFlight
  <2>3. RefusedInv'
    BY NextRefused DEF AnswerInv
  <2> QED
    BY <2>2, <2>3 DEF AnswerInv, IdsGrow, FrontMatches
<1>9. CASE Outside
  BY <1>1, <1>2, <1>9, OutsideWire DEF QueueInv
<1> QED
  BY <1>2, <1>3, <1>4, <1>5, <1>6, <1>7, <1>8, <1>9 DEF Next, Outside, Loop, Continue

\* Only on_modbus_data() puts something into an incoming_queue_.
LEMMA IncomingGrows ==
    ASSUME QueueInv, [Next]_vars, NEW c \in Controllers,
           Len(incoming'[c]) > Len(incoming[c])
    PROVE  OnData
<1>1. incoming[c] \in Seq(Entry) /\ Len(incoming[c]) \in Nat
  BY LenProperties DEF QueueInv, TypeOK
<1>2. ASSUME incoming'[c] = incoming[c] PROVE FALSE
  BY <1>1, <1>2
<1>3. ASSUME NEW d \in Controllers, ProcessData(d) PROVE FALSE
  <2>1. CASE c = d
    <3>1. incoming[c] # <<>> /\ incoming'[c] = Tail(incoming[c])
      BY <1>3, <2>1 DEF ProcessData, QueueInv, TypeOK
    <3>2. Len(incoming'[c]) = Len(incoming[c]) - 1
      BY <1>1, <3>1, HeadTailProperties
    <3> QED
      BY <1>1, <3>2
  <2>2. CASE c # d
    BY <1>2, <1>3, <2>2 DEF ProcessData, QueueInv, TypeOK
  <2> QED
    BY <2>1, <2>2
<1>4. ASSUME NEW d \in Controllers, FinishSend(d) PROVE FALSE
  <2>1. CASE main.place # 0 /\ c = d
    <3> DEFINE a == incoming[c]
               k == main.place
               x == [a[k] EXCEPT !.cmd = CountSend(a[k].cmd)]
    <3>1. incoming' = [incoming EXCEPT ![c] = [a EXCEPT ![k] = x]]
      BY <1>4, <2>1 DEF FinishSend
    <3> HIDE DEF x
    <3>2. incoming'[c] = [a EXCEPT ![k] = x]
      BY <3>1 DEF QueueInv, TypeOK
    <3>3. DOMAIN [a EXCEPT ![k] = x] = DOMAIN a
      OBVIOUS
    <3>4. incoming'[c] \in Seq(Entry)
      BY NextType DEF QueueInv, TypeOK
    <3>5. Len(incoming'[c]) = Len(incoming[c])
      BY <1>1, <3>2, <3>3, <3>4, LenProperties
    <3> QED
      BY <1>1, <3>5
  <2>2. CASE ~(main.place # 0 /\ c = d)
    BY <1>2, <1>4, <2>2 DEF FinishSend, QueueInv, TypeOK
  <2> QED
    BY <2>1, <2>2
<1>5. CASE Restart
  <2>1. Len(<<>>) = 0
    BY EmptySeq
  <2>2. Len(incoming'[c]) = 0
    BY <1>5, <2>1 DEF Restart
  <2> QED
    BY <1>1, <2>2
<1>6. ASSUME NEW d \in Controllers,
             \/ StartUpdate(d) \/ UpdateRange(d) \/ SetCounter(d) \/ ChooseCommand(d)
             \/ CheckRetries(d) \/ SetOffline(d) \/ DropCommand(d) \/ SendCommand(d)
             \/ SendRefused(d)
      PROVE  incoming'[c] = incoming[c]
  BY <1>6 DEF StartUpdate, UpdateRange, SetCounter, ChooseCommand, CheckRetries,
              SetOffline, DropCommand, SendCommand, SendRefused, ctlVars
<1>7. ASSUME NEW n \in Numbers, NEW v \in Values, NumberControl(n, v)
      PROVE  incoming'[c] = incoming[c]
  BY <1>7 DEF NumberControl
<1>8. Environment \/ Transport \/ TimePasses \/ UNCHANGED vars
         => incoming'[c] = incoming[c]
  BY EnvironmentUnchanged DEF Transport, TimePasses, vars, ctlVars
<1> QED
  BY <1>2, <1>3, <1>4, <1>5, <1>6, <1>7, <1>8 DEF Next, Environment, Loop, Continue

LEMMA AnswerStep ==
    ASSUME QueueInv, AnswerInv, [Next]_vars, NEW c \in Controllers,
           Len(incoming'[c]) > Len(incoming[c]), OnTheWire(c),
           Framed(Head(queue[c]).item)
    PROVE  Head(fromServer).data.of.item = Head(queue[c]).item
<1> DEFINE frame == Head(fromServer)
           asked == [tid |-> frame.tid, of |-> frame.data.of.item]
<1>1. OnData
  BY IncomingGrows
<1>2. Takes(c)
  <2>1. Len(incoming[c]) \in Nat
    BY LenProperties DEF QueueInv, TypeOK
  <2>2. ~Takes(c) => incoming'[c] = incoming[c]
    BY <1>1 DEF OnData
  <2> QED
    BY <2>1, <2>2
<1>3. queue[c] # <<>> /\ frame.tid = expected /\ Head(queue[c]) = queue[c][1]
  BY <1>2 DEF Takes, Accepted, QueueInv, TypeOK
<1>4. Outstanding(c)
  BY <1>3 DEF Outstanding, OnTheWire, BeingSent
<1>5. asked \in InFlight /\ asked.tid = frame.tid /\ asked.of = frame.data.of.item
  BY <1>1, OnDataWire
<1> HIDE DEF asked, frame
<1>6. asked.of = queue[c][1].item
  BY <1>3, <1>4, <1>5 DEF AnswerInv, FrontMatches
<1> QED
  BY <1>3, <1>5, <1>6 DEF frame

\* With one controller on the connection and no custom commands: a command that was
\* put on the wire is never completed by the answer to another request
\* (handle_frame_(), modbustcp.cpp 134-138, with on_modbus_data(),
\* modbustcp_controller.cpp 61-85): answers may be late, lost or repeated, and
\* callbacks come at any moment, also in the middle of send_next_command_().
THEOREM AnswersBelong ==
    ASSUME Alone, CustomRanges = {}, ~TidWraps
    PROVE  Spec => SentCommandsGetTheirAnswer
<1> DEFINE Inv == QueueInv /\ AnswerInv
<1>1. Init => Inv
  BY InitState, InitAnswer
<1>2. Inv /\ [Next]_vars => Inv'
  BY NextState, NextAnswer
<1>3. Inv /\ [Next]_vars
        => [\A c \in Controllers :
              Len(incoming'[c]) > Len(incoming[c]) /\ OnTheWire(c)
                /\ Framed(Head(queue[c]).item)
              => Head(fromServer).data.of.item = Head(queue[c]).item]_vars
  BY AnswerStep
<1> QED
  BY <1>1, <1>2, <1>3, PTL DEF Spec, SentCommandsGetTheirAnswer
=============================================================================
