---------------------- MODULE ModbusTCPControllerProofs ----------------------
(***************************************************************************)
(* Theorems about the controller composed with its transport, for every    *)
(* value of the constants: types, the order of the queues, and that they   *)
(* implement CommandQueues.                                                *)
(***************************************************************************)
EXTENDS ModbusTCPController, FoldLemmas

-----------------------------------------------------------------------------
(* Lemmas about the queue operations.                                      *)

\* A command is changed at one place of a queue of commands.
LEMMA PatchType ==
    ASSUME NEW q \in Seq(Command), NEW i \in 1 .. Len(q), NEW x \in Command
    PROVE  /\ [q EXCEPT ![i] = x] \in Seq(Command)
           /\ Len([q EXCEPT ![i] = x]) = Len(q)
           /\ \A j \in 1 .. Len(q) : [q EXCEPT ![i] = x][j] = IF j = i THEN x ELSE q[j]
  BY ExceptSeq

\* A wrapping counter stays below its modulus.
LEMMA ModRange ==
    ASSUME NEW a \in Nat, NEW m \in Nat \ {0}
    PROVE  a % m \in 0 .. m - 1
  OBVIOUS

\* The counter of sends keeps its 8 bits (send(), modbustcp_controller.cpp 651).
LEMMA CountSendType ==
    ASSUME NEW x \in Command
    PROVE  /\ CountSend(x) \in Command
           /\ CountSend(x).item = x.item
           /\ CountSend(x).payload = x.payload
           /\ CountSend(x).sent = (x.sent + 1) % SendCountModulus
<1>1. x.sent + 1 \in Nat /\ SendCountModulus \in Nat \ {0}
  BY ControllerAssumption DEF Command, Typed
<1>2. (x.sent + 1) % SendCountModulus \in 0 .. SendCountModulus - 1
  BY <1>1, ModRange
<1> DEFINE k == (x.sent + 1) % SendCountModulus
<1> HIDE DEF k
<1>3. [x EXCEPT !.sent = k] \in Command
  BY <1>2 DEF Command, Typed, k
<1> QED
  BY <1>3 DEF CountSend, Command, Typed, k

\* No command of a queue equals one behind it, unless duplicates are allowed.
Distinct(q) == ~AllowDuplicates =>
                 \A i, j \in 1 .. Len(q) : i < j => ~IsEqual(q[i], q[j])

\* The first of the queued commands that equal the new one.
LEMMA FirstEqual ==
    ASSUME NEW q \in Seq(Command), NEW command,
           NEW k \in 1 .. Len(q), IsEqual(q[k], command)
    PROVE  LET equal == {i \in 1 .. Len(q) : IsEqual(q[i], command)}
               first == CHOOSE i \in equal : \A j \in equal : i <= j
           IN  first \in equal /\ \A j \in equal : first <= j
<1> DEFINE equal == {i \in 1 .. Len(q) : IsEqual(q[i], command)}
<1>1. equal \in SUBSET Nat /\ equal # {}
  OBVIOUS
<1> HIDE DEF equal
<1>2. \E i \in equal : \A j \in equal : i <= j
  BY <1>1, Least
<1>3. /\ (CHOOSE i \in equal : \A j \in equal : i <= j) \in equal
      /\ \A j \in equal : (CHOOSE i \in equal : \A k_1 \in equal : i <= k_1) <= j
  BY <1>2
<1> QED
  BY <1>3 DEF equal

\* queue_command() keeps a queue of commands, adds at most one, and changes
\* nothing of the queued ones but a payload.
LEMMA QueueCommandType ==
    ASSUME NEW q \in Seq(Command), NEW command \in Command
    PROVE  /\ QueueCommand(q, command) \in Seq(Command)
           /\ \A i \in 1 .. Len(q) :
                /\ QueueCommand(q, command)[i].item = q[i].item
                /\ QueueCommand(q, command)[i].sent = q[i].sent
           /\ \/ Len(QueueCommand(q, command)) = Len(q)
              \/ Len(QueueCommand(q, command)) = Len(q) + 1
           /\ Len(QueueCommand(q, command)) = Len(q) + 1
                => QueueCommand(q, command)[Len(q) + 1] = command
           /\ Distinct(q) => Distinct(QueueCommand(q, command))
<1> DEFINE equal == {i \in 1 .. Len(q) : IsEqual(q[i], command)}
           first == CHOOSE i \in equal : \A j \in equal : i <= j
           patched == [q[first] EXCEPT !.payload = command.payload]
           p == QueueCommand(q, command)
<1>0. Len(q) \in Nat /\ \A i \in 1 .. Len(q) : q[i] \in Command
  BY ElementOfSeq
<1>1. CASE ~AllowDuplicates /\ equal # {}
  <2>1. /\ first \in 1 .. Len(q) /\ IsEqual(q[first], command)
        /\ \A j \in 1 .. Len(q) : IsEqual(q[j], command) => first <= j
    <3>1. PICK k \in 1 .. Len(q) : IsEqual(q[k], command)
      BY <1>1
    <3> QED
      BY <3>1, FirstEqual
  <2>2. q[first] \in Command
    BY <1>0, <2>1
  <2>3. p = [q EXCEPT ![first] = patched]
    BY <1>1, <2>1 DEF QueueCommand
  <2> HIDE DEF first, p
  <2>4. CASE q[first].item \in CustomRanges
    <3>1. patched = q[first]
      BY <2>1, <2>2, <2>4 DEF IsEqual, Command, Typed
    <3>2. p = q
      BY <1>0, <2>1, <2>3, <3>1
    <3> QED
      BY <1>0, <3>2 DEF p
  <2>5. CASE q[first].item \notin CustomRanges
    <3>1. Key[q[first].item] = Key[command.item]
      BY <2>1, <2>5 DEF IsEqual
    <3>2. q[first].item \in Numbers => command.item \in Numbers
      BY <2>2, <3>1, ControllerAssumption DEF Command, Typed, Items
    <3>3. /\ patched \in Command
          /\ patched.item = q[first].item
          /\ patched.sent = q[first].sent
          /\ patched.payload = command.payload
      BY <2>2, <2>5, <3>2 DEF Command, Typed
    <3> HIDE DEF patched
    <3>4. /\ p \in Seq(Command) /\ Len(p) = Len(q)
          /\ \A j \in 1 .. Len(q) : p[j] = IF j = first THEN patched ELSE q[j]
      BY <2>1, <2>3, <3>3, PatchType
    <3>5. ASSUME ~AllowDuplicates, Distinct(q),
                 NEW i \in 1 .. Len(q), NEW j \in 1 .. Len(q), i < j
          PROVE  ~IsEqual(p[i], p[j])
      <4>1. ~IsEqual(q[i], q[j])
        BY <3>5 DEF Distinct
      <4>2. CASE j = first
        <5>1. ~IsEqual(q[i], command) /\ p[i] = q[i] /\ p[j] = patched
          BY <1>0, <2>1, <3>4, <3>5, <4>2
        <5> QED
          BY <3>3, <4>1, <4>2, <5>1 DEF IsEqual
      <4>3. CASE i = first
        BY <1>0, <2>5, <3>3, <3>4, <3>5, <4>1, <4>3 DEF IsEqual
      <4>4. CASE i # first /\ j # first
        BY <3>4, <4>1, <4>4
      <4> QED
        BY <4>2, <4>3, <4>4
    <3>6. Distinct(q) => Distinct(p)
      BY <3>4, <3>5 DEF Distinct
    <3>7. \A i \in 1 .. Len(q) : p[i].item = q[i].item /\ p[i].sent = q[i].sent
      BY <3>3, <3>4
    <3>8. Len(p) # Len(q) + 1
      BY <1>0, <3>4
    <3> QED
      BY <3>4, <3>6, <3>7, <3>8 DEF p
  <2> QED
    BY <2>4, <2>5
<1>2. CASE ~(~AllowDuplicates /\ equal # {})
  <2>1. p = Append(q, command)
    BY <1>2 DEF QueueCommand
  <2>2. /\ p \in Seq(Command) /\ Len(p) = Len(q) + 1
        /\ \A i \in 1 .. Len(q) : p[i] = q[i]
        /\ p[Len(q) + 1] = command
    BY <2>1, AppendProperties
  <2> HIDE DEF p
  <2>3. Distinct(q) => Distinct(p)
    <3> SUFFICES ASSUME Distinct(q), ~AllowDuplicates,
                        NEW i \in 1 .. Len(p), NEW j \in 1 .. Len(p), i < j
                 PROVE  ~IsEqual(p[i], p[j])
      BY DEF Distinct
    <3>1. i \in 1 .. Len(q)
      BY <1>0, <2>2
    <3>2. CASE j \in 1 .. Len(q)
      BY <2>2, <3>1, <3>2 DEF Distinct
    <3>3. CASE j = Len(q) + 1
      BY <1>2, <2>2, <3>1, <3>3
    <3> QED
      BY <1>0, <2>2, <3>2, <3>3
  <2> QED
    BY <2>2, <2>3 DEF p
<1> QED
  BY <1>1, <1>2

LEMMA InitType == Init => TypeOK /\ NoDuplicateCommands
<1> SUFFICES ASSUME Init PROVE TypeOK /\ NoDuplicateCommands
  OBVIOUS
<1>1. TCPTypeOK
  <2>1. Len(<<>>) = 0
    OBVIOUS
  <2>2. toServer = <<>> /\ fromServer = <<>>
    BY DEF Init, TCPInit
  <2>3. Len(toServer) <= Window /\ Len(fromServer) <= Window
    BY <2>1, <2>2, TransportAssumption
  <2>4. /\ 0 \in 0 .. TidModulus - 1
        /\ 0 \in 0 .. SendWait + 1
        /\ 0 \in 0 .. ReconnectDelay + 1
    BY TransportAssumption
  <2> QED
    BY <2>3, <2>4 DEF Init, TCPInit, TCPTypeOK
<1>2. MainOK
  BY DEF Init, Idle, Handler, InLoop, MainOK
<1>3. /\ toServer \in Seq(Request)
      /\ fromServer \in Seq(Response)
      /\ queue \in [Controllers -> Seq(Command)]
      /\ incoming \in [Controllers -> Seq(Entry)]
      /\ offline \in [Controllers -> BOOLEAN]
      /\ skip \in [Ranges -> Nat]
      /\ cmdAge \in [Controllers -> 0 .. Throttle + 1]
      /\ awaited \in [Controllers -> Int]
      /\ published \in [Numbers -> Values \cup {NoValue, Garbage}]
      /\ device \in [Numbers -> Values \cup {Garbage}]
  BY ControllerAssumption, EmptySeq DEF Init, TCPInit, Heard
<1>4. NoDuplicateCommands
  BY DEF Init, NoDuplicateCommands
<1> QED
  BY <1>1, <1>2, <1>3, <1>4 DEF TypeOK

\* One queue is replaced by another that has no duplicates either.
LEMMA OneQueueType ==
    ASSUME TypeOK, NoDuplicateCommands, NEW c \in Controllers,
           NEW p \in Seq(Command), Distinct(p), queue' = [queue EXCEPT ![c] = p]
    PROVE  /\ queue' \in [Controllers -> Seq(Command)]
           /\ NoDuplicateCommands'
           /\ queue'[c] = p
           /\ \A d \in Controllers \ {c} : queue'[d] = queue[d]
<1>1. /\ queue' \in [Controllers -> Seq(Command)]
      /\ queue'[c] = p
      /\ \A d \in Controllers \ {c} : queue'[d] = queue[d]
  BY DEF TypeOK
<1>2. \A d \in Controllers : Distinct(queue'[d])
  BY <1>1 DEF NoDuplicateCommands, Distinct
<1> QED
  BY <1>1, <1>2 DEF NoDuplicateCommands, Distinct

\* What queue_command() does to the queue of one controller.
LEMMA QueueOneType ==
    ASSUME TypeOK, NoDuplicateCommands,
           NEW c \in Controllers, NEW command \in Command,
           queue' = [queue EXCEPT ![c] = QueueCommand(@, command)]
    PROVE  queue' \in [Controllers -> Seq(Command)] /\ NoDuplicateCommands'
<1> DEFINE p == QueueCommand(queue[c], command)
<1>1. queue[c] \in Seq(Command) /\ Distinct(queue[c])
  BY DEF TypeOK, NoDuplicateCommands, Distinct
<1>2. p \in Seq(Command) /\ Distinct(p)
  BY <1>1, QueueCommandType
<1>3. queue' = [queue EXCEPT ![c] = p]
  OBVIOUS
<1> HIDE DEF p
<1> QED
  BY <1>2, <1>3, OneQueueType

\* The transport keeps its types when it is left alone.
LEMMA TCPStutterType ==
    ASSUME TCPTypeOK, UNCHANGED tcpVars PROVE TCPTypeOK'
  BY DEF TCPTypeOK, tcpVars, connVars, busVars, tidVars, netVars

\* The commands update() and control() make.
LEMMA NewCommandType ==
    /\ \A r \in Ranges : ReadCommand(r) \in Command /\ ReadCommand(r).sent = 0
    /\ \A n \in Numbers, v \in Values :
          WriteCommand(n, v) \in Command /\ WriteCommand(n, v).sent = 0
<1>1. 0 \in 0 .. SendCountModulus - 1
  BY ControllerAssumption
<1> QED
  BY <1>1, ControllerAssumption
     DEF ReadCommand, WriteCommand, Command, Typed, Payload, Items

LEMMA RangeInRanges ==
    ASSUME NEW c \in Controllers, NEW i \in 1 .. Len(RangeList[c])
    PROVE  RangeList[c][i] \in Ranges /\ RangeList[c][i] \in RangesOf(c)
  BY DEF Ranges, RangesOf

LEMMA StartUpdateType ==
    ASSUME TypeOK, NoDuplicateCommands, NEW c \in Controllers, StartUpdate(c)
    PROVE  TypeOK' /\ NoDuplicateCommands'
<1>1. TCPTypeOK'
  BY TCPStutterType DEF TypeOK, StartUpdate
<1>2. MainOK'
  <2>1. 1 \in 1 .. Len(RangeList[c])
    <3>1. RangeList[c] \in Seq(RangesOf(c)) /\ RangeList[c] # <<>>
      BY ControllerAssumption DEF StartUpdate
    <3> QED
      BY <3>1, EmptySeq
  <2> QED
    BY <2>1 DEF MainOK, StartUpdate, Updating, Handler, InLoop
<1> QED
  BY <1>1, <1>2 DEF TypeOK, NoDuplicateCommands, StartUpdate, tcpVars, netVars,
                    ctlVars, appVars

LEMMA UpdateRangeType ==
    ASSUME TypeOK, NoDuplicateCommands, NEW c \in Controllers, UpdateRange(c)
    PROVE  TypeOK' /\ NoDuplicateCommands'
<1> DEFINE r == RangeList[c][main.range]
<1>1. TCPTypeOK'
  BY TCPStutterType DEF TypeOK, UpdateRange
<1>2. r \in Ranges /\ ReadCommand(r) \in Command /\ skip[r] \in Nat
  BY RangeInRanges, NewCommandType DEF TypeOK, MainOK, UpdateRange
<1>3. queue' \in [Controllers -> Seq(Command)] /\ NoDuplicateCommands'
  <2>1. CASE skip[r] = 0
    <3>1. queue' = [queue EXCEPT ![c] = QueueCommand(@, ReadCommand(r))]
      BY <2>1 DEF UpdateRange
    <3> QED
      BY <1>2, <3>1, QueueOneType
  <2>2. CASE skip[r] # 0
    BY <2>2 DEF UpdateRange, TypeOK, NoDuplicateCommands
  <2> QED
    BY <2>1, <2>2
<1>4. MainOK'
  <2>1. CASE main' = [main EXCEPT !.at = "queued"]
    BY <2>1 DEF UpdateRange, TypeOK, MainOK, InLoop
  <2>2. CASE skip[r] # 0 /\ main' = [main EXCEPT !.at = "skipped", !.mark = skip[r]]
    <3> DEFINE k == skip[r]
    <3>1. k \in Nat /\ k > 0 /\ main' = [main EXCEPT !.at = "skipped", !.mark = k]
      BY <1>2, <2>2
    <3> HIDE DEF k
    <3> QED
      BY <3>1 DEF UpdateRange, TypeOK, MainOK, InLoop
  <2> QED
    BY <2>1, <2>2 DEF UpdateRange
<1> QED
  BY <1>1, <1>3, <1>4 DEF TypeOK, UpdateRange, tcpVars, netVars, appVars

\* The counters that are reloaded or decremented stay numbers: decrementing 0 wraps
\* to the 16 bits they have (update_range_(), modbustcp_controller.cpp 282-303).
LEMMA SetCounterType ==
    ASSUME TypeOK, NoDuplicateCommands, NEW c \in Controllers, SetCounter(c)
    PROVE  TypeOK' /\ NoDuplicateCommands'
<1> DEFINE r == RangeList[c][main.range]
<1>1. TCPTypeOK'
  BY TCPStutterType DEF TypeOK, SetCounter
<1>2. r \in Ranges /\ skip[r] \in Nat
  BY RangeInRanges DEF TypeOK, MainOK, SetCounter
<1>3. skip' \in [Ranges -> Nat]
  <2>1. PICK k \in IF main.at = "queued" THEN {SkipUpdates[r]} ELSE Decremented(r) :
               skip' = [skip EXCEPT ![r] = k]
    BY DEF SetCounter
  <2>2. k \in Nat
    <3>1. CASE main.at = "queued"
      BY <1>2, <2>1, <3>1, ControllerAssumption
    <3>2. CASE main.at = "skipped"
      <4>1. main.mark - 1 \in Nat
        BY <3>2 DEF TypeOK, MainOK
      <4>2. \A a \in Int, m \in Nat \ {0} : a % m \in Nat
        OBVIOUS
      <4>3. (skip[r] - 1) % CounterModulus \in Nat
        BY <1>2, <4>2, ControllerAssumption
      <4> QED
        BY <2>1, <3>2, <4>1, <4>3 DEF Decremented
    <3> QED
      BY <3>1, <3>2 DEF SetCounter
  <2> QED
    BY <2>1, <2>2 DEF TypeOK
<1>4. MainOK'
  <2>1. CASE main.range < Len(RangeList[c])
    <3>1. main' = Updating(c, main.range + 1)
      BY <2>1 DEF SetCounter
    <3>2. main.range + 1 \in 1 .. Len(RangeList[c])
      BY <2>1 DEF TypeOK, MainOK, SetCounter
    <3> QED
      BY <3>1, <3>2 DEF MainOK, Updating, Handler, InLoop
  <2>2. CASE ~(main.range < Len(RangeList[c]))
    BY <2>2 DEF SetCounter, MainOK, Idle, Handler, InLoop
  <2> QED
    BY <2>1, <2>2
<1> QED
  BY <1>1, <1>3, <1>4 DEF TypeOK, SetCounter, NoDuplicateCommands, tcpVars, netVars, appVars

LEMMA NumberControlType ==
    ASSUME TypeOK, NoDuplicateCommands, NEW n \in Numbers, NEW v \in Values,
           NumberControl(n, v)
    PROVE  TypeOK' /\ NoDuplicateCommands'
<1>1. TCPTypeOK'
  BY TCPStutterType DEF TypeOK, NumberControl
<1>2. Home[n] \in Controllers /\ WriteCommand(n, v) \in Command
  BY NewCommandType, ControllerAssumption
<1>3. queue' = [queue EXCEPT ![Home[n]] = QueueCommand(@, WriteCommand(n, v))]
  BY DEF NumberControl
<1>4. queue' \in [Controllers -> Seq(Command)] /\ NoDuplicateCommands'
  BY <1>2, <1>3, QueueOneType
<1>5. MainOK'
  BY DEF TypeOK, NumberControl, MainOK, Idle, Handler, InLoop
<1>6. published' \in [Numbers -> Values \cup {NoValue, Garbage}]
  BY DEF TypeOK, NumberControl
<1> QED
  BY <1>1, <1>4, <1>5, <1>6 DEF TypeOK, NumberControl, tcpVars, netVars

LEMMA ProcessDataType ==
    ASSUME TypeOK, NoDuplicateCommands, NEW c \in Controllers, ProcessData(c)
    PROVE  TypeOK' /\ NoDuplicateCommands'
<1>1. TCPTypeOK'
  BY TCPStutterType DEF TypeOK, ProcessData
<1>2. incoming[c] \in Seq(Entry) /\ incoming[c] # <<>>
  BY DEF TypeOK, ProcessData
<1>3. Head(incoming[c]) \in Entry /\ Tail(incoming[c]) \in Seq(Entry)
  BY <1>2, HeadTailProperties
<1>4. incoming' \in [Controllers -> Seq(Entry)]
  BY <1>3 DEF TypeOK, ProcessData
<1>5. \A n \in Numbers, entry \in Entry :
         Shown(n, entry) \in Values \cup {NoValue, Garbage}
  BY DEF TypeOK, Shown, Entry, Command, Data, Typed
<1>6. published' \in [Numbers -> Values \cup {NoValue, Garbage}]
  BY <1>3, <1>5 DEF TypeOK, ProcessData
<1>7. MainOK'
  BY DEF TypeOK, ProcessData, MainOK, Idle, Handler, InLoop
<1>8. NoDuplicateCommands'
  BY DEF ProcessData, NoDuplicateCommands
<1> QED
  BY <1>1, <1>4, <1>6, <1>7, <1>8 DEF TypeOK, ProcessData, tcpVars, netVars

\* Taking the front command leaves no two equal ones behind.
LEMMA TailDistinct ==
    ASSUME NEW q \in Seq(Command), q # <<>>, Distinct(q)
    PROVE  Tail(q) \in Seq(Command) /\ Distinct(Tail(q))
<1>1. /\ Tail(q) \in Seq(Command)
      /\ Len(Tail(q)) = Len(q) - 1
      /\ Len(q) \in Nat
      /\ \A i \in 1 .. Len(Tail(q)) : Tail(q)[i] = q[i + 1]
  BY HeadTailProperties
<1>2. SUFFICES ASSUME ~AllowDuplicates,
                      NEW i \in 1 .. Len(Tail(q)), NEW j \in 1 .. Len(Tail(q)), i < j
               PROVE  ~IsEqual(Tail(q)[i], Tail(q)[j])
  BY <1>1 DEF Distinct
<1>3. i + 1 \in 1 .. Len(q) /\ j + 1 \in 1 .. Len(q) /\ i + 1 < j + 1
  BY <1>1, <1>2
<1>4. ~IsEqual(q[i + 1], q[j + 1])
  BY <1>2, <1>3 DEF Distinct
<1> QED
  BY <1>1, <1>4

\* Counting a send of the front command keeps the queue as it is.
LEMMA CountDistinct ==
    ASSUME NEW q \in Seq(Command), q # <<>>, Distinct(q)
    PROVE  /\ [q EXCEPT ![1] = CountSend(q[1])] \in Seq(Command)
           /\ Distinct([q EXCEPT ![1] = CountSend(q[1])])
<1> DEFINE x == CountSend(q[1])
           p == [q EXCEPT ![1] = x]
<1>1. 1 \in 1 .. Len(q) /\ Len(q) \in Nat
  BY EmptySeq
<1>2. x \in Command /\ x.item = q[1].item /\ x.payload = q[1].payload
  BY <1>1, ElementOfSeq, CountSendType
<1>3. /\ p \in Seq(Command)
      /\ Len(p) = Len(q)
      /\ \A i \in 1 .. Len(q) : p[i].item = q[i].item /\ p[i].payload = q[i].payload
  <2> HIDE DEF x
  <2> QED
    BY <1>1, <1>2, PatchType
<1> HIDE DEF p, x
<1>4. Distinct(p)
  BY <1>3 DEF Distinct, IsEqual
<1> QED
  BY <1>3, <1>4 DEF p, x

LEMMA ChooseType ==
    ASSUME TypeOK, NoDuplicateCommands, NEW c \in Controllers,
           ChooseCommand(c) \/ CheckRetries(c)
    PROVE  TypeOK' /\ NoDuplicateCommands'
<1>1. UNCHANGED <<tcpVars, ctlVars, appVars>>
  BY DEF ChooseCommand, CheckRetries
<1>2. queue[c] # <<>> /\ \E at \in InLoop : main' = Sending(at, c)
  BY DEF ChooseCommand, CheckRetries, SendIsDue, InLoop
<1>3. MainOK'
  BY <1>1, <1>2 DEF MainOK, Sending, Handler, InLoop, ctlVars
<1>4. TCPTypeOK'
  BY <1>1, TCPStutterType DEF TypeOK
<1> QED
  BY <1>1, <1>3, <1>4 DEF TypeOK, NoDuplicateCommands, tcpVars, netVars, ctlVars, appVars

LEMMA SetOfflineType ==
    ASSUME TypeOK, NoDuplicateCommands, NEW c \in Controllers, SetOffline(c)
    PROVE  TypeOK' /\ NoDuplicateCommands'
<1>1. TCPTypeOK'
  BY TCPStutterType DEF TypeOK, SetOffline
<1>2. offline' \in [Controllers -> BOOLEAN] /\ skip' \in [Ranges -> Nat]
  BY ControllerAssumption DEF TypeOK, SetOffline, SkipWhenOffline
<1>3. MainOK'
  BY DEF TypeOK, SetOffline, MainOK, InLoop
<1> QED
  BY <1>1, <1>2, <1>3 DEF TypeOK, SetOffline, NoDuplicateCommands, tcpVars, netVars, appVars

LEMMA DropCommandType ==
    ASSUME TypeOK, NoDuplicateCommands, NEW c \in Controllers, DropCommand(c)
    PROVE  TypeOK' /\ NoDuplicateCommands'
<1>1. TCPTypeOK'
  BY TCPStutterType DEF TypeOK, DropCommand
<1>2. queue[c] \in Seq(Command) /\ queue[c] # <<>> /\ Distinct(queue[c])
  BY DEF TypeOK, DropCommand, NoDuplicateCommands, Distinct
<1>3. Tail(queue[c]) \in Seq(Command) /\ Distinct(Tail(queue[c]))
  BY <1>2, TailDistinct
<1>4. queue' = [queue EXCEPT ![c] = Tail(queue[c])]
  BY DEF DropCommand
<1>5. queue' \in [Controllers -> Seq(Command)] /\ NoDuplicateCommands'
  BY <1>3, <1>4, OneQueueType
<1>6. MainOK'
  BY DEF DropCommand, MainOK, Idle, Handler, InLoop
<1> QED
  BY <1>1, <1>5, <1>6 DEF TypeOK, DropCommand, tcpVars, netVars, appVars

LEMMA SendRefusedType ==
    ASSUME TypeOK, NoDuplicateCommands, NEW c \in Controllers, SendRefused(c)
    PROVE  TypeOK' /\ NoDuplicateCommands'
<1>1. UNCHANGED <<connVars, busVars, tidVars, netVars, ctlVars, appVars>>
  BY DEF SendRefused, SendRawNothing
<1>2. MainOK'
  BY <1>1 DEF TypeOK, SendRefused, MainOK, InLoop, ctlVars
<1>3. TCPTypeOK'
  BY <1>1, TCPStutterType DEF TypeOK, tcpVars
<1> QED
  BY <1>1, <1>2, <1>3 DEF TypeOK, NoDuplicateCommands, netVars, ctlVars, appVars

LEMMA FinishSendType ==
    ASSUME TypeOK, NoDuplicateCommands, NEW c \in Controllers, FinishSend(c)
    PROVE  TypeOK' /\ NoDuplicateCommands'
<1>1. TCPTypeOK'
  <2>1. main.mark \in Nat /\ 0 \in 0 .. SendWait + 1
    BY TransportAssumption DEF TypeOK, MainOK
  <2> QED
    BY <2>1 DEF TypeOK, TCPTypeOK, FinishSend, Stamp, connVars, busVars, tidVars, netVars
<1>2. /\ queue' \in [Controllers -> Seq(Command)]
      /\ incoming' \in [Controllers -> Seq(Entry)]
      /\ NoDuplicateCommands'
  <2>1. CASE main.place = 0
    <3>1. queue[c] \in Seq(Command) /\ queue[c] # <<>> /\ Distinct(queue[c])
      BY <2>1 DEF TypeOK, MainOK, FinishSend, NoDuplicateCommands, Distinct, InLoop
    <3> DEFINE p == [queue[c] EXCEPT ![1] = CountSend(queue[c][1])]
    <3>2. p \in Seq(Command) /\ Distinct(p)
      BY <3>1, CountDistinct
    <3>3. queue' = [queue EXCEPT ![c] = p] /\ incoming' = incoming
      BY <2>1 DEF FinishSend
    <3> HIDE DEF p
    <3> QED
      BY <3>2, <3>3, OneQueueType DEF TypeOK
  <2>2. CASE main.place # 0
    <3> DEFINE k == main.place
    <3>1. /\ incoming[c] \in Seq(Entry) /\ k \in 1 .. Len(incoming[c])
          /\ incoming[c][k] \in Entry
      <4>1. incoming[c] \in Seq(Entry) /\ k \in 1 .. Len(incoming[c])
        BY <2>2, LenProperties DEF TypeOK, MainOK, FinishSend, InLoop
      <4> QED
        BY <4>1, ElementOfSeq
    <3> DEFINE e == [incoming[c][k] EXCEPT !.cmd = CountSend(incoming[c][k].cmd)]
    <3>2. e \in Entry
      <4>1. incoming[c][k].cmd \in Command
        BY <3>1 DEF Entry
      <4>2. CountSend(incoming[c][k].cmd) \in Command
        BY <4>1, CountSendType
      <4> QED
        BY <3>1, <4>2 DEF Entry
    <3>3. incoming' = [incoming EXCEPT ![c] = [incoming[c] EXCEPT ![k] = e]]
      BY <2>2 DEF FinishSend
    <3> HIDE DEF e, k
    <3>4. [incoming[c] EXCEPT ![k] = e] \in Seq(Entry)
      BY <3>1, <3>2, ExceptSeq
    <3>5. incoming' \in [Controllers -> Seq(Entry)]
      BY <3>3, <3>4 DEF TypeOK
    <3> QED
      BY <2>2, <3>5 DEF TypeOK, FinishSend, NoDuplicateCommands
  <2> QED
    BY <2>1, <2>2
<1>3. cmdAge' \in [Controllers -> 0 .. Throttle + 1]
  <2>1. 0 \in 0 .. Throttle + 1
    BY ControllerAssumption
  <2> QED
    BY <2>1 DEF TypeOK, FinishSend
<1>4. MainOK'
  BY DEF FinishSend, MainOK, Idle, Handler, InLoop
<1> QED
  BY <1>1, <1>2, <1>3, <1>4 DEF TypeOK, FinishSend, netVars, appVars

\* The command that was chosen is there, wherever it is.
LEMMA ChosenType ==
    ASSUME TypeOK, main.at \in InLoop
    PROVE  /\ Chosen(main.who) \in Command
           /\ \A payload \in SentPayloads(main.who) :
                /\ payload \in Payload
                /\ [item |-> Chosen(main.who).item, payload |-> payload] \in Pdu
<1> DEFINE c == main.who
<1>1. c \in Controllers /\ queue[c] \in Seq(Command) /\ incoming[c] \in Seq(Entry)
  BY DEF TypeOK, MainOK, InLoop
<1>2. Chosen(c) \in Command
  <2>1. CASE main.place = 0
    <3>1. queue[c] # <<>>
      BY <2>1 DEF TypeOK, MainOK
    <3> QED
      BY <1>1, <2>1, <3>1, HeadTailProperties DEF Chosen
  <2>2. CASE main.place # 0
    <3>1. main.place \in 1 .. Len(incoming[c])
      BY <1>1, <2>2, LenProperties DEF TypeOK, MainOK
    <3>2. incoming[c][main.place] \in Entry
      BY <1>1, <3>1, ElementOfSeq
    <3> QED
      BY <2>2, <3>2 DEF Chosen, Entry
  <2> QED
    BY <2>1, <2>2
<1> HIDE DEF c
<1>3. \A payload \in SentPayloads(c) : payload = Chosen(c).payload \/ payload = Garbage
  BY DEF SentPayloads
<1>4. \A payload \in SentPayloads(c) : payload \in Payload
  BY <1>2, <1>3 DEF Command, Typed, Payload
<1>5. \A payload \in SentPayloads(c) : [item |-> Chosen(c).item, payload |-> payload] \in Pdu
  BY <1>2, <1>3, <1>4 DEF Command, Typed, Pdu
<1> QED
  BY <1>2, <1>4, <1>5 DEF c

LEMMA RawType ==
    ASSUME NEW r \in CustomRanges, NEW payload \in {CustomPayload[r], Garbage},
           NEW bytes \in Raw(payload), ~bytes.empty
    PROVE  bytes.tid \in Nat /\ bytes.head \in Nat
<1>1. CASE payload = NoValue
  BY <1>1 DEF Raw, NoBytes
<1>2. CASE payload # NoValue /\ payload = Garbage
  <2>1. bytes \in AnyBytes /\ bytes # NoBytes
    BY <1>2 DEF Raw, NoBytes
  <2>2. bytes \in [empty : {FALSE}, head : 0 .. 255, tid : 0 .. TidModulus - 1]
    BY <2>1 DEF AnyBytes
  <2>3. bytes.head \in 0 .. 255 /\ bytes.tid \in 0 .. TidModulus - 1
    BY <2>2
  <2> QED
    BY <2>3, TransportAssumption
<1>3. CASE payload # NoValue /\ payload # Garbage
  <2>1. bytes = RawBytes[CustomPayload[r]] /\ CustomPayload[r] # NoValue
    BY <1>3 DEF Raw
  <2>2. bytes \in [empty : {FALSE}, head : 0 .. 255, tid : Nat]
    BY <2>1, ControllerAssumption
  <2> QED
    BY <2>2
<1> QED
  BY <1>1, <1>2, <1>3

\* What a send writes.
SendCommandTypes ==
    /\ toServer' \in Seq(Request) /\ Len(toServer') <= Window
    /\ tid' \in 0 .. TidModulus - 1
    /\ expected' \in 0 .. TidModulus - 1
    /\ UNCHANGED fromServer
    /\ awaited' \in [Controllers -> Int]
    /\ \E mark \in Nat : Written(mark)

LEMMA SendCommandType ==
    ASSUME TypeOK, NoDuplicateCommands, NEW c \in Controllers, SendCommand(c)
    PROVE  TypeOK' /\ NoDuplicateCommands'
<1>1. PICK payload \in SentPayloads(c) :
         LET pdu == [item |-> Chosen(c).item, payload |-> payload] IN
         \/ /\ pdu.item \notin CustomRanges \cup Oversized
            /\ SendFrame(pdu)
            /\ awaited' = [awaited EXCEPT ![c] = tid]
            /\ Written(Unit[c])
         \/ /\ pdu.item \in CustomRanges
            /\ \E bytes \in Raw(payload) : SendRaw(bytes, pdu) /\ Written(bytes.head)
            /\ UNCHANGED awaited
  BY DEF SendCommand
<1> DEFINE pdu == [item |-> Chosen(c).item, payload |-> payload]
<1>2. /\ main.at \in InLoop /\ main.who = c
      /\ Chosen(c) \in Command /\ payload \in Payload /\ pdu \in Pdu
  BY ChosenType DEF SendCommand, InLoop
<1> HIDE DEF pdu
<1>3. /\ Len(toServer) \in Nat
      /\ \A f \in Request : /\ Append(toServer, f) \in Seq(Request)
                            /\ Len(Append(toServer, f)) = Len(toServer) + 1
  BY AppendProperties DEF TypeOK
<1>4. SendCommandTypes
  <2>1. CASE /\ SendFrame(pdu)
             /\ awaited' = [awaited EXCEPT ![c] = tid]
             /\ Written(Unit[c])
    <3>1. [tid |-> tid, pdu |-> pdu] \in Request
      BY <1>2, TransportAssumption DEF Request, TypeOK, TCPTypeOK
    <3>2. toServer' \in Seq(Request) /\ Len(toServer') <= Window
      BY <1>3, <2>1, <3>1, TransportAssumption
         DEF TypeOK, TCPTypeOK, SendFrame, SendMessage
    <3>3. tid + 1 \in Nat /\ TidModulus \in Nat \ {0} /\ tid \in Int
      BY TransportAssumption DEF TypeOK, TCPTypeOK
    <3>4. (tid + 1) % TidModulus \in 0 .. TidModulus - 1
      BY <3>3, ModRange
    <3>5. Unit[c] \in Nat
      BY ControllerAssumption
    <3> QED
      BY <2>1, <3>2, <3>3, <3>4, <3>5
         DEF SendCommandTypes, TypeOK, TCPTypeOK, SendFrame, SendMessage
  <2>2. ASSUME NEW bytes \in Raw(payload), SendRaw(bytes, pdu), Written(bytes.head),
               UNCHANGED awaited, pdu.item \in CustomRanges
        PROVE  /\ toServer' \in Seq(Request) /\ Len(toServer') <= Window
               /\ UNCHANGED <<tidVars, fromServer, awaited>>
               /\ bytes.head \in Nat
    <3>1. payload \in {CustomPayload[pdu.item], Garbage}
      <4>1. payload \in SentPayloads(c) /\ pdu.item = Chosen(c).item
        BY <1>1 DEF pdu
      <4> QED
        BY <1>2, <2>2, <4>1 DEF SentPayloads, Command, Typed
    <3>2. bytes.tid \in Nat /\ bytes.head \in Nat
      BY <2>2, <3>1, RawType DEF SendRaw
    <3>3. [tid |-> bytes.tid, pdu |-> pdu] \in Request
      BY <1>2, <3>2 DEF Request
    <3>4. toServer' \in Seq(Request) /\ Len(toServer') <= Window
      BY <1>3, <2>2, <3>3, TransportAssumption DEF TypeOK, TCPTypeOK, SendRaw
    <3> QED
      BY <2>2, <3>2, <3>4 DEF SendRaw
  <2>3. ASSUME NEW bytes \in Raw(payload), SendRaw(bytes, pdu), Written(bytes.head),
               UNCHANGED awaited, pdu.item \in CustomRanges
        PROVE  SendCommandTypes
    BY <2>2, <2>3 DEF SendCommandTypes, TypeOK, TCPTypeOK, tidVars
  <2> QED
    BY <1>1, <2>1, <2>3 DEF pdu
<1>5. TCPTypeOK'
  BY <1>4 DEF SendCommandTypes, TypeOK, TCPTypeOK, SendCommand, connVars, busVars
<1>6. MainOK'
  <2>1. PICK mark \in Nat : main' = [main EXCEPT !.at = "sent", !.mark = mark]
    BY <1>4 DEF SendCommandTypes, Written
  <2> QED
    BY <1>2, <2>1 DEF SendCommand, TypeOK, MainOK, InLoop
<1>7. NoDuplicateCommands'
  BY DEF SendCommand, NoDuplicateCommands
<1> QED
  BY <1>4, <1>5, <1>6, <1>7 DEF SendCommandTypes, TypeOK, SendCommand, appVars

LEMMA OnDataType ==
    ASSUME TypeOK, NoDuplicateCommands, OnData
    PROVE  TypeOK' /\ NoDuplicateCommands'
<1> DEFINE frame == Head(fromServer)
<1>1. fromServer \in Seq(Response) /\ fromServer # <<>>
  BY DEF TypeOK, OnData, Receive
<1>2. /\ frame \in Response
      /\ Tail(fromServer) \in Seq(Response)
      /\ Len(Tail(fromServer)) = Len(fromServer) - 1
      /\ Len(fromServer) \in Nat
  BY <1>1, HeadTailProperties, LenProperties
<1>3. TCPTypeOK' /\ toServer' \in Seq(Request) /\ fromServer' \in Seq(Response)
  <2>1. Len(fromServer') <= Window
    BY <1>2, TransportAssumption DEF OnData, Receive, TypeOK, TCPTypeOK
  <2> QED
    BY <1>2, <2>1 DEF OnData, Receive, TypeOK, TCPTypeOK, connVars, busVars, tidVars
<1>4. \A c \in Controllers :
         /\ queue'[c] = IF Takes(c) THEN Tail(queue[c]) ELSE queue[c]
         /\ incoming'[c] = IF Takes(c)
                             THEN Append(incoming[c], [cmd |-> Head(queue[c]),
                                                       data |-> frame.data])
                             ELSE incoming[c]
  BY DEF OnData
<1>5. /\ DOMAIN queue' = Controllers /\ DOMAIN incoming' = Controllers
      /\ queue' = [c \in Controllers |-> queue'[c]]
      /\ incoming' = [c \in Controllers |-> incoming'[c]]
  BY DEF OnData
<1>6. frame.data \in Data
  BY <1>2 DEF Response
<1>7. offline' \in [Controllers -> BOOLEAN]
  BY DEF OnData, TypeOK
<1>8. skip' \in [Ranges -> Nat]
  BY DEF OnData, SkipAfterData, TypeOK
<1>9. main' = IF main.at \in InLoop /\ main.place = 0 /\ Takes(main.who)
                THEN [main EXCEPT !.place = Len(incoming[main.who]) + 1] ELSE main
  BY DEF OnData, MainAfterData
<1>10. awaited' \in [Controllers -> Int]
  BY DEF OnData, AwaitedAfterData, Heard, TypeOK
<1> HIDE DEF frame
<1>11. \A c \in Controllers :
         /\ queue'[c] \in Seq(Command) /\ Distinct(queue'[c])
         /\ incoming'[c] \in Seq(Entry) /\ Len(incoming[c]) \in Nat
         /\ Len(incoming'[c]) = IF Takes(c) THEN Len(incoming[c]) + 1 ELSE Len(incoming[c])
         /\ ~Takes(c) => queue'[c] = queue[c]
  <2> SUFFICES ASSUME NEW c \in Controllers
               PROVE  /\ queue'[c] \in Seq(Command) /\ Distinct(queue'[c])
                      /\ incoming'[c] \in Seq(Entry) /\ Len(incoming[c]) \in Nat
                      /\ Len(incoming'[c]) = IF Takes(c) THEN Len(incoming[c]) + 1
                                             ELSE Len(incoming[c])
                      /\ ~Takes(c) => queue'[c] = queue[c]
    OBVIOUS
  <2>1. /\ queue[c] \in Seq(Command) /\ Distinct(queue[c])
        /\ incoming[c] \in Seq(Entry)
    BY DEF TypeOK, NoDuplicateCommands, Distinct
  <2>2. CASE Takes(c)
    <3>1. queue[c] # <<>>
      BY <2>2 DEF Takes
    <3>2. Head(queue[c]) \in Command
      BY <2>1, <3>1, HeadTailProperties
    <3> DEFINE entry == [cmd |-> Head(queue[c]), data |-> frame.data]
    <3>3. entry \in Entry
      BY <1>6, <3>2 DEF Entry
    <3>4. incoming'[c] = Append(incoming[c], entry)
      BY <1>4, <2>2
    <3>5. incoming'[c] \in Seq(Entry) /\ Len(incoming'[c]) = Len(incoming[c]) + 1
      BY <2>1, <3>3, <3>4, AppendProperties
    <3>6. queue'[c] \in Seq(Command) /\ Distinct(queue'[c])
      BY <1>4, <2>1, <2>2, <3>1, TailDistinct
    <3> QED
      BY <2>1, <2>2, <3>5, <3>6
  <2>3. CASE ~Takes(c)
    <3>1. queue'[c] = queue[c] /\ incoming'[c] = incoming[c]
      BY <1>4, <2>3
    <3>2. Len(incoming[c]) \in Nat
      BY <2>1, LenProperties
    <3> QED
      BY <2>1, <2>3, <3>1, <3>2
  <2> QED
    BY <2>2, <2>3
<1>12. NoDuplicateCommands'
  BY <1>11 DEF NoDuplicateCommands, Distinct
<1>13. MainOK'
  <2>1. CASE main.at \in InLoop /\ main.place = 0 /\ Takes(main.who)
    <3>1. main.who \in Controllers
      BY <2>1 DEF TypeOK, MainOK, InLoop
    <3>2. /\ Len(incoming[main.who]) + 1 = Len(incoming'[main.who])
          /\ Len(incoming[main.who]) + 1 \in Nat \ {0}
      BY <1>11, <2>1, <3>1
    <3> DEFINE k == Len(incoming[main.who]) + 1
    <3>3. main' = [main EXCEPT !.place = k] /\ k \in Nat \ {0} /\ k = Len(incoming'[main.who])
      BY <1>9, <2>1, <3>2
    <3> HIDE DEF k
    <3>4. main \in [at : {"idle", "update", "queued", "skipped"} \cup InLoop,
                   who : Controllers \cup {Nobody}, range : Nat, mark : Nat, place : Nat]
      BY DEF TypeOK, MainOK
    <3>5. /\ main' \in [at : {"idle", "update", "queued", "skipped"} \cup InLoop,
                      who : Controllers \cup {Nobody}, range : Nat, mark : Nat, place : Nat]
          /\ main'.at = main.at /\ main'.who = main.who /\ main'.place = k
      BY <3>3, <3>4
    <3>6. main'.place # 0 /\ main'.place <= Len(incoming'[main'.who])
      BY <3>3, <3>5
    <3> QED
      BY <2>1, <3>1, <3>5, <3>6 DEF MainOK, InLoop
  <2>2. CASE ~(main.at \in InLoop /\ main.place = 0 /\ Takes(main.who))
    <3>1. main' = main
      BY <1>9, <2>2
    <3>2. main.at \in InLoop => main.who \in Controllers
      BY DEF TypeOK, MainOK, InLoop
    <3>3. ASSUME main.at \in InLoop, main.place = 0
          PROVE  queue'[main.who] # <<>>
      BY <1>11, <2>2, <3>2, <3>3 DEF TypeOK, MainOK
    <3>4. ASSUME main.at \in InLoop, main.place # 0
          PROVE  main.place <= Len(incoming'[main.who])
      <4>1. main.place <= Len(incoming[main.who]) /\ main.place \in Nat
        BY <3>4 DEF TypeOK, MainOK
      <4> QED
        BY <1>11, <3>2, <3>4, <4>1
    <3> QED
      BY <3>1, <3>3, <3>4 DEF TypeOK, MainOK
  <2> QED
    BY <2>1, <2>2
<1>14. /\ queue' \in [Controllers -> Seq(Command)]
       /\ incoming' \in [Controllers -> Seq(Entry)]
  BY <1>5, <1>11
<1> QED
  BY <1>3, <1>7, <1>8, <1>10, <1>12, <1>13, <1>14 DEF TypeOK, OnData, appVars

\* A step that leaves the controllers alone only has the transport to keep.
LEMMA ControllersStutterType ==
    ASSUME TypeOK, NoDuplicateCommands, UNCHANGED <<ctlVars, main, published>>
    PROVE  /\ NoDuplicateCommands'
           /\ (/\ TCPTypeOK'
               /\ toServer' \in Seq(Request)
               /\ fromServer' \in Seq(Response)
               /\ device' \in [Numbers -> Values \cup {Garbage}]) => TypeOK'
  BY DEF TypeOK, MainOK, NoDuplicateCommands, ctlVars

LEMMA ClientCallbackType ==
    ASSUME TypeOK, NoDuplicateCommands, ClientCallback
    PROVE  TypeOK' /\ NoDuplicateCommands'
<1>1. TCPTypeOK' /\ toServer' \in Seq(Request) /\ fromServer' \in Seq(Response)
  <2>1. CASE OnConnect
    BY <2>1 DEF OnConnect, TypeOK, TCPTypeOK, busVars, tidVars, netVars
  <2>2. CASE LoseFrames /\ (OnDisconnect \/ OnError)
    <3>1. /\ toServer' = <<>> /\ fromServer' = <<>>
          /\ <<>> \in Seq(Request) /\ <<>> \in Seq(Response)
      BY <2>2, EmptySeq DEF LoseFrames
    <3>2. Len(<<>>) = 0
      OBVIOUS
    <3>3. Len(toServer') <= Window /\ Len(fromServer') <= Window
      BY <3>1, <3>2, TransportAssumption
    <3> QED
      BY <2>2, <3>1, <3>3 DEF OnDisconnect, OnError, TypeOK, TCPTypeOK, busVars, tidVars
  <2> QED
    BY <2>1, <2>2 DEF ClientCallback, OnDisconnect, OnError
<1> QED
  BY <1>1, ControllersStutterType DEF ClientCallback, appVars, TypeOK

\* What the server puts back, and takes.
LEMMA ReplyType ==
    ASSUME TypeOK, NEW replies, replies \in Seq(Response), Reply(replies)
    PROVE  TCPTypeOK' /\ toServer' \in Seq(Request) /\ fromServer' \in Seq(Response)
<1>1. /\ toServer' \in Seq(Request)
      /\ Len(toServer') = Len(toServer) - 1
      /\ Len(toServer) \in Nat
  BY HeadTailProperties, LenProperties DEF TypeOK, Reply
<1>2. /\ fromServer' \in Seq(Response)
      /\ Len(fromServer') = Len(fromServer) + Len(replies)
  BY ConcatProperties DEF TypeOK, Reply
<1>3. Len(toServer') <= Window /\ Len(fromServer') <= Window
  BY <1>1, <1>2, TransportAssumption DEF TypeOK, TCPTypeOK, Reply
<1> QED
  BY <1>1, <1>2, <1>3 DEF TypeOK, TCPTypeOK, Reply, connVars, busVars, tidVars

LEMMA AnswerType ==
    ASSUME NEW request \in Request, NEW regs \in [Numbers -> Values \cup {Garbage}]
    PROVE  /\ Answer(request, regs) \in Response
           /\ [Answer(request, regs) EXCEPT !.exception = TRUE] \in Response
<1>1. request.pdu \in Pdu /\ request.tid \in Nat
  BY DEF Request
<1>2. [of |-> request.pdu, regs |-> regs] \in Data
  BY <1>1 DEF Data
<1>3. /\ (IF request.pdu.item \in Numbers
            THEN AddressHigh[request.pdu.item] ELSE 2) \in Nat
      /\ (IF request.pdu.item \in Numbers THEN 3 ELSE 2) \in Nat
  <2>1. \A n \in Numbers : AddressHigh[n] \in 0 .. 255
    BY ControllerAssumption
  <2> QED
    BY <2>1
<1> DEFINE count == IF request.pdu.item \in Numbers
                      THEN AddressHigh[request.pdu.item] ELSE 2
           room == IF request.pdu.item \in Numbers THEN 3 ELSE 2
           data == [of |-> request.pdu, regs |-> regs]
<1>4. Answer(request, regs) = [tid |-> request.tid, exception |-> FALSE,
                               count |-> count, room |-> room, data |-> data]
  BY DEF Answer
<1> HIDE DEF count, room, data
<1>5. Answer(request, regs) \in Response
  BY <1>1, <1>2, <1>3, <1>4 DEF Response, count, room, data
<1> QED
  BY <1>5 DEF Response

LEMMA ServerType ==
    ASSUME TypeOK, NoDuplicateCommands,
           ServerAnswers \/ ServerRepeats \/ ServerRefuses \/ ServerIgnores
    PROVE  TypeOK' /\ NoDuplicateCommands'
<1> DEFINE request == Head(toServer)
<1>1. toServer # <<>>
  BY DEF ServerAnswers, ServerRepeats, ServerRefuses, ServerIgnores, Reply
<1>2. request \in Request
  BY <1>1, HeadTailProperties DEF TypeOK
<1>3. /\ Executed(request.pdu) \in [Numbers -> Values \cup {Garbage}]
      /\ device \in [Numbers -> Values \cup {Garbage}]
  BY <1>2 DEF Executed, TypeOK, Request, Pdu
<1>4. CASE ServerAnswers
  <2>1. Answer(request, device') \in Response /\ device' \in [Numbers -> Values \cup {Garbage}]
    BY <1>2, <1>3, <1>4, AnswerType DEF ServerAnswers
  <2>2. <<Answer(request, device')>> \in Seq(Response)
    BY <2>1
  <2>3. Reply(<<Answer(request, device')>>)
    BY <1>4 DEF ServerAnswers
  <2>4. TCPTypeOK' /\ toServer' \in Seq(Request) /\ fromServer' \in Seq(Response)
    BY <2>2, <2>3, ReplyType
  <2> QED
    BY <1>4, <2>1, <2>4, ControllersStutterType DEF ServerAnswers
<1>5. CASE ServerRefuses
  <2> DEFINE reply == [Answer(request, device) EXCEPT !.exception = TRUE]
  <2>1. reply \in Response
    BY <1>2, <1>3, AnswerType
  <2>2. Reply(<<reply>>)
    BY <1>5 DEF ServerRefuses
  <2> HIDE DEF reply
  <2>3. <<reply>> \in Seq(Response)
    BY <2>1
  <2>4. TCPTypeOK' /\ toServer' \in Seq(Request) /\ fromServer' \in Seq(Response)
    BY <2>2, <2>3, ReplyType
  <2> QED
    BY <1>3, <1>5, <2>4, ControllersStutterType DEF ServerRefuses, appVars
<1>6. CASE ServerIgnores
  <2>1. <<>> \in Seq(Response)
    BY EmptySeq
  <2>2. Reply(<<>>)
    BY <1>6 DEF ServerIgnores
  <2>3. TCPTypeOK' /\ toServer' \in Seq(Request) /\ fromServer' \in Seq(Response)
    BY <2>1, <2>2, ReplyType
  <2> QED
    BY <1>3, <1>6, <2>3, ControllersStutterType DEF ServerIgnores, appVars
<1>7. CASE ServerRepeats
  <2> DEFINE reply == Answer(request, device')
  <2>1. reply \in Response /\ device' \in [Numbers -> Values \cup {Garbage}]
    BY <1>2, <1>3, <1>7, AnswerType DEF ServerRepeats
  <2>2. fromServer' = Append(fromServer, reply) /\ Len(fromServer) < Window
    BY <1>7 DEF ServerRepeats
  <2> HIDE DEF reply
  <2>3. fromServer' \in Seq(Response) /\ Len(fromServer') = Len(fromServer) + 1
    BY <2>1, <2>2, AppendProperties DEF TypeOK
  <2>4. Len(fromServer') <= Window
    BY <2>2, <2>3, TransportAssumption, LenProperties DEF TypeOK
  <2>5. TCPTypeOK' /\ toServer' \in Seq(Request)
    BY <1>7, <2>4 DEF ServerRepeats, TypeOK, TCPTypeOK, connVars, busVars, tidVars
  <2> QED
    BY <1>7, <2>1, <2>3, <2>5, ControllersStutterType DEF ServerRepeats
<1> QED
  BY <1>4, <1>5, <1>6, <1>7

LEMMA TransportType ==
    ASSUME TypeOK, NoDuplicateCommands, Transport
    PROVE  TypeOK' /\ NoDuplicateCommands'
<1>1. 0 \in 0 .. ReconnectDelay + 1
  BY TransportAssumption
<1>2. TCPTypeOK' /\ toServer' \in Seq(Request) /\ fromServer' \in Seq(Response)
  BY <1>1 DEF Transport, ModbusLoop, Connect, TypeOK, TCPTypeOK, tidVars, netVars
<1> QED
  BY <1>2, ControllersStutterType DEF Transport, appVars, TypeOK

LEMMA OlderType ==
    ASSUME NEW limit \in Nat, NEW age \in 0 .. limit + 1
    PROVE  Older(age, limit) \in 0 .. limit + 1 /\ Older(age, limit) >= age
  BY DEF Older

LEMMA TimePassesType ==
    ASSUME TypeOK, NoDuplicateCommands, TimePasses
    PROVE  TypeOK' /\ NoDuplicateCommands'
<1>1. /\ attemptAge' \in 0 .. ReconnectDelay + 1
      /\ sendAge' \in 0 .. SendWait + 1
  BY OlderType, TransportAssumption DEF TimePasses, TCPTick, TypeOK, TCPTypeOK
<1>2. cmdAge' \in [Controllers -> 0 .. Throttle + 1]
  BY OlderType, ControllerAssumption DEF TimePasses, TypeOK
<1>3. TCPTypeOK'
  BY <1>1 DEF TimePasses, TypeOK, TCPTypeOK, tidVars, netVars
<1> QED
  BY <1>2, <1>3 DEF TimePasses, TypeOK, MainOK, NoDuplicateCommands, netVars, appVars

LEMMA RestartType ==
    ASSUME TypeOK, Restart
    PROVE  TypeOK' /\ NoDuplicateCommands'
<1>1. 0 \in 0 .. ReconnectDelay + 1 /\ 0 \in 0 .. SendWait + 1 /\ 0 \in 0 .. TidModulus - 1
  BY TransportAssumption
<1>2. 0 \in 0 .. Throttle + 1
  BY ControllerAssumption
<1>3. /\ <<>> \in Seq(Request) /\ <<>> \in Seq(Response)
      /\ <<>> \in Seq(Command) /\ <<>> \in Seq(Entry)
      /\ Len(<<>>) = 0
  BY EmptySeq
<1>4. TCPTypeOK' /\ toServer' \in Seq(Request) /\ fromServer' \in Seq(Response)
  <2>1. Len(toServer') <= Window /\ Len(fromServer') <= Window
    BY <1>3, TransportAssumption DEF Restart, LoseFrames
  <2> QED
    BY <1>1, <1>3, <2>1 DEF Restart, LoseFrames, TCPTypeOK
<1>5. /\ queue' \in [Controllers -> Seq(Command)]
      /\ incoming' \in [Controllers -> Seq(Entry)]
      /\ awaited' \in [Controllers -> Int]
  BY <1>3 DEF Restart, Heard
<1>6. NoDuplicateCommands'
  BY <1>3 DEF Restart, NoDuplicateCommands
<1>7. MainOK'
  BY DEF Restart, MainOK, Idle, Handler, InLoop
<1> QED
  BY <1>2, <1>4, <1>5, <1>6, <1>7 DEF Restart, TypeOK

LEMMA NextType == TypeOK /\ NoDuplicateCommands /\ [Next]_vars
                    => TypeOK' /\ NoDuplicateCommands'
<1> SUFFICES ASSUME TypeOK, NoDuplicateCommands, [Next]_vars
             PROVE  TypeOK' /\ NoDuplicateCommands'
  OBVIOUS
<1>1. ASSUME NEW c \in Controllers, StartUpdate(c) \/ Loop(c) \/ Continue(c)
      PROVE  TypeOK' /\ NoDuplicateCommands'
  <2>1. CASE StartUpdate(c)
    BY <2>1, StartUpdateType
  <2>2. CASE UpdateRange(c)
    BY <2>2, UpdateRangeType
  <2>3. CASE SetCounter(c)
    BY <2>3, SetCounterType
  <2>4. CASE ProcessData(c)
    BY <2>4, ProcessDataType
  <2>5. CASE ChooseCommand(c) \/ CheckRetries(c)
    BY <2>5, ChooseType
  <2>6. CASE SetOffline(c)
    BY <2>6, SetOfflineType
  <2>7. CASE DropCommand(c)
    BY <2>7, DropCommandType
  <2>8. CASE SendCommand(c)
    BY <2>8, SendCommandType
  <2>9. CASE SendRefused(c)
    BY <2>9, SendRefusedType
  <2>10. CASE FinishSend(c)
    BY <2>10, FinishSendType
  <2> QED
    BY <1>1, <2>1, <2>2, <2>3, <2>4, <2>5, <2>6, <2>7, <2>8, <2>9, <2>10 DEF Loop, Continue
<1>2. ASSUME NEW n \in Numbers, NEW v \in Values, NumberControl(n, v)
      PROVE  TypeOK' /\ NoDuplicateCommands'
  BY <1>2, NumberControlType
<1>3. CASE UNCHANGED vars
  BY <1>3, TCPStutterType, ControllersStutterType
     DEF vars, TypeOK, tcpVars, netVars, appVars
<1> QED
  BY <1>1, <1>2, <1>3, OnDataType, RestartType, ClientCallbackType, ServerType,
     TransportType, TimePassesType DEF Next

\* Every variable keeps its type, and a handler that has begun finds the
\* command it works on, whatever callbacks come in between (MainOK).
THEOREM TypeCorrect == Spec => []TypeOK
<1>1. Spec => [](TypeOK /\ NoDuplicateCommands)
  BY InitType, NextType, PTL DEF Spec
<1> QED
  BY <1>1, PTL

\* However often update() runs, no command of a queue is_equal() to one behind it
\* unless duplicates are allowed: neither a new command nor a payload that is
\* replaced makes one (queue_command(), modbustcp_controller.cpp 261-277, and
\* is_equal(), 657-664).
THEOREM NoDuplicates == Spec => []NoDuplicateCommands
<1>1. Spec => [](TypeOK /\ NoDuplicateCommands)
  BY InitType, NextType, PTL DEF Spec
<1> QED
  BY <1>1, PTL

-----------------------------------------------------------------------------
(* The queue is served in order.  The invariant is inductive once it says   *)
(* what send_next_command_() has found out about the front of the queue.   *)

InOrder(q) == \A i \in 1 .. Len(q) :
                 /\ i > 1 => q[i].sent = 0
                 /\ q[i].sent <= MaxRetries + 1

\* The command that was chosen, as long as it is in front of the queue, was sent
\* as often as the branch that is under way says; once a callback has taken it,
\* which needs one that interrupts, the command in front has not been sent.
Unsent(q) == q # <<>> => q[1].sent = 0

ChosenInv ==
    main.at \in InLoop =>
      IF main.place = 0
        THEN /\ main.at \in {"retry", "sent", "unsent"} => ShouldRetry(queue[main.who][1])
             /\ main.at \in {"giveup", "drop"} => ~ShouldRetry(queue[main.who][1])
        ELSE Preemptive /\ Unsent(queue[main.who])

OrderInv == OnlyFrontInFlight /\ ChosenInv

\* All that a step does to the queue of one controller.
QueueStep(c) ==
    \/ queue'[c] = queue[c]
    \/ queue'[c] = <<>>
    \/ queue[c] # <<>> /\ queue'[c] = Tail(queue[c])
    \/ \E command \in Command : /\ command.sent = 0
                                /\ queue'[c] = QueueCommand(queue[c], command)
    \/ /\ queue[c] # <<>>
       /\ queue'[c] = [queue[c] EXCEPT ![1] = CountSend(queue[c][1])]
       /\ ShouldRetry(queue[c][1])

\* Taking the front: the next command has not been sent yet.
LEMMA TailInOrder ==
    ASSUME NEW q \in Seq(Command), q # <<>>, InOrder(q)
    PROVE  InOrder(Tail(q)) /\ Unsent(Tail(q))
<1>1. /\ Len(Tail(q)) = Len(q) - 1
      /\ Len(q) \in Nat
      /\ \A i \in 1 .. Len(Tail(q)) : Tail(q)[i] = q[i + 1]
  BY HeadTailProperties
<1>2. \A i \in 1 .. Len(Tail(q)) : Tail(q)[i].sent = 0
  BY <1>1 DEF InOrder
<1>3. Tail(q) \in Seq(Command) /\ (Tail(q) = <<>> <=> Len(Tail(q)) = 0)
  BY HeadTailProperties, EmptySeq
<1> QED
  BY <1>1, <1>2, <1>3, ControllerAssumption DEF InOrder, Unsent

\* Counting a send of a front that was allowed one.
LEMMA CountInOrder ==
    ASSUME NEW q \in Seq(Command), q # <<>>, InOrder(q), ShouldRetry(q[1])
    PROVE  InOrder([q EXCEPT ![1] = CountSend(q[1])])
<1> DEFINE x == CountSend(q[1])
           p == [q EXCEPT ![1] = x]
<1>1. 1 \in 1 .. Len(q) /\ Len(q) \in Nat
  BY EmptySeq
<1>2. q[1] \in Command
  BY <1>1, ElementOfSeq
<1>3. x \in Command /\ x.sent = (q[1].sent + 1) % SendCountModulus
  BY <1>2, CountSendType
<1>4. q[1].sent \in Nat /\ q[1].sent <= MaxRetries /\ q[1].sent < SendCountModulus
  BY <1>2, ControllerAssumption DEF ShouldRetry, Command, Typed
<1>5. \A a \in Nat, m \in Nat \ {0} : a < m => (a + 1) % m <= a + 1
  OBVIOUS
<1>6. x.sent <= MaxRetries + 1
  <2>1. (q[1].sent + 1) % SendCountModulus <= q[1].sent + 1
    BY <1>4, <1>5, ControllerAssumption
  <2> HIDE DEF x
  <2> DEFINE k == (q[1].sent + 1) % SendCountModulus
  <2>2. k \in 0 .. SendCountModulus - 1
    <3>1. q[1].sent + 1 \in Nat /\ SendCountModulus \in Nat \ {0}
      BY <1>4, ControllerAssumption
    <3> QED
      BY <3>1, ModRange
  <2> HIDE DEF k
  <2>3. k <= q[1].sent + 1 /\ x.sent = k
    BY <1>3, <2>1 DEF k
  <2> QED
    BY <1>4, <2>2, <2>3, ControllerAssumption
<1> HIDE DEF x
<1>7. /\ Len(p) = Len(q)
      /\ \A i \in 1 .. Len(q) : p[i] = IF i = 1 THEN x ELSE q[i]
  BY <1>1, <1>3, PatchType
<1> HIDE DEF p
<1>8. InOrder(p)
  BY <1>1, <1>6, <1>7 DEF InOrder
<1> QED
  BY <1>8 DEF p, x

\* A new command goes to the back, with no send counted.
LEMMA QueueCommandInOrder ==
    ASSUME NEW q \in Seq(Command), InOrder(q),
           NEW command \in Command, command.sent = 0
    PROVE  InOrder(QueueCommand(q, command))
<1> DEFINE p == QueueCommand(q, command)
<1>1. /\ p \in Seq(Command)
      /\ \A i \in 1 .. Len(q) : p[i].sent = q[i].sent
      /\ \/ Len(p) = Len(q)
         \/ Len(p) = Len(q) + 1 /\ p[Len(q) + 1] = command
  BY QueueCommandType
<1>2. Len(q) \in Nat
  BY EmptySeq
<1> HIDE DEF p
<1>3. InOrder(p)
  BY <1>1, <1>2, ControllerAssumption DEF InOrder
<1> QED
  BY <1>3 DEF p

LEMMA QueueSteps ==
    ASSUME TypeOK, ChosenInv, [Next]_vars, NEW c \in Controllers
    PROVE  QueueStep(c)
<1>1. ASSUME NEW d \in Controllers, UpdateRange(d) PROVE QueueStep(c)
  <2> DEFINE r == RangeList[d][main.range]
  <2>1. ReadCommand(r) \in Command /\ ReadCommand(r).sent = 0
    BY <1>1, RangeInRanges, NewCommandType DEF TypeOK, MainOK, UpdateRange
  <2>2. CASE queue' = [queue EXCEPT ![d] = QueueCommand(@, ReadCommand(r))]
    BY <2>1, <2>2 DEF QueueStep, TypeOK
  <2>3. CASE queue' = queue
    BY <2>3 DEF QueueStep
  <2> QED
    BY <1>1, <2>2, <2>3 DEF UpdateRange
<1>2. ASSUME NEW n \in Numbers, NEW v \in Values, NumberControl(n, v)
      PROVE  QueueStep(c)
  <2>1. WriteCommand(n, v) \in Command /\ WriteCommand(n, v).sent = 0
    BY NewCommandType
  <2>2. queue' = [queue EXCEPT ![Home[n]] = QueueCommand(@, WriteCommand(n, v))]
    BY <1>2 DEF NumberControl
  <2> QED
    BY <2>1, <2>2 DEF QueueStep, TypeOK
<1>3. ASSUME NEW d \in Controllers, DropCommand(d) PROVE QueueStep(c)
  BY <1>3 DEF DropCommand, QueueStep, TypeOK
<1>4. ASSUME NEW d \in Controllers, FinishSend(d) PROVE QueueStep(c)
  <2>1. CASE main.place = 0
    <3>1. queue[d] # <<>> /\ ShouldRetry(queue[d][1])
      BY <1>4, <2>1 DEF FinishSend, TypeOK, MainOK, InLoop, ChosenInv
    <3>2. queue' = [queue EXCEPT ![d] = [queue[d] EXCEPT ![1] = CountSend(queue[d][1])]]
      BY <1>4, <2>1 DEF FinishSend
    <3> QED
      BY <3>1, <3>2 DEF QueueStep, TypeOK
  <2>2. CASE main.place # 0
    BY <1>4, <2>2 DEF FinishSend, QueueStep
  <2> QED
    BY <2>1, <2>2
<1>5. CASE OnData
  BY <1>5 DEF OnData, Takes, QueueStep
<1>6. CASE UNCHANGED queue
  BY <1>6 DEF QueueStep
<1>7. CASE Restart
  BY <1>7 DEF Restart, QueueStep
<1> QED
  BY <1>1, <1>2, <1>3, <1>4, <1>5, <1>6, <1>7
     DEF Next, Loop, Continue, vars, ctlVars, StartUpdate, SetCounter, ProcessData,
         ChooseCommand, CheckRetries, SetOffline, SendCommand, SendRefused,
         ClientCallback, ServerAnswers, ServerRepeats, ServerRefuses, ServerIgnores,
         Transport, TimePasses

LEMMA InitOrder == Init => OrderInv
  BY DEF Init, OrderInv, OnlyFrontInFlight, ChosenInv, Idle, Handler, InLoop

\* The steps of send_next_command_() before the command is counted or dropped.
LEMMA ChosenSteps ==
    ASSUME TypeOK, ChosenInv, NEW c \in Controllers,
           \/ ChooseCommand(c) \/ CheckRetries(c) \/ SetOffline(c)
           \/ SendCommand(c) \/ SendRefused(c)
    PROVE  ChosenInv'
<1>1. queue' = queue
  BY DEF ChooseCommand, CheckRetries, SetOffline, SendCommand, SendRefused, ctlVars
<1>2. CASE ChooseCommand(c)
  BY <1>2 DEF ChooseCommand, Sending, Handler, ChosenInv
<1>3. CASE CheckRetries(c)
  <2>1. /\ queue[c] # <<>> /\ Head(queue[c]) = queue[c][1]
        /\ main' = Sending(IF ShouldRetry(Head(queue[c])) THEN "retry" ELSE "giveup", c)
    BY <1>3 DEF CheckRetries, TypeOK
  <2>2. CASE ShouldRetry(queue[c][1])
    <3>1. main' = Sending("retry", c)
      BY <2>1, <2>2
    <3> QED
      BY <1>1, <2>2, <3>1 DEF Sending, Handler, ChosenInv, ShouldRetry
  <2>3. CASE ~ShouldRetry(queue[c][1])
    <3>1. main' = Sending("giveup", c)
      BY <2>1, <2>3
    <3> QED
      BY <1>1, <2>3, <3>1 DEF Sending, Handler, ChosenInv, ShouldRetry
  <2> QED
    BY <2>2, <2>3
<1>4. CASE SetOffline(c)
  <2>1. main.at = "giveup" /\ main' = [main EXCEPT !.at = "drop"]
    BY <1>4 DEF SetOffline
  <2> QED
    BY <1>1, <2>1 DEF TypeOK, MainOK, InLoop, ChosenInv, ShouldRetry, Unsent
<1>5. CASE SendCommand(c) \/ SendRefused(c)
  <2>1. /\ main.at = "retry" /\ main'.at \in {"sent", "unsent"}
        /\ main'.who = main.who /\ main'.place = main.place
    BY <1>5 DEF SendCommand, SendRefused, Written, TypeOK, MainOK
  <2> QED
    BY <1>1, <2>1 DEF InLoop, ChosenInv, ShouldRetry, Unsent
<1> QED
  BY <1>2, <1>3, <1>4, <1>5

LEMMA NextOrder ==
    ASSUME TypeOK, NoDuplicateCommands, OrderInv, [Next]_vars
    PROVE  OrderInv'
<1>1. \A c \in Controllers :
         QueueStep(c) /\ queue[c] \in Seq(Command) /\ InOrder(queue[c])
  BY QueueSteps DEF TypeOK, OrderInv, OnlyFrontInFlight, InOrder
<1>2. \A c \in Controllers : InOrder(queue'[c])
  <2> SUFFICES ASSUME NEW c \in Controllers PROVE InOrder(queue'[c])
    OBVIOUS
  <2>1. CASE queue'[c] = queue[c]
    BY <1>1, <2>1
  <2>2. CASE queue[c] # <<>> /\ queue'[c] = Tail(queue[c])
    BY <1>1, <2>2, TailInOrder
  <2>3. ASSUME NEW command \in Command, command.sent = 0,
               queue'[c] = QueueCommand(queue[c], command)
        PROVE  InOrder(queue'[c])
    BY <1>1, <2>3, QueueCommandInOrder
  <2>4. CASE /\ queue[c] # <<>>
             /\ queue'[c] = [queue[c] EXCEPT ![1] = CountSend(queue[c][1])]
             /\ ShouldRetry(queue[c][1])
    BY <1>1, <2>4, CountInOrder
  <2>5. CASE queue'[c] = <<>>
    <3>1. Len(<<>>) = 0
      BY EmptySeq
    <3> QED
      BY <2>5, <3>1 DEF InOrder
  <2> QED
    BY <1>1, <2>1, <2>2, <2>3, <2>4, <2>5 DEF QueueStep
<1>3. OnlyFrontInFlight'
  BY <1>2 DEF InOrder, OnlyFrontInFlight
<1>4. ChosenInv'
  <2>1. ASSUME NEW c \in Controllers,
               \/ ChooseCommand(c) \/ CheckRetries(c) \/ SetOffline(c)
               \/ SendCommand(c) \/ SendRefused(c)
        PROVE  ChosenInv'
    BY <2>1, ChosenSteps DEF OrderInv
  <2>2. CASE OnData
    <3>1. main' = IF main.at \in InLoop /\ main.place = 0 /\ Takes(main.who)
                    THEN [main EXCEPT !.place = Len(incoming[main.who]) + 1] ELSE main
      BY <2>2 DEF OnData, MainAfterData
    <3>2. \A c \in Controllers : /\ ~Takes(c) => queue'[c] = queue[c]
                                 /\ Takes(c) => queue[c] # <<>> /\ queue'[c] = Tail(queue[c])
      BY <2>2 DEF OnData, Takes
    <3>3. \A c \in Controllers : Takes(c) => Unsent(queue'[c])
      BY <1>1, <3>2, TailInOrder
    <3>4. main.at \in InLoop => main.who \in Controllers
      BY DEF TypeOK, MainOK, InLoop
    <3>5. CASE main.at \in InLoop /\ Takes(main.who)
      <4>1. main'.place # 0 /\ main'.who = main.who /\ Unsent(queue'[main.who])
        <5>1. Len(incoming[main.who]) \in Nat
          BY <3>4, <3>5, LenProperties DEF TypeOK
        <5>2. Len(incoming[main.who]) + 1 # 0
          BY <5>1
        <5> DEFINE k == Len(incoming[main.who]) + 1
        <5>3. main' = main \/ main' = [main EXCEPT !.place = k]
          BY <3>1
        <5>4. main.place # 0 => main' = main
          BY <3>1
        <5>5. main.place = 0 => main' = [main EXCEPT !.place = k]
          BY <3>1, <3>5
        <5> HIDE DEF k
        <5>6. main'.place # 0 /\ main'.who = main.who
          BY <5>2, <5>3, <5>4, <5>5 DEF TypeOK, MainOK, k
        <5> QED
          BY <3>3, <3>4, <3>5, <5>6
      <4>2. Preemptive
        BY <2>2, <3>5 DEF OnData, MayCallBack, Idle, Handler, InLoop
      <4> QED
        BY <4>1, <4>2 DEF ChosenInv, Unsent
    <3>6. CASE main.at \in InLoop /\ ~Takes(main.who)
      <4>1. main' = main /\ queue'[main.who] = queue[main.who]
        BY <3>1, <3>2, <3>4, <3>6
      <4> QED
        BY <4>1 DEF ChosenInv, OrderInv, ShouldRetry, Unsent
    <3>7. CASE main.at \notin InLoop
      BY <3>1, <3>7 DEF ChosenInv
    <3> QED
      BY <3>5, <3>6, <3>7
  <2>3. CASE UNCHANGED <<queue, main>>
    BY <2>3 DEF ChosenInv, OrderInv, ShouldRetry, Unsent
  <2>4. CASE main'.at \notin InLoop
    BY <2>4 DEF ChosenInv
  <2>5. ASSUME NEW c \in Controllers,
               \/ StartUpdate(c) \/ UpdateRange(c) \/ SetCounter(c) \/ ProcessData(c)
               \/ DropCommand(c) \/ FinishSend(c)
        PROVE  main'.at \notin InLoop
    <3>1. CASE StartUpdate(c) \/ SetCounter(c) \/ DropCommand(c) \/ FinishSend(c)
      BY <3>1 DEF StartUpdate, SetCounter, DropCommand, FinishSend, Idle, Updating,
                  Handler, InLoop
    <3>2. CASE UpdateRange(c)
      <4>1. main'.at \in {"queued", "skipped"}
        BY <3>2 DEF UpdateRange, TypeOK, MainOK
      <4> QED
        BY <4>1 DEF InLoop
    <3>3. CASE ProcessData(c)
      BY <3>3 DEF ProcessData, Idle, Handler, InLoop
    <3> QED
      BY <2>5, <3>1, <3>2, <3>3
  <2>6. ASSUME NEW n \in Numbers, NEW v \in Values, NumberControl(n, v)
        PROVE  main'.at \notin InLoop
    BY <2>6 DEF NumberControl, Idle, Handler, InLoop
  <2>7. ASSUME Restart PROVE main'.at \notin InLoop
    BY <2>7 DEF Restart, Idle, Handler, InLoop
  <2> QED
    BY <2>1, <2>2, <2>3, <2>4, <2>5, <2>6, <2>7
       DEF Next, Loop, Continue, vars, ctlVars, ClientCallback, ServerAnswers,
           ServerRepeats, ServerRefuses, ServerIgnores, Transport, TimePasses
<1> QED
  BY <1>3, <1>4 DEF OrderInv

\* Only the front of a queue has ever been sent, and never more than
\* max_cmd_retries + 1 times (send_next_command_(), should_retry()).
THEOREM ServedInOrder == Spec => []OnlyFrontInFlight
<1> DEFINE Inv == TypeOK /\ NoDuplicateCommands /\ OrderInv
<1>1. Init => Inv
  BY InitType, InitOrder
<1>2. Inv /\ [Next]_vars => Inv'
  BY NextType, NextOrder
<1>3. Inv => OnlyFrontInFlight
  BY DEF OrderInv
<1> QED
  BY <1>1, <1>2, <1>3, PTL DEF Spec

-----------------------------------------------------------------------------
(***************************************************************************)
(* The controllers implement module CommandQueues, for every value of the  *)
(* constants for which send_count_ cannot wrap.  Each step of              *)
(* ModbusTCPController maps to a step of CommandQueues or to none.         *)
(***************************************************************************)

\* What CommandQueues sees of a command queue and of an incoming queue.
Waiting(q) == [i \in 1 .. Len(q) |-> q[i].item]
Tries(q) == IF q = <<>> THEN 0 ELSE q[1].sent
Answers(a) == [i \in 1 .. Len(a) |-> a[i].cmd.item]

View == [c \in Controllers |-> QueueOf(c)]

-----------------------------------------------------------------------------
(* Lemmas about the views of a queue.                                      *)

LEMMA WaitingType ==
    ASSUME NEW q \in Seq(Command)
    PROVE  Waiting(q) \in Seq(Items) /\ Len(Waiting(q)) = Len(q)
<1>1. Len(q) \in Nat /\ \A i \in 1 .. Len(q) : q[i].item \in Items
  <2>1. \A i \in 1 .. Len(q) : q[i] \in Command
    BY ElementOfSeq
  <2> QED
    BY <2>1 DEF Command, Typed
<1> QED
  BY <1>1 DEF Waiting

LEMMA AnswersType ==
    ASSUME NEW a \in Seq(Entry)
    PROVE  Answers(a) \in Seq(Items) /\ Len(Answers(a)) = Len(a)
<1>1. Len(a) \in Nat /\ \A i \in 1 .. Len(a) : a[i].cmd.item \in Items
  <2>1. \A i \in 1 .. Len(a) : a[i] \in Entry
    BY ElementOfSeq
  <2> QED
    BY <2>1 DEF Entry, Command, Typed
<1> QED
  BY <1>1 DEF Answers

\* Queues whose commands are about the same items, sent as often, look the same.
LEMMA SameWaiting ==
    ASSUME NEW q \in Seq(Command), NEW p \in Seq(Command), Len(p) = Len(q),
           \A i \in 1 .. Len(q) : p[i].item = q[i].item
    PROVE  Waiting(p) = Waiting(q)
  BY DEF Waiting

LEMMA AppendWaiting ==
    ASSUME NEW q \in Seq(Command), NEW x \in Command
    PROVE  Waiting(Append(q, x)) = Append(Waiting(q), x.item)
<1>1. /\ Waiting(q) \in Seq(Items) /\ Len(Waiting(q)) = Len(q)
      /\ x.item \in Items /\ Len(q) \in Nat
  BY WaitingType DEF Command, Typed
<1>2. /\ Append(q, x) \in Seq(Command)
      /\ Len(Append(q, x)) = Len(q) + 1
      /\ \A i \in 1 .. Len(q) : Append(q, x)[i] = q[i]
      /\ Append(q, x)[Len(q) + 1] = x
  BY AppendProperties
<1>3. /\ Append(Waiting(q), x.item) \in Seq(Items)
      /\ Len(Append(Waiting(q), x.item)) = Len(q) + 1
      /\ \A i \in 1 .. Len(q) : Append(Waiting(q), x.item)[i] = Waiting(q)[i]
      /\ Append(Waiting(q), x.item)[Len(q) + 1] = x.item
  BY <1>1, AppendProperties
<1>4. Waiting(Append(q, x)) \in Seq(Items) /\ Len(Waiting(Append(q, x))) = Len(q) + 1
  BY <1>2, WaitingType
<1>5. \A i \in 1 .. Len(q) + 1 : Waiting(Append(q, x))[i] = Append(Waiting(q), x.item)[i]
  BY <1>1, <1>2, <1>3 DEF Waiting
<1> QED
  BY <1>3, <1>4, <1>5, SeqEqual

LEMMA TailWaiting ==
    ASSUME NEW q \in Seq(Command), q # <<>>
    PROVE  /\ Waiting(Tail(q)) = Tail(Waiting(q))
           /\ Waiting(q) # <<>>
           /\ Head(Waiting(q)) = Head(q).item
<1>1. /\ Waiting(q) \in Seq(Items) /\ Len(Waiting(q)) = Len(q)
      /\ Len(q) \in Nat /\ Len(q) # 0
  BY WaitingType, EmptySeq
<1>2. /\ Tail(q) \in Seq(Command)
      /\ Len(Tail(q)) = Len(q) - 1
      /\ \A i \in 1 .. Len(Tail(q)) : Tail(q)[i] = q[i + 1]
  BY HeadTailProperties
<1>3. Waiting(q) # <<>>
  BY <1>1, EmptySeq
<1>4. /\ Tail(Waiting(q)) \in Seq(Items)
      /\ Len(Tail(Waiting(q))) = Len(q) - 1
      /\ \A i \in 1 .. Len(q) - 1 : Tail(Waiting(q))[i] = Waiting(q)[i + 1]
  BY <1>1, <1>3, HeadTailProperties
<1>5. Waiting(Tail(q)) \in Seq(Items) /\ Len(Waiting(Tail(q))) = Len(q) - 1
  BY <1>2, WaitingType
<1>6. \A i \in 1 .. Len(q) - 1 : Waiting(Tail(q))[i] = Tail(Waiting(q))[i]
  BY <1>1, <1>2, <1>4 DEF Waiting
<1>7. Waiting(Tail(q)) = Tail(Waiting(q))
  BY <1>4, <1>5, <1>6, SeqEqual
<1>8. Head(Waiting(q)) = Head(q).item
  BY <1>1 DEF Waiting
<1> QED
  BY <1>3, <1>7, <1>8

LEMMA AppendAnswers ==
    ASSUME NEW a \in Seq(Entry), NEW x \in Entry
    PROVE  Answers(Append(a, x)) = Append(Answers(a), x.cmd.item)
<1>1. /\ Answers(a) \in Seq(Items) /\ Len(Answers(a)) = Len(a)
      /\ x.cmd.item \in Items /\ Len(a) \in Nat
  BY AnswersType DEF Entry, Command, Typed
<1>2. /\ Append(a, x) \in Seq(Entry)
      /\ Len(Append(a, x)) = Len(a) + 1
      /\ \A i \in 1 .. Len(a) : Append(a, x)[i] = a[i]
      /\ Append(a, x)[Len(a) + 1] = x
  BY AppendProperties
<1>3. /\ Append(Answers(a), x.cmd.item) \in Seq(Items)
      /\ Len(Append(Answers(a), x.cmd.item)) = Len(a) + 1
      /\ \A i \in 1 .. Len(a) : Append(Answers(a), x.cmd.item)[i] = Answers(a)[i]
      /\ Append(Answers(a), x.cmd.item)[Len(a) + 1] = x.cmd.item
  BY <1>1, AppendProperties
<1>4. Answers(Append(a, x)) \in Seq(Items) /\ Len(Answers(Append(a, x))) = Len(a) + 1
  BY <1>2, AnswersType
<1>5. \A i \in 1 .. Len(a) + 1 :
         Answers(Append(a, x))[i] = Append(Answers(a), x.cmd.item)[i]
  BY <1>1, <1>2, <1>3 DEF Answers
<1> QED
  BY <1>3, <1>4, <1>5, SeqEqual

LEMMA TailAnswers ==
    ASSUME NEW a \in Seq(Entry), a # <<>>
    PROVE  Answers(Tail(a)) = Tail(Answers(a)) /\ Answers(a) # <<>>
<1>1. /\ Answers(a) \in Seq(Items) /\ Len(Answers(a)) = Len(a)
      /\ Len(a) \in Nat /\ Len(a) # 0
  BY AnswersType, EmptySeq
<1>2. /\ Tail(a) \in Seq(Entry)
      /\ Len(Tail(a)) = Len(a) - 1
      /\ \A i \in 1 .. Len(Tail(a)) : Tail(a)[i] = a[i + 1]
  BY HeadTailProperties
<1>3. Answers(a) # <<>>
  BY <1>1, EmptySeq
<1>4. /\ Tail(Answers(a)) \in Seq(Items)
      /\ Len(Tail(Answers(a))) = Len(a) - 1
      /\ \A i \in 1 .. Len(a) - 1 : Tail(Answers(a))[i] = Answers(a)[i + 1]
  BY <1>1, <1>3, HeadTailProperties
<1>5. Answers(Tail(a)) \in Seq(Items) /\ Len(Answers(Tail(a))) = Len(a) - 1
  BY <1>2, AnswersType
<1>6. \A i \in 1 .. Len(a) - 1 : Answers(Tail(a))[i] = Tail(Answers(a))[i]
  BY <1>1, <1>2, <1>4 DEF Answers
<1> QED
  BY <1>3, <1>4, <1>5, <1>6, SeqEqual

\* The next command has not been tried.
LEMMA TailTries ==
    ASSUME NEW q \in Seq(Command), q # <<>>, InOrder(q)
    PROVE  Tries(Tail(q)) = 0
  BY TailInOrder DEF Tries, Unsent

-----------------------------------------------------------------------------
(* The steps.                                                              *)

QueueInv == TypeOK /\ NoDuplicateCommands /\ OrderInv

LEMMA ViewParts ==
    /\ \A c \in Controllers : View[c] = [pending |-> Waiting(queue[c]),
                                         tries |-> Tries(queue[c]),
                                         answered |-> Answers(incoming[c])]
    /\ \A c \in Controllers : View'[c] = [pending |-> Waiting(queue'[c]),
                                          tries |-> Tries(queue'[c]),
                                          answered |-> Answers(incoming'[c])]
    /\ DOMAIN View = Controllers /\ DOMAIN View' = Controllers
    /\ View = [c \in Controllers |-> View[c]]
    /\ View' = [c \in Controllers |-> View'[c]]
  BY DEF View, QueueOf, Waiting, Tries, Answers

LEMMA InvParts ==
    ASSUME QueueInv, NEW c \in Controllers
    PROVE  /\ queue[c] \in Seq(Command) /\ incoming[c] \in Seq(Entry)
           /\ Distinct(queue[c]) /\ InOrder(queue[c])
  BY DEF QueueInv, TypeOK, NoDuplicateCommands, Distinct, OrderInv, OnlyFrontInFlight, InOrder

\* A step that touches neither queue is not seen.
LEMMA Unseen == UNCHANGED <<queue, incoming>> => UNCHANGED View
  BY DEF View, QueueOf

\* queue_command() submits the item, or only replaces the payload of a command
\* that is waiting.
LEMMA SubmitRefines ==
    ASSUME QueueInv, NEW c \in Controllers, NEW command \in Command, command.sent = 0,
           queue' = [queue EXCEPT ![c] = QueueCommand(@, command)],
           UNCHANGED incoming
    PROVE  Queues!Submit(c, command.item) \/ UNCHANGED View
<1> DEFINE q == queue[c]
           p == QueueCommand(q, command)
<1>1. q \in Seq(Command) /\ Len(q) \in Nat
  BY InvParts
<1>2. /\ p \in Seq(Command)
      /\ \A i \in 1 .. Len(q) : p[i].item = q[i].item /\ p[i].sent = q[i].sent
  BY <1>1, QueueCommandType
<1>3. /\ queue'[c] = p
      /\ \A d \in Controllers \ {c} : queue'[d] = queue[d]
  BY DEF QueueInv, TypeOK
<1>4. q # <<>> => 1 \in 1 .. Len(q)
  BY <1>1, EmptySeq
<1>5. CASE ~AllowDuplicates /\ \E i \in 1 .. Len(q) : IsEqual(q[i], command)
  <2>1. Len(p) = Len(q)
    <3> DEFINE first == CHOOSE i \in {k \in 1 .. Len(q) : IsEqual(q[k], command)} :
                          \A j \in {k \in 1 .. Len(q) : IsEqual(q[k], command)} : i <= j
    <3>1. p = [q EXCEPT ![first].payload = command.payload]
      BY <1>5 DEF QueueCommand
    <3> HIDE DEF first
    <3>2. DOMAIN p = 1 .. Len(q)
      BY <1>1, <3>1
    <3> HIDE DEF p
    <3> QED
      BY <1>1, <1>2, <3>2, LenProperties
  <2> HIDE DEF p, q
  <2>2. Waiting(p) = Waiting(q)
    BY <1>1, <1>2, <2>1, SameWaiting
  <2>3. Tries(p) = Tries(q)
    <3>1. p = <<>> <=> q = <<>>
      BY <1>1, <1>2, <2>1, EmptySeq
    <3> QED
      BY <1>2, <1>4, <3>1 DEF Tries
  <2>4. \A d \in Controllers : View'[d] = View[d]
    BY <1>3, <2>2, <2>3, ViewParts DEF q
  <2> QED
    BY <2>4, ViewParts
<1>6. CASE ~(~AllowDuplicates /\ \E i \in 1 .. Len(q) : IsEqual(q[i], command))
  <2>1. p = Append(q, command)
    BY <1>6 DEF QueueCommand
  <2>2. Waiting(p) = Append(Waiting(q), command.item)
    BY <1>1, <2>1, AppendWaiting
  <2>3. Tries(p) = Tries(q)
    <3>1. p # <<>>
      BY <1>1, <2>1, AppendProperties
    <3>2. q # <<>> => p[1] = q[1]
      BY <1>1, <1>4, <2>1, AppendProperties
    <3>3. q = <<>> => p[1].sent = 0
      <4>1. Len(<<>>) = 0
        BY EmptySeq
      <4>2. p[Len(q) + 1] = command
        BY <1>1, <2>1, AppendProperties
      <4> QED
        BY <4>1, <4>2
    <3> QED
      BY <3>1, <3>2, <3>3 DEF Tries
  <2>4. AllowDuplicates \/ \A i \in 1 .. Len(View[c].pending) :
                              View[c].pending[i] # command.item
    <3>1. \A i \in 1 .. Len(q) : q[i].item = command.item => IsEqual(q[i], command)
      <4>1. \A i \in 1 .. Len(q) : q[i] \in Command
        BY <1>1, ElementOfSeq
      <4> HIDE DEF q
      <4> QED
        BY <4>1 DEF IsEqual, Command, Typed
    <3>2. View[c].pending = Waiting(q) /\ Len(Waiting(q)) = Len(q)
      BY <1>1, ViewParts, WaitingType
    <3> QED
      BY <1>6, <3>1, <3>2 DEF Waiting
  <2> HIDE DEF p
  <2>5. /\ View'[c] = [pending |-> Append(View[c].pending, command.item),
                       tries |-> View[c].tries, answered |-> View[c].answered]
        /\ \A d \in Controllers \ {c} : View'[d] = View[d]
    <3>1. View[c] = [pending |-> Waiting(q), tries |-> Tries(q),
                     answered |-> Answers(incoming[c])]
      BY ViewParts
    <3>2. View'[c] = [pending |-> Waiting(p), tries |-> Tries(p),
                      answered |-> Answers(incoming[c])]
      BY <1>3, ViewParts
    <3>3. \A d \in Controllers \ {c} : View'[d] = View[d]
      BY <1>3, ViewParts
    <3> HIDE DEF q
    <3> QED
      BY <2>2, <2>3, <3>1, <3>2, <3>3
  <2>6. View' = [View EXCEPT ![c].pending = Append(@, command.item)]
    BY <2>5, ViewParts
  <2> QED
    BY <2>4, <2>6 DEF Queues!Submit, View
<1> QED
  BY <1>5, <1>6

\* While another send is allowed, counting it does not wrap.
LEMMA NoWrap ==
    ASSUME MaxRetries + 1 < SendCountModulus, NEW k \in Nat, k <= MaxRetries
    PROVE  k + 1 = (k + 1) % SendCountModulus
<1>1. \A a \in Nat, m \in Nat \ {0} : a < m => a % m = a
  OBVIOUS
<1>2. k + 1 \in Nat /\ k + 1 < SendCountModulus /\ SendCountModulus \in Nat \ {0}
  BY ControllerAssumption
<1> QED
  BY <1>1, <1>2

\* A send that is counted is a try.
LEMMA TryRefines ==
    ASSUME QueueInv, MaxRetries + 1 < SendCountModulus, NEW c \in Controllers,
           queue[c] # <<>>, ShouldRetry(queue[c][1]),
           queue' = [queue EXCEPT ![c] = [queue[c] EXCEPT ![1] = CountSend(queue[c][1])]],
           UNCHANGED incoming
    PROVE  Queues!Try(c)
<1> DEFINE q == queue[c]
           x == CountSend(q[1])
           p == [q EXCEPT ![1] = x]
<1>1. q \in Seq(Command) /\ Len(q) \in Nat /\ 1 \in 1 .. Len(q)
  BY InvParts, EmptySeq
<1>2. q[1] \in Command /\ q[1].sent \in Nat /\ q[1].sent <= MaxRetries
  <2>1. q[1] \in Command
    BY <1>1, ElementOfSeq
  <2> QED
    BY <2>1, ControllerAssumption DEF Command, Typed, ShouldRetry
<1>3. x \in Command /\ x.item = q[1].item /\ x.sent = q[1].sent + 1
  <2>1. x \in Command /\ x.item = q[1].item /\ x.sent = (q[1].sent + 1) % SendCountModulus
    BY <1>2, CountSendType
  <2>2. q[1].sent + 1 = (q[1].sent + 1) % SendCountModulus
    BY <1>2, NoWrap
  <2> HIDE DEF x
  <2> QED
    BY <2>1, <2>2
<1> HIDE DEF x
<1>4. /\ p \in Seq(Command) /\ Len(p) = Len(q)
      /\ \A i \in 1 .. Len(q) : p[i] = IF i = 1 THEN x ELSE q[i]
  BY <1>1, <1>3, PatchType
<1>5. queue'[c] = p /\ \A d \in Controllers \ {c} : queue'[d] = queue[d]
  BY DEF QueueInv, TypeOK, x
<1> HIDE DEF p
<1>6. Waiting(p) = Waiting(q)
  BY <1>1, <1>3, <1>4, SameWaiting
<1>7. Tries(q) = q[1].sent /\ Tries(p) = q[1].sent + 1
  <2>1. p # <<>>
    BY <1>1, <1>4
  <2> QED
    BY <1>1, <1>3, <1>4, <2>1 DEF Tries
<1>8. View[c] = [pending |-> Waiting(q), tries |-> q[1].sent,
                 answered |-> Answers(incoming[c])]
  BY <1>7, ViewParts
<1>9. View'[c] = [pending |-> Waiting(q), tries |-> q[1].sent + 1,
                  answered |-> Answers(incoming[c])]
  BY <1>5, <1>6, <1>7, ViewParts
<1>10. \A d \in Controllers \ {c} : View'[d] = View[d]
  BY <1>5, ViewParts
<1>11. /\ View[c].pending # <<>>
       /\ View[c].tries < MaxRetries + 1
  BY <1>1, <1>2, <1>8, TailWaiting, ControllerAssumption
<1>12. View' = [View EXCEPT ![c].tries = @ + 1]
  <2> HIDE DEF q
  <2> QED
    BY <1>8, <1>9, <1>10, ViewParts
<1> QED
  BY <1>11, <1>12 DEF Queues!Try, View

\* A command is dropped unanswered only after its last try, or in the place of
\* the one that a callback has taken meanwhile.
LEMMA DropRefines ==
    ASSUME QueueInv, NEW c \in Controllers, DropCommand(c)
    PROVE  Queues!GiveUp(c) \/ Queues!Lose(c)
<1> DEFINE q == queue[c]
<1>1. /\ q \in Seq(Command) /\ q # <<>> /\ InOrder(q) /\ incoming[c] \in Seq(Entry)
      /\ Len(q) \in Nat /\ 1 \in 1 .. Len(q) /\ q[1] \in Command
  <2>1. /\ q \in Seq(Command) /\ q # <<>> /\ InOrder(q) /\ incoming[c] \in Seq(Entry)
        /\ Len(q) \in Nat /\ 1 \in 1 .. Len(q)
    BY InvParts, EmptySeq DEF DropCommand
  <2> QED
    BY <2>1, ElementOfSeq
<1>2. IF main.place = 0 THEN ~ShouldRetry(q[1])
      ELSE /\ Preemptive /\ q[1].sent = 0
           /\ main.place \in Nat /\ main.place <= Len(incoming[c])
  BY <1>1 DEF QueueInv, OrderInv, ChosenInv, Unsent, DropCommand, InLoop, TypeOK, MainOK
<1>3. /\ queue'[c] = Tail(q) /\ incoming' = incoming
      /\ \A d \in Controllers \ {c} : queue'[d] = queue[d]
  BY DEF DropCommand, QueueInv, TypeOK
<1>4. View[c] = [pending |-> Waiting(q), tries |-> q[1].sent,
                 answered |-> Answers(incoming[c])]
  BY <1>1, ViewParts DEF Tries
<1>5. View'[c] = [pending |-> Tail(Waiting(q)), tries |-> 0,
                  answered |-> Answers(incoming[c])]
  BY <1>1, <1>3, ViewParts, TailTries, TailWaiting
<1>6. \A d \in Controllers \ {c} : View'[d] = View[d]
  BY <1>3, ViewParts
<1>7. View[c].pending # <<>> /\ View[c].tries = q[1].sent
  BY <1>1, <1>4, TailWaiting
<1>8. View'[c] = Queues!WithoutFront(View[c])
  <2> HIDE DEF q
  <2> QED
    BY <1>4, <1>5 DEF Queues!WithoutFront
<1>9. View' = [View EXCEPT ![c] = Queues!WithoutFront(@)]
  BY <1>6, <1>8, ViewParts
<1>10. CASE main.place = 0
  <2>1. q[1].sent = MaxRetries + 1
    <3>1. q[1].sent <= MaxRetries + 1 /\ ~(q[1].sent <= MaxRetries)
      BY <1>1, <1>2, <1>10 DEF InOrder, ShouldRetry
    <3>2. q[1].sent \in Nat
      BY <1>1, ControllerAssumption DEF Command, Typed
    <3> QED
      BY <3>1, <3>2, ControllerAssumption
  <2> QED
    BY <1>7, <1>9, <2>1 DEF Queues!GiveUp, View
<1>11. CASE main.place # 0
  <2>1. View[c].answered # <<>>
    <3>1. Answers(incoming[c]) \in Seq(Items) /\ Len(Answers(incoming[c])) # 0
      BY <1>1, <1>2, <1>11, AnswersType
    <3> QED
      BY <1>4, <3>1, EmptySeq
  <2> QED
    BY <1>2, <1>7, <1>9, <1>11, <2>1 DEF Queues!Lose, View
<1> QED
  BY <1>10, <1>11

\* A response that loop() has processed is gone, and no other is.
LEMMA ProcessRefines ==
    ASSUME QueueInv, NEW c \in Controllers, ProcessData(c)
    PROVE  Queues!Process(c)
<1> DEFINE a == incoming[c]
<1>1. a \in Seq(Entry) /\ a # <<>>
  BY InvParts DEF ProcessData
<1>2. /\ incoming'[c] = Tail(a) /\ queue' = queue
      /\ \A d \in Controllers \ {c} : incoming'[d] = incoming[d]
  BY DEF ProcessData, QueueInv, TypeOK
<1>3. View[c] = [pending |-> Waiting(queue[c]), tries |-> Tries(queue[c]),
                 answered |-> Answers(a)]
  BY ViewParts
<1>4. View'[c] = [pending |-> Waiting(queue[c]), tries |-> Tries(queue[c]),
                  answered |-> Tail(Answers(a))]
  BY <1>1, <1>2, ViewParts, TailAnswers
<1>5. \A d \in Controllers \ {c} : View'[d] = View[d]
  BY <1>2, ViewParts
<1>6. View[c].answered # <<>>
  BY <1>1, <1>3, TailAnswers
<1>7. View' = [View EXCEPT ![c].answered = Tail(@)]
  <2> HIDE DEF a
  <2> QED
    BY <1>3, <1>4, <1>5, ViewParts
<1> QED
  BY <1>6, <1>7 DEF Queues!Process, View

\* The send of a command that a callback has moved is counted where nobody sees it.
LEMMA MovedUnseen ==
    ASSUME QueueInv, NEW c \in Controllers, FinishSend(c), main.place # 0
    PROVE  UNCHANGED View
<1> DEFINE a == incoming[c]
           k == main.place
           x == [a[k] EXCEPT !.cmd = CountSend(a[k].cmd)]
           b == [a EXCEPT ![k] = x]
<1>1. a \in Seq(Entry) /\ Len(a) \in Nat /\ k \in 1 .. Len(a)
  <2>1. a \in Seq(Entry) /\ Len(a) \in Nat
    BY InvParts, LenProperties
  <2> QED
    BY <2>1 DEF QueueInv, TypeOK, MainOK, FinishSend, InLoop
<1>2. a[k] \in Entry /\ a[k].cmd \in Command
  <2>1. a[k] \in Entry
    BY <1>1, ElementOfSeq
  <2> QED
    BY <2>1 DEF Entry
<1>3. x \in Entry /\ x.cmd.item = a[k].cmd.item
  <2>1. /\ CountSend(a[k].cmd) \in Command
        /\ CountSend(a[k].cmd).item = a[k].cmd.item
    BY <1>2, CountSendType
  <2> QED
    BY <1>2, <2>1 DEF Entry
<1>4. incoming' = [incoming EXCEPT ![c] = b] /\ queue' = queue
  BY DEF FinishSend
<1> HIDE DEF x, k
<1>5. /\ b \in Seq(Entry) /\ Len(b) = Len(a)
      /\ \A i \in 1 .. Len(a) : b[i] = IF i = k THEN x ELSE a[i]
  BY <1>1, <1>3, ExceptSeq
<1> HIDE DEF b
<1>6. incoming'[c] = b /\ \A d \in Controllers \ {c} : incoming'[d] = incoming[d]
  BY <1>4 DEF QueueInv, TypeOK
<1>7. Answers(b) = Answers(a)
  BY <1>3, <1>5 DEF Answers
<1>8. \A d \in Controllers : View'[d] = View[d]
  <2> SUFFICES ASSUME NEW d \in Controllers PROVE View'[d] = View[d]
    OBVIOUS
  <2>1. Answers(incoming'[d]) = Answers(incoming[d])
    BY <1>6, <1>7
  <2> QED
    BY <1>4, <2>1, ViewParts
<1> QED
  BY <1>8, ViewParts

\* An accepted response answers the front of every queue.
LEMMA OnDataRefines ==
    ASSUME QueueInv, OnData
    PROVE  Queues!Respond \/ UNCHANGED View
<1>1. \A c \in Controllers :
         /\ queue'[c] = IF Takes(c) THEN Tail(queue[c]) ELSE queue[c]
         /\ incoming'[c] = IF Takes(c)
                             THEN Append(incoming[c], [cmd |-> Head(queue[c]),
                                                       data |-> Head(fromServer).data])
                             ELSE incoming[c]
  BY DEF OnData
<1>2. ASSUME NEW c \in Controllers, ~Takes(c) PROVE View'[c] = View[c]
  BY <1>1, <1>2, ViewParts
<1>3. ASSUME NEW c \in Controllers, Takes(c)
      PROVE  View[c].pending # <<>> /\ View'[c] = Queues!Answered(View[c])
  <2> DEFINE q == queue[c]
             a == incoming[c]
             x == [cmd |-> Head(q), data |-> Head(fromServer).data]
  <2>1. q \in Seq(Command) /\ InOrder(q) /\ a \in Seq(Entry) /\ q # <<>>
    BY <1>3, InvParts DEF Takes
  <2>2. x \in Entry /\ x.cmd.item = Head(q).item
    <3>1. Head(fromServer) \in Response
      BY HeadTailProperties DEF QueueInv, TypeOK, OnData, Receive
    <3>2. Head(q) \in Command
      BY <2>1, HeadTailProperties
    <3> QED
      BY <3>1, <3>2 DEF Response, Entry
  <2>3. queue'[c] = Tail(q) /\ incoming'[c] = Append(a, x)
    BY <1>1, <1>3
  <2> HIDE DEF x
  <2>4. Answers(Append(a, x)) = Append(Answers(a), Head(Waiting(q)))
    BY <2>1, <2>2, AppendAnswers, TailWaiting
  <2>5. /\ Waiting(Tail(q)) = Tail(Waiting(q)) /\ Waiting(q) # <<>>
        /\ Tries(Tail(q)) = 0
    BY <2>1, TailWaiting, TailTries
  <2>6. View[c] = [pending |-> Waiting(q), tries |-> Tries(q), answered |-> Answers(a)]
    BY ViewParts
  <2>7. View'[c] = [pending |-> Tail(Waiting(q)), tries |-> 0,
                    answered |-> Append(Answers(a), Head(Waiting(q)))]
    BY <2>3, <2>4, <2>5, ViewParts
  <2> HIDE DEF q, a
  <2> QED
    BY <2>5, <2>6, <2>7 DEF Queues!Answered
<1>4. CASE ~Accepted(Head(fromServer))
  <2>1. \A c \in Controllers : ~Takes(c)
    BY <1>4 DEF Takes
  <2> QED
    BY <1>2, <2>1, ViewParts
<1>5. CASE Accepted(Head(fromServer))
  <2>1. ASSUME NEW c \in Controllers
        PROVE  View'[c] = IF View[c].pending = <<>> THEN View[c] ELSE Queues!Answered(View[c])
    <3>1. CASE Takes(c)
      BY <1>3, <3>1
    <3>2. CASE ~Takes(c)
      <4>1. queue[c] = <<>>
        BY <1>5, <3>2 DEF Takes
      <4>2. Waiting(<<>>) \in Seq(Items) /\ Len(Waiting(<<>>)) = 0
        BY EmptySeq, WaitingType
      <4>3. View[c].pending = <<>>
        BY <4>1, <4>2, EmptySeq, ViewParts
      <4> QED
        BY <1>2, <3>2, <4>3
    <3> QED
      BY <3>1, <3>2
  <2>2. View' = [c \in Controllers |-> IF View[c].pending = <<>> THEN View[c]
                                       ELSE Queues!Answered(View[c])]
    BY <2>1, ViewParts
  <2> QED
    BY <2>2 DEF Queues!Respond, View
<1> QED
  BY <1>4, <1>5

\* After a restart nothing is queued.
LEMMA EmptyViews ==
    ASSUME NEW q, q = <<>>, NEW a, a = <<>>
    PROVE  Waiting(q) = <<>> /\ Tries(q) = 0 /\ Answers(a) = <<>>
<1>1. Waiting(<<>>) \in Seq(Items) /\ Len(Waiting(<<>>)) = 0
  BY EmptySeq, WaitingType
<1>2. Answers(<<>>) \in Seq(Items) /\ Len(Answers(<<>>)) = 0
  BY EmptySeq, AnswersType
<1> QED
  BY <1>1, <1>2, EmptySeq DEF Tries

LEMMA RestartRefines == ASSUME Restart PROVE Queues!Restart
<1>1. \A c \in Controllers : queue'[c] = <<>> /\ incoming'[c] = <<>>
  BY DEF Restart
<1>2. \A c \in Controllers : View'[c] = Queues!Empty
  BY <1>1, EmptyViews, ViewParts DEF Queues!Empty
<1>3. View' = [c \in Controllers |-> Queues!Empty]
  BY <1>2, ViewParts
<1> QED
  BY <1>3 DEF Queues!Restart, View

LEMMA InitRefines == ASSUME Init PROVE Queues!Init
<1>1. \A c \in Controllers : queue[c] = <<>> /\ incoming[c] = <<>>
  BY DEF Init
<1>2. \A c \in Controllers : View[c] = Queues!Empty
  BY <1>1, EmptyViews, ViewParts DEF Queues!Empty
<1>3. View = [c \in Controllers |-> Queues!Empty]
  BY <1>2, ViewParts
<1> QED
  BY <1>3 DEF Queues!Init, View

LEMMA NextRefines ==
    ASSUME QueueInv, MaxRetries + 1 < SendCountModulus, [Next]_vars
    PROVE  Queues!Step \/ UNCHANGED View
<1>1. ASSUME NEW c \in Controllers, UpdateRange(c) PROVE Queues!Step \/ UNCHANGED View
  <2> DEFINE r == RangeList[c][main.range]
  <2>1. /\ ReadCommand(r) \in Command /\ ReadCommand(r).sent = 0
        /\ ReadCommand(r).item \in Items
    <3>1. r \in Ranges
      BY <1>1, RangeInRanges DEF QueueInv, TypeOK, MainOK, UpdateRange
    <3> QED
      BY <3>1, NewCommandType DEF ReadCommand, Items
  <2>2. CASE skip[r] = 0
    <3>1. /\ queue' = [queue EXCEPT ![c] = QueueCommand(@, ReadCommand(r))]
          /\ UNCHANGED incoming
      BY <1>1, <2>2 DEF UpdateRange
    <3> QED
      BY <2>1, <3>1, SubmitRefines DEF Queues!Step
  <2>3. CASE skip[r] # 0
    BY <1>1, <2>3, Unseen DEF UpdateRange
  <2> QED
    BY <2>2, <2>3
<1>2. ASSUME NEW n \in Numbers, NEW v \in Values, NumberControl(n, v)
      PROVE  Queues!Step \/ UNCHANGED View
  <2>1. /\ WriteCommand(n, v) \in Command /\ WriteCommand(n, v).sent = 0
        /\ WriteCommand(n, v).item \in Items /\ Home[n] \in Controllers
    BY NewCommandType, ControllerAssumption DEF WriteCommand, Items
  <2>2. /\ queue' = [queue EXCEPT ![Home[n]] = QueueCommand(@, WriteCommand(n, v))]
        /\ UNCHANGED incoming
    BY <1>2 DEF NumberControl
  <2> QED
    BY <2>1, <2>2, SubmitRefines DEF Queues!Step
<1>3. ASSUME NEW c \in Controllers, ProcessData(c) PROVE Queues!Step \/ UNCHANGED View
  BY <1>3, ProcessRefines DEF Queues!Step
<1>4. ASSUME NEW c \in Controllers, DropCommand(c) PROVE Queues!Step \/ UNCHANGED View
  BY <1>4, DropRefines DEF Queues!Step
<1>5. ASSUME NEW c \in Controllers, FinishSend(c) PROVE Queues!Step \/ UNCHANGED View
  <2>1. CASE main.place = 0
    <3>1. /\ queue[c] # <<>> /\ ShouldRetry(queue[c][1])
          /\ queue' = [queue EXCEPT ![c] = [queue[c] EXCEPT ![1] = CountSend(queue[c][1])]]
          /\ UNCHANGED incoming
      BY <1>5, <2>1 DEF FinishSend, QueueInv, TypeOK, MainOK, InLoop, OrderInv, ChosenInv
    <3> QED
      BY <3>1, TryRefines DEF Queues!Step
  <2>2. CASE main.place # 0
    BY <1>5, <2>2, MovedUnseen
  <2> QED
    BY <2>1, <2>2
<1>6. CASE OnData
  BY <1>6, OnDataRefines DEF Queues!Step
<1>7. CASE Restart
  BY <1>7, RestartRefines DEF Queues!Step
<1>8. CASE UNCHANGED <<queue, incoming>>
  BY <1>8, Unseen
<1> QED
  BY <1>1, <1>2, <1>3, <1>4, <1>5, <1>6, <1>7, <1>8
     DEF Next, Loop, Continue, vars, ctlVars, StartUpdate, SetCounter, ChooseCommand,
         CheckRetries, SetOffline, SendCommand, SendRefused, ClientCallback,
         ServerAnswers, ServerRepeats, ServerRefuses, ServerIgnores, Transport,
         TimePasses

\* Whatever the server, the connection and the callbacks do, the controllers
\* serve their commands as CommandQueues says: in order, and each answer processed
\* once (queue_command(), send_next_command_(), on_modbus_data(), loop()).  A
\* command leaves the queue unanswered only after exactly max_cmd_retries + 1
\* sends or, where callbacks interrupt the main task, in the place of one that was
\* answered while it was given up (25-41).  The assumption leaves out
\* max_cmd_retries 255, where send_count_ wraps.
THEOREM QueuesImplemented ==
    ASSUME MaxRetries + 1 < SendCountModulus
    PROVE  Spec => ImplementsCommandQueues
<1>1. Init => QueueInv /\ Queues!Init
  BY InitType, InitOrder, InitRefines DEF QueueInv
<1>2. QueueInv /\ [Next]_vars => QueueInv'
  BY NextType, NextOrder DEF QueueInv
<1>3. QueueInv /\ [Next]_vars => [Queues!Next]_View
  <2>1. (Queues!Step \/ UNCHANGED View) => [Queues!Next]_View
    BY DEF Queues!Next, View
  <2> QED
    BY <2>1, NextRefines
<1>4. [Queues!Next]_View => [Queues!Next]_([c \in Controllers |-> QueueOf(c)])
  BY DEF View
<1> QED
  BY <1>1, <1>2, <1>3, <1>4, PTL DEF Spec, ImplementsCommandQueues, Queues!Spec
=============================================================================
