--------------------------- MODULE RegisterRanges ---------------------------
(***************************************************************************)
(* setup() of the controller: create_register_ranges_() of                 *)
(* src/components/modbustcp_controller/modbustcp_controller.cpp, which     *)
(* cuts the ordered set of sensors into ranges that one request can read,  *)
(* and find_sensors_(), which gives the response to a range back to its    *)
(* sensors.                                                                *)
(*                                                                         *)
(* The loop walks along sensorset_, a std::set whose order depends on the  *)
(* fields the loop itself rewrites: a sensor that joins a range takes the  *)
(* range's start address and an offset into its response, and is erased    *)
(* and inserted again at its new place.  One action is one turn of the     *)
(* loop.  Sensors are numbered by their addresses in memory, the last      *)
(* criterion of the order.                                                 *)
(***************************************************************************)
EXTENDS Integers, Sequences, FiniteSets, FiniteSetsExt

CONSTANTS
    Sensors,     \* the sensors, by their addresses in memory
    Orders,      \* the orders the configured sensors may come in
    Items,       \* what a sensor may be configured to be
    ByteModulus  \* 2^8: register_count and offset are uint8_t

ASSUME RangesAssumption ==
    /\ Sensors \subseteq Nat /\ IsFiniteSet(Sensors)
    /\ \A seq \in Orders : /\ seq \in [1 .. Cardinality(Sensors) -> Sensors]
                           /\ \A i, j \in DOMAIN seq : i < j => seq[i] # seq[j]
    /\ ByteModulus \in Nat \ {0}
    /\ Items \subseteq [kind : {"custom", "coil", "holding"}, start : Nat, count : Nat,
                        offset : 0 .. ByteModulus - 1, size : 0 .. ByteModulus - 1,
                        skip : Nat, force : BOOLEAN]
    /\ \A i \in Items : i.count > 0

VARIABLES
    config,  \* the sensors as they are configured
    sensor,  \* the sensors as the loop leaves them
    order,   \* sensorset_ in its order
    ix,      \* the iterator: a place in order, or the one after the last
    range,   \* r, the range that is being built
    buffer,  \* buffer_offset: the bytes of the response to r so far
    prev,    \* the sensor of the last turn
    ranges,  \* register_ranges_
    done

vars == <<config, sensor, order, ix, range, buffer, prev, ranges, done>>

-----------------------------------------------------------------------------
(* The order of the sensors.                                               *)

Rank(kind) == CASE kind = "custom" -> 0 [] kind = "coil" -> 1 [] kind = "holding" -> 3

Key(item, s) ==
    <<Rank(item.kind), IF item.force THEN 0 ELSE 1, item.start, item.offset, s>>

Before(a, b) == \E i \in 1 .. 5 : a[i] < b[i] /\ \A j \in 1 .. i - 1 : a[j] = b[j]

Sorted(items, seq) ==
    \A i, j \in 1 .. Len(seq) :
        i < j => Before(Key(items[seq[i]], seq[i]), Key(items[seq[j]], seq[j]))

Without(seq, i) == SubSeq(seq, 1, i - 1) \o SubSeq(seq, i + 1, Len(seq))

\* where a sensor with this item goes in the rest of the set
Place(rest, item, s) ==
    1 + Cardinality({i \in 1 .. Len(rest) :
                       Before(Key(sensor[rest[i]], rest[i]), Key(item, s))})

Init ==
    /\ order \in Orders
    /\ config \in [Sensors -> Items]
    /\ Sorted(config, order)
    /\ sensor = config
    /\ ix = 1
    /\ range = [start |-> 0, kind |-> "custom", count |-> 0, skip |-> 0, sensors |-> {}]
    /\ buffer = 0
    /\ prev = 0
    /\ ranges = <<>>
    /\ done = FALSE

-----------------------------------------------------------------------------
(* The loop.                                                               *)

curr == order[ix]
item == sensor[curr]

Running == ~done /\ ix <= Len(order)

\* variant with a mistake: the size is that of the registers
SizeOfRegisters(i) == IF i.kind = "coil" THEN 1 ELSE 2 * i.count

\* get_register_size(): the places of a sensor in the response, with a
\* response_size of its own or two for each register
Size(i) == IF i.kind = "coil" THEN 1 ELSE IF i.size > 0 THEN i.size ELSE 2 * i.count

\* variant with a mistake: the highest value is used
JoinedHighest(r, s, skip) ==
    [r EXCEPT !.sensors = @ \cup {s}, !.skip = IF skip > @ THEN skip ELSE @]

\* the lowest non zero skip_updates counts for the whole range
Joined(r, s, skip) ==
    [r EXCEPT !.sensors = @ \cup {s},
              !.skip = IF skip # 0 /\ (@ = 0 \/ skip < @) THEN skip ELSE @]

NewRange ==
    /\ Running
    /\ range.count = 0
    /\ range' = Joined([range EXCEPT !.start = item.start, !.kind = item.kind,
                                     !.count = item.count, !.skip = item.skip],
                       curr, item.skip)
    /\ buffer' = Size(item) % ByteModulus
    /\ ix' = ix + 1
    /\ prev' = curr
    /\ UNCHANGED <<config, sensor, order, ranges, done>>

MayMerge ==
    /\ range.count # 0
    /\ ~item.force
    /\ range.kind = item.kind
    /\ item.kind # "custom"

\* the sensor reads what the last one reads
Reuses ==
    /\ MayMerge
    /\ item.start = range.start + range.count - sensor[prev].count
    /\ item.count = sensor[prev].count
    /\ Size(item) = Size(sensor[prev])

\* the sensor reads what comes right after the range
Extends == MayMerge /\ ~Reuses /\ item.start = range.start + range.count

\* variant with a mistake: the sensor is not inserted again
MergeDrops(offset) ==
    /\ sensor' = [sensor EXCEPT ![curr] = [item EXCEPT !.start = range.start]]
    /\ order' = Without(order, ix)
    /\ ix' = ix
    /\ prev' = curr

\* the sensor becomes part of the range, at this offset from its own: erase it,
\* insert it again, and go on after the place before the next sensor
Merge(offset) ==
    LET merged == [item EXCEPT !.start = range.start,
                               !.offset = (@ + offset) % ByteModulus]
        rest == Without(order, ix)
        place == Place(rest, merged, curr)
    IN  /\ sensor' = [sensor EXCEPT ![curr] = merged]
        /\ order' = SubSeq(rest, 1, place - 1) \o <<curr>>
                      \o SubSeq(rest, place, Len(rest))
        /\ ix' = IF place <= ix THEN ix + 1 ELSE ix
        /\ prev' = curr

Reuse ==
    /\ Running
    /\ Reuses
    /\ Merge(sensor[prev].offset)
    /\ range' = Joined(range, curr, item.skip)
    /\ UNCHANGED <<config, buffer, ranges, done>>

\* variant with a mistake: one register, whatever the size of the sensor
ExtendUncounted ==
    /\ Running
    /\ Extends
    /\ Merge(buffer)
    /\ buffer' = (buffer + Size(item)) % ByteModulus
    /\ range' = Joined([range EXCEPT !.count = @ + 1], curr, item.skip)
    /\ UNCHANGED <<config, ranges, done>>

Extend ==
    /\ Running
    /\ Extends
    /\ Merge(buffer)
    /\ buffer' = (buffer + Size(item)) % ByteModulus
    /\ range' = Joined([range EXCEPT !.count = (@ + item.count) % ByteModulus],
                       curr, item.skip)
    /\ UNCHANGED <<config, ranges, done>>

InRange == item.start = range.start /\ item.kind = range.kind

\* variant with a mistake: the iterator stays where it is
JoinStays ==
    /\ Running
    /\ range.count # 0 /\ ~Reuses /\ ~Extends
    /\ InRange
    /\ range' = Joined(range, curr, item.skip)
    /\ prev' = curr
    /\ UNCHANGED <<config, sensor, order, ix, buffer, ranges, done>>

Join ==
    /\ Running
    /\ range.count # 0 /\ ~Reuses /\ ~Extends
    /\ InRange
    /\ range' = Joined(range, curr, item.skip)
    /\ ix' = ix + 1
    /\ prev' = curr
    /\ UNCHANGED <<config, sensor, order, buffer, ranges, done>>

\* variant with a mistake: the sensors of the last range are kept
CloseUncleared ==
    /\ Running
    /\ range.count # 0 /\ ~Reuses /\ ~Extends
    /\ ~InRange
    /\ ranges' = Append(ranges, range)
    /\ range' = [range EXCEPT !.count = 0]
    /\ buffer' = 0
    /\ prev' = curr
    /\ UNCHANGED <<config, sensor, order, ix, done>>

\* the sensor belongs to no range yet: it is looked at once more
Close ==
    /\ Running
    /\ range.count # 0 /\ ~Reuses /\ ~Extends
    /\ ~InRange
    /\ ranges' = Append(ranges, range)
    /\ range' = [start |-> 0, kind |-> "custom", count |-> 0, skip |-> 0, sensors |-> {}]
    /\ buffer' = 0
    /\ prev' = curr
    /\ UNCHANGED <<config, sensor, order, ix, done>>

\* the last range
Finish ==
    /\ ~done
    /\ ix > Len(order)
    /\ ranges' = IF range.count > 0 THEN Append(ranges, range) ELSE ranges
    /\ done' = TRUE
    /\ UNCHANGED <<config, sensor, order, ix, range, buffer, prev>>

Next == NewRange \/ Reuse \/ Extend \/ Join \/ Close \/ Finish

Spec == Init /\ [][Next]_vars /\ WF_vars(Next)

-----------------------------------------------------------------------------
(* The response to a range is handed to the sensors that find_sensors_()   *)
(* returns for its type and start address: those of the first such range.  *)

\* variant with a mistake: the register type is not looked at
FindSensorsOfAnyType(r) ==
    LET matching == {i \in 1 .. Len(ranges) : ranges[i].start = r.start}
    IN  IF matching = {} THEN {}
        ELSE ranges[CHOOSE i \in matching : \A j \in matching : i <= j].sensors

FindSensors(r) ==
    LET matching == {i \in 1 .. Len(ranges) :
                       ranges[i].start = r.start /\ ranges[i].kind = r.kind}
    IN  IF matching = {} THEN {}
        ELSE ranges[CHOOSE i \in matching : \A j \in matching : i <= j].sensors

-----------------------------------------------------------------------------
(* Properties.                                                             *)

RegisterRange == [start : Nat, kind : {"custom", "coil", "holding"}, count : Nat,
                  skip : Nat, sensors : SUBSET Sensors]

\* The variables keep their types; the set holds every sensor once.
TypeOK ==
    /\ config \in [Sensors -> Items]
    /\ DOMAIN sensor = Sensors
    /\ \A s \in Sensors : /\ sensor[s].kind = config[s].kind
                          /\ sensor[s].start \in Nat
                          /\ sensor[s].offset \in 0 .. ByteModulus - 1
    /\ Len(order) = Cardinality(Sensors)
    /\ {order[i] : i \in 1 .. Len(order)} = Sensors
    /\ ix \in 1 .. Len(order) + 1
    /\ range \in RegisterRange
    /\ buffer \in 0 .. ByteModulus - 1
    /\ ranges \in Seq(RegisterRange)

\* No range is shorter than a sensor that begins it: sensors with
\* force_new_range at one address read the same registers.
ForcedAlike ==
    \A s, t \in Sensors :
        /\ config[s].force /\ config[t].force
        /\ config[s].kind = config[t].kind /\ config[s].start = config[t].start
        => config[s].count = config[t].count

\* Once setup() is over every sensor is in one range, and only in one, although
\* the loop moves the sensors it walks along (363-390).  Behind a range that is
\* shorter than its last sensor, the address that is compared with at 358 lies
\* before the range: a sensor found there moves up to the range, behind sensors
\* that have had no turn yet, and gets a second turn and a second range.
EverySensorInOneRange ==
    done /\ ForcedAlike => \A s \in Sensors : \E i \in 1 .. Len(ranges) :
              \A j \in 1 .. Len(ranges) : s \in ranges[j].sensors <=> j = i

\* What the loop is right about: sensors of a type read the same registers or
\* registers apart from each other, and have no offset of their own.
Apart ==
    \A s, t \in Sensors : config[s].kind = config[t].kind =>
        \/ /\ config[s].start = config[t].start
           /\ config[s].count = config[t].count /\ config[s].size = config[t].size
        \/ config[s].start + config[s].count <= config[t].start
        \/ config[t].start + config[t].count <= config[s].start

Plain == \A s \in Sensors : config[s].offset = 0

\* the place in the response to r of the registers (or the coils) of a sensor:
\* each register before it takes two bytes, or as many as its response_size says
PlaceIn(r, s) ==
    LET away == config[s].start - r.start
        before == {t \in r.sensors : config[t].start < config[s].start}
        resized == {<<config[t].start, config[t].size - 2 * config[t].count>> :
                      t \in {u \in before : config[u].size > 0}}
    IN  config[s].offset +
        (IF config[s].kind = "coil" THEN away
         ELSE 2 * away + MapThenSumSet(LAMBDA pair : pair[2], resized))

\* Every sensor reads its own registers: the request for its range asks for all
\* of them, and its offset is their place in the response, as long as eight bits
\* can hold it (356-391).  Without response_size a place that they cannot hold is
\* behind 128 registers, in a range that send() refuses to ask for.
OwnRegistersAreRead ==
    Apart /\ Plain =>
        \A i \in 1 .. Len(ranges) : \A s \in ranges[i].sensors :
            /\ PlaceIn(ranges[i], s) < ByteModulus => sensor[s].offset = PlaceIn(ranges[i], s)
            /\ config[s].start + config[s].count <= ranges[i].start + ranges[i].count

\* The response to a range reaches its sensors, where a sensor with
\* force_new_range does not start a range at the same address.
Starts(r) == \E s \in r.sensors : config[s].force
SensorsAreFound ==
    done => \A i \in 1 .. Len(ranges) :
              \/ ranges[i].sensors = FindSensors(ranges[i])
              \/ \E j \in 1 .. i - 1 : Starts(ranges[j]) /\ ranges[j].start = ranges[i].start

\* The range is polled as often as its most often polled sensor, those with the
\* default skip_updates 0 aside (396-404).
LowestSkip ==
    \A i \in 1 .. Len(ranges) :
        LET skips == {config[s].skip : s \in ranges[i].sensors} \ {0}
        IN  IF skips = {} THEN ranges[i].skip = 0
            ELSE ranges[i].skip \in skips /\ \A k \in skips : ranges[i].skip <= k

\* setup() comes to an end, although the loop moves the sensors it walks along.
SetupEnds == <>done

\* What a comment of the code says and the code does not do: a sensor that
\* "can re-use the data from the previous register" (360) reads the same
\* registers, however it and its neighbours are configured.
ReadsItsRegisters ==
    Plain /\ (\A s \in Sensors : config[s].size = 0) =>
        \A i \in 1 .. Len(ranges) : \A s \in ranges[i].sensors :
            sensor[s].offset = PlaceIn(ranges[i], s)
=============================================================================
