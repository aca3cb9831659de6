--------------------------- MODULE VirtioBlkProofs ---------------------------
(***************************************************************************)
(* Proofs about VirtioBlk for every number of slots, every set of devices  *)
(* with whatever speed and honesty, every queue size and index range and   *)
(* any number of calls.                                                    *)
(***************************************************************************)
EXTENDS VirtioBlk, TLAPS

(* The inductive invariant. *)

\* read_config_u64_le has read its parts one after the other while the
\* generation only grew.
ConfigSound ==
  /\ pc = "low" => config_read.before <= config[slot]
  /\ pc = "high" => /\ config_read.before <= config_read.low
                    /\ config_read.low <= config[slot]
  /\ pc = "generation again" => /\ config_read.before <= config_read.low
                                /\ config_read.low <= config_read.high
                                /\ config_read.high <= config[slot]

\* Device d has nothing to do.
Quiet(d) == ~(live[d] /\ kicked[d]) /\ pending[d] = <<>>

\* Driver and device of this slot have seen and answered the same requests.
Settled ==
  /\ Quiet(slot)
  /\ live[slot]
  /\ queue.avail = avail_idx /\ last_avail[slot] = avail_idx
  /\ queue.used = used_idx /\ device_used[slot] = used_idx

\* The three stages of a request: published, taken, answered.
Published ==
  /\ kicked[slot]
  /\ pending[slot] = <<>>
  /\ avail_idx = Wrap(last_avail[slot] + 1)
  /\ queue.used = used_idx /\ device_used[slot] = used_idx

Taken ==
  /\ ~kicked[slot]
  /\ pending[slot] = <<request>>
  /\ avail_idx = last_avail[slot]
  /\ queue.used = used_idx /\ device_used[slot] = used_idx

Answered ==
  /\ ~kicked[slot]
  /\ pending[slot] = <<>>
  /\ avail_idx = last_avail[slot]
  /\ device_used[slot] = Wrap(used_idx + 1) /\ queue.used = device_used[slot]
  /\ status = "ok" => memory[request.buffer] = <<slot, request.sector>>

\* What the shared memory says of the call in progress.
Described == header = request.sector
Lent == queue.buffer = request.buffer

InStep ==
  /\ \A d \in BlockDevices : d = slot \/ Quiet(d)
  /\ pc # "poll" /\ slot \in BlockDevices => Quiet(slot)
  /\ pc \in {"idle", "descriptors", "publish"} => Settled
  /\ Waiting => Described
  /\ pc \in {"publish", "poll"} => Lent
  /\ pc = "poll" => /\ live[slot]
                    /\ queue.avail = avail_idx
                    /\ Published \/ Taken \/ Answered

IndInv ==
  /\ TypeOK
  /\ ConfigSound /\ CapacityIsNotTorn
  /\ ~abandoned => InStep

-----------------------------------------------------------------------------
(* Ring indices. *)

LEMMA WrapIsIndex ==
  ASSUME NEW n \in Int
  PROVE  Wrap(n) \in Indices
  BY QueueAssumption DEF Wrap, Indices

LEMMA WrapNext ==
  ASSUME NEW x \in Indices
  PROVE  /\ Wrap(x + 1) = IF x + 1 = IndexModulus THEN 0 ELSE x + 1
         /\ Wrap(x + 1) # x
         /\ Wrap(Wrap(x + 1) - x) = 1
<1>1. IndexModulus \in Nat /\ IndexModulus >= 2 /\ x \in Nat /\ x < IndexModulus
  BY QueueAssumption DEF Indices
<1>2. Wrap(x + 1) = IF x + 1 = IndexModulus THEN 0 ELSE x + 1
  BY <1>1 DEF Wrap
<1>3. Wrap(1) = 1
  BY <1>1 DEF Wrap
<1>4. ASSUME x + 1 = IndexModulus PROVE Wrap(0 - x) = 1
  <2>1. 0 - x = (0 - 1) * IndexModulus + 1
    BY <1>1, <1>4
  <2> QED BY <1>1, <2>1, <1>4 DEF Wrap
<1> QED BY <1>1, <1>2, <1>3, <1>4

LEMMA RingIndex ==
  ASSUME NEW x \in Indices
  PROVE  x % QueueSize \in RingSlots
  BY QueueAssumption DEF Indices, RingSlots

-----------------------------------------------------------------------------
(* Types. *)

USE DEF Devices, Requests

Queue == [avail : Indices, used : Indices, ring : [RingSlots -> UsedIds],
          buffer : Buffers \cup {NoBuffer}]

\* A request a device has taken.
TakenRequest == [sector : Sectors \cup {0}, buffer : Buffers]

\* TypeOK by parts.
PlaceTyped ==
  /\ pc \in {"probe", "done", "idle", "generation", "low", "high",
             "generation again", "reset", "descriptors", "publish", "poll"}
  /\ slot \in 0..Slots
  /\ pc \notin {"probe", "done"} => slot \in BlockDevices
  /\ spins \in 0..PollLimit
  /\ result \in {"none", "Ok", "MissingVersion1", "FeatureNegotiationFailed",
                 "QueueTooSmall", "InvalidBufferLength", "RequestTimeout",
                 "UnexpectedUsedId", "BlockRequestFailed"}
  /\ calls \in 0..MaxCalls

RequestTyped == request \in Requests /\ (Waiting => request.buffer \in Buffers)

ConfigTyped ==
  /\ config_read \in [before : Nat, low : Nat, high : Nat]
  /\ capacity_sectors \in [low : Nat, high : Nat]
  /\ config \in [Devices -> Nat]

IndexTyped ==
  /\ avail_idx \in Indices /\ used_idx \in Indices
  /\ queue \in Queue
  /\ last_avail \in [Devices -> Indices]
  /\ device_used \in [Devices -> Indices]

DataTyped ==
  /\ header \in Sectors \cup {0}
  /\ status \in {Unanswered, "ok", "failed"}
  /\ memory \in [Buffers -> (0..Slots) \X (Sectors \cup {0})]
  /\ pending \in [Devices -> Seq(TakenRequest)]

FlagsTyped ==
  /\ abandoned \in BOOLEAN
  /\ live \in [Devices -> BOOLEAN]
  /\ kicked \in [Devices -> BOOLEAN]

LEMMA TypeParts ==
  TypeOK <=> /\ PlaceTyped /\ RequestTyped /\ ConfigTyped
             /\ IndexTyped /\ DataTyped /\ FlagsTyped
  BY Zenon DEF TypeOK, PlaceTyped, RequestTyped, ConfigTyped, IndexTyped, DataTyped,
     FlagsTyped, Queue, TakenRequest

LEMMA TypePartsNext ==
  ASSUME PlaceTyped', RequestTyped', ConfigTyped', IndexTyped', DataTyped', FlagsTyped'
  PROVE  TypeOK'
  BY Zenon DEF TypeOK, PlaceTyped, RequestTyped, ConfigTyped, IndexTyped, DataTyped,
     FlagsTyped, Queue, TakenRequest

\* The bounds that are not about ring indices.
LEMMA Bounds == /\ Slots \in Nat /\ PollLimit \in Nat
                /\ MaxCalls \in Nat /\ MaxLateCalls \in 0..MaxCalls
  BY QueueAssumption

LEMMA ZeroIsIndex == 0 \in Indices
  BY QueueAssumption DEF Indices

LEMMA SlotIsDevice ==
  ASSUME PlaceTyped, pc \notin {"probe", "done"}
  PROVE  slot \in Devices /\ slot \in BlockDevices
  BY DeviceAssumption DEF PlaceTyped

LEMMA EmptyQueueIsQueue == EmptyQueue \in Queue
  BY QueueAssumption, DeviceAssumption DEF EmptyQueue, Indices, Queue

LEMMA TypeInit == Init => TypeOK
<1> SUFFICES ASSUME Init PROVE TypeOK
  OBVIOUS
<1> USE QueueAssumption DEF Init
<1>1. PlaceTyped
  BY DEF PlaceTyped
<1>2. RequestTyped
  BY DEF RequestTyped, NoRequest, Waiting
<1>3. ConfigTyped
  BY DEF ConfigTyped, NoConfig
<1>4. IndexTyped
  BY EmptyQueueIsQueue DEF IndexTyped, Indices
<1>5. DataTyped
  BY DEF DataTyped, Unanswered
<1>6. FlagsTyped
  BY Zenon DEF FlagsTyped
<1> QED BY <1>1, <1>2, <1>3, <1>4, <1>5, <1>6, TypeParts

LEMMA TypeNext ==
  ASSUME TypeOK, next
  PROVE  TypeOK'
<1>1. PlaceTyped'
  <2>1. PlaceTyped
    BY TypeParts
  <2>2. CASE slot < Slots /\ slot' = slot + 1 /\ slot' \in BlockDevices /\ pc' = "generation"
    BY <2>1, <2>2, Bounds DEF PlaceTyped, next
  <2>3. CASE slot < Slots /\ slot' = slot + 1 /\ pc' = "probe"
    BY <2>1, <2>3, Bounds DEF PlaceTyped, next
  <2>4. CASE UNCHANGED slot /\ pc' = "done"
    BY <2>1, <2>4 DEF PlaceTyped, next
  <2> QED BY <2>2, <2>3, <2>4 DEF next
<1>2. RequestTyped'
  BY TypeParts
  DEF RequestTyped, next, Waiting
<1>3. ConfigTyped'
  BY TypeParts
  DEF ConfigTyped, next, deviceVars
<1>4. IndexTyped'
  BY TypeParts
  DEF IndexTyped, next, sharedVars, deviceVars
<1>5. DataTyped'
  BY TypeParts
  DEF DataTyped, next, sharedVars, deviceVars
<1>6. FlagsTyped'
  BY TypeParts, Zenon
  DEF FlagsTyped, next, deviceVars
<1> QED BY <1>1, <1>2, <1>3, <1>4, <1>5, <1>6, TypePartsNext

LEMMA TypeReadConfig ==
  ASSUME TypeOK, read_config_u64_le
  PROVE  TypeOK'
<1>1. PlaceTyped'
  BY TypeParts
  DEF PlaceTyped, read_config_u64_le
<1>2. RequestTyped'
  BY TypeParts
  DEF RequestTyped, read_config_u64_le, Waiting
<1>3. ConfigTyped'
  <2>1. ConfigTyped /\ slot \in Devices
    BY TypeParts, SlotIsDevice DEF read_config_u64_le
  <2>2. config[slot] \in Nat
    BY <2>1 DEF ConfigTyped
  <2> DEFINE Read == [before : Nat, low : Nat, high : Nat]
  <2>0. config_read \in Read /\ capacity_sectors \in [low : Nat, high : Nat]
    BY <2>1 DEF ConfigTyped
  <2>3. config_read' \in Read
    <3>1. [config_read EXCEPT !.before = config[slot]] \in Read
      BY <2>0, <2>2
    <3>2. [config_read EXCEPT !.low = config[slot]] \in Read
      BY <2>0, <2>2
    <3>3. [config_read EXCEPT !.high = config[slot]] \in Read
      BY <2>0, <2>2
    <3>4. NoConfig \in Read
      BY DEF NoConfig
    <3> QED BY <2>0, <3>1, <3>2, <3>3, <3>4, Zenon DEF read_config_u64_le
  <2>4. capacity_sectors' \in [low : Nat, high : Nat]
    <3>1. [low |-> config_read.low, high |-> config_read.high] \in [low : Nat, high : Nat]
      BY <2>0
    <3> QED BY <2>0, <3>1, Zenon DEF read_config_u64_le
  <2> QED BY <2>1, <2>3, <2>4 DEF ConfigTyped, read_config_u64_le, deviceVars
<1>4. IndexTyped'
  BY TypeParts
  DEF IndexTyped, read_config_u64_le, sharedVars, deviceVars
<1>5. DataTyped'
  BY TypeParts
  DEF DataTyped, read_config_u64_le, sharedVars, deviceVars
<1>6. FlagsTyped'
  BY TypeParts, Zenon
  DEF FlagsTyped, read_config_u64_le, deviceVars
<1> QED BY <1>1, <1>2, <1>3, <1>4, <1>5, <1>6, TypePartsNext

LEMMA TypeNew ==
  ASSUME TypeOK, new
  PROVE  TypeOK'
<1>1. PlaceTyped'
  BY TypeParts
  DEF PlaceTyped, new
<1>2. RequestTyped'
  BY TypeParts
  DEF RequestTyped, new, Waiting
<1>3. ConfigTyped'
  BY TypeParts
  DEF ConfigTyped, new
<1>4. IndexTyped'
  BY TypeParts, ZeroIsIndex, EmptyQueueIsQueue
  DEF IndexTyped, new
<1>5. DataTyped'
  BY TypeParts, DeviceAssumption
  DEF DataTyped, new, PlaceTyped
<1>6. FlagsTyped'
  BY TypeParts
  DEF FlagsTyped, new
<1> QED BY <1>1, <1>2, <1>3, <1>4, <1>5, <1>6, TypePartsNext

LEMMA TypeDrop ==
  ASSUME TypeOK, drop
  PROVE  TypeOK'
<1>1. PlaceTyped'
  BY TypeParts
  DEF PlaceTyped, drop
<1>2. RequestTyped'
  BY TypeParts
  DEF RequestTyped, drop, Waiting
<1>3. ConfigTyped'
  BY TypeParts
  DEF ConfigTyped, drop, deviceVars
<1>4. IndexTyped'
  BY TypeParts
  DEF IndexTyped, drop, sharedVars, deviceVars
<1>5. DataTyped'
  BY TypeParts
  DEF DataTyped, drop, sharedVars, deviceVars
<1>6. FlagsTyped'
  BY TypeParts, Zenon
  DEF FlagsTyped, drop, deviceVars
<1> QED BY <1>1, <1>2, <1>3, <1>4, <1>5, <1>6, TypePartsNext

LEMMA TypeReadBlocks ==
  ASSUME TypeOK, NEW sector \in Sectors, NEW buffer \in Buffers, NEW lengthOk \in BOOLEAN,
         read_blocks(sector, buffer, lengthOk)
  PROVE  TypeOK'
<1>1. PlaceTyped'
  <2>1. PlaceTyped /\ slot \in BlockDevices
    BY TypeParts, SlotIsDevice DEF read_blocks
  <2>2. calls' \in 0..MaxCalls
    BY <2>1, Bounds DEF PlaceTyped, read_blocks
  <2> QED BY <2>1, <2>2 DEF PlaceTyped, read_blocks
<1>2. RequestTyped'
  BY TypeParts
  DEF RequestTyped, read_blocks, Waiting
<1>3. ConfigTyped'
  BY TypeParts
  DEF ConfigTyped, read_blocks, deviceVars
<1>4. IndexTyped'
  BY TypeParts
  DEF IndexTyped, read_blocks, deviceVars
<1>5. DataTyped'
  BY TypeParts
  DEF DataTyped, read_blocks, Unanswered, deviceVars
<1>6. FlagsTyped'
  BY TypeParts, Zenon
  DEF FlagsTyped, read_blocks, deviceVars
<1> QED BY <1>1, <1>2, <1>3, <1>4, <1>5, <1>6, TypePartsNext

LEMMA TypeWriteDescriptors ==
  ASSUME TypeOK, write_descriptors
  PROVE  TypeOK'
<1>1. PlaceTyped'
  BY TypeParts
  DEF PlaceTyped, write_descriptors
<1>2. RequestTyped'
  BY TypeParts
  DEF RequestTyped, write_descriptors, Waiting
<1>3. ConfigTyped'
  BY TypeParts
  DEF ConfigTyped, write_descriptors, deviceVars
<1>4. IndexTyped'
  BY TypeParts
  DEF IndexTyped, write_descriptors, RequestTyped, Queue, Waiting, deviceVars
<1>5. DataTyped'
  BY TypeParts
  DEF DataTyped, write_descriptors, deviceVars
<1>6. FlagsTyped'
  BY TypeParts, Zenon
  DEF FlagsTyped, write_descriptors, deviceVars
<1> QED BY <1>1, <1>2, <1>3, <1>4, <1>5, <1>6, TypePartsNext

LEMMA TypePublish ==
  ASSUME TypeOK, publish
  PROVE  TypeOK'
<1>1. PlaceTyped'
  BY TypeParts
  DEF PlaceTyped, publish
<1>2. RequestTyped'
  BY TypeParts
  DEF RequestTyped, publish, Waiting
<1>3. ConfigTyped'
  BY TypeParts
  DEF ConfigTyped, publish
<1>4. IndexTyped'
  BY TypeParts, WrapIsIndex
  DEF IndexTyped, publish, Indices, Queue
<1>5. DataTyped'
  BY TypeParts
  DEF DataTyped, publish
<1>6. FlagsTyped'
  BY TypeParts
  DEF FlagsTyped, publish
<1> QED BY <1>1, <1>2, <1>3, <1>4, <1>5, <1>6, TypePartsNext

LEMMA TypePoll ==
  ASSUME TypeOK, poll
  PROVE  TypeOK'
<1>1. PlaceTyped'
  <2>1. PlaceTyped /\ slot \in BlockDevices
    BY TypeParts, SlotIsDevice DEF poll
  <2>2. spins' \in 0..PollLimit
    BY <2>1, Bounds DEF PlaceTyped, poll, Return
  <2> QED BY <2>1, <2>2 DEF PlaceTyped, poll, Return
<1>2. RequestTyped'
  BY TypeParts
  DEF RequestTyped, poll, Return, NoRequest, Waiting
<1>3. ConfigTyped'
  BY TypeParts
  DEF ConfigTyped, poll, Return, deviceVars
<1>4. IndexTyped'
  BY TypeParts
  DEF IndexTyped, poll, Return, sharedVars, deviceVars
<1>5. DataTyped'
  BY TypeParts
  DEF DataTyped, poll, Return, sharedVars, deviceVars
<1>6. FlagsTyped'
  BY TypeParts
  DEF FlagsTyped, poll, Return, deviceVars
<1> QED BY <1>1, <1>2, <1>3, <1>4, <1>5, <1>6, TypePartsNext

LEMMA TypeComplete ==
  ASSUME TypeOK, complete
  PROVE  TypeOK'
<1>1. PlaceTyped'
  <2>1. PlaceTyped /\ slot \in BlockDevices
    BY TypeParts, SlotIsDevice DEF complete
  <2>2. spins' \in 0..PollLimit
    BY <2>1, Bounds DEF PlaceTyped, complete, Return
  <2> QED BY <2>1, <2>2 DEF PlaceTyped, complete, Return
<1>2. RequestTyped'
  BY TypeParts
  DEF RequestTyped, complete, Return, NoRequest, Waiting
<1>3. ConfigTyped'
  BY TypeParts
  DEF ConfigTyped, complete, Return, deviceVars
<1>4. IndexTyped'
  BY TypeParts, WrapIsIndex, SMTT(30)
  DEF IndexTyped, complete, Return, Indices, sharedVars, deviceVars
<1>5. DataTyped'
  BY TypeParts
  DEF DataTyped, complete, Return, sharedVars, deviceVars
<1>6. FlagsTyped'
  BY TypeParts
  DEF FlagsTyped, complete, Return, deviceVars
<1> QED BY <1>1, <1>2, <1>3, <1>4, <1>5, <1>6, TypePartsNext

\* A notified device takes what it finds.
LEMMA TypeFetch ==
  ASSUME TypeOK, NEW d \in BlockDevices, Fetch(d)
  PROVE  TypeOK'
<1>0. d \in Devices
  BY DeviceAssumption
<1>1. PlaceTyped'
  BY TypeParts DEF PlaceTyped, Fetch, driverVars
<1>2. RequestTyped'
  BY TypeParts DEF RequestTyped, Fetch, Waiting, driverVars
<1>3. ConfigTyped'
  BY TypeParts DEF ConfigTyped, Fetch, driverVars
<1>4. IndexTyped'
  <2>1. IndexTyped
    BY TypeParts
  <2>2. last_avail' \in [Devices -> Indices]
    BY <2>1 DEF IndexTyped, Queue, Fetch
  <2> QED BY <2>1, <2>2 DEF IndexTyped, Fetch, driverVars, sharedVars
<1>5. DataTyped'
  <2>1. DataTyped /\ IndexTyped
    BY TypeParts
  <2>2. pending' \in [Devices -> Seq(TakenRequest)]
    <3> DEFINE n == Wrap(queue.avail - last_avail[d])
               one == [sector |-> header, buffer |-> queue.buffer]
               fetched == [k \in 1..n |-> one]
    <3>1. CASE UNCHANGED pending
      BY <3>1, <2>1 DEF DataTyped
    <3>2. CASE /\ n > 0 => queue.buffer # NoBuffer
               /\ pending' = [pending EXCEPT ![d] = pending[d] \o fetched]
      <4>1. queue.avail \in Int /\ last_avail[d] \in Int
        BY <1>0, <2>1 DEF IndexTyped, Queue, Indices
      <4>2. n \in Nat
        BY <4>1, WrapIsIndex DEF Indices
      <4>3. n > 0 => one \in TakenRequest
        BY <3>2, <2>1 DEF IndexTyped, DataTyped, Queue, TakenRequest
      <4>4. fetched \in Seq(TakenRequest)
        <5> HIDE DEF n, one
        <5> QED BY <4>2, <4>3
      <4>5. pending[d] \o fetched \in Seq(TakenRequest)
        <5> HIDE DEF fetched
        <5> QED BY <1>0, <2>1, <4>4 DEF DataTyped
      <4> QED
        <5> HIDE DEF fetched
        <5> QED BY <3>2, <4>5, <2>1 DEF DataTyped
    <3> QED BY <3>1, <3>2 DEF Fetch
  <2> QED BY <2>1, <2>2 DEF DataTyped, Fetch, sharedVars
<1>6. FlagsTyped'
  BY TypeParts DEF FlagsTyped, Fetch, driverVars
<1> QED BY <1>1, <1>2, <1>3, <1>4, <1>5, <1>6, TypePartsNext

\* Leaving out one element keeps a sequence a sequence.
LEMMA LeaveOut ==
  ASSUME NEW S, NEW s \in Seq(S), NEW k \in 1..Len(s)
  PROVE  [j \in 1..(Len(s) - 1) |-> s[IF j < k THEN j ELSE j + 1]] \in Seq(S)
<1>1. Len(s) - 1 \in Nat
  OBVIOUS
<1>2. \A j \in 1..(Len(s) - 1) : s[IF j < k THEN j ELSE j + 1] \in S
  OBVIOUS
<1> QED BY <1>1, <1>2

LEMMA TypeCompleteRequest ==
  ASSUME TypeOK, NEW d \in BlockDevices, Complete(d)
  PROVE  TypeOK'
<1>0. d \in Devices
  BY DeviceAssumption
<1>1. PlaceTyped'
  BY TypeParts DEF PlaceTyped, Complete, driverVars
<1>2. RequestTyped'
  BY TypeParts DEF RequestTyped, Complete, Waiting, driverVars
<1>3. ConfigTyped'
  BY TypeParts DEF ConfigTyped, Complete, driverVars
<1>4. IndexTyped'
  <2>1. IndexTyped
    BY TypeParts
  <2>2. device_used[d] \in Indices /\ device_used[d] + 1 \in Int
    BY <1>0, <2>1 DEF IndexTyped, Indices
  <2>3. Wrap(device_used[d] + 1) \in Indices
    BY <2>2, WrapIsIndex
  <2>4. device_used' \in [Devices -> Indices] /\ device_used'[d] \in Indices
    BY <1>0, <2>1, <2>3 DEF IndexTyped, Complete
  <2>5. PICK id \in UsedIds :
          queue' = [queue EXCEPT !.ring[device_used[d] % QueueSize] = id,
                                 !.used = device_used'[d]]
    BY DEF Complete
  <2>6. queue' \in Queue
    BY <2>1, <2>2, <2>4, <2>5, RingIndex DEF IndexTyped, Queue
  <2> QED BY <2>1, <2>4, <2>6 DEF IndexTyped, Complete, driverVars
<1>5. DataTyped'
  <2>1. DataTyped
    BY TypeParts
  <2>2. pending[d] \in Seq(TakenRequest)
    BY <1>0, <2>1 DEF DataTyped
  <2>3. PICK k \in 1..Len(pending[d]), ok \in BOOLEAN :
          /\ memory' = IF ok THEN [memory EXCEPT ![pending[d][k].buffer] =
                                      <<d, pending[d][k].sector>>]
                             ELSE memory
          /\ pending' = [pending EXCEPT ![d] =
               [j \in 1..(Len(pending[d]) - 1) |-> pending[d][IF j < k THEN j ELSE j + 1]]]
    BY DEF Complete
  <2>4. pending' \in [Devices -> Seq(TakenRequest)]
    <3> DEFINE rest == [j \in 1..(Len(pending[d]) - 1) |->
                          pending[d][IF j < k THEN j ELSE j + 1]]
    <3>1. rest \in Seq(TakenRequest)
      BY <2>2, LeaveOut
    <3> HIDE DEF rest
    <3> QED BY <2>1, <2>3, <3>1 DEF DataTyped, rest
  <2>5. pending[d][k] \in TakenRequest
    BY <2>2
  <2>6. <<d, pending[d][k].sector>> \in (0..Slots) \X (Sectors \cup {0})
    BY <1>0, <2>5, Bounds DEF TakenRequest
  <2>7. memory' \in [Buffers -> (0..Slots) \X (Sectors \cup {0})]
    BY <2>1, <2>3, <2>6 DEF DataTyped
  <2>8. status' \in {Unanswered, "ok", "failed"}
    BY DEF Complete
  <2> QED BY <2>1, <2>4, <2>7, <2>8 DEF DataTyped, Complete, driverVars
<1>6. FlagsTyped'
  BY TypeParts, Zenon DEF FlagsTyped, Complete, driverVars
<1> QED BY <1>1, <1>2, <1>3, <1>4, <1>5, <1>6, TypePartsNext

LEMMA TypeReconfigure ==
  ASSUME TypeOK, NEW d \in BlockDevices, Reconfigure(d)
  PROVE  TypeOK'
<1>1. PlaceTyped'
  BY TypeParts DEF PlaceTyped, Reconfigure, driverVars
<1>2. RequestTyped'
  BY TypeParts DEF RequestTyped, Reconfigure, Waiting, driverVars
<1>3. ConfigTyped'
  <2>1. ConfigTyped /\ d \in Devices
    BY TypeParts, DeviceAssumption
  <2>2. config[d] + 1 \in Nat
    BY <2>1 DEF ConfigTyped
  <2>3. config' \in [Devices -> Nat]
    BY <2>1, <2>2 DEF ConfigTyped, Reconfigure
  <2> QED BY <2>1, <2>3 DEF ConfigTyped, Reconfigure, driverVars
<1>4. IndexTyped'
  BY TypeParts DEF IndexTyped, Reconfigure, driverVars, sharedVars
<1>5. DataTyped'
  BY TypeParts DEF DataTyped, Reconfigure, driverVars, sharedVars
<1>6. FlagsTyped'
  BY TypeParts, Zenon DEF FlagsTyped, Reconfigure, driverVars
<1> QED BY <1>1, <1>2, <1>3, <1>4, <1>5, <1>6, TypePartsNext

LEMMA TypeStutter ==
  ASSUME TypeOK, UNCHANGED vars
  PROVE  TypeOK'
<1>1. PlaceTyped' /\ RequestTyped'
  BY TypeParts DEF PlaceTyped, RequestTyped, Waiting, vars, driverVars
<1>2. ConfigTyped' /\ IndexTyped' /\ DataTyped'
  BY TypeParts DEF ConfigTyped, IndexTyped, DataTyped, vars, driverVars, sharedVars, deviceVars
<1>3. FlagsTyped'
  BY TypeParts, Zenon DEF FlagsTyped, vars, driverVars, deviceVars
<1> QED BY <1>1, <1>2, <1>3, TypePartsNext

LEMMA TypeStep == TypeOK /\ [Next]_vars => TypeOK'
<1> SUFFICES ASSUME TypeOK, [Next]_vars PROVE TypeOK'
  OBVIOUS
<1>1. CASE Driver
  BY <1>1, TypeNext, TypeReadConfig, TypeNew, TypeDrop, TypeReadBlocks,
     TypeWriteDescriptors, TypePublish, TypePoll, TypeComplete DEF Driver
<1>2. CASE \E d \in BlockDevices : Device(d)
  BY <1>2, TypeFetch, TypeCompleteRequest, TypeReconfigure DEF Device
<1>3. CASE UNCHANGED vars
  BY <1>3, TypeStutter
<1> QED BY <1>1, <1>2, <1>3 DEF Next, Done

\* Whatever the devices do and however slow they are, the ring indices stay
\* 16-bit values, the poll count stays within its limit, every device only
\* ever holds requests for buffers a caller has lent, and memory holds sectors.
THEOREM VirtioTypeCorrect == Spec => []TypeOK
  BY TypeInit, TypeStep, PTL DEF Spec

-----------------------------------------------------------------------------
(* The capacity. *)

LEMMA ConfigStep ==
  ASSUME TypeOK, ConfigSound, CapacityIsNotTorn, [Next]_vars
  PROVE  ConfigSound' /\ CapacityIsNotTorn'
<1>1. PlaceTyped /\ ConfigTyped
  BY TypeParts
<1>0. config_read.before \in Nat /\ config_read.low \in Nat /\ config_read.high \in Nat
  BY <1>1 DEF ConfigTyped
<1>2. CASE UNCHANGED <<pc, slot, config_read, capacity_sectors, config>>
  BY <1>2 DEF ConfigSound, CapacityIsNotTorn
<1>3. CASE /\ pc' \notin {"low", "high", "generation again"}
           /\ UNCHANGED capacity_sectors
  BY <1>3 DEF ConfigSound, CapacityIsNotTorn
<1>4. CASE read_config_u64_le
  <2>1. slot \in Devices /\ config[slot] \in Nat
    BY <1>1, <1>4, SlotIsDevice DEF ConfigTyped, read_config_u64_le
  <2>2. UNCHANGED <<slot, config>>
    BY <1>4 DEF read_config_u64_le, deviceVars
  <2>3. CASE pc = "generation"
    <3>1. /\ config_read' = [config_read EXCEPT !.before = config[slot]]
          /\ pc' = "low" /\ UNCHANGED capacity_sectors
      BY <1>4, <2>3 DEF read_config_u64_le
    <3>2. /\ config_read'.before = config[slot]
          /\ config_read'.low = config_read.low /\ config_read'.high = config_read.high
      BY <1>1, <3>1 DEF ConfigTyped
    <3> QED BY <1>0, <2>1, <2>2, <2>3, <3>1, <3>2 DEF ConfigSound, CapacityIsNotTorn
  <2>4. CASE pc = "low"
    <3>1. /\ config_read' = [config_read EXCEPT !.low = config[slot]]
          /\ pc' = "high" /\ UNCHANGED capacity_sectors
      BY <1>4, <2>4 DEF read_config_u64_le
    <3>2. /\ config_read'.low = config[slot]
          /\ config_read'.before = config_read.before /\ config_read'.high = config_read.high
      BY <1>1, <3>1 DEF ConfigTyped
    <3> QED BY <1>0, <2>1, <2>2, <2>4, <3>1, <3>2 DEF ConfigSound, CapacityIsNotTorn
  <2>5. CASE pc = "high"
    <3>1. /\ config_read' = [config_read EXCEPT !.high = config[slot]]
          /\ pc' = "generation again" /\ UNCHANGED capacity_sectors
      BY <1>4, <2>5 DEF read_config_u64_le
    <3>2. /\ config_read'.high = config[slot]
          /\ config_read'.before = config_read.before /\ config_read'.low = config_read.low
      BY <1>1, <3>1 DEF ConfigTyped
    <3>3. config_read.before <= config_read.low /\ config_read.low <= config[slot]
      BY <2>5, Zenon DEF ConfigSound
    <3>4. config'[slot'] = config[slot] /\ config[slot] <= config[slot]
      BY <2>1, <2>2
    <3> QED BY <3>1, <3>2, <3>3, <3>4, Zenon DEF ConfigSound, CapacityIsNotTorn
  <2>6. CASE pc = "generation again" /\ config_read.before = config[slot]
    <3>1. /\ capacity_sectors' = [low |-> config_read.low, high |-> config_read.high]
          /\ pc' = "reset"
      BY <1>4, <2>6 DEF read_config_u64_le
    <3>2. config_read.low = config_read.high
      <4>1. /\ config_read.before <= config_read.low
            /\ config_read.low <= config_read.high
            /\ config_read.high <= config[slot]
        BY <2>6, Zenon DEF ConfigSound
      <4>2. config[slot] = config_read.before
        BY <2>6
      <4> QED BY <1>0, <2>1, <4>1, <4>2
    <3> QED BY <3>1, <3>2 DEF ConfigSound, CapacityIsNotTorn
  <2>7. CASE pc = "generation again" /\ config_read.before # config[slot]
    <3>1. pc' = "generation" /\ UNCHANGED capacity_sectors
      BY <1>4, <2>7 DEF read_config_u64_le
    <3> QED BY <3>1 DEF ConfigSound, CapacityIsNotTorn
  <2> QED BY <1>4, <2>3, <2>4, <2>5, <2>6, <2>7 DEF read_config_u64_le
<1>5. ASSUME NEW d \in BlockDevices, Reconfigure(d) PROVE ConfigSound' /\ CapacityIsNotTorn'
  <2>1. d \in Devices /\ d = slot /\ config[slot] \in Nat
    BY <1>1, <1>5, DeviceAssumption DEF ConfigTyped, Reconfigure
  <2>2. UNCHANGED <<pc, slot, config_read, capacity_sectors>> /\ config'[slot] = config[slot] + 1
    BY <1>1, <1>5, <2>1 DEF ConfigTyped, Reconfigure, driverVars
  <2>3. \A n \in Nat : n <= config[slot] => n <= config'[slot']
    BY <2>1, <2>2
  <2> QED BY <1>0, <2>2, <2>3, Zenon DEF ConfigSound, CapacityIsNotTorn
<1>6. CASE next \/ new \/ drop
  BY <1>6, <1>3 DEF next, new, drop
<1>7. ASSUME NEW sector \in Sectors, NEW buffer \in Buffers, NEW lengthOk \in BOOLEAN,
             read_blocks(sector, buffer, lengthOk)
      PROVE  ConfigSound' /\ CapacityIsNotTorn'
  BY <1>7, <1>3 DEF read_blocks
<1>8. CASE write_descriptors \/ publish
  BY <1>8, <1>3 DEF write_descriptors, publish
<1>9. CASE poll \/ complete
  BY <1>9, <1>3 DEF poll, complete, Return
<1>10. ASSUME NEW d \in BlockDevices, Fetch(d) \/ Complete(d)
       PROVE  ConfigSound' /\ CapacityIsNotTorn'
  BY <1>10, <1>2 DEF Fetch, Complete, driverVars
<1>11. CASE UNCHANGED vars
  BY <1>11, <1>2 DEF vars, driverVars, deviceVars
<1> QED BY <1>4, <1>5, <1>6, <1>7, <1>8, <1>9, <1>10, <1>11 DEF Next, Driver, Device, Done

-----------------------------------------------------------------------------
(* Driver and device in step. *)

\* Steps that touch no device leave the quiet ones quiet.
LEMMA StillQuiet ==
  ASSUME UNCHANGED <<live, kicked, pending>>, NEW d
  PROVE  Quiet(d)' <=> Quiet(d)
  BY Zenon DEF Quiet

\* Outside the calls only quietness counts.
LEMMA QuietBetweenCalls ==
  ASSUME pc' \notin {"idle", "descriptors", "publish", "poll"},
         \A d \in BlockDevices : Quiet(d)'
  PROVE  InStep'
  BY Zenon DEF InStep, Waiting

LEMMA AllQuiet ==
  ASSUME InStep, pc # "poll"
  PROVE  \A d \in BlockDevices : Quiet(d)
  BY Zenon DEF InStep

LEMMA StepProbe ==
  ASSUME TypeOK, InStep, next \/ read_config_u64_le \/ drop
  PROVE  InStep'
<1>1. \A d \in BlockDevices : Quiet(d)
  BY AllQuiet DEF next, read_config_u64_le, drop
<1>2. UNCHANGED <<live, kicked, pending>>
  BY DEF next, read_config_u64_le, drop, deviceVars
<1>3. pc' \notin {"idle", "descriptors", "publish", "poll"}
  BY DEF next, read_config_u64_le, drop
<1> QED BY <1>1, <1>2, <1>3, StillQuiet, QuietBetweenCalls

LEMMA StepNew ==
  ASSUME TypeOK, InStep, new
  PROVE  InStep'
<1>1. \A d \in BlockDevices : Quiet(d)
  BY AllQuiet DEF new
<1>2. slot \in Devices /\ slot \in BlockDevices
  BY TypeParts, SlotIsDevice DEF new
<1>3. FlagsTyped /\ DataTyped /\ IndexTyped
  BY TypeParts
<1>4. \A d \in BlockDevices : Quiet(d)'
  <2> SUFFICES ASSUME NEW d \in BlockDevices PROVE Quiet(d)'
    OBVIOUS
  <2>1. CASE d = slot
    BY <2>1, <1>2, <1>3 DEF Quiet, new, FlagsTyped, DataTyped
  <2>2. CASE d # slot
    BY <2>2, <1>1, <1>2, <1>3 DEF Quiet, new, FlagsTyped, DataTyped
  <2> QED BY <2>1, <2>2
<1>5. CASE pc' = "probe"
  BY <1>4, <1>5, QuietBetweenCalls
<1>6. CASE /\ pc' = "idle" /\ avail_idx' = 0 /\ used_idx' = 0 /\ queue' = EmptyQueue
           /\ live' = [live EXCEPT ![slot] = TRUE]
  <2>1. Settled'
    BY <1>2, <1>3, <1>4, <1>6 DEF Settled, new, FlagsTyped, IndexTyped, EmptyQueue
  <2> QED BY <1>4, <1>6, <2>1, Zenon DEF InStep, Waiting
<1> QED BY <1>5, <1>6 DEF new

LEMMA StepReadBlocks ==
  ASSUME TypeOK, InStep, NEW sector \in Sectors, NEW buffer \in Buffers,
         NEW lengthOk \in BOOLEAN, read_blocks(sector, buffer, lengthOk)
  PROVE  InStep'
<1>1. \A d \in BlockDevices : Quiet(d)'
  BY AllQuiet, StillQuiet DEF read_blocks, deviceVars
<1>2. Settled
  BY DEF InStep, read_blocks
<1>3. Settled'
  BY <1>2 DEF Settled, Quiet, read_blocks, deviceVars
<1>4. pc' = "idle" \/ (pc' = "descriptors" /\ Described')
  BY DEF read_blocks, Described
<1> QED BY <1>1, <1>3, <1>4, Zenon DEF InStep, Waiting

LEMMA StepWriteDescriptors ==
  ASSUME TypeOK, InStep, write_descriptors
  PROVE  InStep'
<1>1. \A d \in BlockDevices : Quiet(d)'
  BY AllQuiet, StillQuiet DEF write_descriptors, deviceVars
<1>2. Settled /\ Described
  BY DEF InStep, Waiting, write_descriptors
<1>3. IndexTyped
  BY TypeParts
<1>4. Settled'
  BY <1>2, <1>3 DEF Settled, Quiet, IndexTyped, Queue, write_descriptors, deviceVars
<1>5. Described' /\ Lent' /\ pc' = "publish"
  BY <1>2, <1>3 DEF Described, Lent, IndexTyped, Queue, write_descriptors
<1> QED BY <1>1, <1>4, <1>5, Zenon DEF InStep, Waiting

LEMMA StepPublish ==
  ASSUME TypeOK, InStep, publish
  PROVE  InStep'
<1>1. Settled /\ Described /\ Lent
  BY DEF InStep, Waiting, publish
<1>2. IndexTyped /\ FlagsTyped /\ slot \in Devices
  BY TypeParts, SlotIsDevice DEF publish
<1>3. \A d \in BlockDevices : d = slot' \/ Quiet(d)'
  BY <1>2, AllQuiet DEF Quiet, FlagsTyped, publish
<1>4. live'[slot'] /\ queue'.avail = avail_idx'
  BY <1>1, <1>2 DEF Settled, IndexTyped, Queue, publish
<1>5. Published'
  BY <1>1, <1>2 DEF Settled, Quiet, Published, IndexTyped, FlagsTyped, Queue, publish
<1>6. Described' /\ Lent' /\ pc' = "poll"
  BY <1>1, <1>2 DEF Described, Lent, IndexTyped, Queue, publish
<1> QED BY <1>3, <1>4, <1>5, <1>6, Zenon DEF InStep, Waiting

LEMMA StepPoll ==
  ASSUME InStep, poll, ~abandoned'
  PROVE  InStep'
<1>1. UNCHANGED <<pc, slot, avail_idx, used_idx, request, sharedVars, deviceVars>>
  BY DEF poll, Return
<1> QED BY <1>1 DEF InStep, Quiet, Settled, Published, Taken, Answered, Described, Lent,
                    Waiting, sharedVars, deviceVars

\* The used index of this slot differs from the driver's only after an answer.
LEMMA AnsweredWhenUsedMoves ==
  ASSUME InStep, pc = "poll", queue.used # used_idx
  PROVE  Answered /\ live[slot] /\ queue.avail = avail_idx
  BY Zenon DEF InStep, Published, Taken

LEMMA StepComplete ==
  ASSUME InStep, complete, ~abandoned'
  PROVE  InStep'
<1>1. Answered /\ live[slot] /\ queue.avail = avail_idx
  BY AnsweredWhenUsedMoves DEF complete
<1>2. /\ pc' = "idle" /\ used_idx' = Wrap(used_idx + 1)
      /\ UNCHANGED <<slot, avail_idx, sharedVars, deviceVars>>
  BY DEF complete, Return
<1>3. Settled'
  BY <1>1, <1>2 DEF Answered, Settled, Quiet, sharedVars, deviceVars
<1>4. \A d \in BlockDevices : d = slot' \/ Quiet(d)'
  BY <1>2 DEF InStep, Quiet, deviceVars
<1> QED BY <1>2, <1>3, <1>4, Zenon DEF InStep, Settled, Waiting

\* Only the device of this slot acts, while the driver polls.
LEMMA StepFetch ==
  ASSUME TypeOK, InStep, NEW d \in BlockDevices, Fetch(d)
  PROVE  InStep'
<1>1. d = slot /\ pc = "poll"
  BY Zenon DEF InStep, Quiet, Fetch
<1>2. /\ live[slot] /\ queue.avail = avail_idx /\ Published
      /\ Described /\ Lent /\ \A e \in BlockDevices : e = slot \/ Quiet(e)
  BY <1>1, Zenon DEF InStep, Taken, Answered, Waiting, Fetch
<1>3. IndexTyped /\ FlagsTyped /\ DataTyped /\ RequestTyped /\ slot \in Devices
  BY <1>1, TypeParts, SlotIsDevice
<1>4. Wrap(queue.avail - last_avail[d]) = 1
  <2>1. last_avail[slot] \in Indices
    BY <1>3 DEF IndexTyped
  <2> QED BY <1>1, <1>2, <2>1, WrapNext DEF Published
<1>5. queue.buffer # NoBuffer
  BY <1>1, <1>2, <1>3, DeviceAssumption DEF Lent, RequestTyped, Waiting
<1>6. 1 <= QueueSize /\ ~(1 > QueueSize)
  BY QueueAssumption
<1>7. /\ kicked' = [kicked EXCEPT ![slot] = FALSE]
      /\ last_avail' = [last_avail EXCEPT ![slot] = queue.avail]
      /\ pending' = [pending EXCEPT ![slot] =
           pending[slot] \o [k \in 1..1 |-> [sector |-> header, buffer |-> queue.buffer]]]
      /\ UNCHANGED live
  BY <1>1, <1>4, <1>5, <1>6, Zenon DEF Fetch
<1>8. pending'[slot] = <<request>>
  <2> DEFINE one == [sector |-> header, buffer |-> queue.buffer]
  <2>1. one = request
    BY <1>2, <1>3 DEF Described, Lent, RequestTyped
  <2>2. pending[slot] = <<>>
    BY <1>2 DEF Published
  <2>3. <<>> \o [k \in 1..1 |-> request] = <<request>>
    OBVIOUS
  <2> QED BY <1>3, <1>7, <2>1, <2>2, <2>3 DEF DataTyped
<1>9. UNCHANGED <<pc, slot, avail_idx, used_idx, request, queue, header, device_used>>
  BY DEF Fetch, driverVars, sharedVars
<1>10. Taken'
  BY <1>2, <1>3, <1>7, <1>8, <1>9 DEF Published, Taken, IndexTyped, FlagsTyped
<1>11. \A e \in BlockDevices : e = slot' \/ Quiet(e)'
  BY <1>2, <1>3, <1>7, <1>9 DEF Quiet, FlagsTyped, DataTyped
<1>12. Described' /\ Lent'
  BY <1>2, <1>9 DEF Described, Lent
<1>13. live'[slot'] /\ queue'.avail = avail_idx' /\ pc' = "poll"
  BY <1>1, <1>2, <1>7, <1>9
<1> QED BY <1>10, <1>11, <1>12, <1>13, Zenon DEF InStep, Waiting

LEMMA StepCompleteRequest ==
  ASSUME TypeOK, InStep, NEW d \in BlockDevices, Complete(d)
  PROVE  InStep'
<1>1. live[d] /\ pending[d] # <<>>
  BY DEF Complete
<1>2. d = slot /\ pc = "poll"
  BY <1>1, Zenon DEF InStep, Quiet
<1>3. /\ live[slot] /\ queue.avail = avail_idx /\ Taken
      /\ Described /\ Lent /\ \A e \in BlockDevices : e = slot \/ Quiet(e)
  BY <1>1, <1>2, Zenon DEF InStep, Published, Answered, Waiting
<1>4. IndexTyped /\ FlagsTyped /\ DataTyped /\ RequestTyped /\ slot \in Devices
  BY <1>2, TypeParts, SlotIsDevice
<1>5. pending[slot] = <<request>> /\ Len(pending[slot]) = 1 /\ pending[slot][1] = request
  BY <1>3 DEF Taken
<1>6. PICK ok \in BOOLEAN, id \in UsedIds :
        /\ memory' = IF ok THEN [memory EXCEPT ![request.buffer] = <<slot, request.sector>>]
                           ELSE memory
        /\ status' = IF ok THEN "ok" ELSE "failed"
        /\ device_used' = [device_used EXCEPT ![slot] = Wrap(device_used[slot] + 1)]
        /\ queue' = [queue EXCEPT !.ring[device_used[slot] % QueueSize] = id,
                                  !.used = device_used'[slot]]
        /\ pending' = [pending EXCEPT ![slot] = <<>>]
  <2>1. PICK k \in 1..Len(pending[d]), ok \in BOOLEAN, id \in UsedIds :
        /\ memory' = IF ok THEN [memory EXCEPT ![pending[d][k].buffer] =
                                   <<d, pending[d][k].sector>>]
                           ELSE memory
        /\ status' = IF ok THEN "ok" ELSE "failed"
        /\ device_used' = [device_used EXCEPT ![d] = Wrap(device_used[d] + 1)]
        /\ queue' = [queue EXCEPT !.ring[device_used[d] % QueueSize] = id,
                                  !.used = device_used'[d]]
        /\ pending' = [pending EXCEPT ![d] =
             [j \in 1..(Len(pending[d]) - 1) |-> pending[d][IF j < k THEN j ELSE j + 1]]]
    BY Zenon DEF Complete
  <2>2. k = 1
    BY <1>2, <1>5, <2>1
  <2>3. [j \in 1..(Len(pending[d]) - 1) |-> pending[d][IF j < k THEN j ELSE j + 1]] = <<>>
    BY <1>2, <1>5
  <2>4. pending[d][k] = request
    BY <1>2, <1>5, <2>2
  <2> QED BY <1>2, <2>1, <2>3, <2>4, Zenon
<1>7. UNCHANGED <<pc, slot, avail_idx, used_idx, request, header, live, kicked, last_avail>>
  BY DEF Complete, driverVars
<1>8. /\ queue'.used = device_used'[slot] /\ queue'.avail = queue.avail
      /\ queue'.buffer = queue.buffer
  BY <1>4, <1>6 DEF IndexTyped, Queue
<1>9. Answered'
  <2>1. device_used'[slot'] = Wrap(used_idx' + 1) /\ queue'.used = device_used'[slot']
    BY <1>3, <1>4, <1>6, <1>7, <1>8 DEF IndexTyped, Taken
  <2>2. pending'[slot'] = <<>> /\ ~kicked'[slot'] /\ avail_idx' = last_avail'[slot']
    BY <1>3, <1>4, <1>6, <1>7 DEF DataTyped, Taken
  <2>3. status' = "ok" => memory'[request'.buffer] = <<slot', request'.sector>>
    BY <1>2, <1>4, <1>6, <1>7 DEF DataTyped, RequestTyped, Waiting
  <2> QED BY <2>1, <2>2, <2>3, Zenon DEF Answered
<1>10. \A e \in BlockDevices : e = slot' \/ Quiet(e)'
  BY <1>3, <1>4, <1>6, <1>7 DEF Quiet, DataTyped
<1>11. Described' /\ Lent'
  BY <1>3, <1>7, <1>8 DEF Described, Lent
<1>12. live'[slot'] /\ queue'.avail = avail_idx' /\ pc' = "poll"
  BY <1>2, <1>3, <1>7, <1>8
<1> QED BY <1>9, <1>10, <1>11, <1>12, Zenon DEF InStep, Waiting

LEMMA StepSame ==
  ASSUME InStep,
         UNCHANGED <<pc, slot, avail_idx, used_idx, request, sharedVars,
                     live, kicked, last_avail, device_used, pending>>
  PROVE  InStep'
  BY DEF InStep, Quiet, Settled, Published, Taken, Answered, Described, Lent,
         Waiting, sharedVars

\* A call that has given up is not forgotten.
LEMMA AbandonedStays ==
  ASSUME [Next]_vars, ~abandoned'
  PROVE  ~abandoned
  BY DEF Next, Driver, Device, Done, next, read_config_u64_le, new, drop, read_blocks,
         write_descriptors, publish, poll, complete, Return, Fetch, Complete, Reconfigure,
         vars, driverVars

LEMMA InStepStep ==
  ASSUME TypeOK, ~abandoned => InStep, [Next]_vars, ~abandoned'
  PROVE  InStep'
<1>1. InStep
  BY AbandonedStays
<1>2. CASE Driver
  BY <1>1, <1>2, StepProbe, StepNew, StepReadBlocks, StepWriteDescriptors, StepPublish,
     StepPoll, StepComplete DEF Driver
<1>3. ASSUME NEW d \in BlockDevices, Device(d) PROVE InStep'
  <2>1. CASE Fetch(d) \/ Complete(d)
    BY <1>1, <2>1, StepFetch, StepCompleteRequest
  <2>2. CASE Reconfigure(d)
    BY <1>1, <2>2, StepSame DEF Reconfigure, driverVars
  <2> QED BY <1>3, <2>1, <2>2 DEF Device
<1>4. CASE UNCHANGED vars
  BY <1>1, <1>4, StepSame DEF vars, driverVars, deviceVars
<1> QED BY <1>2, <1>3, <1>4 DEF Next, Done

-----------------------------------------------------------------------------
(* The theorems. *)

LEMMA IndInvInit == Init => IndInv
<1> SUFFICES ASSUME Init PROVE IndInv
  OBVIOUS
<1>1. TypeOK
  BY TypeInit
<1>2. ConfigSound /\ CapacityIsNotTorn
  BY DEF Init, ConfigSound, CapacityIsNotTorn
<1>3. InStep
  <2>1. \A d \in BlockDevices : Quiet(d)
    BY DeviceAssumption DEF Init, Quiet
  <2> QED BY <2>1 DEF Init, InStep, Waiting
<1> QED BY <1>1, <1>2, <1>3 DEF IndInv

LEMMA IndInvStep == IndInv /\ [Next]_vars => IndInv'
  BY TypeStep, ConfigStep, InStepStep DEF IndInv

LEMMA IndInvAlways == Spec => []IndInv
  BY IndInvInit, IndInvStep, PTL DEF Spec

\* read_config_u64_le never hands `new` the halves of two capacities, however
\* often and whenever the device changes its configuration during the read.
THEOREM CapacityNeverTorn == Spec => []CapacityIsNotTorn
<1>1. IndInv => CapacityIsNotTorn
  BY DEF IndInv
<1> QED BY <1>1, IndInvAlways, PTL

\* Until a call of read_blocks gives up, the shared request storage and the
\* buffers lent to it are in the hands of no device but the one the driver is
\* polling, whatever earlier drivers of other slots have left behind.
THEOREM MemoryOnlyLent == Spec => []OnlyLentMemory
<1>1. IndInv => OnlyLentMemory
  <2> SUFFICES ASSUME IndInv, ~abandoned, NEW d \in BlockDevices,
                      (live[d] /\ kicked[d]) \/ pending[d] # <<>>
               PROVE  /\ d = slot
                      /\ pc = "poll"
                      /\ \A k \in 1..Len(pending[d]) : pending[d][k].buffer = request.buffer
    BY Zenon DEF OnlyLentMemory
  <2>1. InStep
    BY DEF IndInv
  <2>2. ~Quiet(d)
    BY Zenon DEF Quiet
  <2>3. d = slot /\ pc = "poll"
    BY <2>1, <2>2, Zenon DEF InStep
  <2>4. pending[slot] = <<>> \/ pending[slot] = <<request>>
    BY <2>1, <2>3, Zenon DEF InStep, Published, Taken, Answered
  <2>5. \A k \in 1..Len(pending[d]) : pending[d][k].buffer = request.buffer
    BY <2>3, <2>4
  <2> QED BY <2>3, <2>5
<1> QED BY <1>1, IndInvAlways, PTL

\* Only complete answers a call with Ok, after its device has written the data.
LEMMA OkComesWithTheSector ==
  ASSUME IndInv, [Next]_vars, ~abandoned
  PROVE  SectorArrives
<1> SUFFICES ASSUME pc = "poll", pc' = "idle", result' = "Ok"
             PROVE  memory'[request.buffer] = <<slot, request.sector>>
  BY DEF SectorArrives
<1>1. complete
  <2>1. CASE Driver
    <3>1. ~poll
      BY DEF poll, Return
    <3> QED BY <2>1, <3>1 DEF Driver, next, read_config_u64_le, new, drop, read_blocks,
                              write_descriptors, publish
  <2>2. ~(\E d \in BlockDevices : Device(d)) /\ ~UNCHANGED vars
    BY DEF Device, Fetch, Complete, Reconfigure, vars, driverVars
  <2> QED BY <2>1, <2>2 DEF Next, Done
<1>2. status = "ok" /\ UNCHANGED memory
  BY <1>1 DEF complete, Return, sharedVars
<1>3. Answered
  BY <1>1, AnsweredWhenUsedMoves DEF IndInv, complete
<1> QED BY <1>2, <1>3 DEF Answered

\* Until a call has given up, an Ok of read_blocks comes with the sector asked
\* for, from the device asked: with any number of devices, any queue size and
\* index range, however slow the devices are and whatever ids they write.
THEOREM ReadsAreRight == Spec => ReadsUntilAbandoned
<1>1. IndInv /\ [Next]_vars => [~abandoned => SectorArrives]_vars
  BY OkComesWithTheSector
<1> QED BY <1>1, IndInvAlways, PTL DEF Spec, ReadsUntilAbandoned

\* Only a slow device or a wrong id makes a call give up.
LEMMA NobodyGivesUp ==
  ASSUME SlowDevices = {}, UsedIds = {0}, TypeOK, [Next]_vars, ~abandoned
  PROVE  ~abandoned'
<1>1. CASE poll
  BY <1>1 DEF poll
<1>2. CASE complete
  <2>1. used_idx % QueueSize \in RingSlots /\ queue.ring \in [RingSlots -> UsedIds]
    BY TypeParts, RingIndex DEF IndexTyped, Queue
  <2>2. queue.ring[used_idx % QueueSize] = 0
    BY <2>1
  <2> QED BY <1>2, <2>2 DEF complete, Return
<1>3. CASE UNCHANGED abandoned
  BY <1>3
<1> QED BY <1>1, <1>2, <1>3
        DEF Next, Driver, Device, Done, next, read_config_u64_le, new, drop, read_blocks,
            write_descriptors, publish, Fetch, Complete, Reconfigure, vars, driverVars

\* With devices that answer within the poll limit and name the chain they were
\* given, read_blocks always keeps its word.  A late answer or a wrong id
\* is thus the only way to wrong data.
THEOREM PromptDevicesReadRight ==
  ASSUME SlowDevices = {}, UsedIds = {0}
  PROVE  Spec => ReadsTheSector
<1>1. Init => ~abandoned
  BY DEF Init
<1>2. TypeOK /\ ~abandoned /\ [Next]_vars => ~abandoned'
  BY NobodyGivesUp
<1>3. IndInv /\ ~abandoned /\ [Next]_vars => [SectorArrives]_vars
  BY OkComesWithTheSector
<1> QED BY <1>1, <1>2, <1>3, IndInvAlways, VirtioTypeCorrect, PTL DEF Spec, ReadsTheSector

=============================================================================
