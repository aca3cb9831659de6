------------------------------ MODULE VirtioBlk ------------------------------
(***************************************************************************)
(* The polling VirtIO block driver of virtio.rs and the devices it talks   *)
(* to.  probe_virtio visits the MMIO slots one after the other, builds a   *)
(* driver for each block device and reads sectors through it.  All drivers *)
(* share one static queue page, one request header and one status byte,    *)
(* and a device is never told that its driver has gone.                    *)
(*                                                                         *)
(* The devices are the environment and run concurrently: a device looks at *)
(* the queue when it is notified, takes every new request at once and      *)
(* completes what it took later, in any order.                             *)
(*                                                                         *)
(* Every request uses the descriptor chain 0 -> 1 -> 2 and every entry of  *)
(* the available ring is 0, so of the chain only the buffer address is     *)
(* kept, and of the available ring only its index.                         *)
(***************************************************************************)
EXTENDS Integers, Sequences

CONSTANTS
  Slots,            \* number of MMIO slots (8)
  BlockDevices,     \* slots that hold a block device
  Version1Devices,  \* slots whose device offers VIRTIO_F_VERSION_1
  AgreeingDevices,  \* slots whose device accepts the feature set
  LargeQueues,      \* slots whose queue has room for QueueSize entries
  SlowDevices,      \* slots whose device may exceed the poll limit
  Sectors,          \* sectors callers read
  Buffers,          \* memory callers lend to read_blocks
  NoBuffer,         \* the address in a zeroed descriptor
  UsedIds,          \* ids a device may write into the used ring; 0 is right
  QueueSize,        \* VIRTIO_BLOCK_QUEUE_SIZE (4)
  IndexModulus,     \* 2^16, the range of the ring indices
  PollLimit,        \* VIRTIO_BLOCK_REQUEST_POLL_LIMIT (10,000,000)
  MaxCalls,         \* bound: read_blocks calls in one behaviour, and ...
  MaxLateCalls,     \* ... when one of them has given up on its request
  MaxConfigs        \* bound: configuration changes of one device

ASSUME QueueAssumption ==
  /\ Slots \in Nat
  /\ QueueSize \in Nat \ {0}
  /\ IndexModulus \in Nat \ {0}
  /\ QueueSize < IndexModulus
  /\ IndexModulus % QueueSize = 0
  /\ PollLimit \in Nat
  /\ MaxCalls \in Nat
  /\ MaxLateCalls \in 0..MaxCalls
  /\ MaxConfigs \in Nat

ASSUME DeviceAssumption ==
  /\ BlockDevices \subseteq 1..Slots
  /\ NoBuffer \notin Buffers
  /\ UsedIds \subseteq Nat
  /\ 0 \in UsedIds

VARIABLES
  \* The driver.
  pc,               \* where the firmware is
  slot,             \* MMIO slot being used; the iterator's slot is the next
  config_read,      \* read_config_u64_le: generation seen before, and halves
  capacity_sectors, \* the halves of the capacity `new` settled on
  avail_idx,        \* next available index to publish
  used_idx,         \* used index consumed so far
  request,          \* sector and buffer of the call in progress
  spins,            \* polls made for it
  result,           \* what the last call returned
  calls,            \* read_blocks calls so far
  abandoned,        \* history: some call has given up on its request
  \* The memory the driver shares with every device.
  queue,            \* avail and used index, used ring, buffer descriptor
  header,           \* VIRTIO_BLOCK_REQUEST_HEADER: the sector
  status,           \* VIRTIO_BLOCK_REQUEST_STATUS
  memory,           \* what each buffer holds
  \* The devices.
  config,           \* generation of the configuration; its halves follow it
  live,             \* DRIVER_OK is set and queue 0 is ready
  kicked,           \* a notification the device has not looked at
  last_avail,       \* available index up to which requests were taken
  device_used,      \* used index the device will publish next
  pending           \* requests taken and not completed

driverVars == <<pc, slot, config_read, capacity_sectors, avail_idx, used_idx,
                request, spins, result, calls, abandoned>>
sharedVars == <<queue, header, status, memory>>
deviceVars == <<config, live, kicked, last_avail, device_used, pending>>
vars == <<driverVars, sharedVars, deviceVars>>

Devices == 1..Slots
RingSlots == 0..(QueueSize - 1)
Indices == 0..(IndexModulus - 1)

\* Inside read_blocks and inside new.
Waiting == pc \in {"descriptors", "publish", "poll"}
Starting == pc \in {"generation", "low", "high", "generation again", "reset"}

\* Mutant: an index that does not wrap.
NoWrap(n) == n

Wrap(n) == n % IndexModulus

\* The zeroed queue page.
EmptyQueue ==
  [avail |-> 0, used |-> 0, ring |-> [k \in RingSlots |-> 0], buffer |-> NoBuffer]

\* 0xff before a device has answered.
Unanswered == "unanswered"

NoConfig == [before |-> 0, low |-> 0, high |-> 0]
NoRequest == [sector |-> 0, buffer |-> NoBuffer]

Init ==
  /\ pc = "probe"
  /\ slot = 0
  /\ config_read = NoConfig
  /\ capacity_sectors = [low |-> 0, high |-> 0]
  /\ avail_idx = 0
  /\ used_idx = 0
  /\ request = NoRequest
  /\ spins = 0
  /\ result = "none"
  /\ calls = 0
  /\ abandoned = FALSE
  /\ queue = EmptyQueue
  /\ header = 0
  /\ status = Unanswered
  /\ memory = [b \in Buffers |-> <<0, 0>>]
  /\ config = [d \in Devices |-> 0]
  /\ live = [d \in Devices |-> FALSE]
  /\ kicked = [d \in Devices |-> FALSE]
  /\ last_avail = [d \in Devices |-> 0]
  /\ device_used = [d \in Devices |-> 0]
  /\ pending = [d \in Devices |-> <<>>]

-----------------------------------------------------------------------------
(* The driver. *)

\* QemuVirtBlockDevices::next skips slots without a block device.
next ==
  /\ pc = "probe"
  /\ \/ /\ slot < Slots
        /\ slot' = slot + 1
        /\ pc' = IF slot + 1 \in BlockDevices THEN "generation" ELSE "probe"
     \/ /\ slot = Slots
        /\ pc' = "done"
        /\ UNCHANGED slot
  /\ UNCHANGED <<config_read, capacity_sectors, avail_idx, used_idx, request,
                 spins, result, calls, abandoned, sharedVars, deviceVars>>

\* Mutant: the generation is not looked at again.
read_config_unchecked ==
  /\ \/ /\ pc = "generation"
        /\ config_read' = [config_read EXCEPT !.before = config[slot]]
        /\ pc' = "low"
        /\ UNCHANGED capacity_sectors
     \/ /\ pc = "low"
        /\ config_read' = [config_read EXCEPT !.low = config[slot]]
        /\ pc' = "high"
        /\ UNCHANGED capacity_sectors
     \/ /\ pc = "high"
        /\ capacity_sectors' = [low |-> config_read.low, high |-> config[slot]]
        /\ pc' = "reset"
        /\ UNCHANGED config_read
  /\ UNCHANGED <<slot, avail_idx, used_idx, request, spins, result, calls,
                 abandoned, sharedVars, deviceVars>>

\* read_config_u64_le reads the generation, the bytes one by one, here as two
\* halves, and the generation again, and starts over if it has changed.
read_config_u64_le ==
  /\ \/ /\ pc = "generation"
        /\ config_read' = [config_read EXCEPT !.before = config[slot]]
        /\ pc' = "low"
        /\ UNCHANGED capacity_sectors
     \/ /\ pc = "low"
        /\ config_read' = [config_read EXCEPT !.low = config[slot]]
        /\ pc' = "high"
        /\ UNCHANGED capacity_sectors
     \/ /\ pc = "high"
        /\ config_read' = [config_read EXCEPT !.high = config[slot]]
        /\ pc' = "generation again"
        /\ UNCHANGED capacity_sectors
     \/ /\ pc = "generation again"
        /\ config_read.before = config[slot]
        /\ capacity_sectors' = [low |-> config_read.low, high |-> config_read.high]
        /\ config_read' = NoConfig
        /\ pc' = "reset"
     \/ /\ pc = "generation again"
        /\ config_read.before # config[slot]
        /\ pc' = "generation"
        /\ UNCHANGED <<config_read, capacity_sectors>>
  /\ UNCHANGED <<slot, avail_idx, used_idx, request, spins, result, calls,
                 abandoned, sharedVars, deviceVars>>

\* The rest of VirtioBlockDriver::new.  A reset makes the device forget its
\* requests; a refusal leaves it reset, and the caller goes on to the next.
\* Only registers of this device are touched before the queue page is zeroed.
new ==
  LET refusal == CASE slot \notin Version1Devices -> "MissingVersion1"
                   [] slot \notin AgreeingDevices -> "FeatureNegotiationFailed"
                   [] slot \notin LargeQueues     -> "QueueTooSmall"
                   [] OTHER                       -> "none"
  IN /\ pc = "reset"
     /\ kicked' = [kicked EXCEPT ![slot] = FALSE]
     /\ last_avail' = [last_avail EXCEPT ![slot] = 0]
     /\ device_used' = [device_used EXCEPT ![slot] = 0]
     /\ pending' = [pending EXCEPT ![slot] = <<>>]
     /\ result' = refusal
     /\ live' = [live EXCEPT ![slot] = refusal = "none"]
     /\ \/ /\ refusal # "none"
           /\ pc' = "probe"
           /\ UNCHANGED <<avail_idx, used_idx, queue>>
        \/ /\ refusal = "none"
           /\ pc' = "idle"
           /\ avail_idx' = 0
           /\ used_idx' = 0
           /\ queue' = EmptyQueue
     /\ UNCHANGED <<slot, config_read, capacity_sectors, request, spins,
                    calls, abandoned, header, status, memory, config>>

\* probe_virtio is finished with this device and drops the driver.
drop ==
  /\ pc = "idle"
  /\ pc' = "probe"
  /\ UNCHANGED <<slot, config_read, capacity_sectors, avail_idx, used_idx,
                 request, spins, result, calls, abandoned, sharedVars,
                 deviceVars>>

\* read_blocks: the length check, then the header and the status byte.
read_blocks(sector, buffer, lengthOk) ==
  /\ pc = "idle"
  /\ calls < IF abandoned THEN MaxLateCalls ELSE MaxCalls
  /\ calls' = calls + 1
  /\ \/ /\ ~lengthOk
        /\ result' = "InvalidBufferLength"
        /\ UNCHANGED <<pc, request, header, status>>
     \/ /\ lengthOk
        /\ request' = [sector |-> sector, buffer |-> buffer]
        /\ header' = sector
        /\ status' = Unanswered
        /\ pc' = "descriptors"
        /\ UNCHANGED result
  /\ UNCHANGED <<slot, config_read, capacity_sectors, avail_idx, used_idx,
                 spins, abandoned, queue, memory, deviceVars>>

\* Mutant: the descriptors are written for the first request only.
write_descriptors_once ==
  /\ pc = "descriptors"
  /\ queue' = IF queue.buffer = NoBuffer
              THEN [queue EXCEPT !.buffer = request.buffer] ELSE queue
  /\ pc' = "publish"
  /\ UNCHANGED <<slot, config_read, capacity_sectors, avail_idx, used_idx,
                 request, spins, result, calls, abandoned, header, status,
                 memory, deviceVars>>

write_descriptors ==
  /\ pc = "descriptors"
  /\ queue' = [queue EXCEPT !.buffer = request.buffer]
  /\ pc' = "publish"
  /\ UNCHANGED <<slot, config_read, capacity_sectors, avail_idx, used_idx,
                 request, spins, result, calls, abandoned, header, status,
                 memory, deviceVars>>

\* set_avail_idx and notify_queue.
publish ==
  /\ pc = "publish"
  /\ avail_idx' = Wrap(avail_idx + 1)
  /\ queue' = [queue EXCEPT !.avail = avail_idx']
  /\ kicked' = [kicked EXCEPT ![slot] = TRUE]
  /\ pc' = "poll"
  /\ UNCHANGED <<slot, config_read, capacity_sectors, used_idx, request,
                 spins, result, calls, abandoned, header, status, memory,
                 config, live, last_avail, device_used, pending>>

\* read_blocks returns; its locals are gone.
Return(outcome) ==
  /\ result' = outcome
  /\ abandoned' = (abandoned \/ outcome \in {"RequestTimeout", "UnexpectedUsedId"})
  /\ pc' = "idle"
  /\ request' = NoRequest
  /\ spins' = 0
  /\ UNCHANGED <<slot, config_read, capacity_sectors, avail_idx, calls,
                 sharedVars, deviceVars>>

\* Mutant: the polls are not counted.
poll_uncounted ==
  /\ pc = "poll"
  /\ queue.used = used_idx
  /\ UNCHANGED vars

\* The poll finds nothing new.  Ten million polls outlast any request of a
\* device that is not slow, so only a slow one runs into the limit.
poll ==
  /\ pc = "poll"
  /\ queue.used = used_idx
  /\ \/ /\ spins < PollLimit
        /\ spins' = spins + 1
        /\ UNCHANGED <<pc, slot, config_read, capacity_sectors, avail_idx,
                       used_idx, request, result, calls, abandoned,
                       sharedVars, deviceVars>>
     \/ /\ spins = PollLimit
        /\ slot \in SlowDevices
        /\ Return("RequestTimeout")
        /\ UNCHANGED used_idx

\* Mutant: the completion is not consumed.
complete_without_advance ==
  /\ pc = "poll"
  /\ queue.used # used_idx
  /\ UNCHANGED used_idx
  /\ Return(IF status = "ok" THEN "Ok" ELSE "BlockRequestFailed")

\* The used index has moved: whatever completed is taken for this request.
complete ==
  /\ pc = "poll"
  /\ queue.used # used_idx
  /\ \/ /\ queue.ring[used_idx % QueueSize] # 0
        /\ Return("UnexpectedUsedId")
        /\ UNCHANGED used_idx
     \/ /\ queue.ring[used_idx % QueueSize] = 0
        /\ used_idx' = Wrap(used_idx + 1)
        /\ Return(IF status = "ok" THEN "Ok" ELSE "BlockRequestFailed")

-----------------------------------------------------------------------------
(* The devices. *)

\* A notified device takes every request published since it last looked, as
\* header and descriptors stand now.  An index it cannot make sense of, or a
\* zeroed chain, makes it stop until it is reset.
Fetch(d) ==
  LET n == Wrap(queue.avail - last_avail[d])
  IN /\ live[d] /\ kicked[d]
     /\ kicked' = [kicked EXCEPT ![d] = FALSE]
     /\ \/ /\ n > QueueSize \/ (n > 0 /\ queue.buffer = NoBuffer)
           /\ live' = [live EXCEPT ![d] = FALSE]
           /\ UNCHANGED <<last_avail, pending>>
        \/ /\ n <= QueueSize
           /\ n > 0 => queue.buffer # NoBuffer
           /\ last_avail' = [last_avail EXCEPT ![d] = queue.avail]
           /\ pending' = [pending EXCEPT ![d] =
                pending[d] \o [k \in 1..n |-> [sector |-> header, buffer |-> queue.buffer]]]
           /\ UNCHANGED live
     /\ UNCHANGED <<driverVars, sharedVars, config, device_used>>

\* One request is answered: data, status byte, used element, used index.
Complete(d) ==
  \E k \in 1..Len(pending[d]), ok \in BOOLEAN, id \in UsedIds :
    /\ live[d]
    /\ memory' = IF ok THEN [memory EXCEPT ![pending[d][k].buffer] =
                               <<d, pending[d][k].sector>>]
                       ELSE memory
    /\ status' = IF ok THEN "ok" ELSE "failed"
    /\ device_used' = [device_used EXCEPT ![d] = Wrap(device_used[d] + 1)]
    /\ queue' = [queue EXCEPT !.ring[device_used[d] % QueueSize] = id,
                              !.used = device_used'[d]]
    /\ pending' = [pending EXCEPT ![d] =
         [j \in 1..(Len(pending[d]) - 1) |-> pending[d][IF j < k THEN j ELSE j + 1]]]
    /\ UNCHANGED <<driverVars, header, config, live, kicked, last_avail>>

\* The device changes its capacity, as a whole and with a new generation.  Only
\* a change during the driver's read can be told from a device that had the
\* new value all along.  In one behaviour one device does so: no driver looks
\* at the configuration of another's device.
Reconfigure(d) ==
  /\ d = slot /\ Starting
  /\ config[d] < MaxConfigs
  /\ \A e \in Devices \ {d} : config[e] = 0
  /\ config' = [config EXCEPT ![d] = config[d] + 1]
  /\ UNCHANGED <<driverVars, sharedVars, live, kicked, last_avail, device_used, pending>>

-----------------------------------------------------------------------------
Driver ==
  \/ next \/ read_config_u64_le \/ new \/ drop
  \/ \E sector \in Sectors, buffer \in Buffers, lengthOk \in BOOLEAN :
       read_blocks(sector, buffer, lengthOk)
  \/ write_descriptors \/ publish \/ poll \/ complete

Device(d) == Fetch(d) \/ Complete(d) \/ Reconfigure(d)

\* Every slot has been probed; probe_virtio returns.
Done == pc = "done" /\ UNCHANGED vars

Next == Driver \/ (\E d \in BlockDevices : Device(d)) \/ Done

Spec == Init /\ [][Next]_vars

\* The hart always runs on.
FairDriver == WF_vars(Driver)

\* A device that is not slow answers what it is asked.
FairDevices ==
  \A d \in BlockDevices \ SlowDevices : WF_vars(Fetch(d)) /\ WF_vars(Complete(d))

FairSpec == Spec /\ FairDriver /\ FairDevices

-----------------------------------------------------------------------------
(* Properties. *)

Requests == [sector : Sectors \cup {0}, buffer : Buffers \cup {NoBuffer}]

\* The shape of the state: ring indices stay 16-bit values and the poll count
\* of read_blocks stays within its limit.
TypeOK ==
  /\ pc \in {"probe", "done", "idle", "generation", "low", "high",
             "generation again", "reset", "descriptors", "publish", "poll"}
  /\ slot \in 0..Slots
  /\ pc \notin {"probe", "done"} => slot \in BlockDevices
  /\ config_read \in [before : Nat, low : Nat, high : Nat]
  /\ capacity_sectors \in [low : Nat, high : Nat]
  /\ avail_idx \in Indices
  /\ used_idx \in Indices
  /\ request \in Requests
  /\ Waiting => request.buffer \in Buffers
  /\ spins \in 0..PollLimit
  /\ result \in {"none", "Ok", "MissingVersion1", "FeatureNegotiationFailed",
                 "QueueTooSmall", "InvalidBufferLength", "RequestTimeout",
                 "UnexpectedUsedId", "BlockRequestFailed"}
  /\ calls \in 0..MaxCalls
  /\ abandoned \in BOOLEAN
  /\ queue \in [avail : Indices, used : Indices, ring : [RingSlots -> UsedIds],
                buffer : Buffers \cup {NoBuffer}]
  /\ header \in Sectors \cup {0}
  /\ status \in {Unanswered, "ok", "failed"}
  /\ memory \in [Buffers -> (0..Slots) \X (Sectors \cup {0})]
  /\ config \in [Devices -> Nat]
  /\ live \in [Devices -> BOOLEAN]
  /\ kicked \in [Devices -> BOOLEAN]
  /\ last_avail \in [Devices -> Indices]
  /\ device_used \in [Devices -> Indices]
  /\ pending \in [Devices -> Seq([sector : Sectors \cup {0}, buffer : Buffers])]

\* The step in which read_blocks returns Ok leaves the sector asked for, from
\* the device asked, in the caller's buffer.
SectorArrives ==
  pc = "poll" /\ pc' = "idle" /\ result' = "Ok" =>
    memory'[request.buffer] = <<slot, request.sector>>

\* read_blocks keeps its word: an Ok comes with the sector.
ReadsTheSector == [][SectorArrives]_vars

\* However slow the devices are, read_blocks keeps its word until a call has
\* given up on a request: late answers to requests it still waits for, index
\* wrap-around and the queue page's second owner are no danger by themselves.
ReadsUntilAbandoned == [][~abandoned => SectorArrives]_vars

\* The static request storage and the caller's buffer belong to the device
\* only while the call that lent them waits: until a call has given up, no
\* device, in particular none whose driver is gone, holds a request or is
\* about to take one otherwise.
OnlyLentMemory ==
  ~abandoned => \A d \in BlockDevices :
    (live[d] /\ kicked[d]) \/ pending[d] # <<>> =>
      /\ d = slot
      /\ pc = "poll"
      /\ \A k \in 1..Len(pending[d]) : pending[d][k].buffer = request.buffer

\* The capacity `new` reports is one the device had, never the halves of two.
CapacityIsNotTorn == capacity_sectors.low = capacity_sectors.high

\* Neither new nor read_blocks waits for ever.
DriverAnswers == (Starting \/ Waiting) ~> (pc \in {"idle", "probe"})

=============================================================================
