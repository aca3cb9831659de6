# Verification of rustfirmware

rustfirmware is a freestanding RISC-V firmware (S-mode, under OpenSBI, one
hart).  It copies itself to high memory, visits the VirtIO block devices of a
QEMU `virt` machine, reads their GPT, loads a Linux kernel and an initrd from
the first boot-flagged partition with a FAT or ext4 file system, and jumps into
the kernel with an edited copy of the device tree.  The files here model the
parts of it that keep state, check them with TLC on small instances, and prove
the most important facts with TLAPS for all instances.

Source paths below are relative to the crate's `src/`.

## 1. Inventory

| Component | State it keeps | Operations | Made correct by |
|---|---|---|---|
| Page allocator (`memory.rs`, `dtb_memory.rs`) | an array of at most 32 memory descriptors, edited in place | `from_fdt`, `from_regions`, `AllocatePages`, `allocate_pages_for_size`, `allocate_aligned_pages(_for_size)`, `FreePages`, `reserve_region_with_type` | the array is a map: ordered, disjoint, each page of the type the tree and the callers gave it; searches miss nothing; reserved pages are never given away; loops end |
| VirtIO block driver (`virtio.rs`) | ring indices, one static queue page, one static header and status byte | `QemuVirtBlockDevices::next`, `VirtioBlockDriver::new`, `read_blocks` | an `Ok` read delivers the sector; a device touches only what the current call lent it; no call waits for ever |
| Boot flow (`main.rs`, `linux.rs`, `filesystem.rs`, `probe_virtio` in `virtio.rs`) | where the image runs, the allocator of the attempt, loaded files, the cloned tree | relocation, partition loop, load, header check, kernel relocation, hand-off | what the kernel is handed is complete and disjoint from everything else; partitions are tried in order; the machine boots or powers off |
| GPT reader (`gpt.rs`) | the fields of the believed header | `new`, `partition` | what is opened is one whole table, whatever an interrupted update left behind; a disk with one good copy opens |
| FAT reader (`fat.rs`) | geometry | `new`, `open`, `load` | a chain walk ends and delivers the file's clusters in order; long and short names find the same file |
| ext4 reader (`ext4.rs`) | geometry | `new`, `open`, `load` | path resolution follows links and ends; extents place every byte; no array is overrun |
| Device-tree writer (`dtb_write.rs`) | the cloned blob and its capacity | `clone`, `create_node`, `set_property*` | an edit that fails leaves a valid tree; one that succeeds changes what it was asked to; the headroom suffices |
| Device-tree reader (`dtb_read.rs`) | none (parser) | iteration over nodes, properties, reserve map | bounded by the blob |
| Traps, SBI (`interrupts.rs`, `sbi.rs`) | none | a trap prints and powers off; single ecalls | - |
| Console, diagnostics (`print.rs`, `diagnostics.rs`) | none | formatting | - |

How they interact: everything is a synchronous call on one hart, except that
VirtIO devices run beside it and share the queue page, the request header, the
status byte and the caller's buffer with the driver.  The boot flow builds a
fresh allocator from the device tree for the relocation of the image and for
every boot attempt.  File systems receive the block driver and the allocator.
Nothing is persistent; the firmware never writes to a disk.

Hard to test, and therefore what the properties are about (the full list with
source lines is `hazards` in `PROJECT.json`): long sequences of splits and merges
of the descriptor array; a descriptor buffer that runs full half-way through;
rounding at page and address-space boundaries; overlapping claims in different
orders; a device that completes late, out of order or never, and the reuse of
static memory after that; index wrap-around; configuration changes between two
register reads; loops over structures that are being edited or that come from a
disk.

## 2. Plan

Order, most important first; "done" means modelled, checked and mapped.

1. `PageAllocator`, `PageMap`, `PageReference`, `PageAllocatorProofs`,
   `PageReferenceProofs` - done.  Everything the firmware loads or starts lives in
   pages this array hands out.
2. `VirtioBlk`, `VirtioBlkProofs` - done.  The only concurrency in the system.
3. `BootFlow`, `BootFlowProofs` - done.  Relocation of the image, device and
   partition loop, boot attempt, over the page types of `PageMap`.
4. `Gpt`, `GptProofs` - done.  Primary and backup header, entry array, interrupted
   updates.
5. `Fat`, `FatProofs` - done.  Mounting, lookup, loading.
6. `Ext4`, `Ext4Reference`, `Ext4Proofs` - done.  Links, extent trees, directories,
   loading.
7. `DtbRead`, `DtbWrite`, `DeviceTree`, `DtbWriteProofs` - done.  Splices and appends
   in a buffer of fixed capacity, and what they mean for the tree.

Theorems still worth proving: for `DtbWrite`, that an `Ok` request is in effect and
that its steps are steps of `DeviceTree`.

## 3. Modules and the code they stand for

`PROJECT.json` (`map`) gives the source lines of every definition.

### PageAllocator

`descriptors` and `descriptor_count` are the two fields of `PageAllocator`; a
descriptor holds page numbers because every address that enters the array is
page-aligned.  Addresses and sizes coming from the device tree, the linker
script or a caller are bytes and go through the rounding of
`align_region_to_pages`, `pages_for_size` and `align_down`/`align_up`.
`VirtualStart` and `Attribute` are always zero and left out.  `MaxAddress` plays
`u64::MAX`: sums past it take the error path they take in the code.

`fdt` is what the allocator reads: `/memory`, the blob's own range, the reserve
map, the static children of `/reserved-memory`, and the four ranges of the linker
script.  `phase` and `region` are the program counter of `from_fdt`; `loop`,
`index` and `range` those of `carve_range`, `carve_range_for_reserved_region`
and `coalesce`.  One iteration of a loop is one step, since the loops edit the
array they run over; nothing else happens while a loop runs.  A public call is one step
(search and edit) followed by the iterations of its `coalesce`.

Slots past `descriptor_count` keep leftovers in the code that nobody reads; in
the model every edit empties them.

### PageMap and PageReference

`PageMap` is the abstract allocator: a type per page, retyped only by discovery
and claims while the map is built, by allocation of wholly free ranges and by
frees of wholly owned, unreserved ones afterwards.  `PageReference` states what
`PageAllocator` should compute without descriptors (the map the tree asks for,
the runs of free pages) and the refinement mapping: a page has the type of the
descriptor that holds it.

### VirtioBlk

The driver is `pc` and the locals of `read_config_u64_le`, `new` and
`read_blocks`; one action per stretch of code between two accesses to memory the
device can see.  `queue`, `header` and `status` are the statics all drivers
share, `memory` the callers' buffers.  A request always uses descriptors
0 -> 1 -> 2 and available-ring entries are always 0, so of these only the buffer
address and the index are kept.  The 16-bit indices wrap at `IndexModulus`.
`drop` is the end of an iteration of `probe_virtio`: no register is written and
the device stays live.

The devices are external, modelled from how the driver uses them: `Fetch` (look
at the available ring after a notification), `Complete` (data, status, used
element, used index, in any order of the requests taken) and `Reconfigure` (a
capacity change with a new generation).  A device outside `SlowDevices` completes
a request before ten million polls are over; a slow one need not.  `abandoned` is
a history variable: some call has returned `RequestTimeout` or `UnexpectedUsedId`.

### BootFlow

`pc` is the place in the code, from `_start` to the jump or the poweroff.
`machine` is the hardware of one boot: block devices whose driver starts or not,
the tables behind their two GPT headers, and the volumes on their partitions,
each a file system with a file (or none) at each of the four paths.  `types` is
the allocator the code rebuilds from the device tree for the relocation and for
each boot attempt; it is edited only by the `Allocate` and `Free` actions of
`PageMap`, which `PageAllocator` is shown to implement.  Searches return what
`find_allocation_any_pages` (highest run) and `find_aligned_allocation` (lowest
aligned run) return; RAM does not reach the last 2 MiB of the address space there, so
no rounding overflows.  `contents` says what each page of RAM holds, so a page
given to two owners shows in the data and not only in the map.

Errors the state does not determine are constants: `MayFail` lists which of map
construction, descriptor splits, disk reads and device-tree edits may fail; in a
run where one is listed, each such operation may fail every time.  A read error
in the middle of a file leaves its pages allocated and half written, as in the
code.  The table is opened anew after every partition and may then come from
the other header.

### Fat

One disk that nobody writes to: a boot sector, a table, and the directory
entries of some sectors.  `new` computes the geometry as the code does.  `open`
runs `find_path_entry`; one step is one sector read, one directory entry or one
step along the chain, because the long-name state lives across all of these.
`read_file_contents` takes one cluster per step.  Names are sequences of pieces,
compared after case folding; data sectors hold their own number, so a byte in
the buffer says where it came from.

The reference (`Listing`, `EntryName`, `Lookup`, `Resolved`, `ChainFrom`) reads
directories and chains off the whole disk at once, without a long-name state.

### Gpt

`device` is a disk of sectors with a header in some and the chunks of entry arrays
in others.  `read_header_at` checks the fields of one header, one step of
`verify_entry_array_crc` reads one sector of its array, and `HeaderRefused` is what
every refusal leads to: the backup after the primary, no table after the backup.
`partition` may be called for any index, any number of times; every read may fail.
The disks are not only well-formed ones: `GptMC` builds every state that a tool
leaves which writes array and header of one copy, then of the other, and stops
anywhere.  CRCs are the bytes they cover, so they match for no other bytes.

### Ext4 and Ext4Reference

One volume, keyed by byte address: group descriptors, inodes, extent nodes,
directory entries and link targets.  Every address the reader uses is computed as
the code does (`block_to_lba`, `inode_table_block`, `read_device_bytes` over sector
edges), so a wrong address reads something else or nothing.  `pc` and the variables
follow `resolve_path_from` through one path component, one extent node
(`collect_extent_node`, with `stack` for its recursion), one directory block, one
record and one extent of a file per step.  An expanded link starts the path again,
as in the code, from the directory of the link or from the root.

`Ext4Reference` resolves a path on the files themselves (kinds, listings, targets
and blocks by inode), with recursive functions instead of a path buffer, and says
which bytes a file has.  It does not know how a volume is laid out.  `Written` says
what it means that a volume holds a file system: which extents the trees spell, which
records the directory blocks, and that inodes, listings, blocks and link texts are
those of the files, in so far as the volume is not damaged.  A sound file may still be
mapped in a way the reader does not support (`BeyondReader`): by block pointers, with
preallocated extents, or in more extents than its array holds.

### DtbRead, DtbWrite and DeviceTree

A blob maps byte offsets to records (tokens, strings, and the ends of strings that
properties point at), and `header` has the fields of `FdtHeader`.  `DtbRead` is the
reader: header checks, the walk over nodes, properties and strings.  `DtbWrite` has
an action for each edit: `create_component` (one component of `create_node`),
`find_or_add_string` and `set_property_bytes`, which move records as
`splice_struct_placeholder` moves bytes and correct the header as it does.  Requests
are the edits of /chosen (`update_device_tree`) and others; the first failing call
ends a request and leaves what the calls before it did.

`tree` is a history variable: the tree that the records spell after each step.
`DeviceTree` says what an edit may do to it, and `ImplementsDeviceTree` that every
step of `DtbWrite`, also of a request that fails, does this and nothing else.

## 4. Runs

| Run | Instance | What it shows |
|---|---|---|
| `alloc_construction` | 640 device trees over 7 pages of 2 bytes, 5 descriptors | `from_fdt` ends; a map it returns gives every page exactly the type tree and linker script ask for (`MapMatchesDeviceTree`); the array is sound at every iteration of every loop, also when it fails with `BufferTooSmall` or `AddressOverflow` |
| `alloc_calls` | three finished maps, all call sequences, 6 descriptors | searches agree with a search over pages, and the aligned ones give up with `AddressOverflow` exactly when a rounding overflows (`SearchesAreExact`); an owner's run is always in one descriptor (`OwnedRunsAreFound`); `ReservedStaysReserved`; `PageAllocator` implements `PageMap` from construction on; every call returns |
| `alloc_no_map` | an ordinary child over a `no-map` child | violated: the shared pages become boot-services data |
| `virtio_devices` | six slots, one empty; three block devices are refused (feature missing, features not agreed, queue too small), two answer late, never, out of order or with a wrong id; five calls | until a call has given up on a request, an `Ok` read delivers its sector (`ReadsUntilAbandoned`) and only lent memory is touched, also across wrap-around and from the second device on the reused queue page; the capacity is never torn; calls return without help of the devices |
| `virtio_late` | one slow device | violated: a late completion is taken for the next request's |
| `boot_reliable` | two disks, five partition tables each, valid or from the backup | the first partition that provides a kernel is booted; poweroff only without one (`BootsFirstProvider`) |
| `boot_flaky` | tight memory, an outdated backup table, everything may fail | running image, device tree and reserved pages stay intact; what Linux is handed is whole; the boot ends |
| `fat_volumes` | FAT16 and FAT32 volumes: all triples of eleven entries in front of a file or directory, all tables of three clusters, damaged chains, boot sectors; every read may fail | `open` finds what the disk holds under that name (`OpenIsExact`); `load` delivers the chain's bytes, none for an empty file (`LoadIsExact`); no read outside root directory and data (`ReadsInsideVolume`); calls return, also on circular file chains |
| `gpt_disks` | 25 pairs of tables, every point of an update; headers with each field out of range; disks of at most two sectors; every read may fail | entries come from one table, old or new (`EntriesFromOneTable`); a readable disk that was being updated opens (`UpdateSurvives`); no read outside the accepted array; `new` returns |
| `ext4_volumes` | about 2,200 volumes: link chains and circles, extent trees of depth up to two, holes, preallocated extents, block pointers, files and directories in too many pieces, empty files, directory records, superblocks; nine paths; reads and allocations may fail | `open` finds what the reference finds (`OpenIsExact`); `load` delivers the file's bytes (`LoadIsExact`); each is refused only for a reason; no buffer is overrun; calls return |
| `ext4_deep_tree` | an index node that is its own child | violated: the recursion goes deeper than any extent tree |
| `dtb_edits` | three sound trees and eleven others, seven amounts of room, two of eleven requests | the blob stays one that the readers take (`BlobIsSound`, `ReadersAgree`); an `Ok` request is in effect; a refused one had a reason (`FailuresAreJust`); the headroom for Linux suffices; every step is one of `DeviceTree` |

Bounds.  Seven pages hold every order of two overlapping regions with room on
both sides; two bytes per page give a partial edge page at either end; the
address space ends one page after the last RAM page, so sums overflow.  Five or
six descriptors are fewer than the trees and calls can need, so the buffer runs
full in the middle of a carve and of a call.  The ring index wraps after four
values, which five calls pass; after a call has given up there are at most two
calls in all (`MaxLateCalls`), enough for a late answer to meet another request.
The queue has two entries (four in the code) because a second outstanding request
is what a late device needs.  One poll stands for the limit: the second finds
`spins = PollLimit`.  The memory of
`boot_flaky` is too small for two failed loads, so that searches come back empty
at every place of the attempt; its tables differ in length, so that the index
of the loop can point behind the table opened last.  In `fat_volumes` a sector
has two entries or two bytes and a long name up to two pieces, so names cross
sectors and clusters and files end inside, at and behind both.  Directories
have no circular chains there: the scan would not end (hazard at `fat.rs:739`).
In `gpt_disks` an array takes up to two sectors and may end inside one, entries
are one to three chunks wide, and block numbers wrap at 64.  In `ext4_volumes` a
block has two or four sectors, inodes and descriptors may cross a sector's edge, a
path buffer holds ten characters, an array three extents, and two links may be
followed, so that each limit is met and exceeded.  Circular extent trees are left
to `ext4_deep_tree`.  In `dtb_edits` two requests (`MaxRequests`) let the second
find what a failed first one left; the amounts of room end the edits at each call.

Fairness.  One hart runs straight-line code, so the construction steps, the loop
iterations and the driver's steps are weakly fair; callers of the allocator owe
nothing.  In `VirtioBlk` fetching and completing are weakly fair for devices
that are not slow, and for no others; the usable devices of `virtio_devices` are
all slow, so it shows that `read_blocks` returns without help.  A device that
changes its configuration for ever would keep `read_config_u64_le` busy for
ever; `MaxConfigs` bounds the changes, which one device makes in a behaviour.
In `BootFlow`, `Fat`, `Ext4` and `Gpt` the hart's step is weakly fair; nobody
has to open a file or a table.  `DtbWrite` has safety properties only.

## 5. Proofs

TLAPS proves the following for every value of the constants that satisfies the
named assumptions; TLC evaluates these assumptions in the runs.  The steps of a proof
follow the actions of the module.  Where a fact needs induction over data (along
a chain of clusters, a path, a walk over records), the proof takes the least number
for which it fails (`LeastNumber`, from the well-foundedness of `<`) and derives a
contradiction.

| Module | Theorem | States |
|---|---|---|
| `PageAllocatorProofs` | `TypeCorrect` | loop indices and the descriptor count stay inside the buffer, no descriptor leaves the address space |
| | `MapIsSound` | the array stays ordered, without empty or overlapping descriptors |
| | `ReservedIsKept` | no call retypes a reserved page |
| `PageReferenceProofs` | `OwnersAreFound` | an owner's run lies in one descriptor |
| | `SearchesExact` | each search returns the run a search over pages returns, and fails only when there is none; the aligned one also, exactly then, when the size or the rounding of a free stretch with room overflows |
| | `PageMapImplemented` | every step is a step of `PageMap` (with `NoNestedRam`) |
| | `MapMatches` | a map `from_fdt` returns gives every page the type tree and linker script ask for (with `NoNestedRam` and `ListsFit`) |
| `VirtioBlkProofs` | `VirtioTypeCorrect` | types and widths of indices, rings and locals |
| | `CapacityNeverTorn` | an accepted capacity is one the device had |
| | `MemoryOnlyLent`, `ReadsAreRight` | until a call has given up on a request: devices write only what the current call lent, an `Ok` read delivers its sector |
| | `PromptDevicesReadRight` | if devices answer in time and with the right id, every `Ok` read is right |
| `BootFlowProofs` | `BootTypeCorrect` | types |
| | `FirmwareStaysIntact` | image, device tree and reserved pages are never overwritten |
| | `HandoffSound` | what Linux is handed is whole and disjoint |
| | `FirstProviderBoots` | `BootsFirstProvider`, with readable disks, possible entries and room in memory |
| `GptProofs` | `GptTypeCorrect` | types; no read outside the accepted array |
| | `EntriesOfOneTable` | entries come from one table (with `ArraysAreTables`) |
| | `WholeCopyIsOpened` | a disk with a whole copy is opened unless a read fails (with `OneCopyIsWhole`) |
| `FatProofs` | `FatTypeCorrect` | types; the buffer is never overrun |
| | `FatReadsInside` | no read outside root directory and clusters, if the counts of the boot sector do not overflow 32 bits |
| | `FatLoadsExactly` | a load delivers the bytes along the chain, none for an empty file, and calls a chain short only if it is |
| | `FatOpensExactly` | `open` finds what the listing of the disk has under each name of the path (with `MarkersAreFree` and `[]DirectoryEnds`) |
| `Ext4Proofs` | `Ext4TypeCorrect` | path buffer, extent array and file buffer are never filled beyond their size; links are followed only as often as allowed |
| | `Ext4LoadIsExact` | a load delivers the bytes of the file, holes as zeros, none of an empty one; it fails only for a directory, memory, the device, an unsupported mapping or damage (with `VolumesAreWritten`) |
| | `Ext4OpenIsExact` | `open` finds what the walk over directories and links finds, unless the device, the path buffer, an unsupported mapping or damage is in the way (with `VolumesAreWritten`) |
| `DtbWriteProofs` | `DtbTypeCorrect` | the used part of the tree never outgrows the clone's pages; searches end |
| | `EditsKeepTheView` | after every edit the header is one `from_ptr` takes, with blocks that do not overlap |
| | `DtbHeadroomIsEnough` | edits that need no more than `LINUX_DTB_EXTRA_SIZE` do not fail for want of room, whatever the tree (with `EditsFit`) |
| | `LinuxHeadroomIsEnough` | the edits of boot are such, with the code's sizes and any command line (with `LinuxEdits`) |
| | `BlobStaysSound` | a blob that is sound when it is passed stays sound, also in and after a request that fails |
| | `SoundIsNeverMalformed` | no edit of such a blob fails with `BadStructure` |

Assumptions on constants: sizes are positive and divide each other as in the code
(`SizeAssumption`, `QueueAssumption`, `AlignmentAssumption`), addresses lie in the
address space (`InputAssumption`, `MemoryAssumption`), devices, disks and volumes
hold numbers where the code reads numbers (`DeviceAssumption`, `DiskAssumption`,
`VolumeAssumption`, `MachineAssumption`, `SourceAssumption`), paths and requests are
sequences (`PathAssumption`, `TextAssumption`, `RequestAssumption`; the path that ext4's
`open` takes is a `&str`, so none of its characters is undecodable).  They say nothing
of whether what is on a disk is well-formed.  `SourceAssumption` also has the
strings of a tree behind its structure block, as the Devicetree Specification
prescribes: `from_ptr` does not check this and a splice relies on it.

**Page allocator.**  `MapSound` is not inductive.  While `/memory` is read, overlapping
descriptors are legal, and the first `coalesce` makes the array disjoint one pair at a
time; that works only because all descriptors are conventional then and everything up
to the loop index is disjoint already (`RamSound`).  A carve needs to know that its
range is not empty and that it never runs in the RAM phase (`ControlSound`).  `IndInv`
is the conjunction of these with `TypeOK` and `MapSound`.  The lemmas about
`replace_range`, `insert_descriptor` and `merge_with_next` say once what each edit
does to an ordered, disjoint array.

For the reference, `Merged` adds that a finished `coalesce` leaves no mergeable pair:
that puts a run of one type into one descriptor, and makes the first or last
descriptor that fits the place of the first or last run.  The refinement
argues over `Contents`, the set of descriptors, because edits shift indices and the
type of a page depends on the set only; insertions, replacements and merges each
have a lemma about `Contents`.  `NoNestedRam`, no `/memory` entry inside another, is
needed because `coalesce` takes the end of the later descriptor; `RamEnds` carries it
through construction.

`MapMatchesDeviceTree` compares the finished map with a definition that looks at all
claims on a page at once.  `TypeAfter` is that definition for the first n claims, and
`OneMoreClaim` shows that one more claim acts on a page exactly as a carve does: it
takes it if its type may be retyped.  `MatchInv` then says how far construction is:
the position in the lists is the number of claims made (`Done`), the map is that of
these claims, and while a carve runs it is that of one claim more on the pages
below the end of the last descriptor passed (`ClaimsSoFar`); before, the pages of
the RAM regions read so far are free (`RamSoFar`).  `TouchedPages` and `FilledPages`
are about the rounding of bytes to pages.  `ListsFit` is needed because the
slices drop what they cannot hold.  Both hypotheses hold of the 640 trees of
`alloc_construction`.

**VirtIO.**  What protects a read is a protocol between hart and device, so the
invariant describes the stages of a request: `Settled` (both sides have the same
indices, nothing outstanding), `Published`, `Taken` and `Answered`, with all other
devices `Quiet` (`InStep`).  It holds until a call has given up on a request, and
for ever if no device is slow or wrong.  `ConfigSound` orders the three reads of
`read_config_u64_le` by the generation.

**Boot flow.**  `FirmwareIntact` and `HandoffIsSound` speak of contents, while what
saves a page from being overwritten is its type in the map.  `IndInv` adds that
selection (the device, its table and the volume exist while they are used) and ties
contents to types: while a map is in use, the image where it runs, the blob and the
reserved pages have owners (`ProtectedOwned`); loaded kernel, initrd and relocated
kernel have owners, hold their file and, as long as the first kernel range is still to
be freed, lie apart from each other (`KernelLoaded`, `InitrdLoaded`,
`KernelRelocated`).  `TakenBy` says what every allocate-and-write does to memory.  An
abandoned attempt needs no cleaning up because the next one starts from a fresh map.
`FirstProviderBoots` adds `OrderInv`: every partition in front of the one at hand
provides nothing, and the candidates tried so far were not there.  Its hypotheses
(`MayFail = {}`, `EntriesAreSound`, `LettersForAll`, `[]RoomInMemory`) hold in
`boot_reliable`; without room in memory a provider is skipped.

**GPT.**  `HeaderKept` says that `header` still has the fields of a header that passed
the checks, `Progress` that the CRC covers exactly the chunks in front of the sector
to be read next, `Refused` that a copy is left behind only if it is not whole or a read
failed.  The two hypotheses are what a partitioning tool owes: an array with its
header's CRC was written as a whole, and one copy is whole at any time.

**FAT.**  `IndInv` is `Mounted`, `Scanning`, `Loading` and `ReadsInsideVolume`: the
cluster at hand is one of the volume's and the position in it is in range.
`LoadInOrder` says that the buffer holds the bytes of the clusters passed and the
cluster at hand is the next of the chain.  For `open`, the disk's listing is restated
with geometry and volume as parameters; the invariant (`FoundInOrder`) has three parts:
the position of the scan as an index into the listing and that no entry passed has the
name; the long-name state as the longest run of pieces that ends there (`Piece`,
`InStep`), across sectors and clusters; and the directory at hand as the one the path
so far names (`Way`).  `MarkersAreFree` (no cluster of the volume has the number of an
end marker: always so on FAT16, on FAT32 below 2^28 - 10 clusters) and
`DirectoryEnds` (a directory's chain is no circle without an end mark, hazard at
`fat.rs:739`) hold on every volume of `fat_volumes`.

**ext4.**  The buffers are safe because what a link leaves to be resolved fits into
the path buffer (`Resolving`), a push of an extent is guarded (`Walking`), and the file
buffer has the size of the inode from allocation to the last extent (`Copying`).

What is loaded and opened is compared with the files that a volume is said to hold, so
the two theorems are about volumes that do hold them: `VolumesAreWritten`, which
`SystemsAreWritten` in `Ext4MC` shows for every volume of `ext4_volumes` that can be
mounted and for the deep tree of `ext4_deep_tree`. A volume may still be damaged: then a
tree may be broken or a record bad, and the theorems say that the reader either delivers
what is right or reports the damage. A tree of a sound volume counts as broken for the
reader if it has preallocated extents, and the file is then among those it may refuse.
`Known` says that the numbers at hand are those of files and the inode that of its file.
`Collected` describes the walk over an extent tree: the extents collected are those in
front of the place where `stack` stands (`IsWalk`), or a broken node lies ahead
(`BadAhead`). `Copied` says that a byte of the buffer is that of the extent that covers
it among those passed, or zero; extents ascend, so a later one does not overwrite it,
and `Delivered` does the division of bytes into blocks.

For `open`, `Followed` says that what is left of the path leads from the current
directory to what the whole path leads to (`Resolved = Walk[Here]`), and that each link
made the text longer by no more than the longest target, which is why `NameTooLong` is
justified; joining a target and the rest of the path gives the names of the one and then
of the other (`Meets`).  `Scanned` says that no record in front of the scan's position has
the name or is bad, over records, blocks and extents.  The reference is recursive, and
the prover has no induction that takes an operator, so `Components` and `Walk` are first
shown to have a solution: `SolutionUpto` builds it for one measure after the other, with
the least-number principle in the place of induction.

**Device tree.**  Blobs are arbitrary, so it is not clear that a search through
records ends or what it returns.  Each search is a walk (`IsWalk`) that goes forward
through the structure block (`Forward`); `WalkExists` and `WalkEnds` show that it has a
result, that of a place where it stops.  So a node that is found begins at an
`FDT_BEGIN_NODE` and a property at an `FDT_PROP` (`FindChild`, `FindNode`,
`FindDirect`).  `SpliceKeeps` and `AppendKeeps` say what an edit does to header and
records.  The invariant keeps the node found across the append of a string (`IsNode`),
which is true only because strings lie behind the structure.

`HeadroomIsEnough` holds for every blob, sound or not.  `Room` says that what is used,
the room that was asked for and what the calls still to come may add (`Ahead`) are
together no more than the pages and one share of the room per request made; a path
counts with the largest node `insert_child_node` builds for each component, a property
with its record and its name.  `EditsFit` is that the requests made of one clone fit into
the room; `RequestsFit` in `DtbWriteMC` shows it of the requests of `dtb_edits`, and
`LinuxEditsFit` proves it of `update_device_tree`, with the code's sizes, for a command
line of any length and up to nine calls on one clone (boot makes one).

`BlobStaysSound` is about the trees of `Sources` that are marked sound; its hypothesis,
`BlobIsSound` in the initial state, is that they are.  Nothing is asked of the others.
The proof looks at the structure block as records with kind, length and name (`View`) and
at the difference of the numbers of begins and ends in front of an offset (`Depth`),
so a node is a `Span`: from its begin to the first end where the depth falls back.  On
a sound blob the reader's walks are exact: a node's end is the end of its span, a search
for a child or property meets the one with that name or the place where a new one
belongs, and none of them runs into something it calls malformed (`NodeEndIsExact`,
`NodeAtIsExact` and those after them).  A splice replaces some records of the view and
moves those behind them (`SpliceShifts`, `ShiftsKeep`); replacing a property, inserting one
in front of the children and inserting an empty node at the end keep what makes a
view a tree (`ReplaceKeepsTree`, `InsertPropKeepsTree`, `InsertNodeKeepsTree`).  An
append leaves the structure alone (`AppendSound`).  The invariant is `SoundInv`:
the blob is sound, the node the request is at is a span of it, and the string at `nameoff`
is the name of the property to be set.  The last two are why appending the name before
the search for the property does no harm.

Only model-checked: everything temporal under fairness (`ENABLED` and liveness are
out of the prover's reach), and for `DtbWrite` `RequestsTakeEffect`, `ReadersAgree`, the
part of `FailuresAreJust` about names and room, and the refinement of `DeviceTree`.  These
compare records with `tree`, in which every node has its path; that the paths which the
records spell are unchanged by an edit elsewhere is an induction over data that has not
been carried out.

## 6. Findings

- `carve_range_for_reserved_region` retypes pages reserved by a `no-map` child
  (`memory.rs:674`, `alloc_no_map`).
- A timed-out request is not cancelled (`virtio.rs:750`): its completion is taken
  for the next one's (`virtio_late`).
- `collect_extent_node` does not compare a child's depth with its parent's
  (`ext4.rs:962`): damaged index nodes make it call itself without bound, with a
  block buffer on each level (`ext4_deep_tree`).

Behaviour of the code that the models have, and that a reader may not expect:

- `coalesce` takes the end of the later descriptor (`memory.rs:1034`): a `/memory`
  entry inside another one shortens the map.  `alloc_construction` has no nested
  entries.
- One free descriptor with room whose beginning cannot be rounded up to the alignment
  makes `find_aligned_allocation` return `AddressOverflow` from the low end
  (`memory.rs:752`), though another descriptor may fit.
- An empty file loads as `Ok` with size 0 and one page (`memory.rs:1340`).
- ext4 files with preallocated, unwritten extents are refused with
  `InvalidExtentTree` (`ext4.rs:932`), where Linux reads zeros, and files with block
  pointers with `UnsupportedMapping` (`ext4.rs:890`).
- `reserve_map_regions` drops what does not fit into the slice
  (`dtb_memory.rs:131`); the map is `Ok` and the entry stays free.
- An entry with a reversed or too large block range makes `partition()` return
  `None`, which `probe_virtio` takes for the end of the table (`virtio.rs:163`):
  `boot_flaky` has such an entry, `boot_reliable` has none.
- After `UnexpectedUsedId` the used index is not advanced (`virtio.rs:760`): later
  calls look at the same ring element.
- `linux,initrd-*` properties of the passed tree stay when no initrd is loaded
  (`linux.rs:179`).
- A splice corrects the offset of the strings only (`dtb_write.rs:684`): it takes
  for granted that the structure block lies behind the reserve map and in front of
  the strings, as compilers place it and the sound trees of `dtb_edits` have it.

## 7. Not modelled

`from_regions` (only a host test calls it) is `from_fdt` with two lists.  The
`reg` decoding of `dtb_memory.rs` and the reserve-map iterator of `dtb_read.rs` keep
no state; their results are the lists of `PageAllocator`'s `Fdt` record.
`print.rs` and `diagnostics.rs` format and print.  `interrupts.rs` and `sbi.rs` are
assembly stubs and single ecalls.  `src/bin` holds host tests.  `load_at`,
`read_file` and the directory walks of the file systems are never called by the
firmware.  Alignments that are no power of two pass the argument check of
`allocate_aligned_pages` (`memory.rs:1369`); all callers pass 2 MiB.  Sums and
products of on-disk fields that leave their width are not modelled for FAT and
ext4, block sizes of ext4 excepted.  `BootFlow` sees file systems and the
device-tree writer as files that load or not and edits that succeed or not.
