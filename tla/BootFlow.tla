------------------------------- MODULE BootFlow -------------------------------
(***************************************************************************)
(* The way of the firmware from its entry to the jump into Linux: the copy *)
(* of its own image to high memory (main.rs), the loop over block devices  *)
(* and partitions (probe_virtio in virtio.rs), and one boot attempt        *)
(* (linux.rs, filesystem.rs) with the pages it allocates and what they     *)
(* hold.                                                                   *)
(*                                                                         *)
(* A map of page types stands for the page allocator and is edited only    *)
(* through the actions of PageMap; a search returns the highest, or the    *)
(* lowest aligned, free run.  Memory is a content for every page, so that  *)
(* a page given away twice shows in what it holds.                         *)
(*                                                                         *)
(* A path that leads to no regular file, be it missing, a directory or     *)
(* unreadable for good, is a file of no pages.                             *)
(***************************************************************************)
EXTENDS Integers, Sequences

CONSTANTS
  RamPages,      \* number of RAM pages
  LoadPage,      \* where OpenSBI puts the image (PRIMARY_FIRMWARE_LOAD_ADDRESS)
  ImagePages,    \* pages of the image window, up to __heap_end
  FdtPages,      \* pages of the device-tree blob
  ReservedPages, \* pages the device tree reserves
  KernelStep,    \* KERNEL_ALIGNMENT in pages
  ClonePages,    \* pages of the cloned device tree
  RootDevices,   \* devices root_command_line has a letter for (26)
  Machines,      \* sequences of block devices the firmware may find
  MayFail        \* which of Failures can happen

\* What may go wrong that the state does not tell: the construction of the
\* page map, a split in a full descriptor buffer, a read of a disk, an edit of
\* the cloned device tree.
Failures == {"map", "split", "read", "edit"}

Ram == 0..(RamPages - 1)

kernel_candidate_path == <<"/boot/vmlinuz", "/vmlinuz">>
initrd_candidate_path == <<"/boot/initrd.img", "/initrd.img">>
Paths == {"/boot/vmlinuz", "/vmlinuz", "/boot/initrd.img", "/initrd.img"}

File == [pages : 0..RamPages, linux : BOOLEAN]
Filesystems == {"fat", "ext4", "unknown"}
Volume == [filesystem : Filesystems, files : [Paths -> File]]

\* read_partition_entry refuses an entry that is not sound: its range of
\* blocks is reversed or leaves the device.
Entry == [present : BOOLEAN, bootable : BOOLEAN, sound : BOOLEAN, first_lba : Nat]
Table == [valid : BOOLEAN, entries : Seq(Entry)]

\* A device whose driver starts or does not, the tables behind its primary
\* and its backup header, and the volumes that start on its blocks.
IsDevice(d) ==
  /\ d.works \in BOOLEAN
  /\ d.primary \in Table
  /\ d.backup \in Table
  /\ \A k \in DOMAIN d.primary.entries : d.primary.entries[k].first_lba \in DOMAIN d.volumes
  /\ \A k \in DOMAIN d.backup.entries : d.backup.entries[k].first_lba \in DOMAIN d.volumes
  /\ \A l \in DOMAIN d.volumes : d.volumes[l] \in Volume

Span(start, pages) == start..(start + pages - 1)

ASSUME MemoryAssumption ==
  /\ RamPages \in Nat
  /\ ImagePages \in Nat \ {0}
  /\ ClonePages \in Nat \ {0}
  /\ KernelStep \in Nat \ {0}
  /\ RootDevices \in Nat
  /\ LoadPage \in Ram
  /\ Span(LoadPage, ImagePages) \subseteq Ram
  /\ FdtPages \subseteq Ram
  /\ ReservedPages \subseteq Ram
  /\ Span(LoadPage, ImagePages) \cap (FdtPages \cup ReservedPages) = {}
  /\ FdtPages \cap ReservedPages = {}

ASSUME MachineAssumption ==
  /\ MayFail \subseteq Failures
  /\ \A m \in Machines : /\ Len(m) \in Nat
                         /\ DOMAIN m = 1..Len(m)
                         /\ \A d \in DOMAIN m : IsDevice(m[d])

VARIABLES
  machine,         \* the block devices of this boot
  pc,              \* where the firmware is
  image,           \* page the running image starts at
  types,           \* the page allocator: types of pages ...
  built,           \* ... of a map that is in use
  contents,        \* what each page holds
  device,          \* block device in use; block_device_index is one less
  table,           \* the open partition table
  partition_count, \* entries of the table that was opened first
  partition_index, \* entries dealt with
  partition,       \* the entry being dealt with
  filesystem,      \* what was detected on it
  candidate,       \* index into the candidate paths
  kernel,          \* where the kernel was loaded
  initrd,          \* where the initrd was loaded, if it was
  relocated,       \* where the kernel was copied
  clone,           \* where the cloned device tree starts
  chosen           \* the initrd range written into /chosen

probeVars == <<device, table, partition_count, partition_index, partition, filesystem>>
memVars == <<image, types, built, contents>>
loadVars == <<candidate, kernel, initrd, relocated, clone, chosen>>
vars == <<machine, pc, probeVars, memVars, loadVars>>

-----------------------------------------------------------------------------
(* Memory. *)

Conventional == "EfiConventionalMemory"
Reserved     == "EfiReservedMemoryType"
BootData     == "EfiBootServicesData"
AcpiReclaim  == "EfiACPIReclaimMemory"

Map == INSTANCE PageMap WITH
  Pages <- Ram, MemoryTypes <- {Conventional, Reserved, BootData, AcpiReclaim}

\* A page holds page k of a file or of something else.
FileAt(d, lba, path) == [from |-> "file", device |-> d, lba |-> lba, path |-> path]
Other(from) == [from |-> from, device |-> 0, lba |-> 0, path |-> ""]
Page(source, k) == [of |-> source, page |-> k]

\* What memory holds when pages `start` onwards receive a source.
Written(start, pages, source) ==
  [q \in Ram |-> IF q \in Span(start, pages) THEN Page(source, q - start + 1)
                                             ELSE contents[q]]

\* ... or a copy of the pages from `old` onwards.
Copied(start, pages, old) ==
  [q \in Ram |-> IF q \in Span(start, pages) THEN contents[old + q - start]
                                             ELSE contents[q]]

FreeRuns(pages) ==
  {s \in Ram : \A q \in Span(s, pages) : q \in Ram /\ types[q] = Conventional}

IsHighest(s, runs) == s \in runs /\ \A r \in runs : r <= s
IsLowest(s, runs)  == s \in runs /\ \A r \in runs : s <= r

AlignedRuns(pages) == {s \in FreeRuns(pages) : s % KernelStep = 0}

\* The device tree as OpenSBI left it can still be parsed.
FdtReadable == \A q \in FdtPages : contents[q] = Page(Other("fdt"), q)

\* Mutant: the image is taken to run where OpenSBI loaded it.
FreshMapAtLoadAddress(q) ==
  IF q \in FdtPages THEN AcpiReclaim
  ELSE IF q \in ReservedPages THEN Reserved
  ELSE IF q \in Span(LoadPage, ImagePages) THEN BootData
  ELSE Conventional

\* The map from_fdt builds: the blob, the reserved ranges and the image that
\* is running, wherever that is, have owners.
FreshMap(q) ==
  IF q \in FdtPages THEN AcpiReclaim
  ELSE IF q \in ReservedPages THEN Reserved
  ELSE IF q \in Span(image, ImagePages) THEN BootData
  ELSE Conventional

-----------------------------------------------------------------------------
NoTable == [valid |-> FALSE, entries |-> <<>>]
NoEntry == [present |-> FALSE, bootable |-> FALSE, sound |-> FALSE, first_lba |-> 0]
NoFile  == [start |-> 0, pages |-> 0]

Init ==
  /\ machine \in Machines
  /\ pc = "entry"
  /\ image = LoadPage
  /\ types = [q \in Ram |-> "none"]
  /\ built = FALSE
  /\ contents = [q \in Ram |->
       IF q \in FdtPages THEN Page(Other("fdt"), q)
       ELSE IF q \in ReservedPages THEN Page(Other("reserved"), q)
       ELSE IF q \in Span(LoadPage, ImagePages) THEN Page(Other("image"), q - LoadPage + 1)
       ELSE Page(Other("junk"), 0)]
  /\ device = 0
  /\ table = NoTable
  /\ partition_count = 0
  /\ partition_index = 0
  /\ partition = NoEntry
  /\ filesystem = "unknown"
  /\ candidate = 1
  /\ kernel = NoFile
  /\ initrd = NoFile
  /\ relocated = 0
  /\ clone = 0
  /\ chosen = NoFile

Goto(label) == pc' = label

\* The allocator that every user builds for itself; without one relocation
\* is over, and so is a boot attempt.
page_allocator_from_live_fdt ==
  /\ pc \in {"entry", "map"}
  /\ \/ /\ FdtReadable
        /\ types' = [q \in Ram |-> FreshMap(q)]
        /\ built' = TRUE
        /\ Goto(IF pc = "entry" THEN "image" ELSE "kernel")
     \/ /\ ~FdtReadable \/ "map" \in MayFail
        /\ Goto(IF pc = "entry" THEN "off" ELSE "reopen")
        /\ UNCHANGED <<types, built>>
  /\ candidate' = 1
  /\ kernel' = NoFile
  /\ initrd' = NoFile
  /\ UNCHANGED <<machine, image, contents, probeVars, relocated, clone, chosen>>

\* try_relocate_firmware after its allocator: allocate high, copy, jump.
try_relocate_firmware ==
  /\ pc = "image"
  /\ \/ \E start \in Ram :
          /\ IsHighest(start, FreeRuns(ImagePages))
          /\ Map!Allocate(start, start + ImagePages - 1, BootData)
          /\ contents' = Copied(start, ImagePages, image)
          /\ image' = start
          /\ Goto("probe")
     \/ /\ FreeRuns(ImagePages) = {} \/ "split" \in MayFail
        /\ Goto("off")
        /\ UNCHANGED memVars
  /\ UNCHANGED <<machine, probeVars, loadVars>>

-----------------------------------------------------------------------------
(* probe_virtio. *)

probe_virtio ==
  /\ pc = "probe"
  /\ \/ /\ device = Len(machine)
        /\ Goto("off")
        /\ UNCHANGED device
     \/ /\ device < Len(machine)
        /\ device' = device + 1
        /\ Goto(IF machine[device + 1].works THEN "open" ELSE "probe")
  /\ UNCHANGED <<machine, memVars, table, partition_count, partition_index,
                 partition, filesystem, loadVars>>

\* GptPartitionTable::new: the primary header, or else the backup one.
Openable(t) ==
  LET d == machine[device]
  IN \/ t = d.primary /\ d.primary.valid
     \/ /\ ~d.primary.valid \/ "read" \in MayFail
        /\ t = d.backup /\ d.backup.valid

TableUnreadable ==
  \/ "read" \in MayFail
  \/ ~machine[device].primary.valid /\ ~machine[device].backup.valid

\* Mutant: reopening the table starts the loop again.
open_table_from_start ==
  /\ pc \in {"open", "reopen"}
  /\ \/ \E t \in {machine[device].primary, machine[device].backup} :
          /\ Openable(t)
          /\ table' = t
          /\ Goto("partitions")
          /\ partition_count' = Len(t.entries)
          /\ partition_index' = 0
     \/ /\ TableUnreadable
        /\ Goto("probe")
        /\ UNCHANGED <<table, partition_count, partition_index>>
  /\ UNCHANGED <<machine, memVars, device, partition, filesystem, loadVars>>

open_table ==
  /\ pc \in {"open", "reopen"}
  /\ \/ \E t \in {machine[device].primary, machine[device].backup} :
          /\ Openable(t)
          /\ table' = t
          /\ Goto("partitions")
          /\ IF pc = "open"
             THEN partition_count' = Len(t.entries) /\ partition_index' = 0
             ELSE UNCHANGED <<partition_count, partition_index>>
     \/ /\ TableUnreadable
        /\ Goto("probe")
        /\ UNCHANGED <<table, partition_count, partition_index>>
  /\ UNCHANGED <<machine, memVars, device, partition, filesystem, loadVars>>

\* read_partition_entry returns no entry.
EntryUnreadable(k) ==
  \/ k > Len(table.entries)
  \/ k <= Len(table.entries) /\ ~table.entries[k].sound
  \/ "read" \in MayFail

\* Mutant: an absent entry ends the loop.
next_partition_stopping ==
  LET k == partition_index + 1
  IN /\ pc = "partitions"
     /\ \/ /\ partition_index >= partition_count \/ EntryUnreadable(k)
           /\ Goto("probe")
           /\ UNCHANGED <<partition_index, partition>>
        \/ /\ partition_index < partition_count
           /\ k <= Len(table.entries) /\ table.entries[k].sound
           /\ partition_index' = k
           /\ partition' = table.entries[k]
           /\ Goto(IF table.entries[k].present THEN "detect" ELSE "probe")
     /\ UNCHANGED <<machine, memVars, device, table, partition_count, filesystem, loadVars>>

\* Mutant: the loop runs to the end of the table that was opened last.
next_partition_uncounted ==
  LET k == partition_index + 1
  IN /\ pc = "partitions"
     /\ \/ /\ EntryUnreadable(k)
           /\ Goto("probe")
           /\ UNCHANGED <<partition_index, partition>>
        \/ /\ k <= Len(table.entries) /\ table.entries[k].sound
           /\ partition_index' = k
           /\ partition' = table.entries[k]
           /\ Goto(IF table.entries[k].present THEN "detect" ELSE "partitions")
     /\ UNCHANGED <<machine, memVars, device, table, partition_count, filesystem, loadVars>>

\* One turn of the partition loop: an entry that cannot be read ends it, an
\* absent one is passed over.
next_partition ==
  LET k == partition_index + 1
  IN /\ pc = "partitions"
     /\ \/ /\ partition_index >= partition_count \/ EntryUnreadable(k)
           /\ Goto("probe")
           /\ UNCHANGED <<partition_index, partition>>
        \/ /\ partition_index < partition_count
           /\ k <= Len(table.entries) /\ table.entries[k].sound
           /\ partition_index' = k
           /\ IF table.entries[k].present
              THEN partition' = table.entries[k] /\ Goto("detect")
              ELSE UNCHANGED <<pc, partition>>
     /\ UNCHANGED <<machine, memVars, device, table, partition_count, filesystem, loadVars>>

TheVolume == machine[device].volumes[partition.first_lba]

detect_partition_filesystem ==
  /\ pc = "detect"
  /\ \/ filesystem' = TheVolume.filesystem
     \/ "read" \in MayFail /\ filesystem' = "unknown"
  /\ Goto(IF partition.bootable THEN "mount" ELSE "reopen")
  /\ UNCHANGED <<machine, memVars, device, table, partition_count,
                 partition_index, partition, loadVars>>

-----------------------------------------------------------------------------
(* The boot attempt. *)

\* A boot attempt that gives up returns to the partition loop.
GiveUp == Goto("reopen") /\ UNCHANGED <<machine, memVars, probeVars, loadVars>>

try_boot_from_partition ==
  \/ /\ pc = "mount"
     /\ filesystem # "unknown"
     /\ Goto("map")
     /\ UNCHANGED <<machine, memVars, probeVars, loadVars>>
  \/ /\ pc = "mount"
     /\ filesystem = "unknown" \/ "read" \in MayFail
     /\ GiveUp

Candidates == IF pc = "kernel" THEN kernel_candidate_path ELSE initrd_candidate_path

\* load_first_file ends: no kernel is the end of the attempt, no initrd is not.
no_more_candidates ==
  /\ pc \in {"kernel", "initrd"}
  /\ candidate > Len(Candidates)
  /\ Goto(IF pc = "kernel" THEN "reopen" ELSE "check")
  /\ UNCHANGED <<machine, memVars, probeVars, loadVars>>

\* One turn of load_first_file with FileHandle::load: open, allocate high, read.
\* A read error leaves the pages allocated and half written.
load_candidate ==
  LET path == Candidates[candidate]
      file == TheVolume.files[path]
  IN /\ pc \in {"kernel", "initrd"}
     /\ candidate <= Len(Candidates)
     /\ \/ /\ \/ file.pages = 0
              \/ FreeRuns(file.pages) = {}
              \/ {"read", "split"} \cap MayFail # {}
           /\ candidate' = candidate + 1
           /\ UNCHANGED <<pc, types, built, contents, kernel, initrd>>
        \/ /\ file.pages > 0
           /\ \E start \in Ram :
                /\ IsHighest(start, FreeRuns(file.pages))
                /\ Map!Allocate(start, start + file.pages - 1, BootData)
                /\ \/ /\ "read" \in MayFail
                      /\ contents' = Written(start, file.pages, Other("junk"))
                      /\ candidate' = candidate + 1
                      /\ UNCHANGED <<pc, kernel, initrd>>
                   \/ /\ contents' = Written(start, file.pages,
                                            FileAt(device, partition.first_lba, path))
                      /\ candidate' = 1
                      /\ IF pc = "kernel"
                         THEN /\ kernel' = [start |-> start, pages |-> file.pages]
                              /\ Goto("initrd")
                              /\ UNCHANGED initrd
                         ELSE /\ initrd' = [start |-> start, pages |-> file.pages]
                              /\ Goto("check")
                              /\ UNCHANGED kernel
     /\ UNCHANGED <<machine, image, probeVars, relocated, clone, chosen>>

\* The magic numbers in the first loaded page.
check_kernel_header ==
  LET first == contents[kernel.start].of
  IN first.from = "file" /\ machine[first.device].volumes[first.lba].files[first.path].linux

\* There is a letter for the root device.
root_command_line == device - 1 < RootDevices

\* root_command_line, Dtb::from_ptr and check_kernel_header, in this order.
check_artifacts ==
  /\ pc = "check"
  /\ \/ /\ root_command_line /\ FdtReadable /\ check_kernel_header
        /\ Goto("relocate")
        /\ UNCHANGED <<machine, memVars, probeVars, loadVars>>
     \/ /\ ~root_command_line \/ ~FdtReadable \/ ~check_kernel_header
        /\ GiveUp

\* relocate_kernel: allocate the lowest aligned run and copy the image there.
relocate_kernel ==
  /\ pc = "relocate"
  /\ \/ \E start \in Ram :
          /\ IsLowest(start, AlignedRuns(kernel.pages))
          /\ Map!Allocate(start, start + kernel.pages - 1, BootData)
          /\ contents' = Copied(start, kernel.pages, kernel.start)
          /\ relocated' = start
          /\ Goto("free")
          /\ UNCHANGED <<machine, image, probeVars, candidate, kernel, initrd, clone, chosen>>
     \/ /\ AlignedRuns(kernel.pages) = {} \/ "split" \in MayFail
        /\ GiveUp

\* Mutant: the new place is freed instead of the old one.
free_new_kernel ==
  /\ pc = "free"
  /\ \/ /\ Map!Free(relocated, relocated + kernel.pages - 1)
        /\ kernel' = [kernel EXCEPT !.start = relocated]
        /\ Goto("clone")
        /\ UNCHANGED <<machine, image, contents, probeVars, candidate, initrd,
                       relocated, clone, chosen>>
     \/ "split" \in MayFail /\ GiveUp

\* ... and its end: the pages the kernel was loaded into become free.
free_loaded_kernel ==
  /\ pc = "free"
  /\ \/ /\ Map!Free(kernel.start, kernel.start + kernel.pages - 1)
        /\ kernel' = [kernel EXCEPT !.start = relocated]
        /\ Goto("clone")
        /\ UNCHANGED <<machine, image, contents, probeVars, candidate, initrd,
                       relocated, clone, chosen>>
     \/ "split" \in MayFail /\ GiveUp

\* boot: clone the device tree with headroom.
boot ==
  /\ pc = "clone"
  /\ \/ \E start \in Ram :
          /\ IsHighest(start, FreeRuns(ClonePages))
          /\ Map!Allocate(start, start + ClonePages - 1, AcpiReclaim)
          /\ contents' = Written(start, ClonePages,
                              Other(IF FdtReadable THEN "clone" ELSE "junk"))
          /\ clone' = start
          /\ Goto("update")
          /\ UNCHANGED <<machine, image, probeVars, candidate, kernel, initrd,
                         relocated, chosen>>
     \/ /\ FreeRuns(ClonePages) = {} \/ "split" \in MayFail
        /\ GiveUp

\* update_device_tree, and the jump into the kernel if it succeeds.
boot_and_start ==
  /\ pc = "update"
  /\ \/ /\ chosen' = initrd
        /\ Goto("linux")
        /\ UNCHANGED <<machine, memVars, probeVars, candidate, kernel, initrd,
                       relocated, clone>>
     \/ "edit" \in MayFail /\ GiveUp

-----------------------------------------------------------------------------
Step ==
  \/ page_allocator_from_live_fdt
  \/ try_relocate_firmware
  \/ probe_virtio
  \/ open_table
  \/ next_partition
  \/ detect_partition_filesystem
  \/ try_boot_from_partition
  \/ no_more_candidates
  \/ load_candidate
  \/ check_artifacts
  \/ relocate_kernel
  \/ free_loaded_kernel
  \/ boot
  \/ boot_and_start

\* Linux runs, or the machine is off.
Over == pc \in {"linux", "off"} /\ UNCHANGED vars

Next == Step \/ Over

Spec == Init /\ [][Next]_vars

\* One hart, straight-line code: it always takes the next step.
FairSpec == Spec /\ WF_vars(Step)

-----------------------------------------------------------------------------
(* Properties. *)

Loaded == [start : Ram, pages : 0..RamPages]

\* The shape of the state: allocations and copies of main.rs and linux.rs stay
\* in RAM and the loops of probe_virtio in their tables.
TypeOK ==
  /\ machine \in Machines
  /\ pc \in {"entry", "image", "probe", "open", "reopen", "partitions", "detect",
             "mount", "map", "kernel", "initrd", "check", "relocate", "free",
             "clone", "update", "linux", "off"}
  /\ image \in Ram
  /\ Span(image, ImagePages) \subseteq Ram
  /\ types \in [Ram -> {"none", Conventional, Reserved, BootData, AcpiReclaim}]
  /\ built \in BOOLEAN
  /\ DOMAIN contents = Ram
  /\ device \in 0..Len(machine)
  /\ table \in Table
  /\ partition_count \in Nat
  /\ partition_index \in 0..partition_count
  /\ partition \in Entry
  /\ filesystem \in Filesystems
  /\ candidate \in 1..(Len(kernel_candidate_path) + 1)
  /\ kernel \in Loaded /\ initrd \in Loaded /\ chosen \in Loaded
  /\ relocated \in Ram
  /\ clone \in Ram

\* The running image, the device tree OpenSBI passed and the reserved pages
\* hold what they held at the start, through the copy of the image, all loads,
\* failed attempts and the relocation of the kernel.
FirmwareIntact ==
  /\ \A k \in 1..ImagePages : contents[image + k - 1] = Page(Other("image"), k)
  /\ \A q \in FdtPages : contents[q] = Page(Other("fdt"), q)
  /\ \A q \in ReservedPages : contents[q] = Page(Other("reserved"), q)

HoldsFile(loaded, paths) ==
  loaded.pages > 0 =>
    \E i \in DOMAIN paths : \A k \in 1..loaded.pages :
      contents[loaded.start + k - 1] = Page(FileAt(device, partition.first_lba, paths[i]), k)

\* What start() hands over is whole: an aligned kernel from the partition that
\* was tried, an initrd from the same partition where /chosen says it is, and
\* the cloned tree, no page of one overwritten by the making of another.
HandoffIsSound ==
  pc = "linux" =>
    /\ kernel.pages > 0
    /\ kernel.start % KernelStep = 0
    /\ HoldsFile(kernel, kernel_candidate_path)
    /\ HoldsFile(chosen, initrd_candidate_path)
    /\ \A k \in 1..ClonePages : contents[clone + k - 1] = Page(Other("clone"), k)

\* The partitions main.rs promises to boot from, as <<device, number>>: boot
\* flag, supported file system, and a kernel as the first file that loads.
TableOf(d) ==
  CASE machine[d].primary.valid -> machine[d].primary
    [] ~machine[d].primary.valid /\ machine[d].backup.valid -> machine[d].backup
    [] OTHER -> NoTable

Provides(d, k) ==
  LET e == TableOf(d).entries[k]
      v == machine[d].volumes[e.first_lba]
      paths == kernel_candidate_path
  IN /\ machine[d].works
     /\ e.present /\ e.bootable /\ e.sound
     /\ v.filesystem # "unknown"
     /\ \E i \in DOMAIN paths :
          /\ v.files[paths[i]].pages > 0 /\ v.files[paths[i]].linux
          /\ \A j \in 1..(i - 1) : v.files[paths[j]].pages = 0

Providers ==
  UNION {{<<d, k>> : k \in {j \in DOMAIN TableOf(d).entries : Provides(d, j)}} :
           d \in DOMAIN machine}

Before(a, b) == a[1] < b[1] \/ (a[1] = b[1] /\ a[2] < b[2])

\* The following make the promise possible: every entry of a table is sound,
\* there is a letter for every device, and the searches that a boot depends on
\* (for the image, the kernel, its new place and the clone) find a run.
EntriesAreSound ==
  \A m \in Machines : \A d \in DOMAIN m : \A t \in {m[d].primary, m[d].backup} :
    \A k \in DOMAIN t.entries : t.entries[k].sound

LettersForAll == \A m \in Machines : Len(m) <= RootDevices

RoomInMemory ==
  /\ pc = "image" => FreeRuns(ImagePages) # {}
  /\ pc = "kernel" => \A i \in DOMAIN kernel_candidate_path :
                       FreeRuns(TheVolume.files[kernel_candidate_path[i]].pages) # {}
  /\ pc = "relocate" => AlignedRuns(kernel.pages) # {}
  /\ pc = "clone" => FreeRuns(ClonePages) # {}

\* With tables of possible entries, disks that can be read and room in memory,
\* the firmware boots from the first partition that provides what it needs, and
\* powers off only when there is none.
BootsFirstProvider ==
  /\ pc = "linux" => /\ <<device, partition_index>> \in Providers
                     /\ \A a \in Providers : ~Before(a, <<device, partition_index>>)
  /\ pc = "off" => Providers = {}

\* Whatever fails, the machine ends up in Linux or off.
BootEnds == <>(pc \in {"linux", "off"})

=============================================================================
