---------------------------- MODULE BootFlowProofs ----------------------------
(***************************************************************************)
(* Proofs about BootFlow for every memory size, every placement of image,  *)
(* device tree and reserved pages, every set of disks and whatever fails.  *)
(***************************************************************************)
EXTENDS BootFlow, TLAPS

-----------------------------------------------------------------------------
(* The inductive invariant. *)

\* What is being looked at exists: the device, its table, the volume.
Probing == {"open", "reopen", "partitions", "detect", "mount", "map", "kernel",
            "initrd", "check", "relocate", "free", "clone", "update", "linux"}
Trying == Probing \ {"open", "reopen", "partitions"}

SelectionSound ==
  /\ pc \in Probing => device \in 1..Len(machine)
  /\ pc = "partitions" => table \in {machine[device].primary, machine[device].backup}
  /\ pc \in Trying => partition.first_lba \in DOMAIN machine[device].volumes

\* States in which a page map is in use.
Mapped == {"image", "kernel", "initrd", "check", "relocate", "free", "clone", "update"}

\* The predicates on memory take it as a parameter: C and T are the contents
\* and the types of the pages, before or after a step.
ProtectedAt(im) == Span(im, ImagePages) \cup FdtPages \cup ReservedPages

IntactIn(C, im) ==
  /\ \A k \in 1..ImagePages : C[im + k - 1] = Page(Other("image"), k)
  /\ \A q \in FdtPages : C[q] = Page(Other("fdt"), q)
  /\ \A q \in ReservedPages : C[q] = Page(Other("reserved"), q)

OwnedIn(T, S) == \A q \in S : T[q] # Conventional

\* A loaded file: its pages are in RAM, have an owner and hold the file.
HeldIn(C, T, d, lba, start, pages, paths) ==
  /\ Span(start, pages) \subseteq Ram
  /\ OwnedIn(T, Span(start, pages))
  /\ pages > 0 =>
       \E i \in DOMAIN paths : \A q \in Span(start, pages) :
         C[q] = Page(FileAt(d, lba, paths[i]), q - start + 1)

Held(start, pages, paths) ==
  HeldIn(contents, types, device, partition.first_lba, start, pages, paths)

Apart(a, m, b, n) == Span(a, m) \cap Span(b, n) = {}

\* The map knows every page that must not be given away.
ProtectedOwned == pc \in Mapped => OwnedIn(types, ProtectedAt(image))

\* The kernel where it was loaded, until its pages are freed.
KernelLoaded ==
  pc \in {"initrd", "check", "relocate", "free"} =>
    /\ Held(kernel.start, kernel.pages, kernel_candidate_path)
    /\ kernel.pages > 0
    /\ Span(kernel.start, kernel.pages) \cap ProtectedAt(image) = {}

InitrdLoaded ==
  /\ pc \in {"kernel", "initrd"} => initrd = NoFile
  /\ pc \in {"check", "relocate", "free", "clone", "update", "linux"} =>
       Held(initrd.start, initrd.pages, initrd_candidate_path)
  /\ pc \in {"check", "relocate", "free"} =>
       Apart(kernel.start, kernel.pages, initrd.start, initrd.pages)

\* The kernel where Linux will find it.
KernelRelocated ==
  /\ pc = "free" =>
       /\ Held(relocated, kernel.pages, kernel_candidate_path)
       /\ relocated % KernelStep = 0
       /\ Apart(kernel.start, kernel.pages, relocated, kernel.pages)
  /\ pc \in {"clone", "update", "linux"} =>
       /\ Held(kernel.start, kernel.pages, kernel_candidate_path)
       /\ kernel.pages > 0
       /\ kernel.start % KernelStep = 0

TreeCloned ==
  pc \in {"update", "linux"} =>
    \A q \in Span(clone, ClonePages) : contents[q] = Page(Other("clone"), q - clone + 1)

MemorySound ==
  /\ IntactIn(contents, image)
  /\ ProtectedOwned
  /\ KernelLoaded
  /\ InitrdLoaded
  /\ KernelRelocated
  /\ TreeCloned
  /\ pc = "linux" => chosen = initrd

IndInv == TypeOK /\ SelectionSound /\ MemorySound

-----------------------------------------------------------------------------
(* Types. *)

LEMMA RamFacts ==
  /\ Ram \subseteq Nat
  /\ 0 \in Ram
  /\ LoadPage \in Ram
  BY MemoryAssumption DEF Ram

LEMMA SpanInt ==
  ASSUME NEW a \in Int, NEW n \in Int, NEW q \in Span(a, n)
  PROVE  q \in Int /\ a <= q /\ q <= a + n - 1
  BY DEF Span

\* What the disks of a machine look like.
LEMMA MachineFacts ==
  ASSUME machine \in Machines
  PROVE  /\ Len(machine) \in Nat
         /\ \A d \in 1..Len(machine) : IsDevice(machine[d])
  BY MachineAssumption

\* A path of a volume leads to a file.
LEMMA FileFacts ==
  ASSUME TypeOK, SelectionSound, pc \in Trying, NEW path \in Paths
  PROVE  TheVolume.files[path] \in File
<1>1. device \in 1..Len(machine) /\ partition.first_lba \in DOMAIN machine[device].volumes
  BY DEF SelectionSound, Trying, Probing
<1>2. IsDevice(machine[device])
  BY <1>1, MachineFacts DEF TypeOK
<1>3. TheVolume \in Volume
  BY <1>1, <1>2 DEF IsDevice, TheVolume
<1> QED
  BY <1>3 DEF Volume

LEMMA CandidateFacts ==
  ASSUME candidate \in Nat \ {0}, candidate <= Len(Candidates)
  PROVE  /\ Candidates[candidate] \in Paths
         /\ candidate \in DOMAIN Candidates
  BY DEF Candidates, kernel_candidate_path, initrd_candidate_path, Paths

\* A step that only moves on inside the partition loop or a boot attempt.
LEMMA MoveTyped ==
  ASSUME TypeOK, SelectionSound,
         UNCHANGED <<machine, memVars, probeVars, loadVars>>,
         \/ pc' \in {"reopen", "off"} /\ pc \in Probing
         \/ pc' \in Trying /\ pc \in Trying
         \/ pc' = "off"
         \/ pc' = pc
  PROVE  TypeOK' /\ SelectionSound'
  BY DEF TypeOK, SelectionSound, Probing, Trying, memVars, probeVars, loadVars

LEMMA TypesInit == Init => TypeOK /\ SelectionSound
<1> SUFFICES ASSUME Init PROVE TypeOK /\ SelectionSound
  OBVIOUS
<1>1. SelectionSound
  BY DEF Init, SelectionSound, Probing, Trying
<1>2. NoTable \in Table /\ NoEntry \in Entry /\ NoFile \in Loaded
  BY RamFacts, MemoryAssumption DEF NoTable, Table, NoEntry, Entry, NoFile, Loaded
<1>3. /\ device \in 0..Len(machine) /\ partition_index \in 0..partition_count
      /\ candidate \in 1..(Len(kernel_candidate_path) + 1)
  BY MachineFacts DEF Init, kernel_candidate_path
<1>4. /\ types \in [Ram -> {"none", Conventional, Reserved, BootData, AcpiReclaim}]
      /\ DOMAIN contents = Ram
  BY DEF Init
<1> QED
  BY <1>1, <1>2, <1>3, <1>4, RamFacts, MemoryAssumption DEF Init, TypeOK, Filesystems

\* An allocation, or a free, keeps the map a map of types.
LEMMA RetypeTyped ==
  ASSUME types \in [Ram -> {"none", Conventional, Reserved, BootData, AcpiReclaim}],
         NEW S, NEW t \in {Conventional, BootData, AcpiReclaim},
         Map!Retype(S, t)
  PROVE  types' \in [Ram -> {"none", Conventional, Reserved, BootData, AcpiReclaim}]
  BY DEF Map!Retype

\* Every step keeps the types of the state and the soundness of the selection.
LEMMA TypesStep ==
  ASSUME TypeOK, SelectionSound, [Next]_vars
  PROVE  TypeOK' /\ SelectionSound'
<1>1. CASE page_allocator_from_live_fdt
  <2>1. /\ candidate' \in 1..(Len(kernel_candidate_path) + 1)
        /\ kernel' \in Loaded /\ initrd' \in Loaded
    BY <1>1, RamFacts, MemoryAssumption
    DEF page_allocator_from_live_fdt, kernel_candidate_path, Loaded, NoFile
  <2>2. types' \in [Ram -> {"none", Conventional, Reserved, BootData, AcpiReclaim}]
    BY <1>1 DEF page_allocator_from_live_fdt, TypeOK, FreshMap
  <2>3. built' \in BOOLEAN /\ pc' \in {"image", "kernel", "off", "reopen"}
    BY <1>1 DEF page_allocator_from_live_fdt, TypeOK, Goto
  <2>4. SelectionSound'
    BY <1>1 DEF page_allocator_from_live_fdt, SelectionSound, Goto, probeVars, Probing, Trying
  <2> QED
    BY <1>1, <2>1, <2>2, <2>3, <2>4
    DEF page_allocator_from_live_fdt, TypeOK, probeVars
<1>2. CASE try_relocate_firmware
  <2>1. CASE pc' = "off" /\ UNCHANGED <<memVars, machine, probeVars, loadVars>>
    BY <2>1, MoveTyped
  <2>2. ASSUME NEW start \in Ram,
               IsHighest(start, FreeRuns(ImagePages)),
               Map!Allocate(start, start + ImagePages - 1, BootData),
               contents' = Copied(start, ImagePages, image),
               image' = start, pc' = "probe",
               UNCHANGED <<machine, probeVars, loadVars>>
        PROVE  TypeOK' /\ SelectionSound'
    <3>1. types' \in [Ram -> {"none", Conventional, Reserved, BootData, AcpiReclaim}]
      BY <2>2, RetypeTyped DEF TypeOK, Map!Allocate
    <3>2. DOMAIN contents' = Ram /\ Span(image', ImagePages) \subseteq Ram
      BY <2>2 DEF Copied, IsHighest, FreeRuns
    <3>3. SelectionSound' /\ built' \in BOOLEAN
      BY <2>2 DEF SelectionSound, Probing, Trying, Map!Allocate, TypeOK
    <3> QED
      BY <2>2, <3>1, <3>2, <3>3 DEF TypeOK, probeVars, loadVars
  <2> QED
    BY <1>2, <2>1, <2>2 DEF try_relocate_firmware, Goto
<1>3. CASE probe_virtio
  <2>1. Len(machine) \in Nat
    BY MachineFacts DEF TypeOK
  <2>2. device' \in 0..Len(machine) /\ (pc' = "open" => device' \in 1..Len(machine))
    BY <1>3, <2>1 DEF probe_virtio, TypeOK, Goto
  <2>3. pc' \in {"off", "open", "probe"}
    BY <1>3 DEF probe_virtio, Goto
  <2> QED
    BY <1>3, <2>2, <2>3
    DEF probe_virtio, TypeOK, SelectionSound, Probing, Trying, memVars, loadVars
<1>4. CASE open_table
  <2>1. device \in 1..Len(machine) /\ IsDevice(machine[device])
    BY <1>4, MachineFacts DEF open_table, SelectionSound, Probing, TypeOK
  <2>2. CASE pc' = "probe" /\ UNCHANGED <<table, partition_count, partition_index>>
    BY <1>4, <2>2
    DEF open_table, TypeOK, SelectionSound, Probing, Trying, memVars, loadVars
  <2>3. ASSUME NEW t \in {machine[device].primary, machine[device].backup},
               table' = t, pc' = "partitions",
               IF pc = "open"
               THEN partition_count' = Len(t.entries) /\ partition_index' = 0
               ELSE UNCHANGED <<partition_count, partition_index>>
        PROVE  TypeOK' /\ SelectionSound'
    <3>1. t \in Table
      BY <2>1, <2>3 DEF IsDevice
    <3>2. Len(t.entries) \in Nat
      BY <3>1 DEF Table
    <3>3. partition_count' \in Nat /\ partition_index' \in 0..partition_count'
      BY <2>3, <3>2 DEF TypeOK
    <3> QED
      BY <1>4, <2>1, <2>3, <3>1, <3>3
      DEF open_table, TypeOK, SelectionSound, Probing, Trying, memVars, loadVars
  <2> QED
    BY <1>4, <2>2, <2>3 DEF open_table, Goto
<1>5. CASE next_partition
  <2> DEFINE k == partition_index + 1
  <2>1. device \in 1..Len(machine) /\ IsDevice(machine[device])
    BY <1>5, MachineFacts DEF next_partition, SelectionSound, Probing, TypeOK
  <2>2. table \in {machine[device].primary, machine[device].backup}
    BY <1>5 DEF next_partition, SelectionSound
  <2>3. CASE pc' = "probe" /\ UNCHANGED <<partition_index, partition>>
    BY <1>5, <2>3
    DEF next_partition, TypeOK, SelectionSound, Probing, Trying, memVars, loadVars
  <2>4. CASE /\ partition_index < partition_count
             /\ k <= Len(table.entries)
             /\ partition_index' = k
             /\ IF table.entries[k].present
                THEN partition' = table.entries[k] /\ pc' = "detect"
                ELSE UNCHANGED <<pc, partition>>
    <3>1. k \in Nat \ {0} /\ k <= partition_count
      BY <2>4 DEF TypeOK
    <3>2. k \in DOMAIN table.entries /\ table.entries[k] \in Entry
      BY <2>4, <3>1 DEF TypeOK, Table
    <3>3. table.entries[k].first_lba \in DOMAIN machine[device].volumes
      BY <2>1, <2>2, <3>2 DEF IsDevice
    <3>4. partition_index' \in 0..partition_count
      BY <2>4, <3>1 DEF TypeOK
    <3>5. pc' \in {"detect", "partitions"} /\ partition' \in Entry
      BY <1>5, <2>4, <3>2 DEF next_partition, TypeOK
    <3>6. UNCHANGED <<machine, memVars, device, table, partition_count, filesystem, loadVars>>
      BY <1>5 DEF next_partition
    <3>7. pc' = "detect" => partition' = table.entries[k]
      BY <1>5, <2>4 DEF next_partition
    <3> HIDE DEF k
    <3>8. TypeOK'
      BY <3>4, <3>5, <3>6 DEF TypeOK, memVars, loadVars
    <3>9. SelectionSound'
      BY <2>1, <2>2, <3>3, <3>5, <3>6, <3>7 DEF SelectionSound, Probing, Trying
    <3> QED
      BY <3>8, <3>9
  <2> QED
    BY <1>5, <2>3, <2>4 DEF next_partition, Goto
<1>6. CASE detect_partition_filesystem
  <2>1. device \in 1..Len(machine) /\ IsDevice(machine[device])
        /\ partition.first_lba \in DOMAIN machine[device].volumes
    BY <1>6, MachineFacts
    DEF detect_partition_filesystem, SelectionSound, Probing, Trying, TypeOK
  <2>2. TheVolume.filesystem \in Filesystems
    BY <2>1 DEF TheVolume, IsDevice, Volume
  <2>3. filesystem' \in Filesystems /\ pc' \in {"mount", "reopen"}
    BY <1>6, <2>2 DEF detect_partition_filesystem, Filesystems, Goto
  <2> QED
    BY <1>6, <2>1, <2>3
    DEF detect_partition_filesystem, TypeOK, SelectionSound, Probing, Trying, memVars, loadVars
<1>7. CASE try_boot_from_partition
  BY <1>7, MoveTyped
  DEF try_boot_from_partition, GiveUp, Goto, Probing, Trying
<1>8. CASE no_more_candidates
  BY <1>8, MoveTyped DEF no_more_candidates, Goto, Probing, Trying
<1>9. CASE load_candidate
  <2> DEFINE path == Candidates[candidate]
             file == TheVolume.files[path]
  <2>1. pc \in Trying /\ candidate \in Nat \ {0} /\ candidate <= Len(Candidates)
    BY <1>9 DEF load_candidate, TypeOK, Trying, Probing, kernel_candidate_path
  <2>2. file \in File
    BY <2>1, FileFacts, CandidateFacts
  <2>3. /\ file.pages \in 0..RamPages
        /\ candidate + 1 \in 1..(Len(kernel_candidate_path) + 1)
    BY <2>1, <2>2 DEF File, Candidates, kernel_candidate_path, initrd_candidate_path
  <2>4. /\ UNCHANGED <<machine, image, probeVars, relocated, clone, chosen>>
        /\ pc' \in {"kernel", "initrd", "check"}
        /\ candidate' \in {1, candidate + 1}
    BY <1>9 DEF load_candidate, Goto
  <2>5. /\ types' \in [Ram -> {"none", Conventional, Reserved, BootData, AcpiReclaim}]
        /\ DOMAIN contents' = Ram
        /\ built' \in BOOLEAN
        /\ kernel' \in Loaded
        /\ initrd' \in Loaded
    <3>1. CASE UNCHANGED <<types, built, contents, kernel, initrd>>
      BY <3>1 DEF TypeOK
    <3>2. ASSUME NEW start \in Ram,
                 Map!Allocate(start, start + file.pages - 1, BootData),
                 \E source : contents' = Written(start, file.pages, source),
                 kernel' \in {kernel, [start |-> start, pages |-> file.pages]},
                 initrd' \in {initrd, [start |-> start, pages |-> file.pages]}
          PROVE  /\ types' \in [Ram -> {"none", Conventional, Reserved, BootData, AcpiReclaim}]
                 /\ DOMAIN contents' = Ram
                 /\ built' \in BOOLEAN
                 /\ kernel' \in Loaded
                 /\ initrd' \in Loaded
      <4>1. types' \in [Ram -> {"none", Conventional, Reserved, BootData, AcpiReclaim}]
        BY <3>2, RetypeTyped DEF TypeOK, Map!Allocate
      <4>2. [start |-> start, pages |-> file.pages] \in Loaded
        BY <2>3, <3>2 DEF Loaded
      <4> QED
        BY <3>2, <4>1, <4>2 DEF TypeOK, Map!Allocate, Written
    <3> QED
      BY <1>9, <3>1, <3>2 DEF load_candidate
  <2> HIDE DEF path, file
  <2>6. SelectionSound'
    BY <2>1, <2>4 DEF SelectionSound, Trying, Probing, probeVars
  <2>7. candidate' \in 1..(Len(kernel_candidate_path) + 1)
    BY <2>3, <2>4 DEF kernel_candidate_path
  <2> QED
    BY <2>4, <2>5, <2>6, <2>7 DEF TypeOK, probeVars
<1>10. CASE check_artifacts
  BY <1>10, MoveTyped DEF check_artifacts, GiveUp, Goto, Probing, Trying
<1>11. CASE relocate_kernel
  <2>1. CASE GiveUp
    BY <1>11, <2>1, MoveTyped DEF relocate_kernel, GiveUp, Goto, Probing
  <2>2. ASSUME NEW start \in Ram,
               Map!Allocate(start, start + kernel.pages - 1, BootData),
               contents' = Copied(start, kernel.pages, kernel.start),
               relocated' = start, pc' = "free",
               UNCHANGED <<machine, image, probeVars, candidate, kernel, initrd, clone, chosen>>
        PROVE  TypeOK' /\ SelectionSound'
    <3>1. types' \in [Ram -> {"none", Conventional, Reserved, BootData, AcpiReclaim}]
      BY <2>2, RetypeTyped DEF TypeOK, Map!Allocate
    <3>2. SelectionSound'
      BY <1>11, <2>2 DEF relocate_kernel, SelectionSound, Trying, Probing, probeVars
    <3> QED
      BY <2>2, <3>1, <3>2 DEF TypeOK, Copied, Map!Allocate, probeVars
  <2> QED
    BY <1>11, <2>1, <2>2 DEF relocate_kernel, Goto
<1>12. CASE free_loaded_kernel
  <2>1. CASE GiveUp
    BY <1>12, <2>1, MoveTyped DEF free_loaded_kernel, GiveUp, Goto, Probing
  <2>2. CASE /\ Map!Free(kernel.start, kernel.start + kernel.pages - 1)
             /\ kernel' = [kernel EXCEPT !.start = relocated]
             /\ pc' = "clone"
             /\ UNCHANGED <<machine, image, contents, probeVars, candidate, initrd,
                            relocated, clone, chosen>>
    <3>1. types' \in [Ram -> {"none", Conventional, Reserved, BootData, AcpiReclaim}]
      BY <2>2, RetypeTyped DEF TypeOK, Map!Free
    <3>2. SelectionSound'
      BY <1>12, <2>2 DEF free_loaded_kernel, SelectionSound, Trying, Probing, probeVars
    <3>3. kernel' \in Loaded
      BY <2>2 DEF TypeOK, Loaded
    <3> QED
      BY <2>2, <3>1, <3>2, <3>3 DEF TypeOK, Map!Free, probeVars
  <2> QED
    BY <1>12, <2>1, <2>2 DEF free_loaded_kernel, Goto
<1>13. CASE boot
  <2>1. CASE GiveUp
    BY <1>13, <2>1, MoveTyped DEF boot, GiveUp, Goto, Probing
  <2>2. ASSUME NEW start \in Ram,
               Map!Allocate(start, start + ClonePages - 1, AcpiReclaim),
               \E source : contents' = Written(start, ClonePages, source),
               clone' = start, pc' = "update",
               UNCHANGED <<machine, image, probeVars, candidate, kernel, initrd,
                           relocated, chosen>>
        PROVE  TypeOK' /\ SelectionSound'
    <3>1. types' \in [Ram -> {"none", Conventional, Reserved, BootData, AcpiReclaim}]
      BY <2>2, RetypeTyped DEF TypeOK, Map!Allocate
    <3>2. SelectionSound'
      BY <1>13, <2>2 DEF boot, SelectionSound, Trying, Probing, probeVars
    <3> QED
      BY <2>2, <3>1, <3>2 DEF TypeOK, Written, Map!Allocate, probeVars
  <2> QED
    BY <1>13, <2>1, <2>2 DEF boot, Goto
<1>14. CASE boot_and_start
  <2>1. CASE GiveUp
    BY <1>14, <2>1, MoveTyped DEF boot_and_start, GiveUp, Goto, Probing
  <2>2. CASE /\ chosen' = initrd
             /\ pc' = "linux"
             /\ UNCHANGED <<machine, memVars, probeVars, candidate, kernel, initrd,
                            relocated, clone>>
    <3>1. SelectionSound'
      BY <1>14, <2>2 DEF boot_and_start, SelectionSound, Trying, Probing, probeVars
    <3> QED
      BY <2>2, <3>1 DEF TypeOK, memVars, probeVars
  <2> QED
    BY <1>14, <2>1, <2>2 DEF boot_and_start, Goto
<1>15. CASE UNCHANGED vars
  BY <1>15, MoveTyped DEF vars
<1> QED
  BY <1>1, <1>2, <1>3, <1>4, <1>5, <1>6, <1>7, <1>8, <1>9, <1>10, <1>11, <1>12,
     <1>13, <1>14, <1>15
  DEF Next, Step, Over

-----------------------------------------------------------------------------
(* Memory.  TakenBy says what every allocation that is written to does: free *)
(* pages S get an owner and a content, and no other page changes.            *)

TakenBy(C, T, C2, T2, S) ==
  /\ S \subseteq Ram
  /\ \A q \in S : T[q] = Conventional /\ T2[q] # Conventional
  /\ \A q \in Ram : q \notin S => C2[q] = C[q] /\ T2[q] = T[q]

\* What is held stays held and is none of the pages taken.
LEMMA TakenKeepsHeld ==
  ASSUME NEW C, NEW T, NEW C2, NEW T2, NEW S, TakenBy(C, T, C2, T2, S),
         NEW d, NEW lba, NEW a, NEW n, NEW paths,
         HeldIn(C, T, d, lba, a, n, paths)
  PROVE  /\ HeldIn(C2, T2, d, lba, a, n, paths)
         /\ Span(a, n) \cap S = {}
  BY DEF TakenBy, HeldIn, OwnedIn

LEMMA TakenKeepsFirmware ==
  ASSUME NEW C, NEW T, NEW C2, NEW T2, NEW S, TakenBy(C, T, C2, T2, S),
         NEW im \in Ram, Span(im, ImagePages) \subseteq Ram,
         IntactIn(C, im), OwnedIn(T, ProtectedAt(im))
  PROVE  /\ IntactIn(C2, im)
         /\ OwnedIn(T2, ProtectedAt(im))
         /\ S \cap ProtectedAt(im) = {}
<1>1. ProtectedAt(im) \subseteq Ram
  BY MemoryAssumption DEF ProtectedAt
<1>2. \A q \in ProtectedAt(im) : C2[q] = C[q] /\ T2[q] = T[q] /\ q \notin S
  BY <1>1 DEF TakenBy, OwnedIn
<1>3. \A k \in 1..ImagePages : im + k - 1 \in ProtectedAt(im)
  BY MemoryAssumption, RamFacts DEF ProtectedAt, Span
<1> QED
  BY <1>2, <1>3 DEF IntactIn, OwnedIn, ProtectedAt

\* The allocator's answer to a search is such a set of pages.
LEMMA AllocationTakes ==
  ASSUME NEW start \in Ram, NEW n, start \in FreeRuns(n),
         NEW t \in {BootData, AcpiReclaim},
         Map!Allocate(start, start + n - 1, t),
         \A q \in Ram : q \notin Span(start, n) => contents'[q] = contents[q]
  PROVE  TakenBy(contents, types, contents', types', Span(start, n))
<1>1. \A q \in Span(start, n) : q \in Ram /\ types[q] = Conventional
  BY DEF FreeRuns
<1>2. types' = [q \in Ram |-> IF q \in Span(start, n) THEN t ELSE types[q]]
  BY DEF Map!Allocate, Map!Retype, Span
<1>3. t # Conventional
  BY DEF BootData, AcpiReclaim, Conventional
<1> QED
  BY <1>1, <1>2, <1>3 DEF TakenBy

LEMMA WrittenOutside ==
  ASSUME NEW start, NEW n, NEW source, contents' = Written(start, n, source)
  PROVE  /\ \A q \in Ram : q \notin Span(start, n) => contents'[q] = contents[q]
         /\ \A q \in Ram : q \in Span(start, n) => contents'[q] = Page(source, q - start + 1)
  BY DEF Written

LEMMA CopiedOutside ==
  ASSUME NEW start, NEW n, NEW old, contents' = Copied(start, n, old)
  PROVE  /\ \A q \in Ram : q \notin Span(start, n) => contents'[q] = contents[q]
         /\ \A q \in Ram : q \in Span(start, n) => contents'[q] = contents[old + q - start]
  BY DEF Copied

\* A step that leaves memory alone and ends outside the boot attempt.
LEMMA QuietStep ==
  ASSUME MemorySound, UNCHANGED <<contents, image>>,
         pc' \in {"probe", "open", "reopen", "partitions", "detect", "mount", "map", "off"}
  PROVE  MemorySound'
  BY DEF MemorySound, ProtectedOwned, KernelLoaded, InitrdLoaded, KernelRelocated,
         TreeCloned, Mapped

LEMMA GiveUpStep ==
  ASSUME MemorySound, GiveUp
  PROVE  MemorySound'
  BY QuietStep DEF GiveUp, Goto, memVars

LEMMA MemoryInit == Init => MemorySound
<1> SUFFICES ASSUME Init PROVE MemorySound
  OBVIOUS
<1>1. Span(LoadPage, ImagePages) \subseteq Ram /\ LoadPage \in Nat /\ ImagePages \in Nat
  BY MemoryAssumption, RamFacts
<1>2. \A k \in 1..ImagePages : LoadPage + k - 1 \in Span(LoadPage, ImagePages)
                               /\ (LoadPage + k - 1) - LoadPage + 1 = k
  BY <1>1 DEF Span
<1>3. \A q \in Span(LoadPage, ImagePages) : q \notin FdtPages /\ q \notin ReservedPages
  BY MemoryAssumption
<1>4. \A q \in ReservedPages : q \notin FdtPages
  BY MemoryAssumption
<1>5. \A k \in 1..ImagePages : contents[LoadPage + k - 1] = Page(Other("image"), k)
  BY <1>1, <1>2, <1>3 DEF Init
<1>6. /\ \A q \in FdtPages : contents[q] = Page(Other("fdt"), q)
      /\ \A q \in ReservedPages : contents[q] = Page(Other("reserved"), q)
  BY <1>4, MemoryAssumption DEF Init
<1>7. IntactIn(contents, image)
  BY <1>5, <1>6 DEF Init, IntactIn
<1> QED
  BY <1>7 DEF Init, MemorySound, ProtectedOwned, KernelLoaded, InitrdLoaded,
              KernelRelocated, TreeCloned, Mapped

\* The image is whole where it was copied to.
LEMMA ImageStep ==
  ASSUME IndInv, try_relocate_firmware
  PROVE  MemorySound'
<1>1. CASE pc' = "off" /\ UNCHANGED memVars
  BY <1>1, QuietStep DEF IndInv, memVars
<1>2. ASSUME NEW start \in Ram,
             start \in FreeRuns(ImagePages),
             Map!Allocate(start, start + ImagePages - 1, BootData),
             contents' = Copied(start, ImagePages, image),
             image' = start, pc' = "probe"
      PROVE  MemorySound'
  <2>1. /\ image \in Ram /\ Span(image, ImagePages) \subseteq Ram
        /\ IntactIn(contents, image) /\ OwnedIn(types, ProtectedAt(image))
    BY DEF IndInv, TypeOK, MemorySound, ProtectedOwned, try_relocate_firmware, Mapped
  <2>2. TakenBy(contents, types, contents', types', Span(start, ImagePages))
    BY <1>2, CopiedOutside, AllocationTakes
  <2>3. IntactIn(contents', image)
    BY <2>1, <2>2, TakenKeepsFirmware
  <2>4. ASSUME NEW k \in 1..ImagePages
        PROVE  contents'[start + k - 1] = Page(Other("image"), k)
    <3>1. /\ start \in Int /\ image \in Int /\ k \in Int
          /\ image + (start + k - 1) - start = image + k - 1
      BY <1>2, <2>1, RamFacts
    <3>2. start + k - 1 \in Span(start, ImagePages)
      BY <3>1, MemoryAssumption DEF Span
    <3>3. start + k - 1 \in Ram
      BY <1>2, <3>2 DEF FreeRuns
    <3>4. contents'[start + k - 1] = contents[image + (start + k - 1) - start]
      BY <1>2, <3>2, <3>3, CopiedOutside
    <3>5. contents[image + k - 1] = Page(Other("image"), k)
      BY <2>1 DEF IntactIn
    <3> QED
      BY <3>1, <3>4, <3>5
  <2>5. IntactIn(contents', image')
    BY <1>2, <2>3, <2>4 DEF IntactIn
  <2> QED
    BY <1>2, <2>5 DEF MemorySound, ProtectedOwned, KernelLoaded, InitrdLoaded,
                      KernelRelocated, TreeCloned, Mapped
<1> QED
  BY <1>1, <1>2 DEF try_relocate_firmware, IsHighest, Goto

\* A map built from the device tree knows the image where it runs.
LEMMA MapStep ==
  ASSUME IndInv, page_allocator_from_live_fdt
  PROVE  MemorySound'
<1>1. CASE pc' \in {"off", "reopen"}
  BY <1>1, QuietStep DEF IndInv, page_allocator_from_live_fdt
<1>2. CASE /\ types' = [q \in Ram |-> FreshMap(q)]
           /\ pc' \in {"image", "kernel"}
  <2>1. Span(image, ImagePages) \subseteq Ram
    BY DEF IndInv, TypeOK
  <2>2. \A q \in ProtectedAt(image) : q \in Ram /\ FreshMap(q) # Conventional
    BY <2>1, MemoryAssumption
    DEF ProtectedAt, FreshMap, AcpiReclaim, Reserved, BootData, Conventional
  <2>3. OwnedIn(types', ProtectedAt(image))
    BY <1>2, <2>2 DEF OwnedIn
  <2>4. /\ contents' = contents /\ image' = image /\ initrd' = NoFile
    BY DEF page_allocator_from_live_fdt
  <2> QED
    BY <1>2, <2>3, <2>4
    DEF IndInv, MemorySound, ProtectedOwned, KernelLoaded, InitrdLoaded,
        KernelRelocated, TreeCloned
<1> QED
  BY <1>1, <1>2 DEF page_allocator_from_live_fdt, Goto

\* A boot attempt without an initrd goes on.
LEMMA NoCandidateStep ==
  ASSUME IndInv, no_more_candidates
  PROVE  MemorySound'
<1>1. CASE pc = "kernel"
  BY <1>1, QuietStep DEF IndInv, no_more_candidates, Goto, memVars
<1>2. CASE pc = "initrd"
  <2>1. pc' = "check" /\ UNCHANGED <<memVars, probeVars, loadVars>>
    BY <1>2 DEF no_more_candidates, Goto
  <2>2. initrd = NoFile /\ initrd.start = 0 /\ initrd.pages = 0
    BY <1>2 DEF IndInv, MemorySound, InitrdLoaded, NoFile
  <2>3. Span(initrd.start, initrd.pages) = {}
    BY <2>2 DEF Span
  <2>4. Held(initrd.start, initrd.pages, initrd_candidate_path)
    BY <2>2, <2>3 DEF Held, HeldIn, OwnedIn
  <2>5. Apart(kernel.start, kernel.pages, initrd.start, initrd.pages)
    BY <2>3 DEF Apart
  <2> QED
    BY <1>2, <2>1, <2>4, <2>5
    DEF IndInv, MemorySound, ProtectedOwned, KernelLoaded, InitrdLoaded,
        KernelRelocated, TreeCloned, Mapped, Held, memVars, probeVars, loadVars
<1> QED
  BY <1>1, <1>2 DEF no_more_candidates

\* The pages a file is read into hold it and have an owner.
LEMMA LoadedHeld ==
  ASSUME NEW C, NEW T, NEW C2, NEW T2, NEW start, NEW n,
         TakenBy(C, T, C2, T2, Span(start, n)),
         NEW d, NEW lba, NEW paths, NEW i \in DOMAIN paths,
         \A q \in Ram : q \in Span(start, n) => C2[q] = Page(FileAt(d, lba, paths[i]), q - start + 1)
  PROVE  HeldIn(C2, T2, d, lba, start, n, paths)
  BY DEF TakenBy, HeldIn, OwnedIn

\* Loading a file, whether or not the read succeeds, spares the firmware and
\* the kernel loaded before.
LEMMA LoadStep ==
  ASSUME IndInv, load_candidate
  PROVE  MemorySound'
<1> DEFINE path == Candidates[candidate]
           n == TheVolume.files[path].pages
           lba == partition.first_lba
<1>1. /\ pc \in {"kernel", "initrd"} /\ pc \in Trying /\ pc \in Mapped
      /\ candidate \in Nat \ {0} /\ candidate <= Len(Candidates)
  BY DEF IndInv, load_candidate, TypeOK, Trying, Probing, Mapped, kernel_candidate_path
<1>2. UNCHANGED <<image, probeVars>>
  BY DEF load_candidate
<1>3. /\ image \in Ram /\ Span(image, ImagePages) \subseteq Ram
      /\ IntactIn(contents, image) /\ OwnedIn(types, ProtectedAt(image))
      /\ initrd = NoFile
  BY <1>1 DEF IndInv, TypeOK, MemorySound, ProtectedOwned, InitrdLoaded
<1>4. CASE UNCHANGED <<pc, types, contents, kernel, initrd>>
  BY <1>1, <1>2, <1>4
  DEF IndInv, MemorySound, ProtectedOwned, KernelLoaded, InitrdLoaded,
      KernelRelocated, TreeCloned, Held, probeVars
<1>5. ASSUME NEW start \in Ram, n > 0,
             start \in FreeRuns(n),
             Map!Allocate(start, start + n - 1, BootData),
             NEW source, contents' = Written(start, n, source),
             \/ UNCHANGED <<pc, kernel, initrd>>
             \/ /\ source = FileAt(device, lba, path)
                /\ \/ /\ pc = "kernel" /\ pc' = "initrd"
                      /\ kernel' = [start |-> start, pages |-> n]
                      /\ initrd' = initrd
                   \/ /\ pc = "initrd" /\ pc' = "check"
                      /\ initrd' = [start |-> start, pages |-> n]
                      /\ kernel' = kernel
      PROVE  MemorySound'
  <2> HIDE DEF n
  <2>1. TakenBy(contents, types, contents', types', Span(start, n))
    BY <1>5, WrittenOutside, AllocationTakes
  <2>2. /\ IntactIn(contents', image) /\ OwnedIn(types', ProtectedAt(image))
        /\ Span(start, n) \cap ProtectedAt(image) = {}
    BY <1>3, <2>1, TakenKeepsFirmware
  <2>3. \A q \in Ram : q \in Span(start, n) => contents'[q] = Page(source, q - start + 1)
    BY <1>5, WrittenOutside
  <2>4. pc = "initrd" =>
          /\ HeldIn(contents', types', device, lba, kernel.start, kernel.pages, kernel_candidate_path)
          /\ Apart(kernel.start, kernel.pages, start, n)
          /\ kernel.pages > 0
          /\ Span(kernel.start, kernel.pages) \cap ProtectedAt(image) = {}
    <3> SUFFICES ASSUME pc = "initrd"
                 PROVE  /\ HeldIn(contents', types', device, lba, kernel.start, kernel.pages,
                                  kernel_candidate_path)
                        /\ Apart(kernel.start, kernel.pages, start, n)
                        /\ kernel.pages > 0
                        /\ Span(kernel.start, kernel.pages) \cap ProtectedAt(image) = {}
      OBVIOUS
    <3>1. /\ HeldIn(contents, types, device, lba, kernel.start, kernel.pages, kernel_candidate_path)
          /\ kernel.pages > 0
          /\ Span(kernel.start, kernel.pages) \cap ProtectedAt(image) = {}
      BY DEF IndInv, MemorySound, KernelLoaded, Held
    <3>2. /\ HeldIn(contents', types', device, lba, kernel.start, kernel.pages, kernel_candidate_path)
          /\ Span(kernel.start, kernel.pages) \cap Span(start, n) = {}
      BY <2>1, <3>1, TakenKeepsHeld
    <3> QED
      BY <3>1, <3>2 DEF Apart
  <2>5. CASE UNCHANGED <<pc, kernel, initrd>>
    BY <1>1, <1>2, <1>3, <2>2, <2>4, <2>5
    DEF MemorySound, ProtectedOwned, KernelLoaded, InitrdLoaded,
        KernelRelocated, TreeCloned, Held, probeVars
  <2>6. CASE /\ source = FileAt(device, lba, path)
             /\ pc = "kernel" /\ pc' = "initrd"
             /\ kernel' = [start |-> start, pages |-> n]
             /\ initrd' = initrd
    <3>1. path = kernel_candidate_path[candidate] /\ candidate \in DOMAIN kernel_candidate_path
      BY <1>1, <2>6, CandidateFacts DEF Candidates
    <3>2. HeldIn(contents', types', device, lba, start, n, kernel_candidate_path)
      BY <2>1, <2>3, <2>6, <3>1, LoadedHeld
    <3>3. kernel'.start = start /\ kernel'.pages = n
      BY <2>6
    <3> QED
      BY <1>2, <1>3, <1>5, <2>2, <2>6, <3>2, <3>3
      DEF MemorySound, ProtectedOwned, KernelLoaded, InitrdLoaded,
          KernelRelocated, TreeCloned, Held, probeVars
  <2>7. CASE /\ source = FileAt(device, lba, path)
             /\ pc = "initrd" /\ pc' = "check"
             /\ initrd' = [start |-> start, pages |-> n]
             /\ kernel' = kernel
    <3>1. path = initrd_candidate_path[candidate] /\ candidate \in DOMAIN initrd_candidate_path
      BY <1>1, <2>7, CandidateFacts DEF Candidates
    <3>2. HeldIn(contents', types', device, lba, start, n, initrd_candidate_path)
      BY <2>1, <2>3, <2>7, <3>1, LoadedHeld
    <3>3. initrd'.start = start /\ initrd'.pages = n
      BY <2>7
    <3> QED
      BY <1>2, <1>3, <1>5, <2>2, <2>4, <2>7, <3>2, <3>3
      DEF MemorySound, ProtectedOwned, KernelLoaded, InitrdLoaded,
          KernelRelocated, TreeCloned, Held, probeVars
  <2> QED
    BY <1>5, <2>5, <2>6, <2>7
<1>6. \/ UNCHANGED <<pc, types, contents, kernel, initrd>>
      \/ n > 0 /\ \E start \in Ram :
           /\ IsHighest(start, FreeRuns(n))
           /\ Map!Allocate(start, start + n - 1, BootData)
           /\ \/ contents' = Written(start, n, Other("junk")) /\ UNCHANGED <<pc, kernel, initrd>>
              \/ /\ contents' = Written(start, n, FileAt(device, lba, path))
                 /\ IF pc = "kernel"
                    THEN /\ kernel' = [start |-> start, pages |-> n]
                         /\ pc' = "initrd" /\ initrd' = initrd
                    ELSE /\ initrd' = [start |-> start, pages |-> n]
                         /\ pc' = "check" /\ kernel' = kernel
  BY DEF load_candidate, Goto
<1> HIDE DEF n, path
<1> QED
  BY <1>1, <1>4, <1>5, <1>6 DEF IsHighest

\* The copy of a held file is held.
LEMMA CopyHeld ==
  ASSUME NEW start \in Ram, NEW old \in Ram, NEW n \in Nat,
         TakenBy(contents, types, contents', types', Span(start, n)),
         \A q \in Ram : q \in Span(start, n) => contents'[q] = contents[old + q - start],
         NEW d, NEW lba, NEW paths,
         HeldIn(contents, types, d, lba, old, n, paths), n > 0
  PROVE  HeldIn(contents', types', d, lba, start, n, paths)
<1>1. PICK i \in DOMAIN paths : \A q \in Span(old, n) :
        contents[q] = Page(FileAt(d, lba, paths[i]), q - old + 1)
  BY DEF HeldIn
<1>2. ASSUME NEW q \in Span(start, n)
      PROVE  contents'[q] = Page(FileAt(d, lba, paths[i]), q - start + 1)
  <2>1. /\ start \in Int /\ old \in Int /\ q \in Int /\ start <= q /\ q <= start + n - 1
    BY RamFacts, <1>2, SpanInt
  <2>2. old + q - start \in Span(old, n) /\ (old + q - start) - old + 1 = q - start + 1
    BY <2>1 DEF Span
  <2>3. q \in Ram
    BY <1>2 DEF TakenBy
  <2>4. contents'[q] = contents[old + q - start]
    BY <1>2, <2>3
  <2>5. contents[old + q - start]
          = Page(FileAt(d, lba, paths[i]), (old + q - start) - old + 1)
    BY <1>1, <2>2
  <2> QED
    BY <2>2, <2>4, <2>5
<1>3. Span(start, n) \subseteq Ram /\ OwnedIn(types', Span(start, n))
  BY DEF TakenBy, OwnedIn
<1> QED
  BY <1>2, <1>3 DEF HeldIn

\* The kernel is whole at its aligned place, apart from where it was loaded.
LEMMA RelocateStep ==
  ASSUME IndInv, relocate_kernel
  PROVE  MemorySound'
<1> DEFINE n == kernel.pages
           lba == partition.first_lba
<1>1. /\ pc = "relocate" /\ pc \in Mapped
      /\ image \in Ram /\ Span(image, ImagePages) \subseteq Ram
      /\ IntactIn(contents, image) /\ OwnedIn(types, ProtectedAt(image))
      /\ kernel.start \in Ram /\ n \in Nat
  BY MemoryAssumption
  DEF IndInv, TypeOK, MemorySound, ProtectedOwned, Mapped, relocate_kernel, Loaded
<1>2. /\ HeldIn(contents, types, device, lba, kernel.start, n, kernel_candidate_path)
      /\ n > 0
      /\ Span(kernel.start, n) \cap ProtectedAt(image) = {}
      /\ HeldIn(contents, types, device, lba, initrd.start, initrd.pages, initrd_candidate_path)
      /\ Apart(kernel.start, n, initrd.start, initrd.pages)
  BY <1>1 DEF IndInv, MemorySound, KernelLoaded, InitrdLoaded, Held
<1>3. CASE GiveUp
  BY <1>3, GiveUpStep DEF IndInv
<1>4. ASSUME NEW start \in Ram,
             start \in FreeRuns(n), start % KernelStep = 0,
             Map!Allocate(start, start + n - 1, BootData),
             contents' = Copied(start, n, kernel.start),
             relocated' = start, pc' = "free",
             UNCHANGED <<image, probeVars, kernel, initrd>>
      PROVE  MemorySound'
  <2>1. TakenBy(contents, types, contents', types', Span(start, n))
    BY <1>4, CopiedOutside, AllocationTakes
  <2>2. IntactIn(contents', image) /\ OwnedIn(types', ProtectedAt(image))
    BY <1>1, <2>1, TakenKeepsFirmware
  <2>3. \A q \in Ram : q \in Span(start, n) => contents'[q] = contents[kernel.start + q - start]
    BY <1>4, CopiedOutside
  <2>4. /\ HeldIn(contents', types', device, lba, kernel.start, n, kernel_candidate_path)
        /\ Span(kernel.start, n) \cap Span(start, n) = {}
    BY <1>2, <2>1, TakenKeepsHeld
  <2>5. HeldIn(contents', types', device, lba, initrd.start, initrd.pages, initrd_candidate_path)
    BY <1>2, <2>1, TakenKeepsHeld
  <2>6. HeldIn(contents', types', device, lba, start, n, kernel_candidate_path)
    BY <1>1, <1>2, <1>4, <2>1, <2>3, CopyHeld
  <2> QED
    BY <1>2, <1>4, <2>2, <2>4, <2>5, <2>6
    DEF MemorySound, ProtectedOwned, KernelLoaded, InitrdLoaded,
        KernelRelocated, TreeCloned, Held, Apart, probeVars
<1> QED
  BY <1>3, <1>4 DEF relocate_kernel, IsLowest, AlignedRuns, Goto

\* Freeing the pages the kernel was loaded into takes no page from the
\* firmware, the initrd or the kernel's new place.
LEMMA FreeStep ==
  ASSUME IndInv, free_loaded_kernel
  PROVE  MemorySound'
<1> DEFINE n == kernel.pages
           lba == partition.first_lba
<1>1. /\ pc = "free" /\ pc \in Mapped
      /\ Span(image, ImagePages) \subseteq Ram
      /\ IntactIn(contents, image) /\ OwnedIn(types, ProtectedAt(image))
      /\ kernel \in Loaded
  BY DEF IndInv, TypeOK, MemorySound, ProtectedOwned, Mapped, free_loaded_kernel
<1>2. /\ n > 0
      /\ Span(kernel.start, n) \cap ProtectedAt(image) = {}
      /\ HeldIn(contents, types, device, lba, initrd.start, initrd.pages, initrd_candidate_path)
      /\ Apart(kernel.start, n, initrd.start, initrd.pages)
      /\ HeldIn(contents, types, device, lba, relocated, n, kernel_candidate_path)
      /\ relocated % KernelStep = 0
      /\ Apart(kernel.start, n, relocated, n)
  BY <1>1 DEF IndInv, MemorySound, KernelLoaded, InitrdLoaded, KernelRelocated, Held
<1>3. CASE GiveUp
  BY <1>3, GiveUpStep DEF IndInv
<1>4. CASE /\ Map!Free(kernel.start, kernel.start + n - 1)
           /\ kernel' = [kernel EXCEPT !.start = relocated]
           /\ pc' = "clone"
           /\ UNCHANGED <<image, contents, probeVars, initrd>>
  <2>1. \A q \in Ram : q \notin Span(kernel.start, n) => types'[q] = types[q]
    BY <1>4 DEF Map!Free, Map!Retype, Span
  <2>2. kernel'.start = relocated /\ kernel'.pages = n
    BY <1>1, <1>4 DEF Loaded
  <2>3. ProtectedAt(image) \subseteq Ram
    BY <1>1, MemoryAssumption DEF ProtectedAt
  <2>4. OwnedIn(types', ProtectedAt(image))
    BY <1>1, <1>2, <2>1, <2>3 DEF OwnedIn
  <2>5. HeldIn(contents, types', device, lba, initrd.start, initrd.pages, initrd_candidate_path)
    BY <1>2, <2>1 DEF HeldIn, OwnedIn, Apart
  <2>6. HeldIn(contents, types', device, lba, relocated, n, kernel_candidate_path)
    BY <1>2, <2>1 DEF HeldIn, OwnedIn, Apart
  <2> QED
    BY <1>1, <1>2, <1>4, <2>2, <2>4, <2>5, <2>6
    DEF MemorySound, ProtectedOwned, KernelLoaded, InitrdLoaded,
        KernelRelocated, TreeCloned, Held, probeVars
<1> QED
  BY <1>3, <1>4 DEF free_loaded_kernel, Goto

\* The clone is made from a readable tree and over no held page.
LEMMA CloneStep ==
  ASSUME IndInv, boot
  PROVE  MemorySound'
<1> DEFINE lba == partition.first_lba
<1>1. /\ pc = "clone" /\ pc \in Mapped
      /\ image \in Ram /\ Span(image, ImagePages) \subseteq Ram
      /\ IntactIn(contents, image) /\ OwnedIn(types, ProtectedAt(image))
  BY DEF IndInv, TypeOK, MemorySound, ProtectedOwned, Mapped, boot
<1>2. /\ HeldIn(contents, types, device, lba, initrd.start, initrd.pages, initrd_candidate_path)
      /\ HeldIn(contents, types, device, lba, kernel.start, kernel.pages, kernel_candidate_path)
      /\ kernel.pages > 0
      /\ kernel.start % KernelStep = 0
  BY <1>1 DEF IndInv, MemorySound, InitrdLoaded, KernelRelocated, Held
<1>3. FdtReadable
  BY <1>1 DEF IntactIn, FdtReadable
<1>4. CASE GiveUp
  BY <1>4, GiveUpStep DEF IndInv
<1>5. ASSUME NEW start \in Ram, start \in FreeRuns(ClonePages),
             Map!Allocate(start, start + ClonePages - 1, AcpiReclaim),
             contents' = Written(start, ClonePages, Other("clone")),
             clone' = start, pc' = "update",
             UNCHANGED <<image, probeVars, kernel, initrd>>
      PROVE  MemorySound'
  <2>1. TakenBy(contents, types, contents', types', Span(start, ClonePages))
    BY <1>5, WrittenOutside, AllocationTakes
  <2>2. IntactIn(contents', image) /\ OwnedIn(types', ProtectedAt(image))
    BY <1>1, <2>1, TakenKeepsFirmware
  <2>3. HeldIn(contents', types', device, lba, initrd.start, initrd.pages, initrd_candidate_path)
    BY <1>2, <2>1, TakenKeepsHeld
  <2>4. HeldIn(contents', types', device, lba, kernel.start, kernel.pages, kernel_candidate_path)
    BY <1>2, <2>1, TakenKeepsHeld
  <2>5. \A q \in Span(start, ClonePages) : contents'[q] = Page(Other("clone"), q - start + 1)
    BY <1>5, <2>1, WrittenOutside DEF TakenBy
  <2> QED
    BY <1>2, <1>5, <2>2, <2>3, <2>4, <2>5
    DEF MemorySound, ProtectedOwned, KernelLoaded, InitrdLoaded,
        KernelRelocated, TreeCloned, Held, probeVars
<1> QED
  BY <1>3, <1>4, <1>5 DEF boot, IsHighest, Goto

\* Every step keeps memory sound.
LEMMA MemoryStep ==
  ASSUME IndInv, [Next]_vars
  PROVE  MemorySound'
<1>1. CASE probe_virtio \/ open_table \/ next_partition \/ detect_partition_filesystem
  <2>1. UNCHANGED <<contents, image>>
    BY <1>1 DEF probe_virtio, open_table, next_partition, detect_partition_filesystem, memVars
  <2>2. pc' \in {"probe", "open", "reopen", "partitions", "detect", "mount", "off"}
    BY <1>1 DEF probe_virtio, open_table, next_partition, detect_partition_filesystem, Goto
  <2> QED
    BY <2>1, <2>2, QuietStep DEF IndInv
<1>2. CASE try_boot_from_partition
  BY <1>2, QuietStep, GiveUpStep DEF IndInv, try_boot_from_partition, Goto, memVars
<1>3. CASE check_artifacts
  <2>1. CASE GiveUp
    BY <2>1, GiveUpStep DEF IndInv
  <2>2. CASE pc = "check" /\ pc' = "relocate" /\ UNCHANGED <<memVars, probeVars, loadVars>>
    BY <2>2
    DEF IndInv, MemorySound, ProtectedOwned, KernelLoaded, InitrdLoaded,
        KernelRelocated, TreeCloned, Mapped, Held, memVars, probeVars, loadVars
  <2> QED
    BY <1>3, <2>1, <2>2 DEF check_artifacts, Goto
<1>4. CASE boot_and_start
  <2>1. CASE GiveUp
    BY <2>1, GiveUpStep DEF IndInv
  <2>2. CASE /\ pc = "update" /\ pc' = "linux" /\ chosen' = initrd
             /\ UNCHANGED <<memVars, probeVars, kernel, initrd, clone>>
    BY <2>2
    DEF IndInv, MemorySound, ProtectedOwned, KernelLoaded, InitrdLoaded,
        KernelRelocated, TreeCloned, Mapped, Held, memVars, probeVars
  <2> QED
    BY <1>4, <2>1, <2>2 DEF boot_and_start, Goto
<1>5. CASE UNCHANGED vars
  BY <1>5
  DEF IndInv, MemorySound, ProtectedOwned, KernelLoaded, InitrdLoaded,
      KernelRelocated, TreeCloned, Held, vars, memVars, probeVars, loadVars
<1> QED
  BY <1>1, <1>2, <1>3, <1>4, <1>5, MapStep, ImageStep, NoCandidateStep, LoadStep,
     RelocateStep, FreeStep, CloneStep
  DEF Next, Step, Over

-----------------------------------------------------------------------------
(* The theorems. *)

LEMMA Invariance == Spec => []IndInv
<1>1. Init => IndInv
  BY TypesInit, MemoryInit DEF IndInv
<1>2. IndInv /\ [Next]_vars => IndInv'
  BY TypesStep, MemoryStep DEF IndInv
<1> QED
  BY <1>1, <1>2, PTL DEF Spec

\* The state has its shape: no allocation, copy or loop of the boot flow leaves
\* RAM, its partition table or its candidate lists.
THEOREM BootTypeCorrect == Spec => []TypeOK
<1>1. IndInv => TypeOK
  BY DEF IndInv
<1> QED
  BY <1>1, Invariance, PTL

\* On every machine, whatever fails and however often a boot attempt is given
\* up, the image that runs, the device tree OpenSBI passed and the reserved
\* pages hold what they held at the start.
THEOREM FirmwareStaysIntact == Spec => []FirmwareIntact
<1>1. IndInv => FirmwareIntact
  BY DEF IndInv, MemorySound, IntactIn, FirmwareIntact
<1> QED
  BY <1>1, Invariance, PTL

\* What is loaded is held page by page, as HandoffIsSound says it.
LEMMA HeldHoldsFile ==
  ASSUME NEW loaded \in Loaded, NEW paths, Held(loaded.start, loaded.pages, paths)
  PROVE  HoldsFile(loaded, paths)
<1> SUFFICES ASSUME loaded.pages > 0
             PROVE  \E i \in DOMAIN paths : \A k \in 1..loaded.pages :
                      contents[loaded.start + k - 1]
                        = Page(FileAt(device, partition.first_lba, paths[i]), k)
  BY DEF HoldsFile
<1>1. PICK i \in DOMAIN paths : \A q \in Span(loaded.start, loaded.pages) :
        contents[q] = Page(FileAt(device, partition.first_lba, paths[i]), q - loaded.start + 1)
  BY DEF Held, HeldIn
<1>2. loaded.start \in Int /\ loaded.pages \in Int
  <2>1. loaded.start \in Ram /\ loaded.pages \in 0..RamPages
    BY DEF Loaded
  <2> QED
    BY <2>1 DEF Ram
<1>3. ASSUME NEW k \in 1..loaded.pages
      PROVE  contents[loaded.start + k - 1]
               = Page(FileAt(device, partition.first_lba, paths[i]), k)
  <2>1. /\ loaded.start + k - 1 \in Span(loaded.start, loaded.pages)
        /\ (loaded.start + k - 1) - loaded.start + 1 = k
    BY <1>2 DEF Span
  <2>2. contents[loaded.start + k - 1]
          = Page(FileAt(device, partition.first_lba, paths[i]),
                 (loaded.start + k - 1) - loaded.start + 1)
    BY <1>1, <2>1
  <2> QED
    BY <2>1, <2>2
<1> QED
  BY <1>3

\* Whenever start() is reached, on every machine and whatever failed before,
\* the kernel is whole and aligned, /chosen points at a whole initrd of the
\* same partition or at none, and the cloned tree is whole.
THEOREM HandoffSound == Spec => []HandoffIsSound
<1>1. ASSUME IndInv, pc = "linux"
      PROVE  /\ kernel.pages > 0
             /\ kernel.start % KernelStep = 0
             /\ HoldsFile(kernel, kernel_candidate_path)
             /\ HoldsFile(chosen, initrd_candidate_path)
             /\ \A k \in 1..ClonePages : contents[clone + k - 1] = Page(Other("clone"), k)
  <2>1. kernel \in Loaded /\ initrd \in Loaded /\ clone \in Int
    BY <1>1, RamFacts DEF IndInv, TypeOK
  <2>2. /\ Held(kernel.start, kernel.pages, kernel_candidate_path)
        /\ kernel.pages > 0
        /\ kernel.start % KernelStep = 0
        /\ Held(initrd.start, initrd.pages, initrd_candidate_path)
        /\ chosen = initrd
    BY <1>1 DEF IndInv, MemorySound, KernelRelocated, InitrdLoaded
  <2>3. HoldsFile(kernel, kernel_candidate_path) /\ HoldsFile(initrd, initrd_candidate_path)
    BY <2>1, <2>2, HeldHoldsFile
  <2>4. \A q \in Span(clone, ClonePages) : contents[q] = Page(Other("clone"), q - clone + 1)
    BY <1>1 DEF IndInv, MemorySound, TreeCloned
  <2>5. ASSUME NEW k \in 1..ClonePages
        PROVE  contents[clone + k - 1] = Page(Other("clone"), k)
    <3>1. clone + k - 1 \in Span(clone, ClonePages) /\ (clone + k - 1) - clone + 1 = k
      BY <2>1, MemoryAssumption DEF Span
    <3>2. contents[clone + k - 1] = Page(Other("clone"), (clone + k - 1) - clone + 1)
      BY <2>4, <3>1
    <3> QED
      BY <3>1, <3>2
  <2> QED
    BY <2>2, <2>3, <2>5
<1>2. IndInv => HandoffIsSound
  BY <1>1 DEF HandoffIsSound
<1> QED
  BY <1>2, Invariance, PTL

-----------------------------------------------------------------------------
(* The order of the attempts. *)

\* What a machine offers, with the machine as a parameter: the table that is
\* opened, the partitions that provide a kernel, the absence of one among the
\* devices before d and the first n entries of d.
TableIn(m, d) ==
  IF m[d].primary.valid THEN m[d].primary
  ELSE IF m[d].backup.valid THEN m[d].backup ELSE NoTable

HasTable(m, d) == m[d].primary.valid \/ m[d].backup.valid

FirstFile(v, i) ==
  /\ i \in DOMAIN kernel_candidate_path
  /\ v.files[kernel_candidate_path[i]].pages > 0
  /\ \A j \in 1..(i - 1) : v.files[kernel_candidate_path[j]].pages = 0

FirstIsKernel(v) ==
  \E i \in DOMAIN kernel_candidate_path :
    FirstFile(v, i) /\ v.files[kernel_candidate_path[i]].linux

ProvidesIn(m, d, k) ==
  LET e == TableIn(m, d).entries[k]
  IN /\ m[d].works
     /\ e.present /\ e.bootable /\ e.sound
     /\ m[d].volumes[e.first_lba].filesystem # "unknown"
     /\ FirstIsKernel(m[d].volumes[e.first_lba])

NoneUpTo(m, d, n) ==
  \A e \in 1..Len(m) : \A j \in DOMAIN TableIn(m, e).entries :
    (e < d \/ (e = d /\ j <= n)) => ~ProvidesIn(m, e, j)

\* The device in use works, its table is open, and the loop counts its entries.
TableSelected ==
  /\ pc \in Probing => machine[device].works
  /\ pc \in Probing \ {"open"} => /\ HasTable(machine, device)
                                  /\ partition_count = Len(TableIn(machine, device).entries)
  /\ pc = "partitions" => table = TableIn(machine, device)

\* Everything in front of the partition in use provides no kernel.
InOrder ==
  /\ pc \in {"entry", "image"} => device = 0
  /\ pc = "probe" => NoneUpTo(machine, device + 1, 0)
  /\ pc = "open" => NoneUpTo(machine, device, 0)
  /\ pc \in {"reopen", "partitions"} => NoneUpTo(machine, device, partition_index)
  /\ pc \in Trying => NoneUpTo(machine, device, partition_index - 1)
  /\ pc = "off" => NoneUpTo(machine, Len(machine) + 1, 0)

\* What the attempt has found out about the partition in use.
EntryChosen ==
  pc \in Trying => /\ partition_index \in DOMAIN TableIn(machine, device).entries
                   /\ partition = TableIn(machine, device).entries[partition_index]
                   /\ partition.present

Suitable ==
  /\ pc \in Trying \ {"detect"} => partition.bootable /\ filesystem = TheVolume.filesystem
  /\ pc \in Trying \ {"detect", "mount"} => filesystem # "unknown"

KernelFound ==
  /\ pc = "kernel" => \A j \in 1..(candidate - 1) :
                        TheVolume.files[kernel_candidate_path[j]].pages = 0
  /\ pc \in {"initrd", "check"} =>
       \E i \in DOMAIN kernel_candidate_path :
         /\ FirstFile(TheVolume, i)
         /\ contents[kernel.start].of
              = FileAt(device, partition.first_lba, kernel_candidate_path[i])
  /\ pc \in {"relocate", "free", "clone", "update", "linux"} => FirstIsKernel(TheVolume)

OrderInv == TableSelected /\ InOrder /\ EntryChosen /\ Suitable /\ KernelFound

LEMMA ProvidesFacts ==
  /\ \A d : TableOf(d) = TableIn(machine, d)
  /\ \A d, k : Provides(d, k) <=> ProvidesIn(machine, d, k)
<1>1. \A d : TableOf(d) = TableIn(machine, d)
  BY DEF TableOf, TableIn
<1>2. ASSUME NEW d, NEW k
      PROVE  Provides(d, k) <=> ProvidesIn(machine, d, k)
  BY <1>1 DEF Provides, ProvidesIn, FirstIsKernel, FirstFile
<1> QED
  BY <1>1, <1>2

\* The entries of the opened table are numbered from 1.
LEMMA TableFacts ==
  ASSUME machine \in Machines, NEW d \in 1..Len(machine)
  PROVE  /\ Len(TableIn(machine, d).entries) \in Nat
         /\ DOMAIN TableIn(machine, d).entries = 1..Len(TableIn(machine, d).entries)
         /\ ~HasTable(machine, d) => DOMAIN TableIn(machine, d).entries = {}
<1>1. machine[d].primary \in Table /\ machine[d].backup \in Table
  BY MachineFacts DEF IsDevice
<1>2. /\ machine[d].primary.entries \in Seq(Entry) /\ machine[d].backup.entries \in Seq(Entry)
      /\ NoTable.entries = <<>>
  BY <1>1 DEF Table, NoTable
<1> QED
  BY <1>2 DEF TableIn, HasTable

\* An attempt that is given up leaves a partition that provides no kernel.
LEMMA PassOver ==
  ASSUME NEW m, NEW d, NEW n \in Int,
         NoneUpTo(m, d, n - 1), ~ProvidesIn(m, d, n),
         \A e \in 1..Len(m) : DOMAIN TableIn(m, e).entries \subseteq Int
  PROVE  NoneUpTo(m, d, n)
  BY DEF NoneUpTo

\* The last entry of a device is the end of the device.
LEMMA NextDevice ==
  ASSUME NEW m, Len(m) \in Nat, NEW d \in Int, NEW n,
         NoneUpTo(m, d, n),
         \A j \in DOMAIN TableIn(m, d).entries : j <= n \/ ~ProvidesIn(m, d, j),
         \A e \in 1..Len(m) : DOMAIN TableIn(m, e).entries \subseteq Nat \ {0}
  PROVE  NoneUpTo(m, d + 1, 0)
  BY DEF NoneUpTo


\* Entries of all tables of the machine are numbered from 1.
LEMMA NumberedFromOne ==
  ASSUME machine \in Machines
  PROVE  /\ Len(machine) \in Nat
         /\ \A e \in 1..Len(machine) : DOMAIN TableIn(machine, e).entries \subseteq Nat \ {0}
<1>1. ASSUME NEW e \in 1..Len(machine)
      PROVE  DOMAIN TableIn(machine, e).entries \subseteq Nat \ {0}
  BY TableFacts
<1> QED
  BY <1>1, MachineFacts

LEMMA OrderInit == Init => OrderInv
  BY DEF Init, OrderInv, TableSelected, InOrder, EntryChosen, Suitable, KernelFound,
         Probing, Trying

LEMMA GiveUpInOrder ==
  ASSUME IndInv, OrderInv, GiveUp, pc \in Trying,
         ~ProvidesIn(machine, device, partition_index)
  PROVE  OrderInv'
<1>1. NoneUpTo(machine, device, partition_index)
  <2>1. partition_index \in Int /\ NoneUpTo(machine, device, partition_index - 1)
    BY DEF IndInv, TypeOK, OrderInv, InOrder
  <2> QED
    BY <2>1, PassOver, NumberedFromOne DEF IndInv, TypeOK
<1>2. pc' = "reopen" /\ UNCHANGED <<machine, probeVars>> /\ pc \in Probing /\ pc # "open"
  BY DEF GiveUp, Goto, Trying, Probing
<1>3. InOrder'
  BY <1>1, <1>2 DEF InOrder, probeVars, Trying, Probing
<1>4. TableSelected'
  BY <1>2 DEF OrderInv, TableSelected, probeVars, Probing
<1>5. EntryChosen' /\ Suitable' /\ KernelFound'
  BY <1>2 DEF EntryChosen, Suitable, KernelFound, Trying, Probing
<1> QED
  BY <1>3, <1>4, <1>5 DEF OrderInv

\* A step of the attempt that stays with the partition.
LEMMA StayInOrder ==
  ASSUME OrderInv, pc \in Trying, pc' \in Trying, UNCHANGED <<machine, probeVars>>,
         Suitable', KernelFound'
  PROVE  OrderInv'
  BY DEF OrderInv, TableSelected, InOrder, EntryChosen, probeVars, Trying, Probing

\* The construction of a map succeeds: the tree is readable and nothing fails.
LEMMA MapInOrder ==
  ASSUME IndInv, OrderInv, MayFail = {}, page_allocator_from_live_fdt
  PROVE  OrderInv'
<1>1. FdtReadable
  BY DEF IndInv, MemorySound, IntactIn, FdtReadable
<1>2. /\ pc \in {"entry", "map"}
      /\ pc' = IF pc = "entry" THEN "image" ELSE "kernel"
      /\ candidate' = 1
      /\ UNCHANGED <<machine, probeVars>>
  BY <1>1 DEF page_allocator_from_live_fdt, Goto
<1>3. CASE pc = "entry"
  BY <1>2, <1>3
  DEF OrderInv, TableSelected, InOrder, EntryChosen, Suitable, KernelFound, Trying,
      Probing, probeVars
<1>4. CASE pc = "map"
  <2>1. pc \in Trying /\ pc' \in Trying /\ pc' = "kernel"
    BY <1>2, <1>4 DEF Trying, Probing
  <2>2. Suitable'
    BY <1>2, <1>4, <2>1 DEF OrderInv, Suitable, TheVolume, probeVars
  <2>3. KernelFound'
    BY <1>2, <2>1 DEF KernelFound
  <2> QED
    BY <1>2, <2>1, <2>2, <2>3, StayInOrder
<1> QED
  BY <1>2, <1>3, <1>4

LEMMA ImageInOrder ==
  ASSUME IndInv, OrderInv, MayFail = {}, RoomInMemory, try_relocate_firmware
  PROVE  OrderInv'
<1>1. pc = "image" /\ pc' = "probe" /\ device' = 0 /\ machine' = machine
  BY DEF try_relocate_firmware, RoomInMemory, Goto, OrderInv, InOrder, probeVars
<1>2. NoneUpTo(machine', device' + 1, 0)
  BY <1>1, NumberedFromOne DEF IndInv, TypeOK, NoneUpTo
<1> QED
  BY <1>1, <1>2
  DEF OrderInv, TableSelected, InOrder, EntryChosen, Suitable, KernelFound, Trying, Probing

LEMMA ProbeInOrder ==
  ASSUME IndInv, OrderInv, probe_virtio
  PROVE  OrderInv'
<1>1. /\ pc = "probe" /\ machine' = machine /\ device \in Nat
      /\ NoneUpTo(machine, device + 1, 0)
  BY NumberedFromOne DEF probe_virtio, OrderInv, InOrder, IndInv, TypeOK
<1>2. CASE device = Len(machine) /\ pc' = "off"
  BY <1>1, <1>2
  DEF OrderInv, TableSelected, InOrder, EntryChosen, Suitable, KernelFound, Trying, Probing
<1>3. CASE device' = device + 1 /\ machine[device + 1].works /\ pc' = "open"
  BY <1>1, <1>3
  DEF OrderInv, TableSelected, InOrder, EntryChosen, Suitable, KernelFound, Trying, Probing
<1>4. CASE device' = device + 1 /\ ~machine[device + 1].works /\ pc' = "probe"
  <2>1. \A j : ~ProvidesIn(machine, device + 1, j)
    BY <1>4 DEF ProvidesIn
  <2>2. NoneUpTo(machine, (device + 1) + 1, 0)
    BY <1>1, <2>1, NextDevice, NumberedFromOne DEF IndInv, TypeOK
  <2> QED
    BY <1>1, <1>4, <2>2
    DEF OrderInv, TableSelected, InOrder, EntryChosen, Suitable, KernelFound, Trying, Probing
<1> QED
  BY <1>2, <1>3, <1>4 DEF probe_virtio, Goto


\* The table that is opened is the same each time, and is opened again.
LEMMA OpenInOrder ==
  ASSUME IndInv, OrderInv, MayFail = {}, open_table
  PROVE  OrderInv'
<1>1. /\ pc \in {"open", "reopen"} /\ pc \in Probing /\ machine \in Machines
      /\ UNCHANGED <<machine, device>> /\ machine[device].works
      /\ device \in 1..Len(machine) /\ partition_index \in Nat
  BY DEF open_table, IndInv, TypeOK, SelectionSound, OrderInv, TableSelected, Probing
<1>2. CASE TableUnreadable /\ pc' = "probe"
  <2>1. ~HasTable(machine, device) /\ pc = "open"
    BY <1>1, <1>2 DEF TableUnreadable, HasTable, OrderInv, TableSelected, Probing
  <2>2. NoneUpTo(machine, device + 1, 0)
    BY <1>1, <2>1, TableFacts, NextDevice, NumberedFromOne DEF OrderInv, InOrder
  <2> QED
    BY <1>1, <1>2, <2>2
    DEF OrderInv, TableSelected, InOrder, EntryChosen, Suitable, KernelFound, Trying, Probing
<1>3. ASSUME NEW t, Openable(t), table' = t, pc' = "partitions",
             IF pc = "open" THEN partition_count' = Len(t.entries) /\ partition_index' = 0
                            ELSE UNCHANGED <<partition_count, partition_index>>
      PROVE  OrderInv'
  <2>1. HasTable(machine, device) /\ t = TableIn(machine, device)
    BY <1>3 DEF Openable, HasTable, TableIn
  <2>2. TableSelected'
    BY <1>1, <1>3, <2>1 DEF OrderInv, TableSelected, Probing
  <2>3. InOrder'
    BY <1>1, <1>3 DEF OrderInv, InOrder, Trying, Probing
  <2> QED
    BY <1>3, <2>2, <2>3 DEF OrderInv, EntryChosen, Suitable, KernelFound, Trying, Probing
<1> QED
  BY <1>1, <1>2, <1>3 DEF open_table, Goto

\* An entry is taken up in its turn; the loop ends behind the last one.
LEMMA PartitionInOrder ==
  ASSUME IndInv, OrderInv, MayFail = {}, EntriesAreSound, next_partition
  PROVE  OrderInv'
<1> DEFINE k == partition_index + 1
           n == Len(TableIn(machine, device).entries)
<1>1. /\ pc = "partitions" /\ machine \in Machines /\ UNCHANGED <<machine, device>>
      /\ device \in 1..Len(machine) /\ machine[device].works
      /\ partition_index \in Nat /\ device \in Int
      /\ table = TableIn(machine, device) /\ partition_count = n
      /\ HasTable(machine, device) /\ partition_count' = partition_count
      /\ NoneUpTo(machine, device, partition_index)
  BY NumberedFromOne
  DEF next_partition, IndInv, TypeOK, SelectionSound, OrderInv, TableSelected, InOrder, Probing
<1>2. n \in Nat /\ DOMAIN table.entries = 1..n
  BY <1>1, TableFacts
<1>3. \A j \in 1..n : table.entries[j].sound
  <2>1. table \in {machine[device].primary, machine[device].backup}
    BY <1>1 DEF IndInv, SelectionSound
  <2>2. device \in DOMAIN machine
    BY <1>1, MachineAssumption
  <2> QED
    BY <1>1, <1>2, <2>1, <2>2 DEF EntriesAreSound
<1>4. CASE (partition_index >= partition_count \/ EntryUnreadable(k)) /\ pc' = "probe"
  <2>1. partition_index >= n
    BY <1>1, <1>2, <1>3, <1>4 DEF EntryUnreadable
  <2>2. \A j \in DOMAIN TableIn(machine, device).entries : j <= partition_index
    BY <1>1, <1>2, <2>1
  <2>3. NoneUpTo(machine, device + 1, 0)
    BY <1>1, <2>2, NextDevice, NumberedFromOne
  <2> QED
    BY <1>1, <1>4, <2>3
    DEF OrderInv, TableSelected, InOrder, EntryChosen, Suitable, KernelFound, Trying, Probing
<1>5. CASE /\ k <= n /\ partition_index' = k
           /\ table.entries[k].present /\ partition' = table.entries[k] /\ pc' = "detect"
  <2>1. partition_index' - 1 = partition_index /\ k \in DOMAIN TableIn(machine, device).entries
    BY <1>1, <1>2, <1>5
  <2>2. TableSelected' /\ InOrder'
    BY <1>1, <1>5, <2>1 DEF TableSelected, InOrder, Trying, Probing
  <2>3. EntryChosen' /\ Suitable' /\ KernelFound'
    BY <1>1, <1>5, <2>1 DEF EntryChosen, Suitable, KernelFound
  <2> QED
    BY <2>2, <2>3 DEF OrderInv
<1>6. CASE /\ k <= n /\ partition_index' = k /\ ~table.entries[k].present
           /\ pc' = pc /\ table' = table
  <2>1. ~ProvidesIn(machine, device, k)
    BY <1>1, <1>6 DEF ProvidesIn
  <2>2. k \in Int /\ k - 1 = partition_index
    BY <1>1
  <2>3. NoneUpTo(machine, device, k)
    <3>1. NoneUpTo(machine, device, k - 1)
      BY <1>1, <2>2
    <3> QED
      BY <1>1, <2>1, <2>2, <3>1, PassOver, NumberedFromOne
  <2>4. TableSelected' /\ InOrder'
    BY <1>1, <1>6, <2>3 DEF TableSelected, InOrder, Trying, Probing
  <2> QED
    BY <1>1, <1>6, <2>4 DEF OrderInv, EntryChosen, Suitable, KernelFound, Trying, Probing
<1> QED
  BY <1>1, <1>2, <1>4, <1>5, <1>6 DEF next_partition, Goto

LEMMA DetectInOrder ==
  ASSUME IndInv, OrderInv, MayFail = {}, detect_partition_filesystem
  PROVE  OrderInv'
<1>1. /\ pc = "detect" /\ pc \in Trying /\ filesystem' = TheVolume.filesystem
      /\ UNCHANGED <<machine, device, table, partition_count, partition_index, partition>>
      /\ pc' = IF partition.bootable THEN "mount" ELSE "reopen"
  BY DEF detect_partition_filesystem, Goto, Trying, Probing
<1>2. CASE partition.bootable
  <2>1. pc' = "mount" /\ pc' \in Trying
    BY <1>1, <1>2 DEF Trying, Probing
  <2>2. Suitable' /\ KernelFound'
    BY <1>1, <1>2, <2>1 DEF Suitable, KernelFound, TheVolume
  <2> QED
    BY <1>1, <2>1, <2>2 DEF OrderInv, TableSelected, InOrder, EntryChosen, Trying, Probing
<1>3. CASE ~partition.bootable
  <2>1. ~ProvidesIn(machine, device, partition_index)
    BY <1>1, <1>3 DEF ProvidesIn, OrderInv, EntryChosen
  <2>2. NoneUpTo(machine, device, partition_index)
    BY <1>1, <2>1, PassOver, NumberedFromOne DEF OrderInv, InOrder, IndInv, TypeOK
  <2> QED
    BY <1>1, <1>3, <2>2
    DEF OrderInv, TableSelected, InOrder, EntryChosen, Suitable, KernelFound, Trying, Probing
<1> QED
  BY <1>2, <1>3

LEMMA MountInOrder ==
  ASSUME IndInv, OrderInv, MayFail = {}, try_boot_from_partition
  PROVE  OrderInv'
<1>1. pc = "mount" /\ pc \in Trying
  BY DEF try_boot_from_partition, Trying, Probing
<1>2. CASE filesystem # "unknown" /\ pc' = "map" /\ UNCHANGED <<machine, probeVars>>
  <2>1. pc' \in Trying
    BY <1>2 DEF Trying, Probing
  <2>2. Suitable' /\ KernelFound'
    BY <1>1, <1>2 DEF OrderInv, Suitable, KernelFound, TheVolume, probeVars
  <2> QED
    BY <1>1, <1>2, <2>1, <2>2, StayInOrder
<1>3. CASE filesystem = "unknown" /\ GiveUp
  <2>1. ~ProvidesIn(machine, device, partition_index)
    BY <1>1, <1>3 DEF ProvidesIn, OrderInv, EntryChosen, Suitable, TheVolume
  <2> QED
    BY <1>1, <1>3, <2>1, GiveUpInOrder
<1> QED
  BY <1>2, <1>3 DEF try_boot_from_partition, Goto


\* The attempt is about the volume of the chosen entry.
LEMMA NoKernelHere ==
  ASSUME OrderInv, pc \in Trying, ~FirstIsKernel(TheVolume)
  PROVE  ~ProvidesIn(machine, device, partition_index)
  BY DEF ProvidesIn, OrderInv, EntryChosen, TheVolume

LEMMA FirstFileUnique ==
  ASSUME NEW v, NEW i, NEW j, FirstFile(v, i), FirstFile(v, j)
  PROVE  i = j
<1>1. i \in {1, 2} /\ j \in {1, 2}
  BY DEF FirstFile, kernel_candidate_path
<1>2. v.files[kernel_candidate_path[i]].pages # 0 /\ v.files[kernel_candidate_path[j]].pages # 0
  BY DEF FirstFile
<1>3. \A a \in 1..(i - 1) : v.files[kernel_candidate_path[a]].pages = 0
  BY DEF FirstFile
<1>4. \A a \in 1..(j - 1) : v.files[kernel_candidate_path[a]].pages = 0
  BY DEF FirstFile
<1> HIDE DEF FirstFile
<1>5. CASE i = 2 /\ j = 1
  BY <1>2, <1>3, <1>5
<1>6. CASE i = 1 /\ j = 2
  BY <1>2, <1>4, <1>6
<1> QED
  BY <1>1, <1>5, <1>6

LEMMA EndOfListInOrder ==
  ASSUME IndInv, OrderInv, no_more_candidates
  PROVE  OrderInv'
<1>1. /\ pc \in {"kernel", "initrd"} /\ pc \in Trying /\ candidate \in Nat
      /\ candidate > Len(Candidates)
      /\ UNCHANGED <<machine, memVars, probeVars, loadVars>>
  BY DEF no_more_candidates, IndInv, TypeOK, Trying, Probing, kernel_candidate_path
<1>2. CASE pc = "kernel" /\ pc' = "reopen"
  <2>1. \A j \in DOMAIN kernel_candidate_path :
          TheVolume.files[kernel_candidate_path[j]].pages = 0
    BY <1>1, <1>2 DEF OrderInv, KernelFound, Candidates, kernel_candidate_path
  <2>2. ~FirstIsKernel(TheVolume)
    BY <2>1 DEF FirstIsKernel, FirstFile
  <2> QED
    BY <1>1, <1>2, <2>2, NoKernelHere, GiveUpInOrder DEF GiveUp, Goto
<1>3. CASE pc = "initrd" /\ pc' = "check"
  <2>1. pc' \in Trying
    BY <1>3 DEF Trying, Probing
  <2>2. Suitable' /\ KernelFound'
    BY <1>1, <1>3
    DEF OrderInv, Suitable, KernelFound, TheVolume, probeVars, memVars, loadVars
  <2> QED
    BY <1>1, <2>1, <2>2, StayInOrder
<1> QED
  BY <1>1, <1>2, <1>3 DEF no_more_candidates, Goto

\* The kernel is loaded from the first path that leads to a file, and stays
\* where it is while the initrd is loaded.
LEMMA LoadInOrder ==
  ASSUME IndInv, OrderInv, MayFail = {}, RoomInMemory, load_candidate
  PROVE  OrderInv'
<1> DEFINE path == Candidates[candidate]
           n == TheVolume.files[path].pages
<1>1. /\ pc \in {"kernel", "initrd"} /\ pc \in Trying
      /\ candidate \in Nat \ {0} /\ candidate <= Len(Candidates)
      /\ UNCHANGED <<machine, probeVars>>
      /\ TheVolume' = TheVolume
  <2>1. candidate \in Nat \ {0}
    BY DEF IndInv, TypeOK, kernel_candidate_path
  <2>2. /\ pc \in {"kernel", "initrd"} /\ candidate <= Len(Candidates)
        /\ UNCHANGED <<machine, probeVars>>
    BY DEF load_candidate
  <2> QED
    BY <2>1, <2>2 DEF Trying, Probing, probeVars, TheVolume
<1>2. Suitable' /\ pc' \in Trying
  <2>1. pc' \in {"kernel", "initrd", "check"}
    BY <1>1 DEF load_candidate, Goto
  <2>2. pc' \in Trying \ {"detect", "mount"} /\ pc \in Trying \ {"detect", "mount"}
    BY <1>1, <2>1 DEF Trying, Probing
  <2> QED
    BY <1>1, <2>2 DEF OrderInv, Suitable, probeVars
<1>3. KernelFound'
  <2>1. CASE pc = "kernel" /\ UNCHANGED pc /\ n = 0 /\ candidate' = candidate + 1
    <3>1. path = kernel_candidate_path[candidate]
      BY <2>1 DEF Candidates
    <3>2. \A j \in 1..(candidate' - 1) : j \in 1..(candidate - 1) \/ j = candidate
      BY <1>1, <2>1
    <3> QED
      BY <1>1, <2>1, <3>1, <3>2 DEF OrderInv, KernelFound
  <2>2. CASE pc = "initrd" /\ UNCHANGED <<pc, contents, kernel>>
    BY <1>1, <2>2 DEF OrderInv, KernelFound, probeVars
  <2>3. ASSUME NEW start \in Ram, n > 0, start \in FreeRuns(n), pc = "kernel", pc' = "initrd",
               contents' = Written(start, n, FileAt(device, partition.first_lba, path)),
               kernel' = [start |-> start, pages |-> n]
        PROVE  KernelFound'
    <3>1. /\ path = kernel_candidate_path[candidate]
          /\ candidate \in DOMAIN kernel_candidate_path
      BY <1>1, <2>3, CandidateFacts DEF Candidates
    <3>2. FirstFile(TheVolume, candidate)
      BY <1>1, <2>3, <3>1 DEF FirstFile, OrderInv, KernelFound
    <3>3. start \in Int /\ n \in Int /\ start \in Span(start, n)
      <4>1. path \in Paths
        BY <1>1, CandidateFacts
      <4>2. n \in 0..RamPages
        BY <1>1, <4>1, FileFacts DEF IndInv, File
      <4> QED
        BY <2>3, <4>2, RamFacts, MemoryAssumption DEF Span
    <3>4. contents'[kernel'.start].of
            = FileAt(device', partition'.first_lba, kernel_candidate_path[candidate])
      BY <1>1, <2>3, <3>1, <3>3 DEF Written, Page, probeVars
    <3> QED
      BY <1>1, <2>3, <3>1, <3>2, <3>4 DEF KernelFound
  <2>4. ASSUME NEW start \in Ram, n > 0, start \in FreeRuns(n), pc = "initrd", pc' = "check",
               contents' = Written(start, n, FileAt(device, partition.first_lba, path)),
               kernel' = kernel
        PROVE  KernelFound'
    <3>1. kernel.start \in Ram /\ types[kernel.start] # Conventional
      <4>1. /\ OwnedIn(types, Span(kernel.start, kernel.pages)) /\ kernel.pages > 0
            /\ Span(kernel.start, kernel.pages) \subseteq Ram
        BY <2>4 DEF IndInv, MemorySound, KernelLoaded, Held, HeldIn
      <4>2. kernel.start \in Ram /\ kernel.pages \in 0..RamPages
        BY DEF IndInv, TypeOK, Loaded
      <4>3. kernel.start \in Int /\ kernel.pages \in Int
        BY <4>2 DEF Ram
      <4>4. kernel.start \in Span(kernel.start, kernel.pages)
        BY <4>1, <4>3 DEF Span
      <4> QED
        BY <4>1, <4>4 DEF OwnedIn
    <3>2. kernel.start \notin Span(start, n)
      BY <2>4, <3>1 DEF FreeRuns
    <3>3. contents'[kernel'.start] = contents[kernel.start]
      BY <2>4, <3>1, <3>2 DEF Written
    <3> QED
      BY <1>1, <2>4, <3>3 DEF OrderInv, KernelFound, probeVars
  <2>5. pc = "kernel" => FreeRuns(n) # {}
    <3>1. pc = "kernel" => candidate \in DOMAIN kernel_candidate_path
      BY <1>1, CandidateFacts DEF Candidates
    <3> QED
      BY <3>1 DEF RoomInMemory, Candidates
  <2>6. CASE (n = 0 \/ FreeRuns(n) = {}) /\ candidate' = candidate + 1
             /\ UNCHANGED <<pc, types, built, contents, kernel, initrd>>
    BY <1>1, <2>1, <2>2, <2>5, <2>6
  <2> QED
    BY <1>1, <2>3, <2>4, <2>6 DEF load_candidate, IsHighest, Goto
<1> QED
  BY <1>1, <1>2, <1>3, StayInOrder


\* Only the kernel's header can end the attempt, and it is that of the first file.
LEMMA CheckInOrder ==
  ASSUME IndInv, OrderInv, LettersForAll, check_artifacts
  PROVE  OrderInv'
<1>1. pc = "check" /\ pc \in Trying /\ pc \in Probing
  BY DEF check_artifacts, Trying, Probing
<1>2. root_command_line /\ FdtReadable
  <2>1. device \in 1..Len(machine) /\ machine \in Machines /\ Len(machine) \in Nat
    BY <1>1, MachineFacts DEF IndInv, TypeOK, SelectionSound
  <2>2. Len(machine) <= RootDevices
    BY <2>1 DEF LettersForAll
  <2>3. FdtReadable
    BY DEF IndInv, MemorySound, IntactIn, FdtReadable
  <2> QED
    BY <2>1, <2>2, <2>3, MemoryAssumption DEF root_command_line
<1>3. PICK i \in DOMAIN kernel_candidate_path :
        /\ FirstFile(TheVolume, i)
        /\ contents[kernel.start].of
             = FileAt(device, partition.first_lba, kernel_candidate_path[i])
  BY <1>1 DEF OrderInv, KernelFound
<1>4. check_kernel_header <=> TheVolume.files[kernel_candidate_path[i]].linux
  BY <1>3 DEF check_kernel_header, FileAt, TheVolume
<1>5. CASE check_kernel_header /\ pc' = "relocate" /\ UNCHANGED <<machine, probeVars>>
  <2>1. FirstIsKernel(TheVolume) /\ TheVolume' = TheVolume
    BY <1>3, <1>4, <1>5 DEF FirstIsKernel, TheVolume, probeVars
  <2>2. pc' \in Trying /\ Suitable' /\ KernelFound'
    BY <1>1, <1>5, <2>1 DEF OrderInv, Suitable, KernelFound, Trying, Probing, probeVars
  <2> QED
    BY <1>1, <1>5, <2>2, StayInOrder
<1>6. CASE ~check_kernel_header /\ GiveUp
  <2>1. ~FirstIsKernel(TheVolume)
    BY <1>3, <1>4, <1>6, FirstFileUnique DEF FirstIsKernel
  <2> QED
    BY <1>1, <1>6, <2>1, NoKernelHere, GiveUpInOrder
<1> QED
  BY <1>2, <1>5, <1>6 DEF check_artifacts, Goto

\* With room, and nothing that fails, the rest of the attempt goes through.
LEMMA HandoffInOrder ==
  ASSUME IndInv, OrderInv, MayFail = {}, RoomInMemory,
         relocate_kernel \/ free_loaded_kernel \/ boot \/ boot_and_start
  PROVE  OrderInv'
<1>1. /\ pc \in {"relocate", "free", "clone", "update"}
      /\ pc' \in {"free", "clone", "update", "linux"}
      /\ UNCHANGED <<machine, probeVars>>
  <2>1. CASE relocate_kernel
    BY <2>1 DEF relocate_kernel, RoomInMemory, Goto
  <2>2. CASE free_loaded_kernel
    BY <2>2 DEF free_loaded_kernel, Goto
  <2>3. CASE boot
    BY <2>3 DEF boot, RoomInMemory, Goto
  <2>4. CASE boot_and_start
    BY <2>4 DEF boot_and_start, Goto
  <2> QED
    BY <2>1, <2>2, <2>3, <2>4
<1>2. pc \in Trying \ {"detect", "mount"} /\ pc' \in Trying \ {"detect", "mount"}
  BY <1>1 DEF Trying, Probing
<1>3. Suitable' /\ KernelFound'
  BY <1>1, <1>2 DEF OrderInv, Suitable, KernelFound, TheVolume, probeVars
<1> QED
  BY <1>1, <1>2, <1>3, StayInOrder

LEMMA OrderStep ==
  ASSUME IndInv, OrderInv, MayFail = {}, EntriesAreSound, LettersForAll, RoomInMemory,
         [Next]_vars
  PROVE  OrderInv'
<1>1. CASE UNCHANGED vars
  BY <1>1
  DEF OrderInv, TableSelected, InOrder, EntryChosen, Suitable, KernelFound, TheVolume,
      vars, memVars, probeVars, loadVars
<1> QED
  BY <1>1, MapInOrder, ImageInOrder, ProbeInOrder, OpenInOrder, PartitionInOrder,
     DetectInOrder, MountInOrder, EndOfListInOrder, LoadInOrder, CheckInOrder, HandoffInOrder
  DEF Next, Step, Over

\* When every disk can be read, every entry is possible, every device has a
\* letter and memory has room for what a boot depends on, the loops of
\* probe_virtio boot the first partition that provides a kernel, and main
\* powers off only when there is none, for every number of devices and entries.
THEOREM FirstProviderBoots ==
  ASSUME MayFail = {}, EntriesAreSound, LettersForAll
  PROVE  Spec /\ []RoomInMemory => []BootsFirstProvider
<1>1. Init => OrderInv
  BY OrderInit
<1>2. IndInv /\ OrderInv /\ RoomInMemory /\ [Next]_vars => OrderInv'
  BY OrderStep
<1>3. IndInv /\ OrderInv => BootsFirstProvider
  <2> SUFFICES ASSUME IndInv, OrderInv PROVE BootsFirstProvider
    OBVIOUS
  <2>1. machine \in Machines /\ DOMAIN machine = 1..Len(machine) /\ Len(machine) \in Nat
    BY MachineAssumption DEF IndInv, TypeOK
  <2>2. \A a \in Providers : \E d \in 1..Len(machine) :
          \E j \in DOMAIN TableIn(machine, d).entries :
            a = <<d, j>> /\ ProvidesIn(machine, d, j)
    BY <2>1, ProvidesFacts DEF Providers
  <2>3. ASSUME NEW d \in 1..Len(machine), NEW j \in DOMAIN TableIn(machine, d).entries,
               ProvidesIn(machine, d, j)
        PROVE  <<d, j>> \in Providers
    BY <2>1, <2>3, ProvidesFacts DEF Providers
  <2>4. ASSUME pc = "off" PROVE Providers = {}
    BY <2>1, <2>2, <2>4 DEF OrderInv, InOrder, NoneUpTo
  <2>5. ASSUME pc = "linux"
        PROVE  /\ <<device, partition_index>> \in Providers
               /\ \A a \in Providers : ~Before(a, <<device, partition_index>>)
    <3>1. /\ device \in 1..Len(machine) /\ pc \in Trying /\ pc \in Probing
          /\ partition_index \in Nat
      BY <2>1, <2>5 DEF IndInv, TypeOK, SelectionSound, Trying, Probing
    <3>2. partition_index \in DOMAIN TableIn(machine, device).entries
      BY <3>1 DEF OrderInv, EntryChosen
    <3>3. ProvidesIn(machine, device, partition_index)
      <4>1. TableIn(machine, device) \in {machine[device].primary, machine[device].backup}
        BY <2>5 DEF OrderInv, TableSelected, HasTable, TableIn, Probing
      <4>2. TableIn(machine, device).entries[partition_index].sound
        BY <2>1, <3>1, <3>2, <4>1 DEF EntriesAreSound
      <4>3. /\ partition = TableIn(machine, device).entries[partition_index]
            /\ partition.present /\ partition.bootable
            /\ TheVolume.filesystem # "unknown"
            /\ FirstIsKernel(TheVolume) /\ machine[device].works
        BY <2>5, <3>1
        DEF OrderInv, EntryChosen, Suitable, KernelFound, TableSelected, Trying, Probing
      <4> QED
        BY <4>2, <4>3 DEF ProvidesIn, TheVolume
    <3>4. NoneUpTo(machine, device, partition_index - 1)
      BY <3>1 DEF OrderInv, InOrder
    <3>5. ASSUME NEW a \in Providers, Before(a, <<device, partition_index>>)
          PROVE  FALSE
      <4>0. PICK d \in 1..Len(machine) : \E j \in DOMAIN TableIn(machine, d).entries :
              a = <<d, j>> /\ ProvidesIn(machine, d, j)
        BY <2>2
      <4>1. PICK j \in DOMAIN TableIn(machine, d).entries :
              a = <<d, j>> /\ ProvidesIn(machine, d, j)
        BY <4>0
      <4>2. d < device \/ (d = device /\ j < partition_index)
        BY <3>5, <4>1 DEF Before
      <4>3. j \in Int
        BY <2>1, NumberedFromOne
      <4>4. d < device \/ (d = device /\ j <= partition_index - 1)
        BY <3>1, <4>2, <4>3
      <4> QED
        BY <3>4, <4>1, <4>4 DEF NoneUpTo
    <3> QED
      BY <2>3, <3>1, <3>2, <3>3, <3>5
  <2> QED
    BY <2>4, <2>5 DEF BootsFirstProvider
<1> QED
  BY <1>1, <1>2, <1>3, Invariance, PTL DEF Spec

=============================================================================
