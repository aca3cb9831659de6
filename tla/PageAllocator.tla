---------------------------- MODULE PageAllocator ----------------------------
(***************************************************************************)
(* The EFI-style page allocator of memory.rs: an in-place array of memory  *)
(* descriptors that from_fdt builds out of the device tree and that        *)
(* AllocatePages, allocate_aligned_pages and FreePages then edit.          *)
(*                                                                         *)
(* Every address that enters the array is a multiple of the page size, so  *)
(* a descriptor holds page numbers.  Addresses and sizes that come from    *)
(* the device tree, from the linker or from a caller are bytes and pass    *)
(* through the same rounding as in the code.  The largest address a u64    *)
(* holds is MaxAddress; TopPage is the largest page boundary it can hold.  *)
(*                                                                         *)
(* carve_range and coalesce are loops over the array.  One iteration is    *)
(* one step; no other step can happen while `loop` is not "none".          *)
(***************************************************************************)
EXTENDS Integers, Sequences

CONSTANTS
  PageSize,           \* bytes in a page (4096 in the code)
  TopPage,            \* number of the last page boundary in the address space
  Capacity,           \* length of the descriptor buffer (32 in the callers)
  MaxMemoryRegions,   \* length of the /memory scratch slice (8)
  MaxReservedRegions, \* length of the reserve-map scratch slice (16)
  Fdts,               \* device trees the firmware may be started with
  RequestTypes,       \* EFI memory types callers ask for
  PageCounts,         \* page counts callers pass
  Addresses,          \* byte addresses callers pass
  Sizes,              \* byte sizes callers pass
  Alignments          \* byte alignments callers pass

Conventional == "EfiConventionalMemory"
Reserved     == "EfiReservedMemoryType"
FirmwareCode == "EfiBootServicesCode"
BootData     == "EfiBootServicesData"
AcpiReclaim  == "EfiACPIReclaimMemory"
MaxType      == "EfiMaxMemoryType"

MemoryTypes == {Conventional, Reserved, FirmwareCode, BootData, AcpiReclaim}

Errors == {"InvalidParameter", "BufferTooSmall", "OutOfResources",
           "NotFound", "AddressOverflow"}

MaxAddress == (TopPage + 1) * PageSize - 1

Region == [base : 0..MaxAddress, size : 0..MaxAddress]

\* What the allocator reads from one device tree and from the linker script:
\* /memory, the blob itself, the reserve map, the static children of
\* /reserved-memory, and the code, data, heap and stack ranges of the image.
Fdt == [memory : Seq(Region), blob : Region, reserveMap : Seq(Region),
        reserved : Seq([region : Region, noMap : BOOLEAN]),
        firmware : [1..4 -> Region]]

ASSUME SizeAssumption ==
  /\ PageSize \in Nat \ {0}
  /\ TopPage \in Nat \ {0}
  /\ Capacity \in Nat \ {0}
  /\ MaxMemoryRegions \in Nat
  /\ MaxReservedRegions \in Nat

ASSUME InputAssumption ==
  /\ \A f \in Fdts : f \in Fdt
  /\ RequestTypes \subseteq MemoryTypes \cup {MaxType}
  /\ PageCounts \subseteq Nat
  /\ Addresses \subseteq 0..MaxAddress
  /\ Sizes \subseteq 0..MaxAddress

\* Alignments are powers of two: the code aligns with bit masks, and for a
\* power of two a mask computes the multiples used here.
ASSUME AlignmentAssumption ==
  /\ Alignments \subseteq Nat
  /\ \A a \in Alignments :
       a # 0 /\ a % PageSize = 0 => \E n \in 0..a : a = 2^n

VARIABLES
  fdt,              \* the device tree of this boot
  phase,            \* part of from_fdt being executed, or "ready" / "failed"
  region,           \* position in that part's list of regions
  loop,             \* loop being executed: "none", "carve" or "coalesce"
  index,            \* its loop variable
  range,            \* the arguments of the running carve
  descriptors,      \* the descriptor buffer
  descriptor_count, \* descriptors in use, at the start of the buffer
  result            \* what the last finished call returned

vars == <<fdt, phase, region, loop, index, range, descriptors,
          descriptor_count, result>>

mapVars == <<descriptors, descriptor_count>>

Slots == 1..Capacity
Live  == 1..descriptor_count

Descriptor == [Type : MemoryTypes, PhysicalStart : 0..TopPage,
               NumberOfPages : 0..TopPage]

EMPTY_DESCRIPTOR ==
  [Type |-> Reserved, PhysicalStart |-> 0, NumberOfPages |-> 0]

\* The descriptor of pages first .. last - 1.
Span(type, first, last) ==
  [Type |-> type, PhysicalStart |-> first, NumberOfPages |-> last - first]

Start(i) == descriptors[i].PhysicalStart
End(i)   == descriptors[i].PhysicalStart + descriptors[i].NumberOfPages

-----------------------------------------------------------------------------
(* Address arithmetic. *)

PageDown(address) == address \div PageSize
PageUp(address)   == (address + PageSize - 1) \div PageSize

is_page_aligned(address) == address % PageSize = 0

\* align_up(address, EFI_PAGE_SIZE) leaves the u64 range.
PageUpOverflows(address) == PageDown(address + PageSize - 1) > TopPage

\* align_region_to_pages fails: the raw end or a rounded edge overflows.
RegionOverflows(r, partial) ==
  \/ r.base + r.size > MaxAddress
  \/ PageUpOverflows(IF partial THEN r.base + r.size ELSE r.base)

\* The page range of a region: whole pages only, or every page it touches.
RegionStart(r, partial) == IF partial THEN PageDown(r.base) ELSE PageUp(r.base)
\* Mutant: the last, partly covered page of a region is not reserved.
RegionEndTruncated(r, partial) == PageDown(r.base + r.size)

RegionEnd(r, partial) ==
  IF partial THEN PageUp(r.base + r.size) ELSE PageDown(r.base + r.size)

pages_for_size(size) == PageUp(IF size = 0 THEN 1 ELSE size)

reserved_memory_type_to_efi(noMap) == IF noMap THEN Reserved ELSE BootData

-----------------------------------------------------------------------------
(* Edits of the descriptor array. *)

\* Room for the parts that replacing pages [Memory, Memory + Pages) leaves.
PrefixParts(i, Memory) == IF Memory > Start(i) THEN 1 ELSE 0
SuffixParts(i, Memory, Pages) == IF Memory + Pages < End(i) THEN 1 ELSE 0

\* Mutant: the check forgets the parts a split adds.
ReplaceFitsWithoutParts(i, Memory, Pages) == descriptor_count <= Capacity

ReplaceFits(i, Memory, Pages) ==
  descriptor_count + PrefixParts(i, Memory) + SuffixParts(i, Memory, Pages)
    <= Capacity

\* Mutant: the prefix keeps the length of the whole descriptor.
replace_range_untrimmed(i, Memory, Pages, MemoryType) ==
  LET type  == descriptors[i].Type
      pre   == PrefixParts(i, Memory)
      added == pre + SuffixParts(i, Memory, Pages)
  IN /\ descriptor_count' = descriptor_count + added
     /\ descriptors' = [k \in Slots |->
          IF k < i + pre /\ k <= i THEN descriptors[k]
          ELSE IF k = i + pre THEN Span(MemoryType, Memory, Memory + Pages)
          ELSE IF k <= i + added THEN Span(type, Memory + Pages, End(i))
          ELSE IF k <= descriptor_count + added THEN descriptors[k - added]
          ELSE EMPTY_DESCRIPTOR]

\* replace_range and replace_descriptor: descriptor i becomes an optional
\* prefix, the retyped range and an optional suffix; the tail moves up.  Slots
\* past the count hold leftovers nobody reads; here every edit empties them.
replace_range(i, Memory, Pages, MemoryType) ==
  LET type  == descriptors[i].Type
      pre   == PrefixParts(i, Memory)
      added == pre + SuffixParts(i, Memory, Pages)
  IN /\ descriptor_count' = descriptor_count + added
     /\ descriptors' = [k \in Slots |->
          IF k < i THEN descriptors[k]
          ELSE IF k < i + pre THEN Span(type, Start(i), Memory)
          ELSE IF k = i + pre THEN Span(MemoryType, Memory, Memory + Pages)
          ELSE IF k <= i + added THEN Span(type, Memory + Pages, End(i))
          ELSE IF k <= descriptor_count + added THEN descriptors[k - added]
          ELSE EMPTY_DESCRIPTOR]

\* Mutant: the new descriptor is appended.
InsertPositionLast(p, start) == p = descriptor_count + 1

\* insert_sorted looks for the first descriptor that starts above `start`.
InsertPosition(p, start) ==
  /\ \A k \in 1..(p - 1) : Start(k) <= start
  /\ p <= descriptor_count => Start(p) > start

insert_descriptor(p, d) ==
  /\ descriptor_count' = descriptor_count + 1
  /\ descriptors' = [k \in Slots |->
       IF k < p THEN descriptors[k]
       ELSE IF k = p THEN d
       ELSE IF k <= descriptor_count + 1 THEN descriptors[k - 1]
       ELSE EMPTY_DESCRIPTOR]

\* Mutant: neighbours that only touch are not merged.
descriptors_are_overlapping(i, j) ==
  /\ descriptors[i].Type = descriptors[j].Type
  /\ Start(j) < End(i)

\* VirtualStart and Attribute are zero in every descriptor.
descriptors_are_compatible(i, j) ==
  /\ descriptors[i].Type = descriptors[j].Type
  /\ Start(j) <= End(i)

\* The merge of one coalesce iteration: descriptor i takes over i + 1.
merge_with_next(i) ==
  /\ descriptor_count' = descriptor_count - 1
  /\ descriptors' = [k \in Slots |->
       IF k < i THEN descriptors[k]
       ELSE IF k = i THEN Span(descriptors[i].Type, Start(i), End(i + 1))
       ELSE IF k < descriptor_count THEN descriptors[k + 1]
       ELSE EMPTY_DESCRIPTOR]

-----------------------------------------------------------------------------
(* from_fdt: the lists of regions it walks, in the order it walks them. *)

Shorter(a, b) == IF a < b THEN a ELSE b

\* The slices that receive /memory and the reserve map have fixed lengths;
\* memory_regions and reserve_map_regions stop when they are full.
ListLength ==
  CASE phase = "memory"          -> Shorter(Len(fdt.memory), MaxMemoryRegions)
    [] phase = "fdt"             -> 1
    [] phase = "reserve_map"     -> Shorter(Len(fdt.reserveMap), MaxReservedRegions)
    [] phase = "reserved_memory" -> Len(fdt.reserved)
    [] phase = "firmware"        -> 4
    [] OTHER                     -> 0

NoRange == [start |-> 0, end |-> 0, Type |-> Reserved, from |-> {}]

Init ==
  /\ fdt \in Fdts
  /\ phase = "memory"
  /\ region = 1
  /\ loop = "none"
  /\ index = 1
  /\ range = NoRange
  /\ descriptors = [k \in Slots |-> EMPTY_DESCRIPTOR]
  /\ descriptor_count = 0
  /\ result = "none"

\* A `?` in from_fdt: the caller gets the error and no allocator.
Fail(error) ==
  /\ phase' = "failed"
  /\ loop' = "none"
  /\ index' = 1
  /\ range' = NoRange
  /\ result' = error
  /\ UNCHANGED <<fdt, region, mapVars>>

\* One region of the list is dealt with.  reserve_region_with_type, which
\* only the device-tree blob goes through, coalesces after the carve.
RegionDone ==
  /\ region' = region + 1
  /\ loop' = IF phase = "fdt" THEN "coalesce" ELSE "none"
  /\ index' = 1
  /\ range' = NoRange
  /\ UNCHANGED <<fdt, phase, mapVars, result>>

add_memory_region ==
  LET r     == fdt.memory[region]
      first == RegionStart(r, FALSE)
      last  == RegionEnd(r, FALSE)
  IN /\ phase = "memory" /\ loop = "none"
     /\ region <= ListLength
     /\ \/ RegionOverflows(r, FALSE) /\ Fail("AddressOverflow")
        \/ ~RegionOverflows(r, FALSE) /\ last <= first /\ RegionDone
        \/ /\ ~RegionOverflows(r, FALSE)
           /\ first < last
           /\ \/ descriptor_count = Capacity /\ Fail("BufferTooSmall")
              \/ /\ descriptor_count < Capacity
                 /\ \E p \in 1..(descriptor_count + 1) :
                      /\ InsertPosition(p, first)
                      /\ insert_descriptor(p, Span(Conventional, first, last))
                 /\ region' = region + 1
                 /\ UNCHANGED <<fdt, phase, loop, index, range, result>>

\* align_region_to_pages and the entry of a carve loop that retypes the
\* pages of region r whose type is in `from`.
BeginCarve(r, MemoryType, from) ==
  LET first == RegionStart(r, TRUE)
      last  == RegionEnd(r, TRUE)
  IN \/ RegionOverflows(r, TRUE) /\ Fail("AddressOverflow")
     \/ ~RegionOverflows(r, TRUE) /\ last <= first /\ RegionDone
     \/ /\ ~RegionOverflows(r, TRUE)
        /\ first < last
        /\ loop' = "carve"
        /\ index' = 1
        /\ range' = [start |-> first, end |-> last,
                     Type |-> MemoryType, from |-> from]
        /\ UNCHANGED <<fdt, phase, region, mapVars, result>>

add_reserved_region_with_type(r, MemoryType) ==
  BeginCarve(r, MemoryType, {Conventional, Reserved})

reserve_original_fdt ==
  /\ phase = "fdt" /\ loop = "none"
  /\ add_reserved_region_with_type(fdt.blob, AcpiReclaim)

add_reserved_region ==
  /\ phase = "reserve_map" /\ loop = "none"
  /\ region <= ListLength
  /\ add_reserved_region_with_type(fdt.reserveMap[region], Reserved)

add_static_reserved_region ==
  /\ phase = "reserved_memory" /\ loop = "none"
  /\ region <= ListLength
  /\ add_reserved_region_with_type(
       fdt.reserved[region].region,
       reserved_memory_type_to_efi(fdt.reserved[region].noMap))

\* linker_region drops an empty linker range before it is rounded.
add_firmware_region ==
  LET r == fdt.firmware[region]
  IN /\ phase = "firmware" /\ loop = "none"
     /\ region <= ListLength
     /\ \/ r.size = 0 /\ RegionDone
        \/ /\ r.size # 0
           /\ BeginCarve(r, IF region = 1 THEN FirmwareCode ELSE BootData,
                         {Conventional})

\* The end of a list: from_fdt coalesces after the RAM regions and at its
\* very end, and goes straight on to the next list otherwise.
end_of_list ==
  /\ loop = "none"
  /\ phase \in {"memory", "reserve_map", "reserved_memory", "firmware"}
  /\ region > ListLength
  /\ \/ /\ phase \in {"memory", "firmware"}
        /\ loop' = "coalesce"
        /\ UNCHANGED <<phase, region>>
     \/ /\ phase \in {"reserve_map", "reserved_memory"}
        /\ phase' = IF phase = "reserve_map" THEN "reserved_memory" ELSE "firmware"
        /\ region' = 1
        /\ UNCHANGED loop
  /\ UNCHANGED <<fdt, index, range, mapVars, result>>

\* One iteration of carve_range or carve_range_for_reserved_region.
carve_iteration ==
  LET first == IF Start(index) > range.start THEN Start(index) ELSE range.start
      last  == Shorter(End(index), range.end)
      pages == last - first
  IN /\ loop = "carve"
     /\ index <= descriptor_count
     /\ Start(index) < range.end
     /\ \/ /\ \/ End(index) <= range.start
              \/ descriptors[index].Type \notin range.from
           /\ index' = index + 1
           /\ UNCHANGED <<fdt, phase, region, loop, range, mapVars, result>>
        \/ /\ End(index) > range.start
           /\ descriptors[index].Type \in range.from
           /\ \/ ~ReplaceFits(index, first, pages) /\ Fail("BufferTooSmall")
              \/ /\ ReplaceFits(index, first, pages)
                 /\ replace_range(index, first, pages, range.Type)
                 /\ index' = index + 1 + PrefixParts(index, first)
                 /\ UNCHANGED <<fdt, phase, region, loop, range, result>>

carve_exit ==
  /\ loop = "carve"
  /\ index <= descriptor_count => Start(index) >= range.end
  /\ RegionDone

\* Mutant: the loop does not advance past a pair it cannot merge.
coalesce_iteration_stuck ==
  /\ loop = "coalesce"
  /\ index < descriptor_count
  /\ descriptors_are_compatible(index, index + 1)
  /\ merge_with_next(index)
  /\ UNCHANGED <<fdt, phase, region, loop, index, range, result>>

coalesce_iteration ==
  /\ loop = "coalesce"
  /\ index < descriptor_count
  /\ \/ /\ descriptors_are_compatible(index, index + 1)
        /\ merge_with_next(index)
        /\ UNCHANGED index
     \/ /\ ~descriptors_are_compatible(index, index + 1)
        /\ index' = index + 1
        /\ UNCHANGED mapVars
  /\ UNCHANGED <<fdt, phase, region, loop, range, result>>

\* coalesce returns: construction moves on, or a public call is finished.
coalesce_exit ==
  /\ loop = "coalesce"
  /\ index >= descriptor_count
  /\ loop' = "none"
  /\ index' = 1
  /\ region' = 1
  /\ phase' = CASE phase = "memory"   -> "fdt"
                [] phase = "fdt"      -> "reserve_map"
                [] phase = "firmware" -> "ready"
                [] OTHER              -> phase
  /\ result' = IF phase = "firmware" THEN "Ok" ELSE result
  /\ UNCHANGED <<fdt, range, mapVars>>

-----------------------------------------------------------------------------
(* The calls of a finished allocator. *)

Ready == phase = "ready" /\ loop = "none"

Return(status) ==
  /\ result' = status
  /\ UNCHANGED <<fdt, phase, region, loop, index, range, mapVars>>

\* A successful edit is always followed by coalesce.
ReplaceAndCoalesce(i, Memory, Pages, MemoryType) ==
  \/ ~ReplaceFits(i, Memory, Pages) /\ Return("BufferTooSmall")
  \/ /\ ReplaceFits(i, Memory, Pages)
     /\ replace_range(i, Memory, Pages, MemoryType)
     /\ loop' = "coalesce"
     /\ index' = 1
     /\ result' = "Ok"
     /\ UNCHANGED <<fdt, phase, region, range>>

Covers(i, first, last) == Start(i) <= first /\ last <= End(i)

find_descriptor_covering(i, first, last) ==
  Covers(i, first, last) /\ \A k \in 1..(i - 1) : ~Covers(k, first, last)

\* checked_end and find_descriptor_covering fail alike in both callers.
RangeMissing(Memory, Pages) ==
  \/ Memory + Pages > TopPage /\ Return("AddressOverflow")
  \/ /\ Memory + Pages <= TopPage
     /\ \A i \in Live : ~Covers(i, Memory, Memory + Pages)
     /\ Return("NotFound")

\* Mutant: the type of the descriptor found is not looked at.
allocate_any_range(Memory, Pages, MemoryType) ==
  \/ RangeMissing(Memory, Pages)
  \/ /\ Memory + Pages <= TopPage
     /\ \E i \in Live :
          /\ find_descriptor_covering(i, Memory, Memory + Pages)
          /\ ReplaceAndCoalesce(i, Memory, Pages, MemoryType)

allocate_exact_range(Memory, Pages, MemoryType) ==
  \/ RangeMissing(Memory, Pages)
  \/ /\ Memory + Pages <= TopPage
     /\ \E i \in Live :
          /\ find_descriptor_covering(i, Memory, Memory + Pages)
          /\ \/ /\ descriptors[i].Type # Conventional
                /\ Return("OutOfResources")
             \/ /\ descriptors[i].Type = Conventional
                /\ ReplaceAndCoalesce(i, Memory, Pages, MemoryType)

\* Mutant: a reserved range may be freed.
free_any_range(Memory, Pages) ==
  \/ RangeMissing(Memory, Pages)
  \/ /\ Memory + Pages <= TopPage
     /\ \E i \in Live :
          /\ find_descriptor_covering(i, Memory, Memory + Pages)
          /\ \/ /\ descriptors[i].Type = Conventional
                /\ Return("InvalidParameter")
             \/ /\ descriptors[i].Type # Conventional
                /\ ReplaceAndCoalesce(i, Memory, Pages, Conventional)

free_exact_range(Memory, Pages) ==
  \/ RangeMissing(Memory, Pages)
  \/ /\ Memory + Pages <= TopPage
     /\ \E i \in Live :
          /\ find_descriptor_covering(i, Memory, Memory + Pages)
          /\ \/ /\ descriptors[i].Type \in {Conventional, Reserved}
                /\ Return("InvalidParameter")
             \/ /\ descriptors[i].Type \notin {Conventional, Reserved}
                /\ ReplaceAndCoalesce(i, Memory, Pages, Conventional)

FreeSlots == {i \in Live : descriptors[i].Type = Conventional}

\* The start each conventional descriptor offers to find_allocation_any_pages.
find_allocation_any_pages(Pages) ==
  {End(i) - Pages : i \in {j \in FreeSlots : Start(j) + Pages <= End(j)}}

\* Mutant: the page that ends exactly at the caller's limit is left out.
find_allocation_below_address(Pages, Memory) ==
  LET upper(i) == Shorter(End(i), PageDown(Memory))
  IN {upper(i) - Pages : i \in {j \in FreeSlots : Start(j) + Pages <= upper(j)}}

\* ... and to find_allocation_max_address: the highest address usable is the
\* caller's limit, and Memory + 1 saturates.
find_allocation_max_address(Pages, Memory) ==
  LET limit == PageDown(Shorter(Memory + 1, MaxAddress))
      upper(i) == Shorter(End(i), limit)
  IN {upper(i) - Pages : i \in {j \in FreeSlots : Start(j) + Pages <= upper(j)}}

\* Allocates the highest (or lowest) of the starts on offer; none is an error.
AllocateBest(starts, direction, Pages, MemoryType) ==
  \/ starts = {} /\ Return("OutOfResources")
  \/ \E start \in starts :
       /\ \A other \in starts :
            IF direction = "Low" THEN start <= other ELSE start >= other
       /\ allocate_exact_range(start, Pages, MemoryType)

AllocatePages(Type, MemoryType, Pages, Memory) ==
  \/ /\ Pages = 0 \/ MemoryType = MaxType \/ Type = "MaxAllocateType"
     /\ Return("InvalidParameter")
  \/ /\ Pages # 0 /\ MemoryType # MaxType /\ Type # "MaxAllocateType"
     /\ \/ Pages > TopPage /\ Return("AddressOverflow")
        \/ /\ Pages <= TopPage
           /\ Type = "AllocateAnyPages"
           /\ AllocateBest(find_allocation_any_pages(Pages), "High",
                           Pages, MemoryType)
        \/ /\ Pages <= TopPage
           /\ Type = "AllocateMaxAddress"
           /\ AllocateBest(find_allocation_max_address(Pages, Memory), "High",
                           Pages, MemoryType)
        \/ /\ Pages <= TopPage
           /\ Type = "AllocateAddress"
           /\ \/ ~is_page_aligned(Memory) /\ Return("InvalidParameter")
              \/ /\ is_page_aligned(Memory)
                 /\ allocate_exact_range(PageDown(Memory), Pages, MemoryType)

allocate_pages_for_size(MemoryType, size) ==
  \/ MemoryType = MaxType /\ Return("InvalidParameter")
  \/ /\ MemoryType # MaxType
     /\ \/ PageUpOverflows(size) /\ Return("AddressOverflow")
        \/ /\ ~PageUpOverflows(size)
           /\ AllocatePages("AllocateAnyPages", MemoryType, pages_for_size(size), 0)

\* Descriptors large enough for the request before any alignment.
Roomy(Pages) == {i \in FreeSlots : Start(i) + Pages <= End(i)}

AlignUpPages(page, step)   == ((page + step - 1) \div step) * step
AlignDownPages(page, step) == (page \div step) * step

\* The aligned start a descriptor offers, from its low or its high end.
AlignedStart(i, Pages, step, direction) ==
  IF direction = "Low" THEN AlignUpPages(Start(i), step)
                       ELSE AlignDownPages(End(i) - Pages, step)

\* The starts on offer, and whether the search gives up instead: when the size
\* overflows, or when rounding up overflows for any one descriptor with room.
find_aligned_allocation(Pages, step, direction) ==
  [overflows |-> \/ Pages > TopPage
                 \/ direction = "Low" /\ \E i \in Roomy(Pages) : Start(i) + step > TopPage + 1,
   starts    |-> {AlignedStart(i, Pages, step, direction) : i \in
                    {j \in Roomy(Pages) :
                       /\ AlignedStart(j, Pages, step, direction) >= Start(j)
                       /\ AlignedStart(j, Pages, step, direction) + Pages <= End(j)}}]

allocate_aligned_pages(MemoryType, Pages, alignment, direction) ==
  LET found == find_aligned_allocation(Pages, PageDown(alignment), direction)
  IN \/ /\ \/ Pages = 0 \/ MemoryType = MaxType
           \/ alignment = 0 \/ ~is_page_aligned(alignment)
        /\ Return("InvalidParameter")
     \/ /\ Pages # 0 /\ MemoryType # MaxType
        /\ alignment # 0 /\ is_page_aligned(alignment)
        /\ \/ found.overflows /\ Return("AddressOverflow")
           \/ ~found.overflows /\ AllocateBest(found.starts, direction, Pages, MemoryType)

allocate_aligned_pages_for_size(MemoryType, size, alignment, direction) ==
  \/ MemoryType = MaxType /\ Return("InvalidParameter")
  \/ /\ MemoryType # MaxType
     /\ \/ PageUpOverflows(size) /\ Return("AddressOverflow")
        \/ /\ ~PageUpOverflows(size)
           /\ allocate_aligned_pages(MemoryType, pages_for_size(size),
                                     alignment, direction)

FreePages(Memory, Pages) ==
  \/ /\ Pages = 0 \/ ~is_page_aligned(Memory)
     /\ Return("InvalidParameter")
  \/ /\ Pages # 0 /\ is_page_aligned(Memory)
     /\ free_exact_range(PageDown(Memory), Pages)

-----------------------------------------------------------------------------
Construct ==
  \/ add_memory_region
  \/ reserve_original_fdt
  \/ add_reserved_region
  \/ add_static_reserved_region
  \/ add_firmware_region
  \/ end_of_list

Loop == carve_iteration \/ carve_exit \/ coalesce_iteration \/ coalesce_exit

AllocateTypes ==
  {"AllocateAnyPages", "AllocateMaxAddress", "AllocateAddress", "MaxAllocateType"}

Call ==
  /\ Ready
  /\ \/ \E Type \in AllocateTypes, t \in RequestTypes, n \in PageCounts :
          \E m \in IF Type = "AllocateAnyPages" THEN {0} ELSE Addresses :
             AllocatePages(Type, t, n, m)
     \/ \E t \in RequestTypes, size \in Sizes : allocate_pages_for_size(t, size)
     \/ \E t \in RequestTypes, n \in PageCounts, a \in Alignments,
           direction \in {"Low", "High"} :
             allocate_aligned_pages(t, n, a, direction)
     \/ \E t \in RequestTypes, size \in Sizes, a \in Alignments,
           direction \in {"Low", "High"} :
             allocate_aligned_pages_for_size(t, size, a, direction)
     \/ \E m \in Addresses, n \in PageCounts : FreePages(m, n)

\* from_fdt has returned an error: there is no allocator to call.
NoAllocator == phase = "failed" /\ UNCHANGED vars

Next == Construct \/ Loop \/ Call \/ NoAllocator

Spec == Init /\ [][Next]_vars

\* The firmware is one thread of straight-line code: construction and the
\* loops always take their next step.  Nothing obliges a caller to call.
FairSpec == Spec /\ WF_vars(Construct) /\ WF_vars(Loop)

-----------------------------------------------------------------------------
(* Properties. *)

RangeArguments ==
  [start : 0..TopPage, end : 0..TopPage, Type : MemoryTypes,
   from : SUBSET MemoryTypes]

\* The shape of the state: indices stay inside the buffer whatever the loops
\* of memory.rs do to descriptor_count.
TypeOK ==
  /\ fdt \in Fdts
  /\ phase \in {"memory", "fdt", "reserve_map", "reserved_memory", "firmware",
                "ready", "failed"}
  /\ region \in Nat \ {0}
  /\ loop \in {"none", "carve", "coalesce"}
  /\ index \in 1..(Capacity + 1)
  /\ range \in RangeArguments
  /\ descriptors \in [Slots -> Descriptor]
  /\ descriptor_count \in 0..Capacity
  /\ result \in Errors \cup {"none", "Ok"}

\* The array is a memory map: no empty descriptor, none past the end of the
\* address space, starts in order, and no page described twice once the RAM
\* list has been coalesced (overlapping /memory entries may be in the array
\* until then, or when from_fdt gives up before that).  The splits of
\* replace_range and the in-place merges of coalesce could each break it.
MapSound ==
  /\ \A i \in Live : descriptors[i].NumberOfPages > 0 /\ End(i) <= TopPage
  /\ \A i, j \in Live : i < j => Start(i) <= Start(j)
  /\ phase \notin {"memory", "failed"} =>
       \A i, j \in Live : i < j => End(i) <= Start(j)

\* Once from_fdt has returned, no call of any caller, in any order, gives the
\* pages of a reserved descriptor to anybody: they keep their type for good.
ReservedPage(q) ==
  \E i \in Live : descriptors[i].Type = Reserved /\ Start(i) <= q /\ q < End(i)

ReservedStaysReserved ==
  [][\A q \in 0..TopPage : phase = "ready" /\ ReservedPage(q) => ReservedPage(q)']_vars

=============================================================================
