------------------------- MODULE PageReferenceProofs -------------------------
(***************************************************************************)
(* Proofs about the reference definitions of PageAllocator: that between   *)
(* calls every run of pages of one type lies in one descriptor, that the   *)
(* descriptor array implements the map of page types of PageMap, that the  *)
(* searches are exact, and that construction gives every page the type the *)
(* device tree asks for.                                                   *)
(***************************************************************************)
EXTENDS PageReference, PageAllocatorProofs, SequenceTheorems, NaturalsInduction,
        WellFoundedInduction

(* Between calls neighbours never fit together. *)

MergedBelow(n) ==
  \A i \in Live : i < n /\ i + 1 \in Live => ~descriptors_are_compatible(i, i + 1)

\* A coalesce leaves no mergeable pair behind it, and every edit is followed
\* by one.
Merged ==
  /\ loop = "coalesce" => MergedBelow(index)
  /\ Ready => MergedBelow(descriptor_count)

\* What a call does to the map: nothing, or one replace_range inside one
\* descriptor, free if pages are allocated and owned if they are freed.
GivesAway(i) == descriptors[i].Type = Conventional
TakesBack(i, t) == descriptors[i].Type \notin {Conventional, Reserved} /\ t = Conventional

Edit(i, M, P, t) ==
  /\ Start(i) <= M /\ M + P <= End(i)
  /\ GivesAway(i) \/ TakesBack(i, t)
  /\ ReplaceFits(i, M, P)
  /\ replace_range(i, M, P, t)
  /\ loop' = "coalesce" /\ index' = 1 /\ UNCHANGED phase

Edits == \E i \in Live, M \in Nat, P \in Nat \ {0}, t \in MemoryTypes : Edit(i, M, P, t)

Untouched == UNCHANGED <<phase, loop, index, mapVars>>

LEMMA ExactRangeEdits ==
  ASSUME NEW M \in Nat, NEW P \in Nat \ {0}, NEW t \in MemoryTypes,
         allocate_exact_range(M, P, t) \/ free_exact_range(M, P)
  PROVE  Untouched \/ Edits
<1>1. \A s : Return(s) => Untouched
  BY DEF Return, Untouched
<1>2. CASE RangeMissing(M, P)
  BY <1>1, <1>2 DEF RangeMissing
<1>3. ASSUME NEW i \in Live, find_descriptor_covering(i, M, M + P), NEW u \in MemoryTypes,
             GivesAway(i) \/ TakesBack(i, u), ReplaceAndCoalesce(i, M, P, u)
      PROVE  Untouched \/ Edits
  <2>1. CASE Return("BufferTooSmall")
    BY <1>1, <2>1
  <2>2. CASE ~Return("BufferTooSmall")
    <3>1. Edit(i, M, P, u)
      BY <1>3, <2>2 DEF ReplaceAndCoalesce, Edit, find_descriptor_covering, Covers
    <3> QED BY <3>1 DEF Edits
  <2> QED BY <2>1, <2>2
<1>4. CASE allocate_exact_range(M, P, t)
  BY <1>1, <1>2, <1>3, <1>4 DEF allocate_exact_range, GivesAway
<1>5. CASE free_exact_range(M, P)
  <2>1. Conventional \in MemoryTypes
    BY DEF MemoryTypes
  <2> QED BY <1>1, <1>2, <1>3, <1>5, <2>1 DEF free_exact_range, TakesBack
<1> QED BY <1>4, <1>5

LEMMA AllocateBestEdits ==
  ASSUME NEW starts \in SUBSET Nat, NEW direction,
         NEW P \in Nat \ {0}, NEW t \in MemoryTypes,
         AllocateBest(starts, direction, P, t)
  PROVE  Untouched \/ Edits
<1>1. CASE Return("OutOfResources")
  BY <1>1 DEF Return, Untouched
<1>2. CASE \E start \in starts : allocate_exact_range(start, P, t)
  BY <1>2, ExactRangeEdits
<1> QED BY <1>1, <1>2 DEF AllocateBest

LEMMA AllocatePagesEdits ==
  ASSUME MapTyped, NEW Type, NEW t \in MemoryTypes \cup {MaxType}, NEW P \in Nat,
         NEW M \in Nat, AllocatePages(Type, t, P, M)
  PROVE  Untouched \/ Edits
<1>1. \A s : Return(s) => Untouched
  BY DEF Return, Untouched
<1>2. CASE P = 0 \/ t = MaxType
  BY <1>1, <1>2 DEF AllocatePages
<1>3. CASE P # 0 /\ t # MaxType
  <2>1. P \in Nat \ {0} /\ t \in MemoryTypes
    BY <1>3
  <2>2. /\ find_allocation_any_pages(P) \in SUBSET Nat
        /\ find_allocation_max_address(P, M) \in SUBSET Nat
    <3>1. 1 \in Nat \ {0}
      OBVIOUS
    <3> QED BY <3>1, SearchesOfferPages
  <2> QED BY <1>1, <1>3, <2>1, <2>2, AllocateBestEdits, ExactRangeEdits, PageDownNat
          DEF AllocatePages
<1> QED BY <1>2, <1>3

LEMMA AllocateAlignedPagesEdits ==
  ASSUME MapTyped, NEW t \in MemoryTypes \cup {MaxType}, NEW P \in Nat,
         NEW a \in Nat, NEW direction, allocate_aligned_pages(t, P, a, direction)
  PROVE  Untouched \/ Edits
<1>1. \A s : Return(s) => Untouched
  BY DEF Return, Untouched
<1>2. ASSUME P # 0, t # MaxType, a # 0, is_page_aligned(a),
             AllocateBest(find_aligned_allocation(P, PageDown(a), direction).starts,
                          direction, P, t)
      PROVE  Untouched \/ Edits
  <2>1. P \in Nat \ {0} /\ t \in MemoryTypes
    BY <1>2
  <2>2. PageDown(a) \in Nat \ {0}
    <3>1. PageDown(a) \in Nat
      BY PageDownNat
    <3>2. a \div PageSize # 0
      BY <1>2, SizeAssumption DEF is_page_aligned
    <3> QED BY <3>1, <3>2 DEF PageDown
  <2>3. find_aligned_allocation(P, PageDown(a), direction).starts \in SUBSET Nat
    BY <2>1, <2>2, SearchesOfferPages
  <2> QED BY <1>2, <2>1, <2>3, AllocateBestEdits
<1> QED BY <1>1, <1>2 DEF allocate_aligned_pages

LEMMA CallEdits ==
  ASSUME IndInv, Call
  PROVE  Untouched \/ Edits
<1>1. MapTyped
  BY Parts
<1>2. /\ \A t \in RequestTypes : t \in MemoryTypes \cup {MaxType}
      /\ \A n \in PageCounts : n \in Nat
      /\ \A m \in Addresses : m \in Nat
      /\ \A s \in Sizes : s \in Nat
      /\ \A a \in Alignments : a \in Nat
  BY InputAssumption, AlignmentAssumption, MaxAddressNat
<1>3. \A s \in Sizes : pages_for_size(s) \in Nat
  BY <1>2, PageDownNat DEF pages_for_size
<1>4. \A s : Return(s) => Untouched
  BY DEF Return, Untouched
<1>5. ASSUME NEW Type \in AllocateTypes, NEW t \in RequestTypes, NEW n \in PageCounts,
             NEW m \in IF Type = "AllocateAnyPages" THEN {0} ELSE Addresses,
             AllocatePages(Type, t, n, m)
      PROVE  Untouched \/ Edits
  <2>1. m \in Nat
    BY <1>2
  <2> QED BY <1>1, <1>2, <1>5, <2>1, AllocatePagesEdits
<1>6. ASSUME NEW t \in RequestTypes, NEW size \in Sizes,
             allocate_pages_for_size(t, size)
      PROVE  Untouched \/ Edits
  <2>1. 0 \in Nat
    OBVIOUS
  <2> QED BY <1>1, <1>2, <1>3, <1>4, <1>6, <2>1, AllocatePagesEdits
          DEF allocate_pages_for_size
<1>7. ASSUME NEW t \in RequestTypes, NEW n \in PageCounts, NEW a \in Alignments,
             NEW direction \in {"Low", "High"}, allocate_aligned_pages(t, n, a, direction)
      PROVE  Untouched \/ Edits
  BY <1>1, <1>2, <1>7, AllocateAlignedPagesEdits
<1>8. ASSUME NEW t \in RequestTypes, NEW size \in Sizes, NEW a \in Alignments,
             NEW direction \in {"Low", "High"},
             allocate_aligned_pages_for_size(t, size, a, direction)
      PROVE  Untouched \/ Edits
  BY <1>1, <1>2, <1>3, <1>4, <1>8, AllocateAlignedPagesEdits
  DEF allocate_aligned_pages_for_size
<1>9. ASSUME NEW m \in Addresses, NEW n \in PageCounts, FreePages(m, n)
      PROVE  Untouched \/ Edits
  <2>1. CASE Return("InvalidParameter")
    BY <1>4, <2>1
  <2>2. CASE n # 0 /\ free_exact_range(PageDown(m), n)
    <3>1. n \in Nat \ {0} /\ PageDown(m) \in Nat /\ Conventional \in MemoryTypes
      BY <1>2, <2>2, PageDownNat DEF MemoryTypes
    <3> QED BY <2>2, <3>1, ExactRangeEdits
  <2> QED BY <1>9, <2>1, <2>2 DEF FreePages
<1> QED BY <1>5, <1>6, <1>7, <1>8, <1>9 DEF Call

\* A merge at n changes no pair below n: descriptor n keeps its start and type.
LEMMA MergeKeepsMerged ==
  ASSUME MapTyped, NEW n \in Nat, n >= 1, n < descriptor_count,
         merge_with_next(n), MergedBelow(n)
  PROVE  MergedBelow(n)'
<1> DEFINE d == Span(descriptors[n].Type, Start(n), End(n + 1))
<1>1. /\ descriptor_count \in Nat /\ descriptor_count <= Capacity /\ Capacity \in Nat
      /\ n \in Live
  BY SizeAssumption DEF MapTyped, Live
<1>2. d.Type = descriptors[n].Type /\ d.PhysicalStart = Start(n)
  BY DEF Span
<1>3. /\ descriptor_count' = descriptor_count - 1
      /\ descriptors' = [k \in Slots |->
           IF k < n THEN descriptors[k]
           ELSE IF k = n THEN d
           ELSE IF k < descriptor_count THEN descriptors[k + 1]
           ELSE EMPTY_DESCRIPTOR]
  BY Zenon DEF merge_with_next
<1> HIDE DEF d
<1>4. ASSUME NEW i \in Live', i < n, i + 1 \in Live'
      PROVE  ~descriptors_are_compatible(i, i + 1)'
  <2>1. /\ i \in Live /\ i + 1 \in Live /\ i \in Slots /\ i + 1 \in Slots
        /\ i \in Nat /\ i + 1 <= n
    BY <1>1, <1>3, <1>4 DEF Live, Slots
  <2>2. ~descriptors_are_compatible(i, i + 1)
    BY <1>4, <2>1 DEF MergedBelow
  <2>3. descriptors'[i] = descriptors[i]
    BY <1>3, <1>4, <2>1
  <2>4. /\ descriptors'[i + 1].Type = descriptors[i + 1].Type
        /\ descriptors'[i + 1].PhysicalStart = descriptors[i + 1].PhysicalStart
    <3>1. CASE i + 1 < n
      BY <1>3, <2>1, <3>1
    <3>2. CASE i + 1 = n
      <4>1. descriptors'[i + 1] = d
        BY <1>1, <1>3, <2>1, <3>2
      <4> QED BY <1>2, <3>2, <4>1 DEF Start
    <3> QED BY <1>1, <2>1, <3>1, <3>2
  <2> QED BY <2>2, <2>3, <2>4 DEF descriptors_are_compatible, Start, End
<1> QED BY <1>4 DEF MergedBelow

LEMMA MergedFromOne ==
  ASSUME MapTyped', index' = 1
  PROVE  MergedBelow(index)'
  BY DEF MergedBelow, Live, MapTyped

LEMMA MergedStep ==
  ASSUME IndInv, IndInv', Merged, [Next]_vars
  PROVE  Merged'
<1>1. MapTyped /\ MapTyped'
  BY DEF IndInv, TypeOK, MapTyped
<1>2. /\ index \in Nat /\ index >= 1 /\ descriptor_count \in Nat
  BY SizeAssumption DEF IndInv, TypeOK
<1>3. CASE Untouched
  BY <1>3 DEF Untouched, mapVars, Merged, MergedBelow, Ready, Live, Start, End,
              descriptors_are_compatible
<1>4. CASE ~Ready' /\ (loop' = "coalesce" => index' = 1)
  BY <1>1, <1>4, MergedFromOne DEF Merged
<1>5. CASE UNCHANGED vars
  BY <1>5, <1>3 DEF vars, mapVars, Untouched
<1>6. CASE Construct
  <2>1. phase' # "ready"
    BY <1>6 DEF Construct, add_memory_region, reserve_original_fdt, add_reserved_region,
       add_static_reserved_region, add_firmware_region, end_of_list,
       add_reserved_region_with_type, BeginCarve, Fail, RegionDone
  <2>2. loop = "none" /\ index = 1
    BY <1>6 DEF Construct, add_memory_region, reserve_original_fdt, add_reserved_region,
       add_static_reserved_region, add_firmware_region, end_of_list, IndInv, ControlSound
  <2>3. index' = 1
    BY <1>6, <2>2 DEF Construct, add_memory_region, reserve_original_fdt,
       add_reserved_region, add_static_reserved_region, add_firmware_region, end_of_list,
       add_reserved_region_with_type, BeginCarve, Fail, RegionDone
  <2> QED BY <1>4, <2>1, <2>3 DEF Ready
<1>7. CASE carve_iteration \/ carve_exit
  <2>1. phase # "ready" /\ loop = "carve"
    BY <1>7 DEF carve_iteration, carve_exit, IndInv, ControlSound
  <2>2. CASE carve_iteration
    <3>1. phase' # "ready" /\ loop' # "coalesce"
      BY <2>1, <2>2 DEF carve_iteration, Fail
    <3> QED BY <1>4, <3>1 DEF Ready
  <2>3. CASE carve_exit
    BY <1>4, <2>1, <2>3 DEF carve_exit, RegionDone, Ready
  <2> QED BY <1>7, <2>2, <2>3
<1>8. CASE coalesce_iteration
  <2>1. /\ loop = "coalesce" /\ loop' = "coalesce" /\ index < descriptor_count
        /\ MergedBelow(index)
    BY <1>8 DEF coalesce_iteration, Merged
  <2>2. CASE merge_with_next(index) /\ UNCHANGED index
    <3>1. MergedBelow(index)'
      BY <1>1, <1>2, <2>1, <2>2, MergeKeepsMerged DEF MergedBelow
    <3> QED BY <2>1, <3>1 DEF Merged, Ready
  <2>3. CASE /\ ~descriptors_are_compatible(index, index + 1)
             /\ index' = index + 1 /\ UNCHANGED mapVars
    <3>1. ASSUME NEW i \in Live, i < index + 1, i + 1 \in Live
          PROVE  ~descriptors_are_compatible(i, i + 1)
      <4>1. i < index \/ i = index
        BY <1>1, <1>2, <3>1, LiveFacts
      <4> QED BY <2>1, <2>3, <3>1, <4>1 DEF MergedBelow
    <3>2. MergedBelow(index)'
      BY <2>3, <3>1 DEF MergedBelow, mapVars, Live, Start, End, descriptors_are_compatible
    <3> QED BY <2>1, <3>2 DEF Merged, Ready
  <2> QED BY <1>8, <2>2, <2>3 DEF coalesce_iteration
<1>9. CASE coalesce_exit
  <2>1. /\ MergedBelow(index) /\ index >= descriptor_count /\ loop' = "none"
        /\ UNCHANGED mapVars
    BY <1>9 DEF coalesce_exit, Merged
  <2>2. MergedBelow(descriptor_count)
    BY <1>1, <1>2, <2>1, LiveFacts DEF MergedBelow
  <2>3. MergedBelow(descriptor_count)'
    BY <2>1, <2>2 DEF MergedBelow, mapVars, Live, Start, End, descriptors_are_compatible
  <2> QED BY <2>1, <2>3 DEF Merged
<1>10. CASE Call
  <2>1. CASE Edits
    BY <1>4, <2>1 DEF Edits, Edit, Ready
  <2> QED BY <1>3, <1>10, <2>1, CallEdits
<1> QED BY <1>5, <1>6, <1>7, <1>8, <1>9, <1>10 DEF Next, Loop, NoAllocator

LEMMA MergedAlways == Spec => [](IndInv /\ Merged)
<1>1. Init => IndInv /\ Merged
  BY InitInv DEF Init, Merged, Ready
<1>2. IndInv /\ Merged /\ [Next]_vars => IndInv' /\ Merged'
  BY NextInv, MergedStep
<1> QED BY <1>1, <1>2, PTL DEF Spec

-----------------------------------------------------------------------------
(* Types of pages. *)

\* Any descriptor that holds a page gives its type, if all of them agree.
LEMMA TypeAtHolder ==
  ASSUME NEW q, NEW t, \E k \in Live : Holds(k, q),
         \A j \in Live : Holds(j, q) => descriptors[j].Type = t
  PROVE  TypeAt(q) = t
<1> DEFINE c == CHOOSE i \in Live : Holds(i, q)
<1>1. c \in Live /\ Holds(c, q)
  BY Zenon
<1> QED BY <1>1, Zenon DEF TypeAt

LEMMA TypeAtHolderNext ==
  ASSUME NEW q, NEW t, (\E k \in Live : Holds(k, q))',
         (\A j \in Live : Holds(j, q) => descriptors[j].Type = t)'
  PROVE  TypeAt(q)' = t
<1> DEFINE c == CHOOSE i \in Live : Holds(i, q)
<1>1. (c \in Live /\ Holds(c, q))'
  BY Zenon
<1> QED BY <1>1, Zenon DEF TypeAt

LEMMA TypeAtNobody ==
  ASSUME NEW q, ~\E k \in Live : Holds(k, q)
  PROVE  TypeAt(q) = "none"
  BY Zenon DEF TypeAt

LEMMA TypeAtNobodyNext ==
  ASSUME NEW q, (~\E k \in Live : Holds(k, q))'
  PROVE  TypeAt(q)' = "none"
  BY Zenon DEF TypeAt

\* A page of a type is held by a descriptor of that type.
LEMMA TypeAtHeld ==
  ASSUME NEW q, TypeAt(q) # "none"
  PROVE  \E k \in Live : Holds(k, q) /\ descriptors[k].Type = TypeAt(q)
<1> DEFINE c == CHOOSE i \in Live : Holds(i, q)
<1>1. \E i \in Live : Holds(i, q)
  BY Zenon DEF TypeAt
<1>2. c \in Live /\ Holds(c, q)
  BY <1>1, Zenon
<1>3. TypeAt(q) = descriptors[c].Type
  BY <1>1, Zenon DEF TypeAt
<1> QED BY <1>2, <1>3, Zenon

\* In a map without overlaps one descriptor at most holds a page.
LEMMA OneHolder ==
  ASSUME MapTyped, Ordered, Disjoint, NEW q \in Nat, NEW j \in Live, NEW k \in Live,
         Holds(j, q), Holds(k, q)
  PROVE  j = k
<1>1. /\ j \in Nat /\ k \in Nat /\ Start(j) \in Nat /\ End(j) \in Nat
      /\ Start(k) \in Nat /\ End(k) \in Nat
  BY LiveFacts
<1>2. (j < k => End(j) <= Start(k)) /\ (k < j => End(k) <= Start(j))
  BY DEF Disjoint
<1> QED BY <1>1, <1>2 DEF Holds

\* Between calls the runs of pages of type t are the stretches inside the
\* descriptors of type t.
LEMMA RunsAreStretches ==
  ASSUME IndInv, Merged, Ready, NEW n \in Nat \ {0}, NEW t \in MemoryTypes, NEW s
  PROVE  s \in Runs(n, t) <=>
           /\ s \in Nat
           /\ \E i \in Live : descriptors[i].Type = t /\ Covers(i, s, s + n)
<1>1. MapTyped /\ Ordered /\ Disjoint /\ MergedBelow(descriptor_count)
  BY Parts DEF Ready, Merged
<1>2. \A i \in Live : /\ i \in Nat /\ i >= 1 /\ i <= descriptor_count
                      /\ descriptor_count \in Nat
                      /\ Start(i) \in Nat /\ End(i) \in Nat
                      /\ Start(i) < End(i) /\ End(i) <= TopPage
  BY <1>1, LiveFacts DEF Ordered, Start, End, Descriptor
<1>3. ASSUME s \in Runs(n, t)
      PROVE  s \in Nat /\ \E i \in Live : descriptors[i].Type = t /\ Covers(i, s, s + n)
  <2>1. /\ s \in Nat
        /\ \A q \in s..(s + n - 1) : TypeAt(q) = t
    BY <1>3, SizeAssumption DEF Runs, Pages
  <2>2. t # "none"
    BY DEF MemoryTypes, Conventional, Reserved, FirmwareCode, BootData, AcpiReclaim
  <2>3. PICK i \in Live : Holds(i, s) /\ descriptors[i].Type = t
    BY <2>1, <2>2, TypeAtHeld
  <2>4. s + n <= End(i)
    <3> SUFFICES ASSUME End(i) < s + n PROVE FALSE
      BY <1>2, <2>1
    <3>1. End(i) \in s..(s + n - 1)
      BY <1>2, <2>1, <2>3 DEF Holds
    <3>2. PICK j \in Live : Holds(j, End(i)) /\ descriptors[j].Type = t
      BY <2>1, <2>2, <3>1, TypeAtHeld
    <3>3. i < j
      <4>1. ~(j < i)
        BY <1>1, <1>2, <3>2 DEF Disjoint, Holds
      <4>2. j # i
        BY <1>2, <3>2 DEF Holds
      <4> QED BY <1>2, <4>1, <4>2
    <3>4. i + 1 \in Live /\ i < descriptor_count
      BY <1>2, <3>3 DEF Live
    <3>5. j = i + 1
      <4>1. End(i) <= Start(i + 1) /\ (i + 1 < j => End(i + 1) <= Start(j))
        BY <1>1, <1>2, <3>4 DEF Disjoint
      <4> QED BY <1>2, <3>2, <3>3, <3>4, <4>1 DEF Holds
    <3>6. descriptors_are_compatible(i, i + 1)
      BY <2>3, <3>2, <3>5 DEF descriptors_are_compatible, Holds
    <3> QED BY <1>1, <3>4, <3>6 DEF MergedBelow
  <2> QED BY <2>1, <2>3, <2>4 DEF Holds, Covers
<1>4. ASSUME s \in Nat, NEW i \in Live, descriptors[i].Type = t, Covers(i, s, s + n)
      PROVE  s \in Runs(n, t)
  <2>1. Start(i) <= s /\ s + n <= End(i)
    BY <1>4 DEF Covers
  <2>2. ASSUME NEW q \in s..(s + n - 1)
        PROVE  q \in Pages /\ TypeAt(q) = t
    <3>1. q \in Nat /\ Holds(i, q) /\ q \in Pages
      BY <1>2, <1>4, <2>1, SizeAssumption DEF Holds, Pages
    <3>2. \A j \in Live : Holds(j, q) => j = i
      BY <1>1, <3>1, OneHolder
    <3> QED BY <1>4, <3>1, <3>2, TypeAtHolder
  <2>3. s \in s..(s + n - 1)
    BY <1>4
  <2> QED BY <2>2, <2>3 DEF Runs
<1> QED BY <1>3, <1>4

\* Between calls FreePages finds what any owner gives back: every run of
\* pages of one type, of whatever allocations it is made up, lies inside one
\* descriptor of memory.rs.
THEOREM OwnersAreFound == Spec => []OwnedRunsAreFound
<1>1. IndInv /\ Merged => OwnedRunsAreFound
  <2> SUFFICES ASSUME IndInv, Merged, Ready, NEW n \in PageCounts \ {0},
                      NEW t \in MemoryTypes, NEW s \in Runs(n, t)
               PROVE  \E i \in Live : Covers(i, s, s + n)
    BY DEF OwnedRunsAreFound
  <2>1. n \in Nat \ {0}
    BY InputAssumption
  <2> QED BY <2>1, RunsAreStretches
<1> QED BY <1>1, MergedAlways, PTL

-----------------------------------------------------------------------------
(* The map as a set of descriptors. *)

In(d, q) == d.PhysicalStart <= q /\ q < d.PhysicalStart + d.NumberOfPages

Contents == {descriptors[k] : k \in Live}

\* The type of a page depends on the contents of the array only.
TypesByContents ==
  \A q \in Pages :
    /\ \A d \in Contents :
         In(d, q) /\ (\A e \in Contents : In(e, q) => e.Type = d.Type) => TypeAt(q) = d.Type
    /\ (\A d \in Contents : ~In(d, q)) => TypeAt(q) = "none"

LEMMA TypeAtContents == TypesByContents
<1> SUFFICES ASSUME NEW q \in Pages
             PROVE  /\ \A d \in Contents :
                         In(d, q) /\ (\A e \in Contents : In(e, q) => e.Type = d.Type)
                           => TypeAt(q) = d.Type
                    /\ (\A d \in Contents : ~In(d, q)) => TypeAt(q) = "none"
  BY DEF TypesByContents
<1>1. ASSUME NEW d \in Contents, In(d, q), \A e \in Contents : In(e, q) => e.Type = d.Type
      PROVE  TypeAt(q) = d.Type
  <2>1. \E k \in Live : Holds(k, q)
    BY <1>1 DEF Contents, In, Holds, Start, End
  <2>2. \A j \in Live : Holds(j, q) => descriptors[j].Type = d.Type
    BY <1>1 DEF Contents, In, Holds, Start, End
  <2> QED BY <2>1, <2>2, TypeAtHolder
<1>2. ASSUME \A d \in Contents : ~In(d, q)
      PROVE  TypeAt(q) = "none"
  <2>1. ~\E k \in Live : Holds(k, q)
    BY <1>2 DEF Contents, In, Holds, Start, End
  <2> QED BY <2>1, TypeAtNobody
<1> QED BY <1>1, <1>2

LEMMA TypeAtContentsNext == TypesByContents'
  BY TypeAtContents, PTL

\* Descriptors that hold the same page agree on its type.
Agreed == \A q \in Pages : \A d, e \in Contents : In(d, q) /\ In(e, q) => d.Type = e.Type

LEMMA MapsAgree ==
  ASSUME IndInv, phase # "failed"
  PROVE  Agreed
<1>1. MapTyped /\ Ordered
  BY Parts
<1>2. CASE phase = "memory"
  BY <1>2, Parts DEF Agreed, Contents, AllConventional
<1>3. CASE phase # "memory"
  <2>1. Disjoint
    BY <1>3, Parts
  <2> SUFFICES ASSUME NEW q \in Pages, NEW j \in Live, NEW k \in Live,
                      In(descriptors[j], q), In(descriptors[k], q)
               PROVE  descriptors[j].Type = descriptors[k].Type
    BY DEF Agreed, Contents
  <2>2. q \in Nat /\ Holds(j, q) /\ Holds(k, q)
    BY SizeAssumption DEF Pages, In, Holds, Start, End
  <2> QED BY <1>1, <2>1, <2>2, OneHolder
<1> QED BY <1>2, <1>3

SameTypes == \A q \in Pages : TypeAt(q)' = TypeAt(q)

LEMMA SameMapSameTypes ==
  ASSUME UNCHANGED mapVars
  PROVE  SameTypes
  BY Zenon DEF SameTypes, TypeAt, mapVars, Live, Holds, Start, End

\* The contents after each edit.
Others(i) == {descriptors[m] : m \in Live \ {i}}

LEMMA ReplaceContents ==
  ASSUME MapTyped, NEW i \in Live, NEW M \in Nat, NEW P \in Nat \ {0}, NEW t \in MemoryTypes,
         Start(i) <= M, M + P <= End(i),
         ReplaceFits(i, M, P), replace_range(i, M, P, t)
  PROVE  Contents' =
           Others(i) \cup {Span(t, M, M + P)}
           \cup (IF M > Start(i) THEN {Span(descriptors[i].Type, Start(i), M)} ELSE {})
           \cup (IF M + P < End(i) THEN {Span(descriptors[i].Type, M + P, End(i))} ELSE {})
<1> DEFINE pre == PrefixParts(i, M)
           suf == SuffixParts(i, M, P)
           before == Span(descriptors[i].Type, Start(i), M)
           middle == Span(t, M, M + P)
           after == Span(descriptors[i].Type, M + P, End(i))
<1>1. /\ i \in Nat /\ i >= 1 /\ i <= descriptor_count
      /\ descriptor_count \in Nat /\ descriptor_count <= Capacity /\ Capacity \in Nat
  BY LiveFacts, SizeAssumption
<1>2. /\ pre = IF M > Start(i) THEN 1 ELSE 0
      /\ suf = IF M + P < End(i) THEN 1 ELSE 0
      /\ descriptor_count + pre + suf <= Capacity
  BY DEF PrefixParts, SuffixParts, ReplaceFits
<1>3. /\ descriptor_count' = descriptor_count + (pre + suf)
      /\ descriptors' = [k \in Slots |->
          IF k < i THEN descriptors[k]
          ELSE IF k < i + pre THEN before
          ELSE IF k = i + pre THEN middle
          ELSE IF k <= i + (pre + suf) THEN after
          ELSE IF k <= descriptor_count + (pre + suf) THEN descriptors[k - (pre + suf)]
          ELSE EMPTY_DESCRIPTOR]
  BY Zenon DEF replace_range
<1> HIDE DEF pre, suf, before, middle, after
<1>4. pre \in {0, 1} /\ suf \in {0, 1} /\ (pre = 1 <=> M > Start(i))
      /\ (suf = 1 <=> M + P < End(i))
  BY <1>2
<1> DEFINE New == Others(i) \cup {middle} \cup (IF M > Start(i) THEN {before} ELSE {})
                  \cup (IF M + P < End(i) THEN {after} ELSE {})
<1>5. ASSUME NEW k \in Live'
      PROVE  descriptors'[k] \in New
  <2>1. k \in Slots /\ k \in Nat /\ k >= 1 /\ k <= descriptor_count + (pre + suf)
    BY <1>1, <1>2, <1>3, <1>4 DEF Slots, Live
  <2>2. CASE k < i
    <3>1. k \in Live \ {i} /\ descriptors'[k] = descriptors[k]
      BY <1>1, <1>3, <2>1, <2>2 DEF Live
    <3> QED BY <3>1 DEF Others
  <2>3. CASE k = i /\ pre = 1
    <3>1. descriptors'[k] = before
      BY <1>1, <1>3, <2>1, <2>3
    <3> QED BY <1>4, <2>3, <3>1
  <2>4. CASE k = i + pre
    <3>1. descriptors'[k] = middle
      BY <1>1, <1>3, <1>4, <2>1, <2>4
    <3> QED BY <3>1
  <2>5. CASE k = i + pre + 1 /\ suf = 1
    <3>1. descriptors'[k] = after
      BY <1>1, <1>3, <1>4, <2>1, <2>5
    <3> QED BY <1>4, <2>5, <3>1
  <2>6. CASE k > i + pre + suf
    <3> DEFINE m == k - (pre + suf)
    <3>1. m \in Live \ {i} /\ descriptors'[k] = descriptors[m]
      BY <1>1, <1>3, <1>4, <2>1, <2>6 DEF Live
    <3> QED BY <3>1 DEF Others
  <2> QED BY <1>1, <1>4, <2>1, <2>2, <2>3, <2>4, <2>5, <2>6
<1>6. ASSUME NEW m \in Live \ {i}
      PROVE  descriptors[m] \in Contents'
  <2>1. m \in Nat /\ m >= 1 /\ m <= descriptor_count /\ m # i
    BY LiveFacts
  <2>2. CASE m < i
    <3>1. m \in Live' /\ descriptors'[m] = descriptors[m]
      BY <1>1, <1>2, <1>3, <1>4, <2>1, <2>2 DEF Live, Slots
    <3> QED BY <3>1 DEF Contents
  <2>3. CASE m > i
    <3> DEFINE k == m + (pre + suf)
    <3>1. k \in Live' /\ descriptors'[k] = descriptors[k - (pre + suf)] /\ k - (pre + suf) = m
      BY <1>1, <1>2, <1>3, <1>4, <2>1, <2>3 DEF Live, Slots
    <3> QED BY <3>1 DEF Contents
  <2> QED BY <1>1, <2>1, <2>2, <2>3
<1>7. middle \in Contents'
  <2>1. i + pre \in Live' /\ descriptors'[i + pre] = middle
    BY <1>1, <1>2, <1>3, <1>4 DEF Live, Slots
  <2> QED BY <2>1 DEF Contents
<1>8. M > Start(i) => before \in Contents'
  <2>1. pre = 1 => i \in Live' /\ descriptors'[i] = before
    BY <1>1, <1>2, <1>3, <1>4 DEF Live, Slots
  <2> QED BY <1>4, <2>1 DEF Contents
<1>9. M + P < End(i) => after \in Contents'
  <2>1. suf = 1 => i + pre + 1 \in Live' /\ descriptors'[i + pre + 1] = after
    BY <1>1, <1>2, <1>3, <1>4 DEF Live, Slots
  <2> QED BY <1>4, <2>1 DEF Contents
<1>10. Contents' = New
  BY <1>5, <1>6, <1>7, <1>8, <1>9 DEF Contents, Others
<1> QED BY <1>10 DEF before, middle, after

LEMMA MergeContents ==
  ASSUME MapTyped, NEW n \in Nat, n >= 1, n < descriptor_count, merge_with_next(n)
  PROVE  Contents' = {descriptors[m] : m \in Live \ {n, n + 1}}
                     \cup {Span(descriptors[n].Type, Start(n), End(n + 1))}
<1> DEFINE d == Span(descriptors[n].Type, Start(n), End(n + 1))
<1>1. descriptor_count \in Nat /\ descriptor_count <= Capacity /\ Capacity \in Nat
  BY SizeAssumption DEF MapTyped
<1>2. /\ descriptor_count' = descriptor_count - 1
      /\ descriptors' = [k \in Slots |->
           IF k < n THEN descriptors[k]
           ELSE IF k = n THEN d
           ELSE IF k < descriptor_count THEN descriptors[k + 1]
           ELSE EMPTY_DESCRIPTOR]
  BY Zenon DEF merge_with_next
<1> HIDE DEF d
<1> DEFINE New == {descriptors[m] : m \in Live \ {n, n + 1}} \cup {d}
<1>3. ASSUME NEW k \in Live'
      PROVE  descriptors'[k] \in New
  <2>1. k \in Nat /\ k >= 1 /\ k < descriptor_count /\ k \in Slots
    BY <1>1, <1>2 DEF Live, Slots
  <2>2. CASE k < n
    <3>1. k \in Live \ {n, n + 1} /\ descriptors'[k] = descriptors[k]
      BY <1>1, <1>2, <2>1, <2>2 DEF Live
    <3> QED BY <3>1
  <2>3. CASE k = n
    <3>1. descriptors'[k] = d
      BY <1>2, <2>1, <2>3
    <3> QED BY <3>1
  <2>4. CASE k > n
    <3>1. k + 1 \in Live \ {n, n + 1} /\ descriptors'[k] = descriptors[k + 1]
      BY <1>1, <1>2, <2>1, <2>4 DEF Live
    <3> QED BY <3>1
  <2> QED BY <2>1, <2>2, <2>3, <2>4
<1>4. ASSUME NEW m \in Live \ {n, n + 1}
      PROVE  descriptors[m] \in Contents'
  <2>1. m \in Nat /\ m >= 1 /\ m <= descriptor_count /\ m # n /\ m # n + 1
    BY <1>1 DEF Live
  <2>2. CASE m < n
    <3>1. m \in Live' /\ descriptors'[m] = descriptors[m]
      BY <1>1, <1>2, <2>1, <2>2 DEF Live, Slots
    <3> QED BY <3>1 DEF Contents
  <2>3. CASE m > n + 1
    <3> DEFINE k == m - 1
    <3>1. k \in Live' /\ descriptors'[k] = descriptors[k + 1] /\ k + 1 = m
      BY <1>1, <1>2, <2>1, <2>3 DEF Live, Slots
    <3> QED BY <3>1 DEF Contents
  <2> QED BY <2>1, <2>2, <2>3
<1>5. d \in Contents'
  <2>1. n \in Live' /\ descriptors'[n] = d
    BY <1>1, <1>2 DEF Live, Slots
  <2> QED BY <2>1 DEF Contents
<1>6. Contents' = New
  BY <1>3, <1>4, <1>5 DEF Contents
<1> QED BY <1>6 DEF d

LEMMA InsertContents ==
  ASSUME MapTyped, descriptor_count < Capacity, NEW d,
         NEW p \in 1..(descriptor_count + 1), insert_descriptor(p, d)
  PROVE  Contents' = Contents \cup {d}
<1>1. /\ descriptor_count \in Nat /\ descriptor_count < Capacity /\ Capacity \in Nat
      /\ p \in Nat /\ p >= 1 /\ p <= descriptor_count + 1
  BY SizeAssumption DEF MapTyped
<1>2. /\ descriptor_count' = descriptor_count + 1
      /\ descriptors' = [k \in Slots |->
           IF k < p THEN descriptors[k]
           ELSE IF k = p THEN d
           ELSE IF k <= descriptor_count + 1 THEN descriptors[k - 1]
           ELSE EMPTY_DESCRIPTOR]
  BY Zenon DEF insert_descriptor
<1>3. ASSUME NEW k \in Live'
      PROVE  descriptors'[k] \in Contents \cup {d}
  <2>1. /\ k < p => k \in Live /\ descriptors'[k] = descriptors[k]
        /\ k = p => descriptors'[k] = d
        /\ k > p => k - 1 \in Live /\ descriptors'[k] = descriptors[k - 1]
        /\ k < p \/ k = p \/ k > p
    BY <1>1, <1>2 DEF Live, Slots
  <2> QED BY <2>1 DEF Contents
<1>4. ASSUME NEW m \in Live
      PROVE  descriptors[m] \in Contents'
  <2>1. m \in Nat /\ m >= 1 /\ m <= descriptor_count
    BY <1>1 DEF Live
  <2>2. CASE m < p
    <3>1. m \in Live' /\ descriptors'[m] = descriptors[m]
      BY <1>1, <1>2, <2>1, <2>2 DEF Live, Slots
    <3> QED BY <3>1 DEF Contents
  <2>3. CASE m >= p
    <3> DEFINE k == m + 1
    <3>1. k \in Live' /\ descriptors'[k] = descriptors[k - 1] /\ k - 1 = m
      BY <1>1, <1>2, <2>1, <2>3 DEF Live, Slots
    <3> QED BY <3>1 DEF Contents
  <2> QED BY <1>1, <2>1, <2>2, <2>3
<1>5. d \in Contents'
  <2>1. p \in Live' /\ descriptors'[p] = d
    BY <1>1, <1>2 DEF Live, Slots
  <2> QED BY <2>1 DEF Contents
<1> QED BY <1>3, <1>4, <1>5 DEF Contents

-----------------------------------------------------------------------------
(* The types of the pages after each edit. *)

LEMMA ContentsFacts ==
  ASSUME MapTyped, Ordered, NEW i \in Live, NEW q
  PROVE  /\ descriptors[i] \in Contents
         /\ In(descriptors[i], q) <=> Start(i) <= q /\ q < End(i)
         /\ Start(i) \in Nat /\ End(i) \in Nat /\ Start(i) < End(i) /\ End(i) <= TopPage
  BY LiveFacts DEF Contents, In, Start, End, Ordered, Descriptor

LEMMA SpanIn ==
  ASSUME NEW t, NEW a \in Nat, NEW b \in Nat, NEW q \in Nat
  PROVE  Span(t, a, b).Type = t /\ (In(Span(t, a, b), q) <=> a <= q /\ q < b)
  BY DEF Span, In

\* replace_range retypes the pages it is told to, which all had one type, and
\* no others.
LEMMA ReplaceTypes ==
  ASSUME MapTyped, Ordered, Disjoint, Agreed,
         NEW i \in Live, NEW M \in Nat, NEW P \in Nat \ {0}, NEW t \in MemoryTypes,
         Start(i) <= M, M + P <= End(i),
         ReplaceFits(i, M, P), replace_range(i, M, P, t)
  PROVE  /\ M \in Pages /\ M + P - 1 \in Pages
         /\ \A q \in M..(M + P - 1) : q \in Pages /\ TypeAt(q) = descriptors[i].Type
         /\ \A q \in Pages : TypeAt(q)' = IF q \in M..(M + P - 1) THEN t ELSE TypeAt(q)
<1> DEFINE d == descriptors[i]
           before == Span(d.Type, Start(i), M)
           middle == Span(t, M, M + P)
           after == Span(d.Type, M + P, End(i))
<1>1. /\ Start(i) \in Nat /\ End(i) \in Nat /\ Start(i) < End(i) /\ End(i) <= TopPage
      /\ d \in Contents /\ \A q : In(d, q) <=> Start(i) <= q /\ q < End(i)
  BY ContentsFacts
<1>2. Contents' = Others(i) \cup {middle} \cup (IF M > Start(i) THEN {before} ELSE {})
                  \cup (IF M + P < End(i) THEN {after} ELSE {})
  BY ReplaceContents
<1>3. ASSUME NEW q \in Nat
      PROVE  /\ middle.Type = t /\ (In(middle, q) <=> M <= q /\ q < M + P)
             /\ before.Type = d.Type /\ (In(before, q) <=> Start(i) <= q /\ q < M)
             /\ after.Type = d.Type /\ (In(after, q) <=> M + P <= q /\ q < End(i))
  <2>1. M + P \in Nat
    OBVIOUS
  <2> QED BY <1>1, <2>1, SpanIn
<1> HIDE DEF before, middle, after
<1>4. ASSUME NEW q \in Nat, In(d, q), NEW e \in Others(i)
      PROVE  ~In(e, q)
  <2>1. PICK m \in Live \ {i} : e = descriptors[m]
    BY DEF Others
  <2>2. In(e, q) => Holds(m, q)
    BY <2>1 DEF In, Holds, Start, End
  <2>3. Holds(i, q)
    BY <1>1, <1>4 DEF Holds
  <2> QED BY <2>1, <2>2, <2>3, OneHolder
<1>5. ASSUME NEW q \in Pages, In(d, q)
      PROVE  TypeAt(q) = d.Type
  BY <1>1, <1>5, TypeAtContents DEF TypesByContents, Agreed
<1>6. \A q \in Pages : q \in Nat
  BY SizeAssumption DEF Pages
<1>7. /\ M \in Pages /\ M + P - 1 \in Pages
      /\ \A q \in M..(M + P - 1) : q \in Pages /\ In(d, q)
  BY <1>1, SizeAssumption DEF Pages
<1>8. ASSUME NEW q \in Pages
      PROVE  TypeAt(q)' = IF q \in M..(M + P - 1) THEN t ELSE TypeAt(q)
  <2>0. q \in Nat
    BY <1>6
  <2>1. CASE q \in M..(M + P - 1)
    <3>1. middle \in Contents' /\ In(middle, q) /\ middle.Type = t
      BY <1>2, <1>3, <2>0, <2>1
    <3>2. ASSUME NEW e \in Contents', In(e, q)
          PROVE  e = middle
      <4>1. e \notin Others(i)
        BY <1>4, <1>7, <2>0, <2>1, <3>2
      <4>2. ~In(before, q) /\ ~In(after, q)
        BY <1>1, <1>3, <2>0, <2>1
      <4> QED BY <1>2, <3>2, <4>1, <4>2
    <3>3. TypeAt(q)' = t
      BY <3>1, <3>2, TypeAtContentsNext DEF TypesByContents
    <3> QED BY <2>1, <3>3
  <2>2. CASE q \notin M..(M + P - 1) /\ In(d, q)
    <3>1. \E e \in {before, after} : e \in Contents' /\ In(e, q) /\ e.Type = d.Type
      <4>1. CASE q < M
        <5>1. M > Start(i) /\ In(before, q)
          BY <1>1, <1>3, <2>0, <2>2, <4>1
        <5> QED BY <1>2, <1>3, <2>0, <5>1
      <4>2. CASE q >= M + P
        <5>1. M + P < End(i) /\ In(after, q)
          BY <1>1, <1>3, <2>0, <2>2, <4>2
        <5> QED BY <1>2, <1>3, <2>0, <5>1
      <4> QED BY <2>0, <2>2, <4>1, <4>2
    <3>2. ASSUME NEW e \in Contents', In(e, q)
          PROVE  e.Type = d.Type
      <4>1. e \notin Others(i)
        BY <1>4, <2>0, <2>2, <3>2
      <4>2. ~In(middle, q)
        BY <1>3, <2>0, <2>2
      <4>3. e = before \/ e = after
        BY <1>2, <3>2, <4>1, <4>2
      <4> QED BY <1>3, <2>0, <4>3
    <3>3. TypeAt(q)' = d.Type
      BY <3>1, <3>2, TypeAtContentsNext DEF TypesByContents
    <3> QED BY <1>5, <2>2, <3>3
  <2>3. CASE ~In(d, q)
    <3>1. ~In(before, q) /\ ~In(middle, q) /\ ~In(after, q)
      BY <1>1, <1>3, <2>0, <2>3
    <3>2. \A e : In(e, q) => (e \in Contents' <=> e \in Contents)
      BY <1>2, <2>3, <3>1 DEF Contents, Others
    <3>3. TypeAt(q)' = TypeAt(q)
      <4>1. CASE \E e \in Contents : In(e, q)
        <5>1. PICK e \in Contents : In(e, q)
          BY <4>1
        <5>2. \A f \in Contents : In(f, q) => f.Type = e.Type
          BY <5>1 DEF Agreed
        <5>3. TypeAt(q) = e.Type
          BY <5>1, <5>2, TypeAtContents DEF TypesByContents
        <5>4. e \in Contents' /\ \A f \in Contents' : In(f, q) => f.Type = e.Type
          BY <3>2, <5>1, <5>2
        <5>5. TypeAt(q)' = e.Type
          BY <5>1, <5>4, TypeAtContentsNext DEF TypesByContents
        <5> QED BY <5>3, <5>5
      <4>2. CASE \A e \in Contents : ~In(e, q)
        <5>1. \A e \in Contents' : ~In(e, q)
          BY <3>2, <4>2
        <5> QED BY <4>2, <5>1, TypeAtContents, TypeAtContentsNext DEF TypesByContents
      <4> QED BY <4>1, <4>2
    <3>4. q \notin M..(M + P - 1)
      BY <1>7, <2>3
    <3> QED BY <3>3, <3>4
  <2> QED BY <2>1, <2>2, <2>3
<1> QED BY <1>5, <1>7, <1>8

\* A merge of two descriptors of one type, of which the second ends last,
\* changes no page.
LEMMA MergeTypes ==
  ASSUME MapTyped, Ordered, Agreed, NEW n \in Nat, n >= 1, n < descriptor_count,
         descriptors_are_compatible(n, n + 1), End(n) <= End(n + 1),
         merge_with_next(n)
  PROVE  SameTypes
<1> DEFINE d == Span(descriptors[n].Type, Start(n), End(n + 1))
           Rest == {descriptors[m] : m \in Live \ {n, n + 1}}
<1>1. n \in Live /\ n + 1 \in Live
  BY SizeAssumption DEF MapTyped, Live
<1>2. /\ Start(n) \in Nat /\ End(n) \in Nat /\ Start(n + 1) \in Nat /\ End(n + 1) \in Nat
      /\ Start(n) < End(n) /\ Start(n + 1) < End(n + 1)
      /\ \A q : In(descriptors[n], q) <=> Start(n) <= q /\ q < End(n)
      /\ \A q : In(descriptors[n + 1], q) <=> Start(n + 1) <= q /\ q < End(n + 1)
  BY <1>1, ContentsFacts
<1>3. /\ Start(n) <= Start(n + 1) /\ Start(n + 1) <= End(n)
      /\ descriptors[n + 1].Type = descriptors[n].Type
  BY <1>1 DEF Ordered, descriptors_are_compatible
<1>4. Contents' = Rest \cup {d} /\ Contents = Rest \cup {descriptors[n], descriptors[n + 1]}
  BY <1>1, MergeContents DEF Contents
<1>5. ASSUME NEW q \in Nat
      PROVE  /\ d.Type = descriptors[n].Type
             /\ In(d, q) <=> In(descriptors[n], q) \/ In(descriptors[n + 1], q)
  BY <1>2, <1>3, SpanIn
<1> HIDE DEF d, Rest
<1>6. ASSUME NEW q \in Pages
      PROVE  TypeAt(q)' = TypeAt(q)
  <2>1. q \in Nat
    BY SizeAssumption DEF Pages
  <2>2. CASE \E e \in Contents : In(e, q)
    <3>1. PICK e \in Contents : In(e, q)
      BY <2>2
    <3>2. \A f \in Contents : In(f, q) => f.Type = e.Type
      BY <3>1 DEF Agreed
    <3>3. TypeAt(q) = e.Type
      BY <3>1, <3>2, TypeAtContents DEF TypesByContents
    <3>4. \A f \in Contents' : In(f, q) => f.Type = e.Type
      BY <1>3, <1>4, <1>5, <2>1, <3>2
    <3>5. \E f \in Contents' : In(f, q) /\ f.Type = e.Type
      BY <1>3, <1>4, <1>5, <2>1, <3>1
    <3>6. TypeAt(q)' = e.Type
      BY <3>4, <3>5, TypeAtContentsNext DEF TypesByContents
    <3> QED BY <3>3, <3>6
  <2>3. CASE \A e \in Contents : ~In(e, q)
    <3>1. \A e \in Contents' : ~In(e, q)
      BY <1>4, <1>5, <2>1, <2>3
    <3> QED BY <2>3, <3>1, TypeAtContents, TypeAtContentsNext DEF TypesByContents
  <2> QED BY <2>2, <2>3
<1> QED BY <1>6 DEF SameTypes

\* insert_sorted makes the pages of the new region free RAM.
LEMMA InsertTypes ==
  ASSUME MapTyped, AllConventional, descriptor_count < Capacity,
         NEW a \in Nat, NEW b \in Nat, a < b, b <= TopPage,
         NEW p \in 1..(descriptor_count + 1),
         insert_descriptor(p, Span(Conventional, a, b))
  PROVE  /\ a \in Pages /\ b - 1 \in Pages
         /\ \A q \in a..(b - 1) : q \in Pages
         /\ \A q \in Pages : TypeAt(q) \in {"none", Conventional}
         /\ \A q \in Pages :
              TypeAt(q)' = IF q \in a..(b - 1) THEN Conventional ELSE TypeAt(q)
<1> DEFINE d == Span(Conventional, a, b)
<1>1. Contents' = Contents \cup {d}
  BY InsertContents
<1>2. ASSUME NEW q \in Nat
      PROVE  d.Type = Conventional /\ (In(d, q) <=> a <= q /\ q < b)
  BY SpanIn
<1>3. \A e \in Contents : e.Type = Conventional
  BY DEF Contents, AllConventional
<1> HIDE DEF d
<1>4. /\ a \in Pages /\ b - 1 \in Pages
      /\ \A q \in a..(b - 1) : q \in Pages
  BY SizeAssumption DEF Pages
<1>5. ASSUME NEW q \in Pages
      PROVE  /\ TypeAt(q) \in {"none", Conventional}
             /\ TypeAt(q)' = IF q \in a..(b - 1) THEN Conventional ELSE TypeAt(q)
  <2>1. q \in Nat
    BY SizeAssumption DEF Pages
  <2>2. TypeAt(q) = IF \E e \in Contents : In(e, q) THEN Conventional ELSE "none"
    BY <1>3, TypeAtContents DEF TypesByContents
  <2>3. TypeAt(q)' = IF \E e \in Contents' : In(e, q) THEN Conventional ELSE "none"
    <3>1. \A e \in Contents' : e.Type = Conventional
      BY <1>1, <1>2, <1>3, <2>1
    <3> QED BY <3>1, TypeAtContentsNext DEF TypesByContents
  <2>4. (\E e \in Contents' : In(e, q)) <=> (\E e \in Contents : In(e, q)) \/ q \in a..(b - 1)
    BY <1>1, <1>2, <2>1
  <2> QED BY <2>2, <2>3, <2>4
<1> QED BY <1>4, <1>5

-----------------------------------------------------------------------------
(* RAM.  A merge ends where the second descriptor ends, so it keeps all pages *)
(* only if no /memory region lies inside another one.                        *)

\* The whole pages of a /memory region.
RamStart(r) == RegionStart(r, FALSE)
RamEnd(r) == RegionEnd(r, FALSE)

WholePages(f) ==
  {r \in Elements(f.memory) : RamStart(r) < RamEnd(r)}

\* No /memory region of a device tree lies inside another one.
NoNestedRam ==
  \A f \in Fdts : \A a, b \in WholePages(f) :
    RamStart(a) <= RamStart(b) =>
      RamEnd(a) <= RamEnd(b)

EndsOrdered == \A i, j \in Live : i < j => End(i) <= End(j)

\* While the regions are collected each descriptor is one of them.
FromRegions ==
  \A i \in Live : \E r \in WholePages(fdt) :
    Start(i) = RamStart(r) /\ End(i) = RamEnd(r)

RamEnds ==
  phase = "memory" => EndsOrdered /\ (loop = "none" => FromRegions)

LEMMA InsertEnds ==
  ASSUME MapTyped, descriptor_count < Capacity,
         EndsOrdered, FromRegions, Ordered, UNCHANGED fdt,
         NEW a \in Nat, NEW b \in Nat,
         \E r \in WholePages(fdt) : a = RamStart(r) /\ b = RamEnd(r),
         \A s \in WholePages(fdt) :
           /\ RamStart(s) <= a => RamEnd(s) <= b
           /\ a <= RamStart(s) => b <= RamEnd(s),
         NEW p \in 1..(descriptor_count + 1), InsertPosition(p, a),
         insert_descriptor(p, Span(Conventional, a, b))
  PROVE  EndsOrdered' /\ FromRegions'
<1> DEFINE d == Span(Conventional, a, b)
<1>1. /\ descriptor_count \in Nat /\ descriptor_count < Capacity /\ Capacity \in Nat
      /\ p \in Nat /\ p >= 1 /\ p <= descriptor_count + 1
  BY SizeAssumption DEF MapTyped
<1>2. d.PhysicalStart = a /\ d.PhysicalStart + d.NumberOfPages = b
  BY DEF Span
<1>3. /\ descriptor_count' = descriptor_count + 1
      /\ descriptors' = [k \in Slots |->
           IF k < p THEN descriptors[k]
           ELSE IF k = p THEN d
           ELSE IF k <= descriptor_count + 1 THEN descriptors[k - 1]
           ELSE EMPTY_DESCRIPTOR]
  BY Zenon DEF insert_descriptor
<1> HIDE DEF d
<1>4. ASSUME NEW k \in Live'
      PROVE  /\ k \in Nat /\ k >= 1 /\ k <= descriptor_count + 1
             /\ k < p => k \in Live /\ Start(k)' = Start(k) /\ End(k)' = End(k)
             /\ k = p => Start(k)' = a /\ End(k)' = b
             /\ k > p => k - 1 \in Live /\ Start(k)' = Start(k - 1) /\ End(k)' = End(k - 1)
  <2>1. /\ k \in Nat /\ k >= 1 /\ k <= descriptor_count + 1
        /\ k < p => k \in Live /\ descriptors'[k] = descriptors[k]
        /\ k = p => descriptors'[k] = d
        /\ k > p => k - 1 \in Live /\ descriptors'[k] = descriptors[k - 1]
    BY <1>1, <1>3 DEF Live, Slots
  <2> QED BY <1>2, <2>1 DEF Start, End
<1>5. \A k \in Live : k \in Nat /\ k >= 1 /\ k <= descriptor_count
                      /\ Start(k) \in Nat /\ End(k) \in Nat
  BY LiveFacts
<1>6. ASSUME NEW k \in Live
      PROVE  (k < p => End(k) <= b) /\ (k >= p => b <= End(k))
  <2>1. PICK s \in WholePages(fdt) :
          Start(k) = RamStart(s) /\ End(k) = RamEnd(s)
    BY DEF FromRegions
  <2>2. /\ Start(k) <= a => End(k) <= b
        /\ a <= Start(k) => b <= End(k)
    BY <2>1
  <2>3. k < p => Start(k) <= a
    BY <1>1, <1>5 DEF InsertPosition
  <2>4. k >= p => a <= Start(k)
    <3> SUFFICES ASSUME k >= p PROVE a <= Start(k)
      OBVIOUS
    <3>1. p \in Live /\ Start(p) > a
      BY <1>1, <1>5 DEF InsertPosition, Live
    <3>2. p = k \/ Start(p) <= Start(k)
      BY <1>1, <1>5, <3>1 DEF Ordered
    <3> QED BY <1>5, <3>1, <3>2
  <2> QED BY <2>2, <2>3, <2>4
<1>7. ASSUME NEW j \in Live', NEW k \in Live', j < k
      PROVE  End(j)' <= End(k)'
  <2>1. CASE k < p \/ j > p
    BY <1>1, <1>4, <1>5, <1>7, <2>1 DEF EndsOrdered
  <2>2. CASE k = p \/ j = p
    BY <1>1, <1>4, <1>5, <1>6, <1>7, <2>2
  <2>3. CASE j < p /\ k > p
    BY <1>1, <1>4, <1>5, <1>6, <1>7, <2>3
  <2> QED BY <1>1, <1>4, <2>1, <2>2, <2>3
<1>8. ASSUME NEW k \in Live'
      PROVE  \E s \in WholePages(fdt) :
               Start(k)' = RamStart(s) /\ End(k)' = RamEnd(s)
  BY <1>1, <1>4 DEF FromRegions
<1>9. FromRegions'
  BY <1>8 DEF FromRegions, WholePages, Elements
<1> QED BY <1>7, <1>9 DEF EndsOrdered

LEMMA MergeEnds ==
  ASSUME MapTyped, EndsOrdered, NEW n \in Nat, n >= 1, n < descriptor_count,
         merge_with_next(n)
  PROVE  EndsOrdered'
<1> DEFINE d == Span(descriptors[n].Type, Start(n), End(n + 1))
<1>1. /\ descriptor_count \in Nat /\ descriptor_count <= Capacity /\ Capacity \in Nat
      /\ n \in Live /\ n + 1 \in Live
  BY SizeAssumption DEF MapTyped, Live
<1>2. \A k \in Live : k \in Nat /\ Start(k) \in Nat /\ End(k) \in Nat
  BY LiveFacts
<1>3. d.PhysicalStart + d.NumberOfPages = End(n + 1)
  BY <1>1, <1>2 DEF Span
<1>4. /\ descriptor_count' = descriptor_count - 1
      /\ descriptors' = [k \in Slots |->
           IF k < n THEN descriptors[k]
           ELSE IF k = n THEN d
           ELSE IF k < descriptor_count THEN descriptors[k + 1]
           ELSE EMPTY_DESCRIPTOR]
  BY Zenon DEF merge_with_next
<1> HIDE DEF d
<1>5. ASSUME NEW k \in Live'
      PROVE  /\ k \in Nat
             /\ k < n => k \in Live /\ End(k)' = End(k)
             /\ k >= n => k + 1 \in Live /\ End(k)' = End(k + 1)
  <2>1. /\ k \in Nat
        /\ k < n => k \in Live /\ descriptors'[k] = descriptors[k]
        /\ k = n => descriptors'[k] = d
        /\ k > n => k + 1 \in Live /\ descriptors'[k] = descriptors[k + 1]
    BY <1>1, <1>4 DEF Live, Slots
  <2> QED BY <1>1, <1>3, <2>1 DEF End
<1>6. ASSUME NEW j \in Live', NEW k \in Live', j < k
      PROVE  End(j)' <= End(k)'
  BY <1>1, <1>2, <1>5, <1>6 DEF EndsOrdered
<1> QED BY <1>6 DEF EndsOrdered

LEMMA SameMapEnds ==
  ASSUME UNCHANGED <<fdt, mapVars>>
  PROVE  (EndsOrdered => EndsOrdered') /\ (FromRegions => FromRegions')
  BY DEF mapVars, EndsOrdered, FromRegions, Live, Start, End

\* The facts of add_memory_region's successful branch.
Insertion(p, a, b) ==
  /\ descriptor_count < Capacity /\ InsertPosition(p, a)
  /\ insert_descriptor(p, Span(Conventional, a, b))
  /\ UNCHANGED <<fdt, phase, loop>>

LEMMA AddMemoryRegionShape ==
  ASSUME IndInv, add_memory_region
  PROVE  \/ UNCHANGED <<fdt, mapVars>> /\ loop = "none" /\ loop' = "none" /\ phase' # "ready"
         \/ \E p \in 1..(descriptor_count + 1), r \in WholePages(fdt), a, b \in Nat :
              /\ a = RamStart(r) /\ b = RamEnd(r)
              /\ a < b /\ b <= TopPage /\ Insertion(p, a, b)
<1> DEFINE r == fdt.memory[region]
           first == RamStart(r)
           last == RamEnd(r)
<1>1. phase = "memory" /\ loop = "none" /\ region <= ListLength
  BY DEF add_memory_region
<1>2. r \in Region
  BY <1>1, FdtTyped DEF IndInv
<1>3. CASE Fail("AddressOverflow") \/ Fail("BufferTooSmall") \/ RegionDone
  BY <1>1, <1>3 DEF Fail, RegionDone
<1>4. ASSUME ~RegionOverflows(r, FALSE), first < last, descriptor_count < Capacity,
             NEW p \in 1..(descriptor_count + 1),
             InsertPosition(p, first),
             insert_descriptor(p, Span(Conventional, first, last)),
             UNCHANGED <<fdt, phase, loop>>
      PROVE  \E pp \in 1..(descriptor_count + 1), rr \in WholePages(fdt), a, b \in Nat :
               /\ a = RamStart(rr) /\ b = RamEnd(rr)
               /\ a < b /\ b <= TopPage /\ Insertion(pp, a, b)
  <2>1. first \in Nat /\ last \in 0..TopPage
    BY <1>2, <1>4, RegionPages, Zenon DEF RamStart, RamEnd
  <2>2. r \in Elements(fdt.memory)
    <3>1. fdt.memory \in Seq(Region) /\ region \in Nat \ {0}
      BY InputAssumption DEF IndInv, TypeOK, Fdt
    <3>2. ListLength = Shorter(Len(fdt.memory), MaxMemoryRegions)
      BY <1>1 DEF ListLength
    <3>3. region \in 1..Len(fdt.memory)
      BY <1>1, <3>1, <3>2, SizeAssumption DEF Shorter
    <3>4. region \in DOMAIN fdt.memory
      BY <3>1, <3>3
    <3> QED BY <3>4 DEF Elements
  <2>3. r \in WholePages(fdt)
    BY <1>4, <2>2 DEF WholePages
  <2>4. Insertion(p, first, last)
    BY <1>4, Zenon DEF Insertion
  <2> HIDE DEF first, last
  <2>5. last \in Nat /\ last <= TopPage
    BY <2>1, SizeAssumption
  <2> QED BY <1>4, <2>1, <2>3, <2>4, <2>5, Zenon DEF first, last
<1> QED BY <1>3, <1>4, Zenon DEF add_memory_region, RamStart, RamEnd

LEMMA RamEndsStep ==
  ASSUME NoNestedRam, IndInv, RamEnds, [Next]_vars
  PROVE  RamEnds'
<1>0. fdt \in Fdts /\ MapTyped /\ Ordered
  BY Parts DEF IndInv, TypeOK
<1>1. CASE phase' # "memory"
  BY <1>1 DEF RamEnds
<1>2. CASE UNCHANGED <<fdt, phase, mapVars>> /\ (loop' = "none" => loop = "none")
  BY <1>2, SameMapEnds DEF RamEnds
<1>3. CASE add_memory_region
  <2>1. phase = "memory" /\ loop = "none"
    BY <1>3 DEF add_memory_region
  <2>2. EndsOrdered /\ FromRegions
    BY <2>1 DEF RamEnds
  <2>3. CASE UNCHANGED <<fdt, mapVars>>
    BY <2>2, <2>3, SameMapEnds DEF RamEnds
  <2>4. ASSUME NEW p \in 1..(descriptor_count + 1), NEW r \in WholePages(fdt),
               NEW a \in Nat, NEW b \in Nat,
               a = RamStart(r), b = RamEnd(r), Insertion(p, a, b)
        PROVE  RamEnds'
    <3>1. /\ \E x \in WholePages(fdt) : a = RamStart(x) /\ b = RamEnd(x)
          /\ \A s \in WholePages(fdt) :
               /\ RamStart(s) <= a => RamEnd(s) <= b
               /\ a <= RamStart(s) => b <= RamEnd(s)
      BY <1>0, <2>4, Zenon DEF NoNestedRam
    <3>2. descriptor_count < Capacity /\ UNCHANGED fdt /\ InsertPosition(p, a)
          /\ insert_descriptor(p, Span(Conventional, a, b))
      BY <2>4 DEF Insertion
    <3>3. EndsOrdered' /\ FromRegions'
      BY <1>0, <2>2, <3>1, <3>2, InsertEnds, Zenon
    <3> QED BY <3>3 DEF RamEnds
  <2> QED BY <1>3, <2>3, <2>4, AddMemoryRegionShape
<1>4. CASE \/ reserve_original_fdt \/ add_reserved_region
           \/ add_static_reserved_region \/ add_firmware_region
  <2>1. phase' # "memory"
    BY <1>4 DEF reserve_original_fdt, add_reserved_region, add_static_reserved_region,
       add_firmware_region, add_reserved_region_with_type, BeginCarve, Fail, RegionDone
  <2> QED BY <1>1, <2>1
<1>5. CASE end_of_list
  BY <1>1, <1>2, <1>5 DEF end_of_list
<1>6. CASE carve_iteration \/ carve_exit
  <2>1. phase # "memory"
    BY <1>6 DEF carve_iteration, carve_exit, IndInv, ControlSound
  <2>2. phase' # "memory"
    BY <1>6, <2>1 DEF carve_iteration, carve_exit, Fail, RegionDone
  <2> QED BY <1>1, <2>2
<1>7. CASE coalesce_iteration
  <2>1. loop = "coalesce" /\ UNCHANGED <<fdt, phase, loop>> /\ index < descriptor_count
    BY <1>7 DEF coalesce_iteration
  <2>2. CASE UNCHANGED mapVars
    BY <1>2, <2>1, <2>2
  <2>3. CASE merge_with_next(index) /\ phase = "memory"
    <3>1. index \in Nat /\ index >= 1 /\ EndsOrdered
      BY <2>3, SizeAssumption DEF IndInv, TypeOK, RamEnds
    <3>2. EndsOrdered'
      BY <1>0, <2>1, <2>3, <3>1, MergeEnds
    <3> QED BY <2>1, <3>2 DEF RamEnds
  <2>4. CASE phase # "memory"
    BY <1>1, <2>1, <2>4
  <2> QED BY <1>7, <2>2, <2>3, <2>4 DEF coalesce_iteration
<1>8. CASE coalesce_exit
  <2>1. phase' # "memory"
    BY <1>8 DEF coalesce_exit, IndInv, ControlSound
  <2> QED BY <1>1, <2>1
<1>9. CASE Call
  <2>1. phase' = phase /\ phase = "ready"
    BY <1>9, CallEdits DEF Call, Ready, Untouched, Edits, Edit
  <2> QED BY <1>1, <2>1
<1>10. CASE UNCHANGED vars
  BY <1>2, <1>10 DEF vars, mapVars
<1> QED BY <1>3, <1>4, <1>5, <1>6, <1>7, <1>8, <1>9, <1>10
        DEF Next, Construct, Loop, NoAllocator

-----------------------------------------------------------------------------
(* The refinement of PageMap. *)

AbstractTypes == [q \in Pages |-> TypeAt(q)]

\* A step that changes no type and does not finish construction is invisible.
LEMMA Stutters ==
  ASSUME SameTypes, phase' = "ready" <=> phase = "ready"
  PROVE  UNCHANGED PageMapOf!vars
<1>1. AbstractTypes' = AbstractTypes
  BY DEF SameTypes, AbstractTypes
<1>2. (phase = "ready")' = (phase = "ready")
  BY Zenon
<1> QED BY <1>1, <1>2, Zenon DEF PageMapOf!vars, AbstractTypes

LEMMA Retypes ==
  ASSUME NEW first \in Pages, NEW last \in Pages, NEW t,
         \A q \in Pages : TypeAt(q)' = IF q \in first..last THEN t ELSE TypeAt(q)
  PROVE  PageMapOf!Retype(first..last, t)
  BY Zenon DEF PageMapOf!Retype

LEMMA EditIsAStep ==
  ASSUME IndInv, phase # "memory", phase # "failed",
         NEW i \in Live, NEW M \in Nat, NEW P \in Nat \ {0}, NEW t \in MemoryTypes,
         Start(i) <= M, M + P <= End(i), ReplaceFits(i, M, P), replace_range(i, M, P, t),
         UNCHANGED phase,
         \/ phase # "ready" /\ descriptors[i].Type \in {Conventional, Reserved}
         \/ phase = "ready" /\ GivesAway(i)
         \/ phase = "ready" /\ TakesBack(i, t)
  PROVE  PageMapOf!Next
<1> DEFINE last == M + P - 1
<1>1. MapTyped /\ Ordered /\ Disjoint /\ Agreed
  BY Parts, MapsAgree
<1>2. /\ M \in Pages /\ last \in Pages
      /\ \A q \in M..last : q \in Pages /\ TypeAt(q) = descriptors[i].Type
      /\ \A q \in Pages : TypeAt(q)' = IF q \in M..last THEN t ELSE TypeAt(q)
  BY <1>1, ReplaceTypes
<1>3. M <= last /\ descriptors[i].Type \in MemoryTypes
  BY <1>1, LiveFacts
<1> HIDE DEF last
<1>4. PageMapOf!Retype(M..last, t)
  BY <1>2, Retypes
<1>5. \A q \in M..last : AbstractTypes[q] = descriptors[i].Type
  BY <1>2 DEF AbstractTypes
<1>6. CASE phase # "ready" /\ descriptors[i].Type \in {Conventional, Reserved}
  <2>1. PageMapOf!Claim(M, last, t)
    BY <1>4, <1>5, <1>6, Zenon DEF PageMapOf!Claim, AbstractTypes
  <2> QED BY <1>2, <1>3, <2>1, Zenon DEF PageMapOf!Next
<1>7. CASE phase = "ready" /\ GivesAway(i)
  <2>1. PageMapOf!Allocate(M, last, t)
    BY <1>4, <1>5, <1>7, Zenon DEF PageMapOf!Allocate, AbstractTypes, GivesAway
  <2> QED BY <1>2, <1>3, <2>1, Zenon DEF PageMapOf!Next
<1>8. CASE phase = "ready" /\ TakesBack(i, t)
  <2>1. PageMapOf!Free(M, last)
    BY <1>3, <1>4, <1>5, <1>8, Zenon DEF PageMapOf!Free, AbstractTypes, TakesBack
  <2> QED BY <1>2, <1>3, <2>1, Zenon DEF PageMapOf!Next
<1> QED BY <1>6, <1>7, <1>8

LEMMA InsertionIsAStep ==
  ASSUME IndInv, phase = "memory", NEW p \in 1..(descriptor_count + 1),
         NEW a \in Nat, NEW b \in Nat, a < b, b <= TopPage, Insertion(p, a, b)
  PROVE  PageMapOf!Next
<1> DEFINE last == b - 1
<1>1. MapTyped /\ AllConventional
  BY Parts
<1>2. /\ descriptor_count < Capacity /\ UNCHANGED phase
      /\ insert_descriptor(p, Span(Conventional, a, b))
  BY DEF Insertion
<1>3. /\ a \in Pages /\ last \in Pages
      /\ \A q \in a..last : q \in Pages
      /\ \A q \in Pages : TypeAt(q) \in {"none", Conventional}
      /\ \A q \in Pages : TypeAt(q)' = IF q \in a..last THEN Conventional ELSE TypeAt(q)
  BY <1>1, <1>2, InsertTypes
<1>4. a <= last
  OBVIOUS
<1> HIDE DEF last
<1>5. PageMapOf!Retype(a..last, Conventional)
  BY <1>3, Retypes
<1>6. \A q \in a..last : AbstractTypes[q] \in {"none", Conventional}
  BY <1>3 DEF AbstractTypes
<1>7. phase # "ready"
  OBVIOUS
<1>8. PageMapOf!Discover(a, last)
  BY <1>2, <1>5, <1>6, <1>7, Zenon DEF PageMapOf!Discover, AbstractTypes
<1> QED BY <1>3, <1>4, <1>8, Zenon DEF PageMapOf!Next

\* coalesce changes no page's type, in the RAM list or later.
LEMMA CoalesceKeepsTypes ==
  ASSUME IndInv, RamEnds, coalesce_iteration
  PROVE  SameTypes
<1>0. MapTyped /\ Ordered
  BY Parts
<1>1. index < descriptor_count /\ phase \in {"memory", "fdt", "firmware", "ready"}
  BY DEF coalesce_iteration, IndInv, ControlSound
<1>2. index \in Nat /\ index >= 1 /\ index \in Live /\ index + 1 \in Live
  BY <1>1, SizeAssumption DEF IndInv, TypeOK, Live
<1>3. CASE UNCHANGED mapVars
  BY <1>3, SameMapSameTypes
<1>4. CASE descriptors_are_compatible(index, index + 1) /\ merge_with_next(index)
  <2>1. Agreed
    BY <1>1, MapsAgree
  <2>2. End(index) <= End(index + 1)
    <3>1. CASE phase = "memory"
      BY <1>2, <3>1 DEF RamEnds, EndsOrdered
    <3>2. CASE phase # "memory"
      <4>1. End(index) <= Start(index + 1)
        BY <1>1, <1>2, <3>2, Parts DEF Disjoint
      <4> QED BY <1>0, <1>2, <4>1, ContentsFacts
    <3> QED BY <3>1, <3>2
  <2> QED BY <1>0, <1>1, <1>2, <1>4, <2>1, <2>2, MergeTypes
<1> QED BY <1>3, <1>4 DEF coalesce_iteration

LEMMA RefinementStep ==
  ASSUME IndInv, RamEnds, [Next]_vars
  PROVE  PageMapOf!Next \/ UNCHANGED PageMapOf!vars
<1>0. MapTyped /\ Ordered
  BY Parts
<1>1. CASE UNCHANGED mapVars /\ (phase' = "ready" <=> phase = "ready")
  BY <1>1, SameMapSameTypes, Stutters
<1>2. CASE add_memory_region
  <2>1. phase = "memory"
    BY <1>2 DEF add_memory_region
  <2>2. CASE UNCHANGED <<fdt, mapVars>> /\ phase' # "ready"
    BY <1>1, <2>1, <2>2
  <2> QED BY <1>2, <2>1, <2>2, AddMemoryRegionShape, InsertionIsAStep
<1>3. CASE \/ reserve_original_fdt \/ add_reserved_region
           \/ add_static_reserved_region \/ add_firmware_region
  <2>1. UNCHANGED mapVars /\ phase # "ready" /\ phase' # "ready"
    BY <1>3 DEF reserve_original_fdt, add_reserved_region, add_static_reserved_region,
       add_firmware_region, add_reserved_region_with_type, BeginCarve, Fail, RegionDone
  <2> QED BY <1>1, <2>1
<1>4. CASE end_of_list
  <2>1. UNCHANGED mapVars /\ phase # "ready" /\ phase' # "ready"
    BY <1>4 DEF end_of_list
  <2> QED BY <1>1, <2>1
<1>5. CASE carve_exit
  BY <1>1, <1>5 DEF carve_exit, RegionDone
<1>6. CASE carve_iteration
  <2> DEFINE first == IF Start(index) > range.start THEN Start(index) ELSE range.start
             last == Shorter(End(index), range.end)
             pages == last - first
  <2>1. /\ index <= descriptor_count /\ Start(index) < range.end
        /\ phase \in {"fdt", "reserve_map", "reserved_memory", "firmware"}
        /\ range.start < range.end /\ range.from \subseteq {Conventional, Reserved}
    BY <1>6 DEF carve_iteration, IndInv, ControlSound
  <2>2. /\ index \in Live
        /\ range.start \in Nat /\ range.end \in Nat /\ range.Type \in MemoryTypes
    BY <2>1, SizeAssumption DEF IndInv, TypeOK, Live, RangeArguments
  <2>3. Start(index) \in Nat /\ End(index) \in Nat /\ Start(index) < End(index)
    BY <1>0, <2>2, ContentsFacts
  <2>4. CASE UNCHANGED mapVars /\ (UNCHANGED phase \/ phase' = "failed")
    BY <1>1, <2>1, <2>4
  <2>5. CASE /\ End(index) > range.start
             /\ descriptors[index].Type \in range.from
             /\ ReplaceFits(index, first, pages)
             /\ replace_range(index, first, pages, range.Type)
             /\ UNCHANGED phase
    <3>1. /\ first \in Nat /\ pages \in Nat \ {0}
          /\ Start(index) <= first /\ first + pages <= End(index)
      BY <2>1, <2>2, <2>3, <2>5 DEF Shorter
    <3>2. descriptors[index].Type \in {Conventional, Reserved}
      BY <2>1, <2>5
    <3> HIDE DEF first, pages
    <3> QED BY <2>1, <2>2, <2>5, <3>1, <3>2, EditIsAStep
  <2> QED BY <1>6, <2>4, <2>5 DEF carve_iteration, Fail
<1>7. CASE coalesce_iteration
  <2>1. UNCHANGED phase
    BY <1>7 DEF coalesce_iteration
  <2> QED BY <1>7, <2>1, CoalesceKeepsTypes, Stutters
<1>8. CASE coalesce_exit
  <2>1. UNCHANGED mapVars
    BY <1>8 DEF coalesce_exit
  <2>2. CASE phase # "firmware"
    BY <1>1, <1>8, <2>1, <2>2 DEF coalesce_exit, IndInv, ControlSound
  <2>3. CASE phase = "firmware"
    <3>1. phase' = "ready"
      BY <1>8, <2>3 DEF coalesce_exit
    <3>2. AbstractTypes' = AbstractTypes
      BY <2>1, SameMapSameTypes DEF SameTypes, AbstractTypes
    <3>3. ~(phase = "ready") /\ (phase = "ready")' = TRUE
      BY <2>3, <3>1
    <3>4. PageMapOf!Build
      BY <3>2, <3>3, Zenon DEF PageMapOf!Build, AbstractTypes
    <3> QED BY <3>4 DEF PageMapOf!Next
  <2> QED BY <2>2, <2>3
<1>9. CASE Call
  <2>1. phase = "ready"
    BY <1>9 DEF Call, Ready
  <2>2. CASE Untouched
    BY <1>1, <2>2 DEF Untouched
  <2>3. ASSUME NEW i \in Live, NEW M \in Nat, NEW P \in Nat \ {0}, NEW t \in MemoryTypes,
               Edit(i, M, P, t)
        PROVE  PageMapOf!Next
    BY <2>1, <2>3, EditIsAStep DEF Edit
  <2> QED BY <1>9, <2>2, <2>3, CallEdits DEF Edits
<1>10. CASE UNCHANGED vars
  BY <1>1, <1>10 DEF vars, mapVars
<1> QED BY <1>2, <1>3, <1>4, <1>5, <1>6, <1>7, <1>8, <1>9, <1>10
        DEF Next, Construct, Loop, NoAllocator

\* memory.rs implements the map of page types: carving, allocating and freeing
\* retype exactly the pages they are about, which all had the one type the
\* step is for, and neither the splits nor any merge loses or retypes a page.
\* /memory regions must not be nested: coalesce would shorten the outer one.
THEOREM PageMapImplemented ==
  ASSUME NoNestedRam
  PROVE  Spec => ImplementsPageMap
<1>1. Init => IndInv /\ RamEnds
  <2>1. Init => Live = {}
    BY DEF Init, Live
  <2> QED BY <2>1, InitInv DEF RamEnds, EndsOrdered, FromRegions
<1>2. IndInv /\ RamEnds /\ [Next]_vars => IndInv' /\ RamEnds'
  BY NextInv, RamEndsStep
<1>3. Init => PageMapOf!Init
  <2> SUFFICES ASSUME Init PROVE PageMapOf!Init
    OBVIOUS
  <2>1. Live = {} /\ phase # "ready"
    BY DEF Init, Live
  <2>2. \A q \in Pages : TypeAt(q) = "none"
    BY <2>1, TypeAtNobody
  <2>3. (phase = "ready") = FALSE
    BY <2>1
  <2> QED BY <2>2, <2>3, Zenon DEF PageMapOf!Init
<1>4. IndInv /\ RamEnds /\ [Next]_vars => [PageMapOf!Next]_(PageMapOf!vars)
  BY RefinementStep
<1> QED BY <1>1, <1>2, <1>3, <1>4, PTL DEF Spec, ImplementsPageMap, PageMapOf!Spec

-----------------------------------------------------------------------------
(* The searches. *)

\* k pages of p bytes fit into x bytes.
LEMMA DivFits ==
  ASSUME NEW x \in Nat, NEW p \in Nat \ {0}, NEW k \in Nat
  PROVE  k <= x \div p <=> k * p <= x
<1> DEFINE q == x \div p
<1>1. q \in Nat /\ p * q <= x /\ x < p * q + p
  BY DivBounds
<1> HIDE DEF q
<1>2. ASSUME k <= q PROVE k * p <= x
  <2>1. p * k <= p * q
    BY <1>1, <1>2
  <2> QED BY <1>1, <2>1
<1>3. ASSUME k > q PROVE k * p > x
  <2>1. k >= q + 1
    BY <1>1, <1>3
  <2>2. p * (q + 1) <= p * k
    BY <1>1, <2>1
  <2>3. p * (q + 1) = p * q + p
    BY <1>1
  <2> QED BY <1>1, <2>2, <2>3
<1>4. k * p \in Nat
  OBVIOUS
<1> QED BY <1>1, <1>2, <1>3, <1>4 DEF q

LEMMA MultipleOf ==
  ASSUME NEW s \in Nat, NEW p \in Nat \ {0}
  PROVE  s % p = 0 <=> \E k \in Nat : s = k * p
<1> DEFINE q == s \div p
<1>1. q \in Nat /\ s = p * q + (s % p) /\ s % p \in Nat /\ s % p < p
  OBVIOUS
<1>2. ASSUME s % p = 0 PROVE \E k \in Nat : s = k * p
  <2>1. s = q * p
    BY <1>1, <1>2
  <2> QED BY <1>1, <2>1
<1>3. ASSUME NEW k \in Nat, s = k * p PROVE s % p = 0
  <2>1. k <= q /\ q <= k
    <3>1. k * p <= s
      BY <1>3
    <3>2. k <= q
      BY <3>1, DivFits
    <3>3. q * p <= s
      BY <1>1
    <3>4. q * p <= k * p
      BY <1>3, <3>3
    <3>5. q <= k
      <4> HIDE DEF q
      <4> QED BY <1>1, <3>4
    <3> QED BY <3>2, <3>5
  <2> HIDE DEF q
  <2>2. q = k
    BY <1>1, <2>1
  <2>3. p * q = k * p
    BY <2>2
  <2> QED BY <1>1, <1>3, <2>3
<1> QED BY <1>2, <1>3

\* Rounding to a boundary finds the nearest multiple.
LEMMA AlignDown ==
  ASSUME NEW e \in Nat, NEW step \in Nat \ {0}
  PROVE  /\ AlignDownPages(e, step) \in Nat /\ AlignDownPages(e, step) <= e
         /\ AlignDownPages(e, step) % step = 0
         /\ \A s \in Nat : s % step = 0 /\ s <= e => s <= AlignDownPages(e, step)
<1> DEFINE q == e \div step
<1>1. q \in Nat /\ step * q <= e
  BY DivBounds
<1>2. AlignDownPages(e, step) = q * step
  BY DEF AlignDownPages
<1>3. q * step \in Nat /\ q * step <= e
  BY <1>1
<1>4. ASSUME NEW s \in Nat, s % step = 0, s <= e PROVE s <= q * step
  <2>1. PICK k \in Nat : s = k * step
    BY <1>4, MultipleOf
  <2>2. k <= q
    BY <1>4, <2>1, DivFits
  <2> HIDE DEF q
  <2> QED BY <1>1, <2>1, <2>2
<1> HIDE DEF q
<1>5. (q * step) % step = 0
  BY <1>1, <1>3, MultipleOf
<1> QED BY <1>2, <1>3, <1>4, <1>5

LEMMA AlignUp ==
  ASSUME NEW e \in Nat, NEW step \in Nat \ {0}
  PROVE  /\ AlignUpPages(e, step) \in Nat /\ AlignUpPages(e, step) >= e
         /\ AlignUpPages(e, step) % step = 0
         /\ \A s \in Nat : s % step = 0 /\ s >= e => s >= AlignUpPages(e, step)
<1> DEFINE x == e + step - 1
           q == x \div step
<1>1. x \in Nat
  OBVIOUS
<1>2. q \in Nat /\ step * q <= x /\ x < step * q + step
  BY <1>1, DivBounds
<1>3. AlignUpPages(e, step) = q * step
  BY DEF AlignUpPages
<1> HIDE DEF q
<1>4. q * step \in Nat /\ q * step = step * q
  BY <1>2
<1>5. q * step >= e
  BY <1>2, <1>4
<1>6. ASSUME NEW s \in Nat, s % step = 0, s >= e PROVE s >= q * step
  <2>1. PICK k \in Nat : s = k * step
    BY <1>6, MultipleOf
  <2>2. k * step + step > x /\ k * step = step * k
    BY <1>6, <2>1
  <2>3. step * q < step * (k + 1)
    BY <1>2, <2>2
  <2>4. q < k + 1
    BY <1>2, <2>3
  <2>5. q <= k
    BY <1>2, <2>4
  <2> QED BY <1>2, <2>1, <2>5
<1>7. (q * step) % step = 0
  BY <1>2, <1>4, MultipleOf
<1> QED BY <1>3, <1>4, <1>5, <1>6, <1>7

\* A page lies on a byte boundary if its number is a multiple of the pages.
LEMMA AlignedPages ==
  ASSUME NEW a \in Nat \ {0}, is_page_aligned(a), NEW s \in Nat
  PROVE  /\ PageDown(a) \in Nat \ {0}
         /\ (s * PageSize) % a = 0 <=> s % PageDown(a) = 0
<1> DEFINE step == PageDown(a)
<1>1. PageSize \in Nat \ {0}
  BY SizeAssumption
<1>2. a = PageSize * step /\ step \in Nat
  BY <1>1 DEF is_page_aligned, PageDown
<1> HIDE DEF step
<1>3. step # 0
  BY <1>1, <1>2
<1>4. s * PageSize \in Nat
  BY <1>1
<1>5. ASSUME NEW k \in Nat, s = k * step PROVE s * PageSize = k * a
  BY <1>1, <1>2, <1>5
<1>6. ASSUME NEW k \in Nat, s * PageSize = k * a PROVE s = k * step
  <2>1. PageSize * s = PageSize * (k * step)
    BY <1>1, <1>2, <1>6
  <2>2. k * step \in Nat
    BY <1>2
  <2> QED BY <1>1, <2>1, <2>2
<1>7. (s * PageSize) % a = 0 <=> \E k \in Nat : s * PageSize = k * a
  BY <1>4, MultipleOf
<1>8. s % step = 0 <=> \E k \in Nat : s = k * step
  BY <1>2, <1>3, MultipleOf
<1>9. (s * PageSize) % a = 0 <=> s % step = 0
  BY <1>5, <1>6, <1>7, <1>8
<1> QED BY <1>2, <1>3, <1>9 DEF step

\* The page limit of find_allocation_max_address is the byte limit.
LEMMA LimitPages ==
  ASSUME NEW m \in 0..MaxAddress, NEW e \in 0..TopPage
  PROVE  /\ PageDown(Shorter(m + 1, MaxAddress)) \in Nat
         /\ e <= PageDown(Shorter(m + 1, MaxAddress)) <=> e * PageSize - 1 <= m
<1> DEFINE x == Shorter(m + 1, MaxAddress)
<1>1. /\ PageSize \in Nat \ {0} /\ TopPage \in Nat /\ MaxAddress \in Nat
      /\ m \in Nat /\ m <= MaxAddress /\ e \in Nat /\ e <= TopPage
      /\ MaxAddress = (TopPage + 1) * PageSize - 1
  BY SizeAssumption, MaxAddressNat DEF MaxAddress
<1>2. x \in Nat /\ x = IF m + 1 < MaxAddress THEN m + 1 ELSE MaxAddress
  BY <1>1 DEF Shorter
<1> HIDE DEF x
<1>3. PageDown(x) \in Nat
  BY <1>2, PageDownNat
<1>4. e <= PageDown(x) <=> e * PageSize <= x
  BY <1>1, <1>2, DivFits DEF PageDown
<1>5. e * PageSize <= MaxAddress
  <2>1. e * PageSize <= TopPage * PageSize
    BY <1>1
  <2>2. (TopPage + 1) * PageSize = TopPage * PageSize + PageSize
    BY <1>1
  <2>3. TopPage * PageSize \in Nat /\ e * PageSize \in Nat
    BY <1>1
  <2> QED BY <1>1, <2>1, <2>2, <2>3
<1>6. e * PageSize <= x <=> e * PageSize - 1 <= m
  <2>1. e * PageSize \in Nat
    BY <1>1
  <2> QED BY <1>1, <1>2, <1>5, <2>1
<1> QED BY <1>3, <1>4, <1>6 DEF x

\* A set of starts that leaves out none of the best runs has the same best.
LEMMA HighestSame ==
  ASSUME NEW A \in SUBSET Nat, NEW B \in SUBSET Nat, A \subseteq B,
         \A y \in B : \E x \in A : y <= x
  PROVE  SameHighest(A, B)
<1>1. \A x : (x \in A /\ \A y \in A : x >= y) <=> (x \in B /\ \A y \in B : x >= y)
  <2>1. ASSUME NEW x \in A, \A y \in A : x >= y, NEW y \in B PROVE x >= y
    <3>1. PICK z \in A : y <= z
      OBVIOUS
    <3>2. x >= z
      BY <2>1
    <3>3. x \in Nat /\ y \in Nat /\ z \in Nat
      OBVIOUS
    <3> QED BY <3>1, <3>2, <3>3
  <2>2. ASSUME NEW x \in B, \A y \in B : x >= y PROVE x \in A
    <3>1. PICK z \in A : x <= z
      OBVIOUS
    <3>2. x >= z /\ x \in Nat /\ z \in Nat
      BY <2>2
    <3> QED BY <3>1, <3>2
  <2> QED BY <2>1, <2>2
<1>2. Last(A) = Last(B)
  BY <1>1, Zenon DEF Last
<1>3. A = {} <=> B = {}
  OBVIOUS
<1> QED BY <1>2, <1>3 DEF SameHighest

LEMMA LowestSame ==
  ASSUME NEW A \in SUBSET Nat, NEW B \in SUBSET Nat, A \subseteq B,
         \A y \in B : \E x \in A : x <= y
  PROVE  SameLowest(A, B)
<1>1. \A x : (x \in A /\ \A y \in A : x <= y) <=> (x \in B /\ \A y \in B : x <= y)
  <2>1. ASSUME NEW x \in A, \A y \in A : x <= y, NEW y \in B PROVE x <= y
    <3>1. PICK z \in A : z <= y
      OBVIOUS
    <3>2. x <= z
      BY <2>1
    <3>3. x \in Nat /\ y \in Nat /\ z \in Nat
      OBVIOUS
    <3> QED BY <3>1, <3>2, <3>3
  <2>2. ASSUME NEW x \in B, \A y \in B : x <= y PROVE x \in A
    <3>1. PICK z \in A : z <= x
      OBVIOUS
    <3>2. x <= z /\ x \in Nat /\ z \in Nat
      BY <2>2
    <3> QED BY <3>1, <3>2
  <2> QED BY <2>1, <2>2
<1>2. First(A) = First(B)
  BY <1>1, Zenon DEF First
<1>3. A = {} <=> B = {}
  OBVIOUS
<1> QED BY <1>2, <1>3 DEF SameLowest

\* The free runs of n pages are the stretches inside the free descriptors.
LEMMA FreeRuns ==
  ASSUME IndInv, Merged, Ready, NEW n \in Nat \ {0}
  PROVE  /\ \A i \in FreeSlots : /\ i \in Live /\ Start(i) \in Nat /\ End(i) \in Nat
                                 /\ End(i) <= TopPage
         /\ Runs(n, Conventional) \subseteq Nat
         /\ \A i \in FreeSlots, s \in Nat :
              Start(i) <= s /\ s + n <= End(i) => s \in Runs(n, Conventional)
         /\ \A s \in Runs(n, Conventional) :
              \E i \in FreeSlots : Start(i) <= s /\ s + n <= End(i)
<1>1. Conventional \in MemoryTypes
  BY DEF MemoryTypes
<1>2. \A s : s \in Runs(n, Conventional) <=>
        /\ s \in Nat
        /\ \E i \in Live : descriptors[i].Type = Conventional /\ Covers(i, s, s + n)
  BY <1>1, RunsAreStretches
<1>3. ASSUME NEW i \in FreeSlots
      PROVE  i \in Live /\ Start(i) \in Nat /\ End(i) \in Nat /\ End(i) <= TopPage
  BY Parts, LiveFacts DEF FreeSlots, Ordered
<1> QED BY <1>2, <1>3, Zenon DEF FreeSlots, Covers

LEMMA AnyPagesExact ==
  ASSUME IndInv, Merged, Ready, NEW n \in Nat \ {0}
  PROVE  SameHighest(find_allocation_any_pages(n), Runs(n, Conventional))
<1> DEFINE A == find_allocation_any_pages(n)
           B == Runs(n, Conventional)
<1>1. \A x : x \in A <=> \E i \in FreeSlots : Start(i) + n <= End(i) /\ x = End(i) - n
  BY DEF find_allocation_any_pages
<1> HIDE DEF A
<1>2. ASSUME NEW x \in A PROVE x \in Nat /\ x \in B
  <2>1. PICK i \in FreeSlots : Start(i) + n <= End(i) /\ x = End(i) - n
    BY <1>1
  <2>2. Start(i) \in Nat /\ End(i) \in Nat
    BY FreeRuns
  <2>3. x \in Nat /\ Start(i) <= x /\ x + n <= End(i)
    BY <2>1, <2>2
  <2> QED BY <2>3, FreeRuns
<1>3. ASSUME NEW y \in B PROVE \E x \in A : y <= x
  <2>1. PICK i \in FreeSlots : Start(i) <= y /\ y + n <= End(i)
    BY FreeRuns
  <2>2. Start(i) \in Nat /\ End(i) \in Nat /\ y \in Nat
    BY FreeRuns
  <2>3. Start(i) + n <= End(i) /\ y <= End(i) - n
    BY <2>1, <2>2
  <2> QED BY <1>1, <2>3
<1>4. B \subseteq Nat
  BY FreeRuns
<1> HIDE DEF B
<1>5. SameHighest(A, B)
  BY <1>2, <1>3, <1>4, HighestSame
<1> QED BY <1>5 DEF A, B

LEMMA MaxAddressExact ==
  ASSUME IndInv, Merged, Ready, NEW n \in Nat \ {0}, NEW m \in 0..MaxAddress
  PROVE  SameHighest(find_allocation_max_address(n, m),
                     {s \in Runs(n, Conventional) : (s + n) * PageSize - 1 <= m})
<1> DEFINE A == find_allocation_max_address(n, m)
           B == {s \in Runs(n, Conventional) : (s + n) * PageSize - 1 <= m}
           limit == PageDown(Shorter(m + 1, MaxAddress))
<1>1. \A x : x \in A <=> \E i \in FreeSlots :
                           /\ Start(i) + n <= Shorter(End(i), limit)
                           /\ x = Shorter(End(i), limit) - n
  BY DEF find_allocation_max_address
<1>2. limit \in Nat
  <2>1. 0 \in 0..TopPage
    BY SizeAssumption
  <2> QED BY <2>1, LimitPages
<1>3. \A e \in 0..TopPage : e <= limit <=> e * PageSize - 1 <= m
  BY LimitPages
<1> HIDE DEF A, limit
<1>4. ASSUME NEW x \in A PROVE x \in Nat /\ x \in B
  <2>1. PICK i \in FreeSlots : /\ Start(i) + n <= Shorter(End(i), limit)
                               /\ x = Shorter(End(i), limit) - n
    BY <1>1
  <2>2. Start(i) \in Nat /\ End(i) \in Nat /\ End(i) <= TopPage /\ TopPage \in Nat
    BY FreeRuns, SizeAssumption
  <2>3. /\ x \in Nat /\ Start(i) <= x /\ x + n <= End(i) /\ x + n <= limit
        /\ x + n \in 0..TopPage
    BY <1>2, <2>1, <2>2 DEF Shorter
  <2>4. x \in Runs(n, Conventional)
    BY <2>3, FreeRuns
  <2>5. (x + n) * PageSize - 1 <= m
    BY <1>3, <2>3
  <2> QED BY <2>3, <2>4, <2>5
<1>5. ASSUME NEW y \in B PROVE \E x \in A : y <= x
  <2>1. PICK i \in FreeSlots : Start(i) <= y /\ y + n <= End(i)
    BY FreeRuns
  <2>2. /\ Start(i) \in Nat /\ End(i) \in Nat /\ y \in Nat
        /\ End(i) <= TopPage /\ TopPage \in Nat
    BY FreeRuns, SizeAssumption
  <2>3. y + n \in 0..TopPage
    BY <2>1, <2>2
  <2>4. y + n <= limit
    BY <1>3, <2>3
  <2>5. Start(i) + n <= Shorter(End(i), limit) /\ y <= Shorter(End(i), limit) - n
    BY <1>2, <2>1, <2>2, <2>4 DEF Shorter
  <2> QED BY <1>1, <2>5
<1>6. B \subseteq Nat
  BY FreeRuns
<1> HIDE DEF B
<1>7. SameHighest(A, B)
  BY <1>4, <1>5, <1>6, HighestSame
<1> QED BY <1>7 DEF A, B

\* The starts the aligned searches offer, for the byte boundary a.
LEMMA AlignedStartsExact ==
  ASSUME IndInv, Merged, Ready, NEW n \in Nat \ {0},
         NEW a \in Nat \ {0}, is_page_aligned(a)
  PROVE  LET fitting == {s \in Runs(n, Conventional) : (s * PageSize) % a = 0}
         IN /\ SameHighest(find_aligned_allocation(n, PageDown(a), "High").starts, fitting)
            /\ SameLowest(find_aligned_allocation(n, PageDown(a), "Low").starts, fitting)
<1> DEFINE B == {s \in Runs(n, Conventional) : (s * PageSize) % a = 0}
           step == PageDown(a)
           H == find_aligned_allocation(n, step, "High").starts
           L == find_aligned_allocation(n, step, "Low").starts
<1>1. step \in Nat \ {0}
  <2>1. 0 \in Nat
    OBVIOUS
  <2> QED BY <2>1, AlignedPages
<1>2. \A s \in Nat : (s * PageSize) % a = 0 <=> s % step = 0
  BY AlignedPages
<1>3. \A x : x \in H <=> \E i \in FreeSlots :
                           /\ Start(i) + n <= End(i)
                           /\ x = AlignDownPages(End(i) - n, step)
                           /\ x >= Start(i) /\ x + n <= End(i)
  BY Zenon DEF find_aligned_allocation, Roomy, AlignedStart
<1>4. \A x : x \in L <=> \E i \in FreeSlots :
                           /\ Start(i) + n <= End(i)
                           /\ x = AlignUpPages(Start(i), step)
                           /\ x >= Start(i) /\ x + n <= End(i)
  BY DEF find_aligned_allocation, Roomy, AlignedStart
<1> HIDE DEF step, H, L
<1>5. ASSUME NEW i \in FreeSlots, NEW x \in Nat, x % step = 0, x >= Start(i), x + n <= End(i)
      PROVE  x \in B
  <2>1. Start(i) \in Nat
    BY FreeRuns
  <2>2. x \in Runs(n, Conventional)
    BY <1>5, <2>1, FreeRuns
  <2>3. (x * PageSize) % a = 0
    BY <1>2, <1>5
  <2> QED BY <2>2, <2>3
<1>6. ASSUME NEW y \in B
      PROVE  /\ y \in Nat /\ y % step = 0
             /\ \E i \in FreeSlots : Start(i) <= y /\ y + n <= End(i)
  <2>1. y \in Nat /\ \E i \in FreeSlots : Start(i) <= y /\ y + n <= End(i)
    BY FreeRuns
  <2> QED BY <1>2, <2>1
<1>7. \A i \in FreeSlots : Start(i) \in Nat /\ End(i) \in Nat
  BY FreeRuns
<1>8. ASSUME NEW x \in H PROVE x \in B
  <2>1. PICK i \in FreeSlots : /\ Start(i) + n <= End(i)
                               /\ x = AlignDownPages(End(i) - n, step)
                               /\ x >= Start(i) /\ x + n <= End(i)
    BY <1>3
  <2>2. End(i) - n \in Nat
    BY <1>7, <2>1
  <2>3. x \in Nat /\ x % step = 0
    BY <1>1, <2>1, <2>2, AlignDown
  <2> QED BY <1>5, <2>1, <2>3
<1>9. ASSUME NEW y \in B PROVE \E x \in H : y <= x
  <2>1. PICK i \in FreeSlots : Start(i) <= y /\ y + n <= End(i)
    BY <1>6
  <2>2. y \in Nat /\ y % step = 0 /\ Start(i) \in Nat /\ End(i) \in Nat
    BY <1>6, <1>7
  <2>3. End(i) - n \in Nat /\ y <= End(i) - n /\ Start(i) + n <= End(i)
    BY <2>1, <2>2
  <2> DEFINE x == AlignDownPages(End(i) - n, step)
  <2>4. x \in Nat /\ x <= End(i) - n /\ y <= x
    BY <1>1, <2>2, <2>3, AlignDown
  <2> HIDE DEF x
  <2>5. x >= Start(i) /\ x + n <= End(i)
    BY <2>1, <2>2, <2>4
  <2>6. x \in H
    BY <1>3, <2>3, <2>5 DEF x
  <2> QED BY <2>4, <2>6
<1>10. ASSUME NEW x \in L PROVE x \in B
  <2>1. PICK i \in FreeSlots : /\ Start(i) + n <= End(i)
                               /\ x = AlignUpPages(Start(i), step)
                               /\ x >= Start(i) /\ x + n <= End(i)
    BY <1>4
  <2>2. x \in Nat /\ x % step = 0
    BY <1>1, <1>7, <2>1, AlignUp
  <2> QED BY <1>5, <2>1, <2>2
<1>11. ASSUME NEW y \in B PROVE \E x \in L : x <= y
  <2>1. PICK i \in FreeSlots : Start(i) <= y /\ y + n <= End(i)
    BY <1>6
  <2>2. y \in Nat /\ y % step = 0 /\ Start(i) \in Nat /\ End(i) \in Nat
    BY <1>6, <1>7
  <2> DEFINE x == AlignUpPages(Start(i), step)
  <2>3. x \in Nat /\ x >= Start(i) /\ x <= y
    BY <1>1, <2>1, <2>2, AlignUp
  <2> HIDE DEF x
  <2>4. x + n <= End(i) /\ Start(i) + n <= End(i)
    BY <2>1, <2>2, <2>3
  <2>5. x \in L
    BY <1>4, <2>3, <2>4 DEF x
  <2> QED BY <2>3, <2>5
<1>12. B \subseteq Nat
  BY <1>6
<1> HIDE DEF B
<1>13. SameHighest(H, B)
  BY <1>8, <1>9, <1>12, HighestSame
<1>14. SameLowest(L, B)
  BY <1>10, <1>11, <1>12, LowestSame
<1> QED BY <1>13, <1>14 DEF B, H, L, step

\* Where a free stretch begins: the page before it is not free.
LEMMA StretchBegins ==
  ASSUME IndInv, Merged, Ready, NEW n \in Nat \ {0}, NEW s
  PROVE  (s \in Runs(n, Conventional) /\ s - 1 \notin Runs(1, Conventional))
           <=> \E i \in FreeSlots : s = Start(i) /\ Start(i) + n <= End(i)
<1>1. \A i \in FreeSlots : i \in Live /\ Start(i) \in Nat /\ End(i) \in Nat
  BY FreeRuns
<1>2. ASSUME s \in Runs(n, Conventional), s - 1 \notin Runs(1, Conventional)
      PROVE  \E i \in FreeSlots : s = Start(i) /\ Start(i) + n <= End(i)
  <2>1. PICK i \in FreeSlots : Start(i) <= s /\ s + n <= End(i)
    BY <1>2, FreeRuns
  <2>2. s \in Nat
    BY <1>2, FreeRuns
  <2>3. Start(i) < s => s - 1 \in Nat /\ Start(i) <= s - 1 /\ (s - 1) + 1 <= End(i)
    BY <1>1, <2>1, <2>2
  <2>4. 1 \in Nat \ {0}
    OBVIOUS
  <2>5. ~(Start(i) < s)
    BY <1>2, <2>3, <2>4, FreeRuns
  <2> QED BY <1>1, <2>1, <2>2, <2>5
<1>3. ASSUME NEW i \in FreeSlots, s = Start(i), Start(i) + n <= End(i)
      PROVE  s \in Runs(n, Conventional) /\ s - 1 \notin Runs(1, Conventional)
  <2>1. s \in Nat /\ s \in Runs(n, Conventional)
    BY <1>1, <1>3, FreeRuns
  <2>2. ASSUME s - 1 \in Runs(1, Conventional) PROVE FALSE
    <3>1. 1 \in Nat \ {0} /\ 2 \in Nat \ {0} /\ s - 1 \in Nat
      BY <2>2, FreeRuns
    <3>2. Start(i) <= s /\ s + 1 <= End(i)
      BY <1>1, <1>3
    <3>3. s \in Runs(1, Conventional)
      BY <2>1, <3>1, <3>2, FreeRuns
    <3>4. \A q \in (s - 1)..((s - 1) + 2 - 1) : q = s - 1 \/ q = s
      BY <2>1
    <3>5. s - 1 \in Runs(2, Conventional)
      <4>1. \A q \in Runs(1, Conventional) : q \in Nat /\ q \in q..(q + 1 - 1)
        BY <3>1, FreeRuns
      <4>2. \A q \in Runs(1, Conventional) : q \in Pages /\ TypeAt(q) = Conventional
        BY <4>1 DEF Runs
      <4> QED BY <2>2, <3>3, <3>4, <4>2 DEF Runs
    <3>6. PICK j \in FreeSlots : Start(j) <= s - 1 /\ (s - 1) + 2 <= End(j)
      BY <3>1, <3>5, FreeRuns
    <3>7. /\ i \in Live /\ j \in Live /\ Start(j) \in Nat /\ End(j) \in Nat
          /\ Start(i) \in Nat /\ End(i) \in Nat /\ i \in Nat /\ j \in Nat
      BY <1>1, Parts, LiveFacts
    <3>8. i # j /\ Start(j) < End(i) /\ Start(i) < End(j)
      BY <1>3, <3>2, <3>6, <3>7
    <3>9. Disjoint
      BY Parts DEF Ready
    <3> QED BY <3>7, <3>8, <3>9 DEF Disjoint
  <2> QED BY <2>1, <2>2
<1> QED BY <1>2, <1>3

\* Pages and bytes overflow together.
LEMMA PagesOverflow ==
  ASSUME NEW p \in Nat
  PROVE  /\ p > TopPage <=> p * PageSize > MaxAddress
         /\ p > TopPage + 1 <=> p * PageSize - 1 > MaxAddress
<1>1. PageSize \in Nat \ {0} /\ TopPage \in Nat /\ MaxAddress = (TopPage + 1) * PageSize - 1
  BY SizeAssumption DEF MaxAddress
<1>2. \A x, y \in Nat : x <= y => x * PageSize <= y * PageSize
  BY <1>1
<1>3. p > TopPage => p * PageSize >= (TopPage + 1) * PageSize
  BY <1>1, <1>2
<1>4. p <= TopPage + 1 => p * PageSize <= (TopPage + 1) * PageSize
  BY <1>1, <1>2
<1>5. p >= TopPage + 2 => p * PageSize >= (TopPage + 2) * PageSize
  BY <1>1, <1>2
<1>6. p <= TopPage => p * PageSize <= TopPage * PageSize
  BY <1>1, <1>2
<1>7. /\ TopPage * PageSize \in Nat /\ p * PageSize \in Nat
      /\ (TopPage + 1) * PageSize = TopPage * PageSize + PageSize
      /\ (TopPage + 2) * PageSize = TopPage * PageSize + PageSize + PageSize
  BY <1>1
<1> QED BY <1>1, <1>3, <1>4, <1>5, <1>6, <1>7

\* The aligned searches with their overflows, for the byte boundary a.
LEMMA AlignedExact ==
  ASSUME IndInv, Merged, Ready, NEW n \in Nat \ {0},
         NEW a \in Nat \ {0}, is_page_aligned(a)
  PROVE  AlignedIsExact(n, a)
<1> DEFINE step == PageDown(a)
           runs == Runs(n, Conventional)
           begins == {s \in runs : s - 1 \notin Runs(1, Conventional)}
           fitting == {s \in runs : (s * PageSize) % a = 0}
           high == find_aligned_allocation(n, step, "High")
           low == find_aligned_allocation(n, step, "Low")
<1>1. SameHighest(high.starts, fitting) /\ SameLowest(low.starts, fitting)
  BY AlignedStartsExact
<1>2. high.overflows <=> n * PageSize > MaxAddress
  <2>1. high.overflows <=> n > TopPage
    BY DEF find_aligned_allocation
  <2> QED BY <2>1, PagesOverflow
<1>3. low.overflows <=> n > TopPage \/ \E i \in Roomy(n) : Start(i) + step > TopPage + 1
  BY DEF find_aligned_allocation
<1>4. step \in Nat /\ PageSize \in Nat /\ a = step * PageSize
  <2>1. PageSize \in Nat \ {0}
    BY SizeAssumption
  <2> QED BY <2>1 DEF is_page_aligned, PageDown
<1> HIDE DEF step
<1>5. ASSUME NEW s \in Nat
      PROVE  s + step > TopPage + 1 <=> s * PageSize + a - 1 > MaxAddress
  <2>1. /\ s + step \in Nat /\ (s + step) * PageSize = s * PageSize + a
        /\ s * PageSize \in Nat /\ MaxAddress \in Nat
    BY <1>4, MaxAddressNat
  <2>2. s + step > TopPage + 1 <=> (s + step) * PageSize - 1 > MaxAddress
    BY <2>1, PagesOverflow
  <2> QED BY <2>1, <2>2
<1>6. (\E i \in Roomy(n) : Start(i) + step > TopPage + 1)
        <=> \E s \in begins : s * PageSize + a - 1 > MaxAddress
  <2>1. \A s : s \in begins <=> \E i \in Roomy(n) : s = Start(i)
    BY StretchBegins DEF Roomy
  <2>2. \A i \in Roomy(n) : Start(i) \in Nat
    BY FreeRuns DEF Roomy
  <2> HIDE DEF begins
  <2> QED BY <1>5, <2>1, <2>2
<1>7. low.overflows <=> \/ n * PageSize > MaxAddress
                       \/ \E s \in begins : s * PageSize + a - 1 > MaxAddress
  BY <1>3, <1>6, PagesOverflow
<1> HIDE DEF runs
<1>8. AlignedIsExact(n, a) =
        (/\ high.overflows <=> n * PageSize > MaxAddress
         /\ ~high.overflows => SameHighest(high.starts, fitting)
         /\ low.overflows <=> \/ n * PageSize > MaxAddress
                              \/ \E s \in begins : s * PageSize + a - 1 > MaxAddress
         /\ ~low.overflows => SameLowest(low.starts, fitting))
  BY Zenon DEF AlignedIsExact, step, runs
<1> QED BY <1>1, <1>2, <1>7, <1>8

\* Every search of a finished allocator returns the best run there is: the
\* highest (lowest) run of free pages below the caller's limit and on its
\* boundary, and none only when no run exists.  The aligned searches do so
\* unless they give up with AddressOverflow, which they do exactly when the size
\* overflows or, from the low end, when rounding up the beginning of any free
\* stretch with room overflows (memory.rs, align_up in find_aligned_allocation).
THEOREM SearchesExact == Spec => []SearchesAreExact
<1>1. IndInv /\ Merged => SearchesAreExact
  <2> SUFFICES ASSUME IndInv, Merged, Ready, NEW n \in PageCounts \ {0}
               PROVE  LET runs == Runs(n, Conventional)
                      IN /\ SameHighest(find_allocation_any_pages(n), runs)
                         /\ \A m \in Addresses :
                              SameHighest(find_allocation_max_address(n, m),
                                          {s \in runs : (s + n) * PageSize - 1 <= m})
                         /\ \A a \in {b \in Alignments : b # 0 /\ is_page_aligned(b)} :
                              AlignedIsExact(n, a)
    BY DEF SearchesAreExact
  <2>1. n \in Nat \ {0}
    BY InputAssumption
  <2>2. \A m \in Addresses : m \in 0..MaxAddress
    BY InputAssumption
  <2>3. \A a \in {b \in Alignments : b # 0 /\ is_page_aligned(b)} :
          a \in Nat \ {0} /\ is_page_aligned(a)
    BY AlignmentAssumption
  <2>4. SameHighest(find_allocation_any_pages(n), Runs(n, Conventional))
    BY <2>1, AnyPagesExact
  <2>5. ASSUME NEW m \in Addresses
        PROVE  SameHighest(find_allocation_max_address(n, m),
                           {s \in Runs(n, Conventional) : (s + n) * PageSize - 1 <= m})
    BY <2>1, <2>2, MaxAddressExact
  <2>6. ASSUME NEW a \in {b \in Alignments : b # 0 /\ is_page_aligned(b)}
        PROVE  AlignedIsExact(n, a)
    BY <2>1, <2>3, AlignedExact
  <2> QED BY <2>4, <2>5, <2>6, Zenon
<1> QED BY <1>1, MergedAlways, PTL

-----------------------------------------------------------------------------
(* Construction gives every page the type the device tree asks for. *)

\* The lists fit into the slices that receive them, so that no region is
\* dropped before the allocator sees it.
ListsFit ==
  \A f \in Fdts : /\ Len(f.memory) <= MaxMemoryRegions
                  /\ Len(f.reserveMap) <= MaxReservedRegions

\* ExpectedType as it stands when only the first n claims have been made.
ClaimsUpTo(q, n) == {k \in ClaimsOn(q) : k <= n}
Takers(S) == {k \in S : Claims[k].Type # Reserved /\ ~Claims[k].byFirmware}

TypeAfter(q, n) ==
  IF ~InRam(q) THEN "none"
  ELSE IF ClaimsUpTo(q, n) = {} THEN Conventional
  ELSE IF Claims[First(ClaimsUpTo(q, n))].Type # Reserved \/ Takers(ClaimsUpTo(q, n)) = {}
       THEN Claims[First(ClaimsUpTo(q, n))].Type
  ELSE Claims[First(Takers(ClaimsUpTo(q, n)))].Type

\* The types of the pages that claim k may take.
Retypable(k) == IF Claims[k].byFirmware THEN {Conventional} ELSE {Conventional, Reserved}

\* Claims the device tree and the linker script make.
ClaimsTyped ==
  /\ DOMAIN Claims \subseteq Nat \ {0}
  /\ \A k \in DOMAIN Claims : Claims[k].Type \in MemoryTypes \ {Conventional}
  /\ \A k \in DOMAIN Claims : Claims[k].byFirmware \in BOOLEAN

LEMMA LeastOf ==
  ASSUME NEW S, S \subseteq Nat, NEW R, NEW m \in S,
         \A x \in S : ~(<<x, m>> \in R),
         \A a, b \in Nat : a < b => <<a, b>> \in R
  PROVE  \A x \in S : m <= x
<1> SUFFICES ASSUME NEW x \in S PROVE m <= x
  OBVIOUS
<1>1. m \in Nat /\ x \in Nat
  OBVIOUS
<1>2. ~(x < m)
  BY <1>1
<1> QED BY <1>1, <1>2

LEMMA FirstOf ==
  ASSUME NEW S, S \subseteq Nat, S # {}
  PROVE  First(S) \in S /\ \A x \in S : First(S) <= x
<1> DEFINE R == OpToRel(<, Nat)
<1>1. IsWellFoundedOn(R, Nat)
  BY NatLessThanWellFounded, Zenon
<1>2. \A a, b \in Nat : a < b => <<a, b>> \in R
  BY SMT DEF OpToRel
<1> HIDE DEF R
<1>3. PICK m \in S : \A x \in S : ~(<<x, m>> \in R)
  BY <1>1, WFMin
<1>4. \A x \in S : m <= x
  BY <1>2, <1>3, LeastOf
<1> QED BY <1>4, Zenon DEF First

LEMMA FirstIs ==
  ASSUME NEW S, S \subseteq Nat, NEW m \in S, \A x \in S : m <= x
  PROVE  First(S) = m
<1>1. First(S) \in S /\ First(S) <= m
  BY FirstOf
<1>2. First(S) \in Nat /\ m \in Nat /\ m <= First(S)
  BY <1>1
<1> QED BY <1>1, <1>2

\* A claim that comes later than all of S is the first one only if S is empty.
LEMMA FirstOfMore ==
  ASSUME NEW n \in Nat, NEW S, S \subseteq 1..n
  PROVE  /\ S = {} => First(S \cup {n + 1}) = n + 1
         /\ S # {} => First(S \cup {n + 1}) = First(S) /\ First(S) \in S
<1>1. S \cup {n + 1} \subseteq Nat /\ S \subseteq Nat
  OBVIOUS
<1>2. CASE S = {}
  BY <1>1, <1>2, FirstIs
<1>3. CASE S # {}
  <2>1. First(S) \in S /\ \A x \in S : First(S) <= x
    BY <1>1, <1>3, FirstOf
  <2>2. First(S) \in 1..n /\ First(S) <= n + 1
    <3>1. First(S) \in 1..n
      BY <2>1
    <3> QED BY <3>1
  <2>3. \A x \in S \cup {n + 1} : First(S) <= x
    BY <2>1, <2>2
  <2> QED BY <1>1, <1>3, <2>1, <2>3, FirstIs
<1> QED BY <1>2, <1>3

\* One more claim takes the page if it is about the page and may retype what
\* the earlier ones made of it.
LEMMA OneMoreClaim ==
  ASSUME ClaimsTyped, NEW q, NEW n \in Nat
  PROVE  TypeAfter(q, n + 1) =
           IF n + 1 \in ClaimsOn(q) /\ TypeAfter(q, n) \in Retypable(n + 1)
           THEN Claims[n + 1].Type ELSE TypeAfter(q, n)
<1> DEFINE S == ClaimsUpTo(q, n)
           T == ClaimsUpTo(q, n + 1)
           m == n + 1
<1>1. /\ S \subseteq ClaimsOn(q) /\ ClaimsOn(q) \subseteq DOMAIN Claims
      /\ S \subseteq 1..n /\ S \subseteq Nat
  BY DEF ClaimsUpTo, ClaimsOn, ClaimsTyped
<1>2. T = IF m \in ClaimsOn(q) THEN S \cup {m} ELSE S
  BY <1>1 DEF ClaimsUpTo, ClaimsTyped
<1>3. CASE m \notin ClaimsOn(q)
  BY <1>2, <1>3, Zenon DEF TypeAfter
<1>4. CASE ~InRam(q)
  BY <1>4 DEF TypeAfter, Retypable, Conventional, Reserved
<1>5. CASE m \in ClaimsOn(q) /\ InRam(q)
  <2>1. T = S \cup {m} /\ T # {}
    BY <1>2, <1>5
  <2>2. /\ Takers(T) = Takers(S) \cup (IF Claims[m].Type # Reserved /\ ~Claims[m].byFirmware
                                       THEN {m} ELSE {})
        /\ Takers(S) \subseteq S
    BY <2>1 DEF Takers
  <2>3. \A k \in T : Claims[k].Type \in MemoryTypes \ {Conventional}
    BY <1>1, <1>5, <2>1 DEF ClaimsTyped
  <2>4. CASE S = {}
    <3>1. TypeAfter(q, n) = Conventional
      BY <1>5, <2>4, Zenon DEF TypeAfter
    <3>2. First(T) = m
      BY <1>1, <2>1, <2>4, FirstOfMore
    <3>3. Takers(T) = {} \/ Takers(T) = {m}
      BY <2>2, <2>4
    <3>4. Takers(T) = {m} => First(Takers(T)) = m
      BY FirstIs
    <3>5. TypeAfter(q, m) = Claims[m].Type
      BY <1>5, <2>1, <3>2, <3>3, <3>4, Zenon DEF TypeAfter
    <3> QED BY <1>5, <3>1, <3>5 DEF Retypable
  <2>5. CASE S # {} /\ Claims[First(S)].Type # Reserved
    <3>1. First(T) = First(S) /\ First(S) \in S
      BY <1>1, <2>1, <2>5, FirstOfMore
    <3>2. TypeAfter(q, n) = Claims[First(S)].Type /\ TypeAfter(q, m) = Claims[First(S)].Type
      BY <1>5, <2>1, <2>5, <3>1, Zenon DEF TypeAfter
    <3>3. Claims[First(S)].Type \notin Retypable(m)
      BY <2>1, <2>3, <2>5, <3>1 DEF Retypable
    <3> QED BY <3>2, <3>3
  <2>6. CASE S # {} /\ Claims[First(S)].Type = Reserved /\ Takers(S) = {}
    <3>1. First(T) = First(S)
      BY <1>1, <2>1, <2>6, FirstOfMore
    <3>2. TypeAfter(q, n) = Reserved
      BY <1>5, <2>6, Zenon DEF TypeAfter
    <3>3. CASE Takers(T) = {}
      <4>1. TypeAfter(q, m) = Reserved
        BY <1>5, <2>1, <2>6, <3>1, <3>3, Zenon DEF TypeAfter
      <4>2. Claims[m].Type = Reserved \/ Claims[m].byFirmware
        BY <2>2, <3>3
      <4> QED BY <3>2, <4>1, <4>2 DEF Retypable, Reserved, Conventional
    <3>4. CASE Takers(T) # {}
      <4>1. Takers(T) = {m} /\ ~Claims[m].byFirmware
        BY <2>2, <2>6, <3>4
      <4>2. First(Takers(T)) = m
        BY <4>1, FirstIs
      <4>3. TypeAfter(q, m) = Claims[m].Type
        BY <1>5, <2>1, <2>6, <3>1, <3>4, <4>2, Zenon DEF TypeAfter
      <4> QED BY <1>5, <3>2, <4>1, <4>3 DEF Retypable
    <3> QED BY <3>3, <3>4
  <2>7. CASE S # {} /\ Claims[First(S)].Type = Reserved /\ Takers(S) # {}
    <3>1. First(T) = First(S)
      BY <1>1, <2>1, <2>7, FirstOfMore
    <3>2. Takers(S) \subseteq 1..n
      BY <1>1, <2>2
    <3>3. /\ Takers(T) # {} /\ First(Takers(T)) = First(Takers(S))
          /\ First(Takers(S)) \in Takers(S)
      BY <2>2, <2>7, <3>2, FirstOfMore
    <3>4. /\ TypeAfter(q, n) = Claims[First(Takers(S))].Type
          /\ TypeAfter(q, m) = Claims[First(Takers(S))].Type
      BY <1>5, <2>1, <2>7, <3>1, <3>3, Zenon DEF TypeAfter
    <3>5. Claims[First(Takers(S))].Type \notin Retypable(m)
      BY <2>1, <2>3, <3>3 DEF Retypable, Takers
    <3> QED BY <3>4, <3>5
  <2> QED BY <2>4, <2>5, <2>6, <2>7
<1> QED BY <1>3, <1>4, <1>5

\* The claims in order: the blob, the reserve map, /reserved-memory, the image.
LEMMA SeqOfFunction ==
  ASSUME NEW S, NEW n \in Nat, NEW f, f \in [1..n -> S]
  PROVE  f \in Seq(S) /\ Len(f) = n /\ DOMAIN f = 1..n
  OBVIOUS

Join(a, b) == a \o b

LEMMA JoinedAt ==
  ASSUME NEW S, NEW a, NEW b, a \in Seq(S), b \in Seq(S),
         NEW la, NEW lb, Len(a) = la, Len(b) = lb
  PROVE  /\ Join(a, b) \in Seq(S) /\ Len(Join(a, b)) = la + lb
         /\ \A k \in 1..la : Join(a, b)[k] = a[k]
         /\ \A k \in 1..lb : Join(a, b)[la + k] = b[k]
<1> DEFINE ab == Join(a, b)
<1>1. /\ ab \in Seq(S) /\ Len(ab) = la + lb
      /\ \A i \in 1..(la + lb) : ab[i] = IF i <= la THEN a[i] ELSE b[i - la]
  BY ConcatProperties, Zenon DEF Join
<1>2. la \in Nat /\ lb \in Nat
  BY LenProperties, Zenon
<1> HIDE DEF ab
<1>3. ASSUME NEW k \in 1..la PROVE ab[k] = a[k]
  <2>1. k \in 1..(la + lb) /\ k <= la
    BY <1>2
  <2> QED BY <1>1, <2>1
<1>4. ASSUME NEW k \in 1..lb PROVE ab[la + k] = b[k]
  <2>1. la + k \in 1..(la + lb) /\ ~(la + k <= la) /\ la + k - la = k
    BY <1>2
  <2> QED BY <1>1, <2>1, SMTT(30)
<1> QED BY <1>1, <1>3, <1>4, Zenon DEF ab

AnyClaim ==
  [region : Region, Type : MemoryTypes \ {Conventional}, byFirmware : BOOLEAN]

FirmwareClaim(k) == Claim(fdt.firmware[k], IF k = 1 THEN FirmwareCode ELSE BootData, TRUE)

ClaimList ==
  LET m == Len(fdt.reserveMap)
      c == Len(fdt.reserved)
  IN /\ m \in Nat /\ c \in Nat
     /\ DOMAIN Claims = 1..(m + c + 5)
     /\ \A k \in DOMAIN Claims : Claims[k] \in AnyClaim
     /\ Claims[1] = Claim(fdt.blob, AcpiReclaim, FALSE)
     /\ \A k \in 1..m : Claims[1 + k] = Claim(fdt.reserveMap[k], Reserved, FALSE)
     /\ \A k \in 1..c : Claims[1 + m + k] =
          Claim(fdt.reserved[k].region,
                reserved_memory_type_to_efi(fdt.reserved[k].noMap), FALSE)
     /\ \A k \in 1..4 : Claims[1 + m + c + k] = FirmwareClaim(k)

LEMMA ClaimsInOrder ==
  ASSUME fdt \in Fdts
  PROVE  ClaimList
<1> DEFINE m == Len(fdt.reserveMap)
           c == Len(fdt.reserved)
           A == <<Claim(fdt.blob, AcpiReclaim, FALSE)>>
           B == [k \in DOMAIN fdt.reserveMap |-> Claim(fdt.reserveMap[k], Reserved, FALSE)]
           C == [k \in DOMAIN fdt.reserved |->
                   Claim(fdt.reserved[k].region,
                         IF fdt.reserved[k].noMap THEN Reserved ELSE BootData, FALSE)]
           D == [k \in 1..4 |-> FirmwareClaim(k)]
<1>1. /\ fdt.blob \in Region
      /\ fdt.reserveMap \in Seq(Region)
      /\ fdt.reserved \in Seq([region : Region, noMap : BOOLEAN])
      /\ fdt.firmware \in [1..4 -> Region]
  BY InputAssumption DEF Fdt
<1>2. m \in Nat /\ c \in Nat /\ DOMAIN fdt.reserveMap = 1..m /\ DOMAIN fdt.reserved = 1..c
  BY <1>1
<1>3. A \in Seq(AnyClaim) /\ Len(A) = 1 /\ A[1] = Claim(fdt.blob, AcpiReclaim, FALSE)
  <2>1. Claim(fdt.blob, AcpiReclaim, FALSE) \in AnyClaim
    BY <1>1 DEF Claim, AnyClaim, MemoryTypes, AcpiReclaim, Conventional
  <2>2. \A x \in AnyClaim : <<x>> \in Seq(AnyClaim) /\ Len(<<x>>) = 1 /\ <<x>>[1] = x
    <3> HIDE DEF A, B, C, D
    <3> QED OBVIOUS
  <2> QED BY <2>1, <2>2, Zenon
<1>4. B \in Seq(AnyClaim) /\ Len(B) = m
  <2>1. \A k \in 1..m : Claim(fdt.reserveMap[k], Reserved, FALSE) \in AnyClaim
    BY <1>1 DEF Claim, AnyClaim, MemoryTypes, Reserved, Conventional
  <2>2. B \in [1..m -> AnyClaim]
    BY <1>2, <2>1
  <2> HIDE DEF A, B, C, D
  <2> QED BY <1>2, <2>2, SeqOfFunction, Zenon
<1>5. C \in Seq(AnyClaim) /\ Len(C) = c
  <2> DEFINE Child == [region : Region, noMap : BOOLEAN]
  <2>1. fdt.reserved \in Seq(Child)
    BY <1>1
  <2> HIDE DEF Child
  <2>2. \A k \in 1..c : fdt.reserved[k] \in Child
    BY <2>1
  <2>3. \A k \in 1..c : fdt.reserved[k].region \in Region
    BY <2>2 DEF Child
  <2>4. \A k \in 1..c :
          Claim(fdt.reserved[k].region,
                IF fdt.reserved[k].noMap THEN Reserved ELSE BootData, FALSE) \in AnyClaim
    BY <2>3 DEF Claim, AnyClaim, MemoryTypes, Reserved, BootData, Conventional
  <2>5. C \in [1..c -> AnyClaim]
    BY <1>2, <2>4
  <2> HIDE DEF A, B, C, D
  <2> QED BY <1>2, <2>5, SeqOfFunction, Zenon
<1>6. D \in Seq(AnyClaim) /\ Len(D) = 4
  <2>1. \A k \in 1..4 : FirmwareClaim(k) \in AnyClaim
    BY <1>1 DEF FirmwareClaim, Claim, AnyClaim, MemoryTypes, FirmwareCode, BootData, Conventional
  <2>2. D \in [1..4 -> AnyClaim]
    BY <2>1
  <2> HIDE DEF A, B, C, D
  <2>3. 4 \in Nat
    OBVIOUS
  <2> QED BY <2>2, <2>3, SeqOfFunction, Zenon
<1>7. /\ \A k \in 1..m : B[k] = Claim(fdt.reserveMap[k], Reserved, FALSE)
      /\ \A k \in 1..c : C[k] = Claim(fdt.reserved[k].region,
                                reserved_memory_type_to_efi(fdt.reserved[k].noMap), FALSE)
      /\ \A k \in 1..4 : D[k] = FirmwareClaim(k)
  BY <1>2 DEF reserved_memory_type_to_efi
<1>8. Claims = Join(Join(Join(A, B), C), D)
  BY Zenon DEF Claims, Join, FirmwareClaim
<1> HIDE DEF A, B, C, D, m, c
<1>9. /\ Join(A, B) \in Seq(AnyClaim) /\ Len(Join(A, B)) = 1 + m
      /\ \A k \in 1..1 : Join(A, B)[k] = A[k]
      /\ \A k \in 1..m : Join(A, B)[1 + k] = B[k]
  <2>1. ASSUME NEW n, n = 1
        PROVE  /\ Join(A, B) \in Seq(AnyClaim) /\ Len(Join(A, B)) = n + m
               /\ \A k \in 1..n : Join(A, B)[k] = A[k]
               /\ \A k \in 1..m : Join(A, B)[n + k] = B[k]
    <3>1. Len(A) = n
      BY <1>3, <2>1
    <3>2. A \in Seq(AnyClaim) /\ B \in Seq(AnyClaim) /\ Len(B) = m
      BY <1>3, <1>4
    <3> QED BY <3>1, <3>2, JoinedAt
  <2> QED BY <2>1
<1> DEFINE AB == Join(A, B)
           ABC == Join(AB, C)
<1> HIDE DEF AB
<1>10. /\ ABC \in Seq(AnyClaim) /\ Len(ABC) = 1 + m + c
       /\ \A k \in 1..(1 + m) : ABC[k] = AB[k]
       /\ \A k \in 1..c : ABC[1 + m + k] = C[k]
  BY <1>5, <1>9, JoinedAt, SMTT(30) DEF AB
<1> HIDE DEF ABC
<1>11. /\ Join(ABC, D) \in Seq(AnyClaim) /\ Len(Join(ABC, D)) = 1 + m + c + 4
       /\ \A k \in 1..(1 + m + c) : Join(ABC, D)[k] = ABC[k]
       /\ \A k \in 1..4 : Join(ABC, D)[1 + m + c + k] = D[k]
  <2>1. ASSUME NEW n, n = 4
        PROVE  /\ Join(ABC, D) \in Seq(AnyClaim) /\ Len(Join(ABC, D)) = 1 + m + c + n
               /\ \A k \in 1..(1 + m + c) : Join(ABC, D)[k] = ABC[k]
               /\ \A k \in 1..n : Join(ABC, D)[1 + m + c + k] = D[k]
    <3>1. Len(D) = n
      BY <1>6, <2>1
    <3>2. ABC \in Seq(AnyClaim) /\ D \in Seq(AnyClaim) /\ Len(ABC) = 1 + m + c
      BY <1>6, <1>10
    <3> QED BY <3>1, <3>2, JoinedAt, SMTT(30)
  <2> QED BY <2>1
<1>12. Claims = Join(ABC, D)
  BY <1>8 DEF ABC, AB
<1>13. m \in Nat /\ c \in Nat
  BY <1>2
<1>14. DOMAIN Claims = 1..(m + c + 5) /\ \A k \in DOMAIN Claims : Claims[k] \in AnyClaim
  <2>1. Claims \in Seq(AnyClaim) /\ Len(Claims) = 1 + m + c + 4
    BY <1>11, <1>12
  <2>2. DOMAIN Claims = 1..Len(Claims) /\ \A k \in 1..Len(Claims) : Claims[k] \in AnyClaim
    BY <2>1
  <2>3. Len(Claims) = m + c + 5
    BY <1>13, <2>1
  <2> QED BY <2>2, <2>3
<1>15. Claims[1] = A[1]
  <2>1. 1 \in 1..1 /\ 1 \in 1..(1 + m) /\ 1 \in 1..(1 + m + c)
    BY <1>13
  <2> QED BY <1>9, <1>10, <1>11, <1>12, <2>1 DEF AB
<1>16. ASSUME NEW k \in 1..m PROVE Claims[1 + k] = B[k]
  <2>1. 1 + k \in 1..(1 + m) /\ 1 + k \in 1..(1 + m + c)
    BY <1>13
  <2> QED BY <1>9, <1>10, <1>11, <1>12, <2>1 DEF AB
<1>17. ASSUME NEW k \in 1..c PROVE Claims[1 + m + k] = C[k]
  <2>1. 1 + m + k \in 1..(1 + m + c)
    BY <1>13
  <2> QED BY <1>10, <1>11, <1>12, <2>1
<1>18. \A k \in 1..4 : Claims[1 + m + c + k] = D[k]
  BY <1>11, <1>12
<1> QED BY <1>3, <1>7, <1>13, <1>14, <1>15, <1>16, <1>17, <1>18, Zenon DEF ClaimList, m, c

LEMMA ClaimsAreTyped ==
  ASSUME fdt \in Fdts
  PROVE  ClaimsTyped
<1>1. ClaimList
  BY ClaimsInOrder
<1>2. /\ Len(fdt.reserveMap) \in Nat /\ Len(fdt.reserved) \in Nat
      /\ DOMAIN Claims = 1..(Len(fdt.reserveMap) + Len(fdt.reserved) + 5)
      /\ \A k \in DOMAIN Claims : Claims[k] \in AnyClaim
  BY <1>1 DEF ClaimList
<1>3. DOMAIN Claims \subseteq Nat \ {0}
  <2>1. \A n : 1..n \subseteq Nat \ {0}
    OBVIOUS
  <2> QED BY <1>2, <2>1, Zenon
<1> QED BY <1>2, <1>3 DEF ClaimsTyped, AnyClaim

\* The page range of a claim is the set of pages it touches, that of a RAM
\* region the set of pages it fills.
LEMMA BelowPageUp ==
  ASSUME NEW x \in Nat, NEW q \in Nat
  PROVE  q * PageSize < x <=> q < PageUp(x)
<1> DEFINE y == x + PageSize - 1
<1>1. PageSize \in Nat \ {0} /\ y \in Nat /\ q + 1 \in Nat
  BY SizeAssumption
<1>2. q + 1 <= y \div PageSize <=> (q + 1) * PageSize <= y
  BY <1>1, DivFits
<1>3. (q + 1) * PageSize = q * PageSize + PageSize /\ q * PageSize \in Nat
  BY <1>1
<1>4. (q + 1) * PageSize <= y <=> q * PageSize < x
  BY <1>1, <1>3
<1>5. PageUp(x) \in Nat /\ PageUp(x) = y \div PageSize
  BY PageDownNat DEF PageUp
<1> QED BY <1>2, <1>4, <1>5

LEMMA FromPageDown ==
  ASSUME NEW x \in Nat, NEW q \in Nat
  PROVE  x < (q + 1) * PageSize <=> PageDown(x) <= q
<1>1. PageSize \in Nat \ {0} /\ q + 1 \in Nat
  BY SizeAssumption
<1>2. q + 1 <= x \div PageSize <=> (q + 1) * PageSize <= x
  BY <1>1, DivFits
<1>3. (q + 1) * PageSize \in Nat
  BY <1>1
<1>4. PageDown(x) \in Nat /\ PageDown(x) = x \div PageSize
  BY PageDownNat DEF PageDown
<1> QED BY <1>2, <1>3, <1>4

LEMMA TouchedPages ==
  ASSUME NEW r \in Region, NEW q \in Nat
  PROVE  Touches(r, q) <=> RegionStart(r, TRUE) <= q /\ q < RegionEnd(r, TRUE)
<1>1. r.base \in Nat /\ r.size \in Nat /\ r.base + r.size \in Nat
  BY MaxAddressNat DEF Region
<1>2. q * PageSize < r.base + r.size <=> q < PageUp(r.base + r.size)
  BY <1>1, BelowPageUp
<1>3. r.base < (q + 1) * PageSize <=> PageDown(r.base) <= q
  BY <1>1, FromPageDown
<1> QED BY <1>2, <1>3 DEF Touches, RegionStart, RegionEnd

LEMMA FilledPages ==
  ASSUME NEW r \in Region, NEW q \in Nat
  PROVE  Fills(r, q) <=> RamStart(r) <= q /\ q < RamEnd(r)
<1>1. r.base \in Nat /\ r.size \in Nat /\ r.base + r.size \in Nat
  BY MaxAddressNat DEF Region
<1>2. q * PageSize < r.base <=> q < PageUp(r.base)
  BY <1>1, BelowPageUp
<1>3. r.base + r.size < (q + 1) * PageSize <=> PageDown(r.base + r.size) <= q
  BY <1>1, FromPageDown
<1>4. /\ PageUp(r.base) \in Nat /\ PageDown(r.base + r.size) \in Nat
      /\ q * PageSize \in Nat /\ (q + 1) * PageSize \in Nat
  BY <1>1, PageDownNat, SizeAssumption
<1>5. /\ r.base <= q * PageSize <=> PageUp(r.base) <= q
      /\ (q + 1) * PageSize <= r.base + r.size <=> q < PageDown(r.base + r.size)
  BY <1>1, <1>2, <1>3, <1>4
<1> QED BY <1>5 DEF Fills, RegionStart, RegionEnd, RamStart, RamEnd

\* Claims already made, by the position in from_fdt.
Done ==
  CASE phase = "fdt"             -> region - 1
    [] phase = "reserve_map"     -> region
    [] phase = "reserved_memory" -> Len(fdt.reserveMap) + region
    [] phase = "firmware"        -> Len(fdt.reserveMap) + Len(fdt.reserved) + region
    [] OTHER                     -> 0

Claiming == phase \in {"fdt", "reserve_map", "reserved_memory", "firmware"}

\* No list is left before its end, and the blob is reserved once.
ListPosition ==
  phase = "memory" \/ Claiming =>
    /\ region <= ListLength + 1
    /\ loop = "carve" => region <= ListLength
    /\ loop = "coalesce" => region = ListLength + 1
    /\ phase = "fdt" /\ loop = "none" => region = 1

\* The pages that the RAM regions read so far fill are free, nobody holds the
\* others.
RamSoFar ==
  phase = "memory" =>
    \A q \in Pages :
      TypeAt(q) = IF \E k \in 1..(region - 1) : Fills(fdt.memory[k], q)
                  THEN Conventional ELSE "none"

\* The running carve is for claim k.
RangeIsClaim(k) ==
  /\ range.Type = Claims[k].Type
  /\ range.from = Retypable(k)
  /\ \A q \in Pages : (range.start <= q /\ q < range.end) <=> k \in ClaimsOn(q)

\* Below this page the carve has nothing more to do.
Reached == IF index = 1 THEN 0 ELSE End(index - 1)

\* The claims made so far have had their effect, and the running one has on
\* the pages its loop has passed.
ClaimsSoFar ==
  Claiming =>
    /\ loop # "carve" => \A q \in Pages : TypeAt(q) = TypeAfter(q, Done)
    /\ loop = "carve" =>
         /\ index <= descriptor_count + 1
         /\ RangeIsClaim(Done + 1)
         /\ \A q \in Pages :
              TypeAt(q) = TypeAfter(q, IF q < Reached THEN Done + 1 ELSE Done)

MatchInv == ListPosition /\ RamSoFar /\ ClaimsSoFar

\* What the device tree asks for does not change.
LEMMA SameClaims ==
  ASSUME UNCHANGED fdt
  PROVE  /\ Claims' = Claims
         /\ \A q : ClaimsOn(q)' = ClaimsOn(q)
         /\ \A q, n : TypeAfter(q, n)' = TypeAfter(q, n)
         /\ \A k : Retypable(k)' = Retypable(k)
<1>1. Claims' = Claims
  BY DEF Claims
<1>2. \A q : ClaimsOn(q)' = ClaimsOn(q)
  BY <1>1 DEF ClaimsOn
<1>3. \A q : InRam(q)' <=> InRam(q)
  BY DEF InRam
<1>4. \A q, n : ClaimsUpTo(q, n)' = ClaimsUpTo(q, n)
  BY <1>2 DEF ClaimsUpTo
<1>5. \A S : Takers(S)' = Takers(S)
  BY <1>1 DEF Takers
<1>6. \A q, n : TypeAfter(q, n)' = TypeAfter(q, n)
  BY <1>1, <1>3, <1>4, <1>5, Zenon DEF TypeAfter
<1> QED BY <1>1, <1>2, <1>6 DEF Retypable

\* A claim that is not about the page, or may not retype it, changes nothing.
LEMMA ClaimPasses ==
  ASSUME fdt \in Fdts, NEW q, NEW n \in Nat,
         n + 1 \notin ClaimsOn(q) \/ TypeAfter(q, n) \notin Retypable(n + 1)
  PROVE  TypeAfter(q, n + 1) = TypeAfter(q, n)
  BY ClaimsAreTyped, OneMoreClaim

LEMMA ClaimTakes ==
  ASSUME fdt \in Fdts, NEW q, NEW n \in Nat,
         n + 1 \in ClaimsOn(q), TypeAfter(q, n) \in Retypable(n + 1)
  PROVE  TypeAfter(q, n + 1) = Claims[n + 1].Type
  BY ClaimsAreTyped, OneMoreClaim

\* BeginCarve rounds the region of a claim to the pages the claim is about.
BeginsClaim(k) ==
  \/ phase' = "failed"
  \/ RegionDone /\ \A q \in Pages : k \notin ClaimsOn(q)
  \/ /\ loop' = "carve" /\ index' = 1
     /\ UNCHANGED <<fdt, phase, region, mapVars>>
     /\ RangeIsClaim(k)'

LEMMA CarveForClaim ==
  ASSUME fdt \in Fdts, NEW k \in DOMAIN Claims,
         Claims[k].byFirmware => Claims[k].region.size # 0,
         BeginCarve(Claims[k].region, Claims[k].Type, Retypable(k))
  PROVE  BeginsClaim(k)
<1> DEFINE r == Claims[k].region
           first == RegionStart(r, TRUE)
           last == RegionEnd(r, TRUE)
<1>1. r \in Region
  <2>1. Claims[k] \in AnyClaim
    BY ClaimsInOrder, Zenon DEF ClaimList
  <2> QED BY <2>1 DEF AnyClaim
<1>2. \A q \in Pages : k \in ClaimsOn(q) <=> first <= q /\ q < last
  <2> SUFFICES ASSUME NEW q \in Pages
               PROVE  k \in ClaimsOn(q) <=> first <= q /\ q < last
    OBVIOUS
  <2>1. q \in Nat
    BY SizeAssumption DEF Pages
  <2>2. k \in ClaimsOn(q) <=> Touches(r, q)
    BY Zenon DEF ClaimsOn
  <2> QED BY <1>1, <2>1, <2>2, TouchedPages
<1>3. CASE Fail("AddressOverflow")
  BY <1>3 DEF Fail, BeginsClaim
<1>4. CASE ~RegionOverflows(r, TRUE) /\ last <= first /\ RegionDone
  <2>1. first \in Nat /\ last \in 0..TopPage
    BY <1>1, <1>4, RegionPages
  <2>2. ASSUME NEW q \in Pages PROVE k \notin ClaimsOn(q)
    <3>1. q \in Nat /\ TopPage \in Nat
      BY SizeAssumption DEF Pages
    <3> HIDE DEF first, last
    <3> QED BY <1>2, <1>4, <2>1, <3>1
  <2> QED BY <1>4, <2>2 DEF BeginsClaim
<1>5. CASE /\ loop' = "carve" /\ index' = 1
           /\ range' = [start |-> first, end |-> last,
                        Type |-> Claims[k].Type, from |-> Retypable(k)]
           /\ UNCHANGED <<fdt, phase, region, mapVars>>
  <2>1. /\ Claims' = Claims /\ Retypable(k)' = Retypable(k)
        /\ \A q : ClaimsOn(q)' = ClaimsOn(q)
    BY <1>5, SameClaims
  <2>2. /\ range'.start = first /\ range'.end = last
        /\ range'.Type = Claims[k].Type /\ range'.from = Retypable(k)
    BY <1>5
  <2>3. Pages' = Pages
    BY DEF Pages
  <2> HIDE DEF first, last
  <2>4. RangeIsClaim(k)'
    BY <1>2, <2>1, <2>2, <2>3, Zenon DEF RangeIsClaim
  <2> QED BY <1>5, <2>4 DEF BeginsClaim
<1> QED BY <1>3, <1>4, <1>5, Zenon DEF BeginCarve

\* The position in the lists is the position among the claims.
LEMMA DoneAt ==
  ASSUME fdt \in Fdts, ListsFit, Claiming, region \in Nat \ {0}
  PROVE  /\ Done \in Nat
         /\ region <= ListLength => Done + 1 \in DOMAIN Claims
         /\ region <= ListLength + 1 => Done <= Len(fdt.reserveMap) + Len(fdt.reserved) + 5
<1>1. /\ Len(fdt.reserveMap) \in Nat /\ Len(fdt.reserved) \in Nat
      /\ DOMAIN Claims = 1..(Len(fdt.reserveMap) + Len(fdt.reserved) + 5)
  BY ClaimsInOrder, Zenon DEF ClaimList
<1>2. Len(fdt.reserveMap) <= MaxReservedRegions
  BY DEF ListsFit
<1> DEFINE m == Len(fdt.reserveMap)
           c == Len(fdt.reserved)
<1>3. /\ phase = "fdt" => ListLength = 1 /\ Done = region - 1
      /\ phase = "reserve_map" => ListLength = m /\ Done = region
      /\ phase = "reserved_memory" => ListLength = c /\ Done = m + region
      /\ phase = "firmware" => ListLength = 4 /\ Done = m + c + region
  <2>1. Shorter(m, MaxReservedRegions) = m
    BY <1>1, <1>2, SizeAssumption DEF Shorter
  <2> HIDE DEF m
  <2>2. phase = "fdt" => ListLength = 1 /\ Done = region - 1
    BY DEF ListLength, Done
  <2>3. phase = "reserve_map" => ListLength = Shorter(m, MaxReservedRegions) /\ Done = region
    BY DEF ListLength, Done, m
  <2>4. phase = "reserved_memory" => ListLength = c /\ Done = m + region
    BY DEF ListLength, Done, m
  <2>5. phase = "firmware" => ListLength = 4 /\ Done = m + c + region
    BY DEF ListLength, Done, m
  <2> QED BY <2>1, <2>2, <2>3, <2>4, <2>5
<1> HIDE DEF m, c
<1>4. m \in Nat /\ c \in Nat /\ DOMAIN Claims = 1..(m + c + 5)
  BY <1>1 DEF m, c
<1>5. Done \in Nat
  BY <1>3, <1>4 DEF Claiming
<1>6. ASSUME region <= ListLength PROVE Done + 1 \in 1..(m + c + 5)
  BY <1>3, <1>4, <1>6 DEF Claiming
<1>7. ASSUME region <= ListLength + 1 PROVE Done <= m + c + 5
  BY <1>3, <1>4, <1>7 DEF Claiming
<1> QED BY <1>4, <1>5, <1>6, <1>7 DEF m, c

\* Each reservation is for the claim that is next in line.
ClaimStep ==
  reserve_original_fdt \/ add_reserved_region \/ add_static_reserved_region \/ add_firmware_region

LEMMA NextClaimBegins ==
  ASSUME IndInv, ListsFit, ListPosition, ClaimStep
  PROVE  Claiming /\ loop = "none" /\ Done \in Nat /\ BeginsClaim(Done + 1)
<1> DEFINE m == Len(fdt.reserveMap)
           c == Len(fdt.reserved)
           k == Done + 1
<1>0. fdt \in Fdts /\ region \in Nat \ {0}
  BY DEF IndInv, TypeOK
<1>1. /\ m \in Nat /\ c \in Nat
      /\ Claims[1] = Claim(fdt.blob, AcpiReclaim, FALSE)
      /\ \A j \in 1..m : Claims[1 + j] = Claim(fdt.reserveMap[j], Reserved, FALSE)
      /\ \A j \in 1..c : Claims[1 + m + j] =
           Claim(fdt.reserved[j].region,
                 reserved_memory_type_to_efi(fdt.reserved[j].noMap), FALSE)
      /\ \A j \in 1..4 : Claims[1 + m + c + j] = FirmwareClaim(j)
  BY <1>0, ClaimsInOrder, Zenon DEF ClaimList
<1>2. Claiming /\ loop = "none"
  BY DEF ClaimStep, reserve_original_fdt, add_reserved_region, add_static_reserved_region,
     add_firmware_region, Claiming
<1>3. region <= ListLength
  <2>1. CASE reserve_original_fdt
    <3>1. phase = "fdt" /\ loop = "none"
      BY <2>1 DEF reserve_original_fdt
    <3> QED BY <3>1 DEF ListLength, ListPosition, Claiming
  <2> QED BY <2>1 DEF ClaimStep, add_reserved_region, add_static_reserved_region,
             add_firmware_region
<1>4. Done \in Nat /\ k \in DOMAIN Claims
  BY <1>0, <1>2, <1>3, DoneAt
<1>6. CASE reserve_original_fdt
  <2>1. phase = "fdt" /\ BeginCarve(fdt.blob, AcpiReclaim, {Conventional, Reserved})
    BY <1>6 DEF reserve_original_fdt, add_reserved_region_with_type
  <2>2. Done = region - 1 /\ region = 1
    BY <1>2, <2>1 DEF Done, ListPosition
  <2>3. k = 1
    BY <2>2
  <2> HIDE DEF k
  <2>4. /\ Claims[k].region = fdt.blob /\ Claims[k].Type = AcpiReclaim
        /\ ~Claims[k].byFirmware
    <3>1. Claims[k] = Claim(fdt.blob, AcpiReclaim, FALSE)
      BY <1>1, <2>3, Zenon
    <3> QED BY <3>1 DEF Claim
  <2>5. Retypable(k) = {Conventional, Reserved}
    BY <2>4, Zenon DEF Retypable
  <2>6. BeginsClaim(k)
    BY <1>0, <1>4, <2>1, <2>4, <2>5, CarveForClaim
  <2> QED BY <1>2, <1>4, <2>6 DEF k
<1>7. CASE add_reserved_region
  <2>1. /\ phase = "reserve_map"
        /\ BeginCarve(fdt.reserveMap[region], Reserved, {Conventional, Reserved})
    BY <1>7 DEF add_reserved_region, add_reserved_region_with_type
  <2>2. Done = region /\ ListLength = Shorter(m, MaxReservedRegions)
    BY <2>1 DEF Done, ListLength
  <2>3. region \in 1..m /\ k = 1 + region
    BY <1>0, <1>1, <1>3, <2>2, SizeAssumption DEF Shorter
  <2> HIDE DEF k
  <2>4. /\ Claims[k].region = fdt.reserveMap[region] /\ Claims[k].Type = Reserved
        /\ ~Claims[k].byFirmware
    <3>1. Claims[k] = Claim(fdt.reserveMap[region], Reserved, FALSE)
      BY <1>1, <2>3
    <3> QED BY <3>1 DEF Claim
  <2>5. Retypable(k) = {Conventional, Reserved}
    BY <2>4, Zenon DEF Retypable
  <2>6. BeginsClaim(k)
    BY <1>0, <1>4, <2>1, <2>4, <2>5, CarveForClaim
  <2> QED BY <1>2, <1>4, <2>6 DEF k
<1>8. CASE add_static_reserved_region
  <2>1. /\ phase = "reserved_memory"
        /\ BeginCarve(fdt.reserved[region].region,
             reserved_memory_type_to_efi(fdt.reserved[region].noMap), {Conventional, Reserved})
    BY <1>8 DEF add_static_reserved_region, add_reserved_region_with_type
  <2>2. Done = m + region /\ ListLength = c
    BY <2>1 DEF Done, ListLength
  <2>3. region \in 1..c /\ k = 1 + m + region
    BY <1>0, <1>1, <1>3, <2>2
  <2> HIDE DEF k
  <2>4. /\ Claims[k].region = fdt.reserved[region].region
        /\ Claims[k].Type = reserved_memory_type_to_efi(fdt.reserved[region].noMap)
        /\ ~Claims[k].byFirmware
    <3>1. Claims[k] = Claim(fdt.reserved[region].region,
                            reserved_memory_type_to_efi(fdt.reserved[region].noMap), FALSE)
      BY <1>1, <2>3
    <3> QED BY <3>1 DEF Claim
  <2>5. Retypable(k) = {Conventional, Reserved}
    BY <2>4, Zenon DEF Retypable
  <2>6. BeginsClaim(k)
    BY <1>0, <1>4, <2>1, <2>4, <2>5, CarveForClaim
  <2> QED BY <1>2, <1>4, <2>6 DEF k
<1>9. CASE add_firmware_region
  <2>1. phase = "firmware"
    BY <1>9 DEF add_firmware_region
  <2>2. Done = m + c + region /\ ListLength = 4
    BY <2>1 DEF Done, ListLength
  <2>3. region \in 1..4 /\ k = 1 + m + c + region
    <3>1. m \in Nat /\ c \in Nat
      BY <1>1
    <3> HIDE DEF m, c
    <3> QED BY <1>0, <1>3, <2>2, <3>1
  <2> HIDE DEF k
  <2>4. /\ Claims[k].region = fdt.firmware[region]
        /\ Claims[k].Type = (IF region = 1 THEN FirmwareCode ELSE BootData)
        /\ Claims[k].byFirmware
    <3>1. Claims[k] = FirmwareClaim(region)
      BY <1>1, <2>3
    <3> QED BY <3>1 DEF FirmwareClaim, Claim
  <2>5. Retypable(k) = {Conventional}
    BY <2>4, Zenon DEF Retypable
  <2>6. CASE fdt.firmware[region].size = 0 /\ RegionDone
    <3>1. \A q \in Pages : k \notin ClaimsOn(q)
      BY <2>4, <2>6, Zenon DEF ClaimsOn
    <3>2. BeginsClaim(k)
      BY <2>6, <3>1 DEF BeginsClaim
    <3> QED BY <1>2, <1>4, <3>2 DEF k
  <2>7. CASE /\ fdt.firmware[region].size # 0
             /\ BeginCarve(fdt.firmware[region],
                           IF region = 1 THEN FirmwareCode ELSE BootData, {Conventional})
    <3>1. BeginsClaim(k)
      BY <1>0, <1>4, <2>4, <2>5, <2>7, CarveForClaim
    <3> QED BY <1>2, <1>4, <3>1 DEF k
  <2> QED BY <1>9, <2>6, <2>7, Zenon DEF add_firmware_region
<1> QED BY <1>6, <1>7, <1>8, <1>9 DEF ClaimStep

\* One region of a list dealt with is one claim made.
LEMMA DoneMovesOn ==
  ASSUME fdt \in Fdts, region \in Nat, Claiming, RegionDone
  PROVE  Done' = Done + 1 /\ Claiming' /\ loop' # "carve"
<1>1. /\ Len(fdt.reserveMap) \in Nat /\ Len(fdt.reserved) \in Nat
  BY ClaimsInOrder, Zenon DEF ClaimList
<1>2. phase' = phase /\ fdt' = fdt /\ region' = region + 1 /\ loop' # "carve"
  BY DEF RegionDone
<1> DEFINE m == Len(fdt.reserveMap)
           c == Len(fdt.reserved)
<1>3. /\ phase = "fdt" => Done = region - 1 /\ Done' = region' - 1
      /\ phase = "reserve_map" => Done = region /\ Done' = region'
      /\ phase = "reserved_memory" => Done = m + region /\ Done' = m + region'
      /\ phase = "firmware" => Done = m + c + region /\ Done' = m + c + region'
  BY <1>2 DEF Done
<1> HIDE DEF m, c
<1>4. m \in Nat /\ c \in Nat
  BY <1>1 DEF m, c
<1>5. Done' = Done + 1
  BY <1>2, <1>3, <1>4 DEF Claiming
<1> QED BY <1>2, <1>5 DEF Claiming

LEMMA ClaimStepMatches ==
  ASSUME IndInv, ListsFit, MatchInv, ClaimStep
  PROVE  RamSoFar' /\ ClaimsSoFar'
<1>0. fdt \in Fdts /\ region \in Nat
  BY DEF IndInv, TypeOK
<1>1. Claiming /\ loop = "none" /\ Done \in Nat /\ BeginsClaim(Done + 1)
  BY NextClaimBegins DEF MatchInv
<1>2. \A q \in Pages : TypeAt(q) = TypeAfter(q, Done)
  BY <1>1 DEF MatchInv, ClaimsSoFar
<1>3. CASE phase' = "failed"
  BY <1>3 DEF RamSoFar, ClaimsSoFar, Claiming
<1>4. CASE RegionDone /\ \A q \in Pages : Done + 1 \notin ClaimsOn(q)
  <2>1. Done' = Done + 1 /\ Claiming' /\ loop' # "carve"
    BY <1>0, <1>1, <1>4, DoneMovesOn
  <2>2. /\ \A q \in Pages : TypeAt(q)' = TypeAt(q)
        /\ \A q, n : TypeAfter(q, n)' = TypeAfter(q, n)
    BY <1>4, SameMapSameTypes, SameClaims DEF RegionDone, SameTypes
  <2>3. \A q \in Pages : TypeAfter(q, Done + 1) = TypeAfter(q, Done)
    BY <1>0, <1>1, <1>4, ClaimPasses
  <2>4. \A q \in Pages : TypeAt(q)' = TypeAfter(q, Done)'
    BY <1>2, <2>1, <2>2, <2>3
  <2>5. phase' # "memory"
    BY <2>1 DEF Claiming
  <2> QED BY <2>1, <2>4, <2>5 DEF RamSoFar, ClaimsSoFar, Pages
<1>5. CASE /\ loop' = "carve" /\ index' = 1
           /\ UNCHANGED <<fdt, phase, region, mapVars>>
           /\ RangeIsClaim(Done + 1)'
  <2>1. Done' = Done /\ Claiming' /\ Reached' = 0
    BY <1>1, <1>5 DEF Done, Claiming, Reached
  <2>2. /\ \A q \in Pages : TypeAt(q)' = TypeAt(q)
        /\ \A q, n : TypeAfter(q, n)' = TypeAfter(q, n)
    BY <1>5, SameMapSameTypes, SameClaims DEF SameTypes
  <2>3. \A q \in Pages : TypeAt(q)' = TypeAfter(q, IF q < Reached THEN Done + 1 ELSE Done)'
    <3>1. \A q \in Pages : ~(q < 0)
      BY SizeAssumption DEF Pages
    <3> QED BY <1>2, <2>1, <2>2, <3>1
  <2>4. phase' # "memory"
    BY <2>1 DEF Claiming
  <2>5. (index <= descriptor_count + 1)'
    BY <1>5, SizeAssumption DEF mapVars, IndInv, TypeOK
  <2> QED BY <1>5, <2>1, <2>3, <2>4, <2>5 DEF RamSoFar, ClaimsSoFar, Pages
<1> QED BY <1>1, <1>3, <1>4, <1>5, Zenon DEF BeginsClaim

\* The carve loop: below Reached it is done, and between there and the
\* descriptor it looks at no descriptor holds a page.
LEMMA HeldType ==
  ASSUME MapTyped, Ordered, Disjoint, NEW q \in Nat, NEW i \in Live, Holds(i, q)
  PROVE  TypeAt(q) = descriptors[i].Type
<1>1. \A j \in Live : Holds(j, q) => descriptors[j].Type = descriptors[i].Type
  BY OneHolder
<1> QED BY <1>1, TypeAtHolder

LEMMA ReachedFacts ==
  ASSUME MapTyped, Ordered, Disjoint, index \in Nat \ {0}, index <= descriptor_count + 1
  PROVE  /\ Reached \in Nat
         /\ index <= descriptor_count => Reached <= Start(index)
         /\ \A j \in Live : j < index => End(j) <= Reached
<1>1. descriptor_count \in Nat
  BY SizeAssumption DEF MapTyped
<1>2. CASE index = 1
  <2>1. Reached = 0
    BY <1>2 DEF Reached
  <2>2. \A j \in Live : ~(j < index)
    BY <1>2 DEF Live
  <2>3. index <= descriptor_count => Start(index) \in Nat
    BY <1>1, <1>2, LiveFacts DEF Live
  <2> QED BY <2>1, <2>2, <2>3
<1>3. CASE index # 1
  <2>1. index - 1 \in Live /\ Reached = End(index - 1)
    BY <1>1, <1>3 DEF Live, Reached
  <2>2. Reached \in Nat /\ Start(index - 1) < Reached /\ Start(index - 1) \in Nat
    BY <2>1, ContentsFacts
  <2>3. ASSUME index <= descriptor_count PROVE Reached <= Start(index)
    <3>1. index \in Live /\ index - 1 < index
      BY <1>1, <2>3 DEF Live
    <3> QED BY <2>1, <3>1 DEF Disjoint
  <2>4. ASSUME NEW j \in Live, j < index PROVE End(j) <= Reached
    <3>1. j \in Nat /\ (j = index - 1 \/ j < index - 1)
      BY <1>1, <2>4 DEF Live
    <3>2. CASE j = index - 1
      BY <2>1, <2>2, <3>2
    <3>3. CASE j < index - 1
      <4>1. End(j) <= Start(index - 1) /\ End(j) \in Nat
        BY <2>1, <3>3, LiveFacts DEF Disjoint
      <4> QED BY <2>2, <4>1
    <3> QED BY <3>1, <3>2, <3>3
  <2> QED BY <2>2, <2>3, <2>4
<1> QED BY <1>2, <1>3

LEMMA GapIsEmpty ==
  ASSUME MapTyped, Ordered, Disjoint, index \in Nat \ {0}, index <= descriptor_count + 1,
         NEW q \in Nat, Reached <= q, index <= descriptor_count => q < Start(index)
  PROVE  TypeAt(q) = "none"
<1> SUFFICES ASSUME NEW j \in Live, Holds(j, q) PROVE FALSE
  BY TypeAtNobody
<1>1. j \in Nat /\ Start(j) \in Nat /\ End(j) \in Nat /\ Start(j) <= q /\ q < End(j)
  BY LiveFacts DEF Holds
<1>2. CASE j < index
  <2>1. End(j) <= Reached /\ Reached \in Nat
    BY <1>2, ReachedFacts
  <2> QED BY <1>1, <2>1
<1>3. CASE j >= index
  <2>1. index \in Live /\ index <= descriptor_count
    BY <1>1, <1>3, SizeAssumption DEF Live, MapTyped
  <2>2. Start(index) \in Nat /\ Start(index) <= Start(j)
    <3>1. CASE index = j
      BY <1>1, <3>1
    <3>2. CASE index < j
      BY <2>1, <3>2, LiveFacts DEF Ordered
    <3> QED BY <1>1, <1>3, <3>1, <3>2
  <2> QED BY <1>1, <2>1, <2>2
<1> QED BY <1>1, <1>2, <1>3

\* The facts of a carve in progress.
LEMMA CarveFacts ==
  ASSUME IndInv, ListsFit, MatchInv, loop = "carve"
  PROVE  /\ fdt \in Fdts /\ Claiming /\ Done \in Nat
         /\ MapTyped /\ Ordered /\ Disjoint /\ Agreed
         /\ index \in Nat \ {0} /\ index <= descriptor_count + 1 /\ descriptor_count \in Nat
         /\ range.start \in Nat /\ range.end \in Nat /\ range.start < range.end
         /\ range.Type \in MemoryTypes
         /\ RangeIsClaim(Done + 1)
         /\ \A q \in Pages :
              TypeAt(q) = TypeAfter(q, IF q < Reached THEN Done + 1 ELSE Done)
<1>1. Claiming /\ phase \notin {"memory", "failed"} /\ range.start < range.end
  BY DEF IndInv, ControlSound, Claiming
<1>2. /\ fdt \in Fdts /\ region \in Nat \ {0} /\ index \in Nat \ {0} /\ descriptor_count \in Nat
      /\ range.start \in Nat /\ range.end \in Nat /\ range.Type \in MemoryTypes
  BY SizeAssumption DEF IndInv, TypeOK, RangeArguments
<1>3. Done \in Nat
  BY <1>1, <1>2, DoneAt
<1>4. MapTyped /\ Ordered /\ Disjoint /\ Agreed
  BY <1>1, Parts, MapsAgree
<1>5. /\ index <= descriptor_count + 1 /\ RangeIsClaim(Done + 1)
      /\ \A q \in Pages :
           TypeAt(q) = TypeAfter(q, IF q < Reached THEN Done + 1 ELSE Done)
  BY <1>1, Zenon DEF MatchInv, ClaimsSoFar
<1> QED BY <1>1, <1>2, <1>3, <1>4, <1>5

\* A page the carve has not reached keeps its type through the claim if it is
\* outside the range or its type is not one the claim may take.
LEMMA CarveSkips ==
  ASSUME IndInv, ListsFit, MatchInv, loop = "carve", NEW q \in Pages, Reached <= q,
         ~(range.start <= q /\ q < range.end) \/ TypeAt(q) \notin range.from
  PROVE  TypeAt(q) = TypeAfter(q, Done + 1)
<1>1. /\ fdt \in Fdts /\ Done \in Nat /\ RangeIsClaim(Done + 1)
      /\ TypeAt(q) = TypeAfter(q, IF q < Reached THEN Done + 1 ELSE Done)
  BY CarveFacts
<1>2. ~(q < Reached)
  BY CarveFacts, ReachedFacts, SizeAssumption DEF Pages
<1>3. TypeAt(q) = TypeAfter(q, Done)
  BY <1>1, <1>2, Zenon
<1>4. Done + 1 \notin ClaimsOn(q) \/ TypeAfter(q, Done) \notin Retypable(Done + 1)
  BY <1>1, <1>3, Zenon DEF RangeIsClaim
<1>5. TypeAfter(q, Done + 1) = TypeAfter(q, Done)
  BY <1>1, <1>4, ClaimPasses
<1> QED BY <1>3, <1>5

LEMMA CarveExitMatches ==
  ASSUME IndInv, ListsFit, MatchInv, carve_exit
  PROVE  RamSoFar' /\ ClaimsSoFar'
<1>1. loop = "carve" /\ RegionDone /\ (index <= descriptor_count => Start(index) >= range.end)
  BY DEF carve_exit
<1>2. /\ fdt \in Fdts /\ Claiming /\ Done \in Nat /\ MapTyped /\ Ordered /\ Disjoint
      /\ index \in Nat \ {0} /\ index <= descriptor_count + 1 /\ descriptor_count \in Nat
      /\ range.end \in Nat
      /\ \A q \in Pages : TypeAt(q) = TypeAfter(q, IF q < Reached THEN Done + 1 ELSE Done)
  BY <1>1, CarveFacts
<1>3. "none" \notin range.from
  BY <1>1 DEF IndInv, ControlSound, Conventional, Reserved
<1>4. ASSUME NEW q \in Pages PROVE TypeAt(q) = TypeAfter(q, Done + 1)
  <2>1. q \in Nat /\ Reached \in Nat
    BY <1>2, ReachedFacts, SizeAssumption DEF Pages
  <2>2. CASE q < Reached
    BY <1>2, <2>2, Zenon
  <2>3. CASE Reached <= q /\ (index <= descriptor_count => q < Start(index))
    <3>1. TypeAt(q) = "none"
      BY <1>2, <2>1, <2>3, GapIsEmpty
    <3> QED BY <1>1, <1>3, <2>3, <3>1, CarveSkips
  <2>4. CASE Reached <= q /\ index <= descriptor_count /\ Start(index) <= q
    <3>1. index \in Live
      BY <1>2, <2>4 DEF Live
    <3>2. Start(index) \in Nat /\ Start(index) >= range.end
      BY <1>1, <1>2, <2>4, <3>1, LiveFacts
    <3>3. ~(range.start <= q /\ q < range.end)
      BY <1>2, <2>1, <2>4, <3>2
    <3> QED BY <1>1, <2>4, <3>3, CarveSkips
  <2>5. index <= descriptor_count => Start(index) \in Nat
    <3>1. index <= descriptor_count => index \in Live
      BY <1>2 DEF Live
    <3> QED BY <1>2, <3>1, LiveFacts
  <2> QED BY <2>1, <2>2, <2>3, <2>4, <2>5
<1>5. Done' = Done + 1 /\ Claiming' /\ loop' # "carve"
  BY <1>1, <1>2, DoneMovesOn DEF IndInv, TypeOK
<1>6. /\ \A q \in Pages : TypeAt(q)' = TypeAt(q)
      /\ \A q, n : TypeAfter(q, n)' = TypeAfter(q, n)
  BY <1>1, SameMapSameTypes, SameClaims DEF RegionDone, SameTypes
<1>7. \A q \in Pages : TypeAt(q)' = TypeAfter(q, Done)'
  BY <1>4, <1>5, <1>6
<1>8. phase' # "memory"
  BY <1>5 DEF Claiming
<1> QED BY <1>5, <1>7, <1>8 DEF RamSoFar, ClaimsSoFar, Pages

\* After an iteration the carve is done below the end of the descriptor it
\* passed, and below the end of the range if it has split that descriptor.
LEMMA CarveIterationMatches ==
  ASSUME IndInv, ListsFit, MatchInv, carve_iteration
  PROVE  RamSoFar' /\ ClaimsSoFar'
<1> DEFINE first == IF Start(index) > range.start THEN Start(index) ELSE range.start
           last == Shorter(End(index), range.end)
           pages == last - first
           Type == descriptors[index].Type
<1>1. loop = "carve" /\ index <= descriptor_count /\ Start(index) < range.end
  BY DEF carve_iteration
<1>2. /\ fdt \in Fdts /\ Claiming /\ Done \in Nat
      /\ MapTyped /\ Ordered /\ Disjoint /\ Agreed
      /\ index \in Nat \ {0} /\ index <= descriptor_count + 1 /\ descriptor_count \in Nat
      /\ range.start \in Nat /\ range.end \in Nat /\ range.start < range.end
      /\ range.Type \in MemoryTypes /\ RangeIsClaim(Done + 1)
  BY <1>1, CarveFacts
<1>3. \A q \in Pages : TypeAt(q) = TypeAfter(q, IF q < Reached THEN Done + 1 ELSE Done)
  BY <1>1, CarveFacts
<1>4. index \in Live
  BY <1>1, <1>2 DEF Live
<1>5. /\ Start(index) \in Nat /\ End(index) \in Nat /\ Start(index) < End(index)
      /\ Reached \in Nat /\ Reached <= Start(index)
  BY <1>1, <1>2, <1>4, ContentsFacts, ReachedFacts
<1>6. "none" \notin range.from
  BY <1>1 DEF IndInv, ControlSound, Conventional, Reserved
<1>7. ASSUME NEW q \in Pages, Reached <= q, q < Start(index)
      PROVE  TypeAt(q) = TypeAfter(q, Done + 1)
  <2>1. q \in Nat
    BY SizeAssumption DEF Pages
  <2>2. TypeAt(q) = "none"
    BY <1>2, <1>7, <2>1, GapIsEmpty
  <2> QED BY <1>1, <1>6, <1>7, <2>2, CarveSkips
<1>8. ASSUME NEW q \in Pages, Start(index) <= q, q < End(index)
      PROVE  TypeAt(q) = Type /\ TypeAt(q) = TypeAfter(q, Done) /\ Reached <= q
  <2>1. q \in Nat
    BY SizeAssumption DEF Pages
  <2>2. TypeAt(q) = Type
    BY <1>2, <1>4, <1>8, <2>1, HeldType DEF Holds
  <2>3. ~(q < Reached) /\ Reached <= q
    BY <1>5, <1>8, <2>1
  <2> QED BY <1>3, <2>2, <2>3, Zenon
<1>9. ASSUME UNCHANGED <<fdt, phase, region, loop, range>>,
             (index <= descriptor_count + 1)',
             NEW bound \in Nat, Reached' = bound,
             \A q \in Pages : TypeAt(q)' = TypeAfter(q, IF q < bound THEN Done + 1 ELSE Done)
      PROVE  RamSoFar' /\ ClaimsSoFar'
  <2>1. Done' = Done /\ Claiming' /\ phase' # "memory"
    BY <1>2, <1>9 DEF Done, Claiming
  <2>2. /\ Claims' = Claims /\ Retypable(Done + 1)' = Retypable(Done + 1)
        /\ \A q : ClaimsOn(q)' = ClaimsOn(q)
        /\ \A q, n : TypeAfter(q, n)' = TypeAfter(q, n)
    <3>1. \A k : Retypable(k)' = Retypable(k)
      BY <1>9, SameClaims
    <3> QED BY <1>9, <2>1, <3>1, SameClaims
  <2>3. RangeIsClaim(Done + 1)'
    BY <1>2, <1>9, <2>1, <2>2 DEF RangeIsClaim, Pages
  <2>4. \A q \in Pages : TypeAt(q)' = TypeAfter(q, IF q < Reached THEN Done + 1 ELSE Done)'
    BY <1>9, <2>1, <2>2
  <2> QED BY <1>1, <1>9, <2>1, <2>3, <2>4 DEF RamSoFar, ClaimsSoFar, Pages
<1>10. CASE /\ End(index) <= range.start \/ Type \notin range.from
            /\ index' = index + 1
            /\ UNCHANGED <<fdt, phase, region, loop, range, mapVars, result>>
  <2>1. Reached' = End(index)
    BY <1>2, <1>10 DEF Reached, End, mapVars
  <2>2. (index <= descriptor_count + 1)'
    BY <1>1, <1>2, <1>10 DEF mapVars
  <2>3. ASSUME NEW q \in Pages
        PROVE  TypeAt(q)' = TypeAfter(q, IF q < End(index) THEN Done + 1 ELSE Done)
    <3>1. TypeAt(q)' = TypeAt(q) /\ q \in Nat
      BY <1>10, SameMapSameTypes, SizeAssumption DEF SameTypes, Pages
    <3>2. CASE q < Reached
      <4>1. q < End(index)
        BY <1>5, <3>1, <3>2
      <4> QED BY <1>3, <3>1, <3>2, <4>1, Zenon
    <3>3. CASE Reached <= q /\ q < Start(index)
      <4>1. q < End(index)
        BY <1>5, <3>1, <3>3
      <4> QED BY <1>7, <3>1, <3>3, <4>1, Zenon
    <3>4. CASE Start(index) <= q /\ q < End(index)
      <4>1. ~(range.start <= q /\ q < range.end) \/ TypeAt(q) \notin range.from
        BY <1>2, <1>5, <1>8, <1>10, <3>1, <3>4
      <4>2. TypeAt(q) = TypeAfter(q, Done + 1)
        BY <1>1, <1>8, <3>4, <4>1, CarveSkips
      <4> QED BY <3>1, <3>4, <4>2
    <3>5. CASE End(index) <= q
      <4>1. ~(q < Reached) /\ ~(q < End(index))
        BY <1>5, <3>1, <3>5
      <4> QED BY <1>3, <3>1, <4>1, Zenon
    <3> QED BY <1>5, <3>1, <3>2, <3>3, <3>4, <3>5
  <2> QED BY <1>5, <1>9, <1>10, <2>1, <2>2, <2>3
<1>11. CASE /\ End(index) > range.start
            /\ Type \in range.from
            /\ ReplaceFits(index, first, pages)
            /\ replace_range(index, first, pages, range.Type)
            /\ index' = index + 1 + PrefixParts(index, first)
            /\ UNCHANGED <<fdt, phase, region, loop, range, result>>
  <2> DEFINE pre == PrefixParts(index, first)
             suf == SuffixParts(index, first, pages)
  <2>1. /\ first \in Nat /\ last \in Nat /\ pages \in Nat \ {0} /\ first + pages = last
        /\ Start(index) <= first /\ last <= End(index) /\ range.start <= first
        /\ last <= range.end /\ (first = Start(index) \/ first = range.start)
    BY <1>1, <1>2, <1>5, <1>11 DEF Shorter
  <2>2. pre \in {0, 1} /\ suf \in {0, 1}
    BY DEF PrefixParts, SuffixParts
  <2> HIDE DEF first, last, pages
  <2>3. /\ \A q \in first..(first + pages - 1) : q \in Pages /\ TypeAt(q) = Type
        /\ \A q \in Pages : TypeAt(q)' = IF q \in first..(first + pages - 1)
                                         THEN range.Type ELSE TypeAt(q)
    BY <1>2, <1>4, <1>11, <2>1, ReplaceTypes
  <2>4. descriptor_count' = descriptor_count + (pre + suf)
    BY <1>11 DEF replace_range
  <2>5. descriptors'[index + pre] = Span(range.Type, first, first + pages)
    <3>1. index + pre \in Slots
      <4>1. descriptor_count + pre + suf <= Capacity
        BY <1>11 DEF ReplaceFits
      <4> HIDE DEF pre, suf
      <4> QED BY <1>1, <1>2, <2>2, <4>1, SizeAssumption DEF Slots
    <3>2. ~(index + pre < index) /\ ~(index + pre < index + pre)
      <4> HIDE DEF pre, suf
      <4> QED BY <1>2, <2>2
    <3> QED BY <1>11, <3>1, <3>2 DEF replace_range
  <2> HIDE DEF pre, suf
  <2>6. index' = index + 1 + pre
    BY <1>11 DEF pre
  <2>7. Reached' = last
    <3>1. index' # 1 /\ index' - 1 = index + pre
      BY <1>2, <2>2, <2>6
    <3>2. Reached' = descriptors'[index' - 1].PhysicalStart + descriptors'[index' - 1].NumberOfPages
      BY <3>1 DEF Reached, End
    <3> QED BY <2>1, <2>5, <3>1, <3>2 DEF Span
  <2>8. (index <= descriptor_count + 1)'
    BY <1>1, <1>2, <2>2, <2>4, <2>6
  <2>9. ASSUME NEW q \in Pages
        PROVE  TypeAt(q)' = TypeAfter(q, IF q < last THEN Done + 1 ELSE Done)
    <3>1. q \in Nat /\ (q \in first..(first + pages - 1) <=> first <= q /\ q < last)
      BY <2>1, SizeAssumption DEF Pages
    <3>2. CASE q < Reached
      <4>1. ~(first <= q) /\ q < last
        BY <1>5, <2>1, <3>1, <3>2
      <4>2. TypeAt(q)' = TypeAt(q)
        BY <2>3, <3>1, <4>1
      <4> QED BY <1>3, <3>2, <4>1, <4>2, Zenon
    <3>3. CASE Reached <= q /\ q < Start(index)
      <4>1. ~(first <= q) /\ q < last
        BY <1>5, <2>1, <3>1, <3>3
      <4>2. TypeAt(q)' = TypeAt(q)
        BY <2>3, <3>1, <4>1
      <4> QED BY <1>7, <3>3, <4>1, <4>2, Zenon
    <3>4. CASE Start(index) <= q /\ q < first
      <4>1. q < last /\ ~(range.start <= q) /\ q < End(index)
        BY <1>2, <1>5, <2>1, <3>1, <3>4
      <4>2. TypeAt(q)' = TypeAt(q) /\ Reached <= q
        BY <1>8, <2>1, <2>3, <3>1, <3>4, <4>1
      <4>3. TypeAt(q) = TypeAfter(q, Done + 1)
        BY <1>1, <4>1, <4>2, CarveSkips
      <4> QED BY <4>1, <4>2, <4>3
    <3>5. CASE first <= q /\ q < last
      <4>1. /\ TypeAt(q)' = range.Type
            /\ Start(index) <= q /\ q < End(index) /\ range.start <= q /\ q < range.end
        BY <1>2, <1>5, <2>1, <2>3, <3>1, <3>5
      <4>2. TypeAfter(q, Done) \in range.from
        BY <1>8, <1>11, <4>1
      <4>3. /\ Done + 1 \in ClaimsOn(q) /\ TypeAfter(q, Done) \in Retypable(Done + 1)
            /\ range.Type = Claims[Done + 1].Type
        BY <1>2, <4>1, <4>2, Zenon DEF RangeIsClaim
      <4>4. TypeAfter(q, Done + 1) = range.Type
        BY <1>2, <4>3, ClaimTakes
      <4> QED BY <3>5, <4>1, <4>4
    <3>6. CASE last <= q
      <4>1. ~(q < Reached) /\ ~(q < last)
        BY <1>5, <2>1, <3>1, <3>6
      <4>2. TypeAt(q)' = TypeAt(q)
        BY <2>3, <3>1, <4>1
      <4> QED BY <1>3, <4>1, <4>2, Zenon
    <3> QED BY <1>5, <2>1, <3>1, <3>2, <3>3, <3>4, <3>5, <3>6
  <2> QED BY <1>9, <1>11, <2>1, <2>7, <2>8, <2>9
<1>12. CASE Fail("BufferTooSmall")
  BY <1>12 DEF Fail, RamSoFar, ClaimsSoFar, Claiming
<1> QED BY <1>10, <1>11, <1>12, Zenon DEF carve_iteration

\* A RAM region adds the pages it fills.
LEMMA RamStepMatches ==
  ASSUME IndInv, MatchInv, add_memory_region
  PROVE  RamSoFar' /\ ClaimsSoFar'
<1> DEFINE r == fdt.memory[region]
           first == RamStart(r)
           last == RamEnd(r)
<1>1. phase = "memory" /\ loop = "none" /\ region <= ListLength
  BY DEF add_memory_region
<1>2. r \in Region /\ region \in Nat \ {0} /\ MapTyped /\ AllConventional
  BY <1>1, FdtTyped, Parts DEF IndInv, TypeOK
<1>3. \A q \in Pages : Fills(r, q) <=> first <= q /\ q < last
  <2>1. \A q \in Pages : q \in Nat
    BY SizeAssumption DEF Pages
  <2> QED BY <1>2, <2>1, FilledPages
<1>4. \A q \in Pages :
        TypeAt(q) = IF \E k \in 1..(region - 1) : Fills(fdt.memory[k], q)
                    THEN Conventional ELSE "none"
  BY <1>1, Zenon DEF MatchInv, RamSoFar
<1>5. CASE Fail("AddressOverflow") \/ Fail("BufferTooSmall")
  BY <1>5 DEF Fail, RamSoFar, ClaimsSoFar, Claiming
<1>6. ASSUME UNCHANGED <<fdt, phase>>, region' = region + 1,
             \A q \in Pages : TypeAt(q)' = IF Fills(r, q) THEN Conventional ELSE TypeAt(q)
      PROVE  RamSoFar' /\ ClaimsSoFar'
  <2>1. ~Claiming'
    BY <1>1, <1>6 DEF Claiming
  <2>2. ASSUME NEW q \in Pages
        PROVE  TypeAt(q)' = IF \E k \in 1..(region' - 1) : Fills(fdt.memory[k], q)
                            THEN Conventional ELSE "none"
    <3>1. 1..(region' - 1) = 1..(region - 1) \cup {region}
      BY <1>2, <1>6
    <3>2. (\E k \in 1..(region' - 1) : Fills(fdt.memory[k], q)) <=>
            (\E k \in 1..(region - 1) : Fills(fdt.memory[k], q)) \/ Fills(r, q)
      BY <3>1, Zenon
    <3> QED BY <1>4, <1>6, <3>2, Zenon
  <2>3. \A q \in Pages :
          TypeAt(q)' = (IF \E k \in 1..(region - 1) : Fills(fdt.memory[k], q)
                        THEN Conventional ELSE "none")'
    BY <1>6, <2>2, Zenon
  <2> QED BY <2>1, <2>3, Zenon DEF RamSoFar, ClaimsSoFar, Pages
<1>7. CASE ~RegionOverflows(r, FALSE) /\ last <= first /\ RegionDone
  <2>1. first \in Nat /\ last \in 0..TopPage
    BY <1>2, <1>7, RegionPages DEF RamStart, RamEnd
  <2>2. \A q \in Pages : ~Fills(r, q)
    <3>1. \A q \in Pages : q \in Nat
      BY SizeAssumption DEF Pages
    <3> HIDE DEF first, last
    <3> QED BY <1>3, <1>7, <2>1, <3>1, SizeAssumption
  <2>3. \A q \in Pages : TypeAt(q)' = TypeAt(q)
    BY <1>7, SameMapSameTypes DEF RegionDone, SameTypes
  <2> QED BY <1>6, <1>7, <2>2, <2>3 DEF RegionDone
<1>8. ASSUME ~RegionOverflows(r, FALSE), first < last, descriptor_count < Capacity,
             NEW p \in 1..(descriptor_count + 1),
             insert_descriptor(p, Span(Conventional, first, last)),
             region' = region + 1, UNCHANGED <<fdt, phase>>
      PROVE  RamSoFar' /\ ClaimsSoFar'
  <2>1. first \in Nat /\ last \in 0..TopPage
    BY <1>2, <1>8, RegionPages DEF RamStart, RamEnd
  <2> HIDE DEF first, last
  <2>2. last \in Nat /\ last <= TopPage
    BY <2>1, SizeAssumption
  <2>3. \A q \in Pages : TypeAt(q)' = IF q \in first..(last - 1) THEN Conventional ELSE TypeAt(q)
    BY <1>2, <1>8, <2>1, <2>2, InsertTypes
  <2>4. \A q \in Pages : q \in first..(last - 1) <=> first <= q /\ q < last
    BY <2>1, <2>2, SizeAssumption DEF Pages
  <2>5. \A q \in Pages : TypeAt(q)' = IF Fills(r, q) THEN Conventional ELSE TypeAt(q)
    BY <1>3, <2>3, <2>4, Zenon
  <2> QED BY <1>6, <1>8, <2>5
<1> QED BY <1>5, <1>7, <1>8, Zenon DEF add_memory_region, RamStart, RamEnd

\* No list is left early.
LEMMA SameLength ==
  ASSUME UNCHANGED <<fdt, phase>>
  PROVE  ListLength' = ListLength
  BY DEF ListLength

LengthTyped == TypeOK => ListLength \in Nat

LEMMA LengthNat == LengthTyped
<1> SUFFICES ASSUME TypeOK PROVE ListLength \in Nat
  BY DEF LengthTyped
<1>1. /\ fdt.memory \in Seq(Region)
      /\ fdt.reserveMap \in Seq(Region)
      /\ fdt.reserved \in Seq([region : Region, noMap : BOOLEAN])
  BY InputAssumption DEF TypeOK, Fdt
<1>2. Len(fdt.memory) \in Nat /\ Len(fdt.reserveMap) \in Nat /\ Len(fdt.reserved) \in Nat
  BY <1>1
<1>3. /\ Shorter(Len(fdt.memory), MaxMemoryRegions) \in Nat
      /\ Shorter(Len(fdt.reserveMap), MaxReservedRegions) \in Nat
  BY <1>2, SizeAssumption DEF Shorter
<1> QED BY <1>2, <1>3 DEF ListLength

LEMMA LengthNatNext == LengthTyped'
  BY LengthNat, PTL

LEMMA ListPositionStep ==
  ASSUME IndInv, ListPosition, [Next]_vars
  PROVE  ListPosition'
<1>0. ListLength \in Nat /\ region \in Nat \ {0}
  BY LengthNat DEF IndInv, TypeOK, LengthTyped
<1>a. 1 <= ListLength' + 1
  <2>1. TypeOK'
    BY NextInv DEF IndInv
  <2>2. ListLength' \in Nat
    BY <2>1, LengthNatNext DEF LengthTyped
  <2>3. \A n \in Nat : 1 <= n + 1
    OBVIOUS
  <2> QED BY <2>2, <2>3, Zenon
<1>1. CASE ~(phase' = "memory" \/ Claiming')
  BY <1>1 DEF ListPosition
<1>2. CASE UNCHANGED <<fdt, phase, region, loop>>
  BY <1>2, SameLength DEF ListPosition, Claiming
<1>3. ASSUME RegionDone, region <= ListLength
      PROVE  ListPosition'
  <2>1. /\ UNCHANGED <<fdt, phase>> /\ region' = region + 1 /\ ListLength' = ListLength
        /\ loop' = IF phase = "fdt" THEN "coalesce" ELSE "none"
    BY <1>3, SameLength DEF RegionDone
  <2>2. phase = "fdt" => ListLength = 1
    BY DEF ListLength
  <2> QED BY <1>0, <1>3, <2>1, <2>2 DEF ListPosition
<1>4. CASE phase' = "failed"
  BY <1>1, <1>4 DEF Claiming
<1>5. CASE add_memory_region
  <2>1. region <= ListLength /\ phase = "memory" /\ loop = "none"
    BY <1>5 DEF add_memory_region
  <2>2. CASE region' = region + 1 /\ UNCHANGED <<fdt, phase, loop>>
    BY <1>0, <2>1, <2>2, SameLength DEF ListPosition
  <2> QED BY <1>3, <1>4, <1>5, <2>1, <2>2 DEF add_memory_region, Fail
<1>6. CASE ClaimStep
  <2>1. region <= ListLength
    <3>1. CASE reserve_original_fdt
      <4>1. phase = "fdt" /\ loop = "none"
        BY <3>1 DEF reserve_original_fdt
      <4> QED BY <4>1 DEF ListLength, ListPosition, Claiming
    <3> QED BY <1>6, <3>1 DEF ClaimStep, add_reserved_region, add_static_reserved_region,
               add_firmware_region
  <2>2. \/ phase' = "failed" \/ RegionDone
        \/ loop' = "carve" /\ UNCHANGED <<fdt, phase, region>>
    BY <1>6 DEF ClaimStep, reserve_original_fdt, add_reserved_region,
       add_static_reserved_region, add_firmware_region, add_reserved_region_with_type,
       BeginCarve, Fail
  <2>3. CASE loop' = "carve" /\ UNCHANGED <<fdt, phase, region>>
    BY <1>0, <2>1, <2>3, SameLength DEF ListPosition
  <2> QED BY <1>3, <1>4, <2>1, <2>2, <2>3
<1>7. CASE end_of_list
  <2>1. loop = "none" /\ region > ListLength /\ UNCHANGED fdt
    BY <1>7 DEF end_of_list
  <2>2. CASE /\ phase \in {"memory", "firmware"} /\ loop' = "coalesce"
             /\ UNCHANGED <<phase, region>>
    <3>1. region = ListLength + 1
      BY <1>0, <2>1, <2>2 DEF ListPosition, Claiming
    <3> QED BY <1>0, <2>1, <2>2, <3>1, SameLength DEF ListPosition
  <2>3. CASE /\ phase' \in {"reserved_memory", "firmware"} /\ region' = 1 /\ loop' = loop
    BY <1>a, <2>1, <2>3 DEF ListPosition
  <2> QED BY <1>7, <2>2, <2>3 DEF end_of_list
<1>8. CASE carve_iteration
  BY <1>2, <1>4, <1>8 DEF carve_iteration, Fail
<1>9. CASE carve_exit
  <2>1. loop = "carve" /\ RegionDone /\ Claiming
    BY <1>9 DEF carve_exit, IndInv, ControlSound, Claiming
  <2> QED BY <1>3, <2>1 DEF ListPosition
<1>10. CASE coalesce_iteration
  BY <1>2, <1>10 DEF coalesce_iteration
<1>11. CASE coalesce_exit
  <2>1. loop' = "none" /\ region' = 1
    BY <1>11 DEF coalesce_exit
  <2> QED BY <1>a, <2>1 DEF ListPosition
<1>12. CASE Call
  <2>1. phase' = phase /\ phase = "ready"
    BY <1>12, CallEdits DEF Call, Ready, Untouched, Edits, Edit
  <2> QED BY <1>1, <2>1 DEF Claiming
<1>13. CASE UNCHANGED vars
  BY <1>2, <1>13 DEF vars
<1> QED BY <1>5, <1>6, <1>7, <1>8, <1>9, <1>10, <1>11, <1>12, <1>13
        DEF Next, Construct, Loop, NoAllocator, ClaimStep

\* Between the lists: what one list leaves is what the next one starts from.
LEMMA ListsJoin ==
  ASSUME IndInv, ListsFit, MatchInv, end_of_list \/ coalesce_exit
  PROVE  RamSoFar' /\ ClaimsSoFar'
<1> DEFINE m == Len(fdt.reserveMap)
           c == Len(fdt.reserved)
<1>0. /\ fdt \in Fdts /\ region \in Nat \ {0} /\ ListLength \in Nat /\ m \in Nat /\ c \in Nat
      /\ Len(fdt.memory) \in Nat /\ fdt.memory \in Seq(Region)
  <2>1. fdt \in Fdts /\ region \in Nat \ {0} /\ ListLength \in Nat
    BY LengthNat DEF IndInv, TypeOK, LengthTyped
  <2>2. m \in Nat /\ c \in Nat
    BY <2>1, ClaimsInOrder, Zenon DEF ClaimList
  <2>3. fdt.memory \in Seq(Region)
    BY <2>1, InputAssumption DEF Fdt
  <2>4. Len(fdt.memory) \in Nat
    BY <2>3
  <2> QED BY <2>1, <2>2, <2>3, <2>4
<1>1. Len(fdt.memory) <= MaxMemoryRegions /\ m <= MaxReservedRegions
  BY <1>0 DEF ListsFit
<1>2. /\ \A q \in Pages : TypeAt(q)' = TypeAt(q)
      /\ \A q, n : TypeAfter(q, n)' = TypeAfter(q, n)
      /\ UNCHANGED fdt
  BY SameMapSameTypes, SameClaims DEF end_of_list, coalesce_exit, SameTypes
<1>3. ASSUME Claiming, loop # "carve", Claiming', loop' # "carve", Done' = Done
      PROVE  RamSoFar' /\ ClaimsSoFar'
  <2>1. \A q \in Pages : TypeAt(q) = TypeAfter(q, Done)
    BY <1>3, Zenon DEF MatchInv, ClaimsSoFar
  <2>2. \A q \in Pages : TypeAt(q)' = TypeAfter(q, Done)'
    BY <1>2, <1>3, <2>1
  <2>3. phase' # "memory"
    BY <1>3 DEF Claiming
  <2> QED BY <1>3, <2>2, <2>3 DEF RamSoFar, ClaimsSoFar, Pages
<1>4. CASE phase' \notin {"memory", "fdt", "reserve_map", "reserved_memory", "firmware"}
  BY <1>4 DEF RamSoFar, ClaimsSoFar, Claiming
<1>5. CASE end_of_list
  <2>1. loop = "none" /\ region > ListLength
    BY <1>5 DEF end_of_list
  <2>2. region = ListLength + 1 \/ phase \notin {"memory", "reserve_map", "reserved_memory", "firmware"}
    BY <1>0, <2>1 DEF MatchInv, ListPosition, Claiming
  <2>3. CASE phase = "memory" /\ UNCHANGED <<phase, region>>
    <3>1. ~Claiming'
      BY <2>3 DEF Claiming
    <3>2. \A q \in Pages :
            TypeAt(q) = IF \E k \in 1..(region - 1) : Fills(fdt.memory[k], q)
                        THEN Conventional ELSE "none"
      BY <2>3, Zenon DEF MatchInv, RamSoFar
    <3>3. \A q \in Pages :
            TypeAt(q)' = (IF \E k \in 1..(region - 1) : Fills(fdt.memory[k], q)
                          THEN Conventional ELSE "none")'
      BY <1>2, <2>3, <3>2, Zenon
    <3> QED BY <3>1, <3>3, Zenon DEF RamSoFar, ClaimsSoFar, Pages
  <2>4. CASE phase = "firmware" /\ UNCHANGED <<phase, region>> /\ loop' = "coalesce"
    <3>1. Done' = Done
      BY <1>2, <2>4 DEF Done
    <3> QED BY <1>3, <2>1, <2>4, <3>1 DEF Claiming
  <2>5. CASE phase = "reserve_map" /\ phase' = "reserved_memory" /\ region' = 1 /\ loop' = loop
    <3>1. ListLength = Shorter(m, MaxReservedRegions) /\ Done = region /\ Done' = m + region'
      BY <1>2, <2>5 DEF Done, ListLength
    <3>2. Done' = Done
      <4> HIDE DEF m
      <4> QED BY <1>0, <1>1, <2>2, <2>5, <3>1, SizeAssumption DEF Shorter
    <3> QED BY <1>3, <2>1, <2>5, <3>2 DEF Claiming
  <2>6. CASE phase = "reserved_memory" /\ phase' = "firmware" /\ region' = 1 /\ loop' = loop
    <3>1. ListLength = c /\ Done = m + region /\ Done' = m + c + region'
      BY <1>2, <2>6 DEF Done, ListLength
    <3>2. Done' = Done
      <4> HIDE DEF m, c
      <4> QED BY <1>0, <2>2, <2>6, <3>1
    <3> QED BY <1>3, <2>1, <2>6, <3>2 DEF Claiming
  <2> QED BY <1>5, <2>3, <2>4, <2>5, <2>6 DEF end_of_list
<1>6. CASE coalesce_exit
  <2>1. loop = "coalesce" /\ loop' = "none" /\ region' = 1
    BY <1>6 DEF coalesce_exit
  <2>2. phase \in {"memory", "fdt", "firmware", "ready"}
    BY <2>1 DEF IndInv, ControlSound
  <2>3. phase \in {"memory", "fdt"} => region = ListLength + 1
    BY <2>1 DEF MatchInv, ListPosition, Claiming
  <2>4. CASE phase = "memory"
    <3>1. phase' = "fdt" /\ ListLength = Shorter(Len(fdt.memory), MaxMemoryRegions)
      BY <1>6, <2>4 DEF coalesce_exit, ListLength
    <3>2. Done' = 0
      BY <2>1, <3>1 DEF Done
    <3>3. region - 1 = Len(fdt.memory)
      BY <1>0, <1>1, <2>3, <2>4, <3>1, SizeAssumption DEF Shorter
    <3>4. DOMAIN fdt.memory = 1..Len(fdt.memory)
      BY <1>0
    <3>5. ASSUME NEW q \in Pages PROVE TypeAt(q) = TypeAfter(q, 0)
      <4>1. TypeAt(q) = IF \E k \in 1..(region - 1) : Fills(fdt.memory[k], q)
                        THEN Conventional ELSE "none"
        BY <2>4, Zenon DEF MatchInv, RamSoFar
      <4>2. InRam(q) <=> \E k \in 1..(region - 1) : Fills(fdt.memory[k], q)
        BY <3>3, <3>4, Zenon DEF InRam, Elements
      <4>3. ClaimsUpTo(q, 0) = {}
        BY <1>0, ClaimsAreTyped DEF ClaimsUpTo, ClaimsOn, ClaimsTyped
      <4> QED BY <4>1, <4>2, <4>3, Zenon DEF TypeAfter
    <3>6. \A q \in Pages : TypeAt(q)' = TypeAfter(q, Done)'
      BY <1>2, <3>2, <3>5
    <3> QED BY <2>1, <3>1, <3>6 DEF RamSoFar, ClaimsSoFar, Pages
  <2>5. CASE phase = "fdt"
    <3>1. phase' = "reserve_map" /\ ListLength = 1
      BY <1>6, <2>5 DEF coalesce_exit, ListLength
    <3>2. Done = region - 1 /\ Done' = region'
      BY <2>5, <3>1 DEF Done
    <3>3. Done' = Done
      BY <1>0, <2>1, <2>3, <2>5, <3>1, <3>2
    <3> QED BY <1>3, <2>1, <2>5, <3>1, <3>3 DEF Claiming
  <2>6. CASE phase \in {"firmware", "ready"}
    <3>1. phase' = "ready"
      BY <1>6, <2>6 DEF coalesce_exit
    <3> QED BY <1>4, <3>1
  <2> QED BY <2>2, <2>4, <2>5, <2>6
<1> QED BY <1>5, <1>6

LEMMA CoalesceMatches ==
  ASSUME IndInv, RamEnds, MatchInv, coalesce_iteration
  PROVE  RamSoFar' /\ ClaimsSoFar'
<1>1. loop = "coalesce" /\ UNCHANGED <<fdt, phase, region, loop>>
  BY DEF coalesce_iteration
<1>2. /\ \A q \in Pages : TypeAt(q)' = TypeAt(q)
      /\ \A q, n : TypeAfter(q, n)' = TypeAfter(q, n)
  BY <1>1, CoalesceKeepsTypes, SameClaims DEF SameTypes
<1>3. Done' = Done /\ (Claiming' <=> Claiming)
  BY <1>1 DEF Done, Claiming
<1>4. ClaimsSoFar'
  <2>1. Claiming => \A q \in Pages : TypeAt(q) = TypeAfter(q, Done)
    BY <1>1, Zenon DEF MatchInv, ClaimsSoFar
  <2>2. Claiming' => \A q \in Pages : TypeAt(q)' = TypeAfter(q, Done)'
    BY <1>2, <1>3, <2>1
  <2> QED BY <1>1, <2>2 DEF ClaimsSoFar, Pages
<1>5. RamSoFar'
  <2>1. phase = "memory" => \A q \in Pages :
          TypeAt(q) = IF \E k \in 1..(region - 1) : Fills(fdt.memory[k], q)
                      THEN Conventional ELSE "none"
    BY Zenon DEF MatchInv, RamSoFar
  <2>2. phase = "memory" => \A q \in Pages :
          TypeAt(q)' = (IF \E k \in 1..(region - 1) : Fills(fdt.memory[k], q)
                        THEN Conventional ELSE "none")'
    BY <1>1, <1>2, <2>1, Zenon
  <2> QED BY <1>1, <2>2, Zenon DEF RamSoFar, Pages
<1> QED BY <1>4, <1>5

LEMMA UnchangedMatches ==
  ASSUME MatchInv, UNCHANGED vars
  PROVE  RamSoFar' /\ ClaimsSoFar'
<1>1. /\ UNCHANGED <<fdt, phase, region, loop, index, range, descriptors, descriptor_count>>
  BY DEF vars
<1>2. /\ \A q \in Pages : TypeAt(q)' = TypeAt(q)
      /\ \A q, n : TypeAfter(q, n)' = TypeAfter(q, n)
      /\ \A q : ClaimsOn(q)' = ClaimsOn(q)
      /\ Claims' = Claims /\ \A k : Retypable(k)' = Retypable(k)
  BY <1>1, SameMapSameTypes, SameClaims DEF SameTypes, mapVars
<1>3. Done' = Done /\ (Claiming' <=> Claiming) /\ Reached' = Reached
  BY <1>1 DEF Done, Claiming, Reached, End
<1>4. RangeIsClaim(Done + 1)' <=> RangeIsClaim(Done + 1)
  BY <1>1, <1>2, <1>3 DEF RangeIsClaim, Pages
<1>5. ClaimsSoFar'
  BY <1>1, <1>2, <1>3, <1>4 DEF MatchInv, ClaimsSoFar, Pages
<1>6. RamSoFar'
  <2>1. phase = "memory" => \A q \in Pages :
          TypeAt(q) = IF \E k \in 1..(region - 1) : Fills(fdt.memory[k], q)
                      THEN Conventional ELSE "none"
    BY Zenon DEF MatchInv, RamSoFar
  <2>2. phase = "memory" => \A q \in Pages :
          TypeAt(q)' = (IF \E k \in 1..(region - 1) : Fills(fdt.memory[k], q)
                        THEN Conventional ELSE "none")'
    BY <1>1, <1>2, <2>1, Zenon
  <2> QED BY <1>1, <2>2, Zenon DEF RamSoFar, Pages
<1> QED BY <1>5, <1>6

LEMMA MatchStep ==
  ASSUME ListsFit, IndInv, RamEnds, MatchInv, [Next]_vars
  PROVE  MatchInv'
<1>1. ListPosition'
  BY ListPositionStep DEF MatchInv
<1>2. CASE add_memory_region
  BY <1>1, <1>2, RamStepMatches DEF MatchInv
<1>3. CASE ClaimStep
  BY <1>1, <1>3, ClaimStepMatches DEF MatchInv
<1>4. CASE end_of_list \/ coalesce_exit
  BY <1>1, <1>4, ListsJoin DEF MatchInv
<1>5. CASE carve_iteration
  BY <1>1, <1>5, CarveIterationMatches DEF MatchInv
<1>6. CASE carve_exit
  BY <1>1, <1>6, CarveExitMatches DEF MatchInv
<1>7. CASE coalesce_iteration
  BY <1>1, <1>7, CoalesceMatches DEF MatchInv
<1>8. CASE Call
  <2>1. phase' = phase /\ phase = "ready"
    BY <1>8, CallEdits DEF Call, Ready, Untouched, Edits, Edit
  <2> QED BY <1>1, <2>1 DEF MatchInv, RamSoFar, ClaimsSoFar, Claiming
<1>9. CASE UNCHANGED vars
  BY <1>1, <1>9, UnchangedMatches DEF MatchInv
<1> QED BY <1>2, <1>3, <1>4, <1>5, <1>6, <1>7, <1>8, <1>9
        DEF Next, Construct, Loop, NoAllocator, ClaimStep

\* The last claim made: nothing is missing from what the device tree asks for.
LEMMA AllClaimsMade ==
  ASSUME ListsFit, IndInv, MatchInv, phase = "firmware", loop = "coalesce"
  PROVE  \A q \in Pages : TypeAt(q) = ExpectedType(q)
<1> DEFINE m == Len(fdt.reserveMap)
           c == Len(fdt.reserved)
<1>1. fdt \in Fdts /\ Claiming
  BY DEF IndInv, TypeOK, Claiming
<1>2. m \in Nat /\ c \in Nat /\ DOMAIN Claims = 1..(m + c + 5)
  BY <1>1, ClaimsInOrder, Zenon DEF ClaimList
<1>3. ListLength = 4 /\ Done = m + c + region
  BY DEF ListLength, Done
<1>4. region = ListLength + 1
  BY <1>1, Zenon DEF MatchInv, ListPosition
<1> HIDE DEF m, c
<1>5. Done = m + c + 5
  BY <1>2, <1>3, <1>4
<1> SUFFICES ASSUME NEW q \in Pages PROVE TypeAt(q) = ExpectedType(q)
  OBVIOUS
<1>6. TypeAt(q) = TypeAfter(q, Done)
  BY <1>1 DEF MatchInv, ClaimsSoFar
<1>7. ClaimsUpTo(q, Done) = ClaimsOn(q)
  <2>1. \A k \in DOMAIN Claims : k <= Done
    BY <1>2, <1>5
  <2> QED BY <2>1, Zenon DEF ClaimsUpTo, ClaimsOn
<1>8. TypeAfter(q, Done) = ExpectedType(q)
  BY <1>7, Zenon DEF TypeAfter, ExpectedType, Takers
<1> QED BY <1>6, <1>8

\* When from_fdt returns Ok, each page has the type the device tree and the
\* linker script ask for, for every device tree whose lists fit into the
\* slices and whose /memory regions are not nested: reserving split after
\* split in place, and merging, loses no page, adds none, and gives every page
\* to the claim that is entitled to it.
THEOREM MapMatches ==
  ASSUME NoNestedRam, ListsFit
  PROVE  Spec => MapMatchesDeviceTree
<1> DEFINE Inv == IndInv /\ RamEnds /\ MatchInv
           Right == phase = "firmware" /\ phase' = "ready" =>
                      \A q \in Pages : TypeAt(q)' = ExpectedType(q)
<1>1. Init => Inv
  <2> SUFFICES ASSUME Init PROVE Inv
    OBVIOUS
  <2>1. IndInv
    BY InitInv
  <2>2. Live = {} /\ phase = "memory" /\ loop = "none" /\ region = 1 /\ ~Claiming
    BY DEF Init, Live, Claiming
  <2>3. RamEnds
    BY <2>2 DEF RamEnds, EndsOrdered, FromRegions
  <2>4. ListPosition
    <3>1. ListLength \in Nat
      BY <2>1, LengthNat DEF LengthTyped, IndInv
    <3> QED BY <2>2, <3>1 DEF ListPosition
  <2>5. \A q \in Pages : TypeAt(q) = "none"
    BY <2>2, TypeAtNobody
  <2>6. \A q : ~\E k \in 1..(region - 1) : Fills(fdt.memory[k], q)
    BY <2>2
  <2>7. RamSoFar
    BY <2>5, <2>6, Zenon DEF RamSoFar
  <2> QED BY <2>1, <2>2, <2>3, <2>4, <2>7 DEF MatchInv, ClaimsSoFar
<1>2. Inv /\ [Next]_vars => Inv'
  BY NextInv, RamEndsStep, MatchStep
<1>3. Inv /\ [Next]_vars => [Right]_vars
  <2> SUFFICES ASSUME Inv, Next, phase = "firmware", phase' = "ready"
               PROVE  \A q \in Pages : TypeAt(q)' = ExpectedType(q)
    OBVIOUS
  <2>1. ~Call
    BY DEF Call, Ready
  <2>2. coalesce_exit
    <3>1. CASE Construct
      BY <3>1 DEF Construct, add_memory_region, reserve_original_fdt, add_reserved_region,
         add_static_reserved_region, add_firmware_region, end_of_list,
         add_reserved_region_with_type, BeginCarve, Fail, RegionDone
    <3>2. CASE carve_iteration \/ carve_exit \/ coalesce_iteration
      BY <3>2 DEF carve_iteration, carve_exit, coalesce_iteration, Fail, RegionDone
    <3>3. CASE NoAllocator
      BY <3>3 DEF NoAllocator
    <3> QED BY <2>1, <3>1, <3>2, <3>3 DEF Next, Loop
  <2>3. loop = "coalesce" /\ UNCHANGED mapVars
    BY <2>2 DEF coalesce_exit
  <2>4. \A q \in Pages : TypeAt(q) = ExpectedType(q)
    BY <2>3, AllClaimsMade
  <2> QED BY <2>3, <2>4, SameMapSameTypes DEF SameTypes
<1> QED BY <1>1, <1>2, <1>3, PTL DEF Spec, MapMatchesDeviceTree

=============================================================================
