------------------------- MODULE PageAllocatorProofs -------------------------
(***************************************************************************)
(* Proofs about PageAllocator for every page size, buffer length, device   *)
(* tree and sequence of calls.                                             *)
(***************************************************************************)
EXTENDS PageAllocator, TLAPS

(* The inductive invariant. *)

\* The parts of TypeOK that the edits touch.
MapTyped ==
  /\ descriptors \in [Slots -> Descriptor]
  /\ descriptor_count \in 0..Capacity

\* MapSound without its dependence on the phase.
Ordered ==
  /\ \A i \in Live : descriptors[i].NumberOfPages > 0 /\ End(i) <= TopPage
  /\ \A i, j \in Live : i < j => Start(i) <= Start(j)

Disjoint == \A i, j \in Live : i < j => End(i) <= Start(j)

\* The same for the descriptors a coalesce has left behind.
DisjointUpTo(n) == \A i, j \in Live : i < j /\ j <= n => End(i) <= Start(j)

AllConventional == \A i \in Live : descriptors[i].Type = Conventional

\* Where the program can be: which loops run in which part of from_fdt, and
\* with which arguments a carve runs.
ControlSound ==
  /\ loop = "none" => index = 1
  /\ loop = "carve" =>
       /\ phase \in {"fdt", "reserve_map", "reserved_memory", "firmware"}
       /\ range.start < range.end
       /\ range.from \subseteq {Conventional, Reserved}
  /\ loop = "coalesce" => phase \in {"memory", "fdt", "firmware", "ready"}

\* While /memory is read everything is conventional, and the coalesce that
\* follows has made the descriptors up to its index disjoint.
RamSound ==
  phase = "memory" =>
    AllConventional /\ (loop = "coalesce" => DisjointUpTo(index))

IndInv == TypeOK /\ MapSound /\ ControlSound /\ RamSound

-----------------------------------------------------------------------------
(* Arithmetic. *)

LEMMA DivBounds ==
  ASSUME NEW x \in Nat, NEW p \in Nat \ {0}
  PROVE  /\ x \div p \in Nat
         /\ p * (x \div p) <= x
         /\ x < p * (x \div p) + p
  OBVIOUS

LEMMA PageDownNat ==
  ASSUME NEW x \in Nat
  PROVE  PageDown(x) \in Nat /\ PageUp(x) \in Nat
  BY SizeAssumption, DivBounds DEF PageDown, PageUp

LEMMA MaxAddressNat == MaxAddress \in Nat
  BY SizeAssumption DEF MaxAddress

LEMMA PageDownInRange ==
  ASSUME NEW x \in 0..MaxAddress
  PROVE  PageDown(x) \in 0..TopPage
<1> DEFINE q == x \div PageSize
<1>1. q \in Nat /\ PageSize * q <= x
  BY SizeAssumption, DivBounds, MaxAddressNat
<1>2. PageSize * q < PageSize * (TopPage + 1)
  BY <1>1, SizeAssumption, MaxAddressNat DEF MaxAddress
<1>3. q < TopPage + 1
  BY <1>1, <1>2, SizeAssumption
<1> QED
  BY <1>1, <1>3, SizeAssumption DEF PageDown

-----------------------------------------------------------------------------
(* Edits of the array.  Each lemma is about one edit, whoever makes it. *)

\* A span is a descriptor with the start, the end and the type it says.
LEMMA SpanFields ==
  ASSUME NEW t, NEW a \in Nat, NEW b \in Nat
  PROVE  /\ Span(t, a, b).Type = t
         /\ Span(t, a, b).PhysicalStart = a
         /\ Span(t, a, b).NumberOfPages = b - a
         /\ t \in MemoryTypes /\ a < b /\ b <= TopPage => Span(t, a, b) \in Descriptor
  BY SizeAssumption DEF Span, Descriptor

LEMMA LiveFacts ==
  ASSUME MapTyped, NEW i \in Live
  PROVE  /\ i \in Nat /\ i >= 1 /\ i <= descriptor_count
         /\ descriptor_count \in Nat /\ descriptor_count <= Capacity
         /\ i \in Slots
         /\ descriptors[i] \in Descriptor
         /\ descriptors[i].Type \in MemoryTypes
         /\ Start(i) \in Nat /\ End(i) \in Nat
         /\ Start(i) <= TopPage
  BY SizeAssumption DEF MapTyped, Live, Slots, Descriptor, Start, End

LEMMA EmptyIsDescriptor == EMPTY_DESCRIPTOR \in Descriptor
  BY SizeAssumption DEF EMPTY_DESCRIPTOR, Descriptor, MemoryTypes

\* replace_range inside one descriptor keeps the array a sound map.
LEMMA ReplaceRange ==
  ASSUME MapTyped, Ordered, Disjoint,
         NEW i \in Live, NEW M \in Nat, NEW P \in Nat \ {0},
         NEW t \in MemoryTypes,
         Start(i) <= M, M + P <= End(i),
         ReplaceFits(i, M, P),
         replace_range(i, M, P, t)
  PROVE  MapTyped' /\ Ordered' /\ Disjoint'
<1> DEFINE pre == PrefixParts(i, M)
           suf == SuffixParts(i, M, P)
           type == descriptors[i].Type
<1>1. /\ i \in Nat /\ i >= 1 /\ i <= descriptor_count
      /\ descriptor_count \in Nat /\ descriptor_count <= Capacity
      /\ type \in MemoryTypes
      /\ Start(i) \in Nat /\ End(i) \in Nat /\ End(i) <= TopPage
  BY LiveFacts DEF Ordered
<1>2. /\ pre \in {0, 1} /\ suf \in {0, 1}
      /\ pre = 0 => M = Start(i)
      /\ pre = 1 => M > Start(i)
      /\ suf = 0 => M + P = End(i)
      /\ suf = 1 => M + P < End(i)
  BY <1>1 DEF PrefixParts, SuffixParts
<1>3. descriptor_count + pre + suf <= Capacity
  BY DEF ReplaceFits
<1>4. /\ descriptor_count' = descriptor_count + (pre + suf)
      /\ descriptors' = [k \in Slots |->
          IF k < i THEN descriptors[k]
          ELSE IF k < i + pre THEN Span(type, Start(i), M)
          ELSE IF k = i + pre THEN Span(t, M, M + P)
          ELSE IF k <= i + (pre + suf) THEN Span(type, M + P, End(i))
          ELSE IF k <= descriptor_count + (pre + suf) THEN descriptors[k - (pre + suf)]
          ELSE EMPTY_DESCRIPTOR]
  BY Zenon DEF replace_range
<1> HIDE DEF pre, suf, type
<1>5. /\ pre = 1 => Span(type, Start(i), M) \in Descriptor
      /\ Span(t, M, M + P) \in Descriptor
      /\ suf = 1 => Span(type, M + P, End(i)) \in Descriptor
  <2>1. pre = 1 => Span(type, Start(i), M) \in Descriptor
    BY <1>1, <1>2, SizeAssumption DEF Span, Descriptor
  <2>2. Span(t, M, M + P) \in Descriptor
    BY <1>1, <1>2, SizeAssumption DEF Span, Descriptor
  <2>3. suf = 1 => Span(type, M + P, End(i)) \in Descriptor
    BY <1>1, <1>2, SizeAssumption DEF Span, Descriptor
  <2> QED BY <2>1, <2>2, <2>3
<1>6. MapTyped'
  BY <1>1, <1>2, <1>3, <1>4, <1>5, EmptyIsDescriptor, SizeAssumption
  DEF MapTyped, Slots
\* What a descriptor of the new array is, and which old one it comes from.
<1>7. ASSUME NEW k \in Live'
      PROVE  /\ k < i => k \in Live /\ Start(k)' = Start(k) /\ End(k)' = End(k)
             /\ k = i /\ pre = 1 => Start(k)' = Start(i) /\ End(k)' = M
             /\ k = i + pre => Start(k)' = M /\ End(k)' = M + P
             /\ k = i + pre + 1 /\ suf = 1 => Start(k)' = M + P /\ End(k)' = End(i)
             /\ k > i + pre + suf =>
                  /\ k - (pre + suf) \in Live
                  /\ Start(k)' = Start(k - (pre + suf))
                  /\ End(k)' = End(k - (pre + suf))
  <2>1. k \in Slots /\ k \in Nat /\ k >= 1 /\ k <= descriptor_count + (pre + suf)
    BY <1>1, <1>2, <1>3, <1>4, SizeAssumption DEF Slots, Live
  <2>2. k < i => k \in Live /\ descriptors'[k] = descriptors[k]
    BY <1>1, <1>4, <2>1 DEF Live
  <2>3. k = i /\ pre = 1 => descriptors'[k] = Span(type, Start(i), M)
    BY <1>1, <1>4, <2>1
  <2>4. k = i + pre => descriptors'[k] = Span(t, M, M + P)
    BY <1>1, <1>2, <1>4, <2>1
  <2>5. k = i + pre + 1 /\ suf = 1 => descriptors'[k] = Span(type, M + P, End(i))
    BY <1>1, <1>2, <1>4, <2>1
  <2>6. k > i + pre + suf => /\ k - (pre + suf) \in Live
                             /\ descriptors'[k] = descriptors[k - (pre + suf)]
    BY <1>1, <1>2, <1>4, <2>1 DEF Live
  <2> QED
    BY <1>1, <2>1, <2>2, <2>3, <2>4, <2>5, <2>6 DEF Start, End, Span
<1>8. \A k \in Live : /\ Start(k) \in Nat /\ End(k) \in Nat
                      /\ Start(k) < End(k) /\ End(k) <= TopPage
  BY LiveFacts DEF Ordered, Start, End, MapTyped, Slots, Live, Descriptor
<1>9. ASSUME NEW k \in Live'
      PROVE  k \in Nat /\ Start(k)' < End(k)' /\ End(k)' <= TopPage
  <2>1. k \in Nat
    BY <1>1, <1>2, <1>4 DEF Live
  <2>2. CASE k < i
    BY <1>1, <1>7, <1>8, <2>1, <2>2 DEF Live
  <2>3. CASE k >= i /\ k <= i + pre + suf
    BY <1>1, <1>2, <1>7, <2>1, <2>3, SizeAssumption
  <2>4. CASE k > i + pre + suf
    BY <1>1, <1>2, <1>7, <1>8, <2>1, <2>4, SizeAssumption
  <2> QED BY <1>1, <1>2, <2>1, <2>2, <2>3, <2>4
<1>10. ASSUME NEW j \in Live', NEW k \in Live', j < k
       PROVE  End(j)' <= Start(k)'
  <2>1. CASE k < i
    BY <1>1, <1>2, <1>7, <1>8, <1>9, <1>10, <2>1, SizeAssumption DEF Disjoint
  <2>2. CASE k >= i /\ k <= i + pre + suf
    BY <1>1, <1>2, <1>7, <1>8, <1>9, <1>10, <2>2 DEF Disjoint
  <2>3. CASE k > i + pre + suf
    <3>1. CASE j < i
      BY <1>1, <1>2, <1>7, <1>8, <1>9, <1>10, <2>3, <3>1 DEF Disjoint
    <3>2. CASE j >= i /\ j <= i + pre + suf
      BY <1>1, <1>2, <1>7, <1>8, <1>9, <1>10, <2>3, <3>2 DEF Disjoint
    <3>3. CASE j > i + pre + suf
      BY <1>1, <1>2, <1>7, <1>8, <1>9, <1>10, <2>3, <3>3 DEF Disjoint
    <3> QED BY <1>1, <1>2, <1>9, <1>10, <3>1, <3>2, <3>3
  <2> QED BY <1>1, <1>2, <1>9, <1>10, <2>1, <2>2, <2>3
<1>11. Ordered'
  <2>1. ASSUME NEW k \in Live'
        PROVE  descriptors'[k].PhysicalStart \in Nat /\ descriptors'[k].NumberOfPages \in Nat
    <3>1. k \in Slots
      BY <1>6, SizeAssumption DEF MapTyped, Live, Slots
    <3>2. descriptors'[k] \in Descriptor
      BY <1>6, <3>1 DEF MapTyped
    <3> QED
      BY <3>2, SizeAssumption DEF Descriptor
  <2> QED
    BY <1>9, <1>10, <2>1, SizeAssumption DEF Ordered, Start, End
<1> QED
  BY <1>6, <1>10, <1>11 DEF Disjoint

\* insert_sorted keeps the array ordered, even if the new region overlaps.
LEMMA InsertDescriptor ==
  ASSUME MapTyped, Ordered, AllConventional, descriptor_count < Capacity,
         NEW a \in Nat, NEW b \in Nat, a < b, b <= TopPage,
         NEW p \in 1..(descriptor_count + 1),
         InsertPosition(p, a),
         insert_descriptor(p, Span(Conventional, a, b))
  PROVE  MapTyped' /\ Ordered' /\ AllConventional'
<1> DEFINE d == Span(Conventional, a, b)
<1>1. /\ descriptor_count \in Nat /\ descriptor_count < Capacity /\ Capacity \in Nat
      /\ p \in Nat /\ p >= 1 /\ p <= descriptor_count + 1
  BY SizeAssumption DEF MapTyped
<1>2. d \in Descriptor /\ d.Type = Conventional /\ d.PhysicalStart = a
      /\ d.NumberOfPages = b - a
  BY SizeAssumption DEF Span, Descriptor, MemoryTypes
<1>3. /\ descriptor_count' = descriptor_count + 1
      /\ descriptors' = [k \in Slots |->
           IF k < p THEN descriptors[k]
           ELSE IF k = p THEN d
           ELSE IF k <= descriptor_count + 1 THEN descriptors[k - 1]
           ELSE EMPTY_DESCRIPTOR]
  BY Zenon DEF insert_descriptor
<1> HIDE DEF d
<1>4. MapTyped'
  BY <1>1, <1>2, <1>3, EmptyIsDescriptor DEF MapTyped, Slots
<1>5. ASSUME NEW k \in Live'
      PROVE  /\ k \in Nat /\ k >= 1 /\ k <= descriptor_count + 1
             /\ k < p => k \in Live /\ descriptors'[k] = descriptors[k]
             /\ k = p => descriptors'[k] = d
             /\ k > p => k - 1 \in Live /\ descriptors'[k] = descriptors[k - 1]
  BY <1>1, <1>3 DEF Live, Slots
<1>6. \A k \in Live : /\ Start(k) \in Nat
                      /\ descriptors[k].NumberOfPages \in Nat
                      /\ descriptors[k].NumberOfPages > 0 /\ End(k) <= TopPage
                      /\ k < p => Start(k) <= a
                      /\ k >= p => a < Start(k)
  <2>1. ASSUME NEW k \in Live
        PROVE  /\ k \in Nat /\ k >= 1 /\ k <= descriptor_count
               /\ Start(k) \in Nat /\ descriptors[k].NumberOfPages \in Nat
               /\ descriptors[k].NumberOfPages > 0 /\ End(k) <= TopPage
    BY LiveFacts, SizeAssumption DEF Ordered, Descriptor, Start
  <2>2. \A k \in Live : k < p => Start(k) <= a
    BY <1>1, <2>1 DEF InsertPosition
  <2>3. \A k \in Live : k >= p => a < Start(k)
    <3>1. ASSUME NEW k \in Live, k >= p
          PROVE  a < Start(k)
      <4>1. p \in Live /\ Start(p) > a
        BY <1>1, <2>1, <3>1 DEF InsertPosition, Live
      <4>2. Start(p) <= Start(k)
        BY <1>1, <2>1, <3>1, <4>1 DEF Ordered
      <4> QED BY <2>1, <4>1, <4>2
    <3> QED BY <3>1
  <2> QED BY <2>1, <2>2, <2>3
<1>7. ASSUME NEW k \in Live'
      PROVE  /\ descriptors'[k].NumberOfPages > 0 /\ End(k)' <= TopPage
             /\ Start(k)' \in Nat
             /\ k < p => Start(k)' <= a
             /\ k = p => Start(k)' = a
             /\ k > p => a < Start(k)'
             /\ descriptors'[k].Type = Conventional
  BY <1>1, <1>2, <1>5, <1>6, SizeAssumption DEF Start, End, AllConventional
<1>8. ASSUME NEW j \in Live', NEW k \in Live', j < k
      PROVE  Start(j)' <= Start(k)'
  <2>1. CASE k <= p \/ j >= p
    <3>1. CASE k < p
      BY <1>1, <1>5, <1>6, <1>8, <3>1 DEF Start, Ordered
    <3>2. CASE j > p
      BY <1>1, <1>5, <1>6, <1>8, <3>2 DEF Start, Ordered
    <3>3. CASE k = p \/ j = p
      BY <1>1, <1>5, <1>7, <1>8, <3>3
    <3> QED BY <1>1, <1>5, <2>1, <3>1, <3>2, <3>3
  <2>2. CASE k > p /\ j < p
    BY <1>1, <1>5, <1>7, <2>2
  <2> QED BY <1>1, <1>5, <2>1, <2>2
<1> QED
  BY <1>4, <1>7, <1>8 DEF Ordered, AllConventional

\* One merge keeps the order, keeps disjoint descriptors disjoint, and does
\* not disturb what lies before it.
LEMMA MergeWithNext ==
  ASSUME MapTyped, Ordered, NEW n \in Nat, n >= 1, n < descriptor_count,
         merge_with_next(n)
  PROVE  /\ MapTyped' /\ Ordered'
         /\ Disjoint => Disjoint'
         /\ DisjointUpTo(n) => DisjointUpTo(n)'
         /\ AllConventional => AllConventional'
<1> DEFINE d == Span(descriptors[n].Type, Start(n), End(n + 1))
<1>1. /\ descriptor_count \in Nat /\ descriptor_count <= Capacity /\ Capacity \in Nat
      /\ n \in Live /\ n + 1 \in Live
  BY SizeAssumption DEF MapTyped, Live
<1>2. \A k \in Live : /\ k \in Nat /\ k >= 1 /\ k <= descriptor_count
                      /\ Start(k) \in Nat /\ End(k) \in Nat
                      /\ descriptors[k].NumberOfPages \in Nat
                      /\ Start(k) < End(k) /\ End(k) <= TopPage
                      /\ descriptors[k].NumberOfPages > 0
                      /\ descriptors[k].Type \in MemoryTypes
  BY LiveFacts, SizeAssumption DEF Ordered, Descriptor, Start, End
<1>3. Start(n) <= Start(n + 1)
  BY <1>1 DEF Ordered
<1>4. /\ d \in Descriptor /\ d.Type = descriptors[n].Type
      /\ d.PhysicalStart = Start(n) /\ d.NumberOfPages = End(n + 1) - Start(n)
  BY <1>1, <1>2, <1>3, SizeAssumption DEF Span, Descriptor
<1>5. /\ descriptor_count' = descriptor_count - 1
      /\ descriptors' = [k \in Slots |->
           IF k < n THEN descriptors[k]
           ELSE IF k = n THEN d
           ELSE IF k < descriptor_count THEN descriptors[k + 1]
           ELSE EMPTY_DESCRIPTOR]
  BY Zenon DEF merge_with_next
<1> HIDE DEF d
<1>6. MapTyped'
  BY <1>1, <1>4, <1>5, EmptyIsDescriptor DEF MapTyped, Slots
<1>7. ASSUME NEW k \in Live'
      PROVE  /\ k \in Nat /\ k >= 1 /\ k <= descriptor_count - 1
             /\ k < n => k \in Live /\ descriptors'[k] = descriptors[k]
             /\ k = n => descriptors'[k] = d
             /\ k > n => k + 1 \in Live /\ descriptors'[k] = descriptors[k + 1]
  BY <1>1, <1>5 DEF Live, Slots
<1>8. ASSUME NEW k \in Live'
      PROVE  /\ k < n => Start(k)' = Start(k) /\ End(k)' = End(k)
             /\ k = n => Start(k)' = Start(n) /\ End(k)' = End(n + 1)
             /\ k > n => Start(k)' = Start(k + 1) /\ End(k)' = End(k + 1)
             /\ descriptors'[k].NumberOfPages > 0 /\ End(k)' <= TopPage
  BY <1>1, <1>2, <1>3, <1>4, <1>7, SizeAssumption DEF Start, End
<1>9. Ordered'
  <2>1. ASSUME NEW j \in Live', NEW k \in Live', j < k
        PROVE  Start(j)' <= Start(k)'
    BY <1>1, <1>2, <1>3, <1>7, <1>8, <2>1 DEF Ordered
  <2> QED BY <1>8, <2>1 DEF Ordered
<1>10. ASSUME Disjoint PROVE Disjoint'
  <2>1. ASSUME NEW j \in Live', NEW k \in Live', j < k
        PROVE  End(j)' <= Start(k)'
    BY <1>1, <1>2, <1>7, <1>8, <1>10, <2>1 DEF Disjoint
  <2> QED BY <2>1 DEF Disjoint
<1>11. ASSUME DisjointUpTo(n) PROVE DisjointUpTo(n)'
  <2>1. ASSUME NEW j \in Live', NEW k \in Live', j < k, k <= n
        PROVE  End(j)' <= Start(k)'
    BY <1>1, <1>2, <1>7, <1>8, <1>11, <2>1 DEF DisjointUpTo
  <2> QED BY <2>1 DEF DisjointUpTo
<1>12. ASSUME AllConventional PROVE AllConventional'
  BY <1>1, <1>4, <1>7, <1>12 DEF AllConventional
<1> QED
  BY <1>6, <1>9, <1>10, <1>11, <1>12

-----------------------------------------------------------------------------
(* What the device tree hands over, and what rounding makes of it. *)

LEMMA FdtTyped ==
  ASSUME TypeOK, region <= ListLength
  PROVE  /\ phase = "memory" => fdt.memory[region] \in Region
         /\ phase = "reserve_map" => fdt.reserveMap[region] \in Region
         /\ phase = "reserved_memory" =>
              /\ fdt.reserved[region].region \in Region
              /\ fdt.reserved[region].noMap \in BOOLEAN
         /\ phase = "firmware" => fdt.firmware[region] \in Region
         /\ fdt.blob \in Region
<1>1. /\ fdt.memory \in Seq(Region) /\ fdt.blob \in Region
      /\ fdt.reserveMap \in Seq(Region)
      /\ fdt.reserved \in Seq([region : Region, noMap : BOOLEAN])
      /\ fdt.firmware \in [1..4 -> Region]
  BY InputAssumption DEF TypeOK, Fdt
<1>2. region \in Nat /\ region >= 1
  BY DEF TypeOK
<1>3. phase = "memory" => fdt.memory[region] \in Region
  BY <1>1, <1>2, SizeAssumption DEF ListLength, Shorter
<1>4. phase = "reserve_map" => fdt.reserveMap[region] \in Region
  BY <1>1, <1>2, SizeAssumption DEF ListLength, Shorter
<1>5. phase = "reserved_memory" =>
        fdt.reserved[region] \in [region : Region, noMap : BOOLEAN]
  <2> DEFINE Child == [region : Region, noMap : BOOLEAN]
  <2>1. phase = "reserved_memory" => region <= Len(fdt.reserved)
    BY DEF ListLength
  <2>2. fdt.reserved \in Seq(Child)
    BY <1>1
  <2> HIDE DEF Child
  <2>3. phase = "reserved_memory" => fdt.reserved[region] \in Child
    BY <1>2, <2>1, <2>2
  <2> QED BY <2>3 DEF Child
<1>6. phase = "firmware" => fdt.firmware[region] \in Region
  BY <1>1, <1>2 DEF ListLength
<1> QED
  BY <1>1, <1>3, <1>4, <1>5, <1>6

\* A region that does not overflow becomes a page range below TopPage.
LEMMA RegionPages ==
  ASSUME NEW r \in Region, NEW partial \in BOOLEAN, ~RegionOverflows(r, partial)
  PROVE  /\ RegionStart(r, partial) \in Nat
         /\ RegionEnd(r, partial) \in 0..TopPage
<1>1. /\ r.base \in Nat /\ r.size \in Nat /\ r.base + r.size \in 0..MaxAddress
  BY MaxAddressNat DEF Region, RegionOverflows
<1>2. RegionStart(r, partial) \in Nat
  BY <1>1, PageDownNat DEF RegionStart
<1>3. PageDown(r.base + r.size) \in 0..TopPage
  BY <1>1, PageDownInRange
<1>4. PageUp(r.base + r.size) \in Nat
  BY <1>1, PageDownNat
<1>5. partial => PageUp(r.base + r.size) <= TopPage
  <2>1. PageUp(r.base + r.size) = PageDown(r.base + r.size + PageSize - 1)
    BY DEF PageUp, PageDown
  <2>2. partial => ~(PageDown(r.base + r.size + PageSize - 1) > TopPage)
    BY DEF RegionOverflows, PageUpOverflows
  <2> QED BY <1>4, <2>1, <2>2, SizeAssumption
<1> QED
  BY <1>2, <1>3, <1>4, <1>5, SizeAssumption DEF RegionEnd

-----------------------------------------------------------------------------
(* Steps that leave the array alone. *)

LEMMA SameMap ==
  ASSUME UNCHANGED mapVars
  PROVE  /\ MapTyped => MapTyped'
         /\ Ordered => Ordered'
         /\ Disjoint => Disjoint'
         /\ AllConventional => AllConventional'
  BY DEF mapVars, MapTyped, Ordered, Disjoint, AllConventional, Live, Start, End

LEMMA NoRangeTyped == NoRange \in RangeArguments
  BY SizeAssumption DEF NoRange, RangeArguments, MemoryTypes

\* The invariant taken apart.
LEMMA Parts ==
  ASSUME IndInv
  PROVE  /\ MapTyped /\ Ordered
         /\ phase \notin {"memory", "failed"} => Disjoint
         /\ phase = "memory" => AllConventional
  BY Zenon DEF IndInv, TypeOK, MapSound, RamSound, MapTyped, Ordered, Disjoint

LEMMA FailStep ==
  ASSUME IndInv, NEW e \in Errors, Fail(e)
  PROVE  IndInv'
<1>1. /\ phase' = "failed" /\ loop' = "none" /\ index' = 1 /\ range' = NoRange
      /\ result' = e /\ fdt' = fdt /\ region' = region /\ UNCHANGED mapVars
  BY DEF Fail
<1>2. MapTyped' /\ Ordered'
  BY <1>1, SameMap, Parts
<1>3. TypeOK'
  BY <1>1, <1>2, NoRangeTyped, SizeAssumption DEF IndInv, TypeOK, MapTyped
<1>4. MapSound'
  BY <1>1, <1>2 DEF MapSound, Ordered
<1> QED
  BY <1>1, <1>3, <1>4 DEF IndInv, ControlSound, RamSound

LEMMA RegionDoneStep ==
  ASSUME IndInv, RegionDone
  PROVE  IndInv'
<1>1. /\ phase' = phase /\ index' = 1 /\ range' = NoRange
      /\ loop' = IF phase = "fdt" THEN "coalesce" ELSE "none"
      /\ result' = result /\ fdt' = fdt /\ region' = region + 1 /\ UNCHANGED mapVars
  BY DEF RegionDone
<1>2. /\ MapTyped' /\ Ordered'
      /\ phase \notin {"memory", "failed"} => Disjoint'
      /\ phase = "memory" => AllConventional'
  BY <1>1, SameMap, Parts
<1>3. TypeOK'
  BY <1>1, <1>2, NoRangeTyped, SizeAssumption DEF IndInv, TypeOK, MapTyped
<1>4. MapSound'
  BY <1>1, <1>2 DEF MapSound, Ordered, Disjoint
<1> QED
  BY <1>1, <1>2, <1>3, <1>4 DEF IndInv, ControlSound, RamSound

LEMMA ReturnStep ==
  ASSUME IndInv, Ready, NEW s \in Errors, Return(s)
  PROVE  IndInv'
<1>1. /\ phase' = phase /\ index' = index /\ range' = range /\ loop' = loop
      /\ result' = s /\ fdt' = fdt /\ region' = region /\ UNCHANGED mapVars
  BY DEF Return
<1>2. MapTyped' /\ Ordered' /\ Disjoint'
  BY <1>1, SameMap, Parts DEF Ready
<1>3. TypeOK'
  BY <1>1, <1>2 DEF IndInv, TypeOK, MapTyped
<1>4. MapSound'
  BY <1>1, <1>2 DEF MapSound, Ordered, Disjoint
<1> QED
  BY <1>1, <1>3, <1>4 DEF Ready, IndInv, ControlSound, RamSound

-----------------------------------------------------------------------------
(* Construction. *)

LEMMA InitInv == ASSUME Init PROVE IndInv
<1>1. TypeOK
  BY EmptyIsDescriptor, NoRangeTyped, SizeAssumption DEF Init, TypeOK
<1>2. Live = {}
  BY DEF Init, Live
<1> QED
  BY <1>1, <1>2 DEF Init, IndInv, MapSound, ControlSound, RamSound, AllConventional

LEMMA AddMemoryRegionStep ==
  ASSUME IndInv, add_memory_region
  PROVE  IndInv'
<1> DEFINE r == fdt.memory[region]
           first == RegionStart(r, FALSE)
           last == RegionEnd(r, FALSE)
<1>1. phase = "memory" /\ loop = "none" /\ region <= ListLength
  BY DEF add_memory_region
<1>2. r \in Region
  BY <1>1, FdtTyped DEF IndInv
<1>3. CASE Fail("AddressOverflow") \/ Fail("BufferTooSmall")
  BY <1>3, FailStep DEF Errors
<1>4. CASE RegionDone
  BY <1>4, RegionDoneStep
<1>5. ASSUME ~RegionOverflows(r, FALSE), first < last, descriptor_count < Capacity,
             NEW p \in 1..(descriptor_count + 1),
             InsertPosition(p, first),
             insert_descriptor(p, Span(Conventional, first, last)),
             region' = region + 1,
             UNCHANGED <<fdt, phase, loop, index, range, result>>
      PROVE  IndInv'
  <2>1. first \in Nat /\ last \in Nat /\ last <= TopPage
    <3>1. first \in Nat /\ last \in 0..TopPage
      BY <1>2, <1>5, RegionPages, Zenon
    <3> HIDE DEF first, last
    <3> QED BY <3>1, SizeAssumption
  <2>2. MapTyped' /\ Ordered' /\ AllConventional'
    <3>1. MapTyped /\ Ordered /\ AllConventional
      BY <1>1, Parts
    <3> HIDE DEF first, last
    <3> QED BY <1>5, <2>1, <3>1, InsertDescriptor
  <2>3. TypeOK'
    BY <1>5, <2>2 DEF IndInv, TypeOK, MapTyped
  <2>4. MapSound'
    BY <1>1, <1>5, <2>2 DEF MapSound, Ordered
  <2> QED
    BY <1>1, <1>5, <2>2, <2>3, <2>4 DEF IndInv, ControlSound, RamSound
<1> QED
  BY <1>3, <1>4, <1>5 DEF add_memory_region

\* The entry of every carve.
LEMMA BeginCarveStep ==
  ASSUME IndInv, loop = "none",
         phase \in {"fdt", "reserve_map", "reserved_memory", "firmware"},
         NEW r \in Region, NEW t \in MemoryTypes,
         NEW from \in SUBSET {Conventional, Reserved},
         BeginCarve(r, t, from)
  PROVE  IndInv'
<1> DEFINE first == RegionStart(r, TRUE)
           last == RegionEnd(r, TRUE)
<1>1. CASE Fail("AddressOverflow")
  BY <1>1, FailStep DEF Errors
<1>2. CASE RegionDone
  BY <1>2, RegionDoneStep
<1>3. CASE /\ ~RegionOverflows(r, TRUE) /\ first < last
           /\ loop' = "carve" /\ index' = 1
           /\ range' = [start |-> first, end |-> last, Type |-> t, from |-> from]
           /\ UNCHANGED <<fdt, phase, region, mapVars, result>>
  <2>1. first \in Nat /\ last \in Nat /\ last <= TopPage
    <3>1. first \in Nat /\ last \in 0..TopPage
      BY <1>3, RegionPages, Zenon
    <3> HIDE DEF first, last
    <3> QED BY <3>1, SizeAssumption
  <2>2. MapTyped' /\ Ordered' /\ Disjoint'
    BY <1>3, SameMap, Parts
  <2>3. /\ range' \in RangeArguments
        /\ range.start' < range.end'
        /\ range.from' \subseteq {Conventional, Reserved}
    <3> HIDE DEF first, last
    <3> QED
      BY <1>3, <2>1, SizeAssumption DEF RangeArguments, MemoryTypes
  <2>4. TypeOK'
    BY <1>3, <2>2, <2>3, SizeAssumption DEF IndInv, TypeOK, MapTyped
  <2>5. MapSound'
    BY <1>3, <2>2 DEF MapSound, Ordered, Disjoint
  <2> QED
    BY <1>3, <2>3, <2>4, <2>5 DEF IndInv, ControlSound, RamSound
<1> QED
  BY <1>1, <1>2, <1>3 DEF BeginCarve

LEMMA ReservationStep ==
  ASSUME IndInv,
         \/ reserve_original_fdt
         \/ add_reserved_region
         \/ add_static_reserved_region
         \/ add_firmware_region
  PROVE  IndInv'
<1>1. CASE reserve_original_fdt
  <2>1. fdt.blob \in Region
    BY InputAssumption DEF IndInv, TypeOK, Fdt
  <2> QED
    BY <1>1, <2>1, BeginCarveStep
    DEF reserve_original_fdt, add_reserved_region_with_type, MemoryTypes
<1>2. CASE add_reserved_region
  <2>1. fdt.reserveMap[region] \in Region
    BY <1>2, FdtTyped DEF add_reserved_region, IndInv
  <2> QED
    BY <1>2, <2>1, BeginCarveStep
    DEF add_reserved_region, add_reserved_region_with_type, MemoryTypes
<1>3. CASE add_static_reserved_region
  <2>1. fdt.reserved[region].region \in Region
    BY <1>3, FdtTyped DEF add_static_reserved_region, IndInv
  <2>2. reserved_memory_type_to_efi(fdt.reserved[region].noMap) \in MemoryTypes
    BY DEF reserved_memory_type_to_efi, MemoryTypes
  <2> QED
    BY <1>3, <2>1, <2>2, BeginCarveStep
    DEF add_static_reserved_region, add_reserved_region_with_type
<1>4. CASE add_firmware_region
  <2>1. fdt.firmware[region] \in Region
    BY <1>4, FdtTyped DEF add_firmware_region, IndInv
  <2> QED
    BY <1>4, <2>1, BeginCarveStep, RegionDoneStep
    DEF add_firmware_region, MemoryTypes
<1> QED
  BY <1>1, <1>2, <1>3, <1>4

LEMMA EndOfListStep ==
  ASSUME IndInv, end_of_list
  PROVE  IndInv'
<1>1. /\ UNCHANGED mapVars /\ loop = "none"
      /\ phase \in {"memory", "reserve_map", "reserved_memory", "firmware"}
      /\ fdt' = fdt /\ index' = index /\ range' = range /\ result' = result
      /\ \/ phase \in {"memory", "firmware"} /\ loop' = "coalesce"
            /\ phase' = phase /\ region' = region
         \/ phase \in {"reserve_map", "reserved_memory"} /\ loop' = "none"
            /\ phase' \in {"reserved_memory", "firmware"} /\ region' = 1
  BY DEF end_of_list
<1>2. /\ MapTyped' /\ Ordered'
      /\ phase \notin {"memory", "failed"} => Disjoint'
      /\ phase = "memory" => AllConventional'
  BY <1>1, SameMap, Parts
<1>3. TypeOK'
  BY <1>1, <1>2 DEF IndInv, TypeOK, MapTyped
<1>4. MapSound'
  BY <1>1, <1>2 DEF MapSound, Ordered, Disjoint
<1>5. ControlSound'
  BY <1>1 DEF IndInv, ControlSound
<1>6. RamSound'
  <2>1. phase' = "memory" => index' = 1 /\ AllConventional'
    BY <1>1, <1>2 DEF IndInv, ControlSound
  <2>2. index' = 1 => DisjointUpTo(index)'
    BY <1>3 DEF DisjointUpTo, Live, TypeOK
  <2> QED BY <2>1, <2>2 DEF RamSound
<1> QED
  BY <1>3, <1>4, <1>5, <1>6 DEF IndInv

-----------------------------------------------------------------------------
(* The loops. *)

LEMMA CarveIterationStep ==
  ASSUME IndInv, carve_iteration
  PROVE  IndInv'
<1> DEFINE first == IF Start(index) > range.start THEN Start(index) ELSE range.start
           last == Shorter(End(index), range.end)
           pages == last - first
<1>1. /\ loop = "carve" /\ index <= descriptor_count /\ Start(index) < range.end
      /\ phase \in {"fdt", "reserve_map", "reserved_memory", "firmware"}
      /\ range.start < range.end
  BY DEF carve_iteration, IndInv, ControlSound
<1>2. /\ index \in Nat /\ descriptor_count \in Nat /\ index \in Live
      /\ descriptor_count <= Capacity /\ Capacity \in Nat
      /\ range.start \in Nat /\ range.end \in Nat /\ range.Type \in MemoryTypes
  BY <1>1, SizeAssumption DEF IndInv, TypeOK, Live, RangeArguments
<1>3. MapTyped /\ Ordered /\ Disjoint
  BY <1>1, Parts
<1>4. Start(index) \in Nat /\ End(index) \in Nat /\ Start(index) < End(index)
  BY <1>2, <1>3, LiveFacts DEF Ordered, Start, End, Descriptor
<1>5. CASE /\ index' = index + 1
           /\ UNCHANGED <<fdt, phase, region, loop, range, mapVars, result>>
  <2>1. MapTyped' /\ Ordered' /\ Disjoint'
    BY <1>3, <1>5, SameMap
  <2>2. TypeOK'
    BY <1>1, <1>2, <1>5, <2>1 DEF IndInv, TypeOK, MapTyped
  <2>3. MapSound'
    BY <2>1 DEF MapSound, Ordered, Disjoint
  <2> QED
    BY <1>1, <1>5, <2>2, <2>3 DEF IndInv, ControlSound, RamSound
<1>6. CASE Fail("BufferTooSmall")
  BY <1>6, FailStep DEF Errors
<1>7. CASE /\ End(index) > range.start
           /\ ReplaceFits(index, first, pages)
           /\ replace_range(index, first, pages, range.Type)
           /\ index' = index + 1 + PrefixParts(index, first)
           /\ UNCHANGED <<fdt, phase, region, loop, range, result>>
  <2>1. /\ first \in Nat /\ pages \in Nat \ {0}
        /\ Start(index) <= first /\ first + pages <= End(index)
    BY <1>1, <1>2, <1>4, <1>7 DEF Shorter
  <2>2. /\ PrefixParts(index, first) \in {0, 1}
        /\ SuffixParts(index, first, pages) \in {0, 1}
        /\ descriptor_count + PrefixParts(index, first) <= Capacity
    <3>1. /\ PrefixParts(index, first) \in {0, 1}
          /\ SuffixParts(index, first, pages) \in {0, 1}
      BY DEF PrefixParts, SuffixParts
    <3>2. descriptor_count + PrefixParts(index, first) + SuffixParts(index, first, pages)
            <= Capacity
      BY <1>7 DEF ReplaceFits
    <3> HIDE DEF first, pages
    <3> QED BY <1>2, <3>1, <3>2
  <2> HIDE DEF first, pages
  <2>3. MapTyped' /\ Ordered' /\ Disjoint'
    BY <1>2, <1>3, <1>7, <2>1, ReplaceRange
  <2>4. index' \in 1..(Capacity + 1)
    BY <1>1, <1>2, <1>7, <2>2
  <2>5. TypeOK'
    BY <1>7, <2>3, <2>4 DEF IndInv, TypeOK, MapTyped
  <2>6. MapSound'
    BY <2>3 DEF MapSound, Ordered, Disjoint
  <2> QED
    BY <1>1, <1>7, <2>5, <2>6 DEF IndInv, ControlSound, RamSound
<1> QED
  BY <1>5, <1>6, <1>7 DEF carve_iteration

LEMMA CoalesceIterationStep ==
  ASSUME IndInv, coalesce_iteration
  PROVE  IndInv'
<1>1. /\ loop = "coalesce" /\ index < descriptor_count
      /\ phase \in {"memory", "fdt", "firmware", "ready"}
      /\ fdt' = fdt /\ phase' = phase /\ region' = region /\ loop' = loop
      /\ range' = range /\ result' = result
  BY DEF coalesce_iteration, IndInv, ControlSound
<1>2. /\ index \in Nat /\ index >= 1 /\ descriptor_count \in Nat
      /\ descriptor_count <= Capacity /\ Capacity \in Nat
  BY SizeAssumption DEF IndInv, TypeOK
<1>3. /\ MapTyped /\ Ordered
      /\ phase # "memory" => Disjoint
      /\ phase = "memory" => AllConventional /\ DisjointUpTo(index)
  BY <1>1, Parts DEF IndInv, RamSound
<1>4. CASE merge_with_next(index) /\ UNCHANGED index
  <2>1. /\ MapTyped' /\ Ordered'
        /\ phase # "memory" => Disjoint'
        /\ phase = "memory" => AllConventional' /\ DisjointUpTo(index)'
    BY <1>1, <1>2, <1>3, <1>4, MergeWithNext DEF DisjointUpTo
  <2>2. TypeOK'
    BY <1>1, <1>4, <2>1 DEF IndInv, TypeOK, MapTyped
  <2>3. MapSound'
    BY <1>1, <2>1 DEF MapSound, Ordered, Disjoint
  <2> QED
    BY <1>1, <1>4, <2>1, <2>2, <2>3 DEF IndInv, ControlSound, RamSound
<1>5. CASE /\ ~descriptors_are_compatible(index, index + 1)
           /\ index' = index + 1 /\ UNCHANGED mapVars
  <2>1. /\ MapTyped' /\ Ordered'
        /\ phase # "memory" => Disjoint'
        /\ phase = "memory" => AllConventional'
    BY <1>3, <1>5, SameMap
  <2>2. TypeOK'
    BY <1>1, <1>2, <1>5, <2>1 DEF IndInv, TypeOK, MapTyped
  <2>3. MapSound'
    BY <1>1, <2>1 DEF MapSound, Ordered, Disjoint
  \* Two conventional neighbours that are not merged do not touch, and what
  \* ends before the one starts before the other as well.
  <2>4. ASSUME phase = "memory" PROVE DisjointUpTo(index)'
    <3>1. index \in Live /\ index + 1 \in Live
      BY <1>1, <1>2 DEF Live
    <3>2. End(index) < Start(index + 1)
      <4>1. descriptors[index].Type = descriptors[index + 1].Type
        BY <1>3, <2>4, <3>1 DEF AllConventional
      <4>2. ~(Start(index + 1) <= End(index))
        BY <1>5, <4>1 DEF descriptors_are_compatible
      <4> QED BY <1>3, <3>1, <4>2, LiveFacts
    <3>3. ASSUME NEW i \in Live, NEW j \in Live, i < j, j <= index + 1
          PROVE  End(i) <= Start(j)
      <4>1. /\ i \in Nat /\ j \in Nat /\ End(i) \in Nat /\ Start(j) \in Nat
            /\ End(index) \in Nat /\ Start(index) \in Nat /\ Start(index) <= End(index)
        BY <1>3, <3>1, LiveFacts DEF Start, End, Descriptor
      <4>2. CASE j <= index
        BY <1>3, <2>4, <3>3, <4>2 DEF DisjointUpTo
      <4>3. CASE j = index + 1 /\ i = index
        BY <3>2, <4>1, <4>3
      <4>4. CASE j = index + 1 /\ i < index
        <5>1. End(i) <= Start(index)
          BY <1>2, <1>3, <2>4, <3>1, <4>4 DEF DisjointUpTo
        <5> QED BY <3>1, <3>2, <4>1, <4>4, <5>1
      <4> QED BY <1>2, <3>3, <4>1, <4>2, <4>3, <4>4
    <3> QED
      BY <1>5, <3>3 DEF DisjointUpTo, mapVars, Live, Start, End
  <2> QED
    BY <1>1, <2>1, <2>2, <2>3, <2>4 DEF IndInv, ControlSound, RamSound
<1> QED
  BY <1>4, <1>5 DEF coalesce_iteration

LEMMA CoalesceExitStep ==
  ASSUME IndInv, coalesce_exit
  PROVE  IndInv'
<1>1. /\ loop = "coalesce" /\ index >= descriptor_count
      /\ phase \in {"memory", "fdt", "firmware", "ready"}
      /\ loop' = "none" /\ index' = 1 /\ region' = 1 /\ fdt' = fdt /\ range' = range
      /\ phase' \in {"fdt", "reserve_map", "ready"}
      /\ result' \in {result, "Ok"} /\ UNCHANGED mapVars
  BY DEF coalesce_exit, IndInv, ControlSound
<1>2. Disjoint
  <2>1. CASE phase = "memory"
    <3>1. DisjointUpTo(index)
      BY <1>1, <2>1 DEF IndInv, RamSound
    <3>2. \A j \in Live : j <= index
      BY <1>1 DEF IndInv, TypeOK, Live
    <3> QED BY <3>1, <3>2 DEF Disjoint, DisjointUpTo
  <2>2. CASE phase # "memory"
    BY <1>1, <2>2, Parts
  <2> QED BY <2>1, <2>2
<1>3. MapTyped' /\ Ordered' /\ Disjoint'
  BY <1>1, <1>2, SameMap, Parts
<1>4. TypeOK'
  BY <1>1, <1>3, SizeAssumption DEF IndInv, TypeOK, MapTyped
<1>5. MapSound'
  BY <1>3 DEF MapSound, Ordered, Disjoint
<1> QED
  BY <1>1, <1>4, <1>5 DEF IndInv, ControlSound, RamSound

-----------------------------------------------------------------------------
(* Reserved pages. *)

\* A step takes no page away from the reserved descriptors.
KeepsReserved == \A q \in 0..TopPage : ReservedPage(q) => ReservedPage(q)'

LEMMA SameMapKeepsReserved ==
  ASSUME UNCHANGED mapVars
  PROVE  KeepsReserved
  BY DEF mapVars, KeepsReserved, ReservedPage, Live, Start, End

LEMMA ReplaceKeepsReserved ==
  ASSUME MapTyped, NEW i \in Live, NEW M \in Nat, NEW P \in Nat \ {0}, NEW t,
         descriptors[i].Type # Reserved,
         ReplaceFits(i, M, P),
         replace_range(i, M, P, t)
  PROVE  KeepsReserved
<1> DEFINE pre == PrefixParts(i, M)
           suf == SuffixParts(i, M, P)
<1>1. /\ i \in Nat /\ i >= 1 /\ i <= descriptor_count
      /\ descriptor_count \in Nat /\ descriptor_count <= Capacity
      /\ Capacity \in Nat
  BY LiveFacts, SizeAssumption
<1>2. pre \in {0, 1} /\ suf \in {0, 1} /\ descriptor_count + pre + suf <= Capacity
  BY DEF PrefixParts, SuffixParts, ReplaceFits
<1>3. /\ descriptor_count' = descriptor_count + (pre + suf)
      /\ descriptors' = [k \in Slots |->
          IF k < i THEN descriptors[k]
          ELSE IF k < i + pre THEN Span(descriptors[i].Type, Start(i), M)
          ELSE IF k = i + pre THEN Span(t, M, M + P)
          ELSE IF k <= i + (pre + suf) THEN Span(descriptors[i].Type, M + P, End(i))
          ELSE IF k <= descriptor_count + (pre + suf) THEN descriptors[k - (pre + suf)]
          ELSE EMPTY_DESCRIPTOR]
  BY Zenon DEF replace_range
<1> HIDE DEF pre, suf
<1>4. ASSUME NEW k \in Live, k # i
      PROVE  \E m \in Live' : descriptors'[m] = descriptors[k]
  <2>1. k \in Nat /\ k >= 1 /\ k <= descriptor_count
    BY LiveFacts
  <2>2. CASE k < i
    <3>1. k \in Live' /\ descriptors'[k] = descriptors[k]
      BY <1>1, <1>2, <1>3, <2>1, <2>2 DEF Live, Slots
    <3> QED BY <3>1
  <2>3. CASE k > i
    <3> DEFINE m == k + (pre + suf)
    <3>1. m \in Live' /\ descriptors'[m] = descriptors[m - (pre + suf)]
      BY <1>1, <1>2, <1>3, <2>1, <2>3 DEF Live, Slots
    <3>2. m - (pre + suf) = k
      BY <1>2, <2>1
    <3> QED BY <3>1, <3>2
  <2> QED BY <1>1, <1>4, <2>1, <2>2, <2>3
<1>5. ASSUME NEW q \in 0..TopPage, ReservedPage(q)
      PROVE  ReservedPage(q)'
  <2>1. PICK k \in Live : descriptors[k].Type = Reserved /\ Start(k) <= q /\ q < End(k)
    BY <1>5 DEF ReservedPage
  <2>2. PICK m \in Live' : descriptors'[m] = descriptors[k]
    BY <1>4, <2>1
  <2> QED BY <2>1, <2>2 DEF ReservedPage, Start, End
<1> QED
  BY <1>5 DEF KeepsReserved

LEMMA MergeKeepsReserved ==
  ASSUME MapTyped, Ordered, Disjoint, NEW n \in Nat, n >= 1, n < descriptor_count,
         descriptors_are_compatible(n, n + 1),
         merge_with_next(n)
  PROVE  KeepsReserved
<1> DEFINE d == Span(descriptors[n].Type, Start(n), End(n + 1))
<1>1. /\ descriptor_count \in Nat /\ descriptor_count <= Capacity /\ Capacity \in Nat
      /\ n \in Live /\ n + 1 \in Live
  BY SizeAssumption DEF MapTyped, Live
<1>2. \A k \in Live : /\ k \in Nat /\ k >= 1 /\ k <= descriptor_count
                      /\ Start(k) \in Nat /\ End(k) \in Nat /\ Start(k) < End(k)
  BY LiveFacts, SizeAssumption DEF Ordered, Descriptor, Start, End
<1>3. End(n) <= Start(n + 1)
  BY <1>1 DEF Disjoint
<1>4. descriptors[n].Type = descriptors[n + 1].Type
  BY DEF descriptors_are_compatible
<1>5. d.Type = descriptors[n].Type /\ d.PhysicalStart = Start(n)
      /\ d.PhysicalStart + d.NumberOfPages = End(n + 1)
  BY <1>1, <1>2 DEF Span
<1>6. /\ descriptor_count' = descriptor_count - 1
      /\ descriptors' = [k \in Slots |->
           IF k < n THEN descriptors[k]
           ELSE IF k = n THEN d
           ELSE IF k < descriptor_count THEN descriptors[k + 1]
           ELSE EMPTY_DESCRIPTOR]
  BY Zenon DEF merge_with_next
<1> HIDE DEF d
<1>7. ASSUME NEW q \in 0..TopPage, ReservedPage(q)
      PROVE  ReservedPage(q)'
  <2>1. PICK k \in Live : descriptors[k].Type = Reserved /\ Start(k) <= q /\ q < End(k)
    BY <1>7 DEF ReservedPage
  <2>2. CASE k < n
    <3>1. k \in Live' /\ descriptors'[k] = descriptors[k]
      BY <1>1, <1>2, <1>6, <2>1, <2>2 DEF Live, Slots
    <3> QED BY <2>1, <3>1 DEF ReservedPage, Start, End
  <2>3. CASE k = n \/ k = n + 1
    <3>1. n \in Live' /\ descriptors'[n] = d
      BY <1>1, <1>6 DEF Live, Slots
    <3>2. d.Type = Reserved /\ d.PhysicalStart <= q /\ q < d.PhysicalStart + d.NumberOfPages
      BY <1>1, <1>2, <1>3, <1>4, <1>5, <2>1, <2>3
    <3> QED BY <3>1, <3>2 DEF ReservedPage, Start, End
  <2>4. CASE k > n + 1
    <3> DEFINE m == k - 1
    <3>1. m \in Live' /\ descriptors'[m] = descriptors[m + 1]
      BY <1>1, <1>2, <1>6, <2>4 DEF Live, Slots
    <3>2. m + 1 = k
      BY <1>2
    <3> QED BY <2>1, <3>1, <3>2 DEF ReservedPage, Start, End
  <2> QED BY <1>1, <1>2, <2>2, <2>3, <2>4
<1> QED
  BY <1>7 DEF KeepsReserved

-----------------------------------------------------------------------------
(* Calls.  Each keeps the invariant and takes no page from a reserved one. *)

LEMMA ReplaceAndCoalesceStep ==
  ASSUME IndInv, Ready,
         NEW i \in Live, NEW M \in Nat, NEW P \in Nat \ {0}, NEW t \in MemoryTypes,
         descriptors[i].Type # Reserved,
         Start(i) <= M, M + P <= End(i),
         ReplaceAndCoalesce(i, M, P, t)
  PROVE  IndInv' /\ KeepsReserved
<1>1. MapTyped /\ Ordered /\ Disjoint
  BY Parts DEF Ready
<1>2. CASE Return("BufferTooSmall")
  BY <1>2, ReturnStep, SameMapKeepsReserved DEF Errors, Return
<1>3. CASE /\ ReplaceFits(i, M, P)
           /\ replace_range(i, M, P, t)
           /\ loop' = "coalesce" /\ index' = 1 /\ result' = "Ok"
           /\ UNCHANGED <<fdt, phase, region, range>>
  <2>1. MapTyped' /\ Ordered' /\ Disjoint'
    BY <1>1, <1>3, ReplaceRange
  <2>2. KeepsReserved
    BY <1>1, <1>3, ReplaceKeepsReserved
  <2>3. TypeOK'
    BY <1>3, <2>1, SizeAssumption DEF IndInv, TypeOK, MapTyped
  <2>4. MapSound'
    BY <2>1 DEF MapSound, Ordered, Disjoint
  <2> QED
    BY <1>3, <2>2, <2>3, <2>4 DEF Ready, IndInv, ControlSound, RamSound
<1> QED
  BY <1>2, <1>3 DEF ReplaceAndCoalesce

LEMMA ExactRangeStep ==
  ASSUME IndInv, Ready, NEW M \in Nat, NEW P \in Nat \ {0}, NEW t \in MemoryTypes,
         allocate_exact_range(M, P, t) \/ free_exact_range(M, P)
  PROVE  IndInv' /\ KeepsReserved
<1>1. \A s \in Errors : Return(s) => IndInv' /\ KeepsReserved
  BY ReturnStep, SameMapKeepsReserved DEF Return
<1>2. CASE RangeMissing(M, P)
  BY <1>1, <1>2 DEF RangeMissing, Errors
<1>3. ASSUME NEW i \in Live, find_descriptor_covering(i, M, M + P)
      PROVE  Start(i) <= M /\ M + P <= End(i)
  BY <1>3 DEF find_descriptor_covering, Covers
<1>4. CASE allocate_exact_range(M, P, t)
  <2>1. ASSUME NEW i \in Live, find_descriptor_covering(i, M, M + P),
               descriptors[i].Type = Conventional, ReplaceAndCoalesce(i, M, P, t)
        PROVE  IndInv' /\ KeepsReserved
    BY <1>3, <2>1, ReplaceAndCoalesceStep DEF Conventional, Reserved
  <2> QED BY <1>1, <1>2, <1>4, <2>1 DEF allocate_exact_range, Errors
<1>5. CASE free_exact_range(M, P)
  <2>1. ASSUME NEW i \in Live, find_descriptor_covering(i, M, M + P),
               descriptors[i].Type \notin {Conventional, Reserved},
               ReplaceAndCoalesce(i, M, P, Conventional)
        PROVE  IndInv' /\ KeepsReserved
    BY <1>3, <2>1, ReplaceAndCoalesceStep DEF MemoryTypes
  <2> QED BY <1>1, <1>2, <1>5, <2>1 DEF free_exact_range, Errors
<1> QED
  BY <1>4, <1>5

LEMMA AllocateBestStep ==
  ASSUME IndInv, Ready, NEW starts \in SUBSET Nat, NEW direction,
         NEW P \in Nat \ {0}, NEW t \in MemoryTypes,
         AllocateBest(starts, direction, P, t)
  PROVE  IndInv' /\ KeepsReserved
<1>1. CASE Return("OutOfResources")
  BY <1>1, ReturnStep, SameMapKeepsReserved DEF Errors, Return
<1>2. CASE \E start \in starts : allocate_exact_range(start, P, t)
  BY <1>2, ExactRangeStep
<1> QED
  BY <1>1, <1>2 DEF AllocateBest

\* The searches offer page numbers: a descriptor that is large enough leaves
\* a start that is not below its own.
LEMMA SearchesOfferPages ==
  ASSUME MapTyped, NEW P \in Nat, NEW M \in Nat, NEW direction,
         NEW step \in Nat \ {0}
  PROVE  /\ find_allocation_any_pages(P) \subseteq Nat
         /\ find_allocation_max_address(P, M) \subseteq Nat
         /\ find_aligned_allocation(P, step, direction).starts \subseteq Nat
<1>1. \A i \in FreeSlots : Start(i) \in Nat /\ End(i) \in Nat
  BY LiveFacts DEF FreeSlots
<1>2. find_allocation_any_pages(P) \subseteq Nat
  BY <1>1 DEF find_allocation_any_pages
<1>3. find_allocation_max_address(P, M) \subseteq Nat
  <2> DEFINE limit == PageDown(Shorter(M + 1, MaxAddress))
  <2>1. limit \in Nat
    BY MaxAddressNat, PageDownNat DEF Shorter
  <2>2. find_allocation_max_address(P, M) =
          {Shorter(End(i), limit) - P :
             i \in {j \in FreeSlots : Start(j) + P <= Shorter(End(j), limit)}}
    BY DEF find_allocation_max_address
  <2> HIDE DEF limit
  <2>3. \A i \in FreeSlots : Start(i) + P <= Shorter(End(i), limit) =>
          Shorter(End(i), limit) - P \in Nat
    BY <1>1, <2>1 DEF Shorter
  <2> QED BY <2>2, <2>3
<1>4. find_aligned_allocation(P, step, direction).starts \subseteq Nat
  <2>1. ASSUME NEW i \in FreeSlots
        PROVE  AlignedStart(i, P, step, direction) \in Int
    BY <1>1 DEF AlignedStart, AlignUpPages, AlignDownPages
  <2>2. ASSUME NEW i \in FreeSlots, AlignedStart(i, P, step, direction) >= Start(i)
        PROVE  AlignedStart(i, P, step, direction) \in Nat
    BY <1>1, <2>1, <2>2
  <2> QED BY <2>2 DEF find_aligned_allocation, Roomy
<1> QED
  BY <1>2, <1>3, <1>4

\* An error return of any call.
LEMMA ErrorStep ==
  ASSUME IndInv, Ready, NEW s \in Errors, Return(s)
  PROVE  IndInv' /\ KeepsReserved
  BY ReturnStep, SameMapKeepsReserved DEF Return

LEMMA AllocatePagesStep ==
  ASSUME IndInv, Ready, NEW Type, NEW t \in MemoryTypes \cup {MaxType},
         NEW P \in Nat, NEW M \in Nat,
         AllocatePages(Type, t, P, M)
  PROVE  IndInv' /\ KeepsReserved
<1>1. MapTyped
  BY Parts
<1>2. CASE Return("InvalidParameter") \/ Return("AddressOverflow")
  BY <1>2, ErrorStep DEF Errors
<1>3. ASSUME P # 0, t # MaxType
      PROVE  P \in Nat \ {0} /\ t \in MemoryTypes
  BY <1>3
<1>4. ASSUME P # 0, t # MaxType,
             \/ AllocateBest(find_allocation_any_pages(P), "High", P, t)
             \/ AllocateBest(find_allocation_max_address(P, M), "High", P, t)
      PROVE  IndInv' /\ KeepsReserved
  <2>1. /\ find_allocation_any_pages(P) \in SUBSET Nat
        /\ find_allocation_max_address(P, M) \in SUBSET Nat
    <3>1. 1 \in Nat \ {0}
      OBVIOUS
    <3> QED BY <1>1, <3>1, SearchesOfferPages
  <2> QED BY <1>3, <1>4, <2>1, AllocateBestStep
<1>5. ASSUME P # 0, t # MaxType, allocate_exact_range(PageDown(M), P, t)
      PROVE  IndInv' /\ KeepsReserved
  BY <1>3, <1>5, PageDownNat, ExactRangeStep
<1> QED
  BY <1>2, <1>4, <1>5 DEF AllocatePages

LEMMA AllocateAlignedPagesStep ==
  ASSUME IndInv, Ready, NEW t \in MemoryTypes \cup {MaxType},
         NEW P \in Nat, NEW a \in Nat, NEW direction,
         allocate_aligned_pages(t, P, a, direction)
  PROVE  IndInv' /\ KeepsReserved
<1>1. MapTyped
  BY Parts
<1>2. CASE Return("InvalidParameter") \/ Return("AddressOverflow")
  BY <1>2, ErrorStep DEF Errors
<1>3. ASSUME P # 0, t # MaxType, a # 0, is_page_aligned(a),
             AllocateBest(find_aligned_allocation(P, PageDown(a), direction).starts,
                          direction, P, t)
      PROVE  IndInv' /\ KeepsReserved
  <2>1. P \in Nat \ {0} /\ t \in MemoryTypes
    BY <1>3
  <2>2. PageDown(a) \in Nat \ {0}
    <3>1. PageDown(a) \in Nat
      BY PageDownNat
    <3>2. a \div PageSize # 0
      BY <1>3, SizeAssumption DEF is_page_aligned
    <3> QED BY <3>1, <3>2 DEF PageDown
  <2>3. find_aligned_allocation(P, PageDown(a), direction).starts \in SUBSET Nat
    BY <1>1, <2>1, <2>2, SearchesOfferPages
  <2> QED BY <1>3, <2>1, <2>3, AllocateBestStep
<1> QED
  BY <1>2, <1>3 DEF allocate_aligned_pages

LEMMA CallStep ==
  ASSUME IndInv, Call
  PROVE  IndInv' /\ KeepsReserved
<1>1. Ready
  BY DEF Call
<1>2. /\ \A t \in RequestTypes : t \in MemoryTypes \cup {MaxType}
      /\ \A n \in PageCounts : n \in Nat
      /\ \A m \in Addresses : m \in Nat
      /\ \A s \in Sizes : s \in Nat
      /\ \A a \in Alignments : a \in Nat
  BY InputAssumption, AlignmentAssumption, MaxAddressNat
<1>3. \A s \in Sizes : pages_for_size(s) \in Nat
  BY <1>2, PageDownNat DEF pages_for_size
<1>4. ASSUME NEW Type \in AllocateTypes, NEW t \in RequestTypes, NEW n \in PageCounts,
             NEW m \in IF Type = "AllocateAnyPages" THEN {0} ELSE Addresses,
             AllocatePages(Type, t, n, m)
      PROVE  IndInv' /\ KeepsReserved
  <2>1. m \in Nat
    BY <1>2
  <2> QED BY <1>1, <1>2, <1>4, <2>1, AllocatePagesStep
<1>5. ASSUME NEW t \in RequestTypes, NEW size \in Sizes,
             allocate_pages_for_size(t, size)
      PROVE  IndInv' /\ KeepsReserved
  <2>1. CASE Return("InvalidParameter") \/ Return("AddressOverflow")
    BY <1>1, <2>1, ErrorStep DEF Errors
  <2>2. CASE AllocatePages("AllocateAnyPages", t, pages_for_size(size), 0)
    <3>1. 0 \in Nat
      OBVIOUS
    <3> QED BY <1>1, <1>2, <1>3, <2>2, <3>1, AllocatePagesStep
  <2> QED BY <1>5, <2>1, <2>2 DEF allocate_pages_for_size
<1>6. ASSUME NEW t \in RequestTypes, NEW n \in PageCounts, NEW a \in Alignments,
             NEW direction \in {"Low", "High"},
             allocate_aligned_pages(t, n, a, direction)
      PROVE  IndInv' /\ KeepsReserved
  BY <1>1, <1>2, <1>6, AllocateAlignedPagesStep
<1>7. ASSUME NEW t \in RequestTypes, NEW size \in Sizes, NEW a \in Alignments,
             NEW direction \in {"Low", "High"},
             allocate_aligned_pages_for_size(t, size, a, direction)
      PROVE  IndInv' /\ KeepsReserved
  <2>1. CASE Return("InvalidParameter") \/ Return("AddressOverflow")
    BY <1>1, <2>1, ErrorStep DEF Errors
  <2>2. CASE allocate_aligned_pages(t, pages_for_size(size), a, direction)
    BY <1>1, <1>2, <1>3, <2>2, AllocateAlignedPagesStep
  <2> QED BY <1>7, <2>1, <2>2 DEF allocate_aligned_pages_for_size
<1>8. ASSUME NEW m \in Addresses, NEW n \in PageCounts, FreePages(m, n)
      PROVE  IndInv' /\ KeepsReserved
  <2>1. CASE Return("InvalidParameter")
    BY <1>1, <2>1, ErrorStep DEF Errors
  <2>2. CASE n # 0 /\ free_exact_range(PageDown(m), n)
    <3>1. n \in Nat \ {0} /\ PageDown(m) \in Nat /\ Conventional \in MemoryTypes
      BY <1>2, <2>2, PageDownNat DEF MemoryTypes
    <3> QED BY <1>1, <2>2, <3>1, ExactRangeStep
  <2> QED BY <1>8, <2>1, <2>2 DEF FreePages
<1> QED
  BY <1>4, <1>5, <1>6, <1>7, <1>8 DEF Call

-----------------------------------------------------------------------------
(* The theorems. *)

LEMMA NextInv ==
  ASSUME IndInv, [Next]_vars
  PROVE  IndInv'
<1>1. CASE UNCHANGED vars
  <2>1. UNCHANGED mapVars
    BY <1>1 DEF vars, mapVars
  <2>2. /\ TypeOK' /\ MapSound' /\ ControlSound'
    BY <1>1 DEF vars, IndInv, TypeOK, MapSound, ControlSound, Live, Start, End
  <2>3. RamSound'
    BY <1>1 DEF vars, IndInv, RamSound, AllConventional, DisjointUpTo, Live, Start, End
  <2> QED BY <2>2, <2>3 DEF IndInv
<1>2. CASE Construct
  BY <1>2, AddMemoryRegionStep, ReservationStep, EndOfListStep DEF Construct
<1>3. CASE Loop
  <2>1. CASE carve_exit
    BY <2>1, RegionDoneStep DEF carve_exit
  <2> QED
    BY <1>3, <2>1, CarveIterationStep, CoalesceIterationStep, CoalesceExitStep DEF Loop
<1>4. CASE Call
  BY <1>4, CallStep
<1> QED
  BY <1>1, <1>2, <1>3, <1>4 DEF Next, NoAllocator

\* memory.rs never indexes past its descriptor buffer and never stores a
\* descriptor outside the address space, whatever the device tree says and
\* whatever its callers ask for.
THEOREM TypeCorrect == Spec => []TypeOK
<1>1. Init => IndInv
  BY InitInv
<1>2. IndInv /\ [Next]_vars => IndInv'
  BY NextInv
<1>3. IndInv => TypeOK
  BY DEF IndInv
<1> QED
  BY <1>1, <1>2, <1>3, PTL DEF Spec

\* The descriptor array is a memory map at every step of from_fdt, of the
\* carve and coalesce loops and of the calls: ordered, without empty
\* descriptors, and from the end of the RAM phase without overlaps.
THEOREM MapIsSound == Spec => []MapSound
<1>1. Init => IndInv
  BY InitInv
<1>2. IndInv /\ [Next]_vars => IndInv'
  BY NextInv
<1>3. IndInv => MapSound
  BY DEF IndInv
<1> QED
  BY <1>1, <1>2, <1>3, PTL DEF Spec

\* No sequence of AllocatePages, allocate_aligned_pages and FreePages calls,
\* nor the coalesce that ends each of them, retypes a reserved page.
THEOREM ReservedIsKept == Spec => ReservedStaysReserved
<1>1. Init => IndInv
  BY InitInv
<1>2. IndInv /\ [Next]_vars => IndInv'
  BY NextInv
<1>3. IndInv /\ [Next]_vars =>
        [\A q \in 0..TopPage : phase = "ready" /\ ReservedPage(q) => ReservedPage(q)']_vars
  <2> SUFFICES ASSUME IndInv, Next, phase = "ready"
               PROVE  KeepsReserved
    BY DEF KeepsReserved
  <2>1. CASE Construct
    BY <2>1 DEF Construct, add_memory_region, reserve_original_fdt, add_reserved_region,
                add_static_reserved_region, add_firmware_region, end_of_list
  <2>2. CASE coalesce_iteration
    <3>1. MapTyped /\ Ordered /\ Disjoint
      BY Parts
    <3>2. index \in Nat /\ index >= 1
      BY SizeAssumption DEF IndInv, TypeOK
    <3> QED
      BY <2>2, <3>1, <3>2, MergeKeepsReserved, SameMapKeepsReserved DEF coalesce_iteration
  <2>3. CASE coalesce_exit
    BY <2>3, SameMapKeepsReserved DEF coalesce_exit
  <2>4. CASE carve_iteration \/ carve_exit
    BY <2>4 DEF IndInv, ControlSound, carve_iteration, carve_exit
  <2>5. CASE Call
    BY <2>5, CallStep
  <2>6. CASE NoAllocator
    BY <2>6 DEF NoAllocator
  <2> QED
    BY <2>1, <2>2, <2>3, <2>4, <2>5, <2>6 DEF Next, Loop
<1> QED
  BY <1>1, <1>2, <1>3, PTL DEF Spec, ReservedStaysReserved

=============================================================================
