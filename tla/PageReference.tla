---------------------------- MODULE PageReference ----------------------------
(***************************************************************************)
(* Reference definitions for PageAllocator, stated on pages and not on     *)
(* descriptors: the map the device tree asks for, the free runs a search   *)
(* ranges over, and the refinement of PageMap.                             *)
(***************************************************************************)
EXTENDS PageAllocator

Pages == 0..(TopPage - 1)

Holds(i, q) == Start(i) <= q /\ q < End(i)

TypeAt(q) ==
  IF \E i \in Live : Holds(i, q)
  THEN descriptors[CHOOSE i \in Live : Holds(i, q)].Type
  ELSE "none"

First(S) == CHOOSE x \in S : \A y \in S : x <= y
Last(S)  == CHOOSE x \in S : \A y \in S : x >= y

-----------------------------------------------------------------------------
(* The map the device tree asks for. *)

Elements(s) == {s[k] : k \in DOMAIN s}

\* Bytes of page q lie in region r; all of them do.
Touches(r, q) == q * PageSize < r.base + r.size /\ r.base < (q + 1) * PageSize
Fills(r, q)   == r.base <= q * PageSize /\ (q + 1) * PageSize <= r.base + r.size

InRam(q) == \E r \in Elements(fdt.memory) : Fills(r, q)

Claim(r, t, byFirmware) == [region |-> r, Type |-> t, byFirmware |-> byFirmware]

\* Everything that claims pages, in the order in which from_fdt lets it.
Claims ==
  <<Claim(fdt.blob, AcpiReclaim, FALSE)>>
  \o [k \in DOMAIN fdt.reserveMap |-> Claim(fdt.reserveMap[k], Reserved, FALSE)]
  \o [k \in DOMAIN fdt.reserved |->
        Claim(fdt.reserved[k].region,
              IF fdt.reserved[k].noMap THEN Reserved ELSE BootData, FALSE)]
  \o [k \in 1..4 |->
        Claim(fdt.firmware[k], IF k = 1 THEN FirmwareCode ELSE BootData, TRUE)]

ClaimsOn(q) ==
  {k \in DOMAIN Claims :
     LET r == Claims[k].region
     IN /\ ~(Claims[k].byFirmware /\ r.size = 0)
        /\ Touches(r, q)}

\* The first claim decides, except that a device-tree claim may still take a
\* page whose first claim only reserved it.
ExpectedType(q) ==
  LET claims == ClaimsOn(q)
      first  == First(claims)
      takers == {k \in claims : Claims[k].Type # Reserved /\ ~Claims[k].byFirmware}
  IN IF ~InRam(q) THEN "none"
     ELSE IF claims = {} THEN Conventional
     ELSE IF Claims[first].Type # Reserved \/ takers = {} THEN Claims[first].Type
     ELSE Claims[First(takers)].Type

\* When from_fdt returns Ok, every page has exactly the type the device tree
\* and the linker script give it: no RAM is lost, nothing outside RAM is
\* listed, and no claimed page is left free by the splits and merges.
MapMatchesDeviceTree ==
  [][phase = "firmware" /\ phase' = "ready" =>
       \A q \in Pages : TypeAt(q)' = ExpectedType(q)]_vars

\* A no-map child of /reserved-memory remains reserved in the map.
NoMapStaysReserved ==
  phase = "ready" =>
    \A q \in Pages :
      (InRam(q) /\ \E c \in Elements(fdt.reserved) : c.noMap /\ Touches(c.region, q))
      => TypeAt(q) = Reserved

-----------------------------------------------------------------------------
(* What a caller may expect. *)

\* First pages of the runs of n pages that all have type t.
Runs(n, t) == {s \in Pages : \A q \in s..(s + n - 1) : q \in Pages /\ TypeAt(q) = t}

SameHighest(starts, runs) ==
  IF starts = {} THEN runs = {} ELSE runs # {} /\ Last(starts) = Last(runs)

SameLowest(starts, runs) ==
  IF starts = {} THEN runs = {} ELSE runs # {} /\ First(starts) = First(runs)

\* What find_aligned_allocation returns for n pages on the boundary a.  It gives
\* up when the size overflows and, from the low end, when any free stretch with
\* room begins so close to the end of the address space that rounding its
\* address up overflows, even though another stretch may fit.
AlignedIsExact(n, a) ==
  LET runs    == Runs(n, Conventional)
      fitting == {s \in runs : (s * PageSize) % a = 0}
      begins  == {s \in runs : s - 1 \notin Runs(1, Conventional)}
      high    == find_aligned_allocation(n, PageDown(a), "High")
      low     == find_aligned_allocation(n, PageDown(a), "Low")
  IN /\ high.overflows <=> n * PageSize > MaxAddress
     /\ ~high.overflows => SameHighest(high.starts, fitting)
     /\ low.overflows <=> \/ n * PageSize > MaxAddress
                          \/ \E s \in begins : s * PageSize + a - 1 > MaxAddress
     /\ ~low.overflows => SameLowest(low.starts, fitting)

\* The descriptor searches miss nothing: they find the highest (lowest) free
\* run of pages there is, below the limit and on the boundary asked for, and
\* find none only when there is none.  A run split over two descriptors, an
\* off-by-one at the limit or at a descriptor's edge would show.  The aligned
\* search looks on only where no address overflows, and AddressOverflow has
\* exactly the causes above.
SearchesAreExact ==
  Ready => \A n \in PageCounts \ {0} :
    LET runs == Runs(n, Conventional)
    IN /\ SameHighest(find_allocation_any_pages(n), runs)
       /\ \A m \in Addresses :
            SameHighest(find_allocation_max_address(n, m),
                        {s \in runs : (s + n) * PageSize - 1 <= m})
       /\ \A a \in {b \in Alignments : b # 0 /\ is_page_aligned(b)} : AlignedIsExact(n, a)

\* Whatever was allocated can be given back: between calls any run of pages
\* of one type lies inside one descriptor, so FreePages, which looks for a
\* single descriptor, never answers NotFound to an owner.
OwnedRunsAreFound ==
  Ready => \A n \in PageCounts \ {0}, t \in MemoryTypes : \A s \in Runs(n, t) :
    \E i \in Live : Covers(i, s, s + n)

-----------------------------------------------------------------------------
\* The allocator implements PageMap: carve iterations, allocations and frees
\* change exactly the pages they are about, and everything else, coalesce
\* included, changes no page's type.
PageMapOf == INSTANCE PageMap WITH
  types <- [q \in Pages |-> TypeAt(q)], built <- phase = "ready"

ImplementsPageMap == PageMapOf!Spec

\* from_fdt always returns.
ConstructionEnds == <>(phase \in {"ready", "failed"})

\* No loop of memory.rs, in construction or in a call, runs for ever over the
\* array it edits.
LoopsEnd == (loop # "none") ~> (loop = "none")

=============================================================================
