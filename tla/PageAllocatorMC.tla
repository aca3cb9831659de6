--------------------------- MODULE PageAllocatorMC ---------------------------
(***************************************************************************)
(* Small device trees for PageAllocator.  A page has two bytes and the     *)
(* address space sixteen, so rounding, the end of the address space and a  *)
(* full descriptor buffer are all within reach.                            *)
(***************************************************************************)
EXTENDS PageReference

R(base, size) == [base |-> base, size |-> size]
Child(base, size, noMap) == [region |-> R(base, size), noMap |-> noMap]
Tree(memory, blob, reserveMap, reserved, firmware) ==
  [memory |-> memory, blob |-> blob, reserveMap |-> reserveMap,
   reserved |-> reserved, firmware |-> firmware]

\* The image: code, data, heap and stack, then the same with an empty heap
\* and a stack that shares a page with the data.
Image      == <<R(8, 1), R(10, 1), R(12, 1), R(12, 2)>>
SmallImage == <<R(7, 2), R(9, 1), R(10, 0), R(10, 1)>>

\* /memory: one region, one with partial edge pages, two adjacent, two out of
\* order with a hole, two that overlap, one that wraps around the end of the
\* address space, one smaller than a page, and as many as the slice takes.
RamLists == {
  <<R(0, 14)>>, <<R(1, 12)>>, <<R(0, 6), R(6, 8)>>, <<R(8, 6), R(0, 6)>>,
  <<R(0, 8), R(4, 9)>>, <<R(0, 12), R(15, 2)>>, <<R(3, 2), R(4, 10)>>,
  <<R(8, 2), R(4, 2), R(0, 2)>>}

ReserveMaps == {
  <<>>, <<R(5, 2)>>, <<R(0, 4), R(11, 1)>>, <<R(14, 1)>>, <<R(3, 0), R(1, 9)>>}

ReservedLists == {
  <<>>, <<Child(4, 4, TRUE)>>, <<Child(3, 2, FALSE)>>,
  <<Child(4, 4, TRUE), Child(6, 4, FALSE)>>}

ConstructionTrees ==
  {Tree(m, b, v, d, w) : m \in RamLists, b \in {R(2, 3), R(9, 2)},
   v \in ReserveMaps, d \in ReservedLists, w \in {Image, SmallImage}}

\* Trees on which callers then allocate and free.
CallTrees == {
  Tree(<<R(1, 13)>>, R(9, 2), <<R(5, 1)>>, <<>>, SmallImage),
  Tree(<<R(0, 6), R(8, 6)>>, R(3, 1), <<>>, <<Child(12, 1, TRUE)>>, SmallImage),
  Tree(<<R(0, 14)>>, R(0, 1), <<>>, <<>>, <<R(2, 1), R(2, 1), R(2, 0), R(2, 0)>>)}

\* A no-map child overlapped by a later, ordinary one.
OverlappingChildTrees == {
  Tree(<<R(0, 14)>>, R(12, 1), <<>>, <<Child(2, 4, TRUE), Child(4, 2, FALSE)>>,
       SmallImage)}

=============================================================================
