------------------------------- MODULE PageMap -------------------------------
(***************************************************************************)
(* What the page allocator of memory.rs promises, with no descriptors: a   *)
(* type for every page.  While the map is being built, RAM pages appear    *)
(* and free or reserved ones are claimed; afterwards a call gives away     *)
(* pages that are all free, or takes back pages that are all owned.        *)
(***************************************************************************)
EXTENDS Integers

CONSTANTS
  Pages,        \* page numbers of the machine
  MemoryTypes,  \* EFI memory types
  Conventional, \* the type of free RAM
  Reserved      \* the type of pages nobody may use

VARIABLES
  types, \* the type of each page, "none" where there is no RAM
  built  \* construction is over and callers may allocate and free

vars == <<types, built>>

Retype(S, t) == types' = [q \in Pages |-> IF q \in S THEN t ELSE types[q]]

Init == types = [q \in Pages |-> "none"] /\ built = FALSE

\* A /memory region is added; the part of it already known stays as it is.
Discover(first, last) ==
  /\ ~built
  /\ \A q \in first..last : types[q] \in {"none", Conventional}
  /\ Retype(first..last, Conventional)
  /\ UNCHANGED built

\* A contiguous stretch of free (or reserved) pages gets an owner.
Claim(first, last, t) ==
  /\ ~built
  /\ \E from \in {Conventional, Reserved} : \A q \in first..last : types[q] = from
  /\ Retype(first..last, t)
  /\ UNCHANGED built

Build == ~built /\ built' = TRUE /\ UNCHANGED types

\* A caller receives pages every one of which was free.
Allocate(first, last, t) ==
  /\ built
  /\ \A q \in first..last : types[q] = Conventional
  /\ Retype(first..last, t)
  /\ UNCHANGED built

\* Pages of one owner become free; reserved ones never do.
Free(first, last) ==
  /\ built
  /\ \E t \in MemoryTypes \ {Conventional, Reserved} :
       \A q \in first..last : types[q] = t
  /\ Retype(first..last, Conventional)
  /\ UNCHANGED built

Next ==
  \/ Build
  \/ \E first, last \in Pages :
       /\ first <= last
       /\ \/ Discover(first, last)
          \/ Free(first, last)
          \/ \E t \in MemoryTypes : Claim(first, last, t) \/ Allocate(first, last, t)

Spec == Init /\ [][Next]_vars

=============================================================================
