------------------------------ MODULE DtbWrite ------------------------------
(***************************************************************************)
(* The device-tree writer (dtb_write.rs): the clone of the passed tree     *)
(* with room for edits, create_node and set_property, which splice records *)
(* into the structure block and append strings, and the edits of /chosen   *)
(* for Linux (linux.rs).                                                   *)
(*                                                                         *)
(* A request is a list of calls, ended by the first one that fails.  Sizes *)
(* are small enough for 32 bits.                                           *)
(***************************************************************************)
EXTENDS DtbRead, FiniteSets

CONSTANTS
  PageSize,        \* EFI_PAGE_SIZE
  MaxString,       \* MAX_PROPERTY_STRING_LEN (256)
  MaxNodeBytes,    \* bytes of insert_child_node's buffer (267)
  Sources,         \* blobs the firmware is passed: records, header, and if they are sound
  LinuxExtraSize,  \* LINUX_DTB_EXTRA_SIZE
  ExtraSizes,      \* room asked for in a clone
  Requests,        \* lists of calls
  MaxRequests      \* requests made of one clone

ASSUME SizeAssumption ==
  /\ PageSize \in Nat \ {0}
  /\ MaxString \in Nat /\ MaxNodeBytes \in Nat
  /\ LinuxExtraSize \in Nat /\ ExtraSizes \subseteq Nat
  /\ MaxRequests \in Nat

\* Nothing is assumed of a blob but that its header holds numbers, that its
\* names have a length, and that the strings are behind the structure block, the
\* order the Devicetree Specification prescribes: from_ptr does not look at it,
\* and splice_struct_placeholder relies on it when it subtracts one end from
\* the other.
IsRecord(r) ==
  /\ r.kind \in {"begin", "string"} => r.name \in DOMAIN LengthOf
  /\ r.kind = "prop" => r.length \in Nat

IsHeader(h) ==
  h \in [magic : BOOLEAN, version : Nat, total_size : Nat, off_mem_rsvmap : Nat,
         off_dt_struct : Nat, size_dt_struct : Nat, off_dt_strings : Nat, size_dt_strings : Nat]

ASSUME SourceAssumption ==
  \A s \in Sources :
    /\ IsHeader(s.header)
    /\ HeaderError(s.header) = "none" => StructEnd(s.header) <= s.header.off_dt_strings
    /\ DOMAIN s.blob \subseteq Nat
    /\ \A o \in DOMAIN s.blob : IsRecord(s.blob[o])

ASSUME RequestAssumption ==
  \A q \in Requests :
    /\ Len(q) \in Nat
    /\ \A k \in 1..Len(q) :
         /\ q[k].path \in Seq(DOMAIN LengthOf)
         /\ q[k].op # "create" => q[k].name \in DOMAIN LengthOf /\ q[k].length \in Nat

VARIABLES
  tree,     \* what the records of a sound blob spell
  sound,    \* the passed blob is one that a compiler writes
  size,     \* size of the Dtb: bytes of its allocation
  extra,    \* room that was asked for in the clone
  pc,       \* where the writer is
  requests, \* how many requests were made
  request,  \* calls of the last one
  done,     \* how many of them have returned Ok
  rest,     \* components of create_node still to come
  node,     \* node they are below, or that a property is for
  nameoff,  \* offset of the property's name
  result    \* result of the request

blobVars == <<blob, header, tree>>
cloneVars == <<sound, size, extra>>
callVars == <<rest, node, nameoff>>
vars == <<blobVars, cloneVars, pc, requests, request, done, callVars, result>>

-----------------------------------------------------------------------------
(* Calls. *)

CreateNode(path) == [op |-> "create", path |-> path]
SetProperty(path, name, length, value) ==
  [op |-> "bytes", path |-> path, name |-> name, length |-> length, value |-> value]

\* The value of a string property has one more byte, and a limit.
SetString(path, name, length, value) ==
  [op |-> "string", path |-> path, name |-> name, length |-> length + 1, value |-> value]

Chosen == <<"", "chosen">>

\* LinuxBootRequest::update_device_tree.
update_device_tree(initrd, length) ==
  <<CreateNode(Chosen)>>
    \o (IF initrd
        THEN <<SetProperty(Chosen, "linux,initrd-start", 8, "start"),
               SetProperty(Chosen, "linux,initrd-end", 8, "end")>>
        ELSE <<>>)
    \o <<SetString(Chosen, "bootargs", length, "command line")>>

Call == request[done + 1]

-----------------------------------------------------------------------------
(* What the blob says, from all of its records. *)

InStruct == {o \in DOMAIN blob : o >= header.off_dt_struct /\ o < StructEnd(header)}
InStrings == {o \in DOMAIN blob : o >= header.off_dt_strings /\ o < StringsEnd(header)}
OfKind(k) == {o \in InStruct : blob[o].kind = k}

\* Nodes that are open at o, one that begins there included.
Level(o) == Cardinality({b \in OfKind("begin") : b <= o})
              - Cardinality({e \in OfKind("end_node") : e < o})

\* The nodes: where they begin and end.
Spans ==
  {[begin |-> b, end |-> CHOOSE e \in OfKind("end_node") :
                           /\ e > b /\ Level(e) = Level(b)
                           /\ \A f \in OfKind("end_node") : f > b /\ f < e => Level(f) > Level(b)]
     : b \in OfKind("begin")}

NameOf(p) == string_at(blob[p].nameoff).name

\* The properties of every node, by the names of the nodes it is in, the
\* root's left out.
TreeOf ==
  LET spans == Spans
      around(o) == {s \in spans : s.begin <= o /\ o < s.end}
      path(o) ==
        LET nodes == around(o)
        IN [k \in 1..(Cardinality(nodes) - 1) |->
              blob[(CHOOSE s \in nodes :
                      Cardinality({t \in nodes : t.begin < s.begin}) = k).begin].name]
      located == {<<p, path(p)>> : p \in OfKind("prop")}
      props(q) == {l[1] : l \in {l \in located : l[2] = q}}
  IN [q \in {path(s.begin) : s \in spans} |->
        [name \in {NameOf(p) : p \in props(q)} |->
           LET p == CHOOSE p \in props(q) : NameOf(p) = name
           IN [length |-> blob[p].length, value |-> blob[p].value]]]

NoTree == [path \in {<<>>} |-> <<>>]

\* After blob' and header'.
Respell == tree' = IF sound THEN TreeOf' ELSE tree

-----------------------------------------------------------------------------
Init ==
  /\ \E s \in Sources : blob = s.blob /\ header = s.header /\ sound = s.sound
  /\ tree = IF sound THEN TreeOf ELSE NoTree
  /\ size = 0
  /\ extra = 0
  /\ pc = "passed"
  /\ requests = 0
  /\ request = <<>>
  /\ done = 0
  /\ rest = <<>>
  /\ node = NoNode
  /\ nameoff = 0
  /\ result = "none"

\* Dtb::from_ptr.
from_ptr ==
  /\ pc = "passed"
  /\ \/ /\ HeaderError(header) # "none"
        /\ result' = HeaderError(header)
        /\ pc' = "refused"
        /\ UNCHANGED size
     \/ /\ HeaderError(header) = "none"
        /\ size' = header.total_size
        /\ pc' = "source"
        /\ UNCHANGED result
  /\ UNCHANGED <<blobVars, sound, extra, requests, request, done, callVars>>

\* Mutant: the clone is as large as the source.
CloneSize_same(new_size) == header.total_size

CloneSize(new_size) == ((new_size + PageSize - 1) \div PageSize) * PageSize

\* Dtb::clone, in new pages: the rest of them is zeros.
clone ==
  /\ pc = "source"
  /\ extra' \in ExtraSizes
  /\ \/ /\ size + extra' <= header.total_size
        /\ result' = "InvalidCloneSize"
        /\ pc' = "refused"
        /\ UNCHANGED <<blobVars, size>>
     \/ /\ size + extra' > header.total_size
        /\ result' = "Memory"
        /\ pc' = "refused"
        /\ UNCHANGED <<blobVars, size>>
     \/ /\ size + extra' > header.total_size
        /\ size' = CloneSize(size + extra')
        /\ header' = [header EXCEPT !.total_size = size']
        /\ UNCHANGED blob
        /\ Respell
        /\ pc' = "idle"
        /\ UNCHANGED result
  /\ UNCHANGED <<sound, requests, request, done, callVars>>

begin_request ==
  /\ pc = "idle" /\ requests < MaxRequests
  /\ requests' = requests + 1
  /\ request' \in Requests
  /\ done' = 0
  /\ result' = "none"
  /\ pc' = "call"
  /\ UNCHANGED <<blobVars, cloneVars, callVars>>

\* A call returns.
Ok == pc' = "call" /\ done' = done + 1 /\ UNCHANGED result
Fail(why) == pc' = "idle" /\ result' = why /\ UNCHANGED done

end_request ==
  /\ pc = "call"
  /\ done = Len(request)
  /\ pc' = "idle"
  /\ result' = "Ok"
  /\ UNCHANGED <<blobVars, cloneVars, requests, request, done, callVars>>

-----------------------------------------------------------------------------
(* Splices. *)

used_blob_end_offset == StringsEnd(header)

\* Mutant: the strings behind the structure block are forgotten.
SpliceFits_structure(old_len, new_len) == StructEnd(header) - old_len + new_len <= size

\* Mutant: the replaced bytes are not taken off the new end.
SpliceFits_without_old(old_len, new_len) == used_blob_end_offset + new_len <= size

SpliceFits(old_len, new_len) == used_blob_end_offset - old_len + new_len <= size

\* What splice_struct_placeholder refuses.
SpliceError(offset, old_len, new_len) ==
  IF offset < header.off_dt_struct \/ offset + old_len > StructEnd(header) THEN "BadStructure"
  ELSE IF ~SpliceFits(old_len, new_len) THEN "BufferTooSmall"
  ELSE "none"

\* Mutant: the strings are moved, but their offset is not.
SplicedHeader_without_strings(old_len, new_len) ==
  [header EXCEPT !.size_dt_struct = @ + new_len - old_len]

SplicedHeader(old_len, new_len) ==
  [header EXCEPT !.size_dt_struct = @ + new_len - old_len,
                 !.off_dt_strings = @ + new_len - old_len]

\* splice_struct: what is behind the replaced bytes moves, strings included,
\* and the new records are written into the gap.
Spliced(offset, old_len, new_len, new) ==
  LET moved == {o \in DOMAIN blob : o >= offset + old_len /\ o < used_blob_end_offset}
      kept == {o \in DOMAIN blob : o < offset}
      delta == new_len - old_len
  IN [o \in kept \cup DOMAIN new \cup {o + delta : o \in moved} |->
        IF o \in kept THEN blob[o] ELSE IF o \in DOMAIN new THEN new[o] ELSE blob[o - delta]]

InBlob(o) == header.off_dt_struct + o

\* The whole of splice_struct_placeholder, with the records that are written.
Splice(offset, old_len, new_len, new) ==
  /\ blob' = Spliced(offset, old_len, new_len, new)
  /\ header' = SplicedHeader(old_len, new_len)
  /\ Respell

-----------------------------------------------------------------------------
(* create_node. *)

\* Mutant: the last component is left to the caller.
components_but_last(path) == SubSeq(path, 2, Len(path) - 1)

components(path) == Tail(path)

create_node ==
  /\ pc = "call" /\ done < Len(request)
  /\ Call.op = "create"
  /\ \/ /\ ~IsAbsolute(Call.path)
        /\ Fail("InvalidPath")
        /\ UNCHANGED <<node, rest>>
     \/ /\ IsAbsolute(Call.path) /\ root_node = NoNode
        /\ Fail("BadStructure")
        /\ UNCHANGED <<node, rest>>
     \/ /\ IsAbsolute(Call.path) /\ root_node # NoNode
        /\ node' = root_node
        /\ rest' = components(Call.path)
        /\ pc' = "component"
        /\ UNCHANGED <<done, result>>
  /\ UNCHANGED <<blobVars, cloneVars, requests, request, nameoff>>

NodeLength(name) == align4(4 + LengthOf[name] + 1) + 4

NewNode(o, name) ==
  [x \in {InBlob(o), InBlob(o) + NodeLength(name) - 4} |->
     IF x = InBlob(o) THEN BeginNode(name) ELSE EndNode]

\* insert_child_node: the child is the last one of its parent.
InsertChild(name) ==
  LET o == node.end
      error == IF 4 + LengthOf[name] + 1 + 3 + 4 > MaxNodeBytes THEN "BufferTooSmall"
               ELSE SpliceError(InBlob(o), 0, NodeLength(name))
  IN \/ /\ error # "none"
        /\ Fail(error)
        /\ UNCHANGED <<blobVars, node, rest>>
     \/ /\ error = "none"
        /\ Splice(InBlob(o), 0, NodeLength(name), NewNode(o, name))
        /\ node' = [begin |-> o, end |-> o + NodeLength(name) - 4]
        /\ rest' = Tail(rest)
        /\ UNCHANGED <<pc, done, result>>

\* One turn of the loop over components.
create_component ==
  /\ pc = "component"
  /\ \/ /\ rest = <<>>
        /\ Ok
        /\ UNCHANGED <<blobVars, node, rest>>
     \/ /\ rest # <<>> /\ rest[1] = ""
        /\ Fail("InvalidPath")
        /\ UNCHANGED <<blobVars, node, rest>>
     \/ /\ rest # <<>> /\ rest[1] # ""
        /\ find_child(node, rest[1]) # NoNode
        /\ node' = find_child(node, rest[1])
        /\ rest' = Tail(rest)
        /\ UNCHANGED <<blobVars, pc, done, result>>
     \/ /\ rest # <<>> /\ rest[1] # ""
        /\ find_child(node, rest[1]) = NoNode
        /\ InsertChild(rest[1])
  /\ UNCHANGED <<cloneVars, requests, request, nameoff>>

-----------------------------------------------------------------------------
(* set_property. *)

\* The search of find_or_add_string: only whole strings are compared.
StringOffset(name) ==
  LET from[o \in Int] ==
        IF o >= header.size_dt_strings THEN None
        ELSE IF string_at(o).kind # "string" THEN Bad
        ELSE IF string_at(o).name = name THEN o
        ELSE from[o + LengthOf[string_at(o).name] + 1]
  IN from[0]

StringFits(name) == used_blob_end_offset + LengthOf[name] + 1 <= size

BadPath(path) ==
  path # RootPath /\ (~IsAbsolute(path) \/ \E k \in 2..Len(path) : path[k] = "")

\* What set_property_string, find_node_location and find_or_add_string refuse.
SetError(c) ==
  IF c.op = "string" /\ c.length > MaxString THEN "BufferTooSmall"
  ELSE IF BadPath(c.path) THEN "InvalidPath"
  ELSE IF c.path = RootPath /\ root_node = NoNode THEN "BadStructure"
  ELSE IF find_node(c.path) = NoNode THEN "NodeNotFound"
  ELSE IF StringOffset(c.name) = Bad THEN "BadStructure"
  ELSE IF StringOffset(c.name) = None /\ ~StringFits(c.name) THEN "BufferTooSmall"
  ELSE "none"

\* set_property_bytes up to the property's name.
find_or_add_string ==
  LET known == StringOffset(Call.name) # None
  IN /\ pc = "call" /\ done < Len(request)
     /\ Call.op \in {"bytes", "string"}
     /\ \/ /\ SetError(Call) # "none"
           /\ Fail(SetError(Call))
           /\ UNCHANGED <<blobVars, node, nameoff>>
        \/ /\ SetError(Call) = "none" /\ known
           /\ node' = find_node(Call.path)
           /\ nameoff' = StringOffset(Call.name)
           /\ pc' = "record"
           /\ UNCHANGED <<blobVars, done, result>>
        \/ /\ SetError(Call) = "none" /\ ~known
           /\ blob' = [o \in DOMAIN blob \cup {used_blob_end_offset} |->
                         IF o = used_blob_end_offset THEN Str(Call.name) ELSE blob[o]]
           /\ header' = [header EXCEPT !.size_dt_strings = @ + LengthOf[Call.name] + 1]
           /\ Respell
           /\ node' = find_node(Call.path)
           /\ nameoff' = header.size_dt_strings
           /\ pc' = "record"
           /\ UNCHANGED <<done, result>>
     /\ UNCHANGED <<cloneVars, requests, request, rest>>

property_record_length(length) == 12 + align4(length)

\* Mutant: the first property is taken for the one with the name.
find_direct_property_first(n, name) ==
  IF TokenAt(after_begin_node(n.begin)).kind = "prop" THEN after_begin_node(n.begin) ELSE None

find_direct_property(n, name) ==
  LET from[o \in Int] ==
        LET t == TokenAt(o)
        IN IF o >= n.end THEN None
           ELSE CASE t.kind = "prop" -> IF string_at(t.nameoff).kind # "string" THEN Bad
                                        ELSE IF IsNamed(t, name) THEN o
                                        ELSE from[o + property_record_length(t.length)]
                  [] t.kind = "nop" -> from[o + 4]
                  [] t.kind \in {"begin", "end_node"} -> None
                  [] OTHER -> Bad
  IN from[after_begin_node(n.begin)]

\* Behind the properties, in front of the first child.
property_insertion_offset(n) ==
  LET from[o \in Int] ==
        LET t == TokenAt(o)
        IN IF o >= n.end THEN n.end
           ELSE CASE t.kind = "prop" -> IF after_property(o) = None THEN Bad
                                        ELSE from[after_property(o)]
                  [] t.kind = "nop" -> from[o + 4]
                  [] t.kind \in {"begin", "end_node"} -> o
                  [] OTHER -> Bad
  IN from[after_begin_node(n.begin)]

\* prepare_property_record, and the writes behind it in set_property_bytes.
set_property_bytes ==
  LET existing == find_direct_property(node, Call.name)
      offset == IF existing = None THEN property_insertion_offset(node) ELSE existing
      old_len == IF existing = None THEN 0 ELSE property_record_length(TokenAt(existing).length)
      new_len == property_record_length(Call.length)
      error == IF offset = Bad THEN "BadStructure"
               ELSE SpliceError(InBlob(offset), old_len, new_len)
  IN /\ pc = "record"
     /\ \/ /\ error # "none"
           /\ Fail(error)
           /\ UNCHANGED blobVars
        \/ /\ error = "none"
           /\ Splice(InBlob(offset), old_len, new_len,
                     [x \in {InBlob(offset)} |-> Prop(Call.length, nameoff, Call.value)])
           /\ Ok
     /\ UNCHANGED <<cloneVars, requests, request, callVars>>

-----------------------------------------------------------------------------
\* No tree, or no more edits.
Over ==
  /\ pc = "refused" \/ (pc = "idle" /\ requests = MaxRequests)
  /\ UNCHANGED vars

Step ==
  \/ end_request
  \/ create_node
  \/ create_component
  \/ find_or_add_string
  \/ set_property_bytes

Next == from_ptr \/ clone \/ begin_request \/ Step \/ Over

Spec == Init /\ [][Next]_vars

-----------------------------------------------------------------------------
(* Soundness of a blob. *)

RecordLength(r) ==
  CASE r.kind = "begin" -> align4(4 + LengthOf[r.name] + 1)
    [] r.kind = "prop" -> property_record_length(r.length)
    [] r.kind = "string" -> LengthOf[r.name] + 1
    [] OTHER -> 4

\* Records from `from` to `to` without gaps or overlaps.
Tiles(offsets, from, to) ==
  /\ from \in offsets \cup {to}
  /\ \A o \in offsets : o + RecordLength(blob[o]) \in offsets \cup {to}
  /\ \A o, q \in offsets : q > o => q >= o + RecordLength(blob[o])

\* The strings that are not the end of another one.
WholeStrings ==
  {o \in InStrings : \A q \in InStrings : q < o => q + RecordLength(blob[q]) <= o}

-----------------------------------------------------------------------------
(* Properties. *)

\* The shape of the state; in particular nothing is written behind the end of
\* the allocation.
TypeOK ==
  /\ pc \in {"passed", "refused", "source", "idle", "call", "component", "record"}
  /\ requests \in 0..MaxRequests
  /\ done \in 0..Len(request)
  /\ size \in Nat /\ extra \in Nat
  /\ DOMAIN blob \subseteq Nat
  /\ pc \in {"idle", "call", "component", "record"} => used_blob_end_offset <= size

\* The header is inside the allocation, the blocks are one behind the other,
\* and records and strings are without gaps.  Strings that are the end of
\* another one end where that one does, or at least in the block.
BlocksAreSound ==
  /\ HeaderError(header) = "none"
  /\ pc \in {"idle", "call", "component", "record"} => header.total_size = size
  /\ StructEnd(header) <= header.off_dt_strings
  /\ InStruct \cup InStrings = DOMAIN blob

RecordsAreTiled ==
  /\ Tiles(InStruct, header.off_dt_struct, StructEnd(header))
  /\ \A o \in InStruct :
       /\ blob[o].kind \in {"begin", "end_node", "prop", "nop", "end"}
       /\ (o - header.off_dt_struct) % 4 = 0
  /\ OfKind("end") = {StructEnd(header) - 4}

StringsAreTiled ==
  /\ Tiles(WholeStrings, header.off_dt_strings, StringsEnd(header))
  /\ \A o \in InStrings : blob[o].kind = "string" /\ o + RecordLength(blob[o]) <= StringsEnd(header)

\* There is one root, and every node in it ends.
NodesAreBalanced ==
  /\ header.off_dt_struct \in OfKind("begin")
  /\ \A o \in InStruct : blob[o].kind # "end" => Level(o) >= 1
  /\ Level(StructEnd(header) - 4) = 0

\* The names of properties are there, and properties are in front of children.
PropertiesComeFirst ==
  \A p \in OfKind("prop") :
    /\ string_at(blob[p].nameoff).kind = "string"
    /\ \A e \in OfKind("end_node") :
         e < p => \E b \in OfKind("begin") : b > e /\ b < p /\ Level(b) = Level(p)

\* A node ends between two nodes on one level that have the same name and are
\* not in it, and between two properties: none has a child or property twice.
NamesAreUnique ==
  /\ \A b, c \in OfKind("begin") :
       b < c /\ Level(b) = Level(c) /\ blob[b].name = blob[c].name =>
         \E e \in OfKind("end_node") : e > b /\ e < c /\ Level(e) < Level(b)
  /\ \A p, q \in OfKind("prop") :
       p < q /\ Level(p) = Level(q) /\ NameOf(p) = NameOf(q) =>
         \E e \in OfKind("end_node") : e > p /\ e < q /\ Level(e) <= Level(p)

\* The blob stays one that every reader takes: header inside the allocation,
\* blocks one behind the other, records and strings without gaps, one root
\* with balanced nodes, no node or property twice in a node, properties in
\* front of children, and names that are there.
BlobIsSound ==
  sound => /\ BlocksAreSound /\ RecordsAreTiled /\ StringsAreTiled
           /\ NodesAreBalanced /\ PropertiesComeFirst /\ NamesAreUnique

Abstract == INSTANCE DeviceTree

\* Whatever is asked, a step adds one empty node, sets one property, or leaves
\* the tree as it is: what a call that fails leaves behind is a tree too.
ImplementsDeviceTree == Abstract!Spec

\* A request that returned Ok has done what it asked for, in so far as later
\* calls of it did not ask for something else.
RequestsTakeEffect ==
  sound /\ pc = "idle" /\ result = "Ok" =>
    \A k \in DOMAIN request :
      LET c == request[k]
          path == IF c.path = RootPath THEN <<>> ELSE Tail(c.path)
      IN /\ path \in DOMAIN tree
         /\ c.op # "create" /\ (\A j \in DOMAIN request : j > k =>
                                  request[j].op = "create" \/ request[j].path # c.path
                                    \/ request[j].name # c.name) =>
              /\ c.name \in DOMAIN tree[path]
              /\ tree[path][c.name] = [length |-> c.length, value |-> c.value]

\* The readers find every node and property the records spell, and no other.
ReadersAgree ==
  sound /\ pc = "idle" =>
    \A path \in DOMAIN tree :
      LET n == find_node(<<"">> \o (IF path = <<>> THEN <<"">> ELSE path))
      IN /\ n # NoNode
         /\ \A name \in DOMAIN LengthOf :
              LET p == get_property(n, name)
              IN IF name \in DOMAIN tree[path]
                 THEN p.kind = "prop" /\ [length |-> p.length, value |-> p.value] = tree[path][name]
                 ELSE p = Junk

\* Bytes by which a call makes the blob larger.
Growth(c) ==
  LET prefix(k) == SubSeq(c.path, 2, k)
      added[k \in 1..Len(c.path)] ==
        IF k = 1 THEN 0
        ELSE added[k - 1] + IF prefix(k) \in DOMAIN tree THEN 0 ELSE NodeLength(c.path[k])
      path == IF c.path = RootPath THEN <<>> ELSE Tail(c.path)
  IN IF c.op = "create" THEN added[Len(c.path)]
     ELSE property_record_length(c.length)
            - (IF c.name \in DOMAIN tree[path]
               THEN property_record_length(tree[path][c.name].length) ELSE 0)
            + (IF \E o \in WholeStrings : blob[o].name = c.name THEN 0 ELSE LengthOf[c.name] + 1)

TooLong(c) ==
  IF c.op = "create" THEN \E k \in DOMAIN c.path : LengthOf[c.path[k]] + 12 > MaxNodeBytes
  ELSE c.op = "string" /\ c.length > MaxString

\* A call fails for want of room only when what it still has to add is more
\* than the room that is left, or its name or string is too long by itself,
\* and a blob that was sound is never called malformed.
FailuresAreJust ==
  sound =>
    /\ result # "BadStructure"
    /\ result = "BufferTooSmall" =>
         TooLong(Call) \/ used_blob_end_offset + Growth(Call) > size

\* The room boot asks for is enough for the edits of /chosen.
HeadroomIsEnough ==
  sound /\ extra = LinuxExtraSize /\ result = "BufferTooSmall" => TooLong(Call)

\* The most bytes by which a call makes a blob larger, for any blob, and what
\* the calls behind the k-th need together.
CallNeeds(c) ==
  IF c.op = "create" THEN Len(c.path) * MaxNodeBytes
  ELSE IF TooLong(c) THEN 0
  ELSE property_record_length(c.length) + LengthOf[c.name] + 1

CallsNeed(q) ==
  LET behind[k \in 0..Len(q)] == IF k = Len(q) THEN 0 ELSE CallNeeds(q[k + 1]) + behind[k + 1]
  IN behind

\* The requests that are made of one clone need no more than the room that boot
\* asks for.
EditsFit == \A q \in Requests : MaxRequests * CallsNeed(q)[0] <= LinuxExtraSize
=============================================================================
