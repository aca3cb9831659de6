-------------------------------- MODULE Ext4 --------------------------------
(***************************************************************************)
(* The ext4 reader (ext4.rs): mounting a volume, resolving a path through  *)
(* directories and symbolic links, walking extent trees, and loading a     *)
(* file.                                                                   *)
(*                                                                         *)
(* The disk is one volume that nobody writes to.  What it holds is keyed   *)
(* by the byte address it is read from: group descriptors, inodes, extent  *)
(* nodes, directory entries and the characters of link targets.  A byte of *)
(* a file is its address, or ZeroByte.  A path is a sequence of characters *)
(* out of a small alphabet, and a name has no "/" in it.  Sums of on-disk  *)
(* fields are small enough for their width, block sizes excepted.          *)
(***************************************************************************)
EXTENDS Integers, Sequences

CONSTANTS
  SectorSize,       \* VIRTIO_SECTOR_SIZE in bytes
  MinBlockSize,     \* 1024
  MaxBlockSize,     \* EXT4_MAX_BLOCK_SIZE
  MaxInodeSize,     \* EXT4_MAX_INODE_SIZE
  ShiftWidth,       \* bits of the u32 that holds a block size
  SmallDescriptor,  \* 32: group descriptors without upper halves
  LargeDescriptor,  \* 64
  LowModulus,       \* 2^32: weight of the upper half of a block number
  EntryHeader,      \* bytes of a directory entry in front of its name (8)
  EntryAlign,       \* 4
  NodeUnit,         \* bytes of an extent header and of an extent (12)
  InlineBytes,      \* bytes of i_block (60)
  PathBytes,        \* EXT4_PATH_BYTES
  MaxSymlinkDepth,  \* EXT4_MAX_SYMLINK_DEPTH
  MaxExtents,       \* EXT4_MAX_EXTENTS
  MaxExtentDepth,   \* EXT4_MAX_EXTENT_DEPTH
  Chars,            \* characters of paths and link targets
  Undecodable,      \* characters that are not UTF-8
  Volumes,          \* disks
  Paths,            \* sequences of characters
  MayFail           \* of {"read", "memory"}

ASSUME SizeAssumption ==
  /\ {SectorSize, MinBlockSize, MaxBlockSize, ShiftWidth, SmallDescriptor, LargeDescriptor,
      EntryHeader, EntryAlign, NodeUnit, PathBytes, LowModulus} \subseteq Nat \ {0}
  /\ {MaxInodeSize, InlineBytes, MaxSymlinkDepth, MaxExtents, MaxExtentDepth} \subseteq Nat
  /\ MinBlockSize % SectorSize = 0
  /\ MayFail \subseteq {"read", "memory"}

VARIABLES
  volume,     \* the disk
  pc,         \* where the reader is
  geometry,   \* the Ext4Volume that new returned
  path,       \* path being opened
  current,    \* current_inode_number
  remaining,  \* text still to resolve
  links,      \* symlink_depth
  inode,      \* Ext4Inode being read: a directory, a link or the opened file
  purpose,    \* what its extents are collected for
  stack,      \* activations of collect_extent_node, the innermost first
  extents,    \* extents collected
  extent,     \* extent_index
  block,      \* offset_in_extent
  offset,     \* entry_offset
  entry,      \* inode number of the entry that was found
  buffer,     \* bytes delivered
  handle,     \* inode number of the Ext4File, 0 without one
  result      \* result of the call that ended last

diskVars == <<volume, geometry>>
pathVars == <<path, current, remaining, links>>
treeVars == <<inode, purpose, stack, extents>>
scanVars == <<extent, block, offset, entry>>
vars == <<diskVars, pc, pathVars, treeVars, scanVars, buffer, handle, result>>

RootInode == 2

-----------------------------------------------------------------------------
Min(a, b) == IF a < b THEN a ELSE b

\* Disk contents f at address a, where the rest of the disk is zeros.
At(f, a, zero) == IF a \in DOMAIN f THEN f[a] ELSE zero

Join(high, low) == high * LowModulus + low

ZeroByte == -1
NUL == "NUL"

\* A node of an extent tree: leaves hold extents, the others block numbers.
NoNode == [magic |-> FALSE, depth |-> 0, entries |-> <<>>]

NoInode == [kind |-> "none", size |-> 0, extents |-> FALSE, tree |-> NoNode, text |-> <<>>]

NoDirEntry == [inode |-> 0, record_length |-> 0, name |-> <<>>]

\* Nothing is assumed of a disk but that its fields are numbers and its texts
\* are texts.
IsNode(n) ==
  /\ n.depth \in Nat /\ Len(n.entries) \in Nat /\ DOMAIN n.entries = 1..Len(n.entries)
  /\ \A k \in DOMAIN n.entries :
       /\ {n.entries[k].high, n.entries[k].low} \subseteq Nat
       /\ n.depth = 0 => {n.entries[k].logical_block, n.entries[k].length} \subseteq Nat

ASSUME VolumeAssumption ==
  \A v \in Volumes :
    /\ {v.superblock.log_block_size, v.superblock.inode_size, v.superblock.inodes_per_group,
        v.partition_start_lba} \subseteq Nat
    /\ \A a \in DOMAIN v.descriptors : {v.descriptors[a].low, v.descriptors[a].high} \subseteq Nat
    /\ \A a \in DOMAIN v.inodes :
         /\ v.inodes[a].size \in Nat /\ v.inodes[a].text \in Seq(Chars)
         /\ IsNode(v.inodes[a].tree)
    /\ \A a \in DOMAIN v.nodes : IsNode(v.nodes[a])
    /\ \A a \in DOMAIN v.entries :
         {v.entries[a].inode, v.entries[a].record_length} \subseteq Nat
    /\ \A a \in DOMAIN v.text : v.text[a] \in Chars

\* open takes a &str: every path is UTF-8.
ASSUME TextAssumption ==
  /\ {"/", NUL} \subseteq Chars /\ "/" \notin Undecodable
  /\ Paths \subseteq Seq(Chars)
  /\ \A p \in Paths : \A k \in DOMAIN p : p[k] \notin Undecodable

-----------------------------------------------------------------------------
(* Ext4Volume::new. *)

BlockSize(b) == (MinBlockSize * 2 ^ b.log_block_size) % 2 ^ ShiftWidth

DescriptorSize(b) ==
  IF b.group_descriptor_size = 0 THEN SmallDescriptor ELSE b.group_descriptor_size

MountError(b) ==
  IF ~b.magic \/ b.log_block_size >= ShiftWidth THEN "InvalidSuperblock"
  ELSE IF \/ BlockSize(b) > MaxBlockSize \/ BlockSize(b) < SectorSize
          \/ BlockSize(b) % SectorSize # 0 THEN "UnsupportedBlockSize"
  ELSE IF b.inode_size = 0 \/ b.inode_size > MaxInodeSize THEN "UnsupportedInodeSize"
  ELSE IF b.unsupported THEN "UnsupportedIncompatibleFeatures"
  ELSE IF b.blocks_per_group = 0 \/ b.inodes_per_group = 0 THEN "InvalidSuperblock"
  ELSE IF DescriptorSize(b) \notin {SmallDescriptor, LargeDescriptor} THEN "InvalidSuperblock"
  ELSE "none"

Geometry(b) ==
  [block_size |-> BlockSize(b),
   sectors_per_block |-> BlockSize(b) \div SectorSize,
   inodes_per_group |-> b.inodes_per_group,
   inode_size |-> b.inode_size,
   group_descriptor_size |-> DescriptorSize(b),
   group_descriptor_table_block |-> IF BlockSize(b) = MinBlockSize THEN 2 ELSE 1]

NoGeometry ==
  [block_size |-> 0, sectors_per_block |-> 0, inodes_per_group |-> 1, inode_size |-> 0,
   group_descriptor_size |-> 0, group_descriptor_table_block |-> 0]

-----------------------------------------------------------------------------
(* Reading. *)

block_to_lba(b) == volume.partition_start_lba + b * geometry.sectors_per_block

\* Address of the first byte of a block that read_block reads.
BlockAddress(b) == block_to_lba(b) * SectorSize

\* The addresses behind the bytes that are delivered.  The direct read of
\* whole sectors is the case of a loop that never takes part of one.
read_device_bytes(byte_offset, len) ==
  LET start == volume.partition_start_lba
      from[copied \in 0..len] ==
        IF copied = len THEN <<>>
        ELSE LET at == byte_offset + copied
                 in == at % SectorSize
                 take == Min(len - copied, SectorSize - in)
             IN [k \in 1..take |-> (start + at \div SectorSize) * SectorSize + in + k - 1]
                  \o from[copied + take]
  IN from[0]

\* A record is what its bytes are when they come from one place.
Record(f, byte_offset, len, zero) ==
  LET bytes == read_device_bytes(byte_offset, len)
  IN IF \A k \in DOMAIN bytes : bytes[k] = bytes[1] + k - 1 THEN At(f, bytes[1], zero) ELSE zero

inode_table_block(group) ==
  LET size == geometry.group_descriptor_size
      d == Record(volume.descriptors,
                  geometry.group_descriptor_table_block * geometry.block_size + group * size,
                  size, [low |-> 0, high |-> 0])
  IN Join(IF size = LargeDescriptor THEN d.high ELSE 0, d.low)

read_inode(n) ==
  Record(volume.inodes,
         inode_table_block((n - 1) \div geometry.inodes_per_group) * geometry.block_size
           + ((n - 1) % geometry.inodes_per_group) * geometry.inode_size,
         geometry.inode_size, NoInode)

-----------------------------------------------------------------------------
(* Paths. *)

IsSeparator(p, k) == k \in DOMAIN p /\ p[k] = "/"

trim_leading_separators(p) ==
  LET first == CHOOSE k \in 1..(Len(p) + 1) :
                 /\ ~IsSeparator(p, k)
                 /\ \A j \in 1..(k - 1) : IsSeparator(p, j)
  IN SubSeq(p, first, Len(p))

\* Length of the first component of a trimmed path.
ComponentLength(p) ==
  CHOOSE n \in 0..Len(p) : /\ n = Len(p) \/ IsSeparator(p, n + 1)
                           /\ \A k \in 1..n : ~IsSeparator(p, k)

Component == SubSeq(remaining, 1, ComponentLength(remaining))
Rest == trim_leading_separators(SubSeq(remaining, ComponentLength(remaining) + 1, Len(remaining)))

\* read_symlink_path: the target, and what comes behind the link.
ExpandedPath(target, tail) ==
  IF tail = <<>> THEN target
  ELSE IF target # <<>> /\ target[Len(target)] # "/" THEN target \o <<"/">> \o tail
  ELSE target \o tail

-----------------------------------------------------------------------------
Init ==
  /\ volume \in Volumes
  /\ pc = "mount"
  /\ geometry = NoGeometry
  /\ path = <<>>
  /\ current = RootInode
  /\ remaining = <<>>
  /\ links = 0
  /\ inode = NoInode
  /\ purpose = "none"
  /\ stack = <<>>
  /\ extents = <<>>
  /\ extent = 1
  /\ block = 0
  /\ offset = 0
  /\ entry = 0
  /\ buffer = <<>>
  /\ handle = 0
  /\ result = "none"

\* The call returns.
Return(r) == pc' = "done" /\ result' = r

ReadFails == "read" \in MayFail /\ Return("Device")

new ==
  /\ pc = "mount"
  /\ \/ /\ "read" \in MayFail
        /\ result' = "Device"
        /\ pc' = "unmounted"
        /\ UNCHANGED geometry
     \/ /\ MountError(volume.superblock) # "none"
        /\ result' = MountError(volume.superblock)
        /\ pc' = "unmounted"
        /\ UNCHANGED geometry
     \/ /\ MountError(volume.superblock) = "none"
        /\ geometry' = Geometry(volume.superblock)
        /\ pc' = "idle"
        /\ UNCHANGED result
  /\ UNCHANGED <<volume, pathVars, treeVars, scanVars, buffer, handle>>

\* Mutant: a relative target is resolved from the root.
Begin_at_root(start, text) ==
  /\ current' = RootInode
  /\ remaining' = trim_leading_separators(text)
  /\ pc' = "component"

\* The beginning of resolve_path_from.
Begin(start, text) ==
  /\ current' = IF IsSeparator(text, 1) THEN RootInode ELSE start
  /\ remaining' = trim_leading_separators(text)
  /\ pc' = "component"

\* Ext4Volume::open, and the end of the calls before it.
open ==
  /\ pc \in {"idle", "done"}
  /\ path' \in Paths
  /\ Begin(RootInode, path')
  /\ links' = 0
  /\ inode' = NoInode
  /\ purpose' = "none"
  /\ stack' = <<>>
  /\ extents' = <<>>
  /\ extent' = 1
  /\ block' = 0
  /\ offset' = 0
  /\ entry' = 0
  /\ buffer' = <<>>
  /\ handle' = 0
  /\ result' = "none"
  /\ UNCHANGED diskVars

\* collect_inode_extents, for a directory, a link or a file.
Collect(node, why) ==
  \/ /\ ~node.extents
     /\ Return("UnsupportedMapping")
     /\ UNCHANGED <<inode, purpose, stack, extents>>
  \/ /\ node.extents
     /\ inode' = node
     /\ purpose' = why
     /\ stack' = <<[node |-> node.tree, length |-> InlineBytes, index |-> 1]>>
     /\ extents' = <<>>
     /\ pc' = "collect"
     /\ UNCHANGED result

\* One turn of the loop of resolve_path_from, up to the directory's extents.
\* Nothing is left of the path: the inode is read once more and returned.
resolve_path_from ==
  LET c == read_inode(current)
  IN /\ pc = "component"
     /\ \/ /\ ReadFails
           /\ UNCHANGED <<remaining, treeVars, handle>>
        \/ /\ remaining = <<>>
           /\ inode' = c
           /\ handle' = current
           /\ pc' = "opened"
           /\ UNCHANGED <<remaining, purpose, stack, extents, result>>
        \/ /\ remaining # <<>> /\ c.kind # "directory"
           /\ Return("NotDirectory")
           /\ UNCHANGED <<remaining, treeVars, handle>>
        \/ /\ remaining # <<>> /\ c.kind = "directory" /\ Component = <<".">>
           /\ remaining' = Rest
           /\ UNCHANGED <<pc, result, treeVars, handle>>
        \/ /\ remaining # <<>> /\ c.kind = "directory" /\ Component = <<".", ".">>
           /\ Return("InvalidPath")
           /\ UNCHANGED <<remaining, treeVars, handle>>
        \/ /\ remaining # <<>> /\ c.kind = "directory"
           /\ Component \notin {<<".">>, <<".", ".">>}
           /\ Collect(c, "directory")
           /\ UNCHANGED <<remaining, handle>>
     /\ UNCHANGED <<diskVars, path, current, links, scanVars, buffer>>

-----------------------------------------------------------------------------
(* collect_extent_node. *)

Malformed(n, length) ==
  \/ ~n.magic
  \/ n.depth > MaxExtentDepth
  \/ NodeUnit + Len(n.entries) * NodeUnit > length

\* The upper bit of an extent's length marks blocks that were never written.
Uncollectable(n) ==
  \/ \E k \in DOMAIN n.entries : n.entries[k].uninitialized
  \/ Len(extents) + Len(n.entries) > MaxExtents

LeafExtents(n) ==
  [k \in DOMAIN n.entries |->
     [logical_block |-> n.entries[k].logical_block,
      block_count |-> n.entries[k].length,
      physical_block |-> Join(n.entries[k].high, n.entries[k].low)]]

Child(n, k) == BlockAddress(Join(n.entries[k].high, n.entries[k].low))

\* The child is read and entered; its parent goes on behind it later.
Descend(frame) ==
  <<[node |-> At(volume.nodes, Child(frame.node, frame.index), NoNode),
     length |-> geometry.block_size, index |-> 1],
    [frame EXCEPT !.index = @ + 1]>> \o Tail(stack)

collect_extent_node ==
  LET frame == stack[1]
      n == frame.node
      left == Len(n.entries) - frame.index + 1
      sound == ~Malformed(n, frame.length)
  IN /\ pc = "collect"
     /\ stack # <<>>
     /\ \/ /\ ~sound
           /\ Return("InvalidExtentTree")
           /\ UNCHANGED <<stack, extents>>
        \/ /\ sound /\ n.depth = 0 /\ Uncollectable(n)
           /\ Return("InvalidExtentTree")
           /\ UNCHANGED <<stack, extents>>
        \/ /\ sound /\ n.depth = 0 /\ ~Uncollectable(n)
           /\ extents' = extents \o LeafExtents(n)
           /\ stack' = Tail(stack)
           /\ UNCHANGED <<pc, result>>
        \/ /\ sound /\ n.depth > 0 /\ left = 0
           /\ stack' = Tail(stack)
           /\ UNCHANGED <<pc, result, extents>>
        \/ /\ sound /\ n.depth > 0 /\ left > 0
           /\ ReadFails
           /\ UNCHANGED <<stack, extents>>
        \/ /\ sound /\ n.depth > 0 /\ left > 0
           /\ stack' = Descend(frame)
           /\ UNCHANGED <<pc, result, extents>>
     /\ UNCHANGED <<diskVars, pathVars, inode, purpose, scanVars, buffer, handle>>

\* The outermost call returns: on to the blocks of the directory or the file.
extents_collected ==
  /\ pc = "collect"
  /\ stack = <<>>
  /\ pc' = IF purpose = "directory" THEN "block" ELSE "copy"
  /\ extent' = 1
  /\ block' = 0
  /\ UNCHANGED <<diskVars, pathVars, treeVars, offset, entry, buffer, handle, result>>

-----------------------------------------------------------------------------
(* find_directory_entry. *)

\* The loops over extents and their blocks.
read_directory_block ==
  /\ pc = "block"
  /\ \/ /\ extent > Len(extents)
        /\ Return("NotFound")
        /\ UNCHANGED <<extent, block, offset>>
     \/ /\ extent <= Len(extents) /\ block >= extents[extent].block_count
        /\ extent' = extent + 1
        /\ block' = 0
        /\ UNCHANGED <<offset, pc, result>>
     \/ /\ extent <= Len(extents) /\ block < extents[extent].block_count
        /\ ReadFails
        /\ UNCHANGED <<extent, block, offset>>
     \/ /\ extent <= Len(extents) /\ block < extents[extent].block_count
        /\ offset' = 0
        /\ pc' = "scan"
        /\ UNCHANGED <<extent, block, result>>
  /\ UNCHANGED <<diskVars, pathVars, treeVars, entry, buffer, handle>>

DirEntryAt(at) ==
  At(volume.entries, BlockAddress(extents[extent].physical_block + block) + at, NoDirEntry)

\* Mutant: records are only checked against the end of the block.
InvalidDirectoryEntry_at_end(e, at) ==
  \/ e.record_length % EntryAlign # 0
  \/ at + e.record_length > geometry.block_size

InvalidDirectoryEntry(e, at) ==
  \/ e.record_length < EntryHeader
  \/ e.record_length % EntryAlign # 0
  \/ at + e.record_length > geometry.block_size
  \/ Len(e.name) > e.record_length - EntryHeader

IsWanted(e) == e.inode # 0 /\ e.name = Component

\* One turn of the loop over the entries of a block.
find_directory_entry ==
  LET e == DirEntryAt(offset)
      through == offset + EntryHeader > geometry.block_size
  IN /\ pc = "scan"
     /\ \/ /\ through
           /\ block' = block + 1
           /\ pc' = "block"
           /\ UNCHANGED <<offset, entry, result>>
        \/ /\ ~through /\ InvalidDirectoryEntry(e, offset)
           /\ Return("InvalidDirectoryEntry")
           /\ UNCHANGED <<block, offset, entry>>
        \/ /\ ~through /\ ~InvalidDirectoryEntry(e, offset) /\ IsWanted(e)
           /\ entry' = e.inode
           /\ pc' = "child"
           /\ UNCHANGED <<block, offset, result>>
        \/ /\ ~through /\ ~InvalidDirectoryEntry(e, offset) /\ ~IsWanted(e)
           /\ offset' = offset + e.record_length
           /\ UNCHANGED <<block, entry, pc, result>>
     /\ UNCHANGED <<diskVars, pathVars, treeVars, extent, buffer, handle>>

-----------------------------------------------------------------------------
(* Links. *)

\* The call of resolve_path_from for the target and the rest of the path, from
\* the directory that holds the link.
Expand(target) ==
  LET expanded == ExpandedPath(target, Rest)
      decodable == \A k \in DOMAIN expanded : expanded[k] \notin Undecodable
  IN \/ /\ Len(expanded) > PathBytes
        /\ Return("NameTooLong")
        /\ UNCHANGED <<current, remaining, links>>
     \/ /\ Len(expanded) <= PathBytes /\ ~decodable
        /\ Return("InvalidPath")
        /\ UNCHANGED <<current, remaining, links>>
     \/ /\ Len(expanded) <= PathBytes /\ decodable
        /\ Begin(current, expanded)
        /\ links' = links + 1
        /\ UNCHANGED result

TooManyLinks == links >= MaxSymlinkDepth

\* i_block of a fast link, which ends in zeros.
InlineText(node) ==
  [k \in 1..node.size |-> IF k <= Len(node.text) THEN node.text[k] ELSE NUL]

IsInline(node) == ~node.extents /\ node.size <= InlineBytes

\* The inode of the entry: resolve_path_from goes on with it, or reads the
\* target of the link (read_symlink_target).
read_child ==
  LET c == read_inode(entry)
      link == c.kind = "symlink"
  IN /\ pc = "child"
     /\ \/ /\ ReadFails
           /\ UNCHANGED <<current, remaining, links, treeVars, buffer>>
        \/ /\ ~link
           /\ current' = entry
           /\ remaining' = Rest
           /\ pc' = "component"
           /\ UNCHANGED <<links, treeVars, buffer, result>>
        \/ /\ link /\ TooManyLinks
           /\ Return("SymlinkLoop")
           /\ UNCHANGED <<current, remaining, links, treeVars, buffer>>
        \/ /\ link /\ ~TooManyLinks /\ c.size > PathBytes
           /\ Return("NameTooLong")
           /\ UNCHANGED <<current, remaining, links, treeVars, buffer>>
        \/ /\ link /\ ~TooManyLinks /\ c.size <= PathBytes
           /\ IsInline(c) \/ c.size = 0
           /\ Expand(InlineText(c))
           /\ UNCHANGED <<treeVars, buffer>>
        \/ /\ link /\ ~TooManyLinks /\ c.size <= PathBytes
           /\ ~IsInline(c) /\ c.size > 0
           /\ buffer' = [k \in 1..c.size |-> ZeroByte]
           /\ Collect(c, "link")
           /\ UNCHANGED <<current, remaining, links>>
     /\ UNCHANGED <<diskVars, path, scanVars, handle>>

-----------------------------------------------------------------------------
(* Contents. *)

\* Ext4File::load, up to the extents of the file.  An empty file gets a page too
\* (pages_for_size), and its extents are not looked at.
load_into_allocated_pages ==
  /\ pc = "opened"
  /\ \/ /\ inode.kind = "directory"
        /\ Return("IsDirectory")
        /\ UNCHANGED <<treeVars, buffer>>
     \/ /\ inode.kind # "directory"
        /\ "memory" \in MayFail
        /\ Return("Memory")
        /\ UNCHANGED <<treeVars, buffer>>
     \/ /\ inode.kind # "directory"
        /\ buffer' = [k \in 1..inode.size |-> ZeroByte]
        /\ \/ inode.size = 0 /\ Return("Ok") /\ UNCHANGED treeVars
           \/ inode.size > 0 /\ Collect(inode, "file")
  /\ UNCHANGED <<diskVars, pathVars, scanVars, handle>>

file_offset == extents[extent].logical_block * geometry.block_size

\* Mutant: the extent is not cut off at the end of the file.
extent_bytes_whole == extents[extent].block_count * geometry.block_size

extent_bytes ==
  Min(inode.size - file_offset, extents[extent].block_count * geometry.block_size)

full_bytes == (extent_bytes \div geometry.block_size) * geometry.block_size

\* Mutant: the tail is read from the first block of the extent.
tail_block_first == extents[extent].physical_block

tail_block == extents[extent].physical_block + extent_bytes \div geometry.block_size

\* Address of byte k of what the extent delivers: whole blocks in one read,
\* and the beginning of the block behind them.
ExtentByte(k) ==
  IF k < full_bytes THEN BlockAddress(extents[extent].physical_block) + k
  ELSE BlockAddress(tail_block) + k - full_bytes

\* Bytes no extent covers stay zero.
Filled ==
  [k \in 1..(IF file_offset + extent_bytes > Len(buffer) THEN file_offset + extent_bytes
             ELSE Len(buffer)) |->
     IF k - 1 \in file_offset..(file_offset + extent_bytes - 1)
     THEN ExtentByte(k - 1 - file_offset)
     ELSE buffer[k]]

\* No extent is left, or one that begins behind the end of the file is met.
CopyDone == extent <= Len(extents) => file_offset >= inode.size

TextOf(bytes) ==
  [k \in DOMAIN bytes |-> IF bytes[k] = ZeroByte THEN NUL ELSE At(volume.text, bytes[k], NUL)]

\* One turn of the loop of read_inode_contents.
read_inode_contents ==
  /\ pc = "copy"
  /\ \/ /\ CopyDone /\ purpose = "file"
        /\ Return("Ok")
        /\ UNCHANGED <<current, remaining, links, extent, buffer>>
     \/ /\ CopyDone /\ purpose = "link"
        /\ Expand(TextOf(buffer))
        /\ buffer' = <<>>
        /\ UNCHANGED extent
     \/ /\ ~CopyDone /\ extent_bytes > 0
        /\ ReadFails
        /\ UNCHANGED <<current, remaining, links, extent, buffer>>
     \/ /\ ~CopyDone
        /\ buffer' = Filled
        /\ extent' = extent + 1
        /\ UNCHANGED <<pc, current, remaining, links, result>>
  /\ UNCHANGED <<diskVars, path, treeVars, block, offset, entry, handle>>

-----------------------------------------------------------------------------
Step ==
  \/ resolve_path_from
  \/ collect_extent_node
  \/ extents_collected
  \/ read_directory_block
  \/ find_directory_entry
  \/ read_child
  \/ load_into_allocated_pages
  \/ read_inode_contents

\* No volume, no calls.
Unmounted == pc = "unmounted" /\ UNCHANGED vars

Next == new \/ open \/ Step \/ Unmounted

Spec == Init /\ [][Next]_vars

\* A call that has begun goes on; nobody has to make one.
FairSpec == Spec /\ WF_vars(Step)

-----------------------------------------------------------------------------
(* Properties. *)

\* The shape of the state; in particular the extent array, the path buffer and
\* the file's buffer are never filled beyond their size.
TypeOK ==
  /\ pc \in {"mount", "unmounted", "idle", "component", "collect", "block", "scan", "child",
             "opened", "copy", "done"}
  /\ current \in Nat \ {0}
  /\ links > 0 => Len(remaining) <= PathBytes
  /\ links \in 0..MaxSymlinkDepth
  /\ Len(extents) <= MaxExtents
  /\ pc \in {"block", "scan", "copy"} => extent \in 1..(Len(extents) + 1)
  /\ offset \in 0..geometry.block_size
  /\ pc = "copy" => Len(buffer) = inode.size

\* The walk of an extent tree is never deeper than the depth its header may
\* claim: collect_extent_node calls itself with a block buffer on each level.
ExtentDepthBounded == Len(stack) <= MaxExtentDepth + 1

\* A call returns: links, directory records and extents are all counted.
CallsEnd ==
  (pc \in {"component", "collect", "block", "scan", "child", "opened", "copy"}) ~> (pc = "done")
=============================================================================
