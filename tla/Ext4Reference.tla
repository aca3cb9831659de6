---------------------------- MODULE Ext4Reference ----------------------------
(***************************************************************************)
(* What the ext4 reader should find, stated on the file system itself      *)
(* (volume.files: kinds, sizes, directories, link targets and the blocks   *)
(* of every file by inode number) and not on its encoding on the disk, and *)
(* what it means that a disk holds such a file system.                     *)
(***************************************************************************)
EXTENDS Ext4, FiniteSets

files == volume.files

\* The names between the separators.
Components[p \in Seq(Chars)] ==
  IF \A k \in DOMAIN p : p[k] = "/" THEN <<>>
  ELSE LET first == CHOOSE i \in DOMAIN p : p[i] # "/" /\ \A k \in 1..(i - 1) : p[k] = "/"
           last == CHOOSE j \in first..Len(p) :
                     /\ j = Len(p) \/ p[j + 1] = "/"
                     /\ \A k \in first..j : p[k] # "/"
       IN <<SubSeq(p, first, last)>> \o Components[SubSeq(p, last + 1, Len(p))]

IsAbsolute(p) == p # <<>> /\ p[1] = "/"

Refused(why) == [inode |-> 0, why |-> why]

\* The inode a list of names leads to from a directory, with a budget of links.
Walk[w \in (DOMAIN files) \X Seq(Seq(Chars)) \X (0..MaxSymlinkDepth)] ==
  LET dir == w[1]
      names == w[2]
      budget == w[3]
  IN IF names = <<>> THEN [inode |-> dir, why |-> "none"]
     ELSE IF files[dir].kind # "directory" THEN Refused("NotDirectory")
     ELSE IF names[1] = <<".">> THEN Walk[<<dir, Tail(names), budget>>]
     ELSE IF names[1] = <<".", ".">> THEN Refused("InvalidPath")
     ELSE IF names[1] \notin DOMAIN files[dir].listing THEN Refused("NotFound")
     ELSE LET child == files[dir].listing[names[1]]
              target == files[child].target
          IN IF files[child].kind # "symlink" THEN Walk[<<child, Tail(names), budget>>]
             ELSE IF budget = 0 THEN Refused("SymlinkLoop")
             ELSE IF \E k \in DOMAIN target : target[k] \in Undecodable THEN Refused("InvalidPath")
             ELSE Walk[<<IF IsAbsolute(target) THEN RootInode ELSE dir,
                         Components[target] \o Tail(names), budget - 1>>]

Resolved == Walk[<<RootInode, Components[path], MaxSymlinkDepth>>]

\* No expansion of the path can be longer than this.
LongestText ==
  LET lengths == {Len(files[n].target) : n \in DOMAIN files}
      longest == CHOOSE l \in lengths : \A m \in lengths : m <= l
  IN Len(path) + MaxSymlinkDepth * (longest + 1)

MappingErrors == {"InvalidExtentTree", "UnsupportedMapping"}

\* Sound files that this reader does not read: their blocks are found through
\* block pointers, some were allocated and never written, or they are in more
\* pieces than the extent array has entries.
BeyondReader(f) == f.unsupported \/ f.pieces > MaxExtents

\* Directories and links among them stand in the way of paths.
PathsBeyondReader == \E n \in DOMAIN files : files[n].kind # "file" /\ BeyondReader(files[n])

\* open leads to the inode that the names lead to when links are followed one
\* by one, relative ones from their directory, and fails for the reason the
\* names fail.  Other errors need a failing device, a path that may exceed its
\* buffer, a directory or link that this reader cannot read, or a damaged
\* volume, and even a damaged one yields no other inode.
OpenIsExact ==
  /\ handle # 0 => Resolved = [inode |-> handle, why |-> "none"]
  /\ pc = "done" /\ handle = 0 =>
       \/ result = Resolved.why
       \/ result = "Device"
       \/ result = "NameTooLong" /\ LongestText > PathBytes
       \/ result \in MappingErrors /\ (volume.damaged \/ PathsBeyondReader)
       \/ result = "InvalidDirectoryEntry" /\ volume.damaged

\* The byte of a file: where its block is on the disk, or zero in a hole.
FileByte(n, k) ==
  LET b == k \div geometry.block_size
  IN IF b \in DOMAIN files[n].blocks
     THEN (volume.partition_start_lba * SectorSize) + files[n].blocks[b] * geometry.block_size
            + (k % geometry.block_size)
     ELSE ZeroByte

\* A load that returns Ok delivers every byte of the opened file, zeros for
\* its holes and nothing behind its end, so none of an empty file; it fails only
\* for directories, without memory or device, for files that this reader cannot
\* read, and on damaged volumes.
LoadIsExact ==
  pc = "done" /\ handle # 0 =>
    \/ /\ result = "Ok"
       /\ files[handle].kind = "file"
       /\ buffer = [k \in 1..files[handle].size |-> FileByte(handle, k - 1)]
    \/ result = "IsDirectory" /\ files[handle].kind = "directory"
    \/ result = "Memory" /\ files[handle].kind = "file" /\ "memory" \in MayFail
    \/ result = "Device"
    \/ result \in MappingErrors /\ (volume.damaged \/ BeyondReader(files[handle]))

-----------------------------------------------------------------------------
(* A file system on a disk. *)

PlaceOf(v, b) == v.partition_start_lba * SectorSize + b * BlockSize(v.superblock)

\* Inode n is in a table of its group, and the group's descriptor says where
\* the table begins.
DescriptorOf(v, group) ==
  At(v.descriptors,
     PlaceOf(v, IF BlockSize(v.superblock) = MinBlockSize THEN 2 ELSE 1)
       + group * DescriptorSize(v.superblock),
     [low |-> 0, high |-> 0])

InodeOf(v, n) ==
  LET b == v.superblock
      d == DescriptorOf(v, (n - 1) \div b.inodes_per_group)
      table == Join(IF DescriptorSize(b) = LargeDescriptor THEN d.high ELSE 0, d.low)
  IN At(v.inodes, PlaceOf(v, table) + ((n - 1) % b.inodes_per_group) * b.inode_size, NoInode)

\* A tree is its root and the bytes the root may take.
TreeOf(i) == <<i.tree, InlineBytes>>

Subtree(v, n, k) ==
  <<At(v.nodes, PlaceOf(v, Join(n.entries[k].high, n.entries[k].low)), NoNode),
    BlockSize(v.superblock)>>

BadLeaf(n) == n.depth = 0 /\ \E k \in DOMAIN n.entries : n.entries[k].uninitialized

ExtentLists == Seq([logical_block : Nat, block_count : Nat, physical_block : Nat])

\* The trees that can be read: upto[t][k] are the extents below the first k
\* entries of the root of t.
TreesWritten(v, upto) ==
  \A t \in DOMAIN upto :
    LET n == t[1]
        count == Len(n.entries)
    IN /\ ~Malformed(n, t[2]) /\ ~BadLeaf(n)
       /\ upto[t] \in [0..count -> ExtentLists]
       /\ upto[t][0] = <<>>
       /\ n.depth = 0 => upto[t][count] = LeafExtents(n)
       /\ n.depth > 0 =>
            \A k \in 1..count :
              LET c == Subtree(v, n, k)
              IN c \in DOMAIN upto /\ upto[t][k] = upto[t][k - 1] \o upto[c][Len(c[1].entries)]

\* The trees that cannot: a node on the way is malformed, or the way has no end.
TreesBroken(v, broken) ==
  \A t \in broken :
    \/ Malformed(t[1], t[2]) \/ BadLeaf(t[1])
    \/ t[1].depth > 0 /\ \E k \in 1..Len(t[1].entries) : Subtree(v, t[1], k) \in broken

\* The trees among them that are sound, but hold extents never written.
TreesPreallocated(v, w) ==
  /\ w.preallocated \subseteq w.broken
  /\ \A t \in w.preallocated :
       LET below == {Subtree(v, t[1], k) : k \in DOMAIN t[1].entries}
       IN /\ ~Malformed(t[1], t[2])
          /\ t[1].depth = 0 => BadLeaf(t[1])
          /\ t[1].depth > 0 => /\ below \subseteq DOMAIN w.upto \cup w.preallocated
                               /\ below \cap w.preallocated # {}
                               /\ \A c \in below : c[1].depth < t[1].depth

ExtentsOf(i, upto) == upto[TreeOf(i)][Len(i.tree.entries)]

Covers(x, b) == b >= x.logical_block /\ b < x.logical_block + x.block_count

Ascending(xs) ==
  \A j, k \in DOMAIN xs : j < k => xs[j].logical_block + xs[j].block_count <= xs[k].logical_block

\* The blocks of a file.
BlocksWritten(blocks, xs) ==
  /\ \A e \in DOMAIN xs : \A b \in xs[e].logical_block..(xs[e].logical_block + xs[e].block_count - 1) :
       b \in DOMAIN blocks /\ blocks[b] = xs[e].physical_block + b - xs[e].logical_block
  /\ \A b \in DOMAIN blocks : \E e \in DOMAIN xs : Covers(xs[e], b)

\* Where byte k of what an extent covers is.
PlaceIn(v, x, k) ==
  LET size == BlockSize(v.superblock)
  IN PlaceOf(v, x.physical_block + k \div size - x.logical_block) + (k % size)

\* The text of a link that has blocks: holes are zeros.
TextWritten(v, text, xs) ==
  \A k \in DOMAIN text :
    LET over == {e \in DOMAIN xs : Covers(xs[e], (k - 1) \div BlockSize(v.superblock))}
    IN IF over = {} THEN text[k] = NUL
       ELSE \A e \in over : text[k] = At(v.text, PlaceIn(v, xs[e], k - 1), NUL)

\* The records of a directory's blocks, by the places where they begin.
EntryIn(v, b, at) == At(v.entries, PlaceOf(v, b) + at, NoDirEntry)

BadRecord(v, e, at) ==
  \/ e.record_length < EntryHeader \/ e.record_length % EntryAlign # 0
  \/ at + e.record_length > BlockSize(v.superblock)
  \/ Len(e.name) > e.record_length - EntryHeader

RecordsWritten(v, places) ==
  \A b \in DOMAIN places :
    LET at == places[b]
        end(k) == IF k = 0 THEN 0 ELSE at[k] + EntryIn(v, b, at[k]).record_length
        bad(k) == k \in DOMAIN at /\ BadRecord(v, EntryIn(v, b, at[k]), at[k])
    IN /\ at \in Seq(Nat)
       /\ \A k \in DOMAIN at :
            /\ at[k] = end(k - 1) /\ ~bad(k - 1)
            /\ at[k] + EntryHeader <= BlockSize(v.superblock)
       /\ bad(Len(at)) \/ end(Len(at)) + EntryHeader > BlockSize(v.superblock)

\* Records of a directory: number of the extent, block in it, record in that.
Positions(xs, places) ==
  UNION {UNION {{e} \X {b} \X DOMAIN places[xs[e].physical_block + b] :
                  b \in 0..(xs[e].block_count - 1)} : e \in DOMAIN xs}

Before(p, q) ==
  p[1] < q[1] \/ (p[1] = q[1] /\ (p[2] < q[2] \/ (p[2] = q[2] /\ p[3] < q[3])))

BlockNumber(xs, p) == xs[p[1]].physical_block + p[2]
RecordPlace(xs, places, p) == places[BlockNumber(xs, p)][p[3]]
RecordAt(v, xs, places, p) == EntryIn(v, BlockNumber(xs, p), RecordPlace(xs, places, p))

IsNamed(v, xs, places, p, name) ==
  RecordAt(v, xs, places, p).inode # 0 /\ RecordAt(v, xs, places, p).name = name
IsBad(v, xs, places, p) ==
  BadRecord(v, RecordAt(v, xs, places, p), RecordPlace(xs, places, p))

\* A name is that of the first record that has it.  What comes behind a bad
\* record may be missing.
ListingWritten(v, listing, xs, places) ==
  LET positions == Positions(xs, places)
      named(p, name) == IsNamed(v, xs, places, p, name)
      bad(p) == IsBad(v, xs, places, p)
  IN /\ \A e \in DOMAIN xs : \A b \in 0..(xs[e].block_count - 1) :
          xs[e].physical_block + b \in DOMAIN places
     /\ v.damaged \/ \A p \in positions : ~bad(p)
     /\ \A p \in positions :
          LET r == RecordAt(v, xs, places, p)
          IN /\ named(p, r.name) /\ ~bad(p)
             /\ \A q \in positions : Before(q, p) => ~named(q, r.name) /\ ~bad(q)
             => r.name \in DOMAIN listing /\ listing[r.name] = r.inode
     /\ \A name \in DOMAIN listing : \E p \in positions : named(p, name) \/ bad(p)

\* The inode of file n, and what it leads to.
FileWritten(v, w, n) ==
  LET f == v.files[n]
      i == InodeOf(v, n)
      xs == ExtentsOf(i, w.upto)
      readable == i.extents /\ TreeOf(i) \in DOMAIN w.upto
  IN /\ f.kind \in {"directory", "file", "symlink"} /\ f.target \in Seq(Chars)
     /\ i.kind = f.kind /\ i.size = f.size
     /\ i.extents => \/ readable
                     \/ v.damaged /\ TreeOf(i) \in w.broken
                     \/ f.unsupported /\ TreeOf(i) \in w.preallocated
     /\ i.extents \/ v.damaged \/ f.unsupported \/ (f.kind = "symlink" /\ i.size <= InlineBytes)
     /\ readable => /\ Ascending(xs)
                    /\ v.damaged \/ Len(xs) <= MaxExtents \/ Len(xs) = f.pieces
     /\ readable /\ f.kind = "file" => BlocksWritten(f.blocks, xs)
     /\ readable /\ f.kind = "directory" => ListingWritten(v, f.listing, xs, w.places)
     /\ f.kind = "directory" => \A name \in DOMAIN f.listing : f.listing[name] \in DOMAIN v.files
     /\ f.kind = "symlink" =>
          /\ Len(f.target) = f.size
          /\ IF IsInline(i) THEN f.target = InlineText(i)
             ELSE readable => TextWritten(v, f.target, xs)

\* Volume v holds the file system v.files, where w says what the trees and
\* directory blocks of v spell.
Written(v, w) ==
  /\ TreesWritten(v, w.upto) /\ TreesBroken(v, w.broken) /\ TreesPreallocated(v, w)
  /\ RecordsWritten(v, w.places)
  /\ DOMAIN v.files \subseteq Nat \ {0} /\ IsFiniteSet(DOMAIN v.files)
  /\ RootInode \in DOMAIN v.files /\ v.files[RootInode].kind = "directory"
  /\ \A a \in DOMAIN v.entries : v.entries[a].inode \in DOMAIN v.files \cup {0}
  /\ \A n \in DOMAIN v.files : FileWritten(v, w, n)
=============================================================================
