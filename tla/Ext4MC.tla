------------------------------- MODULE Ext4MC -------------------------------
(***************************************************************************)
(* Small ext4 volumes, written from a file system with the directories /   *)
(* and /d, the files /f and /d/f, and the links /l and /d/l.  A block has  *)
(* 8 bytes and room for two directory entries, or twice as much.           *)
(***************************************************************************)
EXTENDS Ext4Reference, TLC

Superblock(log, inodeSize, perGroup, descriptor) ==
  [magic |-> TRUE, log_block_size |-> log, inode_size |-> inodeSize, unsupported |-> FALSE,
   blocks_per_group |-> 1, inodes_per_group |-> perGroup, group_descriptor_size |-> descriptor]

Entry(n, length, name) == [inode |-> n, record_length |-> length, name |-> name]

Node(depth, entries) == [magic |-> TRUE, depth |-> depth, entries |-> entries]
Leaf(logical, length, physical) ==
  [logical_block |-> logical, length |-> length, uninitialized |-> FALSE,
   high |-> physical \div LowModulus, low |-> physical % LowModulus]
Index(b) == [high |-> 0, low |-> b]

\* A file system, with the disk's layout where it varies, and the superblock if
\* it is not the one that the layout follows.
Base ==
  [superblock |-> Superblock(0, 6, 4, 0), spoilt |-> <<>>, start |-> 3,
   root |-> <<<<Entry(3, 4, <<"d">>), Entry(4, 4, <<"f">>)>>, <<Entry(5, 8, <<"l">>)>>>>,
   listing |-> <<"d">> :> 3 @@ <<"f">> :> 4 @@ <<"l">> :> 5,
   leaves |-> <<Leaf(0, 1, 30)>>, tree |-> Node(0, <<Leaf(0, 1, 30)>>), nodes |-> <<>>,
   size |-> 5, link |-> <<"f">>, inline |-> TRUE, dlink |-> <<"f">>, damaged |-> FALSE,
   dtree |-> Node(0, <<Leaf(0, 1, 12)>>), dpieces |-> 1,
   pointers |-> {}, unsupported |-> {}]

-----------------------------------------------------------------------------
(* From the file system to the disk. *)

BlockBytes(x) == MinBlockSize * 2 ^ x.superblock.log_block_size
Address(x, b) == x.start * SectorSize + b * BlockBytes(x)

Groups == 0..3
IsLarge(x) == x.superblock.group_descriptor_size = LargeDescriptor

InodeAddress(x, n) ==
  LET group == (n - 1) \div x.superblock.inodes_per_group
      index == (n - 1) % x.superblock.inodes_per_group
  IN Address(x, (IF IsLarge(x) THEN LowModulus ELSE 0) + 15 + 3 * group)
       + index * x.superblock.inode_size

DescriptorAddress(x, group) ==
  Address(x, IF x.superblock.log_block_size = 0 THEN 2 ELSE 1)
    + group * (IF IsLarge(x) THEN LargeDescriptor ELSE SmallDescriptor)

\* Entries one behind the other from address a on.
EntriesFrom(a, es) ==
  LET at[k \in DOMAIN es] == IF k = 1 THEN a ELSE at[k - 1] + es[k - 1].record_length
  IN [b \in {at[k] : k \in DOMAIN es} |-> es[CHOOSE k \in DOMAIN es : at[k] = b]]

Padded(x, es) == [es EXCEPT ![Len(es)].record_length = @ + BlockBytes(x) - MinBlockSize]

TextFrom(a, t) == [b \in a..(a + Len(t) - 1) |-> t[b - a + 1]]

DirectoryInode(tree) == [NoInode EXCEPT !.kind = "directory", !.size = 1, !.extents = TRUE,
                                        !.tree = tree]
FileInode(size, tree) == [NoInode EXCEPT !.kind = "file", !.size = size, !.extents = TRUE,
                                         !.tree = tree]
LinkInode(t, inline, b) ==
  [NoInode EXCEPT !.kind = "symlink", !.size = Len(t), !.extents = ~inline,
                  !.tree = Node(0, <<Leaf(0, 1, b), Leaf(1, 1, b + 1)>>), !.text = t]

MappedInode(x, n) ==
  CASE n = 2 -> DirectoryInode(Node(0, <<Leaf(0, Len(x.root), 10)>>))
    [] n = 3 -> DirectoryInode(x.dtree)
    [] n = 4 -> FileInode(x.size, x.tree)
    [] n = 5 -> LinkInode(x.link, x.inline, 13)
    [] n = 6 -> FileInode(2, Node(0, <<Leaf(0, 1, 40)>>))
    [] n = 7 -> LinkInode(x.dlink, TRUE, 0)

\* Inodes with block pointers have no extents.
Inode(x, n) == [MappedInode(x, n) EXCEPT !.extents = @ /\ n \notin x.pointers]

\* The last extent that covers a block.
Blocks(leaves) ==
  LET covers(k, b) == b \in leaves[k].logical_block..(leaves[k].logical_block + leaves[k].length - 1)
  IN [b \in {b \in 0..9 : \E k \in DOMAIN leaves : covers(k, b)} |->
        LET k == CHOOSE k \in DOMAIN leaves : /\ covers(k, b)
                                              /\ \A j \in DOMAIN leaves : covers(j, b) => j <= k
        IN Join(leaves[k].high, leaves[k].low) + b - leaves[k].logical_block]

File(kind, size) ==
  [kind |-> kind, size |-> size, listing |-> <<>>, target |-> <<>>, blocks |-> <<>>, pieces |-> 1,
   unsupported |-> FALSE]

SomeFiles(x) ==
  2 :> [File("directory", 1) EXCEPT !.listing = x.listing]
  @@ 3 :> [File("directory", 1) EXCEPT !.listing = <<"f">> :> 6 @@ <<"l">> :> 7,
                                       !.pieces = x.dpieces]
  @@ 4 :> [File("file", x.size) EXCEPT !.blocks = Blocks(x.leaves), !.pieces = Len(x.leaves)]
  @@ 5 :> [File("symlink", Len(x.link)) EXCEPT !.target = x.link]
  @@ 6 :> [File("file", 2) EXCEPT !.blocks = 0 :> 40]
  @@ 7 :> [File("symlink", Len(x.dlink)) EXCEPT !.target = x.dlink]

Files(x) == [n \in 2..7 |-> [SomeFiles(x)[n] EXCEPT !.unsupported = n \in x.unsupported]]

Volume(x) ==
  [superblock |-> IF x.spoilt = <<>> THEN x.superblock ELSE x.spoilt[1],
   partition_start_lba |-> x.start,
   descriptors |-> [a \in {DescriptorAddress(x, g) : g \in Groups} |->
                      [low |-> 15 + 3 * (CHOOSE g \in Groups : DescriptorAddress(x, g) = a),
                       high |-> 1]],
   inodes |-> [a \in {InodeAddress(x, n) : n \in 2..7} |->
                 Inode(x, CHOOSE n \in 2..7 : InodeAddress(x, n) = a)],
   nodes |-> [a \in {Address(x, b) : b \in DOMAIN x.nodes} |->
                x.nodes[CHOOSE b \in DOMAIN x.nodes : Address(x, b) = a]],
   entries |-> EntriesFrom(Address(x, 10), Padded(x, x.root[1]))
               @@ (IF Len(x.root) = 1 THEN <<>>
                   ELSE EntriesFrom(Address(x, 11), Padded(x, x.root[2])))
               @@ EntriesFrom(Address(x, 12),
                              Padded(x, <<Entry(6, 4, <<"f">>), Entry(7, 4, <<"l">>)>>)),
   text |-> IF x.inline THEN <<>> ELSE TextFrom(Address(x, 13), x.link),
   files |-> Files(x),
   damaged |-> x.damaged]

-----------------------------------------------------------------------------
(* What varies. *)

\* All sequences of at most n elements of s.
UpTo(s, n) == UNION {[1..k -> s] : k \in 0..n}

\* Every short target of /l, as a fast link and in blocks of its own, and
\* longer ones, which meet the limits of i_block and of the path buffer; a long
\* link without extents has block pointers.
Targets == UpTo({"/", "d", "f", "l", "."}, 3)
LongTargets == {<<"d", "/", "/", ".", "/", "f">>, <<"d", "/", "/", ".", "/", ".", "/", "f">>,
                <<"d", "/", ".", "/", ".", "/", ".", "/", "f">>, <<"d", "/", "l">>,
                <<"d", "/", ".", "/", ".", "/", ".", "/", ".", "/", ".", "/", "f">>,
                <<"?">>, <<"d", "/", "?">>}
LinkSystems ==
  {[Base EXCEPT !.link = c[1], !.dlink = c[2], !.inline = inline,
                !.unsupported = IF inline /\ Len(c[1]) > InlineBytes THEN {5} ELSE {}] :
     c \in Targets \X {<<"l">>, <<"/", "l">>} \cup LongTargets \X {<<"f">>, <<"/">>},
     inline \in BOOLEAN}

\* Extents of /f: every sorted list of up to three, with holes between and in
\* front of them and with none of them, and one of four.
SomeLeaves == {Leaf(0, 1, 30), Leaf(0, 2, 70), Leaf(1, 1, 32), Leaf(2, 1, 34), Leaf(3, 0, 36),
               Leaf(3, 1, 37)}
Sorted(ls) == \A j, k \in DOMAIN ls :
                j < k => ls[j].logical_block + ls[j].length <= ls[k].logical_block
LeafLists == {ls \in UpTo(SomeLeaves, 3) : Sorted(ls)}
               \cup {<<Leaf(0, 1, 30), Leaf(1, 1, 32), Leaf(2, 1, 34), Leaf(3, 1, 37)>>}

\* The same extents in the inode, under an index node with two leaves, and
\* under two levels of them.
Shape(ls, levels, n) ==
  LET front == Node(0, SubSeq(ls, 1, n))
      back == Node(0, SubSeq(ls, n + 1, Len(ls)))
  IN CASE levels = 0 -> [tree |-> Node(0, ls), nodes |-> <<>>]
       [] levels = 1 -> [tree |-> Node(1, <<Index(50), Index(51)>>),
                         nodes |-> 50 :> front @@ 51 :> back]
       [] levels = 2 -> [tree |-> Node(2, <<Index(50), Index(51)>>),
                         nodes |-> 50 :> Node(1, <<Index(52)>>) @@ 51 :> Node(1, <<Index(53)>>)
                                   @@ 52 :> front @@ 53 :> back]
\* How many extents go to the first leaf.
Splits(ls) == (IF Len(ls) <= 2 THEN {<<0, 0>>} ELSE {})
                \cup {1, 2} \X {(Len(ls) + 1) \div 2}
                \cup (IF Len(ls) <= 3 THEN {<<1, 0>>} ELSE {})
ExtentSystems ==
  UNION {{[Base EXCEPT !.leaves = ls, !.size = size,
                       !.tree = Shape(ls, c[1], c[2]).tree, !.nodes = Shape(ls, c[1], c[2]).nodes] :
            c \in Splits(ls), size \in {0, 1, 8, 15, 17, 26, 32}} : ls \in LeafLists}

\* Trees that no file system writes.
BrokenTrees ==
  {[tree |-> [Node(0, <<Leaf(0, 1, 30)>>) EXCEPT !.magic = FALSE], nodes |-> <<>>],
   [tree |-> Node(MaxExtentDepth + 1, <<Index(50)>>), nodes |-> 50 :> Node(0, <<Leaf(0, 1, 30)>>)],
   [tree |-> Node(0, <<Leaf(0, 1, 30), Leaf(1, 1, 31), Leaf(2, 1, 32)>>), nodes |-> <<>>],
   [tree |-> Node(1, <<Index(59)>>), nodes |-> <<>>]}
BrokenSystems ==
  {[Base EXCEPT !.tree = s.tree, !.nodes = s.nodes, !.damaged = TRUE] : s \in BrokenTrees}

\* Sound file systems that the reader does not support: /f with preallocated
\* blocks, in the inode or below an index node, /f and /d with block pointers,
\* and /d in too many pieces.
Preallocated(leaf) == [leaf EXCEPT !.uninitialized = TRUE]
PreallocatedTrees ==
  {[tree |-> Node(0, <<Leaf(0, 1, 30), Preallocated(Leaf(1, 1, 31))>>), nodes |-> <<>>],
   [tree |-> Node(1, <<Index(50), Index(51)>>),
    nodes |-> 50 :> Node(0, <<Leaf(0, 1, 30)>>)
              @@ 51 :> Node(0, <<Leaf(1, 1, 31), Preallocated(Leaf(2, 1, 32))>>)]}
UnsupportedSystems ==
  {[Base EXCEPT !.tree = s.tree, !.nodes = s.nodes, !.size = size, !.unsupported = {4}] :
     s \in PreallocatedTrees, size \in {0, 5, 17}}
  \cup {[Base EXCEPT !.pointers = {n}, !.unsupported = {n}, !.size = size] :
          n \in {3, 4}, size \in {0, 5}}
  \cup {[Base EXCEPT !.dpieces = 4, !.dtree = Node(1, <<Index(50), Index(51)>>),
                     !.nodes = 50 :> Node(0, <<Leaf(0, 1, 12), Leaf(1, 0, 60)>>)
                               @@ 51 :> Node(0, <<Leaf(2, 0, 60), Leaf(3, 0, 60)>>)]}

\* Root directories of two blocks: entries that are deleted, wider than their
\* name, repeated or without a name, and records of wrong lengths.
Entries == {Entry(3, 4, <<"d">>), Entry(4, 4, <<"f">>), Entry(6, 4, <<"f">>),
            Entry(0, 4, <<"f">>), Entry(4, 6, <<"f">>)}
BadLengths == {0, 2, 5, 10}

\* The second entry takes what the first has left, if only its header fits
\* without its name.
RootBlock(es) ==
  LET left == MinBlockSize - es[1].record_length
  IN <<es[1], Entry(es[2].inode, left, IF left = EntryHeader THEN <<>> ELSE es[2].name)>>

FirstOf(es) ==
  LET used == {k \in DOMAIN es : es[k].inode # 0}
  IN [name \in {es[k].name : k \in used} |->
        es[CHOOSE k \in used : es[k].name = name /\ \A j \in used : es[j].name = name => k <= j].inode]

DirectorySystems ==
  LET blocks == {RootBlock(es) : es \in Entries \X Entries}
  IN {[Base EXCEPT !.root = <<a, b>>, !.listing = FirstOf(a \o b)] : a \in blocks, b \in blocks}
     \cup {[Base EXCEPT !.root[1][2].record_length = length,
                        !.listing = <<"d">> :> 3 @@ <<"f">> :> 4, !.damaged = TRUE] :
              length \in BadLengths}

\* Superblocks with different places for groups, inodes and blocks, and ones
\* that are refused.
GoodSuperblocks ==
  {Superblock(log, inodeSize, perGroup, descriptor) :
     log \in {0, 1}, inodeSize \in {4, 6, 8}, perGroup \in {2, 3, 7},
     descriptor \in {0, SmallDescriptor, LargeDescriptor}}
BadSuperblocks ==
  LET good == Superblock(0, 6, 4, 0)
  IN {[good EXCEPT !.magic = FALSE], [good EXCEPT !.unsupported = TRUE],
      [good EXCEPT !.blocks_per_group = 0], [good EXCEPT !.inodes_per_group = 0],
      [good EXCEPT !.inode_size = 0], [good EXCEPT !.inode_size = MaxInodeSize + 1],
      [good EXCEPT !.log_block_size = 2], [good EXCEPT !.log_block_size = ShiftWidth - 3],
      [good EXCEPT !.log_block_size = ShiftWidth], [good EXCEPT !.group_descriptor_size = 1]}
SuperSystems ==
  {[Base EXCEPT !.superblock = s, !.start = start] : s \in GoodSuperblocks, start \in {0, 3}}
  \cup {[Base EXCEPT !.spoilt = <<s>>] : s \in BadSuperblocks}

\* An index node whose child is an index node of the same depth, for ever.
DeepSystem ==
  [Base EXCEPT !.tree = Node(1, <<Index(50)>>), !.nodes = 50 :> Node(1, <<Index(50)>>),
               !.damaged = TRUE]
DeepVolumes == {Volume(DeepSystem)}

Systems ==
  LinkSystems \cup ExtentSystems \cup BrokenSystems \cup UnsupportedSystems
    \cup DirectorySystems \cup SuperSystems
AllVolumes == {Volume(x) : x \in Systems}

AllPaths ==
  {<<>>, <<"/">>, <<"f">>, <<"l">>, <<"/", "d", "/", "/", "l">>, <<"l", "/", "f">>,
   <<"d", "/", "l", "/", ".", "/", "f", "/">>, <<"f", "/", ".">>, <<"d", "/", ".", ".">>}

-----------------------------------------------------------------------------
(* The volumes hold the file systems they were written from. *)

TreesOf(x) ==
  {<<Inode(x, n).tree, InlineBytes>> : n \in 2..7}
    \cup {<<Volume(x).nodes[a], BlockBytes(x)>> : a \in DOMAIN Volume(x).nodes}
    \cup {<<NoNode, BlockBytes(x)>>}

\* The extents below the readable trees of depth at most d.
Spelled(x) ==
  LET v == Volume(x)
      trees == TreesOf(x)
      upto[d \in 0..MaxExtentDepth] ==
        LET less == IF d = 0 THEN <<>> ELSE upto[d - 1]
            ripe == {t \in trees :
                       /\ ~Malformed(t[1], t[2]) /\ ~BadLeaf(t[1]) /\ t[1].depth = d
                       /\ d > 0 => \A k \in DOMAIN t[1].entries : Subtree(v, t[1], k) \in DOMAIN less}
            spell(t) ==
              LET u[k \in 0..Len(t[1].entries)] ==
                    IF k = 0 THEN <<>>
                    ELSE u[k - 1] \o (IF d = 0 THEN <<LeafExtents(t[1])[k]>>
                                      ELSE LET c == Subtree(v, t[1], k)
                                           IN less[c][Len(c[1].entries)])
              IN u
        IN less @@ [t \in ripe |-> spell(t)]
  IN upto[MaxExtentDepth]

RecordPlaces(v, b) ==
  LET from[at \in Nat] ==
        LET e == EntryIn(v, b, at)
        IN IF at + EntryHeader > BlockSize(v.superblock) THEN <<>>
           ELSE IF BadRecord(v, e, at) THEN <<at>>
           ELSE <<at>> \o from[at + e.record_length]
  IN from[0]

\* The sound trees of depth at most d with extents that were never written.
Unspelled(x) ==
  LET v == Volume(x)
      within[d \in 0..MaxExtentDepth] ==
        IF d = 0 THEN {t \in TreesOf(x) : ~Malformed(t[1], t[2]) /\ BadLeaf(t[1])}
        ELSE within[d - 1] \cup
               {t \in TreesOf(x) :
                  LET below == {Subtree(v, t[1], k) : k \in DOMAIN t[1].entries}
                  IN /\ t[1].depth = d /\ ~Malformed(t[1], t[2])
                     /\ below \subseteq DOMAIN Spelled(x) \cup within[d - 1]
                     /\ below \cap within[d - 1] # {}}
  IN within[MaxExtentDepth]

Witness(x) ==
  LET spelled == Spelled(x)
  IN [upto |-> spelled, broken |-> TreesOf(x) \ DOMAIN spelled, preallocated |-> Unspelled(x),
      places |-> [b \in 10..12 |-> RecordPlaces(Volume(x), b)]]

\* What the theorems on open and load ask of a volume holds of these.
ASSUME SystemsAreWritten ==
  \A x \in Systems \cup {DeepSystem} : x.spoilt = <<>> => Written(Volume(x), Witness(x))
=============================================================================
