----------------------------- MODULE Ext4Proofs -----------------------------
(***************************************************************************)
(* What the ext4 reader guarantees on every volume, whatever superblock,   *)
(* inodes, extent trees, directories and links hold: its path buffer, its  *)
(* extent array and the buffer of a file are never filled beyond their     *)
(* size, and links are followed only as often as the code allows.          *)
(*                                                                         *)
(* On volumes that hold the file system they are said to hold, damaged or  *)
(* not, open returns the file that the path leads to and load the bytes of *)
(* that file.                                                              *)
(***************************************************************************)
EXTENDS Ext4Reference, FiniteSetTheorems, SequenceTheorems, WellFoundedInduction, TLAPS

\* Everything that may be read from a disk.
InodesOf(v) == {v.inodes[a] : a \in DOMAIN v.inodes}
NodesOf(v) == {v.nodes[a] : a \in DOMAIN v.nodes}
Inodes == {NoInode} \cup UNION {InodesOf(v) : v \in Volumes}
Trees == {i.tree : i \in Inodes}
Nodes == {NoNode} \cup Trees \cup (UNION {NodesOf(v) : v \in Volumes})

Frames == [node : Nodes, length : Nat, index : Nat \ {0}]
Extents == [logical_block : Nat, block_count : Nat, physical_block : Nat]

Mounted ==
  /\ volume \in Volumes
  /\ geometry.block_size \in Nat /\ geometry.sectors_per_block \in Nat
  /\ pc = "mount" => geometry.block_size = 0
  /\ pc \notin {"mount", "unmounted"} => geometry.block_size # 0

\* Text that comes out of a link fits into the path buffer, what is left of it
\* all the more.
Resolving ==
  /\ current \in Nat \ {0} /\ remaining \in Seq(Chars)
  /\ links \in 0..MaxSymlinkDepth
  /\ links > 0 => Len(remaining) <= PathBytes
  /\ pc = "child" => entry \in Nat \ {0}

\* A link whose target is being read may still be followed.
Walking ==
  /\ inode \in Inodes /\ stack \in Seq(Frames)
  /\ extents \in Seq(Extents) /\ Len(extents) <= MaxExtents
  /\ pc = "collect" => purpose \in {"directory", "link", "file"}
  /\ pc = "copy" => purpose \in {"link", "file"}
  /\ pc \in {"collect", "copy"} /\ purpose = "link" => links < MaxSymlinkDepth

Scanning ==
  /\ pc \in {"mount", "unmounted", "idle", "component", "collect", "block", "scan", "child",
             "opened", "copy", "done"}
  /\ pc \in {"block", "scan", "copy"} => extent \in 1..(Len(extents) + 1)
  /\ offset \in 0..geometry.block_size

\* The buffer has the size of the file or link from before the first extent
\* to behind the last one.
Copying ==
  /\ buffer \in Seq(Int)
  /\ pc = "collect" /\ purpose # "directory" => Len(buffer) = inode.size
  /\ pc = "copy" => Len(buffer) = inode.size

IndInv == Mounted /\ Resolving /\ Walking /\ Scanning /\ Copying

-----------------------------------------------------------------------------
(* What a disk holds. *)

LEMMA Sizes ==
  /\ SectorSize \in Nat \ {0} /\ MinBlockSize \in Nat \ {0} /\ ShiftWidth \in Nat \ {0}
  /\ LowModulus \in Nat \ {0} /\ EntryHeader \in Nat \ {0}
  /\ InlineBytes \in Nat /\ MaxExtents \in Nat /\ MaxSymlinkDepth \in Nat /\ PathBytes \in Nat
  BY SizeAssumption

\* A power of two counts the subsets of a set.
LEMMA PowerTyped ==
  ASSUME NEW k \in Nat
  PROVE  2 ^ k \in Nat \ {0}
<1>1. IsFiniteSet(1..k) /\ Cardinality(1..k) = k
  <2>1. 1 \in Int /\ k \in Int /\ (IF 1 > k THEN 0 ELSE k - 1 + 1) = k
    OBVIOUS
  <2> QED BY <2>1, FS_Interval
<1>2. IsFiniteSet(SUBSET (1..k)) /\ Cardinality(SUBSET (1..k)) = 2 ^ k
  BY <1>1, FS_SUBSET
<1>3. Cardinality(SUBSET (1..k)) \in Nat
  BY <1>2, FS_CardinalityType
<1>4. SUBSET (1..k) # {}
  OBVIOUS
<1>5. Cardinality(SUBSET (1..k)) # 0
  BY <1>2, <1>4, FS_EmptySet
<1> QED BY <1>2, <1>3, <1>5

LEMMA BlockSizeTyped ==
  ASSUME NEW v \in Volumes
  PROVE  BlockSize(v.superblock) \in Nat
<1> DEFINE p == 2 ^ v.superblock.log_block_size
           w == 2 ^ ShiftWidth
<1>1. v.superblock.log_block_size \in Nat
  BY VolumeAssumption
<1>2. p \in Nat /\ w \in Nat \ {0}
  BY <1>1, PowerTyped, Sizes
<1> HIDE DEF p, w
<1>3. MinBlockSize * p \in Nat
  BY <1>2, Sizes
<1>4. ASSUME NEW x \in Nat, NEW y \in Nat \ {0} PROVE x % y \in Nat
  BY <1>4
<1>5. (MinBlockSize * p) % w \in Nat
  BY <1>2, <1>3, <1>4
<1> QED BY <1>5 DEF BlockSize, p, w

LEMMA NoNodeSound == IsNode(NoNode)
<1>1. DOMAIN <<>> = 1..Len(<<>>) /\ Len(<<>>) \in Nat /\ DOMAIN <<>> = {}
  OBVIOUS
<1> QED BY <1>1 DEF NoNode, IsNode

LEMMA InodesTyped ==
  ASSUME NEW i \in Inodes
  PROVE  /\ i.size \in Nat /\ i.text \in Seq(Chars)
         /\ i.tree \in Nodes /\ IsNode(i.tree)
<1>1. i.tree \in Nodes
  <2>1. i.tree \in Trees
    BY Zenon DEF Trees
  <2> QED BY <2>1 DEF Nodes
<1>2. CASE i = NoInode
  BY <1>1, <1>2, NoNodeSound DEF NoInode
<1>3. CASE i # NoInode
  <2>1. PICK v \in Volumes : i \in InodesOf(v)
    BY <1>3 DEF Inodes
  <2>2. PICK a \in DOMAIN v.inodes : i = v.inodes[a]
    BY <2>1 DEF InodesOf
  <2> QED BY <1>1, <2>1, <2>2, VolumeAssumption
<1> QED BY <1>2, <1>3

LEMMA NodesTyped ==
  ASSUME NEW n \in Nodes
  PROVE  IsNode(n)
<1>1. CASE n \in Trees
  <2>1. PICK i \in Inodes : n = i.tree
    BY <1>1, Zenon DEF Trees
  <2> QED BY <2>1, InodesTyped
<1>2. CASE n = NoNode
  BY <1>2, NoNodeSound
<1>3. CASE \E v \in Volumes : n \in NodesOf(v)
  BY <1>3, VolumeAssumption DEF NodesOf
<1> QED BY <1>1, <1>2, <1>3 DEF Nodes

LEMMA InodeRead ==
  ASSUME volume \in Volumes, NEW n
  PROVE  read_inode(n) \in Inodes
<1>1. ASSUME NEW f, NEW o, NEW l, NEW z
      PROVE  Record(f, o, l, z) = z \/ \E a \in DOMAIN f : Record(f, o, l, z) = f[a]
  BY DEF Record, At
<1>2. read_inode(n) = NoInode \/ \E a \in DOMAIN volume.inodes : read_inode(n) = volume.inodes[a]
  BY <1>1, Zenon DEF read_inode
<1> QED BY <1>2 DEF Inodes, InodesOf

-----------------------------------------------------------------------------
(* Text. *)

\* The least-number principle: a set of numbers that is not empty has a first.
LEMMA LeastOf ==
  ASSUME NEW T, T \subseteq Nat, NEW R, NEW x \in T,
         \A y \in T : ~(<<y, x>> \in R),
         \A a, b \in Nat : a < b => <<a, b>> \in R
  PROVE  \A y \in T : x <= y
<1> SUFFICES ASSUME NEW y \in T PROVE x <= y
  OBVIOUS
<1>1. x \in Nat /\ y \in Nat
  OBVIOUS
<1>2. ~(y < x)
  BY <1>1
<1> QED BY <1>1, <1>2

LEMMA LeastNumber ==
  ASSUME NEW T, T \subseteq Nat, T # {}
  PROVE  \E x \in T : \A y \in T : x <= y
<1> DEFINE R == OpToRel(<, Nat)
<1>1. IsWellFoundedOn(R, Nat)
  BY NatLessThanWellFounded, Zenon
<1>2. \A a, b \in Nat : a < b => <<a, b>> \in R
  BY SMT DEF OpToRel
<1> HIDE DEF R
<1>3. PICK x \in T : \A y \in T : ~(<<y, x>> \in R)
  BY <1>1, WFMin
<1>4. \A y \in T : x <= y
  BY <1>2, <1>3, LeastOf
<1> QED BY <1>4

LEMMA Suffix ==
  ASSUME NEW p \in Seq(Chars), NEW k \in 1..(Len(p) + 1)
  PROVE  /\ SubSeq(p, k, Len(p)) \in Seq(Chars)
         /\ Len(SubSeq(p, k, Len(p))) <= Len(p)
<1>1. Len(p) \in Nat /\ \A j \in 1..Len(p) : p[j] \in Chars
  OBVIOUS
<1> DEFINE s == SubSeq(p, k, Len(p))
           n == Len(p) - k + 1
<1>2. n \in Nat /\ n <= Len(p)
  BY <1>1
<1>3. s = [i \in 1..n |-> p[i + k - 1]]
  BY <1>1, <1>2
<1>4. ASSUME NEW i \in 1..n PROVE p[i + k - 1] \in Chars
  <2>1. i + k - 1 \in 1..Len(p)
    BY <1>1
  <2> QED BY <1>1, <2>1
<1>5. [i \in 1..n |-> p[i + k - 1]] \in [1..n -> Chars]
  BY <1>4
<1>6. ASSUME NEW f \in [1..n -> Chars] PROVE f \in Seq(Chars) /\ Len(f) = n
  BY <1>2
<1> HIDE DEF s, n
<1>7. s \in Seq(Chars) /\ Len(s) = n
  BY <1>3, <1>5, <1>6
<1> QED BY <1>2, <1>7 DEF s

\* trim_leading_separators finds the first character that is no separator, or
\* the end.
LEMMA Trimmed ==
  ASSUME NEW p \in Seq(Chars)
  PROVE  /\ trim_leading_separators(p) \in Seq(Chars)
         /\ Len(trim_leading_separators(p)) <= Len(p)
<1> DEFINE T == {k \in 1..(Len(p) + 1) : ~IsSeparator(p, k)}
           first == CHOOSE k \in 1..(Len(p) + 1) :
                      /\ ~IsSeparator(p, k)
                      /\ \A j \in 1..(k - 1) : IsSeparator(p, j)
<1>1. Len(p) \in Nat /\ DOMAIN p = 1..Len(p)
  OBVIOUS
<1>2. Len(p) + 1 \in T
  BY <1>1 DEF IsSeparator
<1>3. PICK x \in T : \A y \in T : x <= y
  <2>1. T \subseteq Nat /\ T # {}
    BY <1>1, <1>2
  <2> QED BY <2>1, LeastNumber
<1>4. \A j \in 1..(x - 1) : IsSeparator(p, j)
  BY <1>1, <1>3
<1>5. first \in 1..(Len(p) + 1)
  BY <1>3, <1>4
<1> HIDE DEF first
<1>6. trim_leading_separators(p) = SubSeq(p, first, Len(p))
  BY Zenon DEF trim_leading_separators, first
<1> QED BY <1>5, <1>6, Suffix

LEMMA ComponentFits ==
  ASSUME NEW p \in Seq(Chars)
  PROVE  ComponentLength(p) \in 0..Len(p)
<1> DEFINE Ends(n) == n = Len(p) \/ IsSeparator(p, n + 1)
           T == {n \in 0..Len(p) : Ends(n)}
<1>1. Len(p) \in Nat /\ DOMAIN p = 1..Len(p)
  OBVIOUS
<1>2. Len(p) \in T
  BY <1>1
<1>3. PICK x \in T : \A y \in T : x <= y
  <2>1. T \subseteq Nat /\ T # {}
    BY <1>1, <1>2
  <2> QED BY <2>1, LeastNumber
<1>4. ASSUME NEW k \in 1..x PROVE ~IsSeparator(p, k)
  <2>1. k - 1 \in 0..Len(p) /\ ~(x <= k - 1) /\ (k - 1) + 1 = k
    <3>1. x \in 0..Len(p)
      BY <1>3
    <3>2. ASSUME NEW l \in Nat, NEW a \in 0..l, NEW b \in 1..a
          PROVE  b - 1 \in 0..l /\ ~(a <= b - 1) /\ (b - 1) + 1 = b
      OBVIOUS
    <3> HIDE DEF T
    <3> QED BY <1>1, <3>1, <3>2, Zenon
  <2>2. k - 1 \notin T
    BY <1>3, <2>1
  <2> QED BY <2>1, <2>2
<1>5. x \in 0..Len(p) /\ (x = Len(p) \/ IsSeparator(p, x + 1))
  BY <1>3
<1> QED BY <1>4, <1>5 DEF ComponentLength

LEMMA RestFits ==
  ASSUME remaining \in Seq(Chars)
  PROVE  Rest \in Seq(Chars) /\ Len(Rest) <= Len(remaining)
<1> DEFINE n == ComponentLength(remaining)
           s == SubSeq(remaining, n + 1, Len(remaining))
<1>1. n \in 0..Len(remaining) /\ Len(remaining) \in Nat
  BY ComponentFits
<1> HIDE DEF n
<1>2. n + 1 \in 1..(Len(remaining) + 1)
  BY <1>1
<1>3. s \in Seq(Chars) /\ Len(s) <= Len(remaining)
  BY <1>2, Suffix
<1> HIDE DEF s
<1>4. /\ trim_leading_separators(s) \in Seq(Chars)
      /\ Len(trim_leading_separators(s)) <= Len(s)
  BY <1>3, Trimmed
<1>5. Rest = trim_leading_separators(s)
  BY Zenon DEF Rest, s, n
<1>6. Len(s) \in Nat /\ Len(trim_leading_separators(s)) \in Nat
  BY <1>3, <1>4
<1> QED BY <1>1, <1>3, <1>4, <1>5, <1>6

LEMMA ExpandedTyped ==
  ASSUME NEW target \in Seq(Chars), NEW tail \in Seq(Chars)
  PROVE  ExpandedPath(target, tail) \in Seq(Chars)
<1>1. <<"/">> \in Seq(Chars)
  BY TextAssumption
<1>2. target \o <<"/">> \o tail \in Seq(Chars) /\ target \o tail \in Seq(Chars)
  BY <1>1
<1> QED BY <1>2 DEF ExpandedPath

-----------------------------------------------------------------------------
(* The actions. *)

\* Following a link: the text is too long or no text, or it is begun with.
LEMMA ExpandSteps ==
  ASSUME NEW target \in Seq(Chars), remaining \in Seq(Chars), Expand(target)
  PROVE  \/ pc' = "done" /\ UNCHANGED <<current, remaining, links>>
         \/ /\ pc' = "component" /\ links' = links + 1
            /\ current' \in {RootInode, current}
            /\ remaining' \in Seq(Chars) /\ Len(remaining') <= PathBytes
<1> DEFINE e == ExpandedPath(target, Rest)
<1>1. e \in Seq(Chars)
  BY RestFits, ExpandedTyped
<1>2. \/ pc' = "done" /\ UNCHANGED <<current, remaining, links>>
      \/ Len(e) <= PathBytes /\ Begin(current, e) /\ links' = links + 1
  BY DEF Expand, Return
<1> HIDE DEF e
<1>3. ASSUME Len(e) <= PathBytes, Begin(current, e), links' = links + 1
      PROVE  /\ pc' = "component" /\ current' \in {RootInode, current}
             /\ remaining' \in Seq(Chars) /\ Len(remaining') <= PathBytes
  <2>1. /\ trim_leading_separators(e) \in Seq(Chars)
        /\ Len(trim_leading_separators(e)) <= Len(e)
    BY <1>1, Trimmed
  <2>2. remaining' = trim_leading_separators(e) /\ pc' = "component"
        /\ current' \in {RootInode, current}
    BY <1>3 DEF Begin
  <2>3. Len(trim_leading_separators(e)) \in Nat /\ Len(e) \in Nat
    BY <1>1, <2>1
  <2> QED BY <1>3, <2>1, <2>2, <2>3, Sizes
<1> QED BY <1>2, <1>3

LEMMA InitInv == Init => IndInv
<1> SUFFICES ASSUME Init PROVE IndInv
  OBVIOUS
<1>1. <<>> \in Seq(Chars) /\ <<>> \in Seq(Frames) /\ <<>> \in Seq(Extents) /\ <<>> \in Seq(Int)
      /\ Len(<<>>) = 0
  OBVIOUS
<1>2. NoGeometry.block_size = 0 /\ NoGeometry.sectors_per_block = 0
  BY DEF NoGeometry
<1>3. NoInode \in Inodes
  BY DEF Inodes
<1>4. Mounted
  BY <1>2 DEF Init, Mounted
<1>5. Resolving
  BY <1>1, Sizes DEF Init, Resolving, RootInode
<1>6. Walking
  BY <1>1, <1>3, Sizes DEF Init, Walking
<1>7. Scanning
  BY <1>2 DEF Init, Scanning
<1>8. Copying
  BY <1>1 DEF Init, Copying
<1> QED BY <1>4, <1>5, <1>6, <1>7, <1>8 DEF IndInv

LEMMA NewInv ==
  ASSUME IndInv, new
  PROVE  IndInv'
<1>1. /\ pc = "mount" /\ pc' \in {"unmounted", "idle"}
      /\ UNCHANGED <<volume, path, current, remaining, links, inode, purpose, stack, extents,
                     extent, block, offset, entry, buffer, handle>>
  BY DEF new, pathVars, treeVars, scanVars
<1>2. \/ pc' = "unmounted" /\ geometry' = geometry
      \/ /\ geometry' = Geometry(volume.superblock)
         /\ MountError(volume.superblock) = "none"
  BY DEF new
<1> DEFINE b == BlockSize(volume.superblock)
<1>3. b \in Nat /\ volume \in Volumes
  BY BlockSizeTyped DEF IndInv, Mounted
<1>4. b \div SectorSize \in Nat
  <2>1. ASSUME NEW x \in Nat, NEW y \in Nat \ {0} PROVE x \div y \in Nat
    BY <2>1
  <2> HIDE DEF b
  <2> QED BY <1>3, <2>1, Sizes
<1>5. MountError(volume.superblock) = "none" => ~(b < SectorSize)
  BY DEF MountError
<1>6. Geometry(volume.superblock).block_size = b
      /\ Geometry(volume.superblock).sectors_per_block = b \div SectorSize
  BY DEF Geometry
<1> HIDE DEF b
<1>7. Mounted' /\ offset' \in 0..geometry'.block_size
  <2>1. CASE pc' = "unmounted" /\ geometry' = geometry
    BY <1>1, <2>1 DEF IndInv, Mounted, Scanning
  <2>2. CASE geometry' = Geometry(volume.superblock) /\ MountError(volume.superblock) = "none"
    <3>1. geometry'.block_size = b /\ geometry'.sectors_per_block = b \div SectorSize /\ b # 0
      BY <1>3, <1>5, <1>6, <2>2, Sizes
    <3>2. offset = 0
      BY <1>1 DEF IndInv, Scanning, Mounted
    <3> QED BY <1>1, <1>3, <1>4, <3>1, <3>2 DEF Mounted
  <2> QED BY <1>2, <2>1, <2>2
<1>8. Resolving' /\ Copying'
  BY <1>1 DEF IndInv, Resolving, Copying
<1>9. Walking' /\ Scanning'
  BY <1>1, <1>7 DEF IndInv, Walking, Scanning
<1> QED BY <1>7, <1>8, <1>9 DEF IndInv

LEMMA OpenInv ==
  ASSUME IndInv, open
  PROVE  IndInv'
<1>1. /\ pc \in {"idle", "done"} /\ pc' = "component" /\ path' \in Paths
      /\ UNCHANGED <<volume, geometry>>
      /\ current' \in {RootInode} /\ remaining' = trim_leading_separators(path')
      /\ links' = 0 /\ inode' = NoInode /\ stack' = <<>> /\ extents' = <<>> /\ offset' = 0
      /\ buffer' = <<>>
  BY DEF open, Begin, diskVars
<1>2. <<>> \in Seq(Frames) /\ <<>> \in Seq(Extents) /\ <<>> \in Seq(Int) /\ Len(<<>>) = 0
  OBVIOUS
<1>3. remaining' \in Seq(Chars)
  <2>1. path' \in Seq(Chars)
    BY <1>1, TextAssumption
  <2> QED BY <1>1, <2>1, Trimmed
<1>4. Mounted'
  BY <1>1 DEF IndInv, Mounted
<1>5. Resolving'
  BY <1>1, <1>3, Sizes DEF Resolving, RootInode
<1>6. Walking'
  BY <1>1, <1>2, Sizes DEF Walking, Inodes
<1>7. Scanning' /\ Copying'
  BY <1>1, <1>2, <1>4 DEF Scanning, Copying, Mounted
<1> QED BY <1>4, <1>5, <1>6, <1>7 DEF IndInv

\* What Collect does, and that it begins with a walk over a sound tree.
LEMMA CollectSteps ==
  ASSUME NEW node \in Inodes, NEW why, Collect(node, why), Walking
  PROVE  \/ pc' = "done" /\ UNCHANGED <<inode, purpose, stack, extents>>
         \/ /\ pc' = "collect" /\ inode' = node /\ purpose' = why
            /\ stack' \in Seq(Frames) /\ extents' \in Seq(Extents) /\ Len(extents') <= MaxExtents
<1> DEFINE f == [node |-> node.tree, length |-> InlineBytes, index |-> 1]
<1>1. f \in Frames
  BY InodesTyped, Sizes DEF Frames
<1>2. <<f>> \in Seq(Frames)
  <2> HIDE DEF f
  <2> QED BY <1>1
<1>3. <<>> \in Seq(Extents) /\ Len(<<>>) = 0
  OBVIOUS
<1>4. \/ pc' = "done" /\ UNCHANGED <<inode, purpose, stack, extents>>
      \/ /\ pc' = "collect" /\ inode' = node /\ purpose' = why
         /\ stack' = <<f>> /\ extents' = <<>>
  BY DEF Collect, Return
<1> HIDE DEF f
<1>5. Len(<<>>) <= MaxExtents
  BY <1>3, Sizes
<1> QED BY <1>2, <1>3, <1>4, <1>5, Zenon

LEMMA ResolveInv ==
  ASSUME IndInv, resolve_path_from
  PROVE  IndInv'
<1> DEFINE c == read_inode(current)
<1>1. /\ pc = "component"
      /\ UNCHANGED <<volume, geometry, path, current, links, extent, block, offset, entry, buffer>>
  BY DEF resolve_path_from, diskVars, scanVars
<1>2. \/ /\ pc' \in {"done", "opened", "component"} /\ remaining' \in {remaining, Rest}
         /\ inode' \in {inode, c} /\ UNCHANGED <<stack, extents>>
      \/ Collect(c, "directory") /\ UNCHANGED remaining
  BY <1>1 DEF resolve_path_from, ReadFails, Return, treeVars
<1>3. c \in Inodes
  BY InodeRead DEF IndInv, Mounted
<1> HIDE DEF c
<1>4. Mounted /\ Resolving /\ Walking /\ Scanning /\ Copying
  BY DEF IndInv
<1>5. /\ Rest \in Seq(Chars) /\ Len(Rest) <= Len(remaining) /\ remaining \in Seq(Chars)
      /\ Len(Rest) \in Nat /\ Len(remaining) \in Nat
  BY <1>4, RestFits DEF Resolving
<1>6. /\ pc' \in {"done", "opened", "component", "collect"} /\ remaining' \in {remaining, Rest}
      /\ inode' \in Inodes /\ stack' \in Seq(Frames) /\ extents' \in Seq(Extents)
      /\ Len(extents') <= MaxExtents /\ (pc' = "collect" => purpose' = "directory")
  <2>1. CASE Collect(c, "directory") /\ UNCHANGED remaining
    BY <1>3, <1>4, <2>1, CollectSteps DEF Walking
  <2>2. CASE /\ pc' \in {"done", "opened", "component"} /\ remaining' \in {remaining, Rest}
             /\ inode' \in {inode, c} /\ UNCHANGED <<stack, extents>>
    BY <1>3, <1>4, <2>2 DEF Walking
  <2> QED BY <1>2, <2>1, <2>2
<1>7. Mounted'
  BY <1>1, <1>4, <1>6 DEF Mounted
<1>8. Resolving'
  BY <1>1, <1>4, <1>5, <1>6, Sizes DEF Resolving
<1>9. Walking'
  BY <1>6 DEF Walking
<1>10. Scanning' /\ Copying'
  BY <1>1, <1>4, <1>6 DEF Scanning, Copying
<1> QED BY <1>7, <1>8, <1>9, <1>10 DEF IndInv

\* The extents of a leaf, and how many there are.
LEMMA LeafTyped ==
  ASSUME NEW n \in Nodes, n.depth = 0
  PROVE  LeafExtents(n) \in Seq(Extents) /\ Len(LeafExtents(n)) = Len(n.entries)
<1>1. /\ Len(n.entries) \in Nat /\ DOMAIN n.entries = 1..Len(n.entries)
      /\ \A k \in DOMAIN n.entries :
           /\ n.entries[k].high \in Nat /\ n.entries[k].low \in Nat
           /\ n.entries[k].logical_block \in Nat /\ n.entries[k].length \in Nat
  BY NodesTyped DEF IsNode
<1>2. ASSUME NEW k \in DOMAIN n.entries
      PROVE  [logical_block |-> n.entries[k].logical_block,
              block_count |-> n.entries[k].length,
              physical_block |-> Join(n.entries[k].high, n.entries[k].low)] \in Extents
  <2>1. Join(n.entries[k].high, n.entries[k].low) \in Nat
    <3>1. ASSUME NEW h \in Nat, NEW l \in Nat PROVE Join(h, l) \in Nat
      BY Sizes DEF Join
    <3> QED BY <1>1, <3>1
  <2> QED BY <1>1, <2>1 DEF Extents
<1>3. LeafExtents(n) \in [1..Len(n.entries) -> Extents]
  BY <1>1, <1>2 DEF LeafExtents
<1>4. ASSUME NEW l \in Nat, NEW f \in [1..l -> Extents] PROVE f \in Seq(Extents) /\ Len(f) = l
  OBVIOUS
<1> QED BY <1>1, <1>3, <1>4

\* Entering a child: one frame more, and the parent behind it is the one that
\* was there, one entry further.
LEMMA DescendTyped ==
  ASSUME volume \in Volumes, geometry.block_size \in Nat, stack \in Seq(Frames), stack # <<>>
  PROVE  /\ stack[1] \in Frames /\ Tail(stack) \in Seq(Frames)
         /\ Descend(stack[1]) \in Seq(Frames)
<1> DEFINE f == stack[1]
           n == At(volume.nodes, Child(f.node, f.index), NoNode)
           a == [node |-> n, length |-> geometry.block_size, index |-> 1]
           b == [f EXCEPT !.index = @ + 1]
           t == Tail(stack)
<1>1. f \in Frames /\ t \in Seq(Frames)
  OBVIOUS
<1>2. n \in Nodes
  BY DEF At, Nodes, NodesOf
<1> HIDE DEF f, n, t
<1>3. a \in Frames
  BY <1>2 DEF Frames
<1>4. b \in Frames
  <2>1. f.node \in Nodes /\ f.length \in Nat /\ f.index + 1 \in Nat \ {0}
    BY <1>1 DEF Frames
  <2>2. b = [node |-> f.node, length |-> f.length, index |-> f.index + 1]
    <3>1. ASSUME NEW x, NEW y, NEW z
          PROVE  [[node |-> x, length |-> y, index |-> z] EXCEPT !.index = @ + 1]
                   = [node |-> x, length |-> y, index |-> z + 1]
      OBVIOUS
    <3>2. f = [node |-> f.node, length |-> f.length, index |-> f.index]
      BY <1>1 DEF Frames
    <3> QED BY <3>1, <3>2
  <2> HIDE DEF b
  <2> QED BY <2>1, <2>2 DEF Frames
<1> HIDE DEF a, b
<1>5. <<a, b>> \o t \in Seq(Frames)
  BY <1>1, <1>3, <1>4
<1>6. Descend(f) = <<a, b>> \o t
  BY Zenon DEF Descend, a, b, n, t
<1> QED BY <1>1, <1>5, <1>6 DEF f, t

LEMMA CollectNodeInv ==
  ASSUME IndInv, collect_extent_node
  PROVE  IndInv'
<1> DEFINE n == stack[1].node
<1>1. /\ pc = "collect" /\ stack # <<>>
      /\ UNCHANGED <<volume, geometry, path, current, remaining, links, inode, purpose, extent,
                     block, offset, entry, buffer, handle>>
  BY DEF collect_extent_node, diskVars, pathVars, scanVars
<1>2. Mounted /\ Resolving /\ Walking /\ Scanning /\ Copying
  BY DEF IndInv
<1>3. /\ pc' \in {"collect", "done"}
      /\ stack' \in {stack, Tail(stack), Descend(stack[1])}
      /\ \/ UNCHANGED extents
         \/ n.depth = 0 /\ ~Uncollectable(n) /\ extents' = extents \o LeafExtents(n)
  BY <1>1 DEF collect_extent_node, Return, ReadFails
<1>4. /\ stack[1] \in Frames /\ Tail(stack) \in Seq(Frames) /\ Descend(stack[1]) \in Seq(Frames)
      /\ stack \in Seq(Frames)
  BY <1>1, <1>2, DescendTyped DEF Mounted, Walking
<1>5. n \in Nodes
  BY <1>4 DEF Frames
<1>6. extents' \in Seq(Extents) /\ Len(extents') <= MaxExtents
  <2>1. extents \in Seq(Extents) /\ Len(extents) <= MaxExtents
    BY <1>2 DEF Walking
  <2>2. ASSUME n.depth = 0, ~Uncollectable(n), extents' = extents \o LeafExtents(n)
        PROVE  extents' \in Seq(Extents) /\ Len(extents') <= MaxExtents
    <3> HIDE DEF n
    <3>1. LeafExtents(n) \in Seq(Extents) /\ Len(LeafExtents(n)) = Len(n.entries)
      BY <1>5, <2>2, LeafTyped
    <3>2. ~(Len(extents) + Len(n.entries) > MaxExtents) /\ Len(n.entries) \in Nat
      BY <1>5, <2>2, NodesTyped DEF Uncollectable, IsNode
    <3>3. ASSUME NEW p \in Seq(Extents), NEW q \in Seq(Extents)
          PROVE  p \o q \in Seq(Extents) /\ Len(p \o q) = Len(p) + Len(q) /\ Len(p) \in Nat
      OBVIOUS
    <3>4. /\ extents \o LeafExtents(n) \in Seq(Extents) /\ Len(extents) \in Nat
          /\ Len(extents \o LeafExtents(n)) = Len(extents) + Len(n.entries)
      BY <2>1, <3>1, <3>3, Zenon
    <3> QED BY <2>2, <3>2, <3>4, Sizes
  <2> QED BY <1>3, <2>1, <2>2
<1>7. Mounted' /\ Resolving'
  BY <1>1, <1>2, <1>3 DEF Mounted, Resolving
<1>8. Walking'
  <2>1. stack' \in Seq(Frames)
    BY <1>3, <1>4
  <2> QED BY <1>1, <1>2, <1>3, <1>6, <2>1 DEF Walking
<1>9. Scanning' /\ Copying'
  BY <1>1, <1>2, <1>3 DEF Scanning, Copying
<1> QED BY <1>7, <1>8, <1>9 DEF IndInv

LEMMA CollectedInv ==
  ASSUME IndInv, extents_collected
  PROVE  IndInv'
<1>1. /\ pc = "collect" /\ pc' = IF purpose = "directory" THEN "block" ELSE "copy"
      /\ extent' = 1
      /\ UNCHANGED <<volume, geometry, path, current, remaining, links, inode, purpose, stack,
                     extents, offset, entry, buffer, handle>>
  BY DEF extents_collected, diskVars, pathVars, treeVars
<1>2. Mounted /\ Resolving /\ Walking /\ Scanning /\ Copying
  BY DEF IndInv
<1>3. Mounted' /\ Resolving' /\ Walking' /\ Copying'
  BY <1>1, <1>2 DEF Mounted, Resolving, Walking, Copying
<1>4. Scanning'
  <2>1. Len(extents) \in Nat
    BY <1>2 DEF Walking
  <2>2. 1 \in 1..(Len(extents) + 1)
    BY <2>1
  <2> QED BY <1>1, <1>2, <2>2 DEF Scanning
<1> QED BY <1>3, <1>4 DEF IndInv

LEMMA BlockInv ==
  ASSUME IndInv, read_directory_block
  PROVE  IndInv'
<1>1. /\ pc = "block" /\ pc' \in {"block", "scan", "done"}
      /\ \/ extent' = extent
         \/ extent <= Len(extents) /\ extent' = extent + 1
      /\ offset' \in {offset, 0}
      /\ UNCHANGED <<volume, geometry, path, current, remaining, links, inode, purpose, stack,
                     extents, entry, buffer, handle>>
  BY DEF read_directory_block, diskVars, pathVars, treeVars, Return, ReadFails
<1>2. Mounted /\ Resolving /\ Walking /\ Scanning /\ Copying
  BY DEF IndInv
<1>3. Mounted' /\ Resolving' /\ Walking' /\ Copying'
  BY <1>1, <1>2 DEF Mounted, Resolving, Walking, Copying
<1>4. Scanning'
  <2>1. Len(extents) \in Nat
    BY <1>2 DEF Walking
  <2>2. extent' \in 1..(Len(extents) + 1)
    BY <1>1, <1>2, <2>1 DEF Scanning
  <2>3. offset' \in 0..geometry.block_size
    BY <1>1, <1>2 DEF Scanning, Mounted
  <2> QED BY <1>1, <2>2, <2>3 DEF Scanning
<1> QED BY <1>3, <1>4 DEF IndInv

LEMMA FindInv ==
  ASSUME IndInv, find_directory_entry
  PROVE  IndInv'
<1> DEFINE e == DirEntryAt(offset)
<1>1. /\ pc = "scan" /\ pc' \in {"block", "scan", "child", "done"}
      /\ \/ UNCHANGED offset
         \/ ~InvalidDirectoryEntry(e, offset) /\ offset' = offset + e.record_length
      /\ pc' = "child" => entry' = e.inode /\ e.inode # 0
      /\ UNCHANGED <<volume, geometry, path, current, remaining, links, inode, purpose, stack,
                     extents, extent, buffer, handle>>
  BY DEF find_directory_entry, diskVars, pathVars, treeVars, Return, IsWanted
<1>2. Mounted /\ Resolving /\ Walking /\ Scanning /\ Copying
  BY DEF IndInv
<1>3. e.inode \in Nat /\ e.record_length \in Nat
  <2>1. e = NoDirEntry \/ \E a \in DOMAIN volume.entries : e = volume.entries[a]
    BY DEF DirEntryAt, At
  <2>2. NoDirEntry.inode = 0 /\ NoDirEntry.record_length = 0
    BY DEF NoDirEntry
  <2> HIDE DEF e
  <2> QED BY <1>2, <2>1, <2>2, VolumeAssumption DEF Mounted
<1>4. ~InvalidDirectoryEntry(e, offset) => ~(offset + e.record_length > geometry.block_size)
  BY DEF InvalidDirectoryEntry
<1> HIDE DEF e
<1>5. Mounted' /\ Walking' /\ Copying'
  BY <1>1, <1>2 DEF Mounted, Walking, Copying
<1>6. Resolving'
  BY <1>1, <1>2, <1>3 DEF Resolving
<1>7. offset' \in 0..geometry.block_size
  BY <1>1, <1>2, <1>3, <1>4 DEF Scanning, Mounted
<1>8. Scanning'
  BY <1>1, <1>2, <1>7 DEF Scanning
<1> QED BY <1>5, <1>6, <1>8 DEF IndInv

\* The text of a fast link.
LEMMA InlineTyped ==
  ASSUME NEW c \in Inodes
  PROVE  InlineText(c) \in Seq(Chars)
<1>1. c.size \in Nat /\ c.text \in Seq(Chars)
  BY InodesTyped
<1>2. ASSUME NEW k \in 1..c.size
      PROVE  (IF k <= Len(c.text) THEN c.text[k] ELSE NUL) \in Chars
  <2>1. CASE k <= Len(c.text)
    <3>1. k \in 1..Len(c.text)
      BY <1>1, <2>1
    <3> QED BY <1>1, <2>1, <3>1
  <2>2. CASE ~(k <= Len(c.text))
    BY <2>2, TextAssumption
  <2> QED BY <2>1, <2>2
<1>3. InlineText(c) \in [1..c.size -> Chars]
  BY <1>2 DEF InlineText
<1>4. ASSUME NEW l \in Nat, NEW f \in [1..l -> Chars] PROVE f \in Seq(Chars)
  OBVIOUS
<1> QED BY <1>1, <1>3, <1>4

LEMMA Zeros ==
  ASSUME NEW n \in Nat
  PROVE  [k \in 1..n |-> ZeroByte] \in Seq(Int) /\ Len([k \in 1..n |-> ZeroByte]) = n
<1>1. [k \in 1..n |-> ZeroByte] \in [1..n -> Int]
  BY DEF ZeroByte
<1>2. ASSUME NEW f \in [1..n -> Int] PROVE f \in Seq(Int) /\ Len(f) = n
  OBVIOUS
<1> QED BY <1>1, <1>2

LEMMA ChildInv ==
  ASSUME IndInv, read_child
  PROVE  IndInv'
<1> DEFINE c == read_inode(entry)
<1>1. pc = "child" /\ UNCHANGED <<volume, geometry, path, extent, block, offset, entry, handle>>
  BY DEF read_child, diskVars, scanVars
<1>2. Mounted /\ Resolving /\ Walking /\ Scanning /\ Copying
  BY DEF IndInv
<1>3. c \in Inodes
  BY <1>2, InodeRead DEF Mounted
<1>4. c.size \in Nat /\ remaining \in Seq(Chars) /\ links \in 0..MaxSymlinkDepth
      /\ entry \in Nat \ {0}
  BY <1>1, <1>2, <1>3, InodesTyped DEF Resolving
<1>5. \/ /\ pc' = "done"
         /\ UNCHANGED <<current, remaining, links, inode, purpose, stack, extents, buffer>>
      \/ /\ pc' = "component" /\ current' = entry /\ remaining' = Rest
         /\ UNCHANGED <<links, inode, purpose, stack, extents, buffer>>
      \/ /\ ~TooManyLinks /\ Expand(InlineText(c))
         /\ UNCHANGED <<inode, purpose, stack, extents, buffer>>
      \/ /\ ~TooManyLinks /\ buffer' = [k \in 1..c.size |-> ZeroByte] /\ Collect(c, "link")
         /\ UNCHANGED <<current, remaining, links>>
  BY DEF read_child, ReadFails, Return, treeVars
<1> HIDE DEF c
<1>6. Len(remaining) \in Nat
  BY <1>4
<1>7. CASE /\ pc' = "done"
           /\ UNCHANGED <<current, remaining, links, inode, purpose, stack, extents, buffer>>
  BY <1>1, <1>2, <1>7 DEF IndInv, Mounted, Resolving, Walking, Scanning, Copying
<1>8. CASE /\ pc' = "component" /\ current' = entry /\ remaining' = Rest
           /\ UNCHANGED <<links, inode, purpose, stack, extents, buffer>>
  <2>1. Rest \in Seq(Chars) /\ Len(Rest) <= Len(remaining) /\ Len(Rest) \in Nat
    BY <1>4, RestFits
  <2>2. Resolving'
    BY <1>2, <1>4, <1>6, <1>8, <2>1, Sizes DEF Resolving
  <2>3. Mounted' /\ Walking' /\ Scanning' /\ Copying'
    BY <1>1, <1>2, <1>8 DEF Mounted, Walking, Scanning, Copying
  <2> QED BY <2>2, <2>3 DEF IndInv
<1>9. CASE /\ ~TooManyLinks /\ Expand(InlineText(c))
           /\ UNCHANGED <<inode, purpose, stack, extents, buffer>>
  <2>1. InlineText(c) \in Seq(Chars)
    BY <1>3, InlineTyped
  <2>2. \/ pc' = "done" /\ UNCHANGED <<current, remaining, links>>
        \/ /\ pc' = "component" /\ links' = links + 1
           /\ current' \in {RootInode, current}
           /\ remaining' \in Seq(Chars) /\ Len(remaining') <= PathBytes
    BY <1>4, <1>9, <2>1, ExpandSteps
  <2>3. links + 1 \in 0..MaxSymlinkDepth
    BY <1>4, <1>9, Sizes DEF TooManyLinks
  <2>4. Resolving'
    BY <1>2, <2>2, <2>3 DEF Resolving, RootInode
  <2>5. Mounted' /\ Walking' /\ Scanning' /\ Copying'
    BY <1>1, <1>2, <1>9, <2>2 DEF Mounted, Walking, Scanning, Copying
  <2> QED BY <2>4, <2>5 DEF IndInv
<1>10. CASE /\ ~TooManyLinks /\ buffer' = [k \in 1..c.size |-> ZeroByte] /\ Collect(c, "link")
            /\ UNCHANGED <<current, remaining, links>>
  <2>1. \/ pc' = "done" /\ UNCHANGED <<inode, purpose, stack, extents>>
        \/ /\ pc' = "collect" /\ inode' = c /\ purpose' = "link"
           /\ stack' \in Seq(Frames) /\ extents' \in Seq(Extents) /\ Len(extents') <= MaxExtents
    BY <1>2, <1>3, <1>10, CollectSteps
  <2>2. buffer' \in Seq(Int) /\ Len(buffer') = c.size
    BY <1>4, <1>10, Zeros
  <2>3. Mounted' /\ Resolving' /\ Scanning'
    BY <1>1, <1>2, <1>10, <2>1 DEF Mounted, Resolving, Scanning
  <2>4. links' < MaxSymlinkDepth
    BY <1>4, <1>10, Sizes DEF TooManyLinks
  <2>5. Walking'
    BY <1>2, <1>3, <2>1, <2>4 DEF Walking
  <2>6. Copying'
    BY <2>1, <2>2 DEF Copying
  <2> QED BY <2>3, <2>5, <2>6 DEF IndInv
<1> QED BY <1>5, <1>7, <1>8, <1>9, <1>10

LEMMA LoadInv ==
  ASSUME IndInv, load_into_allocated_pages
  PROVE  IndInv'
<1>1. /\ pc = "opened"
      /\ UNCHANGED <<volume, geometry, path, current, remaining, links, extent, block, offset,
                     entry, handle>>
      /\ \/ pc' = "done" /\ UNCHANGED <<inode, purpose, stack, extents, buffer>>
         \/ /\ buffer' = [k \in 1..inode.size |-> ZeroByte]
            /\ \/ pc' = "done" /\ UNCHANGED <<inode, purpose, stack, extents>>
               \/ Collect(inode, "file")
  BY DEF load_into_allocated_pages, diskVars, pathVars, scanVars, treeVars, Return
<1>2. Mounted /\ Resolving /\ Walking /\ Scanning /\ Copying
  BY DEF IndInv
<1>3. CASE pc' = "done" /\ UNCHANGED <<inode, purpose, stack, extents, buffer>>
  BY <1>1, <1>2, <1>3 DEF IndInv, Mounted, Resolving, Walking, Scanning, Copying
<1>4. CASE /\ buffer' = [k \in 1..inode.size |-> ZeroByte]
           /\ \/ pc' = "done" /\ UNCHANGED <<inode, purpose, stack, extents>>
              \/ Collect(inode, "file")
  <2>1. inode \in Inodes /\ inode.size \in Nat
    BY <1>2, InodesTyped DEF Walking
  <2>2. \/ pc' = "done" /\ UNCHANGED <<inode, purpose, stack, extents>>
        \/ /\ pc' = "collect" /\ inode' = inode /\ purpose' = "file"
           /\ stack' \in Seq(Frames) /\ extents' \in Seq(Extents) /\ Len(extents') <= MaxExtents
    BY <1>2, <1>4, <2>1, CollectSteps
  <2>3. buffer' \in Seq(Int) /\ Len(buffer') = inode.size
    BY <1>4, <2>1, Zeros
  <2>4. Mounted' /\ Resolving' /\ Scanning'
    BY <1>1, <1>2, <2>2 DEF Mounted, Resolving, Scanning
  <2>5. Walking'
    BY <1>2, <2>1, <2>2 DEF Walking
  <2>6. Copying'
    BY <2>2, <2>3 DEF Copying
  <2> QED BY <2>4, <2>5, <2>6 DEF IndInv
<1> QED BY <1>1, <1>3, <1>4

\* What one extent adds lies inside the buffer: extent_bytes is cut off at the
\* size of the file.
LEMMA FilledFits ==
  ASSUME IndInv, pc = "copy", ~CopyDone
  PROVE  Filled \in Seq(Int) /\ Len(Filled) = inode.size /\ extent \in 1..Len(extents)
<1> DEFINE x == extents[extent]
           size == geometry.block_size
           count == x.block_count
           whole == count * size
           from == file_offset
           bytes == extent_bytes
<1>1. Mounted /\ Walking /\ Scanning /\ Copying
  BY DEF IndInv
<1>2. extent \in 1..Len(extents) /\ ~(from >= inode.size)
  <2>1. Len(extents) \in Nat /\ extent \in 1..(Len(extents) + 1)
    BY <1>1 DEF Walking, Scanning
  <2>2. extent <= Len(extents) /\ ~(from >= inode.size)
    BY DEF CopyDone
  <2> QED BY <2>1, <2>2
<1>3. x \in Extents
  BY <1>1, <1>2 DEF Walking
<1>4. /\ x.logical_block \in Nat /\ count \in Nat /\ x.physical_block \in Nat
      /\ size \in Nat \ {0} /\ inode.size \in Nat
      /\ geometry.sectors_per_block \in Nat /\ volume.partition_start_lba \in Nat
      /\ buffer \in Seq(Int) /\ Len(buffer) = inode.size
  <2>1. volume \in Volumes /\ inode \in Inodes
    BY <1>1 DEF Mounted, Walking
  <2>2. volume.partition_start_lba \in Nat /\ inode.size \in Nat
    BY <2>1, VolumeAssumption, InodesTyped
  <2>3. x.logical_block \in Nat /\ count \in Nat /\ x.physical_block \in Nat
    BY <1>3 DEF Extents
  <2> QED BY <1>1, <2>2, <2>3 DEF Mounted, Copying
<1>5. from \in Nat /\ from = x.logical_block * size
  <2>1. from = x.logical_block * size
    BY DEF file_offset
  <2> HIDE DEF from
  <2> QED BY <1>4, <2>1
<1>6. whole \in Nat
  BY <1>4
<1>7. bytes = IF inode.size - from < whole THEN inode.size - from ELSE whole
  BY DEF extent_bytes, Min
<1> HIDE DEF whole, from, bytes
<1>8. bytes \in Nat /\ from + bytes <= inode.size
  BY <1>2, <1>4, <1>5, <1>6, <1>7, SMTT(30)
<1>9. bytes \div size \in Nat /\ full_bytes \in Int
  <2>1. ASSUME NEW a \in Nat, NEW b \in Nat \ {0} PROVE a \div b \in Nat
    BY <2>1
  <2>2. bytes \div size \in Nat
    BY <1>4, <1>8, <2>1
  <2>3. full_bytes = (bytes \div size) * size
    BY DEF full_bytes, bytes
  <2> DEFINE d == bytes \div size
  <2> HIDE DEF d
  <2>4. d * size \in Int
    BY <1>4, <2>2 DEF d
  <2> QED BY <2>2, <2>3, <2>4 DEF d
<1>10. ASSUME NEW b \in Nat PROVE BlockAddress(b) \in Int
  <2>1. b * geometry.sectors_per_block \in Nat
    BY <1>4
  <2>2. volume.partition_start_lba + b * geometry.sectors_per_block \in Nat
    BY <1>4, <2>1
  <2> QED BY <2>2, Sizes DEF BlockAddress, block_to_lba
<1>11. tail_block \in Nat
  <2>1. tail_block = x.physical_block + bytes \div size
    BY DEF tail_block, bytes
  <2> QED BY <1>4, <1>9, <2>1
<1>12. ASSUME NEW k \in Int PROVE ExtentByte(k) \in Int
  <2>1. BlockAddress(x.physical_block) \in Int /\ BlockAddress(tail_block) \in Int
    BY <1>4, <1>10, <1>11
  <2> QED BY <1>9, <2>1 DEF ExtentByte
<1>13. Filled = [k \in 1..inode.size |->
                  IF k - 1 \in from..(from + bytes - 1) THEN ExtentByte(k - 1 - from) ELSE buffer[k]]
  <2>1. (IF from + bytes > Len(buffer) THEN from + bytes ELSE Len(buffer)) = inode.size
    BY <1>4, <1>5, <1>8
  <2> QED BY <2>1, Zenon DEF Filled, from, bytes
<1>14. Filled \in [1..inode.size -> Int]
  <2>1. ASSUME NEW k \in 1..inode.size
        PROVE  (IF k - 1 \in from..(from + bytes - 1) THEN ExtentByte(k - 1 - from) ELSE buffer[k])
                 \in Int
    <3>1. k - 1 - from \in Int /\ buffer[k] \in Int
      BY <1>4, <1>5
    <3> QED BY <1>12, <3>1
  <2> QED BY <1>13, <2>1
<1>15. ASSUME NEW l \in Nat, NEW f \in [1..l -> Int] PROVE f \in Seq(Int) /\ Len(f) = l
  OBVIOUS
<1> QED BY <1>2, <1>4, <1>14, <1>15

LEMMA TextTyped ==
  ASSUME volume \in Volumes, NEW b \in Seq(Int)
  PROVE  TextOf(b) \in Seq(Chars)
<1>1. Len(b) \in Nat /\ DOMAIN b = 1..Len(b)
  OBVIOUS
<1>2. ASSUME NEW k \in DOMAIN b
      PROVE  (IF b[k] = ZeroByte THEN NUL ELSE At(volume.text, b[k], NUL)) \in Chars
  BY TextAssumption, VolumeAssumption DEF At
<1>3. TextOf(b) \in [1..Len(b) -> Chars]
  BY <1>1, <1>2 DEF TextOf
<1>4. ASSUME NEW l \in Nat, NEW f \in [1..l -> Chars] PROVE f \in Seq(Chars)
  OBVIOUS
<1> QED BY <1>1, <1>3, <1>4

LEMMA ContentsInv ==
  ASSUME IndInv, read_inode_contents
  PROVE  IndInv'
<1>1. /\ pc = "copy"
      /\ UNCHANGED <<volume, geometry, path, inode, purpose, stack, extents, block, offset, entry,
                     handle>>
      /\ \/ pc' = "done" /\ UNCHANGED <<current, remaining, links, extent, buffer>>
         \/ purpose = "link" /\ Expand(TextOf(buffer)) /\ buffer' = <<>> /\ UNCHANGED extent
         \/ /\ ~CopyDone /\ buffer' = Filled /\ extent' = extent + 1
            /\ UNCHANGED <<pc, current, remaining, links>>
  BY DEF read_inode_contents, diskVars, treeVars, Return, ReadFails
<1>2. Mounted /\ Resolving /\ Walking /\ Scanning /\ Copying
  BY DEF IndInv
<1>3. CASE pc' = "done" /\ UNCHANGED <<current, remaining, links, extent, buffer>>
  BY <1>1, <1>2, <1>3 DEF IndInv, Mounted, Resolving, Walking, Scanning, Copying
<1>4. CASE purpose = "link" /\ Expand(TextOf(buffer)) /\ buffer' = <<>> /\ UNCHANGED extent
  <2>1. TextOf(buffer) \in Seq(Chars) /\ remaining \in Seq(Chars)
    BY <1>2, TextTyped DEF Mounted, Copying, Resolving
  <2>2. \/ pc' = "done" /\ UNCHANGED <<current, remaining, links>>
        \/ /\ pc' = "component" /\ links' = links + 1
           /\ current' \in {RootInode, current}
           /\ remaining' \in Seq(Chars) /\ Len(remaining') <= PathBytes
    BY <1>4, <2>1, ExpandSteps
  <2>3. links + 1 \in 0..MaxSymlinkDepth
    BY <1>1, <1>2, <1>4, Sizes DEF Resolving, Walking
  <2>4. Resolving'
    BY <1>2, <2>2, <2>3 DEF Resolving, RootInode
  <2>5. <<>> \in Seq(Int)
    OBVIOUS
  <2>6. Mounted' /\ Walking' /\ Scanning' /\ Copying'
    BY <1>1, <1>2, <1>4, <2>2, <2>5 DEF Mounted, Walking, Scanning, Copying
  <2> QED BY <2>4, <2>6 DEF IndInv
<1>5. CASE /\ ~CopyDone /\ buffer' = Filled /\ extent' = extent + 1
           /\ UNCHANGED <<pc, current, remaining, links>>
  <2>1. Filled \in Seq(Int) /\ Len(Filled) = inode.size /\ extent \in 1..Len(extents)
    BY <1>1, <1>5, FilledFits
  <2>2. Mounted' /\ Resolving' /\ Walking'
    BY <1>1, <1>2, <1>5 DEF Mounted, Resolving, Walking
  <2>3. Len(extents) \in Nat
    BY <1>2 DEF Walking
  <2>4. extent' \in 1..(Len(extents) + 1)
    BY <1>5, <2>1, <2>3
  <2>5. Scanning'
    BY <1>1, <1>2, <1>5, <2>4 DEF Scanning
  <2>6. Copying'
    BY <1>1, <1>5, <2>1 DEF Copying
  <2> QED BY <2>2, <2>5, <2>6 DEF IndInv
<1> QED BY <1>1, <1>3, <1>4, <1>5

-----------------------------------------------------------------------------
LEMMA NextInv == IndInv /\ [Next]_vars => IndInv'
<1> SUFFICES ASSUME IndInv, [Next]_vars PROVE IndInv'
  OBVIOUS
<1>1. CASE UNCHANGED vars
  BY <1>1 DEF vars, diskVars, pathVars, treeVars, scanVars, IndInv, Mounted, Resolving, Walking,
       Scanning, Copying
<1>2. CASE Next
  BY <1>1, <1>2, NewInv, OpenInv, ResolveInv, CollectNodeInv, CollectedInv, BlockInv, FindInv,
     ChildInv, LoadInv, ContentsInv DEF Next, Step, Unmounted
<1> QED BY <1>1, <1>2

LEMMA Always == Spec => []IndInv
  BY InitInv, NextInv, PTL DEF Spec

\* Whatever the disk holds, the extent array, the path buffer and the buffer
\* of a file are never filled beyond their size, the cursors stay inside what
\* they walk over, and no path follows more links than the code allows.
THEOREM Ext4TypeCorrect == Spec => []TypeOK
<1>1. IndInv => TypeOK
  BY DEF IndInv, Mounted, Resolving, Walking, Scanning, Copying, TypeOK
<1> QED BY <1>1, Always, PTL

-----------------------------------------------------------------------------
(* Recursive definitions have solutions. *)

\* In D a recursion has the result R, elsewhere G of what it has at N.
Value(f, D, N, R, G, x) == IF x \in D THEN R[x] ELSE G[<<x, f[N[x]]>>]

\* Outside D, N leads to where the measure mu is smaller.
Ranked(X, D, N, mu) ==
  /\ \A x \in X : mu[x] \in Nat
  /\ \A x \in X : x \notin D => N[x] \in X /\ mu[N[x]] < mu[x]

\* f is a solution wherever the measure is below n.
SolvedUpto(f, X, D, N, R, G, mu, n) ==
  \A x \in X : mu[x] < n => f[x] = Value(f, D, N, R, G, x)

LEMMA SolutionUpto ==
  ASSUME NEW X, NEW D, NEW N, NEW R, NEW G, NEW mu, Ranked(X, D, N, mu), NEW n \in Nat
  PROVE  \E f : SolvedUpto(f, X, D, N, R, G, mu, n)
<1> DEFINE T == {m \in Nat : ~\E f : SolvedUpto(f, X, D, N, R, G, mu, m)}
<1>1. \A x \in X : mu[x] \in Nat
  BY DEF Ranked
<1>2. \A x \in X : x \notin D => N[x] \in X /\ mu[N[x]] < mu[x]
  BY DEF Ranked
<1>3. T = {}
  <2> SUFFICES ASSUME T # {} PROVE FALSE
    OBVIOUS
  <2>1. PICK m \in T : \A y \in T : m <= y
    BY LeastNumber
  <2>2. m \in Nat /\ ~\E f : SolvedUpto(f, X, D, N, R, G, mu, m)
    OBVIOUS
  <2>3. m # 0
    <3>1. SolvedUpto(0, X, D, N, R, G, mu, 0)
      BY <1>1 DEF SolvedUpto
    <3> QED BY <2>2, <3>1
  <2>4. m - 1 \in Nat /\ m - 1 \notin T
    BY <2>1, <2>2, <2>3
  <2>5. PICK f : SolvedUpto(f, X, D, N, R, G, mu, m - 1)
    BY <2>4
  <2> DEFINE h == [x \in X |-> Value(f, D, N, R, G, x)]
  <2>6. ASSUME NEW x \in X, mu[x] < m - 1 PROVE h[x] = f[x]
    BY <2>5, <2>6 DEF SolvedUpto
  <2>7. ASSUME NEW x \in X, mu[x] < m PROVE h[x] = Value(h, D, N, R, G, x)
    <3>1. h[x] = Value(f, D, N, R, G, x)
      OBVIOUS
    <3>2. x \notin D => h[N[x]] = f[N[x]]
      <4>1. x \notin D => N[x] \in X /\ mu[N[x]] < m - 1
        BY <1>1, <1>2, <2>2, <2>7
      <4> HIDE DEF h
      <4> QED BY <2>6, <4>1
    <3> HIDE DEF h
    <3> QED BY <3>1, <3>2 DEF Value
  <2>8. SolvedUpto(h, X, D, N, R, G, mu, m)
    <3> HIDE DEF h
    <3> QED BY <2>7 DEF SolvedUpto
  <2> QED BY <2>2, <2>8
<1> QED BY <1>3

LEMMA SolutionsAgree ==
  ASSUME NEW X, NEW D, NEW N, NEW R, NEW G, NEW mu, Ranked(X, D, N, mu), NEW n \in Nat,
         NEW f, NEW h, SolvedUpto(f, X, D, N, R, G, mu, n), SolvedUpto(h, X, D, N, R, G, mu, n),
         NEW x \in X, mu[x] < n
  PROVE  f[x] = h[x]
<1> DEFINE W == {y \in X : mu[y] < n /\ f[y] # h[y]}
           T == {mu[y] : y \in W}
<1>1. \A y \in X : mu[y] \in Nat
  BY DEF Ranked
<1>2. \A y \in X : y \notin D => N[y] \in X /\ mu[N[y]] < mu[y]
  BY DEF Ranked
<1> SUFFICES ASSUME f[x] # h[x] PROVE FALSE
  OBVIOUS
<1>3. T \subseteq Nat /\ T # {}
  BY <1>1
<1>4. PICK m \in T : \A z \in T : m <= z
  BY <1>3, LeastNumber
<1>5. PICK y \in W : m = mu[y]
  BY <1>4
<1>6. y \notin D /\ f[N[y]] # h[N[y]]
  BY <1>5 DEF SolvedUpto, Value
<1>7. N[y] \in W
  BY <1>1, <1>2, <1>5, <1>6
<1>8. mu[N[y]] \in T /\ mu[N[y]] < m
  BY <1>2, <1>5, <1>6, <1>7
<1> QED BY <1>1, <1>3, <1>4, <1>5, <1>8

\* So there is a solution.
Solves(f, X, D, N, R, G) == f = [x \in X |-> Value(f, D, N, R, G, x)]

LEMMA RecursionExists ==
  ASSUME NEW X, NEW D, NEW N, NEW R, NEW G, NEW mu, Ranked(X, D, N, mu)
  PROVE  \E f : Solves(f, X, D, N, R, G)
<1> DEFINE at(x) == CHOOSE f : SolvedUpto(f, X, D, N, R, G, mu, mu[x] + 1)
           F == [x \in X |-> at(x)[x]]
<1>1. \A x \in X : mu[x] \in Nat
  BY DEF Ranked
<1>2. \A x \in X : x \notin D => N[x] \in X /\ mu[N[x]] < mu[x]
  BY DEF Ranked
<1>3. ASSUME NEW x \in X PROVE SolvedUpto(at(x), X, D, N, R, G, mu, mu[x] + 1)
  <2>1. mu[x] + 1 \in Nat
    BY <1>1
  <2>2. \E f : SolvedUpto(f, X, D, N, R, G, mu, mu[x] + 1)
    BY <2>1, SolutionUpto
  <2> QED BY <2>2
<1>4. ASSUME NEW x \in X PROVE F[x] = Value(F, D, N, R, G, x)
  <2>1. F[x] = at(x)[x]
    OBVIOUS
  <2>2. at(x)[x] = Value(at(x), D, N, R, G, x)
    BY <1>1, <1>3 DEF SolvedUpto
  <2>3. x \notin D => at(x)[N[x]] = F[N[x]]
    <3> SUFFICES ASSUME x \notin D PROVE at(x)[N[x]] = F[N[x]]
      OBVIOUS
    <3> DEFINE y == N[x]
    <3>1. y \in X /\ mu[y] < mu[x] /\ mu[y] \in Nat /\ mu[x] \in Nat
      BY <1>1, <1>2
    <3> HIDE DEF y
    <3>2. mu[y] + 1 \in Nat /\ mu[y] < mu[y] + 1
      BY <3>1
    <3>3. SolvedUpto(at(y), X, D, N, R, G, mu, mu[y] + 1)
      BY <1>3, <3>1
    <3>4. SolvedUpto(at(x), X, D, N, R, G, mu, mu[y] + 1)
      <4>1. SolvedUpto(at(x), X, D, N, R, G, mu, mu[x] + 1)
        BY <1>3
      <4>2. ASSUME NEW z \in X, mu[z] < mu[y] + 1 PROVE mu[z] < mu[x] + 1
        BY <1>1, <3>1, <4>2
      <4> HIDE DEF at
      <4> QED BY <4>1, <4>2 DEF SolvedUpto
    <3>5. at(x)[y] = at(y)[y]
      <4> HIDE DEF at, F
      <4>1. Ranked(X, D, N, mu)
        OBVIOUS
      <4>2. ASSUME NEW a, NEW b, NEW m \in Nat, mu[y] < m, SolvedUpto(a, X, D, N, R, G, mu, m),
                   SolvedUpto(b, X, D, N, R, G, mu, m)
            PROVE  a[y] = b[y]
        BY <3>1, <4>1, <4>2, SolutionsAgree
      <4> QED BY <3>2, <3>3, <3>4, <4>2
    <3>6. F[y] = at(y)[y]
      BY <3>1
    <3> HIDE DEF F, at
    <3> QED BY <3>5, <3>6 DEF y
  <2> HIDE DEF F, at
  <2> QED BY <2>1, <2>2, <2>3 DEF Value
<1>5. F = [x \in X |-> F[x]]
  OBVIOUS
<1> HIDE DEF F
<1>6. F = [x \in X |-> Value(F, D, N, R, G, x)]
  BY <1>4, <1>5
<1> QED BY <1>6 DEF Solves

\* Where the values of a recursion are.
LEMMA RecursionTyped ==
  ASSUME NEW X, NEW S, NEW D, NEW N, NEW R, NEW G, NEW mu, Ranked(X, D, N, mu),
         \A x \in X : x \in D => R[x] \in S,
         \A x \in X, s \in S : x \notin D => G[<<x, s>>] \in S
  PROVE  \E f : Solves(f, X, D, N, R, G) /\ \A x \in X : f[x] \in S
<1>1. PICK f : Solves(f, X, D, N, R, G)
  BY RecursionExists
<1>2. \A x \in X : f[x] = Value(f, D, N, R, G, x)
  BY <1>1 DEF Solves
<1>3. \A x \in X : mu[x] \in Nat
  BY DEF Ranked
<1>4. \A x \in X : x \notin D => N[x] \in X /\ mu[N[x]] < mu[x]
  BY DEF Ranked
<1>5. \A x \in X : f[x] \in S
  <2> DEFINE W == {x \in X : f[x] \notin S}
             T == {mu[x] : x \in W}
  <2> SUFFICES ASSUME W # {} PROVE FALSE
    OBVIOUS
  <2>1. T \subseteq Nat /\ T # {}
    BY <1>3
  <2>2. PICK m \in T : \A y \in T : m <= y
    BY <2>1, LeastNumber
  <2>3. PICK x \in W : m = mu[x]
    BY <2>2
  <2>4. x \in X /\ x \notin D
    BY <1>2, <2>3 DEF Value
  <2>5. N[x] \in X /\ mu[N[x]] < mu[x] /\ mu[N[x]] \in Nat /\ mu[x] \in Nat
    BY <1>3, <1>4, <2>4
  <2>6. f[N[x]] \in S
    <3> SUFFICES ASSUME f[N[x]] \notin S PROVE FALSE
      OBVIOUS
    <3>1. mu[N[x]] \in T
      BY <2>5
    <3> QED BY <2>2, <2>3, <2>5, <3>1
  <2>7. f[x] \in S
    BY <1>2, <2>4, <2>6 DEF Value
  <2> QED BY <2>3, <2>7
<1> QED BY <1>1, <1>5

-----------------------------------------------------------------------------
(* Two sequences in one. *)

Glue(a, b) == a \o b

Joins(s, a, b) ==
  /\ Len(s) = Len(a) + Len(b)
  /\ \A k \in 1..Len(a) : s[k] = a[k]
  /\ \A k \in 1..Len(b) : s[Len(a) + k] = b[k]

LEMMA GlueIs ==
  ASSUME NEW S, NEW a \in Seq(S), NEW b \in Seq(S)
  PROVE  Glue(a, b) \in Seq(S) /\ Joins(Glue(a, b), a, b)
<1> DEFINE ab == Glue(a, b)
<1>1. /\ ab \in Seq(S) /\ Len(ab) = Len(a) + Len(b)
      /\ \A i \in 1..(Len(a) + Len(b)) : ab[i] = IF i <= Len(a) THEN a[i] ELSE b[i - Len(a)]
  BY ConcatProperties, Zenon DEF Glue
<1>2. Len(a) \in Nat /\ Len(b) \in Nat
  BY LenProperties, Zenon
<1> HIDE DEF ab
<1>3. ASSUME NEW k \in 1..Len(a) PROVE ab[k] = a[k]
  <2>1. k \in 1..(Len(a) + Len(b)) /\ k <= Len(a)
    BY <1>2
  <2> QED BY <1>1, <2>1
<1>4. ASSUME NEW k \in 1..Len(b) PROVE ab[Len(a) + k] = b[k]
  <2> DEFINE la == Len(a)
             lb == Len(b)
  <2>1. la + k \in 1..(la + lb) /\ ~(la + k <= la) /\ la + k - la = k
    <3> HIDE DEF la, lb
    <3>1. la \in Nat /\ lb \in Nat /\ k \in 1..lb
      BY <1>2 DEF la, lb
    <3> QED BY <3>1
  <2> QED BY <1>1, <2>1, SMTT(30)
<1> QED BY <1>1, <1>3, <1>4 DEF Joins, ab

LEMMA SameText ==
  ASSUME NEW S, NEW a \in Seq(S), NEW b \in Seq(S), Len(a) = Len(b),
         \A k \in 1..Len(a) : a[k] = b[k]
  PROVE  a = b
  BY SeqEqual, Zenon

-----------------------------------------------------------------------------
(* Numbers. *)

LEMMA Division ==
  ASSUME NEW a \in Nat, NEW b \in Nat \ {0}
  PROVE  /\ a \div b \in Nat /\ a % b \in Nat /\ a % b < b
         /\ a = (a \div b) * b + (a % b)
  OBVIOUS

LEMMA Product ==
  ASSUME NEW a \in Nat, NEW b \in Nat
  PROVE  a * b \in Nat
  OBVIOUS

-----------------------------------------------------------------------------
(* What a mounted volume is read with. *)

Mountable(v) == v \in Volumes /\ MountError(v.superblock) = "none"

LEMMA MountableTyped ==
  ASSUME NEW v, Mountable(v)
  PROVE  /\ BlockSize(v.superblock) \in Nat \ {0}
         /\ BlockSize(v.superblock) % SectorSize = 0
         /\ v.superblock.inode_size \in Nat \ {0}
         /\ v.superblock.inodes_per_group \in Nat \ {0}
         /\ DescriptorSize(v.superblock) \in Nat \ {0}
         /\ v.partition_start_lba \in Nat
<1> DEFINE b == v.superblock
           s == BlockSize(b)
<1>1. v \in Volumes
  BY DEF Mountable
<1>2. s \in Nat
  BY <1>1, BlockSizeTyped
<1>3. b.inode_size \in Nat /\ b.inodes_per_group \in Nat /\ v.partition_start_lba \in Nat
  BY <1>1, VolumeAssumption
<1>4. /\ ~(s < SectorSize) /\ s % SectorSize = 0
      /\ b.inode_size # 0 /\ b.inodes_per_group # 0
      /\ DescriptorSize(b) \in {SmallDescriptor, LargeDescriptor}
  BY DEF Mountable, MountError
<1> HIDE DEF s, b
<1>5. s # 0
  BY <1>2, <1>4, Sizes
<1>6. DescriptorSize(b) \in Nat \ {0}
  BY <1>4, SizeAssumption
<1> QED BY <1>2, <1>3, <1>4, <1>5, <1>6 DEF s, b

LEMMA SectorsOfBlock ==
  ASSUME NEW v, Mountable(v)
  PROVE  /\ BlockSize(v.superblock) \div SectorSize \in Nat
         /\ (BlockSize(v.superblock) \div SectorSize) * SectorSize = BlockSize(v.superblock)
<1> DEFINE s == BlockSize(v.superblock)
<1>1. s \in Nat \ {0} /\ s % SectorSize = 0 /\ SectorSize \in Nat \ {0}
  BY MountableTyped, Sizes
<1> HIDE DEF s
<1>2. s \div SectorSize \in Nat /\ s = (s \div SectorSize) * SectorSize + (s % SectorSize)
  BY <1>1, Division, Zenon
<1>3. ASSUME NEW q \in Nat, NEW x \in Nat, NEW y \in Nat, x = q * y + 0 PROVE q * y = x
  BY <1>3
<1>4. (s \div SectorSize) * SectorSize = s
  BY <1>1, <1>2, <1>3
<1> QED BY <1>2, <1>4 DEF s

Placed == geometry = Geometry(volume.superblock) /\ Mountable(volume)

LEMMA PlacedFields ==
  ASSUME Placed
  PROVE  /\ geometry.block_size = BlockSize(volume.superblock)
         /\ geometry.sectors_per_block = BlockSize(volume.superblock) \div SectorSize
         /\ geometry.inodes_per_group = volume.superblock.inodes_per_group
         /\ geometry.inode_size = volume.superblock.inode_size
         /\ geometry.group_descriptor_size = DescriptorSize(volume.superblock)
         /\ geometry.group_descriptor_table_block =
              IF BlockSize(volume.superblock) = MinBlockSize THEN 2 ELSE 1
  BY DEF Placed, Geometry

LEMMA BlockPlace ==
  ASSUME Placed, NEW b \in Int
  PROVE  BlockAddress(b) = PlaceOf(volume, b)
<1> DEFINE s == BlockSize(volume.superblock)
           q == s \div SectorSize
           p == volume.partition_start_lba
<1>1. /\ s \in Nat \ {0} /\ p \in Nat /\ q \in Nat /\ q * SectorSize = s /\ SectorSize \in Nat
      /\ geometry.sectors_per_block = q
  BY MountableTyped, SectorsOfBlock, PlacedFields, Sizes DEF Placed
<1> HIDE DEF s, q, p
<1>2. ASSUME NEW x \in Nat, NEW y \in Nat, NEW z \in Nat
      PROVE  (x + b * y) * z = x * z + b * (y * z)
  OBVIOUS
<1>3. (p + b * q) * SectorSize = p * SectorSize + b * s
  BY <1>1, <1>2
<1> QED BY <1>1, <1>3 DEF BlockAddress, block_to_lba, PlaceOf, p, s

\* One turn of the loop of read_device_bytes, as addresses.
InSector(o, c) == (o + c) % SectorSize
TakenAt(o, l, c) == Min(l - c, SectorSize - InSector(o, c))
SectorAt(o, c) == (volume.partition_start_lba + (o + c) \div SectorSize) * SectorSize
Piece(o, l, c) ==
  [k \in 1..TakenAt(o, l, c) |-> SectorAt(o, c) + InSector(o, c) + k - 1]

IsFrom(f, o, l) ==
  f = [c \in 0..l |->
        IF c = l THEN <<>> ELSE Glue(Piece(o, l, c), f[c + TakenAt(o, l, c)])]

\* The turn reads what is at the offset it has come to.
LEMMA PieceIs ==
  ASSUME volume.partition_start_lba \in Nat, NEW o \in Nat, NEW l \in Nat, NEW c \in 0..l, c # l
  PROVE  /\ TakenAt(o, l, c) \in 1..(l - c)
         /\ SectorAt(o, c) + InSector(o, c) =
              volume.partition_start_lba * SectorSize + o + c
         /\ SectorAt(o, c) + InSector(o, c) \in Int
<1> DEFINE p == volume.partition_start_lba
           d == (o + c) \div SectorSize
           r == (o + c) % SectorSize
<1>1. o + c \in Nat /\ SectorSize \in Nat \ {0} /\ p \in Nat
  BY Sizes
<1>2. d \in Nat /\ r \in Nat /\ r < SectorSize /\ o + c = d * SectorSize + r
  BY <1>1, Division, Zenon
<1>3. TakenAt(o, l, c) = IF l - c < SectorSize - r THEN l - c ELSE SectorSize - r
  BY DEF TakenAt, Min, InSector
<1>4. SectorAt(o, c) = (p + d) * SectorSize /\ InSector(o, c) = r
  BY DEF SectorAt, InSector
<1> HIDE DEF p, d, r
<1>5. TakenAt(o, l, c) \in 1..(l - c)
  BY <1>1, <1>2, <1>3
<1>6. (p + d) * SectorSize = p * SectorSize + d * SectorSize
  BY <1>1, <1>2
<1>7. p * SectorSize \in Nat /\ d * SectorSize \in Nat
  BY <1>1, <1>2
<1>8. ASSUME NEW x \in Nat, NEW y \in Nat, o + c = y + r PROVE x + y + r = x + o + c /\ x + y + r \in Int
  BY <1>2, <1>8
<1>9. p * SectorSize + d * SectorSize + r = p * SectorSize + o + c
      /\ p * SectorSize + d * SectorSize + r \in Int
  BY <1>2, <1>7, <1>8
<1> QED BY <1>4, <1>5, <1>6, <1>9 DEF p

LEMMA PieceTyped ==
  ASSUME volume.partition_start_lba \in Nat, NEW o \in Nat, NEW l \in Nat, NEW c \in 0..l, c # l
  PROVE  /\ Piece(o, l, c) \in Seq(Int) /\ Len(Piece(o, l, c)) = TakenAt(o, l, c)
         /\ \A k \in 1..TakenAt(o, l, c) :
              Piece(o, l, c)[k] = volume.partition_start_lba * SectorSize + o + c + k - 1
<1> DEFINE t == TakenAt(o, l, c)
           a == SectorAt(o, c) + InSector(o, c)
<1>1. t \in Nat /\ a \in Int /\ a = volume.partition_start_lba * SectorSize + o + c
  <2>1. t \in 1..(l - c) /\ a \in Int /\ a = volume.partition_start_lba * SectorSize + o + c
    BY PieceIs
  <2> HIDE DEF t, a
  <2> QED BY <2>1
<1>2. Piece(o, l, c) = [k \in 1..t |-> a + k - 1]
  BY Zenon DEF Piece
<1> HIDE DEF t, a
<1>3. \A k \in 1..t : a + k - 1 \in Int
  BY <1>1
<1>4. Piece(o, l, c) \in [1..t -> Int]
  BY <1>2, <1>3
<1>5. ASSUME NEW n \in Nat, NEW f \in [1..n -> Int] PROVE f \in Seq(Int) /\ Len(f) = n
  OBVIOUS
<1>6. Piece(o, l, c) \in Seq(Int) /\ Len(Piece(o, l, c)) = t
  BY <1>1, <1>4, <1>5
<1> QED BY <1>1, <1>2, <1>6 DEF t

LEMMA FromExists ==
  ASSUME volume.partition_start_lba \in Nat, NEW o \in Nat, NEW l \in Nat
  PROVE  \E f : IsFrom(f, o, l) /\ \A c \in 0..l : f[c] \in Seq(Int)
<1> DEFINE X == 0..l
           S == Seq(Int)
           D == {l}
           N == [c \in X |-> c + TakenAt(o, l, c)]
           R == [c \in X |-> <<>>]
           G == [z \in X \X S |-> Glue(Piece(o, l, z[1]), z[2])]
           mu == [c \in X |-> l - c]
<1>1. Ranked(X, D, N, mu)
  <2>1. \A c \in X : mu[c] \in Nat
    OBVIOUS
  <2>2. ASSUME NEW c \in X, c \notin D PROVE N[c] \in X /\ mu[N[c]] < mu[c]
    <3> DEFINE t == TakenAt(o, l, c)
    <3>1. t \in 1..(l - c)
      BY <2>2, PieceIs
    <3>2. N[c] = c + t
      OBVIOUS
    <3> HIDE DEF t, N
    <3>3. c + t \in X /\ l - (c + t) < l - c
      BY <3>1
    <3> QED BY <3>2, <3>3
  <2> HIDE DEF D, N, mu, X
  <2> QED BY <2>1, <2>2 DEF Ranked
<1>2. \A c \in X : c \in D => R[c] \in S
  OBVIOUS
<1>3. ASSUME NEW c \in X, NEW s \in S, c \notin D PROVE G[<<c, s>>] \in S
  <2>1. Piece(o, l, c) \in Seq(Int)
    BY <1>3, PieceTyped
  <2>2. Glue(Piece(o, l, c), s) \in S
    BY <2>1, GlueIs
  <2>3. G[<<c, s>>] = Glue(Piece(o, l, c), s)
    OBVIOUS
  <2> QED BY <2>2, <2>3
<1>4. ASSUME NEW c \in X, NEW s \in S PROVE G[<<c, s>>] = Glue(Piece(o, l, c), s)
  OBVIOUS
<1>5. ASSUME NEW c \in X PROVE N[c] = c + TakenAt(o, l, c) /\ R[c] = <<>>
  OBVIOUS
<1>6. ASSUME NEW c \in X, c \notin D PROVE N[c] \in X
  BY <1>1, <1>6 DEF Ranked
<1> HIDE DEF G, R, D, N, mu, S
<1>7. PICK f : Solves(f, X, D, N, R, G) /\ \A c \in X : f[c] \in S
  BY <1>1, <1>2, <1>3, RecursionTyped, Zenon
<1>8. \A c \in X : f[c] = Value(f, D, N, R, G, c)
  BY <1>7 DEF Solves
<1>9. ASSUME NEW c \in X
      PROVE  f[c] = IF c = l THEN <<>> ELSE Glue(Piece(o, l, c), f[c + TakenAt(o, l, c)])
  <2>1. CASE c = l
    BY <1>5, <1>8, <2>1 DEF Value, D
  <2>2. CASE c # l
    <3>1. c \notin D
      BY <2>2 DEF D
    <3>2. f[c] = G[<<c, f[N[c]]>>]
      BY <1>8, <3>1 DEF Value
    <3>3. f[N[c]] \in S
      BY <1>6, <1>7, <3>1
    <3> QED BY <1>4, <1>5, <2>2, <3>2, <3>3
  <2> QED BY <2>1, <2>2
<1>10. f = [c \in X |-> f[c]]
  BY <1>7 DEF Solves
<1> HIDE DEF X
<1>11. IsFrom(f, o, l)
  BY <1>9, <1>10 DEF IsFrom, X
<1> QED BY <1>7, <1>11 DEF X, S

\* s are the addresses of n bytes from a on.
IsRun(s, a, n) == s \in Seq(Int) /\ Len(s) = n /\ \A k \in 1..n : s[k] = a + k - 1

LEMMA RunsGlued ==
  ASSUME NEW a \in Int, NEW m \in Nat, NEW n \in Nat, NEW s, NEW t, IsRun(s, a, m), IsRun(t, a + m, n)
  PROVE  IsRun(Glue(s, t), a, m + n)
<1>1. s \in Seq(Int) /\ Len(s) = m /\ t \in Seq(Int) /\ Len(t) = n
  BY DEF IsRun
<1>2. /\ Glue(s, t) \in Seq(Int) /\ Len(Glue(s, t)) = m + n
      /\ \A k \in 1..m : Glue(s, t)[k] = s[k]
      /\ \A k \in 1..n : Glue(s, t)[m + k] = t[k]
  <2>1. Glue(s, t) \in Seq(Int) /\ Joins(Glue(s, t), s, t)
    BY <1>1, GlueIs, Zenon
  <2> QED BY <1>1, <2>1 DEF Joins
<1>3. ASSUME NEW k \in 1..(m + n) PROVE Glue(s, t)[k] = a + k - 1
  <2>1. CASE k <= m
    <3>1. k \in 1..m
      BY <2>1
    <3> QED BY <1>2, <3>1 DEF IsRun
  <2>2. CASE ~(k <= m)
    <3> DEFINE j == k - m
    <3>1. j \in 1..n /\ m + j = k /\ (a + m) + j - 1 = a + k - 1
      BY <2>2
    <3> HIDE DEF j
    <3>2. Glue(s, t)[m + j] = (a + m) + j - 1
      BY <1>2, <3>1 DEF IsRun
    <3> QED BY <3>1, <3>2
  <2> QED BY <2>1, <2>2
<1> QED BY <1>2, <1>3 DEF IsRun

LEMMA FromRuns ==
  ASSUME volume.partition_start_lba \in Nat, NEW o \in Nat, NEW l \in Nat, NEW f, IsFrom(f, o, l),
         NEW c \in 0..l
  PROVE  IsRun(f[c], volume.partition_start_lba * SectorSize + o + c, l - c)
<1> DEFINE base == volume.partition_start_lba * SectorSize + o
           Good(x) == IsRun(f[x], base + x, l - x)
           T == {n \in 0..l : ~Good(l - n)}
<1>1. base \in Int
  BY Sizes
<1> HIDE DEF base
<1>2. \A x \in 0..l :
        f[x] = IF x = l THEN <<>> ELSE Glue(Piece(o, l, x), f[x + TakenAt(o, l, x)])
  BY DEF IsFrom
<1>3. T = {}
  <2> SUFFICES ASSUME T # {} PROVE FALSE
    OBVIOUS
  <2>0. T \subseteq Nat
    OBVIOUS
  <2>1. PICK n \in T : \A y \in T : n <= y
    BY <2>0, LeastNumber
  <2> DEFINE x == l - n
  <2>2. n \in 0..l /\ x \in 0..l /\ ~Good(x)
    BY <2>1
  <2>3. x # l
    <3> SUFFICES ASSUME x = l PROVE FALSE
      OBVIOUS
    <3>1. f[x] = <<>> /\ l - x = 0
      BY <1>2, <2>2
    <3>2. <<>> \in Seq(Int) /\ Len(<<>>) = 0 /\ \A k \in 1..0 : <<>>[k] = base + x + k - 1
      OBVIOUS
    <3>3. Good(x)
      BY <3>1, <3>2 DEF IsRun
    <3> QED BY <2>2, <3>3
  <2> DEFINE t == TakenAt(o, l, x)
             y == x + t
  <2>4. t \in 1..(l - x) /\ IsRun(Piece(o, l, x), base + x, t)
    <3>1. t \in 1..(l - x)
      BY <2>2, <2>3, PieceIs
    <3>2. /\ Piece(o, l, x) \in Seq(Int) /\ Len(Piece(o, l, x)) = t
          /\ \A k \in 1..t : Piece(o, l, x)[k] = base + x + k - 1
      BY <2>2, <2>3, PieceTyped DEF base
    <3> QED BY <3>1, <3>2 DEF IsRun
  <2>5. f[x] = Glue(Piece(o, l, x), f[y])
    BY <1>2, <2>2, <2>3
  <2> HIDE DEF t, x
  <2>6. y \in 0..l /\ l - y \in 0..l /\ ~(n <= l - y) /\ l - (l - y) = y /\ l - y \in Nat
        /\ base + y = (base + x) + t /\ base + x \in Int /\ t \in Nat /\ t + (l - y) = l - x
    BY <1>1, <2>2, <2>4 DEF x
  <2> HIDE DEF y, Good
  <2>7. Good(y)
    BY <2>1, <2>6
  <2>8. IsRun(f[y], (base + x) + t, l - y)
    BY <2>6, <2>7 DEF Good
  <2>9. IsRun(f[x], base + x, t + (l - y))
    BY <2>4, <2>5, <2>6, <2>8, RunsGlued
  <2> QED BY <2>2, <2>6, <2>9 DEF Good
<1>4. Good(c)
  <2>1. l - c \in 0..l /\ l - (l - c) = c
    OBVIOUS
  <2> HIDE DEF Good
  <2> QED BY <1>3, <2>1
<1> QED BY <1>4 DEF base

LEMMA DeviceBytes ==
  ASSUME volume.partition_start_lba \in Nat, NEW o \in Nat, NEW l \in Nat
  PROVE  IsRun(read_device_bytes(o, l), volume.partition_start_lba * SectorSize + o, l)
<1> DEFINE f == CHOOSE g : IsFrom(g, o, l)
<1>1. read_device_bytes(o, l) = f[0]
  BY Zenon DEF read_device_bytes, IsFrom, Piece, Glue, TakenAt, SectorAt, InSector
<1>2. IsFrom(f, o, l)
  BY FromExists
<1> HIDE DEF f
<1>3. IsRun(f[0], volume.partition_start_lba * SectorSize + o + 0, l - 0)
  BY <1>2, FromRuns
<1>4. volume.partition_start_lba * SectorSize + o \in Int
  BY Sizes
<1>5. ASSUME NEW x \in Int PROVE x + 0 = x
  OBVIOUS
<1>6. volume.partition_start_lba * SectorSize + o + 0 = volume.partition_start_lba * SectorSize + o
      /\ l - 0 = l
  BY <1>4, <1>5
<1> QED BY <1>1, <1>3, <1>6

LEMMA RecordIs ==
  ASSUME volume.partition_start_lba \in Nat, NEW o \in Nat, NEW l \in Nat \ {0}, NEW f, NEW z
  PROVE  Record(f, o, l, z) = At(f, volume.partition_start_lba * SectorSize + o, z)
<1> DEFINE s == read_device_bytes(o, l)
           a == volume.partition_start_lba * SectorSize + o
<1>1. IsRun(s, a, l)
  BY DeviceBytes
<1>2. a \in Int
  BY Sizes
<1> HIDE DEF s, a
<1>3. DOMAIN s = 1..l /\ \A k \in 1..l : s[k] = a + k - 1
  BY <1>1 DEF IsRun
<1>4. s[1] = a
  BY <1>2, <1>3
<1>5. \A k \in DOMAIN s : s[k] = s[1] + k - 1
  BY <1>3, <1>4
<1>6. Record(f, o, l, z) = At(f, s[1], z)
  BY <1>5, Zenon DEF Record, s
<1> QED BY <1>4, <1>6 DEF a

LEMMA DescriptorRead ==
  ASSUME Placed, NEW g \in Nat
  PROVE  LET d == DescriptorOf(volume, g)
         IN /\ inode_table_block(g) =
                 Join(IF DescriptorSize(volume.superblock) = LargeDescriptor THEN d.high ELSE 0, d.low)
            /\ inode_table_block(g) \in Nat
<1> DEFINE b == volume.superblock
           s == BlockSize(b)
           z == DescriptorSize(b)
           t == IF s = MinBlockSize THEN 2 ELSE 1
           p == volume.partition_start_lba
           zero == [low |-> 0, high |-> 0]
           d == DescriptorOf(volume, g)
<1>1. s \in Nat /\ z \in Nat \ {0} /\ t \in Nat /\ p \in Nat /\ SectorSize \in Nat
  BY MountableTyped, Sizes DEF Placed
<1>2. geometry.group_descriptor_size = z /\ geometry.block_size = s
      /\ geometry.group_descriptor_table_block = t
  BY PlacedFields
<1>3. d = At(volume.descriptors, p * SectorSize + t * s + g * z, zero)
  BY Zenon DEF DescriptorOf, PlaceOf
<1>4. inode_table_block(g) =
        LET e == Record(volume.descriptors, t * s + g * z, z, zero)
        IN Join(IF z = LargeDescriptor THEN e.high ELSE 0, e.low)
  BY <1>2, Zenon DEF inode_table_block
<1>5. d.low \in Nat /\ d.high \in Nat
  BY <1>3, VolumeAssumption DEF At, Placed, Mountable
<1> HIDE DEF s, z, t, p, zero, d, b
<1>6. t * s \in Nat /\ g * z \in Nat /\ p * SectorSize \in Nat
  BY <1>1
<1>7. ASSUME NEW x \in Nat, NEW y \in Nat, NEW w \in Nat
      PROVE  x + y \in Nat /\ w + (x + y) = w + x + y
  OBVIOUS
<1>8. t * s + g * z \in Nat /\ p * SectorSize + (t * s + g * z) = p * SectorSize + t * s + g * z
  BY <1>6, <1>7
<1>9. Record(volume.descriptors, t * s + g * z, z, zero) = d
  <2>1. volume.partition_start_lba \in Nat
    BY <1>1 DEF p
  <2>2. ASSUME NEW o \in Nat, NEW f
        PROVE  Record(f, o, z, zero) = At(f, p * SectorSize + o, zero)
    BY <1>1, <2>1, RecordIs DEF p
  <2>3. Record(volume.descriptors, t * s + g * z, z, zero)
          = At(volume.descriptors, p * SectorSize + (t * s + g * z), zero)
    BY <1>8, <2>2
  <2> QED BY <1>3, <1>8, <2>3
<1>10. inode_table_block(g) = Join(IF z = LargeDescriptor THEN d.high ELSE 0, d.low)
  BY <1>4, <1>9
<1>11. ASSUME NEW x \in Nat, NEW y \in Nat PROVE Join(x, y) \in Nat
  BY Sizes DEF Join
<1>12. inode_table_block(g) \in Nat
  BY <1>5, <1>10, <1>11
<1> QED BY <1>10, <1>12 DEF d, z, b

\* read_inode reads the inode where the descriptor and the sizes of the
\* superblock place it, one sector at a time.
LEMMA InodeIs ==
  ASSUME Placed, NEW n \in Nat \ {0}
  PROVE  read_inode(n) = InodeOf(volume, n)
<1> DEFINE b == volume.superblock
           s == BlockSize(b)
           z == b.inode_size
           m == b.inodes_per_group
           g == (n - 1) \div m
           r == (n - 1) % m
           p == volume.partition_start_lba
           t == inode_table_block(g)
           d == DescriptorOf(volume, g)
<1>1. s \in Nat /\ z \in Nat \ {0} /\ m \in Nat \ {0} /\ p \in Nat /\ SectorSize \in Nat
  BY MountableTyped, Sizes DEF Placed
<1>2. geometry.inodes_per_group = m /\ geometry.block_size = s /\ geometry.inode_size = z
  BY PlacedFields
<1>3. g \in Nat /\ r \in Nat
  <2>1. n - 1 \in Nat
    OBVIOUS
  <2> HIDE DEF m
  <2> QED BY <1>1, <2>1, Division
<1>4. read_inode(n) = Record(volume.inodes, t * s + r * z, z, NoInode)
  BY <1>2, Zenon DEF read_inode
<1>5. t = Join(IF DescriptorSize(b) = LargeDescriptor THEN d.high ELSE 0, d.low) /\ t \in Nat
  <2> HIDE DEF g
  <2> QED BY <1>3, DescriptorRead
<1>6. InodeOf(volume, n) =
        At(volume.inodes,
           p * SectorSize + Join(IF DescriptorSize(b) = LargeDescriptor THEN d.high ELSE 0, d.low) * s
             + r * z, NoInode)
  BY Zenon DEF InodeOf, PlaceOf
<1> HIDE DEF s, z, m, g, r, p, t, d, b
<1>7. InodeOf(volume, n) = At(volume.inodes, p * SectorSize + t * s + r * z, NoInode)
  BY <1>5, <1>6
<1>8. t * s \in Nat /\ r * z \in Nat /\ p * SectorSize \in Nat
  BY <1>1, <1>3, <1>5
<1>9. ASSUME NEW x \in Nat, NEW y \in Nat, NEW w \in Nat
      PROVE  x + y \in Nat /\ w + (x + y) = w + x + y
  OBVIOUS
<1>10. t * s + r * z \in Nat /\ p * SectorSize + (t * s + r * z) = p * SectorSize + t * s + r * z
  BY <1>8, <1>9
<1>11. volume.partition_start_lba \in Nat
  BY <1>1 DEF p
<1>12. Record(volume.inodes, t * s + r * z, z, NoInode)
         = At(volume.inodes, p * SectorSize + (t * s + r * z), NoInode)
  <2>1. ASSUME NEW o \in Nat, NEW f
        PROVE  Record(f, o, z, NoInode) = At(f, p * SectorSize + o, NoInode)
    BY <1>1, <1>11, RecordIs DEF p
  <2> QED BY <1>10, <2>1
<1> QED BY <1>4, <1>7, <1>10, <1>12

-----------------------------------------------------------------------------
(* The walk over an extent tree. *)

LEMMA GlueEmpty ==
  ASSUME NEW S, NEW a \in Seq(S)
  PROVE  Glue(a, <<>>) = a /\ Glue(<<>>, a) = a
  BY ConcatEmptySeq, Zenon DEF Glue

LEMMA GlueLen ==
  ASSUME NEW S, NEW a \in Seq(S), NEW b \in Seq(S)
  PROVE  /\ Glue(a, b) \in Seq(S) /\ Len(Glue(a, b)) = Len(a) + Len(b)
         /\ Len(a) \in Nat /\ Len(b) \in Nat
<1>1. Glue(a, b) \in Seq(S) /\ Len(Glue(a, b)) = Len(a) + Len(b)
  BY ConcatProperties, Zenon DEF Glue
<1>2. Len(a) \in Nat /\ Len(b) \in Nat
  BY LenProperties, Zenon
<1> QED BY <1>1, <1>2

LEMMA GlueAssoc ==
  ASSUME NEW S, NEW a \in Seq(S), NEW b \in Seq(S), NEW c \in Seq(S)
  PROVE  Glue(Glue(a, b), c) = Glue(a, Glue(b, c))
<1>1. (a \o b) \o c = a \o (b \o c)
  BY ConcatAssociative
<1> QED BY <1>1, Zenon DEF Glue

Tree(frame) == <<frame.node, frame.length>>
Whole(up, t) == up[t][Len(t[1].entries)]

LEMMA ListsAre == ExtentLists = Seq(Extents)
  BY DEF ExtentLists, Extents

\* What TreesWritten says of the tree of a node.
TreeIs(v, up, n, l) ==
  /\ ~Malformed(n, l) /\ ~BadLeaf(n)
  /\ \A k \in 0..Len(n.entries) : up[<<n, l>>][k] \in Seq(Extents)
  /\ up[<<n, l>>][0] = <<>>
  /\ Whole(up, <<n, l>>) = up[<<n, l>>][Len(n.entries)]
  /\ n.depth = 0 => Whole(up, <<n, l>>) = LeafExtents(n)
  /\ n.depth > 0 =>
       \A k \in 1..Len(n.entries) :
         /\ Subtree(v, n, k) \in DOMAIN up
         /\ up[<<n, l>>][k] = Glue(up[<<n, l>>][k - 1], Whole(up, Subtree(v, n, k)))

LEMMA TreeFacts ==
  ASSUME NEW v, NEW up, TreesWritten(v, up), NEW n, NEW l, <<n, l>> \in DOMAIN up
  PROVE  TreeIs(v, up, n, l)
<1> DEFINE t == <<n, l>>
           count == Len(n.entries)
<1>1. t[1] = n /\ t[2] = l
  OBVIOUS
<1> HIDE DEF t
<1>2. /\ ~Malformed(n, l) /\ ~BadLeaf(n)
      /\ up[t] \in [0..count -> ExtentLists]
      /\ up[t][0] = <<>>
      /\ n.depth = 0 => up[t][count] = LeafExtents(n)
      /\ n.depth > 0 =>
           \A k \in 1..count :
             LET c == Subtree(v, n, k)
             IN c \in DOMAIN up /\ up[t][k] = up[t][k - 1] \o up[c][Len(c[1].entries)]
  BY <1>1, Zenon DEF TreesWritten, t
<1>3. \A k \in 0..count : up[t][k] \in Seq(Extents)
  BY <1>2, ListsAre
<1>4. Whole(up, t) = up[t][count]
  BY <1>1 DEF Whole
<1>5. n.depth > 0 =>
        \A k \in 1..count :
          /\ Subtree(v, n, k) \in DOMAIN up
          /\ up[t][k] = Glue(up[t][k - 1], Whole(up, Subtree(v, n, k)))
  BY <1>2, Zenon DEF Glue, Whole
<1> QED BY <1>2, <1>3, <1>4, <1>5 DEF TreeIs, t

\* What is below the first entries is no longer than what is below all.
LEMMA PartIsShorter ==
  ASSUME NEW v, NEW up, TreesWritten(v, up), NEW n, NEW l, <<n, l>> \in DOMAIN up,
         n.depth > 0, Len(n.entries) \in Nat,
         \A k \in 1..Len(n.entries) : Whole(up, Subtree(v, n, k)) \in Seq(Extents),
         NEW k \in 0..Len(n.entries)
  PROVE  Len(up[<<n, l>>][k]) <= Len(Whole(up, <<n, l>>))
<1> DEFINE count == Len(n.entries)
           u == up[<<n, l>>]
           T == {d \in 0..count : ~(Len(u[count - d]) <= Len(u[count]))}
<1>1. /\ \A j \in 0..count : u[j] \in Seq(Extents)
      /\ Whole(up, <<n, l>>) = u[count]
      /\ \A j \in 1..count : u[j] = Glue(u[j - 1], Whole(up, Subtree(v, n, j)))
  <2>1. TreeIs(v, up, n, l)
    BY TreeFacts, Zenon
  <2> QED BY <2>1 DEF TreeIs
<1> HIDE DEF u
<1>2. \A j \in 0..count : Len(u[j]) \in Nat
  BY <1>1
<1>3. T = {}
  <2> SUFFICES ASSUME T # {} PROVE FALSE
    OBVIOUS
  <2>1. T \subseteq Nat
    OBVIOUS
  <2>2. PICK d \in T : \A y \in T : d <= y
    BY <2>1, LeastNumber
  <2>3. d \in 0..count /\ ~(Len(u[count - d]) <= Len(u[count]))
    BY <2>2
  <2>4. d # 0
    <3> SUFFICES ASSUME d = 0 PROVE FALSE
      OBVIOUS
    <3>1. count - d = count /\ count \in 0..count
      OBVIOUS
    <3> QED BY <1>2, <2>3, <3>1
  <2> DEFINE j == count - d + 1
  <2>5. d - 1 \in 0..count /\ ~(d <= d - 1) /\ count - (d - 1) = j /\ j \in 1..count
        /\ j \in 0..count /\ j - 1 = count - d /\ j - 1 \in 0..count
    BY <2>3, <2>4
  <2> HIDE DEF j
  <2>6. Len(u[j]) <= Len(u[count])
    <3>1. d - 1 \notin T
      BY <2>2, <2>5
    <3> QED BY <2>5, <3>1
  <2>7. Len(u[j]) = Len(u[j - 1]) + Len(Whole(up, Subtree(v, n, j)))
        /\ Len(Whole(up, Subtree(v, n, j))) \in Nat
    <3> DEFINE w == Whole(up, Subtree(v, n, j))
    <3>1. u[j - 1] \in Seq(Extents) /\ w \in Seq(Extents) /\ u[j] = Glue(u[j - 1], w)
      BY <1>1, <2>5
    <3> HIDE DEF w
    <3>2. Len(Glue(u[j - 1], w)) = Len(u[j - 1]) + Len(w) /\ Len(w) \in Nat
      BY <3>1, GlueLen, Zenon
    <3> QED BY <3>1, <3>2 DEF w
  <2>8. Len(u[j - 1]) \in Nat /\ Len(u[count]) \in Nat
    <3>1. count \in 0..count
      OBVIOUS
    <3> QED BY <1>2, <2>5, <3>1
  <2>9. ASSUME NEW x \in Nat, NEW y \in Nat, NEW z \in Nat, x + y <= z PROVE x <= z
    BY <2>9
  <2>10. Len(u[j - 1]) <= Len(u[count])
    BY <2>6, <2>7, <2>8, <2>9
  <2> QED BY <2>3, <2>5, <2>10
<1>4. count - k \in 0..count /\ count - (count - k) = k
  OBVIOUS
<1> QED BY <1>1, <1>3, <1>4 DEF u

\* A walk in its middle: extent list base[j] was collected when frame j was
\* entered, below the entries in front of the one that led to it.
IsWalk(v, up, root, st, xs, base) ==
  /\ \A j \in 1..Len(st) :
       /\ base[j] \in Seq(Extents) /\ Tree(st[j]) \in DOMAIN up
       /\ st[j].index \in 1..(Len(st[j].node.entries) + 1)
       /\ st[j].node.depth = 0 => st[j].index = 1
       /\ Len(base[j]) + Len(Whole(up, Tree(st[j]))) <= Len(Whole(up, root))
       /\ j = Len(st) => Tree(st[j]) = root /\ base[j] = <<>>
       /\ j # Len(st) =>
            /\ st[j + 1].node.depth > 0 /\ st[j + 1].index >= 2
            /\ Tree(st[j]) = Subtree(v, st[j + 1].node, st[j + 1].index - 1)
            /\ base[j] = Glue(base[j + 1], up[Tree(st[j + 1])][st[j + 1].index - 2])
  /\ Whole(up, root) \in Seq(Extents)
  /\ xs = IF st = <<>> THEN Whole(up, root)
          ELSE Glue(base[1], up[Tree(st[1])][st[1].index - 1])

\* A call returns with all that is below its node.
LEMMA WalkReturns ==
  ASSUME NEW v, NEW up, TreesWritten(v, up), NEW root, NEW st \in Seq(Frames), st # <<>>, NEW xs,
         NEW base, IsWalk(v, up, root, st, xs, base),
         NEW ys, ys = Glue(base[1], Whole(up, Tree(st[1])))
  PROVE  \E more : IsWalk(v, up, root, Tail(st), ys, more)
<1> DEFINE l == Len(st)
           r == Tail(st)
           more == [j \in 1..(l - 1) |-> base[j + 1]]
<1>1. l \in Nat \ {0}
  BY EmptySeq
<1>2. r \in Seq(Frames) /\ Len(r) = l - 1 /\ \A i \in 1..(l - 1) : r[i] = st[i + 1]
  <2>1. r \in Seq(Frames) /\ Len(r) = l - 1 /\ \A i \in 1..Len(r) : r[i] = st[i + 1]
    BY HeadTailProperties, Zenon
  <2> QED BY <2>1
<1> HIDE DEF r
<1>3. \A j \in 1..l :
       /\ base[j] \in Seq(Extents) /\ Tree(st[j]) \in DOMAIN up
       /\ st[j].index \in 1..(Len(st[j].node.entries) + 1)
       /\ st[j].node.depth = 0 => st[j].index = 1
       /\ Len(base[j]) + Len(Whole(up, Tree(st[j]))) <= Len(Whole(up, root))
       /\ j = l => Tree(st[j]) = root /\ base[j] = <<>>
       /\ j # l =>
            /\ st[j + 1].node.depth > 0 /\ st[j + 1].index >= 2
            /\ Tree(st[j]) = Subtree(v, st[j + 1].node, st[j + 1].index - 1)
            /\ base[j] = Glue(base[j + 1], up[Tree(st[j + 1])][st[j + 1].index - 2])
  BY DEF IsWalk
<1>4. Whole(up, root) \in Seq(Extents)
  BY DEF IsWalk
<1>5. ASSUME NEW j \in 1..(l - 1)
      PROVE  /\ more[j] = base[j + 1] /\ r[j] = st[j + 1] /\ j + 1 \in 1..l
             /\ j = l - 1 <=> j + 1 = l
             /\ j # l - 1 => /\ j + 1 \in 1..(l - 1) /\ more[j + 1] = base[(j + 1) + 1]
                             /\ r[j + 1] = st[(j + 1) + 1]
  <2>1. j + 1 \in 1..l /\ (j = l - 1 <=> j + 1 = l) /\ (j # l - 1 => j + 1 \in 1..(l - 1))
    BY <1>1
  <2> QED BY <1>2, <2>1
<1> HIDE DEF more
<1>6. ASSUME NEW j \in 1..(l - 1)
      PROVE  /\ more[j] \in Seq(Extents) /\ Tree(r[j]) \in DOMAIN up
             /\ r[j].index \in 1..(Len(r[j].node.entries) + 1)
             /\ r[j].node.depth = 0 => r[j].index = 1
             /\ Len(more[j]) + Len(Whole(up, Tree(r[j]))) <= Len(Whole(up, root))
             /\ j = l - 1 => Tree(r[j]) = root /\ more[j] = <<>>
             /\ j # l - 1 =>
                  /\ r[j + 1].node.depth > 0 /\ r[j + 1].index >= 2
                  /\ Tree(r[j]) = Subtree(v, r[j + 1].node, r[j + 1].index - 1)
                  /\ more[j] = Glue(more[j + 1], up[Tree(r[j + 1])][r[j + 1].index - 2])
  <2> DEFINE i == j + 1
  <2>1. /\ more[j] = base[i] /\ r[j] = st[i] /\ i \in 1..l /\ (j = l - 1 <=> i = l)
        /\ j # l - 1 => more[i] = base[i + 1] /\ r[i] = st[i + 1]
    BY <1>5
  <2> HIDE DEF i
  <2>2. /\ base[i] \in Seq(Extents) /\ Tree(st[i]) \in DOMAIN up
        /\ st[i].index \in 1..(Len(st[i].node.entries) + 1)
        /\ st[i].node.depth = 0 => st[i].index = 1
        /\ Len(base[i]) + Len(Whole(up, Tree(st[i]))) <= Len(Whole(up, root))
        /\ i = l => Tree(st[i]) = root /\ base[i] = <<>>
        /\ i # l =>
             /\ st[i + 1].node.depth > 0 /\ st[i + 1].index >= 2
             /\ Tree(st[i]) = Subtree(v, st[i + 1].node, st[i + 1].index - 1)
             /\ base[i] = Glue(base[i + 1], up[Tree(st[i + 1])][st[i + 1].index - 2])
    BY <1>3, <2>1, Zenon
  <2>3. j # l - 1 => more[j + 1] = base[i + 1] /\ r[j + 1] = st[i + 1]
    BY <2>1 DEF i
  <2> QED BY <2>1, <2>2, <2>3, Zenon
<1>7. ys = IF r = <<>> THEN Whole(up, root) ELSE Glue(more[1], up[Tree(r[1])][r[1].index - 1])
  <2>1. CASE l = 1
    <3>1. r = <<>>
      BY <1>2, <2>1, EmptySeq
    <3>2. ys = Whole(up, root)
      <4>1. Tree(st[1]) = root /\ base[1] = <<>>
        BY <1>3, <2>1
      <4> QED BY <1>4, <4>1, GlueEmpty
    <3> QED BY <3>1, <3>2
  <2>2. CASE l # 1
    <3>1. 1 \in 1..(l - 1) /\ 1 \in 1..l /\ 1 # l /\ 1 + 1 = 2 /\ 2 \in 1..l
      <4> HIDE DEF l
      <4> QED BY <1>1, <2>2
    <3>2. r # <<>>
      BY <1>2, <2>2, EmptySeq
    <3>3. more[1] = base[2] /\ r[1] = st[2]
      BY <1>5, <3>1
    <3> DEFINE f == st[2]
               n == f.node
               u == up[Tree(f)]
               k == f.index - 1
               w == Whole(up, Tree(st[1]))
    <3>4. f.node.depth > 0 /\ f.index >= 2 /\ Tree(st[1]) = Subtree(v, f.node, f.index - 1)
          /\ base[1] = Glue(base[2], u[f.index - 2])
      BY <1>3, <3>1
    <3>5. base[2] \in Seq(Extents) /\ Tree(f) \in DOMAIN up
          /\ f.index \in 1..(Len(n.entries) + 1)
      BY <1>3, <3>1
    <3>6. Len(n.entries) \in Nat
      <4>1. n \in Nodes
        <5>1. f \in Frames
          BY <3>1, ElementOfSeq, Zenon
        <5> QED BY <5>1 DEF Frames
      <4> QED BY <4>1, NodesTyped DEF IsNode
    <3>7. k \in 1..Len(n.entries) /\ k - 1 = f.index - 2 /\ k - 1 \in 0..Len(n.entries)
          /\ k \in 0..Len(n.entries)
      BY <3>4, <3>5, <3>6, SMTT(40)
    <3> HIDE DEF k
    <3>8. u[k] = Glue(u[k - 1], Whole(up, Subtree(v, n, k))) /\ u[k - 1] \in Seq(Extents)
      <4>1. TreeIs(v, up, n, f.length)
        BY <3>5, TreeFacts, Zenon DEF Tree
      <4> QED BY <3>4, <3>7, <4>1 DEF TreeIs, Tree
    <3>9. Subtree(v, n, k) = Tree(st[1])
      BY <3>4 DEF k
    <3>10. w \in Seq(Extents)
      <4>1. Tree(st[1]) \in DOMAIN up
        BY <1>3, <3>1
      <4>2. Len(st[1].node.entries) \in Nat
        <5>1. st[1] \in Frames
          BY <3>1, ElementOfSeq, Zenon
        <5>2. st[1].node \in Nodes
          BY <5>1 DEF Frames
        <5> QED BY <5>2, NodesTyped DEF IsNode
      <4>3. Len(st[1].node.entries) \in 0..Len(st[1].node.entries)
        BY <4>2
      <4>4. TreeIs(v, up, st[1].node, st[1].length)
        BY <4>1, TreeFacts, Zenon DEF Tree
      <4> QED BY <4>3, <4>4 DEF TreeIs, Tree
    <3> HIDE DEF w, u, f
    <3>11. Glue(Glue(base[2], u[k - 1]), w) = Glue(base[2], Glue(u[k - 1], w))
      <4>1. ASSUME NEW a \in Seq(Extents), NEW b \in Seq(Extents), NEW c \in Seq(Extents)
            PROVE  Glue(Glue(a, b), c) = Glue(a, Glue(b, c))
        BY GlueAssoc
      <4> QED BY <3>5, <3>8, <3>10, <4>1
    <3>12. ys = Glue(base[2], u[k])
      BY <3>4, <3>7, <3>8, <3>9, <3>11 DEF w
    <3> QED BY <3>2, <3>3, <3>12 DEF u, k, f
  <2> QED BY <2>1, <2>2
<1>8. IsWalk(v, up, root, r, ys, more)
  BY <1>2, <1>4, <1>6, <1>7 DEF IsWalk
<1> QED BY <1>8 DEF r

LEMMA WholeTyped ==
  ASSUME NEW v, NEW up, TreesWritten(v, up), NEW n \in Nodes, NEW l, <<n, l>> \in DOMAIN up
  PROVE  Whole(up, <<n, l>>) \in Seq(Extents)
<1>1. TreeIs(v, up, n, l)
  BY TreeFacts, Zenon
<1>2. Len(n.entries) \in 0..Len(n.entries)
  BY NodesTyped DEF IsNode
<1> QED BY <1>1, <1>2 DEF TreeIs

LEMMA SubtreeTyped ==
  ASSUME NEW v \in Volumes, NEW up, TreesWritten(v, up), NEW n, NEW k, Subtree(v, n, k) \in DOMAIN up
  PROVE  Whole(up, Subtree(v, n, k)) \in Seq(Extents)
<1> DEFINE c == At(v.nodes, PlaceOf(v, Join(n.entries[k].high, n.entries[k].low)), NoNode)
<1>1. c \in Nodes
  BY DEF At, Nodes, NodesOf
<1>2. Subtree(v, n, k) = <<c, BlockSize(v.superblock)>>
  BY Zenon DEF Subtree
<1> HIDE DEF c
<1> QED BY <1>1, <1>2, WholeTyped

\* A child is entered with what was collected so far.
LEMMA WalkEnters ==
  ASSUME NEW v \in Volumes, NEW up, TreesWritten(v, up), NEW root, NEW st \in Seq(Frames),
         st # <<>>, NEW xs, NEW base, IsWalk(v, up, root, st, xs, base),
         st[1].node.depth > 0, st[1].index <= Len(st[1].node.entries),
         NEW r \in Seq(Frames), Len(r) = Len(st) + 1,
         r[1].index = 1, Tree(r[1]) = Subtree(v, st[1].node, st[1].index),
         r[2].node = st[1].node, r[2].length = st[1].length, r[2].index = st[1].index + 1,
         \A j \in 2..Len(st) : r[j + 1] = st[j]
  PROVE  \E more : IsWalk(v, up, root, r, xs, more)
<1> DEFINE l == Len(st)
           n == st[1].node
           k == st[1].index
           u == up[Tree(st[1])]
           c == Tree(r[1])
           more == [j \in 1..(l + 1) |-> IF j = 1 THEN xs ELSE base[j - 1]]
<1>1. l \in Nat \ {0} /\ 1 \in 1..l
  <2>1. l \in Nat /\ l # 0
    BY EmptySeq
  <2> HIDE DEF l
  <2> QED BY <2>1
<1>2. \A j \in 1..l :
       /\ base[j] \in Seq(Extents) /\ Tree(st[j]) \in DOMAIN up
       /\ st[j].index \in 1..(Len(st[j].node.entries) + 1)
       /\ st[j].node.depth = 0 => st[j].index = 1
       /\ Len(base[j]) + Len(Whole(up, Tree(st[j]))) <= Len(Whole(up, root))
       /\ j = l => Tree(st[j]) = root /\ base[j] = <<>>
       /\ j # l =>
            /\ st[j + 1].node.depth > 0 /\ st[j + 1].index >= 2
            /\ Tree(st[j]) = Subtree(v, st[j + 1].node, st[j + 1].index - 1)
            /\ base[j] = Glue(base[j + 1], up[Tree(st[j + 1])][st[j + 1].index - 2])
  BY DEF IsWalk
<1>3. Whole(up, root) \in Seq(Extents) /\ xs = Glue(base[1], u[k - 1])
  BY DEF IsWalk
<1>4. st[1] \in Frames /\ n \in Nodes /\ Len(n.entries) \in Nat /\ k \in Nat
  <2>1. st[1] \in Frames
    BY <1>1, ElementOfSeq, Zenon
  <2>2. n \in Nodes /\ k \in Nat
    BY <2>1 DEF Frames
  <2> QED BY <2>1, <2>2, NodesTyped DEF IsNode
<1>5. k \in 1..Len(n.entries) /\ k - 1 \in 0..Len(n.entries) /\ k \in 0..Len(n.entries)
  <2>1. k \in 1..(Len(n.entries) + 1)
    BY <1>1, <1>2
  <2> HIDE DEF k, n
  <2> QED BY <1>4, <2>1 DEF k, n
<1>6. base[1] \in Seq(Extents) /\ Tree(st[1]) \in DOMAIN up
      /\ Len(base[1]) + Len(Whole(up, Tree(st[1]))) <= Len(Whole(up, root))
  BY <1>1, <1>2
<1>7. TreeIs(v, up, n, st[1].length)
  BY <1>6, TreeFacts, Zenon DEF Tree
<1>8. /\ \A j \in 1..Len(n.entries) : Subtree(v, n, j) \in DOMAIN up
      /\ u[k] = Glue(u[k - 1], Whole(up, c)) /\ u[k - 1] \in Seq(Extents) /\ u[k] \in Seq(Extents)
      /\ c \in DOMAIN up
  BY <1>5, <1>7 DEF TreeIs, Tree
<1>9. \A j \in 1..Len(n.entries) : Whole(up, Subtree(v, n, j)) \in Seq(Extents)
  BY <1>8, SubtreeTyped
<1>10. Whole(up, c) \in Seq(Extents)
  BY <1>5, <1>9
<1>11. Len(u[k]) <= Len(Whole(up, Tree(st[1])))
  BY <1>4, <1>5, <1>6, <1>9, PartIsShorter DEF Tree
<1>12. Whole(up, Tree(st[1])) \in Seq(Extents)
  BY <1>4, <1>6, WholeTyped DEF Tree
<1> HIDE DEF u, c, l
<1>13. xs \in Seq(Extents) /\ Len(xs) + Len(Whole(up, c)) <= Len(Whole(up, root))
  <2>1. Len(xs) = Len(base[1]) + Len(u[k - 1]) /\ xs \in Seq(Extents) /\ Len(base[1]) \in Nat
        /\ Len(u[k - 1]) \in Nat
    <3>1. ASSUME NEW a \in Seq(Extents), NEW b \in Seq(Extents)
          PROVE  /\ Glue(a, b) \in Seq(Extents) /\ Len(Glue(a, b)) = Len(a) + Len(b)
                 /\ Len(a) \in Nat /\ Len(b) \in Nat
      BY GlueLen
    <3> QED BY <1>3, <1>6, <1>8, <3>1
  <2>2. Len(u[k]) = Len(u[k - 1]) + Len(Whole(up, c)) /\ Len(Whole(up, c)) \in Nat
    <3>1. ASSUME NEW a \in Seq(Extents), NEW b \in Seq(Extents)
          PROVE  Len(Glue(a, b)) = Len(a) + Len(b) /\ Len(b) \in Nat
      BY GlueLen
    <3> QED BY <1>8, <1>10, <3>1
  <2>3. Len(Whole(up, Tree(st[1]))) \in Nat /\ Len(Whole(up, root)) \in Nat
    BY <1>3, <1>12
  <2>4. Len(base[1]) + Len(u[k - 1]) + Len(Whole(up, c)) <= Len(Whole(up, root))
    <3>1. Len(u[k - 1]) + Len(Whole(up, c)) <= Len(Whole(up, Tree(st[1])))
      BY <1>11, <2>2
    <3> DEFINE x == Len(base[1])
               y == Len(u[k - 1])
               z == Len(Whole(up, c))
               w == Len(Whole(up, Tree(st[1])))
               q == Len(Whole(up, root))
    <3>2. /\ x \in Nat /\ y \in Nat /\ z \in Nat /\ w \in Nat /\ q \in Nat
          /\ y + z <= w /\ x + w <= q
      BY <1>6, <2>1, <2>2, <2>3, <3>1
    <3> HIDE DEF x, y, z, w, q
    <3>3. x + y + z <= q
      BY <3>2
    <3> QED BY <3>3 DEF x, y, z, q
  <2> QED BY <2>1, <2>4
<1>14. r[1].node \in Nodes /\ Len(r[1].node.entries) \in Nat /\ Len(r) = l + 1
  <2>1. Len(r) = l + 1 /\ 1 \in 1..Len(r)
    BY <1>1 DEF l
  <2>2. r[1] \in Frames
    BY <2>1, ElementOfSeq, Zenon
  <2>3. r[1].node \in Nodes
    BY <2>2 DEF Frames
  <2> QED BY <2>1, <2>3, NodesTyped DEF IsNode
<1>15. xs = Glue(more[1], up[Tree(r[1])][r[1].index - 1]) /\ more[1] = xs
  <2>1. more[1] = xs
    BY <1>1
  <2>2. TreeIs(v, up, r[1].node, r[1].length)
    BY <1>8, TreeFacts, Zenon DEF Tree, c
  <2>3. up[Tree(r[1])][0] = <<>>
    BY <2>2 DEF TreeIs, Tree
  <2> QED BY <1>13, <2>1, <2>3, GlueEmpty
<1>16. /\ more[2] = base[1] /\ Tree(r[2]) = Tree(st[1]) /\ r[2].node = n /\ r[2].index = k + 1
       /\ (1 = l + 1) = FALSE
  BY <1>1 DEF Tree
<1>17. r[1].index \in 1..(Len(r[1].node.entries) + 1)
  BY <1>14
<1>18. /\ r[2].node.depth > 0 /\ r[2].index >= 2 /\ r[2].index - 1 = k /\ r[2].index - 2 = k - 1
       /\ r[2].index \in 1..(Len(n.entries) + 1)
  <2>1. n.depth > 0
    OBVIOUS
  <2> HIDE DEF n, k
  <2>2. k + 1 >= 2 /\ (k + 1) - 1 = k /\ (k + 1) - 2 = k - 1 /\ k + 1 \in 1..(Len(n.entries) + 1)
    BY <1>4, <1>5
  <2> QED BY <1>16, <2>1, <2>2, Zenon
<1>19. ASSUME NEW j \in 3..(l + 1)
       PROVE  /\ more[j] = base[j - 1] /\ r[j] = st[j - 1] /\ j - 1 \in 1..l
              /\ (j = l + 1 <=> j - 1 = l)
              /\ j # l + 1 => more[j + 1] = base[(j - 1) + 1] /\ r[j + 1] = st[(j - 1) + 1]
  <2>1. j - 1 \in 2..l /\ (j - 1) + 1 = j /\ j \in 1..(l + 1) /\ j # 1 /\ j - 1 \in 1..l
        /\ (j = l + 1 <=> j - 1 = l) /\ (j # l + 1 => j + 1 \in 1..(l + 1) /\ j + 1 # 1 /\ j \in 2..l)
        /\ (j + 1) - 1 = j
    BY <1>1
  <2>2. \A i \in 2..l : r[i + 1] = st[i]
    BY DEF l
  <2> QED BY <2>1, <2>2
<1>20. l # 1 => more[3] = base[2] /\ r[3] = st[2]
  <2>1. l # 1 => 3 \in 3..(l + 1) /\ 3 - 1 = 2
    BY <1>1
  <2> QED BY <1>19, <2>1
<1> HIDE DEF more, k, n
<1> DEFINE Fine(j) ==
       /\ more[j] \in Seq(Extents) /\ Tree(r[j]) \in DOMAIN up
       /\ r[j].index \in 1..(Len(r[j].node.entries) + 1)
       /\ r[j].node.depth = 0 => r[j].index = 1
       /\ Len(more[j]) + Len(Whole(up, Tree(r[j]))) <= Len(Whole(up, root))
       /\ j = l + 1 => Tree(r[j]) = root /\ more[j] = <<>>
       /\ j # l + 1 =>
            /\ r[j + 1].node.depth > 0 /\ r[j + 1].index >= 2
            /\ Tree(r[j]) = Subtree(v, r[j + 1].node, r[j + 1].index - 1)
            /\ more[j] = Glue(more[j + 1], up[Tree(r[j + 1])][r[j + 1].index - 2])
<1>21. Fine(1)
  <2>1. /\ r[1 + 1].node.depth > 0 /\ r[1 + 1].index >= 2
        /\ Tree(r[1]) = Subtree(v, r[1 + 1].node, r[1 + 1].index - 1)
        /\ more[1] = Glue(more[1 + 1], up[Tree(r[1 + 1])][r[1 + 1].index - 2])
    <3>1. Tree(r[1]) = Subtree(v, n, k) /\ 1 + 1 = 2
      BY DEF n, k
    <3>2. xs = Glue(base[1], up[Tree(st[1])][k - 1])
      BY <1>3 DEF u
    <3> QED BY <1>15, <1>16, <1>18, <3>1, <3>2, Zenon
  <2> QED BY <1>8, <1>13, <1>15, <1>16, <1>17, <2>1 DEF c
<1>22. Fine(2)
  <2>1. /\ more[2] \in Seq(Extents) /\ Tree(r[2]) \in DOMAIN up
        /\ r[2].index \in 1..(Len(r[2].node.entries) + 1)
        /\ r[2].node.depth # 0
        /\ Len(more[2]) + Len(Whole(up, Tree(r[2]))) <= Len(Whole(up, root))
    <3>1. r[2].node.depth # 0
      BY <1>18
    <3> QED BY <1>6, <1>16, <1>18, <3>1, Zenon
  <2>2. 2 = l + 1 <=> l = 1
    BY <1>1
  <2>3. CASE l = 1
    <3>1. Tree(st[1]) = root /\ base[1] = <<>>
      BY <1>1, <1>2, <2>3
    <3> QED BY <1>16, <2>1, <2>2, <2>3, <3>1
  <2>4. CASE l # 1
    <3>1. /\ st[1 + 1].node.depth > 0 /\ st[1 + 1].index >= 2
          /\ Tree(st[1]) = Subtree(v, st[1 + 1].node, st[1 + 1].index - 1)
          /\ base[1] = Glue(base[1 + 1], up[Tree(st[1 + 1])][st[1 + 1].index - 2])
      BY <1>1, <1>2, <2>4
    <3>2. 1 + 1 = 2 /\ 2 + 1 = 3
      OBVIOUS
    <3> QED BY <1>16, <1>20, <2>1, <2>2, <2>4, <3>1, <3>2
  <2> QED BY <2>3, <2>4
<1>23. ASSUME NEW j \in 3..(l + 1) PROVE Fine(j)
  <2> DEFINE i == j - 1
  <2>1. /\ more[j] = base[i] /\ r[j] = st[i] /\ i \in 1..l
        /\ (j = l + 1 <=> i = l)
        /\ j # l + 1 => more[j + 1] = base[i + 1] /\ r[j + 1] = st[i + 1]
    BY <1>19
  <2> HIDE DEF i
  <2>2. /\ base[i] \in Seq(Extents) /\ Tree(st[i]) \in DOMAIN up
        /\ st[i].index \in 1..(Len(st[i].node.entries) + 1)
        /\ st[i].node.depth = 0 => st[i].index = 1
        /\ Len(base[i]) + Len(Whole(up, Tree(st[i]))) <= Len(Whole(up, root))
        /\ i = l => Tree(st[i]) = root /\ base[i] = <<>>
        /\ i # l =>
             /\ st[i + 1].node.depth > 0 /\ st[i + 1].index >= 2
             /\ Tree(st[i]) = Subtree(v, st[i + 1].node, st[i + 1].index - 1)
             /\ base[i] = Glue(base[i + 1], up[Tree(st[i + 1])][st[i + 1].index - 2])
    BY <1>2, <2>1, Zenon
  <2> QED BY <2>1, <2>2, Zenon
<1>24. ASSUME NEW j \in 1..(l + 1) PROVE Fine(j)
  <2>1. j = 1 \/ j = 2 \/ j \in 3..(l + 1)
    BY <1>1
  <2> HIDE DEF Fine
  <2> QED BY <1>21, <1>22, <1>23, <2>1
<1>25. r # <<>>
  BY <1>1, <1>14, EmptySeq
<1>26. IsWalk(v, up, root, r, xs, more)
  BY <1>3, <1>14, <1>15, <1>24, <1>25 DEF IsWalk
<1> QED BY <1>26

\* A tree that cannot be read has its fault in a frame that is still open.
BadFrame(v, broken, f) ==
  \/ Malformed(f.node, f.length) \/ BadLeaf(f.node)
  \/ f.node.depth > 0 /\ \E k \in f.index..Len(f.node.entries) : Subtree(v, f.node, k) \in broken

BadAhead(v, broken, st) == \E j \in 1..Len(st) : BadFrame(v, broken, st[j])

LEMMA BadReturns ==
  ASSUME NEW v, NEW broken, NEW st \in Seq(Frames), st # <<>>, BadAhead(v, broken, st),
         ~BadFrame(v, broken, st[1])
  PROVE  BadAhead(v, broken, Tail(st))
<1> DEFINE l == Len(st)
           r == Tail(st)
<1>1. l \in Nat \ {0}
  BY EmptySeq
<1>2. Len(r) = l - 1 /\ \A i \in 1..(l - 1) : r[i] = st[i + 1]
  <2>1. r \in Seq(Frames) /\ Len(r) = l - 1 /\ \A i \in 1..Len(r) : r[i] = st[i + 1]
    BY HeadTailProperties, Zenon
  <2> QED BY <2>1
<1>3. PICK j \in 1..l : BadFrame(v, broken, st[j])
  BY DEF BadAhead
<1> HIDE DEF l, r
<1>4. j - 1 \in 1..(l - 1) /\ (j - 1) + 1 = j
  BY <1>1, <1>3
<1>5. BadFrame(v, broken, r[j - 1])
  BY <1>2, <1>3, <1>4
<1>6. BadAhead(v, broken, r)
  BY <1>2, <1>4, <1>5 DEF BadAhead
<1> QED BY <1>6 DEF r

LEMMA BadEnters ==
  ASSUME NEW v, NEW broken, TreesBroken(v, broken), NEW st \in Seq(Frames), st # <<>>,
         BadAhead(v, broken, st),
         ~Malformed(st[1].node, st[1].length), st[1].node.depth > 0,
         NEW r \in Seq(Frames), Len(r) = Len(st) + 1,
         r[1].index = 1, Tree(r[1]) = Subtree(v, st[1].node, st[1].index),
         r[2].node = st[1].node, r[2].length = st[1].length, r[2].index = st[1].index + 1,
         \A j \in 2..Len(st) : r[j + 1] = st[j]
  PROVE  BadAhead(v, broken, r)
<1> DEFINE l == Len(st)
<1>1. l \in Nat \ {0} /\ 1 \in 1..l
  <2>1. l \in Nat /\ l # 0
    BY EmptySeq
  <2> HIDE DEF l
  <2> QED BY <2>1
<1>2. Len(r) = l + 1 /\ \A j \in 2..l : r[j + 1] = st[j]
  OBVIOUS
<1>3. PICK j \in 1..l : BadFrame(v, broken, st[j])
  BY DEF BadAhead
<1> HIDE DEF l
<1>4. CASE j # 1
  <2>1. j \in 2..l /\ j + 1 \in 1..(l + 1)
    BY <1>1, <1>3, <1>4
  <2>2. BadFrame(v, broken, r[j + 1])
    BY <1>2, <1>3, <2>1
  <2> QED BY <1>2, <2>1, <2>2 DEF BadAhead
<1>5. CASE j = 1
  <2> DEFINE n == st[1].node
             i == st[1].index
             c == Len(n.entries)
  <2>1. ~BadLeaf(n)
    BY DEF BadLeaf
  <2>2. PICK k \in i..c : Subtree(v, n, k) \in broken
    BY <1>3, <1>5, <2>1 DEF BadFrame
  <2>3. i \in Nat /\ c \in Nat
    <3>1. st[1] \in Frames
      BY <1>1, ElementOfSeq, Zenon DEF l
    <3>2. n \in Nodes /\ i \in Nat
      BY <3>1 DEF Frames
    <3> QED BY <3>2, NodesTyped DEF IsNode
  <2>4. CASE k = i
    <3>1. Tree(r[1]) \in broken
      BY <2>2, <2>4
    <3>2. Tree(r[1])[1] = r[1].node /\ Tree(r[1])[2] = r[1].length
      BY DEF Tree
    <3>3. BadFrame(v, broken, r[1])
      BY <3>1, <3>2 DEF TreesBroken, BadFrame
    <3>4. 1 \in 1..(l + 1)
      BY <1>1
    <3> QED BY <1>2, <3>3, <3>4 DEF BadAhead
  <2>5. CASE k # i
    <3>1. k \in (i + 1)..c
      <4> HIDE DEF i, c
      <4> QED BY <2>2, <2>3, <2>5
    <3>2. BadFrame(v, broken, r[2])
      BY <2>2, <3>1 DEF BadFrame
    <3>3. 2 \in 1..(l + 1)
      BY <1>1
    <3> QED BY <1>2, <3>2, <3>3 DEF BadAhead
  <2> QED BY <2>4, <2>5
<1> QED BY <1>4, <1>5

-----------------------------------------------------------------------------
(* What the reader knows of the file it is about. *)

\* What the trees and directory blocks of a volume spell.
Spelled(v) == CHOOSE w : Written(v, w)

\* Every volume that can be mounted holds the file system it is said to hold.
VolumesAreWritten == \A v \in Volumes : MountError(v.superblock) = "none" => \E w : Written(v, w)

\* The reader is mounted on such a volume.
Holds == Placed /\ Written(volume, Spelled(volume))

\* The file whose extents are collected, and what kind of file it has to be.
Subject == IF purpose = "link" THEN entry ELSE current
SubjectKind ==
  IF purpose = "link" THEN "symlink" ELSE IF purpose = "directory" THEN "directory" ELSE "file"

\* Every inode number at hand is that of a file of the volume, and the inode
\* read last belongs to it.
Known ==
  /\ pc \in {"mount", "unmounted"} => current = RootInode /\ handle = 0
  /\ pc \notin {"mount", "unmounted"} =>
       Holds /\ current \in DOMAIN files /\ files[current].kind # "symlink"
  /\ pc = "child" => entry \in DOMAIN files
  /\ pc \in {"idle", "component", "block", "scan", "child"} => handle = 0
  /\ handle # 0 => handle = current
  /\ pc \in {"block", "scan"} => purpose = "directory"
  /\ pc = "opened" => handle # 0 /\ inode = InodeOf(volume, handle)
  /\ pc \in {"collect", "copy"} => (handle # 0 <=> purpose = "file")
  /\ pc \in {"collect", "block", "scan", "copy"} =>
       /\ Subject \in DOMAIN files /\ files[Subject].kind = SubjectKind
       /\ inode = InodeOf(volume, Subject) /\ inode.extents

LEMMA FileFacts ==
  ASSUME NEW v, NEW w, Written(v, w), NEW n \in DOMAIN v.files
  PROVE  /\ InodeOf(v, n).kind = v.files[n].kind /\ InodeOf(v, n).size = v.files[n].size
         /\ v.files[n].kind \in {"directory", "file", "symlink"}
         /\ n \in Nat \ {0}
<1>1. FileWritten(v, w, n) /\ DOMAIN v.files \subseteq Nat \ {0}
  BY DEF Written
<1> QED BY <1>1 DEF FileWritten

LEMMA ReadHeld ==
  ASSUME Holds, NEW n \in DOMAIN files
  PROVE  /\ read_inode(n) = InodeOf(volume, n)
         /\ InodeOf(volume, n).kind = files[n].kind /\ InodeOf(volume, n).size = files[n].size
         /\ files[n].kind \in {"directory", "file", "symlink"} /\ n # 0
<1>1. n \in Nat \ {0} /\ InodeOf(volume, n).kind = files[n].kind
      /\ InodeOf(volume, n).size = files[n].size
      /\ files[n].kind \in {"directory", "file", "symlink"}
  BY FileFacts DEF Holds, files
<1>2. read_inode(n) = InodeOf(volume, n)
  BY <1>1, InodeIs DEF Holds
<1> QED BY <1>1, <1>2

LEMMA RootHeld ==
  ASSUME Holds
  PROVE  RootInode \in DOMAIN files /\ files[RootInode].kind = "directory"
  BY DEF Holds, Written, files

LEMMA InitKnown == Init => Known
  BY DEF Init, Known

LEMMA NewKnown ==
  ASSUME VolumesAreWritten, IndInv, Known, new
  PROVE  Known'
<1>1. /\ pc = "mount" /\ UNCHANGED <<volume, current, handle>>
      /\ \/ pc' = "unmounted"
         \/ /\ MountError(volume.superblock) = "none" /\ geometry' = Geometry(volume.superblock)
            /\ pc' = "idle"
  BY DEF new, pathVars
<1>2. current = RootInode /\ handle = 0 /\ volume \in Volumes
  BY <1>1 DEF Known, IndInv, Mounted
<1>3. CASE pc' = "unmounted"
  BY <1>1, <1>2, <1>3 DEF Known
<1>4. CASE MountError(volume.superblock) = "none" /\ geometry' = Geometry(volume.superblock)
           /\ pc' = "idle"
  <2>1. Written(volume, Spelled(volume))
    BY <1>2, <1>4 DEF VolumesAreWritten, Spelled
  <2>2. Placed'
    BY <1>1, <1>2, <1>4 DEF Placed, Mountable
  <2>3. Written(volume, Spelled(volume))'
    BY <1>1, <2>1 DEF Spelled
  <2>4. Holds'
    BY <2>2, <2>3 DEF Holds
  <2>5. RootInode \in DOMAIN files /\ files[RootInode].kind = "directory"
    BY <2>1 DEF Written, files
  <2>6. files' = files
    BY <1>1 DEF files
  <2> QED BY <1>1, <1>2, <1>4, <2>4, <2>5, <2>6 DEF Known
<1> QED BY <1>1, <1>3, <1>4

LEMMA HoldsNext ==
  ASSUME Holds, UNCHANGED <<volume, geometry>>
  PROVE  Holds' /\ files' = files
<1>1. Placed'
  BY DEF Holds, Placed
<1>2. Written(volume, Spelled(volume))'
  BY DEF Holds, Spelled
<1> QED BY <1>1, <1>2 DEF Holds, files

LEMMA OpenKnown ==
  ASSUME IndInv, Known, open
  PROVE  Known'
<1>1. /\ pc \in {"idle", "done"} /\ pc' = "component" /\ current' = RootInode /\ handle' = 0
      /\ UNCHANGED <<volume, geometry>>
  BY DEF open, Begin, diskVars
<1>2. Holds
  BY <1>1 DEF Known
<1>3. Holds' /\ files' = files
  BY <1>1, <1>2, HoldsNext
<1>4. RootInode \in DOMAIN files /\ files[RootInode].kind = "directory"
  BY <1>2, RootHeld
<1> QED BY <1>1, <1>3, <1>4 DEF Known

LEMMA ResolveKnown ==
  ASSUME IndInv, Known, resolve_path_from
  PROVE  Known'
<1> DEFINE c == read_inode(current)
<1>1. /\ pc = "component" /\ UNCHANGED <<volume, geometry, current, entry>>
      /\ \/ pc' = "done" /\ UNCHANGED handle
         \/ pc' = "opened" /\ inode' = c /\ handle' = current
         \/ pc' = "component" /\ UNCHANGED handle
         \/ c.kind = "directory" /\ Collect(c, "directory") /\ UNCHANGED handle
  BY DEF resolve_path_from, diskVars, scanVars, ReadFails, Return
<1>2. Holds /\ current \in DOMAIN files /\ files[current].kind # "symlink" /\ handle = 0
  BY <1>1 DEF Known
<1>3. c = InodeOf(volume, current) /\ InodeOf(volume, current).kind = files[current].kind /\ current # 0
  BY <1>2, ReadHeld
<1>4. Holds' /\ files' = files
  BY <1>1, <1>2, HoldsNext
<1> HIDE DEF c
<1>5. CASE c.kind = "directory" /\ Collect(c, "directory") /\ UNCHANGED handle
  <2>1. \/ pc' = "done"
        \/ pc' = "collect" /\ inode' = c /\ purpose' = "directory" /\ c.extents
    BY <1>5 DEF Collect, Return
  <2>2. CASE pc' = "done"
    BY <1>1, <1>2, <1>4, <1>5, <2>2 DEF Known
  <2>3. CASE pc' = "collect" /\ inode' = c /\ purpose' = "directory" /\ c.extents
    <3>1. Subject' = current /\ SubjectKind' = "directory"
      BY <1>1, <2>3 DEF Subject, SubjectKind
    <3>2. (InodeOf(volume, Subject))' = InodeOf(volume, current)
      BY <1>1, <3>1
    <3> QED BY <1>1, <1>2, <1>3, <1>4, <1>5, <2>3, <3>1, <3>2 DEF Known
  <2> QED BY <2>1, <2>2, <2>3
<1>6. CASE pc' = "done" /\ UNCHANGED handle
  BY <1>1, <1>2, <1>4, <1>6 DEF Known
<1>7. CASE pc' = "component" /\ UNCHANGED handle
  BY <1>1, <1>2, <1>4, <1>7 DEF Known
<1>8. CASE pc' = "opened" /\ inode' = c /\ handle' = current
  BY <1>1, <1>2, <1>3, <1>4, <1>8 DEF Known
<1> QED BY <1>1, <1>5, <1>6, <1>7, <1>8

LEMMA CollectNodeKnown ==
  ASSUME IndInv, Known, collect_extent_node
  PROVE  Known'
<1>1. /\ pc = "collect" /\ pc' \in {"collect", "done"}
      /\ UNCHANGED <<volume, geometry, current, entry, inode, purpose, handle>>
  BY DEF collect_extent_node, diskVars, pathVars, scanVars, Return, ReadFails
<1>2. Holds' /\ files' = files
  BY <1>1, HoldsNext DEF Known
<1>3. Subject' = Subject /\ SubjectKind' = SubjectKind
  BY <1>1 DEF Subject, SubjectKind
<1>4. (InodeOf(volume, Subject))' = InodeOf(volume, Subject)
  BY <1>1, <1>3
<1> QED BY <1>1, <1>2, <1>3, <1>4 DEF Known

LEMMA CollectedKnown ==
  ASSUME IndInv, Known, extents_collected
  PROVE  Known'
<1>1. /\ pc = "collect" /\ pc' = IF purpose = "directory" THEN "block" ELSE "copy"
      /\ UNCHANGED <<volume, geometry, current, entry, inode, purpose, handle>>
  BY DEF extents_collected, diskVars, pathVars, treeVars
<1>2. Holds' /\ files' = files
  BY <1>1, HoldsNext DEF Known
<1>3. Subject' = Subject /\ SubjectKind' = SubjectKind
  BY <1>1 DEF Subject, SubjectKind
<1>4. (InodeOf(volume, Subject))' = InodeOf(volume, Subject)
  BY <1>1, <1>3
<1>5. purpose = "directory" => handle = 0
  BY <1>1 DEF Known
<1> QED BY <1>1, <1>2, <1>3, <1>4, <1>5 DEF Known

LEMMA BlockKnown ==
  ASSUME IndInv, Known, read_directory_block
  PROVE  Known'
<1>1. /\ pc = "block" /\ pc' \in {"block", "scan", "done"}
      /\ UNCHANGED <<volume, geometry, current, entry, inode, purpose, handle>>
  BY DEF read_directory_block, diskVars, pathVars, treeVars, Return, ReadFails
<1>2. Holds' /\ files' = files
  BY <1>1, HoldsNext DEF Known
<1>3. Subject' = Subject /\ SubjectKind' = SubjectKind
  BY <1>1 DEF Subject, SubjectKind
<1>4. (InodeOf(volume, Subject))' = InodeOf(volume, Subject)
  BY <1>1, <1>3
<1> QED BY <1>1, <1>2, <1>3, <1>4 DEF Known

LEMMA FindKnown ==
  ASSUME IndInv, Known, find_directory_entry
  PROVE  Known'
<1> DEFINE e == DirEntryAt(offset)
<1>1. /\ pc = "scan" /\ pc' \in {"block", "scan", "child", "done"}
      /\ pc' = "child" => entry' = e.inode /\ e.inode # 0
      /\ pc' # "child" => UNCHANGED entry
      /\ UNCHANGED <<volume, geometry, current, inode, purpose, handle>>
  BY DEF find_directory_entry, diskVars, pathVars, treeVars, Return, IsWanted
<1>2. Holds /\ purpose = "directory"
  BY <1>1 DEF Known
<1>3. Holds' /\ files' = files
  BY <1>1, <1>2, HoldsNext
<1>4. Subject' = Subject /\ SubjectKind' = SubjectKind
  BY <1>1, <1>2 DEF Subject, SubjectKind
<1>5. (InodeOf(volume, Subject))' = InodeOf(volume, Subject)
  BY <1>1, <1>4
<1>6. pc' = "child" => entry' \in DOMAIN files
  <2>1. e = NoDirEntry \/ \E a \in DOMAIN volume.entries : e = volume.entries[a]
    BY DEF DirEntryAt, At
  <2>2. e.inode # 0 => e.inode \in DOMAIN files
    <3> HIDE DEF e
    <3>1. \A a \in DOMAIN volume.entries : volume.entries[a].inode \in DOMAIN files \cup {0}
      BY <1>2 DEF Holds, Written, files
    <3> QED BY <2>1, <3>1 DEF NoDirEntry
  <2> QED BY <1>1, <2>2
<1> HIDE DEF e
<1> QED BY <1>1, <1>3, <1>4, <1>5, <1>6 DEF Known

LEMMA ExpandKnown ==
  ASSUME NEW target, Expand(target)
  PROVE  \/ pc' = "done" /\ UNCHANGED current
         \/ pc' = "component" /\ current' \in {RootInode, current}
  BY DEF Expand, Return, Begin

LEMMA ChildKnown ==
  ASSUME IndInv, Known, read_child
  PROVE  Known'
<1> DEFINE c == read_inode(entry)
<1>1. /\ pc = "child" /\ UNCHANGED <<volume, geometry, entry, handle>>
      /\ \/ pc' = "done" /\ UNCHANGED current
         \/ pc' = "component" /\ current' = entry /\ c.kind # "symlink"
         \/ Expand(InlineText(c))
         \/ c.kind = "symlink" /\ Collect(c, "link") /\ UNCHANGED current
  BY DEF read_child, diskVars, scanVars, ReadFails, Return
<1>2. /\ Holds /\ current \in DOMAIN files /\ files[current].kind # "symlink" /\ handle = 0
      /\ entry \in DOMAIN files
  BY <1>1 DEF Known
<1>3. c = InodeOf(volume, entry) /\ c.kind = files[entry].kind
  BY <1>2, ReadHeld
<1>4. Holds' /\ files' = files
  BY <1>1, <1>2, HoldsNext
<1>5. RootInode \in DOMAIN files /\ files[RootInode].kind # "symlink"
  BY <1>2, RootHeld
<1> HIDE DEF c
<1>6. CASE pc' = "done" /\ UNCHANGED current
  BY <1>1, <1>2, <1>4, <1>6 DEF Known
<1>7. CASE pc' = "component" /\ current' = entry /\ c.kind # "symlink"
  BY <1>1, <1>2, <1>3, <1>4, <1>7 DEF Known
<1>8. CASE Expand(InlineText(c))
  <2>1. \/ pc' = "done" /\ UNCHANGED current
        \/ pc' = "component" /\ current' \in {RootInode, current}
    BY <1>8, ExpandKnown
  <2>2. CASE pc' = "component" /\ current' \in {RootInode, current}
    BY <1>1, <1>2, <1>4, <1>5, <2>2 DEF Known
  <2> QED BY <1>6, <2>1, <2>2
<1>9. CASE c.kind = "symlink" /\ Collect(c, "link") /\ UNCHANGED current
  <2>1. \/ pc' = "done"
        \/ pc' = "collect" /\ inode' = c /\ purpose' = "link" /\ c.extents
    BY <1>9 DEF Collect, Return
  <2>2. CASE pc' = "collect" /\ inode' = c /\ purpose' = "link" /\ c.extents
    <3>1. Subject' = entry /\ SubjectKind' = "symlink"
      BY <1>1, <2>2 DEF Subject, SubjectKind
    <3>2. (InodeOf(volume, Subject))' = InodeOf(volume, entry)
      BY <1>1, <3>1
    <3> QED BY <1>1, <1>2, <1>3, <1>4, <1>9, <2>2, <3>1, <3>2 DEF Known
  <2> QED BY <1>6, <1>9, <2>1, <2>2
<1> QED BY <1>1, <1>6, <1>7, <1>8, <1>9

LEMMA LoadKnown ==
  ASSUME IndInv, Known, load_into_allocated_pages
  PROVE  Known'
<1>1. /\ pc = "opened" /\ UNCHANGED <<volume, geometry, current, entry, handle>>
      /\ \/ pc' = "done"
         \/ inode.kind # "directory" /\ Collect(inode, "file")
  BY DEF load_into_allocated_pages, diskVars, pathVars, scanVars, Return
<1>2. /\ Holds /\ current \in DOMAIN files /\ files[current].kind # "symlink" /\ handle # 0
      /\ handle = current /\ inode = InodeOf(volume, current)
  BY <1>1 DEF Known
<1>3. Holds' /\ files' = files
  BY <1>1, <1>2, HoldsNext
<1>4. inode.kind = files[current].kind /\ files[current].kind \in {"directory", "file", "symlink"}
  BY <1>2, ReadHeld
<1>5. CASE pc' = "done"
  BY <1>1, <1>2, <1>3, <1>5 DEF Known
<1>6. CASE inode.kind # "directory" /\ Collect(inode, "file")
  <2>1. \/ pc' = "done"
        \/ pc' = "collect" /\ inode' = inode /\ purpose' = "file" /\ inode.extents
    BY <1>6 DEF Collect, Return
  <2>2. CASE pc' = "collect" /\ inode' = inode /\ purpose' = "file" /\ inode.extents
    <3>1. Subject' = current /\ SubjectKind' = "file"
      BY <1>1, <2>2 DEF Subject, SubjectKind
    <3>2. (InodeOf(volume, Subject))' = InodeOf(volume, current)
      BY <1>1, <3>1
    <3> QED BY <1>1, <1>2, <1>3, <1>4, <1>6, <2>2, <3>1, <3>2 DEF Known
  <2> QED BY <1>5, <2>1, <2>2
<1> QED BY <1>1, <1>5, <1>6

LEMMA ContentsKnown ==
  ASSUME IndInv, Known, read_inode_contents
  PROVE  Known'
<1>1. /\ pc = "copy" /\ UNCHANGED <<volume, geometry, entry, inode, purpose, handle>>
      /\ \/ pc' = "done" /\ UNCHANGED current
         \/ purpose = "link" /\ Expand(TextOf(buffer))
         \/ UNCHANGED <<pc, current>>
  BY DEF read_inode_contents, diskVars, treeVars, Return, ReadFails
<1>2. Holds /\ current \in DOMAIN files /\ files[current].kind # "symlink"
  BY <1>1 DEF Known
<1>3. Holds' /\ files' = files
  BY <1>1, <1>2, HoldsNext
<1>4. RootInode \in DOMAIN files /\ files[RootInode].kind # "symlink"
  BY <1>2, RootHeld
<1>5. CASE pc' = "done" /\ UNCHANGED current
  BY <1>1, <1>2, <1>3, <1>5 DEF Known
<1>6. CASE purpose = "link" /\ Expand(TextOf(buffer))
  <2>1. \/ pc' = "done" /\ UNCHANGED current
        \/ pc' = "component" /\ current' \in {RootInode, current}
    BY <1>6, ExpandKnown
  <2>2. CASE pc' = "component" /\ current' \in {RootInode, current}
    BY <1>1, <1>2, <1>3, <1>4, <1>6, <2>2 DEF Known
  <2> QED BY <1>5, <2>1, <2>2
<1>7. CASE UNCHANGED <<pc, current>>
  <2>1. Subject' = Subject /\ SubjectKind' = SubjectKind
    BY <1>1, <1>7 DEF Subject, SubjectKind
  <2>2. (InodeOf(volume, Subject))' = InodeOf(volume, Subject)
    BY <1>1, <2>1
  <2> QED BY <1>1, <1>3, <1>7, <2>1, <2>2 DEF Known
<1> QED BY <1>1, <1>5, <1>6, <1>7

LEMMA NextKnown ==
  ASSUME VolumesAreWritten, IndInv, Known, [Next]_vars
  PROVE  Known'
<1>1. CASE UNCHANGED vars
  <2>1. UNCHANGED <<volume, geometry, pc, current, entry, inode, purpose, handle>>
    BY <1>1 DEF vars, diskVars, pathVars, treeVars, scanVars
  <2>2. files' = files /\ Subject' = Subject /\ SubjectKind' = SubjectKind
    BY <2>1 DEF files, Subject, SubjectKind
  <2>3. Holds => Holds'
    BY <2>1, HoldsNext
  <2>4. (InodeOf(volume, Subject))' = InodeOf(volume, Subject)
    BY <2>1, <2>2
  <2> QED BY <2>1, <2>2, <2>3, <2>4 DEF Known
<1>2. CASE Next
  BY <1>1, <1>2, NewKnown, OpenKnown, ResolveKnown, CollectNodeKnown, CollectedKnown, BlockKnown,
     FindKnown, ChildKnown, LoadKnown, ContentsKnown DEF Next, Step, Unmounted
<1> QED BY <1>1, <1>2

-----------------------------------------------------------------------------
(* The extents of the file. *)

\* The extents in the tree of an inode, in order.
Below(i) == Whole(Spelled(volume).upto, TreeOf(i))

\* Either what was collected is what the tree holds in front of where the walk
\* stands, or a node that cannot be read lies ahead.
WalkGoes ==
  \/ /\ TreeOf(inode) \in DOMAIN Spelled(volume).upto
     /\ \E base : IsWalk(volume, Spelled(volume).upto, TreeOf(inode), stack, extents, base)
  \/ /\ TreeOf(inode) \notin DOMAIN Spelled(volume).upto
     /\ BadAhead(volume, Spelled(volume).broken, stack)

Gathered == TreeOf(inode) \in DOMAIN Spelled(volume).upto /\ extents = Below(inode)

\* Behind the walk the extents are those of the whole tree.
Collected ==
  /\ pc = "collect" => WalkGoes
  /\ pc \in {"block", "scan", "copy"} => Gathered

LEMMA BelowIs ==
  ASSUME NEW i
  PROVE  Below(i) = ExtentsOf(i, Spelled(volume).upto)
<1>1. TreeOf(i)[1] = i.tree
  BY DEF TreeOf
<1> QED BY <1>1 DEF Below, Whole, ExtentsOf

LEMMA InodeHeld ==
  ASSUME Holds, NEW n \in DOMAIN files
  PROVE  InodeOf(volume, n) \in Inodes
<1>1. read_inode(n) \in Inodes
  BY InodeRead DEF Holds, Placed, Mountable
<1> QED BY <1>1, ReadHeld

LEMMA WalkBegins ==
  ASSUME Holds, NEW n \in DOMAIN files, NEW i, i = InodeOf(volume, n), i.extents,
         NEW st, st = <<[node |-> i.tree, length |-> InlineBytes, index |-> 1]>>
  PROVE  \/ /\ TreeOf(i) \in DOMAIN Spelled(volume).upto
            /\ \E base : IsWalk(volume, Spelled(volume).upto, TreeOf(i), st, <<>>, base)
         \/ /\ TreeOf(i) \notin DOMAIN Spelled(volume).upto
            /\ BadAhead(volume, Spelled(volume).broken, st)
<1> DEFINE w == Spelled(volume)
           up == w.upto
           root == TreeOf(i)
           f == [node |-> i.tree, length |-> InlineBytes, index |-> 1]
<1>1. TreesWritten(volume, up) /\ TreesBroken(volume, w.broken) /\ FileWritten(volume, w, n)
  BY DEF Holds, Written, files
<1>2. root \in DOMAIN up \/ (root \notin DOMAIN up /\ root \in w.broken)
  <2>1. w.preallocated \subseteq w.broken
    BY DEF Holds, Written, TreesPreallocated
  <2> QED BY <1>1, <2>1 DEF FileWritten
<1>3. Len(st) = 1 /\ st[1] = f /\ st # <<>>
  OBVIOUS
<1>4. f.node = i.tree /\ f.length = InlineBytes /\ f.index = 1 /\ Tree(f) = root
      /\ root = <<i.tree, InlineBytes>>
  BY DEF Tree, TreeOf
<1>5. i.tree \in Nodes /\ Len(i.tree.entries) \in Nat
  <2>1. i \in Inodes
    BY InodeHeld
  <2> QED BY <2>1, InodesTyped DEF IsNode
<1> HIDE DEF f, root
<1>6. CASE root \in DOMAIN up
  <2> DEFINE base == [j \in 1..1 |-> <<>>]
  <2>1. base[1] = <<>> /\ <<>> \in Seq(Extents) /\ Len(<<>>) = 0
    OBVIOUS
  <2> HIDE DEF base
  <2>2. TreeIs(volume, up, i.tree, InlineBytes)
    BY <1>1, <1>4, <1>6, TreeFacts, Zenon
  <2>3. up[root][0] = <<>>
    BY <1>4, <2>2 DEF TreeIs
  <2>4. Whole(up, root) \in Seq(Extents)
    BY <1>1, <1>4, <1>5, <1>6, WholeTyped
  <2>5. Len(base[1]) + Len(Whole(up, root)) <= Len(Whole(up, root))
    <3>1. Len(Whole(up, root)) \in Nat
      BY <2>4
    <3> QED BY <2>1, <3>1
  <2>6. <<>> = Glue(base[1], up[Tree(st[1])][st[1].index - 1])
    <3>1. st[1].index - 1 = 0 /\ Tree(st[1]) = root
      BY <1>3, <1>4
    <3>2. Glue(<<>>, <<>>) = <<>>
      BY <2>1, GlueEmpty
    <3> QED BY <2>1, <2>3, <3>1, <3>2
  <2>7. 1 \in 1..(Len(i.tree.entries) + 1)
    BY <1>5
  <2>8. ASSUME NEW j \in 1..Len(st)
        PROVE  /\ base[j] \in Seq(Extents) /\ Tree(st[j]) \in DOMAIN up
               /\ st[j].index \in 1..(Len(st[j].node.entries) + 1)
               /\ st[j].node.depth = 0 => st[j].index = 1
               /\ Len(base[j]) + Len(Whole(up, Tree(st[j]))) <= Len(Whole(up, root))
               /\ j = Len(st) /\ Tree(st[j]) = root /\ base[j] = <<>>
    <3>1. j = 1 /\ Len(st) = 1
      BY <1>3
    <3> QED BY <1>3, <1>4, <1>6, <2>1, <2>5, <2>7, <3>1
  <2>9. IsWalk(volume, up, root, st, <<>>, base)
    BY <1>3, <2>4, <2>6, <2>8 DEF IsWalk
  <2> QED BY <1>6, <2>9 DEF root
<1>7. CASE root \notin DOMAIN up /\ root \in w.broken
  <2>1. root[1] = f.node /\ root[2] = f.length
    BY <1>4
  <2>2. BadFrame(volume, w.broken, f)
    BY <1>1, <1>4, <1>7, <2>1 DEF TreesBroken, BadFrame
  <2>3. BadAhead(volume, w.broken, st)
    BY <1>3, <2>2 DEF BadAhead
  <2> QED BY <1>7, <2>3 DEF root
<1> QED BY <1>2, <1>6, <1>7

\* What collect_extent_node refuses cannot be read, or has more extents than fit.
LEMMA CollectRefuses ==
  ASSUME Holds, WalkGoes, stack \in Seq(Frames), stack # <<>>, extents \in Seq(Extents),
         \/ Malformed(stack[1].node, stack[1].length)
         \/ stack[1].node.depth = 0 /\ Uncollectable(stack[1].node)
  PROVE  \/ TreeOf(inode) \notin DOMAIN Spelled(volume).upto
         \/ Len(Below(inode)) > MaxExtents
<1> DEFINE up == Spelled(volume).upto
           root == TreeOf(inode)
           n == stack[1].node
           l == stack[1].length
<1> SUFFICES ASSUME TreeOf(inode) \in DOMAIN Spelled(volume).upto
             PROVE  Len(Below(inode)) > MaxExtents
  OBVIOUS
<1>1. PICK base : IsWalk(volume, up, root, stack, extents, base)
  BY DEF WalkGoes
<1>2. root \in DOMAIN up
  OBVIOUS
<1>3. Len(stack) \in Nat /\ 1 \in 1..Len(stack)
  <2>1. Len(stack) \in Nat /\ Len(stack) # 0
    BY EmptySeq
  <2> QED BY <2>1
<1>4. /\ base[1] \in Seq(Extents) /\ <<n, l>> \in DOMAIN up
      /\ n.depth = 0 => stack[1].index = 1
      /\ Len(base[1]) + Len(Whole(up, <<n, l>>)) <= Len(Whole(up, root))
      /\ Whole(up, root) \in Seq(Extents)
      /\ extents = Glue(base[1], up[<<n, l>>][stack[1].index - 1])
  BY <1>1, <1>3 DEF IsWalk, Tree
<1>5. TreeIs(volume, up, n, l)
  <2>1. TreesWritten(volume, up)
    BY DEF Holds, Written
  <2> QED BY <1>4, <2>1, TreeFacts, Zenon
<1>6. n.depth = 0 /\ Len(extents) + Len(n.entries) > MaxExtents
  BY <1>5 DEF TreeIs, BadLeaf, Uncollectable
<1>7. n \in Nodes
  <2>1. stack[1] \in Frames
    BY <1>3, ElementOfSeq, Zenon
  <2> QED BY <2>1 DEF Frames
<1>8. Whole(up, <<n, l>>) = LeafExtents(n) /\ Len(LeafExtents(n)) = Len(n.entries)
      /\ Len(n.entries) \in Nat
  BY <1>5, <1>6, <1>7, LeafTyped, NodesTyped DEF TreeIs, IsNode
<1>9. extents = base[1]
  <2>1. up[<<n, l>>][0] = <<>> /\ stack[1].index - 1 = 0
    BY <1>4, <1>5, <1>6 DEF TreeIs
  <2> QED BY <1>4, <2>1, GlueEmpty
<1>10. Len(base[1]) \in Nat /\ Len(Whole(up, root)) \in Nat
  BY <1>4
<1>11. Len(Whole(up, root)) > MaxExtents
  <2> DEFINE x == Len(base[1])
             y == Len(n.entries)
             z == Len(Whole(up, root))
  <2>1. x \in Nat /\ y \in Nat /\ z \in Nat /\ x + y <= z /\ x + y > MaxExtents
    BY <1>4, <1>6, <1>8, <1>9, <1>10
  <2> HIDE DEF x, y, z
  <2>2. z > MaxExtents
    BY <2>1, Sizes
  <2> QED BY <2>2 DEF z
<1> QED BY <1>2, <1>11 DEF Below

\* The stack that Descend makes.
LEMMA DescendIs ==
  ASSUME Holds, stack \in Seq(Frames), stack # <<>>,
         stack[1].index \in 1..Len(stack[1].node.entries), NEW r, r = Descend(stack[1])
  PROVE  /\ r \in Seq(Frames) /\ Len(r) = Len(stack) + 1
         /\ r[1].index = 1 /\ Tree(r[1]) = Subtree(volume, stack[1].node, stack[1].index)
         /\ r[2].node = stack[1].node /\ r[2].length = stack[1].length
         /\ r[2].index = stack[1].index + 1
         /\ \A j \in 2..Len(stack) : r[j + 1] = stack[j]
<1> DEFINE f == stack[1]
           n == f.node
           k == f.index
           c == At(volume.nodes, Child(n, k), NoNode)
           a == [node |-> c, length |-> geometry.block_size, index |-> 1]
           b == [f EXCEPT !.index = @ + 1]
           t == Tail(stack)
           l == Len(stack)
<1>1. r \in Seq(Frames)
  <2>1. volume \in Volumes /\ geometry.block_size \in Nat
    BY PlacedFields, MountableTyped DEF Holds, Placed, Mountable
  <2> QED BY <2>1, DescendTyped
<1>2. l \in Nat \ {0} /\ 1 \in 1..l
  <2>1. l \in Nat /\ l # 0
    BY EmptySeq
  <2> HIDE DEF l
  <2> QED BY <2>1
<1>3. f \in Frames
  BY <1>2, ElementOfSeq, Zenon
<1>4. t \in Seq(Frames) /\ Len(t) = l - 1 /\ \A i \in 1..(l - 1) : t[i] = stack[i + 1]
  <2>1. t \in Seq(Frames) /\ Len(t) = l - 1 /\ \A i \in 1..Len(t) : t[i] = stack[i + 1]
    BY HeadTailProperties, Zenon
  <2> QED BY <2>1
<1>5. b.node = n /\ b.length = f.length /\ b.index = k + 1
  <2>1. f = [node |-> f.node, length |-> f.length, index |-> f.index]
    BY <1>3 DEF Frames
  <2>2. ASSUME NEW x, NEW y, NEW z
        PROVE  [[node |-> x, length |-> y, index |-> z] EXCEPT !.index = @ + 1]
                 = [node |-> x, length |-> y, index |-> z + 1]
    OBVIOUS
  <2>3. b = [node |-> f.node, length |-> f.length, index |-> f.index + 1]
    BY <2>1, <2>2
  <2> HIDE DEF b
  <2> QED BY <2>3
<1>6. a.index = 1 /\ Tree(a) = <<c, geometry.block_size>>
  BY DEF Tree
<1>7. r = <<a, b>> \o t
  BY Zenon DEF Descend
<1> HIDE DEF a, b, t, l, f, c
<1>8. Len(r) = l + 1 /\ r[1] = a /\ r[2] = b
  <2>1. t \in Seq(Frames) /\ Len(t) = l - 1
    BY <1>4
  <2>2. ASSUME NEW q \in Seq(Frames), NEW x, NEW y
        PROVE  Len(<<x, y>> \o q) = 2 + Len(q) /\ (<<x, y>> \o q)[1] = x /\ (<<x, y>> \o q)[2] = y
    OBVIOUS
  <2>3. Len(r) = 2 + Len(t) /\ r[1] = a /\ r[2] = b
    BY <1>7, <2>1, <2>2, SMT
  <2> QED BY <1>2, <2>1, <2>3
<1>9. ASSUME NEW j \in 2..l PROVE r[j + 1] = stack[j]
  <2>1. ASSUME NEW q \in Seq(Frames), NEW x, NEW y, NEW i \in 1..Len(q)
        PROVE  (<<x, y>> \o q)[i + 2] = q[i]
    OBVIOUS
  <2>2. j - 1 \in 1..(l - 1) /\ (j - 1) + 2 = j + 1 /\ (j - 1) + 1 = j
    BY <1>2
  <2>3. j - 1 \in 1..Len(t)
    BY <1>4, <2>2
  <2>4. r[(j - 1) + 2] = t[j - 1]
    BY <1>4, <1>7, <2>1, <2>3
  <2> QED BY <1>4, <2>2, <2>4
<1>10. <<c, geometry.block_size>> = Subtree(volume, n, k)
  <2>1. geometry.block_size = BlockSize(volume.superblock)
    BY PlacedFields DEF Holds
  <2>2. n.entries[k].high \in Nat /\ n.entries[k].low \in Nat
    <3>1. n \in Nodes
      BY <1>3 DEF Frames
    <3>2. k \in 1..Len(n.entries)
      BY DEF f
    <3> QED BY <3>1, <3>2, NodesTyped DEF IsNode
  <2>3. Join(n.entries[k].high, n.entries[k].low) \in Int
    <3>1. ASSUME NEW x \in Nat, NEW y \in Nat PROVE Join(x, y) \in Int
      BY Sizes DEF Join
    <3> QED BY <2>2, <3>1
  <2>4. Child(n, k) = PlaceOf(volume, Join(n.entries[k].high, n.entries[k].low))
    BY <2>3, BlockPlace DEF Holds, Child
  <2> QED BY <2>1, <2>4, Zenon DEF Subtree, c
<1> QED BY <1>1, <1>5, <1>6, <1>8, <1>9, <1>10 DEF f, l

\* One step of the walk.
LEMMA WalkSteps ==
  ASSUME IndInv, Holds, WalkGoes, collect_extent_node, pc' = "collect"
  PROVE  WalkGoes'
<1> DEFINE w == Spelled(volume)
           up == w.upto
           root == TreeOf(inode)
           n == stack[1].node
           l == stack[1].length
           k == stack[1].index
<1>1. /\ pc = "collect" /\ stack # <<>> /\ UNCHANGED <<volume, geometry, inode>>
      /\ ~Malformed(n, l)
      /\ \/ /\ n.depth = 0 /\ ~Uncollectable(n) /\ extents' = extents \o LeafExtents(n)
            /\ stack' = Tail(stack)
         \/ /\ n.depth > 0 /\ Len(n.entries) - k + 1 = 0 /\ stack' = Tail(stack)
            /\ UNCHANGED extents
         \/ /\ n.depth > 0 /\ Len(n.entries) - k + 1 > 0 /\ stack' = Descend(stack[1])
            /\ UNCHANGED extents
  BY DEF collect_extent_node, Return, ReadFails, diskVars
<1>2. stack \in Seq(Frames) /\ extents \in Seq(Extents) /\ volume \in Volumes
  BY DEF IndInv, Walking, Mounted
<1>3. TreesWritten(volume, up) /\ TreesBroken(volume, w.broken)
  BY DEF Holds, Written
<1>4. Spelled(volume)' = w /\ TreeOf(inode)' = root
  BY <1>1
<1>5. 1 \in 1..Len(stack)
  <2>1. Len(stack) \in Nat /\ Len(stack) # 0
    BY <1>1, <1>2, EmptySeq
  <2> QED BY <2>1
<1>6. n \in Nodes /\ Len(n.entries) \in Nat /\ k \in Nat \ {0}
  <2>1. stack[1] \in Frames
    BY <1>2, <1>5, ElementOfSeq, Zenon
  <2>2. n \in Nodes /\ k \in Nat \ {0}
    BY <2>1 DEF Frames
  <2> QED BY <2>2, NodesTyped DEF IsNode
<1>7. n.depth > 0 /\ Len(n.entries) - k + 1 > 0 => k \in 1..Len(n.entries)
  <2> DEFINE c == Len(n.entries)
  <2> HIDE DEF k, c
  <2>1. c - k + 1 > 0 => k \in 1..c
    BY <1>6 DEF c
  <2> QED BY <2>1 DEF c
<1>8. CASE root \notin DOMAIN up /\ BadAhead(volume, w.broken, stack)
  <2>1. CASE n.depth = 0 /\ ~Uncollectable(n) /\ stack' = Tail(stack)
    <3>1. ~BadFrame(volume, w.broken, stack[1])
      BY <1>1, <2>1 DEF BadFrame, BadLeaf, Uncollectable
    <3>2. BadAhead(volume, w.broken, Tail(stack))
      BY <1>1, <1>2, <1>8, <3>1, BadReturns, Zenon
    <3> QED BY <1>1, <1>4, <1>8, <2>1, <3>2 DEF WalkGoes
  <2>2. CASE n.depth > 0 /\ Len(n.entries) - k + 1 = 0 /\ stack' = Tail(stack)
    <3>1. \A j \in k..Len(n.entries) : FALSE
      <4> DEFINE c == Len(n.entries)
      <4> HIDE DEF k, c
      <4> QED BY <1>6, <2>2 DEF c
    <3>2. ~BadFrame(volume, w.broken, stack[1])
      <4>1. ~BadLeaf(n)
        BY <2>2 DEF BadLeaf
      <4> QED BY <1>1, <3>1, <4>1 DEF BadFrame
    <3>3. BadAhead(volume, w.broken, Tail(stack))
      BY <1>1, <1>2, <1>8, <3>2, BadReturns, Zenon
    <3> QED BY <1>1, <1>4, <1>8, <2>2, <3>3 DEF WalkGoes
  <2>3. CASE n.depth > 0 /\ Len(n.entries) - k + 1 > 0 /\ stack' = Descend(stack[1])
    <3> DEFINE r == Descend(stack[1])
    <3>1. /\ r \in Seq(Frames) /\ Len(r) = Len(stack) + 1
          /\ r[1].index = 1 /\ Tree(r[1]) = Subtree(volume, n, k)
          /\ r[2].node = n /\ r[2].length = l /\ r[2].index = k + 1
          /\ \A j \in 2..Len(stack) : r[j + 1] = stack[j]
      BY <1>1, <1>2, <1>7, <2>3, DescendIs
    <3> HIDE DEF r
    <3>2. BadAhead(volume, w.broken, r)
      BY <1>1, <1>2, <1>3, <1>8, <2>3, <3>1, BadEnters
    <3> QED BY <1>1, <1>4, <1>8, <2>3, <3>2 DEF WalkGoes, r
  <2> QED BY <1>1, <2>1, <2>2, <2>3
<1>9. CASE root \in DOMAIN up /\ \E base : IsWalk(volume, up, root, stack, extents, base)
  <2>1. PICK base : IsWalk(volume, up, root, stack, extents, base)
    BY <1>9
  <2>2. /\ base[1] \in Seq(Extents) /\ <<n, l>> \in DOMAIN up
        /\ n.depth = 0 => k = 1
        /\ extents = Glue(base[1], up[<<n, l>>][k - 1])
    BY <1>1, <1>5, <2>1 DEF IsWalk, Tree
  <2>3. TreeIs(volume, up, n, l)
    BY <1>3, <2>2, TreeFacts, Zenon
  <2>4. CASE n.depth = 0 /\ extents' = extents \o LeafExtents(n) /\ stack' = Tail(stack)
    <3>1. Whole(up, <<n, l>>) = LeafExtents(n) /\ up[<<n, l>>][0] = <<>> /\ k - 1 = 0
      <4>1. Whole(up, <<n, l>>) = LeafExtents(n) /\ up[<<n, l>>][0] = <<>>
        BY <2>3, <2>4, Zenon DEF TreeIs
      <4>2. k = 1
        BY <2>2, <2>4, Zenon
      <4> QED BY <4>1, <4>2
    <3>2. extents = base[1]
      BY <2>2, <3>1, GlueEmpty
    <3>3. extents' = Glue(base[1], Whole(up, Tree(stack[1])))
      BY <2>4, <3>1, <3>2 DEF Glue, Tree
    <3>4. ASSUME NEW ys, ys = Glue(base[1], Whole(up, Tree(stack[1])))
          PROVE  \E more : IsWalk(volume, up, root, Tail(stack), ys, more)
      BY <1>1, <1>2, <1>3, <2>1, <3>4, WalkReturns, Zenon
    <3>5. \E more : IsWalk(volume, up, root, Tail(stack), extents', more)
      BY <3>3, <3>4
    <3> QED BY <1>1, <1>4, <1>9, <2>4, <3>5 DEF WalkGoes
  <2>5. CASE n.depth > 0 /\ Len(n.entries) - k + 1 = 0 /\ stack' = Tail(stack)
             /\ UNCHANGED extents
    <3>1. k - 1 = Len(n.entries)
      BY <1>6, <2>5, SMTT(40)
    <3>2. Whole(up, <<n, l>>) = up[<<n, l>>][Len(n.entries)]
      BY <2>3 DEF TreeIs
    <3>3. extents = Glue(base[1], Whole(up, Tree(stack[1])))
      BY <2>2, <3>1, <3>2 DEF Tree
    <3>4. \E more : IsWalk(volume, up, root, Tail(stack), extents, more)
      BY <1>1, <1>2, <1>3, <2>1, <3>3, WalkReturns
    <3> QED BY <1>1, <1>4, <1>9, <2>5, <3>4 DEF WalkGoes
  <2>6. CASE n.depth > 0 /\ Len(n.entries) - k + 1 > 0 /\ stack' = Descend(stack[1])
             /\ UNCHANGED extents
    <3> DEFINE r == Descend(stack[1])
    <3>1. /\ r \in Seq(Frames) /\ Len(r) = Len(stack) + 1
          /\ r[1].index = 1 /\ Tree(r[1]) = Subtree(volume, n, k)
          /\ r[2].node = n /\ r[2].length = l /\ r[2].index = k + 1
          /\ \A j \in 2..Len(stack) : r[j + 1] = stack[j]
      BY <1>1, <1>2, <1>7, <2>6, DescendIs
    <3>2. k <= Len(n.entries)
      BY <1>6, <1>7, <2>6
    <3> HIDE DEF r
    <3>3. \E more : IsWalk(volume, up, root, r, extents, more)
      BY <1>1, <1>2, <1>3, <2>1, <2>6, <3>1, <3>2, WalkEnters
    <3> QED BY <1>1, <1>4, <1>9, <2>6, <3>3 DEF WalkGoes, r
  <2> QED BY <1>1, <2>4, <2>5, <2>6
<1> QED BY <1>8, <1>9 DEF WalkGoes

LEMMA CollectBegins ==
  ASSUME Holds, NEW n \in DOMAIN files, NEW i, i = InodeOf(volume, n), NEW why, Collect(i, why),
         UNCHANGED <<volume, geometry>>
  PROVE  \/ pc' = "done" /\ ~i.extents /\ result' = "UnsupportedMapping"
         \/ pc' = "collect" /\ WalkGoes' /\ inode' = i
<1>1. CASE ~i.extents
  BY <1>1 DEF Collect, Return
<1>2. CASE i.extents
  <2>1. /\ pc' = "collect" /\ inode' = i /\ extents' = <<>>
        /\ stack' = <<[node |-> i.tree, length |-> InlineBytes, index |-> 1]>>
    BY <1>2 DEF Collect
  <2>2. ASSUME NEW st, st = <<[node |-> i.tree, length |-> InlineBytes, index |-> 1]>>
        PROVE  \/ /\ TreeOf(i) \in DOMAIN Spelled(volume).upto
                  /\ \E base : IsWalk(volume, Spelled(volume).upto, TreeOf(i), st, <<>>, base)
               \/ /\ TreeOf(i) \notin DOMAIN Spelled(volume).upto
                  /\ BadAhead(volume, Spelled(volume).broken, st)
    BY <1>2, <2>2, WalkBegins
  <2>3. \/ /\ TreeOf(i) \in DOMAIN Spelled(volume).upto
           /\ \E base : IsWalk(volume, Spelled(volume).upto, TreeOf(i), stack', <<>>, base)
        \/ /\ TreeOf(i) \notin DOMAIN Spelled(volume).upto
           /\ BadAhead(volume, Spelled(volume).broken, stack')
    BY <2>1, <2>2
  <2>4. volume' = volume
    OBVIOUS
  <2>5. WalkGoes'
    BY <2>1, <2>3, <2>4, Zenon DEF WalkGoes
  <2> QED BY <2>1, <2>5
<1> QED BY <1>1, <1>2

LEMMA ResolveCollected ==
  ASSUME IndInv, Known, Collected, resolve_path_from
  PROVE  Collected'
<1> DEFINE c == read_inode(current)
<1>1. /\ pc = "component" /\ UNCHANGED <<volume, geometry>>
      /\ \/ pc' \in {"done", "opened", "component"}
         \/ Collect(c, "directory")
  BY DEF resolve_path_from, diskVars, ReadFails, Return
<1>2. Holds /\ current \in DOMAIN files
  BY <1>1 DEF Known
<1>3. c = InodeOf(volume, current)
  BY <1>2, ReadHeld
<1> HIDE DEF c
<1>4. CASE Collect(c, "directory")
  BY <1>1, <1>2, <1>3, <1>4, CollectBegins DEF Collected
<1>5. CASE pc' \in {"done", "opened", "component"}
  BY <1>5 DEF Collected
<1> QED BY <1>1, <1>4, <1>5

LEMMA ChildCollected ==
  ASSUME IndInv, Known, Collected, read_child
  PROVE  Collected'
<1> DEFINE c == read_inode(entry)
<1>1. /\ pc = "child" /\ UNCHANGED <<volume, geometry>>
      /\ \/ pc' \in {"done", "component"}
         \/ Expand(InlineText(c))
         \/ Collect(c, "link")
  BY DEF read_child, diskVars, ReadFails, Return
<1>2. Holds /\ entry \in DOMAIN files
  BY <1>1 DEF Known
<1>3. c = InodeOf(volume, entry)
  BY <1>2, ReadHeld
<1> HIDE DEF c
<1>4. CASE Collect(c, "link")
  BY <1>1, <1>2, <1>3, <1>4, CollectBegins DEF Collected
<1>5. CASE Expand(InlineText(c))
  BY <1>5, ExpandKnown DEF Collected
<1>6. CASE pc' \in {"done", "component"}
  BY <1>6 DEF Collected
<1> QED BY <1>1, <1>4, <1>5, <1>6

LEMMA LoadCollected ==
  ASSUME IndInv, Known, Collected, load_into_allocated_pages
  PROVE  Collected'
<1>1. /\ pc = "opened" /\ UNCHANGED <<volume, geometry>>
      /\ pc' = "done" \/ Collect(inode, "file")
  BY DEF load_into_allocated_pages, diskVars, Return
<1>2. Holds /\ current \in DOMAIN files /\ inode = InodeOf(volume, current)
  BY <1>1 DEF Known
<1>3. CASE Collect(inode, "file")
  BY <1>1, <1>2, <1>3, CollectBegins DEF Collected
<1>4. CASE pc' = "done"
  BY <1>4 DEF Collected
<1> QED BY <1>1, <1>3, <1>4

LEMMA CollectNodeCollected ==
  ASSUME IndInv, Known, Collected, collect_extent_node
  PROVE  Collected'
<1>1. pc = "collect" /\ pc' \in {"collect", "done"}
  BY DEF collect_extent_node, Return, ReadFails
<1>2. Holds /\ WalkGoes
  BY <1>1 DEF Known, Collected
<1>3. pc' = "collect" => WalkGoes'
  BY <1>2, WalkSteps
<1> QED BY <1>1, <1>3 DEF Collected

LEMMA CollectedCollected ==
  ASSUME IndInv, Known, Collected, extents_collected
  PROVE  Collected'
<1>1. /\ pc = "collect" /\ stack = <<>> /\ pc' \in {"block", "copy"}
      /\ UNCHANGED <<volume, inode, extents>>
  BY DEF extents_collected, diskVars, treeVars
<1>2. WalkGoes
  BY <1>1 DEF Collected
<1>3. ~BadAhead(volume, Spelled(volume).broken, stack)
  BY <1>1 DEF BadAhead
<1>4. Gathered
  BY <1>1, <1>2, <1>3 DEF WalkGoes, IsWalk, Gathered, Below
<1>5. Gathered'
  BY <1>1, <1>4 DEF Gathered, Below
<1> QED BY <1>1, <1>5 DEF Collected

LEMMA GatheredNext ==
  ASSUME Gathered, UNCHANGED <<volume, inode, extents>>
  PROVE  Gathered'
  BY DEF Gathered, Below

LEMMA NextCollected ==
  ASSUME IndInv, Known, Collected, [Next]_vars
  PROVE  Collected'
<1>1. CASE UNCHANGED vars
  <2>1. UNCHANGED <<volume, inode, extents, stack, pc>>
    BY <1>1 DEF vars, diskVars, treeVars
  <2>2. WalkGoes => WalkGoes'
    BY <2>1 DEF WalkGoes
  <2> QED BY <2>1, <2>2, GatheredNext DEF Collected
<1>2. CASE new \/ open
  <2>1. pc' \in {"unmounted", "idle", "component"}
    BY <1>2 DEF new, open, Begin
  <2> QED BY <2>1 DEF Collected
<1>3. CASE read_directory_block \/ find_directory_entry
  <2>1. pc \in {"block", "scan"} /\ pc' # "collect" /\ UNCHANGED <<volume, inode, extents>>
    BY <1>3 DEF read_directory_block, find_directory_entry, Return, ReadFails, diskVars, treeVars
  <2> QED BY <2>1, GatheredNext DEF Collected
<1>4. CASE read_inode_contents
  <2>1. /\ pc = "copy" /\ UNCHANGED <<volume, inode, extents>>
        /\ pc' \in {"copy", "done"} \/ Expand(TextOf(buffer))
    BY <1>4 DEF read_inode_contents, Return, ReadFails, diskVars, treeVars
  <2>2. pc' \in {"copy", "done", "component"}
    BY <2>1, ExpandKnown
  <2> QED BY <2>1, <2>2, GatheredNext DEF Collected
<1> QED BY <1>1, <1>2, <1>3, <1>4, ResolveCollected, ChildCollected, LoadCollected,
           CollectNodeCollected, CollectedCollected DEF Next, Step, Unmounted

LEMMA InitCollected == Init => Collected
  BY DEF Init, Collected

-----------------------------------------------------------------------------
(* The bytes of the file. *)

LEMMA ProductGrows ==
  ASSUME NEW a \in Nat, NEW b \in Nat, NEW s \in Nat, a <= b
  PROVE  a * s <= b * s
<1> DEFINE d == b - a
<1>1. d \in Nat /\ b = a + d
  OBVIOUS
<1> HIDE DEF d
<1>2. (a + d) * s = a * s + d * s
  BY <1>1
<1>3. a * s \in Nat /\ d * s \in Nat
  BY <1>1
<1>4. ASSUME NEW x \in Nat, NEW y \in Nat PROVE x <= x + y
  OBVIOUS
<1>5. a * s <= a * s + d * s
  BY <1>3, <1>4
<1> QED BY <1>1, <1>2, <1>5

\* Byte j is in block j \div s.
LEMMA BlockOfByte ==
  ASSUME NEW j \in Nat, NEW s \in Nat \ {0}, NEW l \in Nat
  PROVE  l <= j \div s <=> l * s <= j
<1> DEFINE q == j \div s
           r == j % s
<1>1. q \in Nat /\ r \in Nat /\ r < s /\ j = q * s + r
  BY Division, Zenon
<1> HIDE DEF q, r
<1>2. q * s \in Nat /\ l * s \in Nat
  BY <1>1
<1>3. ASSUME l <= q PROVE l * s <= j
  <2>1. l * s <= q * s
    BY <1>1, <1>3, ProductGrows
  <2>2. ASSUME NEW x \in Nat, NEW y \in Nat, x <= y PROVE x <= y + r
    BY <1>1, <2>2
  <2> QED BY <1>1, <1>2, <2>1, <2>2
<1>4. ASSUME ~(l <= q) PROVE ~(l * s <= j)
  <2>1. q + 1 <= l /\ q + 1 \in Nat
    BY <1>1, <1>4
  <2>2. (q + 1) * s <= l * s
    BY <2>1, ProductGrows
  <2>3. (q + 1) * s = q * s + s
    BY <1>1
  <2>4. ASSUME NEW x \in Nat, NEW y \in Nat, x + s <= y PROVE ~(y <= x + r)
    BY <1>1, <2>4
  <2> QED BY <1>1, <1>2, <2>2, <2>3, <2>4
<1> QED BY <1>3, <1>4 DEF q

BlockOf(k) == (k - 1) \div BlockSize(volume.superblock)

\* Byte k was delivered by the extent that covers it, or by none.
CopiedUpto(m) ==
  \A k \in 1..Len(buffer) :
    /\ \A d \in 1..m : Covers(extents[d], BlockOf(k)) => buffer[k] = PlaceIn(volume, extents[d], k - 1)
    /\ (\A d \in 1..m : ~Covers(extents[d], BlockOf(k))) => buffer[k] = ZeroByte

\* The buffer starts out as zeroes and then holds what the extents in front of
\* the current one deliver.
Copied ==
  /\ pc = "collect" /\ purpose # "directory" => buffer = [k \in 1..inode.size |-> ZeroByte]
  /\ pc = "copy" => CopiedUpto(extent - 1)

\* An extent delivers the bytes of the blocks that it covers.
IsDelivered(a, s, l, c, p, bytes, j) ==
  /\ j \in (l * s)..(l * s + bytes - 1) <=> j \div s >= l /\ j \div s < l + c
  /\ a + p * s + (j - l * s) = a + (p + j \div s - l) * s + (j % s)

LEMMA Delivered ==
  ASSUME NEW a \in Nat, NEW s \in Nat \ {0}, NEW l \in Nat, NEW c \in Nat, NEW p \in Nat,
         NEW size \in Nat, NEW j \in 0..(size - 1), l * s < size,
         NEW bytes, bytes = (IF size - l * s < c * s THEN size - l * s ELSE c * s)
  PROVE  IsDelivered(a, s, l, c, p, bytes, j)
<1> DEFINE q == j \div s
           r == j % s
           ls == l * s
           cs == c * s
<1>1. j \in Nat
  OBVIOUS
<1>2. q \in Nat /\ r \in Nat /\ r < s /\ j = q * s + r
  BY <1>1, Division, Zenon
<1>3. ls \in Nat /\ cs \in Nat /\ l + c \in Nat
  OBVIOUS
<1>4. (l + c) * s = ls + cs
  OBVIOUS
<1>5. (l <= q <=> ls <= j) /\ (l + c <= q <=> ls + cs <= j)
  BY <1>1, <1>3, <1>4, BlockOfByte
<1>6. bytes = IF size - ls < cs THEN size - ls ELSE cs
  OBVIOUS
<1>7. ls < size
  OBVIOUS
<1>8. (p + q - l) * s = p * s + q * s - ls
  <2> HIDE DEF q
  <2> QED BY <1>2
<1>9. q * s \in Nat /\ p * s \in Nat
  <2> HIDE DEF q
  <2> QED BY <1>2
<1> HIDE DEF q, r, ls, cs
<1>10. j \in ls..(ls + bytes - 1) <=> ls <= j /\ ~(ls + cs <= j)
  BY <1>1, <1>3, <1>6, <1>7
<1>11. (q >= l <=> l <= q) /\ (q < l + c <=> ~(l + c <= q))
  BY <1>2
<1>12. ASSUME NEW x \in Nat, NEW y \in Nat, j = y + r
       PROVE  a + x + (j - ls) = a + (x + y - ls) + r
  BY <1>1, <1>2, <1>3, <1>12
<1>13. a + p * s + (j - ls) = a + (p + q - l) * s + r
  BY <1>2, <1>8, <1>9, <1>12
<1> QED BY <1>5, <1>10, <1>11, <1>13 DEF IsDelivered, q, r, ls

LEMMA FilledIs ==
  ASSUME IndInv, Holds, pc = "copy", ~CopyDone, NEW k \in 1..inode.size
  PROVE  Filled[k] = IF Covers(extents[extent], BlockOf(k))
                     THEN PlaceIn(volume, extents[extent], k - 1) ELSE buffer[k]
<1> DEFINE x == extents[extent]
           l == x.logical_block
           c == x.block_count
           p == x.physical_block
           s == BlockSize(volume.superblock)
           a == volume.partition_start_lba * SectorSize
           size == inode.size
           from == file_offset
           bytes == extent_bytes
           j == k - 1
<1>1. Mounted /\ Walking /\ Scanning /\ Copying
  BY DEF IndInv
<1>2. extent \in 1..Len(extents) /\ Filled \in Seq(Int) /\ Len(Filled) = size
  BY FilledFits
<1>3. x \in Extents
  BY <1>1, <1>2 DEF Walking
<1>4. l \in Nat /\ c \in Nat /\ p \in Nat
  BY <1>3 DEF Extents
<1>5. s \in Nat \ {0} /\ a \in Nat /\ geometry.block_size = s
  <2>1. s \in Nat \ {0} /\ volume.partition_start_lba \in Nat /\ SectorSize \in Nat
    BY MountableTyped, Sizes DEF Holds, Placed
  <2>2. geometry.block_size = s
    BY PlacedFields DEF Holds
  <2> HIDE DEF s
  <2> QED BY <2>1, <2>2, Product
<1>6. size \in Nat /\ j \in 0..(size - 1) /\ Len(buffer) = size
  <2>1. inode \in Inodes /\ Len(buffer) = size
    BY <1>1 DEF Walking, Copying
  <2>2. size \in Nat
    BY <2>1, InodesTyped
  <2> QED BY <2>1, <2>2
<1>7. from = l * s /\ bytes = (IF size - l * s < c * s THEN size - l * s ELSE c * s)
  BY <1>5 DEF file_offset, extent_bytes, Min
<1>8. l * s < size
  <2>1. ~(from >= size)
    BY DEF CopyDone
  <2>2. l * s \in Nat
    BY <1>4, <1>5
  <2> QED BY <1>6, <1>7, <2>1, <2>2
<1>9. Filled = [i \in 1..size |->
                  IF i - 1 \in from..(from + bytes - 1) THEN ExtentByte(i - 1 - from) ELSE buffer[i]]
  <2>1. ~(from + bytes > Len(buffer))
    <3>1. l * s \in Nat /\ c * s \in Nat
      BY <1>4, <1>5
    <3>2. ASSUME NEW y \in Nat, NEW z \in Nat
          PROVE  ~(y + (IF size - y < z THEN size - y ELSE z) > size)
      BY <1>6
    <3> QED BY <1>6, <1>7, <3>1, <3>2
  <2>2. (IF from + bytes > Len(buffer) THEN from + bytes ELSE Len(buffer)) = size
    BY <1>6, <2>1
  <2> QED BY <2>2, Zenon DEF Filled
<1>10. Filled[k] = IF j \in from..(from + bytes - 1) THEN ExtentByte(j - from) ELSE buffer[k]
  BY <1>9
<1>11. bytes \in Nat
  <2>1. l * s \in Nat /\ c * s \in Nat
    BY <1>4, <1>5
  <2> QED BY <1>6, <1>7, <1>8, <2>1
<1>12. full_bytes = (bytes \div s) * s /\ tail_block = p + bytes \div s
  BY <1>5 DEF full_bytes, tail_block
<1> HIDE DEF bytes, s, a, from
<1>13. \A b \in Int : BlockAddress(b) = a + b * s
  BY BlockPlace DEF Holds, PlaceOf, a, s
<1>14. ASSUME NEW i \in Int PROVE ExtentByte(i) = a + p * s + i
  <2> DEFINE d == bytes \div s
  <2>1. d \in Nat
    BY <1>5, <1>11, Division
  <2> HIDE DEF d
  <2>2. BlockAddress(p) = a + p * s /\ BlockAddress(p + d) = a + (p + d) * s
    BY <1>4, <1>13, <2>1
  <2>3. (p + d) * s = p * s + d * s
    BY <1>4, <1>5, <2>1
  <2>4. p * s \in Nat /\ d * s \in Nat
    BY <1>4, <1>5, <2>1
  <2>5. ASSUME NEW y \in Nat, NEW z \in Nat PROVE a + (y + z) + i - z = a + y + i
    BY <1>5
  <2>6. a + (p * s + d * s) + i - d * s = a + p * s + i
    BY <2>4, <2>5
  <2>7. full_bytes = d * s /\ tail_block = p + d
    BY <1>12 DEF d
  <2> QED BY <2>2, <2>3, <2>6, <2>7 DEF ExtentByte
<1>15. /\ j \in (l * s)..(l * s + bytes - 1) <=> j \div s >= l /\ j \div s < l + c
       /\ a + p * s + (j - l * s) = a + (p + j \div s - l) * s + (j % s)
  <2> HIDE DEF j, l, c, p, size
  <2>1. IsDelivered(a, s, l, c, p, bytes, j)
    BY <1>4, <1>5, <1>6, <1>7, <1>8, Delivered, Zenon
  <2> QED BY <2>1 DEF IsDelivered
<1>16. j \in from..(from + bytes - 1) <=> Covers(x, BlockOf(k))
  <2>1. Covers(x, BlockOf(k)) <=> j \div s >= l /\ j \div s < l + c
    BY DEF Covers, BlockOf, s
  <2> QED BY <1>7, <1>15, <2>1
<1>17. ExtentByte(j - from) = PlaceIn(volume, x, j)
  <2>1. PlaceIn(volume, x, j) = a + (p + j \div s - l) * s + (j % s)
    BY Zenon DEF PlaceIn, PlaceOf, a, s
  <2>2. j - l * s \in Int
    <3>1. l * s \in Nat /\ j \in Int
      BY <1>4, <1>5, <1>6
    <3> HIDE DEF j, l
    <3> QED BY <3>1
  <2>3. ExtentByte(j - from) = a + p * s + (j - l * s)
    BY <1>7, <1>14, <2>2
  <2> QED BY <1>15, <2>1, <2>3
<1> QED BY <1>10, <1>16, <1>17

LEMMA GatheredFacts ==
  ASSUME Holds, Subject \in DOMAIN files, inode = InodeOf(volume, Subject), inode.extents, Gathered
  PROVE  /\ Ascending(extents)
         /\ files[Subject].kind = "file" => BlocksWritten(files[Subject].blocks, extents)
         /\ files[Subject].kind = "directory" =>
              ListingWritten(volume, files[Subject].listing, extents, Spelled(volume).places)
         /\ files[Subject].kind = "symlink" => TextWritten(volume, files[Subject].target, extents)
<1>1. FileWritten(volume, Spelled(volume), Subject)
  BY DEF Holds, Written, files
<1>2. extents = ExtentsOf(inode, Spelled(volume).upto) /\ TreeOf(inode) \in DOMAIN Spelled(volume).upto
  BY BelowIs DEF Gathered
<1> QED BY <1>1, <1>2 DEF FileWritten, files, IsInline

LEMMA ExtentTyped ==
  ASSUME IndInv, NEW d \in 1..Len(extents)
  PROVE  /\ extents[d].logical_block \in Nat /\ extents[d].block_count \in Nat
         /\ extents[d].physical_block \in Nat /\ d \in DOMAIN extents
<1>1. extents \in Seq(Extents)
  BY DEF IndInv, Walking
<1>2. extents[d] \in Extents /\ d \in DOMAIN extents
  BY <1>1
<1> QED BY <1>2 DEF Extents

LEMMA SizeHeld ==
  ASSUME Holds
  PROVE  BlockSize(volume.superblock) \in Nat \ {0} /\ geometry.block_size = BlockSize(volume.superblock)
         /\ volume \in Volumes
  BY MountableTyped, PlacedFields DEF Holds, Placed, Mountable

LEMMA BlockOfTyped ==
  ASSUME Holds, NEW k \in Nat \ {0}
  PROVE  BlockOf(k) \in Nat
<1>1. k - 1 \in Nat
  OBVIOUS
<1> QED BY <1>1, SizeHeld, Division DEF BlockOf

LEMMA CopyStep ==
  ASSUME IndInv, Holds, pc = "copy", ~CopyDone, Ascending(extents), CopiedUpto(extent - 1),
         buffer' = Filled, extent' = extent + 1, UNCHANGED <<volume, extents>>
  PROVE  CopiedUpto(extent - 1)'
<1>1. extent \in 1..Len(extents) /\ Filled \in Seq(Int) /\ Len(Filled) = inode.size
      /\ Len(extents) \in Nat
  BY FilledFits DEF IndInv, Walking
<1>2. Len(buffer) = inode.size /\ inode.size \in Nat
  <2>1. inode \in Inodes /\ Len(buffer) = inode.size
    BY DEF IndInv, Walking, Copying
  <2> QED BY <2>1, InodesTyped
<1> DEFINE e == extent
<1>3. SUFFICES ASSUME NEW k \in 1..inode.size
               PROVE  /\ \A d \in 1..e : Covers(extents[d], BlockOf(k))
                           => Filled[k] = PlaceIn(volume, extents[d], k - 1)
                      /\ (\A d \in 1..e : ~Covers(extents[d], BlockOf(k))) => Filled[k] = ZeroByte
  <2>1. extent' - 1 = e /\ Len(buffer') = inode.size
    BY <1>1
  <2>2. \A k \in 1..inode.size : BlockOf(k)' = BlockOf(k)
    BY DEF BlockOf
  <2> HIDE DEF e
  <2>3. CopiedUpto(extent - 1)' <=>
          \A k \in 1..inode.size :
            /\ \A d \in 1..e : Covers(extents[d], BlockOf(k))
                           => Filled[k] = PlaceIn(volume, extents[d], k - 1)
            /\ (\A d \in 1..e : ~Covers(extents[d], BlockOf(k))) => Filled[k] = ZeroByte
    BY <2>1, <2>2, Zenon DEF CopiedUpto
  <2> QED BY <2>3
<1>4. Filled[k] = IF Covers(extents[e], BlockOf(k))
                  THEN PlaceIn(volume, extents[e], k - 1) ELSE buffer[k]
  BY <1>3, FilledIs
<1>5. /\ \A d \in 1..(e - 1) : Covers(extents[d], BlockOf(k)) => buffer[k] = PlaceIn(volume, extents[d], k - 1)
      /\ (\A d \in 1..(e - 1) : ~Covers(extents[d], BlockOf(k))) => buffer[k] = ZeroByte
  BY <1>2, <1>3 DEF CopiedUpto
<1>6. BlockOf(k) \in Nat
  BY <1>2, <1>3, BlockOfTyped
<1>7. ASSUME NEW d \in 1..(e - 1), Covers(extents[d], BlockOf(k))
      PROVE  ~Covers(extents[e], BlockOf(k))
  <2>1. d \in 1..Len(extents) /\ d < e
    BY <1>1
  <2>2. /\ extents[d].logical_block \in Nat /\ extents[d].block_count \in Nat /\ d \in DOMAIN extents
        /\ extents[e].logical_block \in Nat /\ extents[e].block_count \in Nat /\ e \in DOMAIN extents
    BY <1>1, <2>1, ExtentTyped
  <2>3. extents[d].logical_block + extents[d].block_count <= extents[e].logical_block
    BY <2>1, <2>2 DEF Ascending
  <2> QED BY <1>6, <1>7, <2>2, <2>3 DEF Covers
<1>8. \A d \in 1..e : d = e \/ d \in 1..(e - 1)
  BY <1>1
<1>9. ASSUME NEW d \in 1..e, Covers(extents[d], BlockOf(k))
      PROVE  Filled[k] = PlaceIn(volume, extents[d], k - 1)
  <2>1. CASE d = e
    BY <1>4, <1>9, <2>1
  <2>2. CASE d \in 1..(e - 1)
    BY <1>4, <1>5, <1>7, <1>9, <2>2
  <2> QED BY <1>8, <2>1, <2>2
<1>10. ASSUME \A d \in 1..e : ~Covers(extents[d], BlockOf(k)) PROVE Filled[k] = ZeroByte
  <2>1. e \in 1..e /\ \A d \in 1..(e - 1) : d \in 1..e
    BY <1>1
  <2> QED BY <1>4, <1>5, <1>10, <2>1
<1> QED BY <1>9, <1>10

\* What comes behind the end of the file covers none of its bytes.
LEMMA CopyEnd ==
  ASSUME IndInv, Holds, pc = "copy", CopyDone, Ascending(extents), CopiedUpto(extent - 1)
  PROVE  CopiedUpto(Len(extents))
<1> DEFINE e == extent
           m == Len(extents)
           s == BlockSize(volume.superblock)
<1>1. e \in 1..(m + 1) /\ m \in Nat
  BY DEF IndInv, Scanning, Walking
<1>2. Len(buffer) = inode.size /\ inode.size \in Nat
  <2>1. inode \in Inodes /\ Len(buffer) = inode.size
    BY DEF IndInv, Walking, Copying
  <2> QED BY <2>1, InodesTyped
<1>3. s \in Nat \ {0} /\ geometry.block_size = s
  BY SizeHeld
<1>4. ASSUME NEW k \in 1..inode.size, NEW d \in e..m PROVE ~Covers(extents[d], BlockOf(k))
  <2>1. e \in 1..m /\ d \in 1..m
    BY <1>1
  <2>2. /\ extents[d].logical_block \in Nat /\ extents[d].block_count \in Nat /\ d \in DOMAIN extents
        /\ extents[e].logical_block \in Nat /\ extents[e].block_count \in Nat /\ e \in DOMAIN extents
    BY <2>1, ExtentTyped
  <2>3. extents[e].logical_block <= extents[d].logical_block
    <3>1. CASE d = e
      BY <2>2, <3>1
    <3>2. CASE d # e
      <4>1. e < d
        BY <1>1, <3>2
      <4>2. extents[e].logical_block + extents[e].block_count <= extents[d].logical_block
        BY <2>2, <4>1 DEF Ascending
      <4> QED BY <2>2, <4>2
    <3> QED BY <3>1, <3>2
  <2> DEFINE l == extents[e].logical_block
             j == k - 1
  <2>4. l * s >= inode.size
    <3>1. e <= m
      BY <2>1
    <3> QED BY <1>3, <3>1 DEF CopyDone, file_offset
  <2>5. j \in Nat /\ j < inode.size /\ k \in Nat \ {0}
    BY <1>2
  <2>6. BlockOf(k) \in Nat /\ BlockOf(k) = j \div s
    BY <2>5, BlockOfTyped DEF BlockOf
  <2>7. l \in Nat
    BY <2>2
  <2> HIDE DEF j, l, s
  <2>8. l <= j \div s <=> l * s <= j
    BY <1>3, <2>5, <2>7, BlockOfByte
  <2>9. l * s \in Nat
    BY <1>3, <2>7
  <2>10. ~(l <= BlockOf(k))
    BY <1>2, <2>4, <2>5, <2>6, <2>8, <2>9
  <2> QED BY <2>2, <2>3, <2>6, <2>7, <2>10 DEF Covers, l
<1>5. \A d \in 1..m : d \in 1..(e - 1) \/ d \in e..m
  BY <1>1
<1>6. \A d \in 1..(e - 1) : d \in 1..m
  BY <1>1
<1> HIDE DEF e, m
<1>7. CopiedUpto(e - 1)
  BY DEF e
<1>8. CopiedUpto(m)
  BY <1>2, <1>4, <1>5, <1>6, <1>7, Zenon DEF CopiedUpto
<1> QED BY <1>8 DEF m

LEMMA InitCopied == Init => Copied
  BY DEF Init, Copied

LEMMA NextCopied ==
  ASSUME IndInv, Known, Collected, Copied, [Next]_vars
  PROVE  Copied'
<1>1. CASE UNCHANGED vars
  <2>1. UNCHANGED <<volume, inode, purpose, extents, extent, buffer, pc>>
    BY <1>1 DEF vars, diskVars, treeVars, scanVars
  <2>2. CopiedUpto(extent - 1)' <=> CopiedUpto(extent - 1)
    BY <2>1 DEF CopiedUpto, BlockOf
  <2> QED BY <2>1, <2>2 DEF Copied
<1>2. CASE new \/ open \/ read_directory_block \/ find_directory_entry
  <2>1. pc' \notin {"collect", "copy"}
    BY <1>2 DEF new, open, Begin, read_directory_block, find_directory_entry, Return, ReadFails
  <2> QED BY <2>1 DEF Copied
<1>3. CASE resolve_path_from
  <2>1. pc' \in {"done", "opened", "component"} \/ (pc' = "collect" /\ purpose' = "directory")
    BY <1>3 DEF resolve_path_from, Return, ReadFails, Collect
  <2> QED BY <2>1 DEF Copied
<1>4. CASE collect_extent_node
  <2>1. /\ pc = "collect" /\ pc' \in {"collect", "done"} /\ UNCHANGED <<inode, purpose, buffer>>
    BY <1>4 DEF collect_extent_node, Return, ReadFails
  <2> QED BY <2>1 DEF Copied
<1>5. CASE extents_collected
  <2>1. /\ pc = "collect" /\ (pc' = "copy" => purpose # "directory") /\ pc' \in {"block", "copy"}
        /\ extent' = 1 /\ UNCHANGED <<volume, inode, buffer>>
    BY <1>5 DEF extents_collected, diskVars, treeVars
  <2>2. CASE pc' = "copy"
    <3>1. buffer = [k \in 1..inode.size |-> ZeroByte]
      BY <2>1, <2>2 DEF Copied
    <3>2. inode.size \in Nat
      BY InodesTyped DEF IndInv, Walking
    <3>3. Len(buffer) = inode.size /\ \A k \in 1..inode.size : buffer[k] = ZeroByte
      BY <3>1, <3>2, Zeros
    <3>4. extent' - 1 = 0 /\ \A d \in 1..0 : FALSE
      BY <2>1
    <3>5. CopiedUpto(extent - 1)'
      BY <2>1, <3>3, <3>4 DEF CopiedUpto
    <3> QED BY <2>2, <3>5 DEF Copied
  <2> QED BY <2>1, <2>2 DEF Copied
<1>6. CASE read_child
  <2> DEFINE c == read_inode(entry)
  <2>1. \/ pc' \in {"done", "component"}
        \/ Expand(InlineText(c))
        \/ buffer' = [k \in 1..c.size |-> ZeroByte] /\ Collect(c, "link")
    BY <1>6 DEF read_child, Return, ReadFails
  <2> HIDE DEF c
  <2>2. CASE Expand(InlineText(c))
    BY <2>2, ExpandKnown DEF Copied
  <2>3. CASE buffer' = [k \in 1..c.size |-> ZeroByte] /\ Collect(c, "link")
    <3>1. pc' = "done" \/ (pc' = "collect" /\ inode' = c)
      BY <2>3 DEF Collect, Return
    <3> QED BY <2>3, <3>1 DEF Copied
  <2>4. CASE pc' \in {"done", "component"}
    BY <2>4 DEF Copied
  <2> QED BY <2>1, <2>2, <2>3, <2>4
<1>7. CASE load_into_allocated_pages
  <2>1. \/ pc' = "done"
        \/ buffer' = [k \in 1..inode.size |-> ZeroByte] /\ pc' = "collect" /\ inode' = inode
    BY <1>7 DEF load_into_allocated_pages, Return, Collect
  <2> QED BY <2>1 DEF Copied
<1>8. CASE read_inode_contents
  <2>1. /\ pc = "copy" /\ UNCHANGED <<volume, inode, extents>>
        /\ \/ pc' = "done"
           \/ Expand(TextOf(buffer))
           \/ ~CopyDone /\ buffer' = Filled /\ extent' = extent + 1 /\ pc' = pc
    BY <1>8 DEF read_inode_contents, Return, ReadFails, diskVars, treeVars
  <2>2. CASE ~CopyDone /\ buffer' = Filled /\ extent' = extent + 1 /\ pc' = pc
    <3>1. Holds /\ Gathered /\ CopiedUpto(extent - 1)
      BY <2>1 DEF Known, Collected, Copied
    <3>2. Ascending(extents)
      BY <2>1, <3>1, GatheredFacts DEF Known
    <3>3. CopiedUpto(extent - 1)'
      BY <2>1, <2>2, <3>1, <3>2, CopyStep
    <3> QED BY <2>1, <2>2, <3>3 DEF Copied
  <2>3. CASE Expand(TextOf(buffer))
    BY <2>3, ExpandKnown DEF Copied
  <2>4. CASE pc' = "done"
    BY <2>4 DEF Copied
  <2> QED BY <2>1, <2>2, <2>3, <2>4
<1> QED BY <1>1, <1>2, <1>3, <1>4, <1>5, <1>6, <1>7, <1>8 DEF Next, Step, Unmounted

-----------------------------------------------------------------------------
(* A load is exact. *)

\* A file with more extents than fit, on a sound volume, is in as many pieces.
LEMMA PiecesAre ==
  ASSUME Holds, NEW n \in DOMAIN files, inode = InodeOf(volume, n), inode.extents,
         TreeOf(inode) \in DOMAIN Spelled(volume).upto,
         Len(Below(inode)) > MaxExtents, ~volume.damaged
  PROVE  files[n].pieces > MaxExtents
<1>1. FileWritten(volume, Spelled(volume), n)
  BY DEF Holds, Written, files
<1>2. Below(inode) = ExtentsOf(inode, Spelled(volume).upto)
  BY BelowIs
<1> DEFINE xs == ExtentsOf(inode, Spelled(volume).upto)
<1>3. Len(xs) <= MaxExtents \/ Len(xs) = files[n].pieces
  BY <1>1 DEF FileWritten, files
<1>4. Below(inode) \in Seq(Extents)
  <2>1. TreesWritten(volume, Spelled(volume).upto)
    BY DEF Holds, Written
  <2>2. inode.tree \in Nodes
    BY InodeHeld, InodesTyped
  <2>3. TreeOf(inode) = <<inode.tree, InlineBytes>>
    BY DEF TreeOf
  <2> QED BY <2>1, <2>2, <2>3, WholeTyped DEF Below
<1>5. Len(xs) \in Nat
  BY <1>2, <1>4
<1> HIDE DEF xs
<1>6. Len(xs) > MaxExtents
  BY <1>2 DEF xs
<1>7. MaxExtents \in Nat
  BY Sizes
<1> QED BY <1>3, <1>5, <1>6, <1>7

\* Why the extents of file n are refused.
LEMMA ExtentsRefused ==
  ASSUME Holds, NEW n \in DOMAIN files, inode = InodeOf(volume, n), inode.extents,
         \/ TreeOf(inode) \notin DOMAIN Spelled(volume).upto
         \/ Len(Below(inode)) > MaxExtents
  PROVE  volume.damaged \/ BeyondReader(files[n])
<1>1. FileWritten(volume, Spelled(volume), n)
  BY DEF Holds, Written, files
<1>2. CASE TreeOf(inode) \notin DOMAIN Spelled(volume).upto
  <2>1. volume.damaged \/ files[n].unsupported
    BY <1>1, <1>2 DEF FileWritten, files
  <2> QED BY <2>1 DEF BeyondReader
<1>3. CASE TreeOf(inode) \in DOMAIN Spelled(volume).upto
  <2>1. ~volume.damaged => files[n].pieces > MaxExtents
    BY <1>3, PiecesAre
  <2> QED BY <2>1 DEF BeyondReader
<1> QED BY <1>2, <1>3

\* The bytes that the extents deliver are those of the file.
LEMMA BytesAre ==
  ASSUME Holds, NEW n \in DOMAIN files, BlocksWritten(files[n].blocks, extents), IndInv,
         buffer \in Seq(Int), Len(buffer) = files[n].size, files[n].size \in Nat,
         CopiedUpto(Len(extents))
  PROVE  buffer = [k \in 1..files[n].size |-> FileByte(n, k - 1)]
<1> DEFINE s == BlockSize(volume.superblock)
           size == files[n].size
<1>1. s \in Nat \ {0} /\ geometry.block_size = s
  BY SizeHeld
<1>2. DOMAIN extents = 1..Len(extents)
  BY DEF IndInv, Walking
<1>3. ASSUME NEW k \in 1..size PROVE buffer[k] = FileByte(n, k - 1)
  <2> DEFINE b == BlockOf(k)
  <2>1. b \in Nat
    BY BlockOfTyped
  <2>2. /\ \A d \in 1..Len(extents) : Covers(extents[d], b) => buffer[k] = PlaceIn(volume, extents[d], k - 1)
        /\ (\A d \in 1..Len(extents) : ~Covers(extents[d], b)) => buffer[k] = ZeroByte
    BY <1>3 DEF CopiedUpto
  <2>3. FileByte(n, k - 1) = IF b \in DOMAIN files[n].blocks
                             THEN PlaceOf(volume, files[n].blocks[b]) + ((k - 1) % s)
                             ELSE ZeroByte
    BY <1>1, Zenon DEF FileByte, PlaceOf, BlockOf
  <2> HIDE DEF b
  <2>4. CASE b \in DOMAIN files[n].blocks
    <3>1. PICK d \in 1..Len(extents) : Covers(extents[d], b)
      BY <1>2, <2>4 DEF BlocksWritten
    <3>2. extents[d].logical_block \in Nat /\ extents[d].block_count \in Nat
      BY <3>1, ExtentTyped
    <3>3. b \in extents[d].logical_block..(extents[d].logical_block + extents[d].block_count - 1)
      BY <2>1, <3>1, <3>2 DEF Covers
    <3>4. files[n].blocks[b] = extents[d].physical_block + b - extents[d].logical_block
      BY <1>2, <3>3 DEF BlocksWritten
    <3>5. PlaceIn(volume, extents[d], k - 1) = PlaceOf(volume, files[n].blocks[b]) + ((k - 1) % s)
      BY <3>4 DEF PlaceIn, b, BlockOf
    <3> QED BY <2>2, <2>3, <2>4, <3>1, <3>5
  <2>5. CASE b \notin DOMAIN files[n].blocks
    <3>1. ASSUME NEW d \in 1..Len(extents) PROVE ~Covers(extents[d], b)
      <4>1. extents[d].logical_block \in Nat /\ extents[d].block_count \in Nat
        BY ExtentTyped
      <4>2. Covers(extents[d], b) =>
              b \in extents[d].logical_block..(extents[d].logical_block + extents[d].block_count - 1)
        BY <2>1, <4>1 DEF Covers
      <4> QED BY <1>2, <2>5, <4>2 DEF BlocksWritten
    <3> QED BY <2>2, <2>3, <2>5, <3>1
  <2> QED BY <2>4, <2>5
<1>4. buffer = [k \in 1..size |-> buffer[k]]
  <2> HIDE DEF size
  <2>1. DOMAIN buffer = 1..size
    BY DEF size
  <2> QED BY <2>1
<1> HIDE DEF size
<1>5. [k \in 1..size |-> buffer[k]] = [k \in 1..size |-> FileByte(n, k - 1)]
  BY <1>3
<1> QED BY <1>4, <1>5 DEF size

LEMMA LoadExact ==
  ASSUME IndInv, Known, Collected, Copied, load_into_allocated_pages, pc' = "done"
  PROVE  LoadIsExact'
<1>1. /\ pc = "opened" /\ UNCHANGED <<volume, geometry, handle>>
      /\ \/ inode.kind = "directory" /\ result' = "IsDirectory"
         \/ inode.kind # "directory" /\ result' = "Memory" /\ "memory" \in MayFail
         \/ /\ inode.kind # "directory" /\ result' = "Ok" /\ inode.size = 0
            /\ buffer' = [k \in 1..inode.size |-> ZeroByte]
         \/ inode.kind # "directory" /\ ~inode.extents /\ result' = "UnsupportedMapping"
  BY DEF load_into_allocated_pages, diskVars, Return, Collect
<1>2. /\ Holds /\ handle \in DOMAIN files /\ inode = InodeOf(volume, handle)
      /\ files[handle].kind # "symlink"
  BY <1>1 DEF Known
<1>3. /\ inode.kind = files[handle].kind
      /\ files[handle].kind \in {"directory", "file", "symlink"}
  BY <1>2, ReadHeld
<1>4. FileWritten(volume, Spelled(volume), handle)
  BY <1>2 DEF Holds, Written, files
<1>5. ~inode.extents /\ files[handle].kind = "file" =>
        volume.damaged \/ BeyondReader(files[handle])
  BY <1>2, <1>4 DEF FileWritten, files, BeyondReader
<1>6. files' = files /\ handle' = handle /\ volume.damaged' = volume.damaged
  BY <1>1 DEF files
<1>7. BeyondReader(files[handle])' = BeyondReader(files[handle])
  BY <1>6 DEF BeyondReader
<1>8. inode.size = 0 => [k \in 1..inode.size |-> ZeroByte]
                          = ([k \in 1..files[handle].size |-> FileByte(handle, k - 1)])'
  <2>1. inode.size = files[handle].size
    BY <1>2, ReadHeld
  <2>2. 1..0 = {}
    OBVIOUS
  <2> QED BY <1>6, <2>1, <2>2
<1> QED BY <1>1, <1>2, <1>3, <1>5, <1>6, <1>7, <1>8 DEF LoadIsExact, MappingErrors

LEMMA CollectExact ==
  ASSUME IndInv, Known, Collected, Copied, collect_extent_node, pc' = "done"
  PROVE  LoadIsExact'
<1>1. /\ pc = "collect" /\ UNCHANGED <<volume, handle>> /\ stack # <<>>
      /\ \/ result' = "Device"
         \/ /\ result' = "InvalidExtentTree"
            /\ \/ Malformed(stack[1].node, stack[1].length)
               \/ stack[1].node.depth = 0 /\ Uncollectable(stack[1].node)
  BY DEF collect_extent_node, diskVars, Return, ReadFails
<1>2. files' = files /\ handle' = handle /\ volume.damaged' = volume.damaged
  BY <1>1 DEF files
<1>3. CASE result' = "InvalidExtentTree" /\ handle # 0
  <2>1. /\ Holds /\ handle \in DOMAIN files /\ inode = InodeOf(volume, handle)
        /\ files[handle].kind = "file" /\ inode.extents /\ WalkGoes
    BY <1>1, <1>3 DEF Known, Collected, Subject, SubjectKind
  <2>2. stack \in Seq(Frames) /\ extents \in Seq(Extents)
    BY DEF IndInv, Walking
  <2>3. \/ Malformed(stack[1].node, stack[1].length)
        \/ stack[1].node.depth = 0 /\ Uncollectable(stack[1].node)
    BY <1>1, <1>3
  <2>4. \/ TreeOf(inode) \notin DOMAIN Spelled(volume).upto
        \/ Len(Below(inode)) > MaxExtents
    BY <1>1, <2>1, <2>2, <2>3, CollectRefuses
  <2>5. volume.damaged \/ BeyondReader(files[handle])
    BY <2>1, <2>4, ExtentsRefused
  <2>6. BeyondReader(files[handle])' = BeyondReader(files[handle])
    BY <1>2 DEF BeyondReader
  <2> QED BY <1>2, <1>3, <2>5, <2>6 DEF LoadIsExact, MappingErrors
<1> QED BY <1>1, <1>2, <1>3 DEF LoadIsExact

LEMMA ContentsExact ==
  ASSUME IndInv, Known, Collected, Copied, read_inode_contents, pc' = "done"
  PROVE  LoadIsExact'
<1>1. /\ pc = "copy" /\ UNCHANGED <<volume, geometry, handle>>
      /\ \/ purpose # "file"
         \/ result' = "Device"
         \/ CopyDone /\ result' = "Ok" /\ buffer' = buffer
  BY DEF read_inode_contents, diskVars, Return, ReadFails
<1>2. files' = files /\ handle' = handle /\ volume.damaged' = volume.damaged
  BY <1>1 DEF files
<1>3. CASE CopyDone /\ result' = "Ok" /\ buffer' = buffer /\ handle # 0
  <2>1. /\ Holds /\ handle \in DOMAIN files /\ Subject = handle /\ inode = InodeOf(volume, Subject)
        /\ files[handle].kind = "file" /\ inode.extents /\ Gathered /\ CopiedUpto(extent - 1)
    BY <1>1, <1>3 DEF Known, Collected, Copied, Subject, SubjectKind
  <2>2. Ascending(extents) /\ BlocksWritten(files[handle].blocks, extents)
    BY <2>1, GatheredFacts
  <2>3. CopiedUpto(Len(extents))
    BY <1>1, <1>3, <2>1, <2>2, CopyEnd
  <2>4. buffer \in Seq(Int) /\ Len(buffer) = inode.size /\ inode.size \in Nat
    <3>1. inode \in Inodes /\ Len(buffer) = inode.size /\ buffer \in Seq(Int)
      BY <1>1 DEF IndInv, Walking, Copying
    <3> QED BY <3>1, InodesTyped
  <2>5. inode.size = files[handle].size
    BY <2>1, ReadHeld
  <2>6. buffer = [k \in 1..files[handle].size |-> FileByte(handle, k - 1)]
    BY <2>1, <2>2, <2>3, <2>4, <2>5, BytesAre
  <2>7. ([k \in 1..files[handle].size |-> FileByte(handle, k - 1)])'
          = [k \in 1..files[handle].size |-> FileByte(handle, k - 1)]
    BY <1>1 DEF files, FileByte
  <2> QED BY <1>2, <1>3, <2>1, <2>6, <2>7 DEF LoadIsExact
<1>4. CASE purpose # "file"
  <2>1. handle = 0
    BY <1>1, <1>4 DEF Known
  <2> QED BY <1>2, <2>1 DEF LoadIsExact
<1> QED BY <1>1, <1>2, <1>3, <1>4 DEF LoadIsExact

LEMMA NextExact ==
  ASSUME IndInv, Known, Collected, Copied, LoadIsExact, [Next]_vars
  PROVE  LoadIsExact'
<1>1. CASE UNCHANGED vars
  <2>1. UNCHANGED <<volume, geometry, pc, handle, result, buffer>>
    BY <1>1 DEF vars, diskVars
  <2>2. ASSUME NEW n, NEW k PROVE FileByte(n, k)' = FileByte(n, k)
    BY <2>1 DEF FileByte, files
  <2>3. ([k \in 1..files[handle].size |-> FileByte(handle, k - 1)])'
          = [k \in 1..files[handle].size |-> FileByte(handle, k - 1)]
    BY <2>1 DEF files, FileByte
  <2>4. files' = files
    BY <2>1 DEF files
  <2> QED BY <2>1, <2>3, <2>4 DEF LoadIsExact
<1>2. CASE new \/ open
  <2>1. pc' # "done"
    BY <1>2 DEF new, open, Begin
  <2> QED BY <2>1 DEF LoadIsExact
<1>3. CASE resolve_path_from
  <2>1. pc = "component" /\ (pc' = "done" => UNCHANGED handle)
    BY <1>3 DEF resolve_path_from, Return
  <2>2. pc' = "done" => handle' = 0
    BY <2>1 DEF Known
  <2> QED BY <2>2 DEF LoadIsExact
<1>4. CASE read_directory_block \/ find_directory_entry \/ read_child
  <2>1. pc \in {"block", "scan", "child"} /\ UNCHANGED handle
    BY <1>4 DEF read_directory_block, find_directory_entry, read_child
  <2>2. handle' = 0
    BY <2>1 DEF Known
  <2> QED BY <2>2 DEF LoadIsExact
<1>5. CASE extents_collected
  <2>1. pc' # "done"
    BY <1>5 DEF extents_collected
  <2> QED BY <2>1 DEF LoadIsExact
<1>6. CASE collect_extent_node \/ load_into_allocated_pages \/ read_inode_contents
  <2>1. CASE pc' = "done"
    BY <1>6, <2>1, CollectExact, LoadExact, ContentsExact
  <2>2. CASE pc' # "done"
    BY <2>2 DEF LoadIsExact
  <2> QED BY <2>1, <2>2
<1> QED BY <1>1, <1>2, <1>3, <1>4, <1>5, <1>6 DEF Next, Step, Unmounted

LEMMA ReaderInvariants ==
  ASSUME VolumesAreWritten
  PROVE  Spec => [](IndInv /\ Known /\ Collected /\ Copied)
<1>1. Init => IndInv /\ Known /\ Collected /\ Copied
  BY InitInv, InitKnown, InitCollected, InitCopied
<1>2. IndInv /\ Known /\ Collected /\ Copied /\ [Next]_vars => (IndInv /\ Known /\ Collected /\ Copied)'
  BY NextInv, NextKnown, NextCollected, NextCopied
<1> QED BY <1>1, <1>2, PTL DEF Spec

\* Ext4File::load returns, for every file it is called on, the bytes that the
\* extents of the file hold, in order and with zeroes in the holes, whatever the
\* size of the extents and the depth of the tree they are collected from, and
\* nothing for an empty file. When it fails, the handle is a directory, the memory
\* or the device failed, the file has more extents than the array holds, blocks
\* never written or no extents at all, or the volume is damaged.
THEOREM Ext4LoadIsExact ==
  ASSUME VolumesAreWritten
  PROVE  Spec => []LoadIsExact
<1>1. Init => LoadIsExact
  BY DEF Init, LoadIsExact
<1>2. IndInv /\ Known /\ Collected /\ Copied /\ LoadIsExact /\ [Next]_vars => LoadIsExact'
  BY NextExact
<1> QED BY <1>1, <1>2, ReaderInvariants, PTL DEF Spec

-----------------------------------------------------------------------------
(* The names of a path. *)

\* p holds no name, or its first name is between these places.
OnlySeparators(p) == \A k \in DOMAIN p : p[k] = "/"

NameFirst(p) == CHOOSE i \in DOMAIN p : p[i] # "/" /\ \A k \in 1..(i - 1) : p[k] = "/"
NameLast(p) ==
  CHOOSE j \in NameFirst(p)..Len(p) : /\ j = Len(p) \/ p[j + 1] = "/"
                                      /\ \A k \in NameFirst(p)..j : p[k] # "/"

\* The first name of p is at i..j.
IsName(p, i, j) ==
  /\ i \in 1..Len(p) /\ j \in i..Len(p)
  /\ \A k \in 1..(i - 1) : p[k] = "/"
  /\ \A k \in i..j : p[k] # "/"
  /\ j = Len(p) \/ p[j + 1] = "/"

\* A piece of a path.
Cut(p, i, j) == SubSeq(p, i, j)

IsCut(s, p, i, j) ==
  Len(s) = j - i + 1 /\ \A k \in 1..(j - i + 1) : s[k] = p[i + k - 1]

LEMMA CutIs ==
  ASSUME NEW S, NEW p \in Seq(S), NEW i \in 1..(Len(p) + 1), NEW j \in (i - 1)..Len(p)
  PROVE  Cut(p, i, j) \in Seq(S) /\ IsCut(Cut(p, i, j), p, i, j)
<1> DEFINE l == Len(p)
<1>1. l \in Nat /\ DOMAIN p = 1..l
  BY LenProperties, Zenon
<1>2. i \in 1..(l + 1) /\ j \in (i - 1)..l
  OBVIOUS
<1> HIDE DEF l
<1>3. i \in Int /\ j \in Int /\ (i <= j \/ i = j + 1) /\ \A k \in i..j : k \in 1..l
  BY <1>1, <1>2
<1>4. \A k \in i..j : p[k] \in S
  BY <1>1, <1>3, ElementOfSeq, Zenon DEF l
<1>5. /\ SubSeq(p, i, j) \in Seq(S)
      /\ Len(SubSeq(p, i, j)) = IF i <= j THEN j - i + 1 ELSE 0
      /\ \A k \in 1..(j - i + 1) : SubSeq(p, i, j)[k] = p[i + k - 1]
  <2>1. ASSUME NEW m \in Int, NEW n \in Int, \A k \in m..n : p[k] \in S
        PROVE  /\ SubSeq(p, m, n) \in Seq(S)
               /\ Len(SubSeq(p, m, n)) = IF m <= n THEN n - m + 1 ELSE 0
               /\ \A k \in 1..(n - m + 1) : SubSeq(p, m, n)[k] = p[m + k - 1]
    BY <2>1, SubSeqProperties
  <2> QED BY <1>3, <1>4, <2>1, Zenon
<1>6. (IF i <= j THEN j - i + 1 ELSE 0) = j - i + 1
  BY <1>3
<1> QED BY <1>5, <1>6, Zenon DEF Cut, IsCut

\* The first name that is not there yet, in numbers.
LEMMA NameExists ==
  ASSUME NEW p \in Seq(Chars), ~OnlySeparators(p)
  PROVE  IsName(p, NameFirst(p), NameLast(p))
<1> DEFINE l == Len(p)
<1>1. l \in Nat /\ DOMAIN p = 1..l
  BY LenProperties, Zenon
<1> HIDE DEF l
<1> DEFINE T == {i \in 1..l : p[i] # "/"}
           i == NameFirst(p)
<1>2. T # {} /\ T \subseteq Nat
  BY <1>1 DEF OnlySeparators
<1>3. PICK x \in T : \A y \in T : x <= y
  BY <1>2, LeastNumber
<1>4. \A k \in 1..(x - 1) : p[k] = "/"
  BY <1>1, <1>3
<1>5. i \in 1..l /\ p[i] # "/" /\ \A k \in 1..(i - 1) : p[k] = "/"
  BY <1>1, <1>3, <1>4 DEF NameFirst
<1> HIDE DEF i, T
<1> DEFINE U == {j \in i..l : j = l \/ p[j + 1] = "/"}
<1>6. U # {} /\ U \subseteq Nat
  <2>1. l \in U
    BY <1>1, <1>5
  <2> QED BY <1>1, <1>5, <2>1
<1>7. PICK z \in U : \A y \in U : z <= y
  BY <1>6, LeastNumber
<1>8. z \in i..l /\ (z = l \/ p[z + 1] = "/") /\ i \in Nat /\ z \in Nat
  BY <1>1, <1>5, <1>7
<1>9. ASSUME NEW k \in i..z PROVE p[k] # "/"
  <2>1. CASE k = i
    BY <1>5, <2>1
  <2>2. CASE k # i
    <3>1. k - 1 \in i..l /\ ~(z <= k - 1) /\ (k - 1) + 1 = k
      BY <1>1, <1>8, <2>2
    <3>2. k - 1 \notin U
      BY <1>7, <3>1
    <3>3. ~(p[(k - 1) + 1] = "/")
      BY <3>1, <3>2
    <3> QED BY <3>1, <3>3
  <2> QED BY <2>1, <2>2
<1> HIDE DEF U
<1>10. /\ NameLast(p) \in i..l
       /\ NameLast(p) = l \/ p[NameLast(p) + 1] = "/"
       /\ \A k \in i..NameLast(p) : p[k] # "/"
  BY <1>8, <1>9, Zenon DEF NameLast, i, l
<1> QED BY <1>5, <1>10, Zenon DEF IsName, i, l

LEMMA NameIsOne ==
  ASSUME NEW p \in Seq(Chars), NEW i, NEW j, IsName(p, i, j)
  PROVE  ~OnlySeparators(p) /\ i = NameFirst(p) /\ j = NameLast(p)
<1> DEFINE l == Len(p)
           x == NameFirst(p)
           y == NameLast(p)
<1>1. l \in Nat /\ DOMAIN p = 1..l
  BY LenProperties, Zenon
<1>2. /\ i \in 1..l /\ j \in i..l
      /\ \A k \in 1..(i - 1) : p[k] = "/"
      /\ \A k \in i..j : p[k] # "/"
      /\ j = l \/ p[j + 1] = "/"
  BY Zenon DEF IsName
<1>3. ~OnlySeparators(p)
  <2> HIDE DEF l
  <2>1. i \in 1..l /\ i \in i..j
    BY <1>1, <1>2
  <2> QED BY <1>1, <1>2, <2>1 DEF OnlySeparators
<1>4. /\ x \in 1..l /\ y \in x..l
      /\ \A k \in 1..(x - 1) : p[k] = "/"
      /\ \A k \in x..y : p[k] # "/"
      /\ y = l \/ p[y + 1] = "/"
  BY <1>3, NameExists, Zenon DEF IsName
<1> HIDE DEF x, y, l
<1>5. i \in Nat /\ j \in Nat /\ x \in Nat /\ y \in Nat
  BY <1>1, <1>2, <1>4
<1>6. ~(i < x)
  <2> SUFFICES ASSUME i < x PROVE FALSE
    OBVIOUS
  <2>1. i \in 1..(x - 1) /\ i \in i..j
    BY <1>2, <1>5
  <2> QED BY <1>2, <1>4, <2>1, Zenon
<1>7. ~(x < i)
  <2> SUFFICES ASSUME x < i PROVE FALSE
    OBVIOUS
  <2>1. x \in 1..(i - 1) /\ x \in x..y
    BY <1>4, <1>5
  <2> QED BY <1>2, <1>4, <2>1, Zenon
<1>8. i = x
  BY <1>5, <1>6, <1>7
<1>9. ~(j < y)
  <2> SUFFICES ASSUME j < y PROVE FALSE
    OBVIOUS
  <2>1. j + 1 \in x..y /\ j # l
    BY <1>1, <1>2, <1>4, <1>5, <1>8
  <2> QED BY <1>2, <1>4, <2>1, Zenon
<1>10. ~(y < j)
  <2> SUFFICES ASSUME y < j PROVE FALSE
    OBVIOUS
  <2>1. y + 1 \in i..j /\ y # l
    BY <1>1, <1>2, <1>4, <1>5, <1>8
  <2> QED BY <1>2, <1>4, <2>1, Zenon
<1>11. j = y
  BY <1>5, <1>9, <1>10
<1> QED BY <1>3, <1>8, <1>11 DEF x, y

\* What Components is defined by has a solution.
NameOf(p) == Cut(p, NameFirst(p), NameLast(p))
Behind(p) == Cut(p, NameLast(p) + 1, Len(p))

LEMMA NameParts ==
  ASSUME NEW p \in Seq(Chars), NEW i, NEW j, IsName(p, i, j)
  PROVE  /\ Cut(p, i, j) \in Seq(Chars) /\ IsCut(Cut(p, i, j), p, i, j)
         /\ Cut(p, j + 1, Len(p)) \in Seq(Chars)
         /\ IsCut(Cut(p, j + 1, Len(p)), p, j + 1, Len(p))
         /\ Len(Cut(p, j + 1, Len(p))) < Len(p)
<1> DEFINE l == Len(p)
<1>1. l \in Nat
  BY LenProperties, Zenon
<1>2. i \in 1..l /\ j \in i..l
  BY Zenon DEF IsName
<1> HIDE DEF l
<1>3. /\ i \in 1..(l + 1) /\ j \in (i - 1)..l
      /\ j + 1 \in 1..(l + 1) /\ l \in (j + 1 - 1)..l
      /\ l - (j + 1) + 1 < l
  BY <1>1, <1>2
<1>4. Cut(p, i, j) \in Seq(Chars) /\ IsCut(Cut(p, i, j), p, i, j)
  BY <1>3, CutIs, Zenon DEF l
<1>5. Cut(p, j + 1, l) \in Seq(Chars) /\ IsCut(Cut(p, j + 1, l), p, j + 1, l)
  <2>1. ASSUME NEW m \in 1..(l + 1), l \in (m - 1)..l
        PROVE  Cut(p, m, l) \in Seq(Chars) /\ IsCut(Cut(p, m, l), p, m, l)
    BY <2>1, CutIs, Zenon DEF l
  <2> QED BY <1>3, <2>1
<1>6. Len(Cut(p, j + 1, l)) < l
  BY <1>3, <1>5 DEF IsCut
<1> QED BY <1>4, <1>5, <1>6 DEF l

Texts == Seq(Chars)
NameLists == Seq(Seq(Chars))

LEMMA NameSplits ==
  ASSUME NEW p \in Texts, ~OnlySeparators(p)
  PROVE  NameOf(p) \in Texts /\ Behind(p) \in Texts /\ Len(Behind(p)) < Len(p)
         /\ <<NameOf(p)>> \in NameLists
<1>1. IsName(p, NameFirst(p), NameLast(p))
  BY NameExists DEF Texts
<1>2. NameOf(p) \in Texts /\ Behind(p) \in Texts /\ Len(Behind(p)) < Len(p)
  BY <1>1, NameParts DEF Texts, NameOf, Behind
<1>3. ASSUME NEW S, NEW x \in S PROVE <<x>> \in Seq(S)
  OBVIOUS
<1> QED BY <1>2, <1>3 DEF Texts, NameLists

IsComponents(f) ==
  f = [p \in Texts |-> IF OnlySeparators(p) THEN <<>> ELSE Glue(<<NameOf(p)>>, f[Behind(p)])]

LEMMA ComponentsExist == \E f : IsComponents(f) /\ \A p \in Texts : f[p] \in NameLists
<1> DEFINE X == Texts
           S == NameLists
           D == {p \in Texts : OnlySeparators(p)}
           N == [p \in X |-> Behind(p)]
           R == [p \in X |-> <<>>]
           G == [z \in X \X S |-> Glue(<<NameOf(z[1])>>, z[2])]
           mu == [p \in X |-> Len(p)]
<1>1. Ranked(X, D, N, mu)
  <2>1. \A p \in X : mu[p] \in Nat
    BY LenProperties DEF Texts
  <2>2. ASSUME NEW p \in X, p \notin D PROVE N[p] \in X /\ mu[N[p]] < mu[p]
    <3>1. Behind(p) \in X /\ Len(Behind(p)) < Len(p)
      BY <2>2, NameSplits
    <3> QED BY <3>1
  <2> HIDE DEF D, N, mu, X
  <2> QED BY <2>1, <2>2 DEF Ranked
<1>2. \A p \in X : p \in D => R[p] \in S
  BY DEF NameLists
<1>3. ASSUME NEW p \in X, NEW s \in S, p \notin D PROVE G[<<p, s>>] \in S
  <2>1. <<NameOf(p)>> \in NameLists
    BY <1>3, NameSplits
  <2>2. Glue(<<NameOf(p)>>, s) \in S
    BY <2>1, GlueIs DEF NameLists
  <2>3. G[<<p, s>>] = Glue(<<NameOf(p)>>, s)
    OBVIOUS
  <2> QED BY <2>2, <2>3
<1>4. ASSUME NEW p \in X, NEW s \in S PROVE G[<<p, s>>] = Glue(<<NameOf(p)>>, s)
  OBVIOUS
<1>5. ASSUME NEW p \in X PROVE N[p] = Behind(p) /\ R[p] = <<>>
  OBVIOUS
<1>6. ASSUME NEW p \in X, p \notin D PROVE N[p] \in X
  BY <1>1, <1>6 DEF Ranked
<1> HIDE DEF G, R, N, mu, S, D, X
<1>7. PICK f : Solves(f, X, D, N, R, G) /\ \A p \in X : f[p] \in S
  BY <1>1, <1>2, <1>3, RecursionTyped, Zenon
<1>8. \A p \in X : f[p] = Value(f, D, N, R, G, p)
  BY <1>7 DEF Solves
<1>9. ASSUME NEW p \in X
      PROVE  f[p] = IF OnlySeparators(p) THEN <<>> ELSE Glue(<<NameOf(p)>>, f[Behind(p)])
  <2>1. CASE OnlySeparators(p)
    BY <1>5, <1>8, <2>1 DEF Value, D, X
  <2>2. CASE ~OnlySeparators(p)
    <3>1. p \notin D
      BY <2>2 DEF D
    <3>2. f[p] = G[<<p, f[N[p]]>>]
      BY <1>8, <3>1 DEF Value
    <3>3. f[N[p]] \in S
      BY <1>6, <1>7, <3>1
    <3> QED BY <1>4, <1>5, <2>2, <3>2, <3>3
  <2> QED BY <2>1, <2>2
<1>10. f = [p \in X |-> f[p]]
  BY <1>7 DEF Solves
<1>11. IsComponents(f)
  BY <1>9, <1>10 DEF IsComponents, X
<1> QED BY <1>7, <1>11 DEF X, S

LEMMA ComponentsAre == IsComponents(Components)
<1>1. Components = CHOOSE f : IsComponents(f)
  BY Zenon DEF Components, IsComponents, Texts, OnlySeparators, Glue, NameOf, Behind, NameFirst, NameLast, Cut
<1> QED BY <1>1, ComponentsExist

LEMMA ComponentsOf ==
  ASSUME NEW p \in Texts
  PROVE  /\ OnlySeparators(p) => Components[p] = <<>>
         /\ ~OnlySeparators(p) => Components[p] = Glue(<<NameOf(p)>>, Components[Behind(p)])
<1>1. Components = [q \in Texts |->
        IF OnlySeparators(q) THEN <<>> ELSE Glue(<<NameOf(q)>>, Components[Behind(q)])]
  BY ComponentsAre DEF IsComponents
<1> DEFINE E(q) == IF OnlySeparators(q) THEN <<>> ELSE Glue(<<NameOf(q)>>, Components[Behind(q)])
<1>2. Components[p] = E(p)
  <2> HIDE DEF E
  <2>1. Components = [q \in Texts |-> E(q)]
    BY <1>1 DEF E
  <2> QED BY <2>1
<1> QED BY <1>2

LEMMA ComponentsTyped == \A p \in Texts : Components[p] \in NameLists
<1> DEFINE W == {p \in Texts : Components[p] \notin NameLists}
           T == {Len(p) : p \in W}
<1> SUFFICES ASSUME W # {} PROVE FALSE
  OBVIOUS
<1>1. \A p \in Texts : Len(p) \in Nat
  BY LenProperties DEF Texts
<1>2. T \subseteq Nat /\ T # {}
  BY <1>1
<1>3. PICK m \in T : \A y \in T : m <= y
  BY <1>2, LeastNumber
<1>4. PICK p \in W : m = Len(p)
  BY <1>3
<1>5. CASE OnlySeparators(p)
  <2>1. Components[p] = <<>> /\ p \in W
    BY <1>4, <1>5, ComponentsOf
  <2>2. <<>> \in NameLists
    BY DEF NameLists
  <2> QED BY <2>1, <2>2
<1>6. CASE ~OnlySeparators(p)
  <2>1. Behind(p) \in Texts /\ Len(Behind(p)) < Len(p) /\ <<NameOf(p)>> \in NameLists
    BY <1>4, <1>6, NameSplits
  <2>2. Components[Behind(p)] \in NameLists
    <3> SUFFICES ASSUME Components[Behind(p)] \notin NameLists PROVE FALSE
      OBVIOUS
    <3>1. Len(Behind(p)) \in T
      BY <2>1
    <3> QED BY <1>1, <1>2, <1>3, <1>4, <2>1, <3>1
  <2>3. Components[p] \in NameLists
    BY <1>4, <1>6, <2>1, <2>2, ComponentsOf, GlueIs DEF NameLists
  <2> QED BY <1>4, <2>3
<1> QED BY <1>5, <1>6

LEMMA ComponentsFirst ==
  ASSUME NEW p \in Texts, NEW i, NEW j, IsName(p, i, j)
  PROVE  Components[p] = Glue(<<Cut(p, i, j)>>, Components[Cut(p, j + 1, Len(p))])
<1>1. ~OnlySeparators(p) /\ i = NameFirst(p) /\ j = NameLast(p)
  BY NameIsOne DEF Texts
<1> QED BY <1>1, ComponentsOf DEF NameOf, Behind

-----------------------------------------------------------------------------
(* Pieces of two texts in one. *)

LEMMA CutsAreSame ==
  ASSUME NEW a \in Texts, NEW b \in Texts, NEW n \in Nat, Len(a) = n, Len(b) = n,
         \A k \in 1..n : a[k] = b[k]
  PROVE  a = b
  BY SameText DEF Texts

LEMMA CutFront ==
  ASSUME NEW a \in Texts, NEW b \in Texts, NEW i \in 1..(Len(a) + 1), NEW j \in (i - 1)..Len(a)
  PROVE  Cut(Glue(a, b), i, j) = Cut(a, i, j)
<1> DEFINE g == Glue(a, b)
           la == Len(a)
           lb == Len(b)
           n == j - i + 1
           c == Cut(g, i, j)
           d == Cut(a, i, j)
<1>1. g \in Texts /\ Joins(g, a, b) /\ la \in Nat /\ lb \in Nat
  BY GlueIs, LenProperties DEF Texts
<1>2. Len(g) = la + lb /\ \A k \in 1..la : g[k] = a[k]
  BY <1>1, Zenon DEF Joins
<1>3. i \in 1..(la + 1) /\ j \in (i - 1)..la
  OBVIOUS
<1>4. d \in Texts /\ IsCut(d, a, i, j)
  BY CutIs DEF Texts
<1> HIDE DEF la, lb, g
<1>5. i \in 1..(la + lb + 1) /\ j \in (i - 1)..(la + lb) /\ n \in Nat
  BY <1>1, <1>3
<1>6. c \in Texts /\ IsCut(c, g, i, j)
  BY <1>1, <1>2, <1>5, CutIs, Zenon DEF Texts
<1> HIDE DEF c, d
<1>7. Len(c) = n /\ Len(d) = n
  BY <1>4, <1>6 DEF IsCut
<1>8. ASSUME NEW k \in 1..n PROVE c[k] = d[k]
  <2>1. i + k - 1 \in 1..la
    BY <1>1, <1>3
  <2>2. c[k] = g[i + k - 1] /\ d[k] = a[i + k - 1]
    BY <1>4, <1>6 DEF IsCut
  <2> QED BY <1>2, <2>1, <2>2
<1> HIDE DEF n
<1>9. c = d
  BY <1>4, <1>5, <1>6, <1>7, <1>8, CutsAreSame
<1> QED BY <1>9 DEF c, d, g

LEMMA CutBehind ==
  ASSUME NEW a \in Texts, NEW b \in Texts, NEW i \in 1..(Len(b) + 1), NEW j \in (i - 1)..Len(b)
  PROVE  Cut(Glue(a, b), Len(a) + i, Len(a) + j) = Cut(b, i, j)
<1> DEFINE g == Glue(a, b)
           la == Len(a)
           lb == Len(b)
           n == j - i + 1
           x == la + i
           y == la + j
           c == Cut(g, x, y)
           d == Cut(b, i, j)
<1>1. g \in Texts /\ Joins(g, a, b) /\ la \in Nat /\ lb \in Nat
  BY GlueIs, LenProperties DEF Texts
<1>2. Len(g) = la + lb /\ \A k \in 1..lb : g[la + k] = b[k]
  BY <1>1, Zenon DEF Joins
<1>3. i \in 1..(lb + 1) /\ j \in (i - 1)..lb
  OBVIOUS
<1>4. d \in Texts /\ IsCut(d, b, i, j)
  BY CutIs DEF Texts
<1> HIDE DEF la, lb, g
<1>5. x \in 1..(la + lb + 1) /\ y \in (x - 1)..(la + lb) /\ n \in Nat /\ y - x + 1 = n
  BY <1>1, <1>3
<1> HIDE DEF x, y
<1>6. c \in Texts /\ IsCut(c, g, x, y)
  BY <1>1, <1>2, <1>5, CutIs, Zenon DEF Texts
<1> HIDE DEF c, d
<1>7. Len(c) = n /\ Len(d) = n
  BY <1>4, <1>5, <1>6 DEF IsCut
<1>8. ASSUME NEW k \in 1..n PROVE c[k] = d[k]
  <2>1. i + k - 1 \in 1..lb /\ x + k - 1 = la + (i + k - 1)
    BY <1>1, <1>3 DEF x
  <2>2. c[k] = g[x + k - 1] /\ d[k] = b[i + k - 1]
    BY <1>4, <1>5, <1>6 DEF IsCut
  <2> QED BY <1>2, <2>1, <2>2
<1> HIDE DEF n
<1>9. c = d
  BY <1>4, <1>5, <1>6, <1>7, <1>8, CutsAreSame
<1> QED BY <1>9 DEF c, d, g, x, y, la

LEMMA CutAcross ==
  ASSUME NEW a \in Texts, NEW b \in Texts, NEW j \in 0..Len(a)
  PROVE  Cut(Glue(a, b), j + 1, Len(Glue(a, b))) = Glue(Cut(a, j + 1, Len(a)), b)
<1> DEFINE g == Glue(a, b)
           la == Len(a)
           lb == Len(b)
           n == la + lb - j
           x == j + 1
           l == Len(g)
           e == Cut(a, x, la)
           c == Cut(g, x, l)
           d == Glue(e, b)
<1>1. g \in Texts /\ Joins(g, a, b) /\ la \in Nat /\ lb \in Nat
  BY GlueIs, LenProperties DEF Texts
<1>2. /\ l = la + lb /\ \A k \in 1..la : g[k] = a[k]
      /\ \A k \in 1..lb : g[la + k] = b[k]
  BY <1>1, Zenon DEF Joins
<1>3. j \in 0..la
  OBVIOUS
<1> HIDE DEF lb, g, la, l
<1>4. x \in 1..(la + 1) /\ la \in (x - 1)..la /\ la - x + 1 = la - j /\ n \in Nat
      /\ x \in 1..(l + 1) /\ l \in (x - 1)..l /\ l - x + 1 = n
  BY <1>1, <1>2, <1>3
<1> HIDE DEF x
<1>5. e \in Texts /\ IsCut(e, a, x, la)
  BY <1>4, CutIs, Zenon DEF Texts, la
<1>6. c \in Texts /\ IsCut(c, g, x, l)
  BY <1>1, <1>4, CutIs, Zenon DEF Texts, l
<1> HIDE DEF c, e
<1>7. d \in Texts /\ Joins(d, e, b)
  BY <1>5, GlueIs DEF Texts
<1> HIDE DEF d
<1>8. Len(e) = la - j /\ \A k \in 1..(la - j) : e[k] = a[j + k]
  <2>1. Len(e) = la - j /\ \A k \in 1..(la - j) : e[k] = a[x + k - 1]
    BY <1>4, <1>5 DEF IsCut
  <2>2. \A k \in 1..(la - j) : x + k - 1 = j + k
    BY <1>1, <1>3 DEF x
  <2> QED BY <2>1, <2>2
<1>9. Len(c) = n /\ \A k \in 1..n : c[k] = g[j + k]
  <2>1. Len(c) = n /\ \A k \in 1..n : c[k] = g[x + k - 1]
    BY <1>4, <1>6 DEF IsCut
  <2>2. \A k \in 1..n : x + k - 1 = j + k
    BY <1>1, <1>3 DEF x
  <2> QED BY <2>1, <2>2
<1>10. /\ Len(d) = (la - j) + lb /\ \A k \in 1..(la - j) : d[k] = e[k]
       /\ \A k \in 1..lb : d[(la - j) + k] = b[k]
  BY <1>7, <1>8 DEF Joins, lb
<1>11. Len(d) = n
  BY <1>1, <1>3, <1>10
<1>12. ASSUME NEW k \in 1..n PROVE c[k] = d[k]
  <2>1. CASE k <= la - j
    <3>1. k \in 1..(la - j) /\ j + k \in 1..la
      BY <1>1, <1>3, <2>1
    <3> QED BY <1>2, <1>8, <1>9, <1>10, <3>1
  <2>2. CASE ~(k <= la - j)
    <3> DEFINE i == k - (la - j)
    <3>1. i \in 1..lb /\ (la - j) + i = k /\ la + i = j + k
      BY <1>1, <1>3, <2>2
    <3> HIDE DEF i
    <3>2. d[k] = b[i] /\ g[j + k] = b[i]
      <4>1. d[(la - j) + i] = b[i] /\ g[la + i] = b[i]
        BY <1>2, <1>10, <3>1, Zenon
      <4> QED BY <3>1, <4>1
    <3> QED BY <1>9, <3>2
  <2> QED BY <2>1, <2>2
<1> HIDE DEF n
<1>13. c = d
  BY <1>4, <1>6, <1>7, <1>9, <1>11, <1>12, CutsAreSame
<1> QED BY <1>13 DEF c, d, e, g, x, la, l

-----------------------------------------------------------------------------
(* The names of two texts in one. *)

LEMMA TextIs ==
  ASSUME NEW p \in Texts
  PROVE  Len(p) \in Nat /\ DOMAIN p = 1..Len(p)
  BY LenProperties DEF Texts

LEMMA SeparatorsInFront ==
  ASSUME NEW a \in Texts, NEW b \in Texts, OnlySeparators(a)
  PROVE  Components[Glue(a, b)] = Components[b]
<1> DEFINE g == Glue(a, b)
           la == Len(a)
           lb == Len(b)
<1>1. g \in Texts /\ Joins(g, a, b)
  BY GlueIs DEF Texts
<1>2. la \in Nat /\ lb \in Nat /\ DOMAIN a = 1..la /\ DOMAIN b = 1..lb /\ DOMAIN g = 1..Len(g)
  BY <1>1, TextIs
<1>3. /\ Len(g) = la + lb /\ \A k \in 1..la : g[k] = a[k]
      /\ \A k \in 1..lb : g[la + k] = b[k]
  BY <1>1, Zenon DEF Joins
<1>4. \A k \in 1..la : g[k] = "/"
  BY <1>2, <1>3 DEF OnlySeparators
<1> HIDE DEF la, lb, g
<1>5. CASE OnlySeparators(b)
  <2>1. ASSUME NEW k \in 1..(la + lb) PROVE g[k] = "/"
    <3>1. CASE k \in 1..la
      BY <1>4, <3>1
    <3>2. CASE k \notin 1..la
      <4> DEFINE i == k - la
      <4>1. i \in 1..lb /\ la + i = k
        BY <1>2, <3>2
      <4> HIDE DEF i
      <4>2. g[la + i] = b[i] /\ b[i] = "/"
        BY <1>2, <1>3, <1>5, <4>1 DEF OnlySeparators
      <4> QED BY <4>1, <4>2
    <3> QED BY <3>1, <3>2
  <2>2. OnlySeparators(g)
    BY <1>2, <1>3, <2>1 DEF OnlySeparators
  <2> QED BY <1>1, <1>5, <2>2, ComponentsOf DEF g
<1>6. CASE ~OnlySeparators(b)
  <2> DEFINE i == NameFirst(b)
             j == NameLast(b)
             x == la + i
             y == la + j
  <2>1. IsName(b, i, j)
    BY <1>6, NameExists DEF Texts
  <2> HIDE DEF i, j
  <2>2. /\ i \in 1..lb /\ j \in i..lb
        /\ \A k \in 1..(i - 1) : b[k] = "/"
        /\ \A k \in i..j : b[k] # "/"
        /\ j = lb \/ b[j + 1] = "/"
    BY <2>1 DEF IsName, lb
  <2>3. i \in Nat /\ j \in Nat /\ x \in Nat /\ y \in Nat
    BY <1>2, <2>2
  <2>4. IsName(g, x, y)
    <3>1. x \in 1..(la + lb) /\ y \in x..(la + lb)
      BY <1>2, <2>2, <2>3
    <3>2. ASSUME NEW k \in 1..(x - 1) PROVE g[k] = "/"
      <4>1. CASE k \in 1..la
        BY <1>4, <4>1
      <4>2. CASE k \notin 1..la
        <5> DEFINE n == k - la
        <5>1. n \in 1..lb /\ la + n = k /\ n \in 1..(i - 1)
          BY <1>2, <2>2, <2>3, <4>2
        <5> HIDE DEF n
        <5>2. g[la + n] = b[n] /\ b[n] = "/"
          BY <1>3, <2>2, <5>1
        <5> QED BY <5>1, <5>2
      <4> QED BY <4>1, <4>2
    <3>3. ASSUME NEW k \in x..y PROVE g[k] # "/"
      <4> DEFINE n == k - la
      <4>1. n \in 1..lb /\ la + n = k /\ n \in i..j
        BY <1>2, <2>2, <2>3
      <4> HIDE DEF n
      <4>2. g[la + n] = b[n] /\ b[n] # "/"
        BY <1>3, <2>2, <4>1
      <4> QED BY <4>1, <4>2
    <3>4. y = la + lb \/ g[y + 1] = "/"
      <4>1. CASE j = lb
        BY <4>1
      <4>2. CASE j # lb
        <5>1. j + 1 \in 1..lb /\ la + (j + 1) = y + 1
          BY <1>2, <2>2, <2>3, <4>2
        <5>2. g[la + (j + 1)] = b[j + 1] /\ b[j + 1] = "/"
          BY <1>3, <2>2, <4>2, <5>1
        <5> QED BY <5>1, <5>2
      <4> QED BY <4>1, <4>2
    <3> HIDE DEF x, y
    <3> QED BY <1>3, <3>1, <3>2, <3>3, <3>4 DEF IsName
  <2>5. Components[g] = Glue(<<Cut(g, x, y)>>, Components[Cut(g, y + 1, Len(g))])
    BY <1>1, <2>4, ComponentsFirst
  <2>6. Components[b] = Glue(<<Cut(b, i, j)>>, Components[Cut(b, j + 1, lb)])
    BY <2>1, ComponentsFirst DEF lb
  <2>7. Cut(g, x, y) = Cut(b, i, j)
    <3>1. i \in 1..(lb + 1) /\ j \in (i - 1)..lb
      BY <1>2, <2>2, <2>3
    <3> QED BY <3>1, CutBehind DEF g, la, lb
  <2>8. Cut(g, y + 1, Len(g)) = Cut(b, j + 1, lb)
    <3>1. j + 1 \in 1..(lb + 1) /\ lb \in ((j + 1) - 1)..lb /\ y + 1 = la + (j + 1)
      BY <1>2, <2>2, <2>3
    <3>2. ASSUME NEW m \in 1..(lb + 1), lb \in (m - 1)..lb
          PROVE  Cut(g, la + m, la + lb) = Cut(b, m, lb)
      BY <3>2, CutBehind DEF g, la, lb
    <3> QED BY <1>3, <3>1, <3>2
  <2>9. Components[g] = Components[b]
    BY <2>5, <2>6, <2>7, <2>8
  <2> QED BY <2>9 DEF g
<1> QED BY <1>5, <1>6

\* No name of t goes on in s.
Meets(t, s) == s = <<>> \/ s[1] = "/" \/ t = <<>> \/ t[Len(t)] = "/"

LEMMA MeetsStep ==
  ASSUME NEW t \in Texts, NEW s \in Texts, ~OnlySeparators(t), Meets(t, s)
  PROVE  /\ Components[Glue(t, s)] = Glue(<<NameOf(t)>>, Components[Glue(Behind(t), s)])
         /\ Meets(Behind(t), s)
<1> DEFINE g == Glue(t, s)
           l == Len(t)
           ls == Len(s)
           i == NameFirst(t)
           j == NameLast(t)
           r == Behind(t)
<1>1. g \in Texts /\ Joins(g, t, s)
  BY GlueIs DEF Texts
<1>2. l \in Nat /\ ls \in Nat
  BY TextIs
<1>3. /\ Len(g) = l + ls /\ \A k \in 1..l : g[k] = t[k]
      /\ \A k \in 1..ls : g[l + k] = s[k]
  BY <1>1, Zenon DEF Joins
<1>4. IsName(t, i, j)
  BY NameExists DEF Texts
<1> HIDE DEF i, j, l, ls, g
<1>5. /\ i \in 1..l /\ j \in i..l
      /\ \A k \in 1..(i - 1) : t[k] = "/"
      /\ \A k \in i..j : t[k] # "/"
      /\ j = l \/ t[j + 1] = "/"
  BY <1>4 DEF IsName, l
<1>6. i \in Nat /\ j \in Nat
  BY <1>2, <1>5
<1>7. t # <<>>
  <2>1. l # 0
    BY <1>2, <1>5
  <2> QED BY <2>1 DEF l
<1>8. IsName(g, i, j)
  <2>1. i \in 1..(l + ls) /\ j \in i..(l + ls)
    BY <1>2, <1>5, <1>6
  <2>2. ASSUME NEW k \in 1..j PROVE g[k] = t[k]
    <3>1. k \in 1..l
      BY <1>2, <1>5, <1>6
    <3> QED BY <1>3, <3>1
  <2>3. \A k \in 1..(i - 1) : k \in 1..j
    BY <1>2, <1>5, <1>6
  <2>4. \A k \in i..j : k \in 1..j
    BY <1>2, <1>5, <1>6
  <2>5. j = l + ls \/ g[j + 1] = "/"
    <3>1. CASE j # l
      <4>1. j + 1 \in 1..l
        BY <1>2, <1>5, <1>6, <3>1
      <4> QED BY <1>3, <1>5, <3>1, <4>1
    <3>2. CASE j = l /\ s = <<>>
      <4>1. ls = 0
        BY <3>2 DEF ls
      <4> QED BY <1>2, <3>2, <4>1
    <3>3. CASE j = l /\ s # <<>>
      <4>1. j \in i..j
        BY <1>2, <1>5, <1>6
      <4>2. t[l] # "/"
        BY <1>5, <3>3, <4>1
      <4>3. s[1] = "/"
        BY <1>7, <3>3, <4>2 DEF Meets, l
      <4>4. 1 \in 1..ls
        <5>1. ls # 0
          BY <3>3, EmptySeq, Zenon DEF ls, Texts
        <5> QED BY <1>2, <5>1
      <4> QED BY <1>3, <3>3, <4>3, <4>4
    <3> QED BY <3>1, <3>2, <3>3
  <2> QED BY <1>3, <1>5, <2>1, <2>2, <2>3, <2>4, <2>5 DEF IsName
<1>9. Components[g] = Glue(<<Cut(g, i, j)>>, Components[Cut(g, j + 1, Len(g))])
  BY <1>1, <1>8, ComponentsFirst
<1>10. Cut(g, i, j) = NameOf(t)
  <2>1. i \in 1..(l + 1) /\ j \in (i - 1)..l
    BY <1>2, <1>5, <1>6
  <2>2. Cut(g, i, j) = Cut(t, i, j)
    BY <2>1, CutFront DEF g, l
  <2> QED BY <2>2 DEF NameOf, i, j
<1>11. Cut(g, j + 1, Len(g)) = Glue(r, s)
  <2>1. j \in 0..l
    BY <1>2, <1>5, <1>6
  <2>2. Cut(g, j + 1, Len(g)) = Glue(Cut(t, j + 1, l), s)
    BY <2>1, CutAcross DEF g, l
  <2> QED BY <2>2 DEF Behind, j, l
<1>12. Meets(r, s)
  <2> SUFFICES ASSUME t[l] = "/", r # <<>> PROVE Meets(r, s)
    BY <1>7 DEF Meets, l
  <2>1. r \in Texts /\ Len(r) = l - (j + 1) + 1
        /\ \A k \in 1..(l - (j + 1) + 1) : r[k] = t[(j + 1) + k - 1]
    BY <1>4, NameParts DEF Behind, IsCut, j, l, Texts
  <2> DEFINE m == Len(r)
  <2>2. m \in Nat /\ m # 0
    BY <2>1, EmptySeq, TextIs, Zenon DEF Texts
  <2> HIDE DEF m, r
  <2>3. m \in 1..(l - (j + 1) + 1) /\ (j + 1) + m - 1 = l
    BY <1>2, <1>5, <1>6, <2>1, <2>2 DEF m
  <2>4. r[m] = "/"
    BY <2>1, <2>3
  <2> QED BY <2>4 DEF Meets, m
<1> QED BY <1>9, <1>10, <1>11, <1>12 DEF g

\* The names of two texts that meet are those of the one and then those of
\* the other.
LEMMA MeetsNames ==
  ASSUME NEW t \in Texts, NEW s \in Texts, Meets(t, s)
  PROVE  Components[Glue(t, s)] = Glue(Components[t], Components[s])
<1> DEFINE Fails(p) == Meets(p, s) /\ Components[Glue(p, s)] # Glue(Components[p], Components[s])
           W == {p \in Texts : Fails(p)}
           T == {Len(p) : p \in W}
<1> SUFFICES ASSUME W # {} PROVE FALSE
  OBVIOUS
<1>1. \A p \in Texts : Len(p) \in Nat
  BY TextIs
<1>2. T \subseteq Nat /\ T # {}
  BY <1>1
<1>3. PICK m \in T : \A y \in T : m <= y
  BY <1>2, LeastNumber
<1>4. PICK p \in W : m = Len(p)
  BY <1>3
<1>5. p \in Texts /\ Fails(p)
  BY <1>4
<1>6. Components[s] \in NameLists
  BY ComponentsTyped
<1>7. CASE OnlySeparators(p)
  <2>1. Components[p] = <<>> /\ Components[Glue(p, s)] = Components[s]
    BY <1>5, <1>7, ComponentsOf, SeparatorsInFront
  <2>2. Glue(<<>>, Components[s]) = Components[s]
    BY <1>6, GlueEmpty DEF NameLists
  <2> QED BY <1>5, <2>1, <2>2
<1>8. CASE ~OnlySeparators(p)
  <2> DEFINE r == Behind(p)
             n == <<NameOf(p)>>
  <2>1. r \in Texts /\ Len(r) < Len(p) /\ n \in NameLists
    BY <1>5, <1>8, NameSplits
  <2>2. Components[Glue(p, s)] = Glue(n, Components[Glue(r, s)]) /\ Meets(r, s)
    BY <1>5, <1>8, MeetsStep
  <2>3. Components[p] = Glue(n, Components[r]) /\ Components[r] \in NameLists
    BY <1>5, <1>8, <2>1, ComponentsOf, ComponentsTyped
  <2> HIDE DEF r, n
  <2>4. Components[Glue(r, s)] = Glue(Components[r], Components[s])
    <3> SUFFICES ASSUME ~(Components[Glue(r, s)] = Glue(Components[r], Components[s])) PROVE FALSE
      OBVIOUS
    <3>1. r \in W
      BY <2>1, <2>2
    <3>2. Len(r) \in T
      BY <3>1
    <3>3. Len(r) \in Nat /\ m <= Len(r)
      BY <1>1, <1>3, <2>1, <3>2
    <3> QED BY <1>1, <1>4, <1>5, <2>1, <3>3
  <2>5. Glue(Glue(n, Components[r]), Components[s]) = Glue(n, Glue(Components[r], Components[s]))
    BY <1>6, <2>1, <2>3, GlueAssoc DEF NameLists
  <2> QED BY <1>5, <2>2, <2>3, <2>4, <2>5
<1> QED BY <1>7, <1>8

-----------------------------------------------------------------------------
(* What the reader does with a path, in names. *)

Clean(p) == p = <<>> \/ p[1] # "/"
Decodable(p) == \A k \in DOMAIN p : p[k] \notin Undecodable

LEMMA EmptyNames == <<>> \in Texts /\ Components[<<>>] = <<>>
<1>1. <<>> \in Texts /\ OnlySeparators(<<>>)
  BY DEF Texts, OnlySeparators
<1> QED BY <1>1, ComponentsOf

LEMMA CutDecodable ==
  ASSUME NEW p \in Texts, NEW i \in 1..(Len(p) + 1), NEW j \in (i - 1)..Len(p), Decodable(p)
  PROVE  Decodable(Cut(p, i, j))
<1> DEFINE c == Cut(p, i, j)
           l == Len(p)
           n == j - i + 1
<1>1. c \in Texts /\ IsCut(c, p, i, j)
  BY CutIs DEF Texts
<1>2. l \in Nat /\ DOMAIN p = 1..l /\ DOMAIN c = 1..Len(c)
  BY <1>1, TextIs
<1>3. i \in 1..(l + 1) /\ j \in (i - 1)..l
  OBVIOUS
<1> HIDE DEF l, c
<1>4. Len(c) = n /\ \A k \in 1..n : c[k] = p[i + k - 1]
  BY <1>1 DEF IsCut
<1>5. ASSUME NEW k \in 1..n PROVE c[k] \notin Undecodable
  <2>1. i + k - 1 \in 1..l
    BY <1>2, <1>3
  <2> QED BY <1>2, <1>4, <2>1 DEF Decodable
<1> QED BY <1>2, <1>4, <1>5 DEF Decodable, c

LEMMA TrimNames ==
  ASSUME NEW p \in Texts
  PROVE  /\ trim_leading_separators(p) \in Texts
         /\ Len(trim_leading_separators(p)) <= Len(p)
         /\ Components[trim_leading_separators(p)] = Components[p]
         /\ Clean(trim_leading_separators(p))
         /\ Decodable(p) => Decodable(trim_leading_separators(p))
<1> DEFINE l == Len(p)
           T == {k \in 1..(l + 1) : ~IsSeparator(p, k)}
           first == CHOOSE k \in 1..(Len(p) + 1) :
                      /\ ~IsSeparator(p, k)
                      /\ \A j \in 1..(k - 1) : IsSeparator(p, j)
           q == trim_leading_separators(p)
<1>1. l \in Nat /\ DOMAIN p = 1..l
  BY TextIs
<1>2. q \in Texts /\ Len(q) <= Len(p)
  BY Trimmed DEF Texts
<1> HIDE DEF l
<1>3. l + 1 \in T
  BY <1>1 DEF IsSeparator
<1>4. PICK x \in T : \A y \in T : x <= y
  <2>1. T \subseteq Nat /\ T # {}
    BY <1>1, <1>3
  <2> QED BY <2>1, LeastNumber
<1>5. \A j \in 1..(x - 1) : IsSeparator(p, j)
  BY <1>1, <1>4
<1>6. first \in 1..(l + 1) /\ ~IsSeparator(p, first) /\ \A j \in 1..(first - 1) : IsSeparator(p, j)
  <2>1. x \in 1..(l + 1) /\ ~IsSeparator(p, x)
    BY <1>4
  <2> QED BY <1>5, <2>1, Zenon DEF l
<1>7. q = Cut(p, first, l)
  BY Zenon DEF trim_leading_separators, Cut, l
<1> HIDE DEF first, q, T
<1>8. /\ 1 \in 1..(l + 1) /\ first - 1 \in (1 - 1)..l /\ l \in (first - 1)..l
      /\ first - 1 \in (1 - 1)..l /\ first \in Nat /\ (first - 1) + 1 = first
  BY <1>1, <1>6
<1> DEFINE a == Cut(p, 1, first - 1)
<1>9. a \in Texts /\ IsCut(a, p, 1, first - 1)
  BY <1>8, CutIs, Zenon DEF Texts, l
<1>10. IsCut(q, p, first, l)
  BY <1>6, <1>7, <1>8, CutIs, Zenon DEF Texts, l
<1>11. Glue(a, q) = p
  <2>1. SubSeq(p, 1, first - 1) \o SubSeq(p, (first - 1) + 1, l) = SubSeq(p, 1, l)
    BY <1>8, ConcatAdjacentSubSeq DEF l, Texts
  <2>2. SubSeq(p, 1, l) = p
    BY SubSeqFull DEF l, Texts
  <2> QED BY <1>7, <1>8, <2>1, <2>2 DEF Glue, Cut
<1>12. OnlySeparators(a)
  <2> DEFINE n == first - 1
  <2>1. Len(a) = (first - 1) - 1 + 1 /\ \A k \in 1..((first - 1) - 1 + 1) : a[k] = p[1 + k - 1]
    BY <1>9 DEF IsCut
  <2>2. (first - 1) - 1 + 1 = n /\ n \in Nat
    BY <1>6, <1>8
  <2> HIDE DEF a, n
  <2>3. DOMAIN a = 1..n /\ \A k \in 1..n : a[k] = p[1 + k - 1]
    BY <1>9, <2>1, <2>2, TextIs
  <2>4. ASSUME NEW k \in 1..n PROVE a[k] = "/"
    <3>1. 1 + k - 1 = k /\ IsSeparator(p, k)
      BY <1>6, <2>2 DEF n
    <3> QED BY <2>3, <3>1 DEF IsSeparator
  <2> QED BY <2>3, <2>4 DEF OnlySeparators
<1>13. Components[q] = Components[p]
  BY <1>2, <1>9, <1>11, <1>12, SeparatorsInFront
<1>14. Clean(q)
  <2>1. Len(q) = l - first + 1 /\ \A k \in 1..(l - first + 1) : q[k] = p[first + k - 1]
    BY <1>10 DEF IsCut
  <2>2. CASE first = l + 1
    <3>1. Len(q) = 0
      BY <1>1, <2>1, <2>2
    <3> QED BY <1>2, <3>1, EmptySeq, Zenon DEF Clean, Texts
  <2>3. CASE first # l + 1
    <3>1. 1 \in 1..(l - first + 1) /\ first + 1 - 1 = first /\ first \in 1..l
      BY <1>1, <1>6, <1>8, <2>3
    <3>2. q[1] = p[first]
      BY <2>1, <3>1
    <3> QED BY <1>1, <1>6, <3>1, <3>2 DEF IsSeparator, Clean
  <2> QED BY <2>2, <2>3
<1>15. Decodable(p) => Decodable(q)
  BY <1>6, <1>7, <1>8, CutDecodable DEF l
<1> QED BY <1>2, <1>13, <1>14, <1>15 DEF q

LEMMA FirstName ==
  ASSUME NEW p \in Texts, Clean(p), p # <<>>
  PROVE  IsName(p, 1, ComponentLength(p))
<1> DEFINE l == Len(p)
           n == ComponentLength(p)
           Ends(m) == m = l \/ IsSeparator(p, m + 1)
           T == {m \in 0..l : Ends(m)}
<1>1. l \in Nat /\ DOMAIN p = 1..l
  BY TextIs
<1>2. l # 0
  BY EmptySeq, Zenon DEF Texts
<1> HIDE DEF l
<1>3. l \in T
  BY <1>1
<1>4. PICK x \in T : \A y \in T : x <= y
  <2>1. T \subseteq Nat /\ T # {}
    BY <1>1, <1>3
  <2> QED BY <2>1, LeastNumber
<1>5. x \in 0..l /\ Ends(x)
  BY <1>4
<1>6. ASSUME NEW k \in 1..x PROVE ~IsSeparator(p, k)
  <2>1. k - 1 \in 0..l /\ ~(x <= k - 1) /\ (k - 1) + 1 = k
    <3> HIDE DEF T, Ends
    <3> QED BY <1>1, <1>5
  <2>2. k - 1 \notin T
    BY <1>4, <2>1
  <2>3. ~IsSeparator(p, (k - 1) + 1)
    BY <2>1, <2>2
  <2> QED BY <2>1, <2>3
<1> HIDE DEF T
<1>7. n \in 0..l /\ Ends(n) /\ \A k \in 1..n : ~IsSeparator(p, k)
  BY <1>5, <1>6, Zenon DEF ComponentLength, l
<1> HIDE DEF n
<1>8. n # 0
  <2> SUFFICES ASSUME n = 0 PROVE FALSE
    OBVIOUS
  <2>1. IsSeparator(p, 1)
    BY <1>2, <1>7
  <2> QED BY <2>1 DEF IsSeparator, Clean
<1>9. 1 \in 1..l /\ n \in 1..l /\ \A k \in 1..n : k \in 1..l
  BY <1>1, <1>7, <1>8
<1>10. \A k \in 1..n : p[k] # "/"
  BY <1>1, <1>7, <1>9 DEF IsSeparator
<1>11. n = l \/ p[n + 1] = "/"
  BY <1>7 DEF IsSeparator
<1>12. \A k \in 1..(1 - 1) : p[k] = "/"
  OBVIOUS
<1> QED BY <1>9, <1>10, <1>11, <1>12 DEF IsName, n, l

LEMMA RemainingNames ==
  ASSUME remaining \in Texts, Clean(remaining), remaining # <<>>
  PROVE  /\ Component \in Texts /\ Rest \in Texts /\ Len(Rest) <= Len(remaining)
         /\ Components[remaining] = Glue(<<Component>>, Components[Rest])
         /\ Clean(Rest) /\ (Decodable(remaining) => Decodable(Rest))
<1> DEFINE n == ComponentLength(remaining)
           l == Len(remaining)
           s == Cut(remaining, n + 1, l)
<1>1. IsName(remaining, 1, n)
  BY FirstName
<1>2. Components[remaining] = Glue(<<Cut(remaining, 1, n)>>, Components[s])
  BY <1>1, ComponentsFirst
<1>3. Cut(remaining, 1, n) \in Texts /\ s \in Texts /\ Len(s) < l
  BY <1>1, NameParts DEF Texts
<1>4. Component = Cut(remaining, 1, n) /\ Rest = trim_leading_separators(s)
  BY Zenon DEF Component, Rest, Cut
<1>5. Rest \in Texts /\ Len(Rest) <= Len(remaining)
  BY RestFits DEF Texts
<1>6. Components[Rest] = Components[s] /\ Clean(Rest) /\ (Decodable(s) => Decodable(Rest))
  <2> HIDE DEF s
  <2> QED BY <1>3, <1>4, TrimNames
<1>7. Decodable(remaining) => Decodable(s)
  <2>1. l \in Nat /\ n \in 1..l
    BY <1>1, TextIs DEF IsName
  <2> HIDE DEF l, n
  <2>2. n + 1 \in 1..(l + 1) /\ l \in ((n + 1) - 1)..l
    BY <2>1
  <2>3. ASSUME NEW m \in 1..(l + 1), l \in (m - 1)..l, Decodable(remaining)
        PROVE  Decodable(Cut(remaining, m, l))
    BY <2>3, CutDecodable DEF l
  <2> QED BY <2>2, <2>3
<1> QED BY <1>2, <1>3, <1>4, <1>5, <1>6, <1>7

LEMMA GlueDecodable ==
  ASSUME NEW a \in Texts, NEW b \in Texts
  PROVE  Decodable(Glue(a, b)) <=> Decodable(a) /\ Decodable(b)
<1> DEFINE g == Glue(a, b)
           la == Len(a)
           lb == Len(b)
<1>1. g \in Texts /\ Joins(g, a, b)
  BY GlueIs DEF Texts
<1>2. /\ Len(g) = la + lb /\ \A k \in 1..la : g[k] = a[k]
      /\ \A k \in 1..lb : g[la + k] = b[k]
  BY <1>1, Zenon DEF Joins
<1>3. la \in Nat /\ lb \in Nat /\ DOMAIN a = 1..la /\ DOMAIN b = 1..lb /\ DOMAIN g = 1..Len(g)
  BY <1>1, TextIs
<1> HIDE DEF g, la, lb
<1>4. ASSUME Decodable(g) PROVE Decodable(a) /\ Decodable(b)
  <2>1. ASSUME NEW k \in 1..la PROVE a[k] \notin Undecodable
    <3>1. k \in 1..(la + lb)
      BY <1>3
    <3> QED BY <1>2, <1>3, <1>4, <3>1 DEF Decodable
  <2>2. ASSUME NEW k \in 1..lb PROVE b[k] \notin Undecodable
    <3>1. la + k \in 1..(la + lb)
      BY <1>3
    <3>2. g[la + k] = b[k]
      BY <1>2
    <3>3. g[la + k] \notin Undecodable
      BY <1>2, <1>3, <1>4, <3>1 DEF Decodable
    <3> QED BY <3>2, <3>3
  <2> QED BY <1>3, <2>1, <2>2 DEF Decodable
<1>5. ASSUME Decodable(a), Decodable(b) PROVE Decodable(g)
  <2>1. ASSUME NEW k \in 1..(la + lb) PROVE g[k] \notin Undecodable
    <3>1. CASE k \in 1..la
      BY <1>2, <1>3, <1>5, <3>1 DEF Decodable
    <3>2. CASE k \notin 1..la
      <4> DEFINE i == k - la
      <4>1. i \in 1..lb /\ la + i = k
        BY <1>3, <3>2
      <4> HIDE DEF i
      <4>2. g[la + i] = b[i] /\ b[i] \notin Undecodable
        BY <1>2, <1>3, <1>5, <4>1 DEF Decodable
      <4> QED BY <4>1, <4>2
    <3> QED BY <3>1, <3>2
  <2> QED BY <1>2, <1>3, <2>1 DEF Decodable
<1> QED BY <1>4, <1>5 DEF g

LEMMA GlueBegins ==
  ASSUME NEW a \in Texts, NEW b \in Texts, a # <<>>
  PROVE  Glue(a, b)[1] = a[1] /\ 1 \in DOMAIN Glue(a, b) /\ 1 \in DOMAIN a
<1> DEFINE g == Glue(a, b)
           la == Len(a)
           lb == Len(b)
<1>1. g \in Texts /\ Joins(g, a, b)
  BY GlueIs DEF Texts
<1>2. Len(g) = la + lb /\ \A k \in 1..la : g[k] = a[k]
  BY <1>1, Zenon DEF Joins
<1>3. la \in Nat /\ lb \in Nat /\ DOMAIN g = 1..Len(g) /\ DOMAIN a = 1..la
  BY <1>1, TextIs
<1>4. la # 0
  BY EmptySeq, Zenon DEF Texts
<1> HIDE DEF g, la, lb
<1>5. 1 \in 1..la /\ 1 \in 1..(la + lb)
  BY <1>3, <1>4
<1> QED BY <1>2, <1>3, <1>5 DEF g

\* Where a link leads.
LEMMA ExpandedNames ==
  ASSUME NEW t \in Texts, NEW tail \in Texts, Clean(tail), Decodable(tail)
  PROVE  /\ ExpandedPath(t, tail) \in Texts
         /\ Components[ExpandedPath(t, tail)] = Glue(Components[t], Components[tail])
         /\ Len(ExpandedPath(t, tail)) <= Len(t) + 1 + Len(tail)
         /\ Decodable(ExpandedPath(t, tail)) <=> Decodable(t)
         /\ IsSeparator(ExpandedPath(t, tail), 1) <=> IsAbsolute(t)
<1> DEFINE sep == <<"/">>
           e == ExpandedPath(t, tail)
<1>1. sep \in Texts /\ sep # <<>> /\ sep[1] = "/" /\ Len(sep) = 1 /\ DOMAIN sep = 1..1
  BY TextAssumption DEF Texts
<1>2. Len(t) \in Nat /\ Len(tail) \in Nat
  BY TextIs
<1>3. Components[t] \in NameLists /\ Components[tail] \in NameLists
  BY ComponentsTyped
<1>4. IsSeparator(t, 1) <=> IsAbsolute(t)
  <2>1. t # <<>> => 1 \in DOMAIN t
    BY GlueBegins, EmptyNames
  <2>2. DOMAIN <<>> = {}
    OBVIOUS
  <2> QED BY <2>1, <2>2 DEF IsSeparator, IsAbsolute
<1> HIDE DEF sep
<1>5. CASE tail = <<>>
  <2>1. e = t
    BY <1>5 DEF ExpandedPath
  <2>2. Glue(Components[t], Components[tail]) = Components[t]
    BY <1>3, <1>5, EmptyNames, GlueEmpty DEF NameLists
  <2>3. Len(t) <= Len(t) + 1 + Len(tail)
    BY <1>2
  <2> QED BY <1>4, <2>1, <2>2, <2>3
<1>6. CASE tail # <<>> /\ t # <<>> /\ t[Len(t)] # "/"
  <2> DEFINE s == Glue(sep, tail)
  <2>1. e = Glue(t, s)
    <3>1. e = (t \o <<"/">>) \o tail
      BY <1>6 DEF ExpandedPath
    <3>2. (t \o <<"/">>) \o tail = t \o (<<"/">> \o tail)
      BY <1>1, ConcatAssociative DEF Texts, sep
    <3> QED BY <3>1, <3>2 DEF Glue, sep
  <2>2. s \in Texts /\ Len(s) = 1 + Len(tail)
    BY <1>1, GlueLen DEF Texts
  <2>3. s[1] = "/"
    BY <1>1, GlueBegins
  <2>4. Meets(t, s)
    BY <2>3 DEF Meets
  <2>5. OnlySeparators(sep)
    BY <1>1 DEF OnlySeparators, sep
  <2>6. Components[s] = Components[tail]
    BY <1>1, <2>5, SeparatorsInFront
  <2> HIDE DEF s
  <2>7. Components[e] = Glue(Components[t], Components[tail])
    BY <2>1, <2>2, <2>4, <2>6, MeetsNames
  <2>8. e \in Texts /\ Len(e) = Len(t) + Len(s)
    BY <2>1, <2>2, GlueLen DEF Texts
  <2>9. Len(e) <= Len(t) + 1 + Len(tail)
    BY <1>2, <2>2, <2>8
  <2>10. Decodable(sep)
    BY <1>1, TextAssumption DEF Decodable, sep
  <2>11. Decodable(s)
    BY <1>1, <2>10, GlueDecodable DEF s
  <2>12. Decodable(e) <=> Decodable(t)
    BY <2>1, <2>2, <2>11, GlueDecodable
  <2>13. IsSeparator(e, 1) <=> IsAbsolute(t)
    BY <1>6, <2>1, <2>2, GlueBegins DEF IsSeparator, IsAbsolute
  <2> QED BY <2>7, <2>8, <2>9, <2>12, <2>13
<1>7. CASE tail # <<>> /\ ~(t # <<>> /\ t[Len(t)] # "/")
  <2>1. e = Glue(t, tail)
    BY <1>7 DEF ExpandedPath, Glue
  <2>2. Meets(t, tail)
    BY <1>7 DEF Meets
  <2>3. Components[e] = Glue(Components[t], Components[tail])
    BY <2>1, <2>2, MeetsNames
  <2>4. e \in Texts /\ Len(e) = Len(t) + Len(tail)
    BY <2>1, GlueLen DEF Texts
  <2>5. Len(e) <= Len(t) + 1 + Len(tail)
    BY <1>2, <2>4
  <2>6. Decodable(e) <=> Decodable(t)
    BY <2>1, GlueDecodable
  <2>7. IsSeparator(e, 1) <=> IsAbsolute(t)
    <3>1. CASE t # <<>>
      BY <2>1, <3>1, GlueBegins DEF IsSeparator, IsAbsolute
    <3>2. CASE t = <<>>
      <4>1. e = tail
        BY <2>1, <3>2, GlueEmpty DEF Texts
      <4> QED BY <1>7, <3>2, <4>1 DEF Clean, IsSeparator, IsAbsolute
    <3> QED BY <3>1, <3>2
  <2> QED BY <2>3, <2>4, <2>5, <2>6, <2>7
<1> QED BY <1>5, <1>6, <1>7

-----------------------------------------------------------------------------
(* The walk of the names. *)

LEMMA FiniteBound ==
  ASSUME NEW S, IsFiniteSet(S), NEW f, \A x \in S : f[x] \in Nat
  PROVE  \E m \in Nat : \A x \in S : f[x] <= m
<1>1. PICK n \in Nat : ExistsSurjection(1..n, S)
  BY FS_NatSurjection
<1>2. PICK g \in [1..n -> S] : \A x \in S : \E k \in 1..n : g[k] = x
  BY <1>1 DEF ExistsSurjection, Surjection
<1> DEFINE Bounded(l) == \E m \in Nat : \A k \in 1..n : k <= l => f[g[k]] <= m
           T == {l \in Nat : ~Bounded(l)}
<1>3. T = {}
  <2> SUFFICES ASSUME T # {} PROVE FALSE
    OBVIOUS
  <2>1. PICK l \in T : \A y \in T : l <= y
    BY LeastNumber
  <2>2. l \in Nat /\ ~Bounded(l)
    BY <2>1
  <2>3. Bounded(0)
    <3>1. \A k \in 1..n : ~(k <= 0)
      OBVIOUS
    <3> QED BY <3>1
  <2>4. l - 1 \in Nat /\ ~(l <= l - 1)
    <3> HIDE DEF Bounded
    <3>1. l # 0
      BY <2>2, <2>3
    <3> QED BY <2>2, <3>1
  <2>5. Bounded(l - 1)
    <3> HIDE DEF Bounded
    <3> QED BY <2>1, <2>4
  <2>6. PICK m \in Nat : \A k \in 1..n : k <= l - 1 => f[g[k]] <= m
    BY <2>5
  <2>7. CASE l \in 1..n
    <3> DEFINE b == f[g[l]]
    <3>1. b \in Nat
      BY <1>2, <2>7
    <3> HIDE DEF b
    <3>2. m + b \in Nat /\ b <= m + b
      BY <3>1
    <3>3. ASSUME NEW k \in 1..n, k <= l PROVE f[g[k]] <= m + b
      <4>1. CASE k = l
        BY <3>2, <4>1 DEF b
      <4>2. CASE k # l
        <5>1. k <= l - 1
          BY <2>2, <3>3, <4>2
        <5>2. f[g[k]] <= m /\ f[g[k]] \in Nat
          BY <1>2, <2>6, <5>1
        <5>3. ASSUME NEW x \in Nat, x <= m PROVE x <= m + b
          BY <2>6, <3>1, <5>3
        <5> QED BY <5>2, <5>3
      <4> QED BY <4>1, <4>2
    <3>4. Bounded(l)
      BY <3>2, <3>3
    <3> QED BY <2>2, <3>4
  <2>8. CASE l \notin 1..n
    <3>1. \A k \in 1..n : k <= l => k <= l - 1
      BY <2>2, <2>8
    <3>2. Bounded(l)
      BY <2>6, <3>1
    <3> QED BY <2>2, <3>2
  <2> QED BY <2>7, <2>8
<1>4. Bounded(n)
  <2> HIDE DEF Bounded
  <2> QED BY <1>3
<1>5. PICK m \in Nat : \A k \in 1..n : k <= n => f[g[k]] <= m
  BY <1>4
<1>6. ASSUME NEW x \in S PROVE f[x] <= m
  BY <1>2, <1>5
<1> QED BY <1>6

Walkers == (DOMAIN files) \X NameLists \X (0..MaxSymlinkDepth)

WalkBody(f, w) ==
  LET dir == w[1]
      names == w[2]
      budget == w[3]
  IN IF names = <<>> THEN [inode |-> dir, why |-> "none"]
     ELSE IF files[dir].kind # "directory" THEN Refused("NotDirectory")
     ELSE IF names[1] = <<".">> THEN f[<<dir, Tail(names), budget>>]
     ELSE IF names[1] = <<".", ".">> THEN Refused("InvalidPath")
     ELSE IF names[1] \notin DOMAIN files[dir].listing THEN Refused("NotFound")
     ELSE LET child == files[dir].listing[names[1]]
              target == files[child].target
          IN IF files[child].kind # "symlink" THEN f[<<child, Tail(names), budget>>]
             ELSE IF budget = 0 THEN Refused("SymlinkLoop")
             ELSE IF \E k \in DOMAIN target : target[k] \in Undecodable THEN Refused("InvalidPath")
             ELSE f[<<IF IsAbsolute(target) THEN RootInode ELSE dir,
                      Components[target] \o Tail(names), budget - 1>>]

WalkSolved(f) == f = [w \in Walkers |-> WalkBody(f, w)]

LEMMA WalkChosen == Walk = CHOOSE f : WalkSolved(f)
  BY Zenon DEF Walk, WalkSolved, WalkBody, Walkers, NameLists

\* The step from w, if there is one.
ChildOf(w) == files[w[1]].listing[w[2][1]]
Ends(w) ==
  \/ w[2] = <<>>
  \/ files[w[1]].kind # "directory"
  \/ /\ w[2][1] # <<".">>
     /\ \/ w[2][1] = <<".", ".">>
        \/ w[2][1] \notin DOMAIN files[w[1]].listing
        \/ /\ files[ChildOf(w)].kind = "symlink"
           /\ w[3] = 0 \/ \E k \in DOMAIN files[ChildOf(w)].target :
                            files[ChildOf(w)].target[k] \in Undecodable
NextOf(w) ==
  IF w[2][1] = <<".">> THEN <<w[1], Tail(w[2]), w[3]>>
  ELSE IF files[ChildOf(w)].kind # "symlink" THEN <<ChildOf(w), Tail(w[2]), w[3]>>
  ELSE <<IF IsAbsolute(files[ChildOf(w)].target) THEN RootInode ELSE w[1],
         Components[files[ChildOf(w)].target] \o Tail(w[2]), w[3] - 1>>

WhyRefused == {"NotDirectory", "InvalidPath", "NotFound", "SymlinkLoop"}
Outcomes == {[inode |-> d, why |-> "none"] : d \in DOMAIN files} \cup {Refused(y) : y \in WhyRefused}

LEMMA BodyIs ==
  ASSUME NEW f, NEW w \in Walkers
  PROVE  /\ Ends(w) => WalkBody(f, w) \in Outcomes /\ \A h : WalkBody(h, w) = WalkBody(f, w)
         /\ ~Ends(w) => WalkBody(f, w) = f[NextOf(w)]
<1>1. w[1] \in DOMAIN files
  BY DEF Walkers
<1>2. CASE w[2] = <<>>
  BY <1>1, <1>2 DEF Ends, WalkBody, Outcomes
<1>3. CASE w[2] # <<>> /\ files[w[1]].kind # "directory"
  BY <1>3 DEF Ends, WalkBody, Outcomes, WhyRefused
<1>4. CASE w[2] # <<>> /\ files[w[1]].kind = "directory" /\ w[2][1] = <<".">>
  BY <1>4 DEF Ends, WalkBody, NextOf
<1>5. CASE w[2] # <<>> /\ files[w[1]].kind = "directory" /\ w[2][1] # <<".">>
           /\ (w[2][1] = <<".", ".">> \/ w[2][1] \notin DOMAIN files[w[1]].listing)
  BY <1>5 DEF Ends, WalkBody, Outcomes, WhyRefused
<1>6. CASE w[2] # <<>> /\ files[w[1]].kind = "directory" /\ w[2][1] # <<".">>
           /\ w[2][1] # <<".", ".">> /\ w[2][1] \in DOMAIN files[w[1]].listing
  <2>1. WalkBody(f, w) =
          IF files[ChildOf(w)].kind # "symlink" THEN f[<<ChildOf(w), Tail(w[2]), w[3]>>]
          ELSE IF w[3] = 0 THEN Refused("SymlinkLoop")
          ELSE IF \E k \in DOMAIN files[ChildOf(w)].target : files[ChildOf(w)].target[k] \in Undecodable
               THEN Refused("InvalidPath")
          ELSE f[<<IF IsAbsolute(files[ChildOf(w)].target) THEN RootInode ELSE w[1],
                   Components[files[ChildOf(w)].target] \o Tail(w[2]), w[3] - 1>>]
    BY <1>6, Zenon DEF WalkBody, ChildOf
  <2>2. ASSUME NEW h
        PROVE  WalkBody(h, w) =
          IF files[ChildOf(w)].kind # "symlink" THEN h[<<ChildOf(w), Tail(w[2]), w[3]>>]
          ELSE IF w[3] = 0 THEN Refused("SymlinkLoop")
          ELSE IF \E k \in DOMAIN files[ChildOf(w)].target : files[ChildOf(w)].target[k] \in Undecodable
               THEN Refused("InvalidPath")
          ELSE h[<<IF IsAbsolute(files[ChildOf(w)].target) THEN RootInode ELSE w[1],
                   Components[files[ChildOf(w)].target] \o Tail(w[2]), w[3] - 1>>]
    BY <1>6, Zenon DEF WalkBody, ChildOf
  <2>3. {Refused("SymlinkLoop"), Refused("InvalidPath")} \subseteq Outcomes
    BY DEF Outcomes, WhyRefused
  <2> QED BY <1>6, <2>1, <2>2, <2>3 DEF Ends, NextOf
<1> QED BY <1>2, <1>3, <1>4, <1>5, <1>6

\* What a file's names lead to is there.
LEMMA ListingHeld ==
  ASSUME Holds, NEW d \in DOMAIN files
  PROVE  /\ files[d].target \in Texts
         /\ files[d].kind = "directory" =>
              \A name \in DOMAIN files[d].listing : files[d].listing[name] \in DOMAIN files
<1>1. FileWritten(volume, Spelled(volume), d)
  BY DEF Holds, Written, files
<1> QED BY <1>1 DEF FileWritten, files, Texts

LEMMA NamesTail ==
  ASSUME NEW n \in NameLists, n # <<>>
  PROVE  Tail(n) \in NameLists /\ Len(n) \in Nat /\ Len(Tail(n)) = Len(n) - 1 /\ Len(n) # 0
<1>1. Tail(n) \in NameLists /\ Len(Tail(n)) = Len(n) - 1
  BY HeadTailProperties, Zenon DEF NameLists
<1>2. Len(n) \in Nat
  BY LenProperties DEF NameLists
<1>3. Len(n) # 0
  BY EmptySeq, Zenon DEF NameLists
<1> QED BY <1>1, <1>2, <1>3

LEMMA WalkersRanked ==
  ASSUME Holds
  PROVE  \E mu : /\ \A w \in Walkers : mu[w] \in Nat
                 /\ \A w \in Walkers : ~Ends(w) => NextOf(w) \in Walkers /\ mu[NextOf(w)] < mu[w]
<1> DEFINE count == [d \in DOMAIN files |-> Len(Components[files[d].target])]
<1>1. IsFiniteSet(DOMAIN files)
  BY DEF Holds, Written, files
<1>2. ASSUME NEW d \in DOMAIN files
      PROVE  Components[files[d].target] \in NameLists /\ Len(Components[files[d].target]) \in Nat
  <2>1. Components[files[d].target] \in NameLists
    BY ListingHeld, ComponentsTyped
  <2> QED BY <2>1, LenProperties DEF NameLists
<1>3. \A d \in DOMAIN files : count[d] \in Nat
  BY <1>2
<1>4. PICK m \in Nat : \A d \in DOMAIN files : count[d] <= m
  <2> HIDE DEF count
  <2> QED BY <1>1, <1>3, FiniteBound
<1>5. \A d \in DOMAIN files : Len(Components[files[d].target]) <= m
  BY <1>4
<1> HIDE DEF count
<1> DEFINE mu == [w \in Walkers |-> w[3] * m + Len(w[2])]
<1>6. ASSUME NEW w \in Walkers
      PROVE  /\ w[1] \in DOMAIN files /\ w[2] \in NameLists /\ w[3] \in 0..MaxSymlinkDepth
             /\ w[3] \in Nat /\ Len(w[2]) \in Nat /\ w = <<w[1], w[2], w[3]>>
  <2>1. /\ w[1] \in DOMAIN files /\ w[2] \in NameLists /\ w[3] \in 0..MaxSymlinkDepth
        /\ w = <<w[1], w[2], w[3]>>
    BY DEF Walkers
  <2>2. w[3] \in Nat
    BY <2>1, Sizes
  <2>3. Len(w[2]) \in Nat
    BY <2>1, LenProperties DEF NameLists
  <2> QED BY <2>1, <2>2, <2>3
<1>7. ASSUME NEW w \in Walkers PROVE mu[w] \in Nat
  <2> DEFINE a == w[3]
             b == Len(w[2])
  <2>1. mu[w] = a * m + b
    OBVIOUS
  <2>2. a \in Nat /\ b \in Nat
    BY <1>6
  <2> HIDE DEF a, b, mu
  <2>3. a * m \in Nat
    BY <2>2
  <2> QED BY <2>1, <2>2, <2>3
<1>8. ASSUME NEW e \in DOMAIN files, NEW q \in NameLists, NEW z \in 0..MaxSymlinkDepth
      PROVE  <<e, q, z>> \in Walkers /\ mu[<<e, q, z>>] = z * m + Len(q)
  <2>1. <<e, q, z>> \in Walkers
    BY DEF Walkers
  <2> QED BY <2>1
<1>9. ASSUME NEW w \in Walkers, ~Ends(w) PROVE NextOf(w) \in Walkers /\ mu[NextOf(w)] < mu[w]
  <2> DEFINE d == w[1]
             n == w[2]
             b == w[3]
             c == ChildOf(w)
             t == files[c].target
             l == Len(n)
  <2>1. d \in DOMAIN files /\ n \in NameLists /\ b \in 0..MaxSymlinkDepth /\ b \in Nat /\ l \in Nat
    BY <1>6
  <2>2. n # <<>> /\ files[d].kind = "directory"
    BY <1>9 DEF Ends
  <2>3. Tail(n) \in NameLists /\ Len(Tail(n)) = l - 1 /\ l # 0
    BY <2>1, <2>2, NamesTail
  <2>4. mu[w] = b * m + l
    OBVIOUS
  <2>5. ASSUME NEW e \in DOMAIN files, NextOf(w) = <<e, Tail(n), b>>
        PROVE  NextOf(w) \in Walkers /\ mu[NextOf(w)] < mu[w]
    <3> HIDE DEF mu, b, l, n
    <3>1. NextOf(w) \in Walkers
      BY <1>8, <2>1, <2>3, <2>5
    <3>2. mu[NextOf(w)] = b * m + (l - 1)
      <4>1. mu[NextOf(w)] = b * m + Len(Tail(n))
        BY <1>8, <2>1, <2>3, <2>5
      <4> QED BY <2>3, <4>1
    <3>3. b * m \in Nat
      BY <2>1
    <3>4. ASSUME NEW x \in Nat PROVE x + (l - 1) < x + l
      BY <2>1
    <3> QED BY <2>4, <3>1, <3>2, <3>3, <3>4
  <2>6. CASE n[1] = <<".">>
    BY <2>1, <2>5, <2>6 DEF NextOf
  <2>7. CASE n[1] # <<".">> /\ files[c].kind # "symlink"
    <3>1. c \in DOMAIN files
      BY <1>9, <2>1, <2>2, <2>7, ListingHeld DEF Ends, ChildOf
    <3> QED BY <2>5, <2>7, <3>1 DEF NextOf
  <2>8. CASE n[1] # <<".">> /\ files[c].kind = "symlink"
    <3> DEFINE e == IF IsAbsolute(t) THEN RootInode ELSE d
               k == Components[t]
    <3>1. c \in DOMAIN files
      BY <1>9, <2>1, <2>2, <2>8, ListingHeld DEF Ends, ChildOf
    <3>2. NextOf(w) = <<e, k \o Tail(n), b - 1>>
      BY <2>8 DEF NextOf
    <3>3. e \in DOMAIN files
      BY <2>1, RootHeld
    <3>4. b # 0
      BY <1>9, <2>2, <2>8 DEF Ends
    <3>5. k \in NameLists /\ Len(k) \in Nat /\ Len(k) <= m
      BY <1>2, <1>5, <3>1
    <3> HIDE DEF k, e
    <3>6. k \o Tail(n) \in NameLists /\ Len(k \o Tail(n)) = Len(k) + (l - 1)
      <4>1. Glue(k, Tail(n)) \in NameLists /\ Len(Glue(k, Tail(n))) = Len(k) + Len(Tail(n))
        BY <2>3, <3>5, GlueLen DEF NameLists
      <4> QED BY <2>3, <4>1 DEF Glue
    <3>7. b - 1 \in 0..MaxSymlinkDepth /\ b - 1 \in Nat
      BY <2>1, <3>4, Sizes
    <3> HIDE DEF mu, b, l, n
    <3>8. NextOf(w) \in Walkers
      BY <1>8, <3>2, <3>3, <3>6, <3>7
    <3>9. mu[NextOf(w)] = (b - 1) * m + (Len(k) + (l - 1))
      <4>1. mu[NextOf(w)] = (b - 1) * m + Len(k \o Tail(n))
        BY <1>8, <3>2, <3>3, <3>6, <3>7
      <4> QED BY <3>6, <4>1
    <3>10. (b - 1) * m = b * m - m /\ b * m \in Nat
      BY <2>1
    <3> DEFINE y == Len(k)
    <3>11. ASSUME NEW x \in Nat, NEW z \in Nat, z <= m PROVE x - m + (z + (l - 1)) < x + l
      BY <2>1, <3>11
    <3> QED BY <2>4, <3>5, <3>8, <3>9, <3>10, <3>11
  <2> QED BY <2>6, <2>7, <2>8
<1> HIDE DEF mu
<1> QED BY <1>7, <1>9

LEMMA WalkSolutionExists ==
  ASSUME Holds
  PROVE  \E f : WalkSolved(f)
<1> DEFINE X == Walkers
           S == Outcomes
           D == {w \in X : Ends(w)}
           N == [w \in X |-> NextOf(w)]
           R == [w \in X |-> WalkBody(0, w)]
           G == [z \in X \X S |-> z[2]]
<1>1. PICK mu : /\ \A w \in Walkers : mu[w] \in Nat
                /\ \A w \in Walkers : ~Ends(w) => NextOf(w) \in Walkers /\ mu[NextOf(w)] < mu[w]
  BY WalkersRanked
<1>2. ASSUME NEW w \in X PROVE N[w] = NextOf(w) /\ R[w] = WalkBody(0, w) /\ (w \in D <=> Ends(w))
  OBVIOUS
<1>3. ASSUME NEW w \in X, NEW s \in S PROVE G[<<w, s>>] = s
  OBVIOUS
<1> HIDE DEF X, S, D, N, R, G
<1>4. Ranked(X, D, N, mu)
  BY <1>1, <1>2 DEF Ranked, X
<1>5. ASSUME NEW w \in X, w \in D PROVE R[w] \in S
  <2>1. w \in Walkers /\ Ends(w) /\ R[w] = WalkBody(0, w)
    BY <1>2, <1>5 DEF X
  <2> QED BY <2>1, BodyIs DEF S
<1>6. \A w \in X, s \in S : w \notin D => G[<<w, s>>] \in S
  BY <1>3
<1>7. PICK f : Solves(f, X, D, N, R, G) /\ \A w \in X : f[w] \in S
  BY <1>4, <1>5, <1>6, RecursionTyped, Zenon
<1>8. \A w \in X : f[w] = Value(f, D, N, R, G, w)
  BY <1>7 DEF Solves
<1>9. ASSUME NEW w \in X PROVE f[w] = WalkBody(f, w)
  <2>1. w \in Walkers
    BY DEF X
  <2>2. CASE Ends(w)
    <3>1. f[w] = WalkBody(0, w)
      BY <1>2, <1>8, <2>2 DEF Value
    <3>2. WalkBody(0, w) = WalkBody(f, w)
      BY <2>1, <2>2, BodyIs
    <3> QED BY <3>1, <3>2
  <2>3. CASE ~Ends(w)
    <3>1. f[w] = G[<<w, f[NextOf(w)]>>]
      BY <1>2, <1>8, <2>3 DEF Value
    <3>2. f[NextOf(w)] \in S
      BY <1>1, <1>7, <2>1, <2>3 DEF X
    <3>3. f[w] = f[NextOf(w)]
      BY <1>3, <3>1, <3>2
    <3> QED BY <2>1, <2>3, <3>3, BodyIs
  <2> QED BY <2>2, <2>3
<1>10. f = [w \in X |-> f[w]]
  BY <1>7 DEF Solves
<1>11. WalkSolved(f)
  BY <1>9, <1>10 DEF WalkSolved, X
<1> QED BY <1>11

LEMMA WalkIs ==
  ASSUME Holds, NEW w \in Walkers
  PROVE  Walk[w] = WalkBody(Walk, w)
<1>1. WalkSolved(Walk)
  BY WalkChosen, WalkSolutionExists
<1> DEFINE E(x) == WalkBody(Walk, x)
<1>2. Walk = [x \in Walkers |-> E(x)]
  BY <1>1 DEF WalkSolved
<1> HIDE DEF E
<1>3. Walk[w] = E(w)
  BY <1>2
<1> QED BY <1>3 DEF E

-----------------------------------------------------------------------------
(* Where the reader is in its path. *)

\* The length of the longest text of a link.
LongestTarget ==
  CHOOSE l \in {Len(files[n].target) : n \in DOMAIN files} :
    \A m \in {Len(files[n].target) : n \in DOMAIN files} : m <= l

LEMMA LongestIs ==
  ASSUME Holds
  PROVE  /\ LongestTarget \in Nat
         /\ \A n \in DOMAIN files : Len(files[n].target) <= LongestTarget
         /\ LongestText = Len(path) + MaxSymlinkDepth * (LongestTarget + 1)
<1> DEFINE L == {Len(files[n].target) : n \in DOMAIN files}
           f == [n \in DOMAIN files |-> Len(files[n].target)]
<1>1. ASSUME NEW n \in DOMAIN files PROVE Len(files[n].target) \in Nat
  BY ListingHeld, TextIs
<1>2. IsFiniteSet(DOMAIN files) /\ RootInode \in DOMAIN files
  BY RootHeld DEF Holds, Written, files
<1>3. PICK m \in Nat : \A n \in DOMAIN files : f[n] <= m
  <2>1. \A n \in DOMAIN files : f[n] \in Nat
    BY <1>1
  <2> HIDE DEF f
  <2> QED BY <1>2, <2>1, FiniteBound
<1>4. \A n \in DOMAIN files : Len(files[n].target) <= m
  BY <1>3
<1> HIDE DEF f
<1> DEFINE T == {b \in Nat : \A n \in DOMAIN files : Len(files[n].target) <= b}
<1>5. PICK b \in T : \A y \in T : b <= y
  <2>1. T \subseteq Nat /\ T # {}
    BY <1>4
  <2> QED BY <2>1, LeastNumber
<1>6. b \in Nat /\ \A n \in DOMAIN files : Len(files[n].target) <= b
  BY <1>5
<1>7. \E n \in DOMAIN files : Len(files[n].target) = b
  <2> SUFFICES ASSUME \A n \in DOMAIN files : Len(files[n].target) # b PROVE FALSE
    OBVIOUS
  <2>1. \A n \in DOMAIN files : Len(files[n].target) <= b - 1 /\ 0 <= Len(files[n].target)
    BY <1>1, <1>6
  <2>2. b - 1 \in Nat
    BY <1>1, <1>2, <1>6, <2>1
  <2>3. b - 1 \in T
    BY <2>1, <2>2
  <2>4. b <= b - 1
    BY <1>5, <2>3
  <2> QED BY <1>6, <2>4
<1>8. b \in L /\ \A x \in L : x <= b
  BY <1>6, <1>7
<1>9. LongestTarget \in L /\ \A x \in L : x <= LongestTarget
  <2> HIDE DEF L
  <2>1. LongestTarget = CHOOSE l \in L : \A x \in L : x <= l
    BY Zenon DEF LongestTarget, L
  <2> QED BY <1>8, <2>1
<1>10. LongestText = Len(path) + MaxSymlinkDepth * (LongestTarget + 1)
  BY Zenon DEF LongestText, LongestTarget
<1>11. ASSUME NEW n \in DOMAIN files PROVE Len(files[n].target) <= LongestTarget
  BY <1>9
<1>12. LongestTarget \in Nat
  BY <1>1, <1>9
<1> QED BY <1>10, <1>11, <1>12

\* How many links may still be followed, and the argument of Walk that stands
\* for the rest of the path.
Budget == MaxSymlinkDepth - links
Here == <<current, Components[remaining], Budget>>

\* What Walk finds at the next name of the path.
TheChild == files[current].listing[Component]
TheTarget == files[TheChild].target
AtName ==
  IF files[current].kind # "directory" THEN Refused("NotDirectory")
  ELSE IF Component = <<".">> THEN Walk[<<current, Components[Rest], Budget>>]
  ELSE IF Component = <<".", ".">> THEN Refused("InvalidPath")
  ELSE IF Component \notin DOMAIN files[current].listing THEN Refused("NotFound")
  ELSE IF files[TheChild].kind # "symlink" THEN Walk[<<TheChild, Components[Rest], Budget>>]
  ELSE IF Budget = 0 THEN Refused("SymlinkLoop")
  ELSE IF ~Decodable(TheTarget) THEN Refused("InvalidPath")
  ELSE Walk[<<IF IsAbsolute(TheTarget) THEN RootInode ELSE current,
              Glue(Components[TheTarget], Components[Rest]), Budget - 1>>]

LEMMA GlueOne ==
  ASSUME NEW S, NEW x \in S, NEW q \in Seq(S)
  PROVE  Glue(<<x>>, q) # <<>> /\ Glue(<<x>>, q)[1] = x /\ Tail(Glue(<<x>>, q)) = q
<1>1. <<x>> \o q # <<>> /\ (<<x>> \o q)[1] = x /\ Tail(<<x>> \o q) = q
  OBVIOUS
<1> QED BY <1>1 DEF Glue

LEMMA WalkHere ==
  ASSUME Holds, current \in DOMAIN files, links \in 0..MaxSymlinkDepth, remaining \in Texts,
         Clean(remaining)
  PROVE  /\ remaining = <<>> => Walk[Here] = [inode |-> current, why |-> "none"]
         /\ remaining # <<>> => Walk[Here] = AtName
<1> DEFINE n == Components[remaining]
<1>1. n \in NameLists
  BY ComponentsTyped
<1>2. Budget \in 0..MaxSymlinkDepth
  BY Sizes DEF Budget
<1>3. Here \in Walkers
  BY <1>1, <1>2 DEF Here, Walkers
<1>4. Walk[Here] = WalkBody(Walk, Here)
  BY <1>3, WalkIs
<1>5. Here[1] = current /\ Here[2] = n /\ Here[3] = Budget
  BY DEF Here
<1>6. CASE remaining = <<>>
  <2>1. n = <<>>
    BY <1>6, EmptyNames
  <2> QED BY <1>4, <1>5, <1>6, <2>1 DEF WalkBody
<1>7. CASE remaining # <<>>
  <2>1. n = Glue(<<Component>>, Components[Rest]) /\ Component \in Texts /\ Rest \in Texts
    BY <1>7, RemainingNames
  <2>2. Components[Rest] \in NameLists
    BY <2>1, ComponentsTyped
  <2>3. n # <<>> /\ n[1] = Component /\ Tail(n) = Components[Rest]
    BY <2>1, <2>2, GlueOne DEF NameLists, Texts
  <2> HIDE DEF n
  <2> DEFINE h == Here
  <2> HIDE DEF h
  <2>4. h[1] = current /\ h[2] = n /\ h[3] = Budget /\ Walk[h] = WalkBody(Walk, h)
    BY <1>4, <1>5 DEF h
  <2>5. Walk[h] = AtName
    BY <2>3, <2>4, Zenon DEF WalkBody, AtName, TheChild, TheTarget, Decodable, Glue
  <2> QED BY <1>7, <2>5 DEF h
<1> QED BY <1>6, <1>7

-----------------------------------------------------------------------------
(* The scan of a directory. *)

\* The records of one block: where record k ends, and whether it is bad.
EndOf(v, places, b, k) ==
  IF k = 0 THEN 0 ELSE places[b][k] + EntryIn(v, b, places[b][k]).record_length
BadAt(v, places, b, k) ==
  k \in DOMAIN places[b] /\ BadRecord(v, EntryIn(v, b, places[b][k]), places[b][k])

BlockRecords(v, places, b) ==
  /\ Len(places[b]) \in Nat /\ DOMAIN places[b] = 1..Len(places[b])
  /\ \A k \in 1..Len(places[b]) :
       /\ places[b][k] \in Nat /\ places[b][k] = EndOf(v, places, b, k - 1)
       /\ ~BadAt(v, places, b, k - 1)
       /\ places[b][k] + EntryHeader <= BlockSize(v.superblock)
  /\ \/ BadAt(v, places, b, Len(places[b]))
     \/ EndOf(v, places, b, Len(places[b])) + EntryHeader > BlockSize(v.superblock)

LEMMA BlockIs ==
  ASSUME NEW v, NEW places, RecordsWritten(v, places), NEW b \in DOMAIN places
  PROVE  BlockRecords(v, places, b)
<1> DEFINE at == places[b]
           l == Len(at)
<1>1. /\ at \in Seq(Nat)
      /\ \A k \in DOMAIN at :
           /\ at[k] = EndOf(v, places, b, k - 1) /\ ~BadAt(v, places, b, k - 1)
           /\ at[k] + EntryHeader <= BlockSize(v.superblock)
      /\ \/ BadAt(v, places, b, Len(at))
         \/ EndOf(v, places, b, Len(at)) + EntryHeader > BlockSize(v.superblock)
  BY Zenon DEF RecordsWritten, EndOf, BadAt
<1>2. l \in Nat /\ DOMAIN at = 1..l /\ \A k \in 1..l : at[k] \in Nat
  <2> HIDE DEF at
  <2> QED BY <1>1
<1> QED BY <1>1, <1>2, Zenon DEF BlockRecords

Places == Spelled(volume).places

\* Nothing in front of record k of block b of extent e has the name or is bad.
Unnamed(p) ==
  /\ ~IsNamed(volume, extents, Places, p, Component)
  /\ ~IsBad(volume, extents, Places, p)
Passed(e, b, k) ==
  \A x \in DOMAIN extents : \A y \in 0..(extents[x].block_count - 1) :
    \A z \in DOMAIN Places[extents[x].physical_block + y] :
      Before(<<x, y, z>>, <<e, b, k>>) => Unnamed(<<x, y, z>>)

BlockHere == extents[extent].physical_block + block

\* The scan of the directory has passed the extents, the blocks and the records
\* in front of its position, and stands where a record begins.
Scanned ==
  /\ pc = "block" => block \in Nat /\ Passed(extent, block, 0)
  /\ pc = "scan" =>
       /\ extent \in 1..Len(extents) /\ block \in 0..(extents[extent].block_count - 1)
       /\ \E k \in 1..(Len(Places[BlockHere]) + 1) :
            /\ offset = EndOf(volume, Places, BlockHere, k - 1)
            /\ ~BadAt(volume, Places, BlockHere, k - 1)
            /\ Passed(extent, block, k)

IsPosition(xs, places, p) ==
  \E x \in DOMAIN xs : \E y \in 0..(xs[x].block_count - 1) :
    \E z \in DOMAIN places[xs[x].physical_block + y] : p = <<x, y, z>>

LEMMA PositionsAre ==
  ASSUME NEW xs, NEW places, NEW p
  PROVE  p \in Positions(xs, places) <=> IsPosition(xs, places, p)
<1>1. ASSUME NEW x, NEW y, NEW Z
      PROVE  p \in {x} \X {y} \X Z <=> \E z \in Z : p = <<x, y, z>>
  OBVIOUS
<1> DEFINE Q(x, y) == {x} \X {y} \X DOMAIN places[xs[x].physical_block + y]
<1>2. ASSUME NEW x, NEW y
      PROVE  p \in Q(x, y) <=> \E z \in DOMAIN places[xs[x].physical_block + y] : p = <<x, y, z>>
  BY <1>1
<1>3. Positions(xs, places) = UNION {UNION {Q(x, y) : y \in 0..(xs[x].block_count - 1)} : x \in DOMAIN xs}
  BY Zenon DEF Positions
<1> HIDE DEF Q
<1>4. p \in Positions(xs, places) <=>
        \E x \in DOMAIN xs : \E y \in 0..(xs[x].block_count - 1) : p \in Q(x, y)
  BY <1>3
<1> QED BY <1>2, <1>4, Zenon DEF IsPosition

LEMMA BeforeIs ==
  ASSUME NEW x, NEW y, NEW z, NEW e, NEW b, NEW k
  PROVE  Before(<<x, y, z>>, <<e, b, k>>) <=>
           x < e \/ (x = e /\ (y < b \/ (y = b /\ z < k)))
  BY DEF Before

\* What is read at the offset is the record.
LEMMA RecordHere ==
  ASSUME IndInv, Known, pc = "scan", Gathered, extent \in 1..Len(extents),
         block \in 0..(extents[extent].block_count - 1)
  PROVE  /\ BlockHere \in DOMAIN Places /\ BlockRecords(volume, Places, BlockHere)
         /\ \A at \in Nat :
              /\ DirEntryAt(at) = EntryIn(volume, BlockHere, at)
              /\ InvalidDirectoryEntry(DirEntryAt(at), at)
                   <=> BadRecord(volume, EntryIn(volume, BlockHere, at), at)
         /\ geometry.block_size = BlockSize(volume.superblock)
<1>1. /\ Holds /\ Subject \in DOMAIN files /\ files[Subject].kind = "directory" /\ Subject = current
      /\ inode = InodeOf(volume, Subject) /\ inode.extents
  BY DEF Known, Subject, SubjectKind
<1>2. ListingWritten(volume, files[Subject].listing, extents, Places)
  BY <1>1, GatheredFacts DEF Places
<1>3. extent \in DOMAIN extents /\ extents[extent].physical_block \in Nat
      /\ extents[extent].block_count \in Nat
  BY ExtentTyped
<1>4. BlockHere \in DOMAIN Places
  BY <1>2, <1>3 DEF ListingWritten, BlockHere
<1>5. BlockRecords(volume, Places, BlockHere)
  <2>1. RecordsWritten(volume, Places)
    BY <1>1 DEF Holds, Written, Places
  <2> QED BY <1>4, <2>1, BlockIs
<1>6. geometry.block_size = BlockSize(volume.superblock)
  BY <1>1, SizeHeld
<1>7. BlockHere \in Int
  <2>1. block \in Int
    BY <1>3
  <2> QED BY <1>3, <2>1 DEF BlockHere
<1>8. BlockAddress(BlockHere) = PlaceOf(volume, BlockHere)
  BY <1>1, <1>7, BlockPlace DEF Holds
<1>9. ASSUME NEW at \in Nat PROVE DirEntryAt(at) = EntryIn(volume, BlockHere, at)
  BY <1>8, Zenon DEF DirEntryAt, EntryIn, BlockHere
<1>10. ASSUME NEW e, NEW at PROVE InvalidDirectoryEntry(e, at) <=> BadRecord(volume, e, at)
  BY <1>6, Zenon DEF InvalidDirectoryEntry, BadRecord
<1> QED BY <1>4, <1>5, <1>6, <1>9, <1>10

\* What is found is what the name leads to, and what is not found is not there.
LEMMA FoundIsListed ==
  ASSUME NEW d \in DOMAIN files, ListingWritten(volume, files[d].listing, extents, Places),
         NEW e \in DOMAIN extents, NEW b \in 0..(extents[e].block_count - 1),
         NEW k \in DOMAIN Places[extents[e].physical_block + b],
         Passed(e, b, k), IsNamed(volume, extents, Places, <<e, b, k>>, Component),
         ~IsBad(volume, extents, Places, <<e, b, k>>)
  PROVE  /\ Component \in DOMAIN files[d].listing
         /\ files[d].listing[Component] = RecordAt(volume, extents, Places, <<e, b, k>>).inode
<1> DEFINE p == <<e, b, k>>
           r == RecordAt(volume, extents, Places, p)
<1>1. p \in Positions(extents, Places)
  BY PositionsAre, Zenon DEF IsPosition
<1>2. r.inode # 0 /\ r.name = Component
  BY DEF IsNamed
<1>3. ASSUME NEW q \in Positions(extents, Places), Before(q, p)
      PROVE  ~IsNamed(volume, extents, Places, q, r.name) /\ ~IsBad(volume, extents, Places, q)
  <2>1. IsPosition(extents, Places, q)
    BY PositionsAre
  <2>2. PICK x \in DOMAIN extents : \E y \in 0..(extents[x].block_count - 1) :
               \E z \in DOMAIN Places[extents[x].physical_block + y] : q = <<x, y, z>>
    BY <2>1 DEF IsPosition
  <2>3. PICK y \in 0..(extents[x].block_count - 1) :
               \E z \in DOMAIN Places[extents[x].physical_block + y] : q = <<x, y, z>>
    BY <2>2
  <2>4. PICK z \in DOMAIN Places[extents[x].physical_block + y] : q = <<x, y, z>>
    BY <2>3
  <2>5. Unnamed(<<x, y, z>>)
    BY <1>3, <2>4 DEF Passed
  <2> QED BY <1>2, <2>4, <2>5 DEF Unnamed
<1> HIDE DEF p
<1>4. r.name \in DOMAIN files[d].listing /\ files[d].listing[r.name] = r.inode
  <2>1. \A o \in Positions(extents, Places) :
          /\ IsNamed(volume, extents, Places, o, RecordAt(volume, extents, Places, o).name)
          /\ ~IsBad(volume, extents, Places, o)
          /\ \A q \in Positions(extents, Places) :
               Before(q, o) =>
                 /\ ~IsNamed(volume, extents, Places, q, RecordAt(volume, extents, Places, o).name)
                 /\ ~IsBad(volume, extents, Places, q)
          => /\ RecordAt(volume, extents, Places, o).name \in DOMAIN files[d].listing
             /\ files[d].listing[RecordAt(volume, extents, Places, o).name]
                  = RecordAt(volume, extents, Places, o).inode
    BY Zenon DEF ListingWritten
  <2>2. IsNamed(volume, extents, Places, p, r.name) /\ ~IsBad(volume, extents, Places, p)
    BY <1>2 DEF IsNamed, p
  <2> QED BY <1>1, <1>3, <2>1, <2>2, Zenon
<1> QED BY <1>2, <1>4 DEF p

LEMMA PassedIsAbsent ==
  ASSUME NEW d \in DOMAIN files, ListingWritten(volume, files[d].listing, extents, Places),
         IndInv, Passed(Len(extents) + 1, 0, 0)
  PROVE  Component \notin DOMAIN files[d].listing
<1> SUFFICES ASSUME Component \in DOMAIN files[d].listing PROVE FALSE
  OBVIOUS
<1>1. PICK p \in Positions(extents, Places) :
        IsNamed(volume, extents, Places, p, Component) \/ IsBad(volume, extents, Places, p)
  BY DEF ListingWritten
<1>2. IsPosition(extents, Places, p)
  BY PositionsAre
<1>3. PICK x \in DOMAIN extents : \E y \in 0..(extents[x].block_count - 1) :
             \E z \in DOMAIN Places[extents[x].physical_block + y] : p = <<x, y, z>>
  BY <1>2 DEF IsPosition
<1>4. PICK y \in 0..(extents[x].block_count - 1) :
             \E z \in DOMAIN Places[extents[x].physical_block + y] : p = <<x, y, z>>
  BY <1>3
<1>5. PICK z \in DOMAIN Places[extents[x].physical_block + y] : p = <<x, y, z>>
  BY <1>4
<1>6. DOMAIN extents = 1..Len(extents) /\ Len(extents) \in Nat
  BY DEF IndInv, Walking
<1>7. x < Len(extents) + 1
  BY <1>5, <1>6
<1>8. Before(<<x, y, z>>, <<Len(extents) + 1, 0, 0>>)
  BY <1>7, BeforeIs
<1>9. Unnamed(<<x, y, z>>)
  BY <1>5, <1>8 DEF Passed
<1> QED BY <1>1, <1>5, <1>9 DEF Unnamed

-----------------------------------------------------------------------------
(* open is exact. *)

\* A path is being resolved.
Underway ==
  \/ pc \in {"component", "block", "scan", "child"}
  \/ pc \in {"collect", "copy"} /\ purpose # "file"

\* What is left of the path leads from the current directory to what the whole
\* path leads to, and each link has made it longer by at most one text.
OnPath ==
  /\ Resolved = Walk[Here]
  /\ Clean(remaining) /\ Decodable(remaining)
  /\ Len(remaining) <= Len(path) + links * (LongestTarget + 1)

\* The next name is looked for in a directory.
AtEntry ==
  /\ remaining # <<>> /\ files[current].kind = "directory"
  /\ Component \notin {<<".">>, <<".", ".">>}

\* The entry that was found is read, or the text of the link it is.
AtChild == pc = "child" \/ (pc \in {"collect", "copy"} /\ purpose = "link")
Entered == Component \in DOMAIN files[current].listing /\ entry = TheChild

\* Every link and name so far was followed the way Walk follows it.
Followed ==
  /\ path \in Texts
  /\ Underway => OnPath
  /\ Underway /\ pc # "component" => AtEntry
  /\ AtChild => Entered

\* The inductive invariant of open.
OpenHolds == OpenIsExact /\ Followed /\ Scanned

\* What open may fail with.
Justified(r) ==
  \/ r = Resolved.why
  \/ r = "Device"
  \/ r = "NameTooLong" /\ LongestText > PathBytes
  \/ r \in MappingErrors /\ (volume.damaged \/ PathsBeyondReader)
  \/ r = "InvalidDirectoryEntry" /\ volume.damaged

LEMMA OpenFrame ==
  ASSUME UNCHANGED volume
  PROVE  /\ files' = files /\ Walk' = Walk /\ LongestTarget' = LongestTarget
         /\ UNCHANGED path => Resolved' = Resolved /\ LongestText' = LongestText
<1>1. files' = files
  BY DEF files
<1>2. Walk' = Walk
  BY <1>1, SMTT(30) DEF Walk
<1>3. LongestTarget' = LongestTarget
  BY <1>1, Zenon DEF LongestTarget
<1>4. ASSUME UNCHANGED path PROVE Resolved' = Resolved
  BY <1>2, <1>4, Zenon DEF Resolved
<1>5. ASSUME UNCHANGED path PROVE LongestText' = LongestText
  BY <1>1, <1>5, Zenon DEF LongestText
<1> QED BY <1>1, <1>2, <1>3, <1>4, <1>5

\* The call ends without a file.
LEMMA OpenEnds ==
  ASSUME UNCHANGED <<volume, path, handle>>, handle = 0, pc' = "done", Justified(result'), Followed
  PROVE  OpenHolds'
<1>1. /\ Resolved' = Resolved /\ LongestText' = LongestText
      /\ PathsBeyondReader' = PathsBeyondReader
  BY OpenFrame DEF PathsBeyondReader, BeyondReader
<1>2. OpenIsExact'
  BY <1>1 DEF OpenIsExact, Justified
<1>3. Followed'
  BY DEF Followed, Underway, AtChild
<1>4. Scanned'
  BY DEF Scanned
<1> QED BY <1>2, <1>3, <1>4 DEF OpenHolds

\* The resolution goes on with another text.
LEMMA OpenGoesOn ==
  ASSUME UNCHANGED <<volume, path, handle>>, handle = 0, pc' = "component", Followed,
         Resolved = Walk[<<current', Components[remaining'], MaxSymlinkDepth - links'>>],
         Clean(remaining'), Decodable(remaining'),
         Len(remaining') <= Len(path) + links' * (LongestTarget + 1)
  PROVE  OpenHolds'
<1>1. Resolved' = Resolved /\ LongestTarget' = LongestTarget /\ Walk' = Walk
  BY OpenFrame
<1>2. OpenIsExact'
  BY DEF OpenIsExact
<1>3. OnPath'
  <2>1. Here' = <<current', Components[remaining'], MaxSymlinkDepth - links'>>
    BY DEF Here, Budget
  <2>2. Clean(remaining)' /\ Decodable(remaining)'
    BY DEF Clean, Decodable
  <2> QED BY <1>1, <2>1, <2>2 DEF OnPath
<1>4. Followed'
  BY <1>3 DEF Followed, Underway, AtChild
<1>5. Scanned'
  BY DEF Scanned
<1> QED BY <1>2, <1>4, <1>5 DEF OpenHolds

\* The path stays as it is.
LEMMA OpenStays ==
  ASSUME UNCHANGED <<volume, path, current, remaining, links>>, OnPath
  PROVE  /\ OnPath' /\ Component' = Component /\ (AtEntry => AtEntry') 
         /\ (Entered /\ UNCHANGED entry => Entered')
<1>1. Resolved' = Resolved /\ LongestTarget' = LongestTarget /\ Walk' = Walk /\ files' = files
  BY OpenFrame
<1>2. Here' = Here
  BY DEF Here, Budget
<1>3. OnPath'
  BY <1>1, <1>2 DEF OnPath, Clean, Decodable
<1>4. Component' = Component
  BY DEF Component
<1> QED BY <1>1, <1>3, <1>4 DEF AtEntry, Entered, TheChild

LEMMA InitOpen == Init => OpenHolds
<1> SUFFICES ASSUME Init PROVE OpenHolds
  OBVIOUS
<1>1. pc = "mount" /\ handle = 0 /\ path = <<>>
  BY DEF Init
<1>2. OpenIsExact
  BY <1>1 DEF OpenIsExact
<1>3. Followed
  BY <1>1, EmptyNames DEF Followed, Underway, AtChild
<1>4. Scanned
  BY <1>1 DEF Scanned
<1> QED BY <1>2, <1>3, <1>4 DEF OpenHolds

LEMMA NewOpen ==
  ASSUME Known, OpenHolds, new
  PROVE  OpenHolds'
<1>1. pc = "mount" /\ pc' \in {"unmounted", "idle"} /\ UNCHANGED <<path, handle>> /\ handle = 0
  BY DEF new, pathVars, Known
<1>2. OpenIsExact'
  BY <1>1 DEF OpenIsExact
<1>3. Followed'
  BY <1>1 DEF OpenHolds, Followed, Underway, AtChild
<1>4. Scanned'
  BY <1>1 DEF Scanned
<1> QED BY <1>2, <1>3, <1>4 DEF OpenHolds

LEMMA CallOpen ==
  ASSUME IndInv, Known, OpenHolds, open
  PROVE  OpenHolds'
<1>1. /\ pc \in {"idle", "done"} /\ pc' = "component" /\ handle' = 0 /\ path' \in Paths
      /\ current' = RootInode /\ remaining' = trim_leading_separators(path') /\ links' = 0
      /\ UNCHANGED <<volume, geometry>>
  BY Zenon DEF open, Begin, diskVars
<1>2. path' \in Texts /\ Decodable(path')
  BY <1>1, TextAssumption DEF Texts, Decodable
<1>3. /\ remaining' \in Texts /\ Len(remaining') <= Len(path')
      /\ Components[remaining'] = Components[path'] /\ Clean(remaining') /\ Decodable(remaining')
  BY <1>1, <1>2, TrimNames
<1>4. OpenIsExact'
  BY <1>1 DEF OpenIsExact
<1>5. OnPath'
  <2>1. Here' = <<RootInode, Components[path'], MaxSymlinkDepth - 0>>
    BY <1>1, <1>3 DEF Here, Budget
  <2>2. MaxSymlinkDepth - 0 = MaxSymlinkDepth
    BY Sizes
  <2>3. Resolved' = Walk'[<<RootInode, Components[path'], MaxSymlinkDepth>>]
    BY Zenon DEF Resolved
  <2>4. Clean(remaining)' /\ Decodable(remaining)'
    BY <1>3 DEF Clean, Decodable
  <2>5. Len(remaining') <= Len(path') + links' * (LongestTarget' + 1)
    <3>1. LongestTarget' \in Nat
      <4>1. Holds
        BY <1>1 DEF Known
      <4>2. LongestTarget \in Nat
        BY <4>1, LongestIs
      <4>3. LongestTarget' = LongestTarget
        BY <1>1, OpenFrame
      <4> QED BY <4>2, <4>3
    <3>2. Len(path') \in Nat
      BY <1>2, TextIs
    <3>3. ASSUME NEW x \in Nat, NEW y \in Nat PROVE x + 0 * (y + 1) = x
      OBVIOUS
    <3>4. Len(path') + links' * (LongestTarget' + 1) = Len(path')
      BY <1>1, <3>1, <3>2, <3>3
    <3> QED BY <1>3, <3>4
  <2> QED BY <2>1, <2>2, <2>3, <2>4, <2>5 DEF OnPath
<1>6. Followed'
  BY <1>1, <1>2, <1>5 DEF Followed, Underway, AtChild
<1>7. Scanned'
  BY <1>1 DEF Scanned
<1> QED BY <1>4, <1>6, <1>7 DEF OpenHolds

\* What the reader knows on its way, put together.
LEMMA OnTheWay ==
  ASSUME IndInv, Known, OpenHolds, Underway
  PROVE  /\ Holds /\ current \in DOMAIN files /\ files[current].kind # "symlink"
         /\ handle = 0 /\ remaining \in Texts /\ links \in 0..MaxSymlinkDepth
         /\ OnPath /\ Followed
         /\ remaining = <<>> => Resolved = [inode |-> current, why |-> "none"]
         /\ remaining # <<>> => Resolved = AtName
<1>1. /\ Holds /\ current \in DOMAIN files /\ files[current].kind # "symlink" /\ handle = 0
  BY DEF Known, Underway
<1>2. remaining \in Texts /\ links \in 0..MaxSymlinkDepth
  BY DEF IndInv, Resolving, Texts
<1>3. OnPath /\ Followed
  BY DEF OpenHolds, Followed
<1>4. Resolved = Walk[Here] /\ Clean(remaining)
  BY <1>3 DEF OnPath
<1>5. /\ remaining = <<>> => Walk[Here] = [inode |-> current, why |-> "none"]
      /\ remaining # <<>> => Walk[Here] = AtName
  BY <1>1, <1>2, <1>4, WalkHere
<1> QED BY <1>1, <1>2, <1>3, <1>4, <1>5

LEMMA RefusedWhy == ASSUME NEW y PROVE Refused(y).why = y
  BY DEF Refused

\* A directory or link this reader cannot read is in the way of a path.
LEMMA InTheWay ==
  ASSUME NEW n \in DOMAIN files, files[n].kind # "file", volume.damaged \/ BeyondReader(files[n])
  PROVE  volume.damaged \/ PathsBeyondReader
  BY DEF PathsBeyondReader

\* Extents are missing on damaged volumes and behind block pointers only.
LEMMA NotMapped ==
  ASSUME Holds, NEW n \in DOMAIN files, ~InodeOf(volume, n).extents,
         files[n].kind # "symlink" \/ ~IsInline(InodeOf(volume, n)), files[n].kind # "file"
  PROVE  volume.damaged \/ PathsBeyondReader
<1>1. FileWritten(volume, Spelled(volume), n)
  BY DEF Holds, Written, files
<1>2. InodeOf(volume, n).extents \/ volume.damaged \/ files[n].unsupported
      \/ (files[n].kind = "symlink" /\ InodeOf(volume, n).size <= InlineBytes)
  BY <1>1, Zenon DEF FileWritten, files
<1>3. volume.damaged \/ BeyondReader(files[n])
  BY <1>2 DEF IsInline, BeyondReader
<1> QED BY <1>3, InTheWay

\* The rest of the path is no longer than the path.
LEMMA RestOnPath ==
  ASSUME IndInv, Known, OpenHolds, Underway, remaining # <<>>
  PROVE  /\ Rest \in Texts /\ Clean(Rest) /\ Decodable(Rest)
         /\ Len(Rest) <= Len(path) + links * (LongestTarget + 1)
         /\ Component \in Texts
<1>1. /\ Holds /\ remaining \in Texts /\ links \in 0..MaxSymlinkDepth /\ OnPath /\ path \in Texts
  BY OnTheWay DEF Followed
<1>2. /\ Rest \in Texts /\ Clean(Rest) /\ Decodable(Rest) /\ Len(Rest) <= Len(remaining)
      /\ Component \in Texts
  BY <1>1, RemainingNames DEF OnPath
<1>3. Len(Rest) \in Nat /\ Len(remaining) \in Nat /\ Len(path) \in Nat
  BY <1>1, <1>2, TextIs
<1>4. links \in Nat /\ LongestTarget \in Nat
  BY <1>1, LongestIs, Sizes
<1>5. Len(remaining) <= Len(path) + links * (LongestTarget + 1)
  BY <1>1 DEF OnPath
<1>6. Len(path) + links * (LongestTarget + 1) \in Nat
  <2>1. LongestTarget + 1 \in Nat
    BY <1>4
  <2> QED BY <1>3, <1>4, <2>1, Product
<1>7. ASSUME NEW x \in Nat, NEW y \in Nat, NEW z \in Nat, x <= y, y <= z PROVE x <= z
  BY <1>7
<1>8. Len(Rest) <= Len(path) + links * (LongestTarget + 1)
  BY <1>2, <1>3, <1>5, <1>6, <1>7
<1> QED BY <1>2, <1>8

LEMMA ResolveOpen ==
  ASSUME IndInv, Known, OpenHolds, resolve_path_from
  PROVE  OpenHolds'
<1> DEFINE c == read_inode(current)
<1>1. pc = "component" /\ UNCHANGED <<volume, path, current, links, entry>>
  BY DEF resolve_path_from, diskVars, scanVars
<1>2. Underway
  BY <1>1 DEF Underway
<1>3. /\ Holds /\ current \in DOMAIN files /\ handle = 0 /\ OnPath /\ Followed
      /\ remaining = <<>> => Resolved = [inode |-> current, why |-> "none"]
      /\ remaining # <<>> => Resolved = AtName
  BY <1>2, OnTheWay
<1>4. c = InodeOf(volume, current) /\ c.kind = files[current].kind
  BY <1>3, ReadHeld
<1>5. \/ pc' = "done" /\ result' = "Device" /\ UNCHANGED handle
      \/ remaining = <<>> /\ handle' = current /\ pc' = "opened"
      \/ remaining # <<>> /\ c.kind # "directory" /\ pc' = "done" /\ result' = "NotDirectory"
           /\ UNCHANGED handle
      \/ remaining # <<>> /\ c.kind = "directory" /\ Component = <<".">> /\ remaining' = Rest
           /\ UNCHANGED <<pc, handle>>
      \/ remaining # <<>> /\ c.kind = "directory" /\ Component = <<".", ".">> /\ pc' = "done"
           /\ result' = "InvalidPath" /\ UNCHANGED handle
      \/ remaining # <<>> /\ c.kind = "directory" /\ Component \notin {<<".">>, <<".", ".">>}
           /\ Collect(c, "directory") /\ UNCHANGED <<remaining, handle>>
  BY DEF resolve_path_from, ReadFails, Return
<1> HIDE DEF c
<1>6. CASE pc' = "done" /\ result' = "Device" /\ UNCHANGED handle
  BY <1>1, <1>3, <1>6, OpenEnds DEF Justified
<1>7. CASE remaining = <<>> /\ handle' = current /\ pc' = "opened"
  <2>1. Resolved' = Resolved
    BY <1>1, OpenFrame
  <2>2. OpenIsExact'
    BY <1>1, <1>3, <1>7, <2>1 DEF OpenIsExact
  <2>3. Followed'
    BY <1>1, <1>3, <1>7 DEF Followed, Underway, AtChild
  <2>4. Scanned'
    BY <1>7 DEF Scanned
  <2> QED BY <2>2, <2>3, <2>4 DEF OpenHolds
<1>8. CASE remaining # <<>> /\ c.kind # "directory" /\ pc' = "done" /\ result' = "NotDirectory"
           /\ UNCHANGED handle
  <2>1. Resolved.why = "NotDirectory"
    BY <1>3, <1>4, <1>8, RefusedWhy DEF AtName
  <2> QED BY <1>1, <1>3, <1>8, <2>1, OpenEnds DEF Justified
<1>9. CASE remaining # <<>> /\ c.kind = "directory" /\ Component = <<".">> /\ remaining' = Rest
           /\ UNCHANGED <<pc, handle>>
  <2>1. Resolved = Walk[<<current, Components[Rest], MaxSymlinkDepth - links>>]
    BY <1>3, <1>4, <1>9 DEF AtName, Budget
  <2>2. /\ Clean(Rest) /\ Decodable(Rest)
        /\ Len(Rest) <= Len(path) + links * (LongestTarget + 1)
    BY <1>2, <1>9, RestOnPath
  <2> QED BY <1>1, <1>3, <1>9, <2>1, <2>2, OpenGoesOn
<1>10. CASE remaining # <<>> /\ c.kind = "directory" /\ Component = <<".", ".">> /\ pc' = "done"
           /\ result' = "InvalidPath" /\ UNCHANGED handle
  <2>1. <<".", ".">> # <<".">>
    OBVIOUS
  <2>2. Resolved.why = "InvalidPath"
    BY <1>3, <1>4, <1>10, <2>1, RefusedWhy DEF AtName
  <2> QED BY <1>1, <1>3, <1>10, <2>2, OpenEnds DEF Justified
<1>11. CASE remaining # <<>> /\ c.kind = "directory" /\ Component \notin {<<".">>, <<".", ".">>}
           /\ Collect(c, "directory") /\ UNCHANGED <<remaining, handle>>
  <2>1. \/ ~c.extents /\ pc' = "done" /\ result' = "UnsupportedMapping"
        \/ pc' = "collect" /\ purpose' = "directory"
    BY <1>11 DEF Collect, Return
  <2>2. CASE ~c.extents /\ pc' = "done" /\ result' = "UnsupportedMapping"
    <3>1. volume.damaged \/ PathsBeyondReader
      BY <1>3, <1>4, <1>11, <2>2, NotMapped
    <3> QED BY <1>1, <1>3, <1>11, <2>2, <3>1, OpenEnds DEF Justified, MappingErrors
  <2>3. CASE pc' = "collect" /\ purpose' = "directory"
    <3>1. AtEntry
      BY <1>4, <1>11 DEF AtEntry
    <3>2. OnPath' /\ AtEntry'
      BY <1>1, <1>3, <1>11, <3>1, OpenStays
    <3>3. Followed'
      BY <1>1, <1>3, <2>3, <3>2 DEF Followed, Underway, AtChild
    <3>4. OpenIsExact' /\ Scanned'
      BY <1>3, <1>11, <2>3 DEF OpenIsExact, Scanned
    <3> QED BY <3>3, <3>4 DEF OpenHolds
  <2> QED BY <2>1, <2>2, <2>3
<1> QED BY <1>5, <1>6, <1>7, <1>8, <1>9, <1>10, <1>11

\* A file has been opened: what is done with it changes nothing of the path.
LEMMA OpenOpened ==
  ASSUME OpenHolds, UNCHANGED <<volume, path, handle>>, handle # 0,
         pc' \in {"opened", "done"} \/ (pc' \in {"collect", "copy"} /\ purpose' = "file")
  PROVE  OpenHolds'
<1>1. Resolved' = Resolved
  BY OpenFrame
<1>2. OpenIsExact'
  BY <1>1 DEF OpenHolds, OpenIsExact
<1>3. Followed'
  BY DEF OpenHolds, Followed, Underway, AtChild
<1>4. Scanned'
  BY DEF Scanned
<1> QED BY <1>2, <1>3, <1>4 DEF OpenHolds

\* The reader stays at the entry it is at.
LEMMA OpenAtEntry ==
  ASSUME IndInv, Known, OpenHolds, Underway, pc # "component", Underway', pc' # "component",
         UNCHANGED <<volume, path, current, remaining, links, handle>>,
         AtChild' => Component \in DOMAIN files[current].listing /\ entry' = TheChild
  PROVE  OpenIsExact' /\ Followed'
<1>1. OnPath /\ AtEntry /\ path \in Texts /\ handle = 0
  BY OnTheWay DEF OpenHolds, Followed
<1>2. OnPath' /\ AtEntry' /\ Component' = Component
  BY <1>1, OpenStays
<1>3. OpenIsExact'
  BY <1>1 DEF OpenIsExact, Underway
<1>4. AtChild' => Entered'
  BY <1>2 DEF Entered, TheChild, files
<1> QED BY <1>1, <1>2, <1>3, <1>4 DEF Followed

LEMMA CollectOpen ==
  ASSUME IndInv, Known, Collected, OpenHolds, collect_extent_node
  PROVE  OpenHolds'
<1>1. /\ pc = "collect" /\ stack # <<>>
      /\ UNCHANGED <<volume, path, current, remaining, links, purpose, entry, handle>>
      /\ \/ pc' = "collect"
         \/ pc' = "done" /\ result' = "Device"
         \/ /\ pc' = "done" /\ result' = "InvalidExtentTree"
            /\ \/ Malformed(stack[1].node, stack[1].length)
               \/ stack[1].node.depth = 0 /\ Uncollectable(stack[1].node)
  BY DEF collect_extent_node, diskVars, pathVars, scanVars, Return, ReadFails
<1>2. CASE purpose = "file"
  <2>1. handle # 0
    BY <1>1, <1>2 DEF Known
  <2> QED BY <1>1, <1>2, <2>1, OpenOpened
<1>3. CASE purpose # "file"
  <2>1. Underway
    BY <1>1, <1>3 DEF Underway
  <2>2. Holds /\ handle = 0 /\ Followed
    BY <2>1, OnTheWay
  <2>3. CASE pc' = "collect"
    <3>1. Underway' /\ (AtChild' => AtChild)
      BY <1>1, <1>3, <2>3 DEF Underway, AtChild
    <3>2. AtChild' => Component \in DOMAIN files[current].listing /\ entry' = TheChild
      BY <1>1, <2>2, <3>1 DEF Followed, Entered
    <3>3. OpenIsExact' /\ Followed'
      BY <1>1, <2>1, <2>3, <3>1, <3>2, OpenAtEntry
    <3>4. Scanned'
      BY <2>3 DEF Scanned
    <3> QED BY <3>3, <3>4 DEF OpenHolds
  <2>4. CASE pc' = "done" /\ result' = "Device"
    BY <1>1, <2>2, <2>4, OpenEnds DEF Justified
  <2>5. CASE /\ pc' = "done" /\ result' = "InvalidExtentTree"
             /\ \/ Malformed(stack[1].node, stack[1].length)
                \/ stack[1].node.depth = 0 /\ Uncollectable(stack[1].node)
    <3>1. /\ Subject \in DOMAIN files /\ inode = InodeOf(volume, Subject)
          /\ files[Subject].kind # "file" /\ inode.extents /\ WalkGoes
      <4>1. SubjectKind # "file"
        BY <1>1, <1>3 DEF SubjectKind, IndInv, Walking
      <4> QED BY <1>1, <4>1 DEF Known, Collected
    <3>2. stack \in Seq(Frames) /\ extents \in Seq(Extents)
      BY DEF IndInv, Walking
    <3>3. \/ TreeOf(inode) \notin DOMAIN Spelled(volume).upto
          \/ Len(Below(inode)) > MaxExtents
      BY <1>1, <2>2, <2>5, <3>1, <3>2, CollectRefuses
    <3>4. volume.damaged \/ BeyondReader(files[Subject])
      BY <2>2, <3>1, <3>3, ExtentsRefused
    <3>5. volume.damaged \/ PathsBeyondReader
      BY <3>1, <3>4, InTheWay
    <3> QED BY <1>1, <2>2, <2>5, <3>5, OpenEnds DEF Justified, MappingErrors
  <2> QED BY <1>1, <2>3, <2>4, <2>5
<1> QED BY <1>2, <1>3

\* Where the records of a directory are.
LEMMA PlacesHeld ==
  ASSUME IndInv, Holds, Gathered, Subject \in DOMAIN files, files[Subject].kind = "directory",
         inode = InodeOf(volume, Subject), inode.extents
  PROVE  /\ ListingWritten(volume, files[Subject].listing, extents, Places)
         /\ \A x \in DOMAIN extents : \A y \in 0..(extents[x].block_count - 1) :
              /\ extents[x].physical_block + y \in DOMAIN Places
              /\ BlockRecords(volume, Places, extents[x].physical_block + y)
         /\ DOMAIN extents = 1..Len(extents) /\ Len(extents) \in Nat
<1>1. ListingWritten(volume, files[Subject].listing, extents, Places)
  BY GatheredFacts DEF Places
<1>2. RecordsWritten(volume, Places)
  BY DEF Holds, Written, Places
<1>3. \A x \in DOMAIN extents : \A y \in 0..(extents[x].block_count - 1) :
        extents[x].physical_block + y \in DOMAIN Places
  BY <1>1, Zenon DEF ListingWritten
<1>4. \A b \in DOMAIN Places : BlockRecords(volume, Places, b)
  BY <1>2, BlockIs
<1>5. DOMAIN extents = 1..Len(extents) /\ Len(extents) \in Nat
  BY DEF IndInv, Walking
<1> QED BY <1>1, <1>3, <1>4, <1>5, Zenon

IsAt(x, y, z) ==
  /\ x \in DOMAIN extents /\ y \in 0..(extents[x].block_count - 1)
  /\ z \in DOMAIN Places[extents[x].physical_block + y]

\* The numbers of records, blocks and extents are counted from one and zero.
LEMMA PlaceNumbers ==
  ASSUME IndInv, Holds, Gathered, Subject \in DOMAIN files, files[Subject].kind = "directory",
         inode = InodeOf(volume, Subject), inode.extents, NEW x, NEW y, NEW z, IsAt(x, y, z)
  PROVE  /\ x \in 1..Len(extents) /\ Len(extents) \in Nat /\ y \in Nat
         /\ y < extents[x].block_count /\ extents[x].block_count \in Nat
         /\ Len(Places[extents[x].physical_block + y]) \in Nat
         /\ z \in 1..Len(Places[extents[x].physical_block + y])
<1>1. x \in DOMAIN extents /\ y \in 0..(extents[x].block_count - 1)
      /\ z \in DOMAIN Places[extents[x].physical_block + y]
  BY DEF IsAt
<1>2. /\ BlockRecords(volume, Places, extents[x].physical_block + y)
      /\ DOMAIN extents = 1..Len(extents) /\ Len(extents) \in Nat
  BY <1>1, PlacesHeld
<1>3. x \in 1..Len(extents)
  BY <1>1, <1>2
<1>4. extents[x].block_count \in Nat
  BY <1>3, ExtentTyped
<1>5. y \in Nat /\ y < extents[x].block_count
  BY <1>1, <1>4
<1>6. /\ Len(Places[extents[x].physical_block + y]) \in Nat
      /\ z \in 1..Len(Places[extents[x].physical_block + y])
  BY <1>1, <1>2 DEF BlockRecords
<1> QED BY <1>2, <1>3, <1>4, <1>5, <1>6

InFront(x, y, z, e, b, k) == x < e \/ (x = e /\ (y < b \/ (y = b /\ z < k)))

LEMMA PassedIs ==
  ASSUME NEW e, NEW b, NEW k
  PROVE  Passed(e, b, k) <=>
           \A x, y, z : IsAt(x, y, z) /\ InFront(x, y, z, e, b, k) => Unnamed(<<x, y, z>>)
<1>1. Passed(e, b, k) <=>
        \A x, y, z : IsAt(x, y, z) /\ Before(<<x, y, z>>, <<e, b, k>>) => Unnamed(<<x, y, z>>)
  BY Zenon DEF Passed, IsAt
<1>2. \A x, y, z : Before(<<x, y, z>>, <<e, b, k>>) <=> InFront(x, y, z, e, b, k)
  BY DEF Before, InFront
<1> QED BY <1>1, <1>2, Zenon

LEMMA PassedNext ==
  ASSUME UNCHANGED <<volume, extents, remaining>>, NEW e, NEW b, NEW k, Passed(e, b, k)
  PROVE  Passed(e, b, k)'
<1>1. Places' = Places /\ Component' = Component
  BY DEF Places, Spelled, Component
<1>2. ASSUME NEW p, Unnamed(p) PROVE Unnamed(p)'
  BY <1>1, <1>2 DEF Unnamed, IsNamed, IsBad, RecordAt, RecordPlace, BlockNumber
<1> QED BY <1>1, <1>2, Zenon DEF Passed

\* The places where the scan may be said to be.
LEMMA PassedMoves ==
  ASSUME IndInv, Holds, Gathered, Subject \in DOMAIN files, files[Subject].kind = "directory",
         inode = InodeOf(volume, Subject), inode.extents, NEW e \in Nat, NEW b \in Nat
  PROVE  /\ Passed(1, 0, 0)
         /\ Passed(e, b, 0) /\ b >= extents[e].block_count => Passed(e + 1, 0, 0)
         /\ Passed(e, b, 0) => Passed(e, b, 1)
         /\ \A k \in Nat :
              Passed(e, b, k) /\ k > Len(Places[extents[e].physical_block + b]) => Passed(e, b + 1, 0)
         /\ \A k \in Nat : Passed(e, b, k) /\ Unnamed(<<e, b, k>>) => Passed(e, b, k + 1)
<1>1. ASSUME NEW x, NEW y, NEW z, IsAt(x, y, z)
      PROVE  /\ x \in Nat /\ x >= 1 /\ y \in Nat /\ y < extents[x].block_count
             /\ extents[x].block_count \in Nat
             /\ Len(Places[extents[x].physical_block + y]) \in Nat
             /\ z \in Nat /\ z >= 1 /\ z <= Len(Places[extents[x].physical_block + y])
  BY <1>1, PlaceNumbers
<1>2. Passed(1, 0, 0)
  <2>1. ASSUME NEW x, NEW y, NEW z, IsAt(x, y, z) PROVE ~InFront(x, y, z, 1, 0, 0)
    BY <1>1, <2>1 DEF InFront
  <2> QED BY <2>1, PassedIs
<1>3. ASSUME Passed(e, b, 0), b >= extents[e].block_count PROVE Passed(e + 1, 0, 0)
  <2>1. ASSUME NEW x, NEW y, NEW z, IsAt(x, y, z), InFront(x, y, z, e + 1, 0, 0)
        PROVE  InFront(x, y, z, e, b, 0)
    <3>1. x \in Nat /\ y \in Nat /\ z \in Nat /\ y < extents[x].block_count
          /\ extents[x].block_count \in Nat
      BY <1>1, <2>1
    <3>2. x < e \/ x = e
      BY <2>1, <3>1 DEF InFront
    <3>3. x = e => y < b
      BY <1>3, <3>1
    <3> QED BY <3>2, <3>3 DEF InFront
  <2>2. \A x, y, z : IsAt(x, y, z) /\ InFront(x, y, z, e, b, 0) => Unnamed(<<x, y, z>>)
    BY <1>3, PassedIs
  <2>3. \A x, y, z : IsAt(x, y, z) /\ InFront(x, y, z, e + 1, 0, 0) => Unnamed(<<x, y, z>>)
    BY <2>1, <2>2, Zenon
  <2> QED BY <2>3, PassedIs
<1>4. ASSUME Passed(e, b, 0) PROVE Passed(e, b, 1)
  <2>1. ASSUME NEW x, NEW y, NEW z, IsAt(x, y, z), InFront(x, y, z, e, b, 1)
        PROVE  InFront(x, y, z, e, b, 0)
    <3>1. z \in Nat /\ z >= 1
      BY <1>1, <2>1
    <3> QED BY <2>1, <3>1 DEF InFront
  <2>2. \A x, y, z : IsAt(x, y, z) /\ InFront(x, y, z, e, b, 0) => Unnamed(<<x, y, z>>)
    BY <1>4, PassedIs
  <2>3. \A x, y, z : IsAt(x, y, z) /\ InFront(x, y, z, e, b, 1) => Unnamed(<<x, y, z>>)
    BY <2>1, <2>2, Zenon
  <2> QED BY <2>3, PassedIs
<1>5. ASSUME NEW k \in Nat, Passed(e, b, k), k > Len(Places[extents[e].physical_block + b])
      PROVE  Passed(e, b + 1, 0)
  <2>1. ASSUME NEW x, NEW y, NEW z, IsAt(x, y, z), InFront(x, y, z, e, b + 1, 0)
        PROVE  InFront(x, y, z, e, b, k)
    <3>1. /\ x \in Nat /\ y \in Nat /\ z \in Nat
          /\ Len(Places[extents[x].physical_block + y]) \in Nat
          /\ z <= Len(Places[extents[x].physical_block + y])
      BY <1>1, <2>1
    <3>2. x < e \/ (x = e /\ (y < b \/ y = b))
      BY <2>1, <3>1 DEF InFront
    <3>3. x = e /\ y = b => z < k
      BY <1>5, <3>1
    <3> QED BY <3>2, <3>3 DEF InFront
  <2>2. \A x, y, z : IsAt(x, y, z) /\ InFront(x, y, z, e, b, k) => Unnamed(<<x, y, z>>)
    BY <1>5, PassedIs
  <2>3. \A x, y, z : IsAt(x, y, z) /\ InFront(x, y, z, e, b + 1, 0) => Unnamed(<<x, y, z>>)
    BY <2>1, <2>2, Zenon
  <2> QED BY <2>3, PassedIs
<1>6. ASSUME NEW k \in Nat, Passed(e, b, k), Unnamed(<<e, b, k>>) PROVE Passed(e, b, k + 1)
  <2>1. ASSUME NEW x, NEW y, NEW z, IsAt(x, y, z), InFront(x, y, z, e, b, k + 1)
        PROVE  InFront(x, y, z, e, b, k) \/ <<x, y, z>> = <<e, b, k>>
    <3>1. z \in Nat
      BY <1>1, <2>1
    <3>2. z < k + 1 => z < k \/ z = k
      BY <3>1
    <3> QED BY <2>1, <3>2 DEF InFront
  <2>2. \A x, y, z : IsAt(x, y, z) /\ InFront(x, y, z, e, b, k) => Unnamed(<<x, y, z>>)
    BY <1>6, PassedIs
  <2>3. ASSUME NEW x, NEW y, NEW z, IsAt(x, y, z), InFront(x, y, z, e, b, k + 1)
        PROVE  Unnamed(<<x, y, z>>)
    <3>1. CASE InFront(x, y, z, e, b, k)
      BY <2>2, <2>3, <3>1, Zenon
    <3>2. CASE <<x, y, z>> = <<e, b, k>>
      BY <1>6, <3>2, Zenon
    <3> QED BY <2>1, <2>3, <3>1, <3>2
  <2> QED BY <2>3, PassedIs
<1> QED BY <1>2, <1>3, <1>4, <1>5, <1>6

LEMMA ScanHeld ==
  ASSUME Known, Collected, pc \in {"block", "scan"}
  PROVE  /\ Holds /\ Gathered /\ Subject = current /\ Subject \in DOMAIN files
         /\ files[Subject].kind = "directory" /\ inode = InodeOf(volume, Subject) /\ inode.extents
         /\ Underway /\ pc # "component" /\ ~AtChild
  BY DEF Known, Collected, Subject, SubjectKind, Underway, AtChild

LEMMA CollectedOpen ==
  ASSUME IndInv, Known, Collected, OpenHolds, extents_collected
  PROVE  OpenHolds'
<1>1. /\ pc = "collect" /\ pc' = (IF purpose = "directory" THEN "block" ELSE "copy")
      /\ UNCHANGED <<volume, path, current, remaining, links, inode, purpose, extents, entry, handle>>
      /\ extent' = 1 /\ block' = 0
  BY DEF extents_collected, diskVars, pathVars, treeVars
<1>2. CASE purpose = "file"
  <2>1. handle # 0 /\ pc' = "copy"
    BY <1>1, <1>2 DEF Known
  <2> QED BY <1>1, <1>2, <2>1, OpenOpened
<1>3. CASE purpose # "file"
  <2>1. Underway /\ Underway' /\ pc' # "component" /\ (AtChild' => AtChild)
    BY <1>1, <1>3 DEF Underway, AtChild
  <2>2. AtChild' => Component \in DOMAIN files[current].listing /\ entry' = TheChild
    BY <1>1, <2>1 DEF OpenHolds, Followed, Entered
  <2>3. OpenIsExact' /\ Followed'
    BY <1>1, <2>1, <2>2, OpenAtEntry
  <2>4. pc' = "block" => Passed(1, 0, 0)'
    <3>1. SUFFICES ASSUME pc' = "block" PROVE Passed(1, 0, 0)'
      OBVIOUS
    <3>2. Gathered'
      BY <3>1, CollectedCollected DEF Collected
    <3>3. Gathered
      BY <1>1, <3>2 DEF Gathered, Below, Spelled
    <3>4. /\ Holds /\ Subject \in DOMAIN files /\ files[Subject].kind = "directory"
          /\ inode = InodeOf(volume, Subject) /\ inode.extents
      BY <1>1, <3>1 DEF Known, Subject, SubjectKind
    <3>5. Passed(1, 0, 0)
      BY <3>3, <3>4, PassedMoves
    <3> QED BY <1>1, <3>5, PassedNext
  <2>5. Scanned'
    BY <1>1, <2>4 DEF Scanned
  <2> QED BY <2>3, <2>5 DEF OpenHolds
<1> QED BY <1>2, <1>3

LEMMA BlockOpen ==
  ASSUME IndInv, Known, Collected, OpenHolds, read_directory_block
  PROVE  OpenHolds'
<1>1. /\ pc = "block"
      /\ UNCHANGED <<volume, geometry, path, current, remaining, links, purpose, extents, entry, handle>>
      /\ \/ extent > Len(extents) /\ pc' = "done" /\ result' = "NotFound"
         \/ /\ extent <= Len(extents) /\ block >= extents[extent].block_count
            /\ extent' = extent + 1 /\ block' = 0 /\ pc' = "block"
         \/ pc' = "done" /\ result' = "Device"
         \/ /\ extent <= Len(extents) /\ block < extents[extent].block_count
            /\ offset' = 0 /\ pc' = "scan" /\ UNCHANGED <<extent, block>>
  BY DEF read_directory_block, diskVars, pathVars, treeVars, Return, ReadFails
<1>2. /\ Holds /\ Gathered /\ Subject = current /\ Subject \in DOMAIN files
      /\ files[Subject].kind = "directory" /\ inode = InodeOf(volume, Subject) /\ inode.extents
      /\ Underway /\ pc # "component" /\ ~AtChild
  BY <1>1, ScanHeld
<1>3. handle = 0 /\ Followed /\ AtEntry /\ Resolved = AtName
  BY <1>2, OnTheWay DEF Followed, AtEntry
<1>4. /\ extent \in 1..(Len(extents) + 1) /\ extent \in Nat /\ Len(extents) \in Nat
      /\ block \in Nat /\ Passed(extent, block, 0)
  BY <1>1 DEF IndInv, Walking, Scanning, OpenHolds, Scanned
<1>5. CASE extent > Len(extents) /\ pc' = "done" /\ result' = "NotFound"
  <2>1. extent = Len(extents) + 1
    BY <1>4, <1>5
  <2>2. ListingWritten(volume, files[current].listing, extents, Places)
    BY <1>2, PlacesHeld
  <2>3. Passed(Len(extents) + 1, 0, 0)
    <3>1. ASSUME NEW x, NEW y, NEW z, IsAt(x, y, z)
          PROVE  InFront(x, y, z, extent, block, 0)
      <4>1. x \in 1..Len(extents)
        BY <1>2, <3>1, PlaceNumbers
      <4>2. x < extent
        BY <1>4, <2>1, <4>1
      <4> QED BY <4>2 DEF InFront
    <3>2. \A x, y, z : IsAt(x, y, z) /\ InFront(x, y, z, extent, block, 0) => Unnamed(<<x, y, z>>)
      BY <1>4, PassedIs
    <3> QED BY <3>1, <3>2, PassedIs
  <2>4. Component \notin DOMAIN files[current].listing
    BY <1>2, <2>2, <2>3, PassedIsAbsent
  <2>5. Resolved.why = "NotFound"
    BY <1>3, <2>4, RefusedWhy DEF AtName, AtEntry
  <2> QED BY <1>1, <1>3, <1>5, <2>5, OpenEnds DEF Justified
<1>6. CASE pc' = "done" /\ result' = "Device"
  BY <1>1, <1>3, <1>6, OpenEnds DEF Justified
<1>7. ASSUME pc' \in {"block", "scan"}
      PROVE  OpenIsExact' /\ Followed'
  <2>1. Underway' /\ pc' # "component" /\ ~AtChild'
    BY <1>7 DEF Underway, AtChild
  <2> QED BY <1>1, <1>2, <2>1, OpenAtEntry
<1>8. CASE /\ extent <= Len(extents) /\ block >= extents[extent].block_count
           /\ extent' = extent + 1 /\ block' = 0 /\ pc' = "block"
  <2>1. Passed(extent + 1, 0, 0)
    BY <1>2, <1>4, <1>8, PassedMoves
  <2>2. Passed(extent, block, 0)'
    BY <1>1, <1>8, <2>1, PassedNext
  <2>3. Scanned'
    BY <1>8, <2>2 DEF Scanned
  <2> QED BY <1>7, <1>8, <2>3 DEF OpenHolds
<1>9. CASE /\ extent <= Len(extents) /\ block < extents[extent].block_count
           /\ offset' = 0 /\ pc' = "scan" /\ UNCHANGED <<extent, block>>
  <2>1. Passed(extent, block, 1)
    BY <1>2, <1>4, PassedMoves
  <2>2. extent \in 1..Len(extents)
    BY <1>4, <1>9
  <2>3. extents[extent].block_count \in Nat /\ extent \in DOMAIN extents
    BY <2>2, ExtentTyped
  <2>4. block \in 0..(extents[extent].block_count - 1)
    BY <1>4, <1>9, <2>3
  <2>5. BlockRecords(volume, Places, BlockHere)
    BY <1>2, <2>3, <2>4, PlacesHeld DEF BlockHere
  <2>6. 1 \in 1..(Len(Places[BlockHere]) + 1)
    BY <2>5 DEF BlockRecords
  <2>7. 0 = EndOf(volume, Places, BlockHere, 1 - 1) /\ ~BadAt(volume, Places, BlockHere, 1 - 1)
    BY <2>5 DEF BlockRecords, EndOf, BadAt
  <2>8. Places' = Places /\ BlockHere' = BlockHere
    BY <1>1, <1>9 DEF Places, Spelled, BlockHere
  <2>9. Passed(extent, block, 1)'
    BY <1>1, <1>9, <2>1, PassedNext
  <2>10. /\ offset' = EndOf(volume', Places', BlockHere', 1 - 1)
         /\ ~BadAt(volume', Places', BlockHere', 1 - 1)
         /\ 1 \in 1..(Len(Places'[BlockHere']) + 1)
    BY <1>1, <1>9, <2>6, <2>7, <2>8
  <2>11. Scanned'
    BY <1>1, <1>9, <2>2, <2>4, <2>9, <2>10 DEF Scanned
  <2> QED BY <1>7, <1>9, <2>11 DEF OpenHolds
<1> QED BY <1>1, <1>5, <1>6, <1>8, <1>9

\* The record that is read next is record k of its block, or the block is through.
LEMMA RecordNext ==
  ASSUME NEW v, NEW places, NEW b, BlockRecords(v, places, b), NEW k \in 1..(Len(places[b]) + 1),
         NEW at \in Nat, at = EndOf(v, places, b, k - 1), ~BadAt(v, places, b, k - 1),
         BlockSize(v.superblock) \in Nat
  PROVE  /\ at + EntryHeader > BlockSize(v.superblock) => k = Len(places[b]) + 1
         /\ ~(at + EntryHeader > BlockSize(v.superblock)) =>
              k \in 1..Len(places[b]) /\ places[b][k] = at
<1> DEFINE l == Len(places[b])
           s == BlockSize(v.superblock)
<1>1. /\ l \in Nat
      /\ \A j \in 1..l : places[b][j] = EndOf(v, places, b, j - 1) /\ places[b][j] + EntryHeader <= s
      /\ BadAt(v, places, b, l) \/ EndOf(v, places, b, l) + EntryHeader > s
  BY Zenon DEF BlockRecords
<1>2. s \in Nat /\ EntryHeader \in Nat
  BY Sizes
<1> HIDE DEF l, s
<1>3. k \in 1..l \/ k = l + 1
  BY <1>1 DEF l
<1>4. ASSUME k \in 1..l PROVE places[b][k] = at /\ ~(at + EntryHeader > s)
  BY <1>1, <1>2, <1>4
<1>5. ASSUME k = l + 1 PROVE at + EntryHeader > s
  <2>1. k - 1 = l
    BY <1>1, <1>5
  <2> QED BY <1>1, <2>1
<1>6. k = l + 1 => ~(k \in 1..l)
  BY <1>1
<1> QED BY <1>3, <1>4, <1>5, <1>6 DEF l, s

LEMMA FindOpen ==
  ASSUME IndInv, Known, Collected, OpenHolds, find_directory_entry
  PROVE  OpenHolds'
<1> DEFINE r == DirEntryAt(offset)
           through == offset + EntryHeader > geometry.block_size
           size == BlockSize(volume.superblock)
<1>1. /\ pc = "scan"
      /\ UNCHANGED <<volume, geometry, path, current, remaining, links, purpose, extents, extent, handle>>
      /\ \/ through /\ block' = block + 1 /\ pc' = "block"
         \/ ~through /\ InvalidDirectoryEntry(r, offset) /\ pc' = "done"
              /\ result' = "InvalidDirectoryEntry"
         \/ ~through /\ ~InvalidDirectoryEntry(r, offset) /\ IsWanted(r) /\ entry' = r.inode
              /\ pc' = "child"
         \/ ~through /\ ~InvalidDirectoryEntry(r, offset) /\ ~IsWanted(r)
              /\ offset' = offset + r.record_length /\ pc' = "scan" /\ UNCHANGED block
  BY DEF find_directory_entry, diskVars, pathVars, treeVars, Return
<1>2. /\ Holds /\ Gathered /\ Subject = current /\ Subject \in DOMAIN files
      /\ files[Subject].kind = "directory" /\ inode = InodeOf(volume, Subject) /\ inode.extents
      /\ Underway /\ pc # "component" /\ ~AtChild
  BY <1>1, ScanHeld
<1>3. handle = 0 /\ Followed /\ AtEntry /\ Resolved = AtName
  BY <1>2, OnTheWay DEF Followed, AtEntry
<1>4. /\ extent \in 1..Len(extents) /\ block \in 0..(extents[extent].block_count - 1)
      /\ \E k \in 1..(Len(Places[BlockHere]) + 1) :
           /\ offset = EndOf(volume, Places, BlockHere, k - 1)
           /\ ~BadAt(volume, Places, BlockHere, k - 1)
           /\ Passed(extent, block, k)
  BY <1>1 DEF OpenHolds, Scanned
<1>5. PICK k \in 1..(Len(Places[BlockHere]) + 1) :
           /\ offset = EndOf(volume, Places, BlockHere, k - 1)
           /\ ~BadAt(volume, Places, BlockHere, k - 1)
           /\ Passed(extent, block, k)
  BY <1>4
<1>6. offset \in Nat /\ extent \in Nat /\ block \in Nat /\ extent \in DOMAIN extents
  <2>1. offset \in Nat /\ Len(extents) \in Nat
    BY DEF IndInv, Walking, Scanning
  <2>2. extents[extent].block_count \in Nat /\ extent \in DOMAIN extents
    BY <1>4, ExtentTyped
  <2> QED BY <1>4, <2>1, <2>2
<1>7. /\ BlockHere \in DOMAIN Places /\ BlockRecords(volume, Places, BlockHere)
      /\ r = EntryIn(volume, BlockHere, offset)
      /\ InvalidDirectoryEntry(r, offset) <=> BadRecord(volume, EntryIn(volume, BlockHere, offset), offset)
      /\ geometry.block_size = size
  BY <1>1, <1>2, <1>4, <1>6, RecordHere
<1>8. size \in Nat
  BY <1>2, SizeHeld
<1>9. /\ through => k = Len(Places[BlockHere]) + 1
      /\ ~through => k \in 1..Len(Places[BlockHere]) /\ Places[BlockHere][k] = offset
  <2>1. ASSUME NEW b, BlockRecords(volume, Places, b), NEW j \in 1..(Len(Places[b]) + 1),
               offset = EndOf(volume, Places, b, j - 1), ~BadAt(volume, Places, b, j - 1)
        PROVE  /\ offset + EntryHeader > size => j = Len(Places[b]) + 1
               /\ ~(offset + EntryHeader > size) => j \in 1..Len(Places[b]) /\ Places[b][j] = offset
    BY <1>6, <1>8, <2>1, RecordNext
  <2>2. through <=> offset + EntryHeader > size
    BY <1>7
  <2> HIDE DEF through, size
  <2> QED BY <1>5, <1>7, <2>1, <2>2
<1>10. ListingWritten(volume, files[current].listing, extents, Places)
  BY <1>2, PlacesHeld
<1>11. k \in Nat /\ Len(Places[BlockHere]) \in Nat /\ DOMAIN Places[BlockHere] = 1..Len(Places[BlockHere])
  BY <1>7 DEF BlockRecords
<1> HIDE DEF r, through, size
<1> DEFINE p == <<extent, block, k>>
<1>12. ASSUME ~through
       PROVE  /\ k \in DOMAIN Places[extents[extent].physical_block + block]
              /\ RecordAt(volume, extents, Places, p) = r
              /\ IsBad(volume, extents, Places, p) <=> InvalidDirectoryEntry(r, offset)
              /\ IsNamed(volume, extents, Places, p, Component) <=> IsWanted(r)
              /\ p \in Positions(extents, Places)
  <2>1. p[1] = extent /\ p[2] = block /\ p[3] = k
    OBVIOUS
  <2> HIDE DEF p
  <2>2. BlockNumber(extents, p) = BlockHere
    BY <2>1 DEF BlockNumber, BlockHere
  <2>3. k \in DOMAIN Places[BlockHere] /\ Places[BlockHere][k] = offset
    BY <1>9, <1>11, <1>12
  <2>4. RecordPlace(extents, Places, p) = offset
    BY <2>1, <2>2, <2>3 DEF RecordPlace
  <2>5. RecordAt(volume, extents, Places, p) = r
    BY <1>7, <2>2, <2>4 DEF RecordAt
  <2>6. IsBad(volume, extents, Places, p) <=> InvalidDirectoryEntry(r, offset)
    BY <1>7, <2>4, <2>5 DEF IsBad
  <2>7. IsNamed(volume, extents, Places, p, Component) <=> IsWanted(r)
    BY <2>5 DEF IsNamed, IsWanted
  <2>8. k \in DOMAIN Places[extents[extent].physical_block + block]
    BY <2>3 DEF BlockHere
  <2>9. p \in Positions(extents, Places)
    <3>1. IsPosition(extents, Places, p)
      BY <1>4, <1>6, <2>8, Zenon DEF IsPosition, p
    <3> QED BY <3>1, PositionsAre
  <2> QED BY <2>5, <2>6, <2>7, <2>8, <2>9
<1> HIDE DEF p
<1>13. ASSUME pc' \in {"block", "scan"}
       PROVE  OpenIsExact' /\ Followed'
  <2>1. Underway' /\ pc' # "component" /\ ~AtChild'
    BY <1>13 DEF Underway, AtChild
  <2> QED BY <1>1, <1>2, <2>1, OpenAtEntry
<1>14. CASE through /\ block' = block + 1 /\ pc' = "block"
  <2>1. k > Len(Places[extents[extent].physical_block + block])
    BY <1>9, <1>11, <1>14 DEF BlockHere
  <2>2. Passed(extent, block + 1, 0)
    BY <1>2, <1>5, <1>6, <1>11, <2>1, PassedMoves
  <2>3. Passed(extent, block, 0)'
    BY <1>1, <1>14, <2>2, PassedNext
  <2>4. Scanned'
    BY <1>6, <1>14, <2>3 DEF Scanned
  <2> QED BY <1>13, <1>14, <2>4 DEF OpenHolds
<1>15. CASE ~through /\ InvalidDirectoryEntry(r, offset) /\ pc' = "done"
              /\ result' = "InvalidDirectoryEntry"
  <2>1. volume.damaged
    <3>1. volume.damaged \/ \A q \in Positions(extents, Places) : ~IsBad(volume, extents, Places, q)
      BY <1>10, Zenon DEF ListingWritten
    <3> QED BY <1>12, <1>15, <3>1
  <2> QED BY <1>1, <1>3, <1>15, <2>1, OpenEnds DEF Justified
<1>16. CASE ~through /\ ~InvalidDirectoryEntry(r, offset) /\ IsWanted(r) /\ entry' = r.inode
              /\ pc' = "child"
  <2>1. /\ Component \in DOMAIN files[current].listing
        /\ files[current].listing[Component] = RecordAt(volume, extents, Places, <<extent, block, k>>).inode
    BY <1>2, <1>4, <1>5, <1>6, <1>10, <1>12, <1>16, FoundIsListed DEF p
  <2>2. entry' = TheChild
    BY <1>12, <1>16, <2>1 DEF TheChild, p
  <2>3. Underway'
    BY <1>16 DEF Underway
  <2>4. OpenIsExact' /\ Followed'
    BY <1>1, <1>2, <1>16, <2>1, <2>2, <2>3, OpenAtEntry
  <2>5. Scanned'
    BY <1>16 DEF Scanned
  <2> QED BY <2>4, <2>5 DEF OpenHolds
<1>17. CASE ~through /\ ~InvalidDirectoryEntry(r, offset) /\ ~IsWanted(r)
              /\ offset' = offset + r.record_length /\ pc' = "scan" /\ UNCHANGED block
  <2>1. Unnamed(<<extent, block, k>>)
    BY <1>12, <1>17 DEF Unnamed, p
  <2>2. Passed(extent, block, k + 1)
    BY <1>2, <1>5, <1>6, <1>11, <2>1, PassedMoves
  <2>3. k + 1 \in 1..(Len(Places[BlockHere]) + 1) /\ (k + 1) - 1 = k /\ k # 0
    BY <1>9, <1>11, <1>17
  <2>4. offset' = EndOf(volume, Places, BlockHere, (k + 1) - 1)
    BY <1>7, <1>9, <1>17, <2>3 DEF EndOf
  <2>5. ~BadAt(volume, Places, BlockHere, (k + 1) - 1)
    BY <1>7, <1>9, <1>17, <2>3 DEF BadAt
  <2>6. Places' = Places /\ BlockHere' = BlockHere
    BY <1>1, <1>17 DEF Places, Spelled, BlockHere
  <2>7. Passed(extent, block, k + 1)'
    BY <1>1, <1>17, <2>2, PassedNext
  <2>8. /\ offset' = EndOf(volume', Places', BlockHere', (k + 1) - 1)
        /\ ~BadAt(volume', Places', BlockHere', (k + 1) - 1)
        /\ k + 1 \in 1..(Len(Places'[BlockHere']) + 1)
    BY <1>1, <2>3, <2>4, <2>5, <2>6
  <2>9. Scanned'
    BY <1>1, <1>4, <1>17, <2>7, <2>8 DEF Scanned
  <2> QED BY <1>13, <1>17, <2>9 DEF OpenHolds
<1> QED BY <1>1, <1>14, <1>15, <1>16, <1>17

\* A text that one more link makes longer.
LEMMA Longer ==
  ASSUME NEW p \in Nat, NEW n \in Nat, NEW m \in Nat, n < m, NEW g \in Nat,
         NEW t \in Nat, t <= g, NEW r \in Nat, r <= p + n * (g + 1), NEW e \in Nat, e <= t + 1 + r
  PROVE  e <= p + (n + 1) * (g + 1) /\ p + (n + 1) * (g + 1) <= p + m * (g + 1)
<1> DEFINE h == g + 1
<1>1. h \in Nat /\ t + 1 <= h
  OBVIOUS
<1> HIDE DEF h
<1>2. n * h \in Nat /\ m * h \in Nat
  BY <1>1, Product
<1>3. (n + 1) * h = n * h + h
  BY <1>1
<1>4. (n + 1) * h <= m * h
  BY <1>1, ProductGrows
<1>5. r <= p + n * h
  BY DEF h
<1>6. ASSUME NEW x \in Nat, r <= p + x PROVE e <= p + (x + h)
  BY <1>1, <1>6
<1>7. e <= p + (n + 1) * h
  BY <1>2, <1>3, <1>5, <1>6
<1>8. ASSUME NEW x \in Nat, NEW y \in Nat, x <= y PROVE p + x <= p + y
  BY <1>8
<1>9. p + (n + 1) * h <= p + m * h
  <2>1. (n + 1) * h \in Nat
    BY <1>1, <1>2, <1>3
  <2> QED BY <1>2, <1>4, <1>8, <2>1
<1> QED BY <1>7, <1>9 DEF h

\* Following a link.
LEMMA ExpandOpen ==
  ASSUME IndInv, Known, OpenHolds, Underway, pc # "component", AtChild,
         files[TheChild].kind = "symlink", links < MaxSymlinkDepth,
         NEW target, target = TheTarget, Expand(target), UNCHANGED <<volume, path, handle>>
  PROVE  OpenHolds'
<1> DEFINE e == ExpandedPath(target, Rest)
<1>1. /\ Holds /\ current \in DOMAIN files /\ handle = 0 /\ remaining \in Texts
      /\ links \in 0..MaxSymlinkDepth /\ Followed /\ AtEntry /\ Entered /\ path \in Texts
      /\ Resolved = AtName
  BY OnTheWay DEF Followed, AtEntry
<1>2. /\ Rest \in Texts /\ Clean(Rest) /\ Decodable(Rest)
      /\ Len(Rest) <= Len(path) + links * (LongestTarget + 1)
  BY <1>1, RestOnPath DEF AtEntry
<1>3. TheChild \in DOMAIN files
  BY <1>1, ListingHeld DEF TheChild, Entered, AtEntry
<1>4. target \in Texts /\ Len(target) <= LongestTarget /\ LongestTarget \in Nat
      /\ LongestText = Len(path) + MaxSymlinkDepth * (LongestTarget + 1)
  BY <1>1, <1>3, ListingHeld, LongestIs DEF TheTarget
<1>5. /\ e \in Texts
      /\ Components[e] = Glue(Components[target], Components[Rest])
      /\ Len(e) <= Len(target) + 1 + Len(Rest)
      /\ Decodable(e) <=> Decodable(target)
      /\ IsSeparator(e, 1) <=> IsAbsolute(target)
  BY <1>2, <1>4, ExpandedNames
<1>6. \/ Len(e) > PathBytes /\ pc' = "done" /\ result' = "NameTooLong"
      \/ ~Decodable(e) /\ pc' = "done" /\ result' = "InvalidPath"
      \/ Decodable(e) /\ Begin(current, e) /\ links' = links + 1
  BY Zenon DEF Expand, Return, Decodable
<1> HIDE DEF e
<1>7. Budget # 0 /\ MaxSymlinkDepth - (links + 1) = Budget - 1
  BY <1>1, Sizes DEF Budget
<1>8. Resolved =
        IF ~Decodable(target) THEN Refused("InvalidPath")
        ELSE Walk[<<IF IsAbsolute(target) THEN RootInode ELSE current,
                    Glue(Components[target], Components[Rest]), Budget - 1>>]
  BY <1>1, <1>7, Zenon DEF AtName, AtEntry, Entered
<1>9. /\ Len(e) <= Len(path) + (links + 1) * (LongestTarget + 1)
      /\ Len(path) + (links + 1) * (LongestTarget + 1) <= LongestText
      /\ Len(path) + (links + 1) * (LongestTarget + 1) \in Nat /\ Len(e) \in Nat /\ LongestText \in Nat
  <2>1. /\ Len(e) \in Nat /\ Len(target) \in Nat /\ Len(Rest) \in Nat /\ Len(path) \in Nat
        /\ links \in Nat /\ MaxSymlinkDepth \in Nat /\ links + 1 \in Nat /\ LongestTarget + 1 \in Nat
    <3>1. Len(e) \in Nat /\ Len(target) \in Nat /\ Len(Rest) \in Nat /\ Len(path) \in Nat
      BY <1>1, <1>2, <1>4, <1>5, TextIs, Zenon
    <3>2. MaxSymlinkDepth \in Nat
      BY Sizes
    <3>3. links \in Nat /\ links + 1 \in Nat /\ LongestTarget + 1 \in Nat
      BY <1>1, <1>4, <3>2
    <3> QED BY <3>1, <3>2, <3>3
  <2>2. /\ (links + 1) * (LongestTarget + 1) \in Nat
        /\ MaxSymlinkDepth * (LongestTarget + 1) \in Nat
    BY <2>1, Product
  <2>3. /\ Len(path) + (links + 1) * (LongestTarget + 1) \in Nat
        /\ Len(path) + MaxSymlinkDepth * (LongestTarget + 1) \in Nat
    BY <2>1, <2>2, SMTT(40)
  <2>4. /\ Len(e) <= Len(path) + (links + 1) * (LongestTarget + 1)
        /\ Len(path) + (links + 1) * (LongestTarget + 1)
             <= Len(path) + MaxSymlinkDepth * (LongestTarget + 1)
    BY <1>2, <1>4, <1>5, <2>1, Longer
  <2> QED BY <1>4, <2>1, <2>3, <2>4
<1>10. CASE Len(e) > PathBytes /\ pc' = "done" /\ result' = "NameTooLong"
  <2>1. LongestText > PathBytes
    <3>1. ASSUME NEW x \in Nat, NEW y \in Nat, NEW z \in Nat, x > PathBytes, x <= y, y <= z
          PROVE  z > PathBytes
      BY <3>1, Sizes
    <3> QED BY <1>9, <1>10, <3>1
  <2> QED BY <1>1, <1>10, <2>1, OpenEnds DEF Justified
<1>11. CASE ~Decodable(e) /\ pc' = "done" /\ result' = "InvalidPath"
  <2>1. Resolved.why = "InvalidPath"
    BY <1>5, <1>8, <1>11, RefusedWhy
  <2> QED BY <1>1, <1>11, <2>1, OpenEnds DEF Justified
<1>12. CASE Decodable(e) /\ Begin(current, e) /\ links' = links + 1
  <2>1. /\ current' = (IF IsSeparator(e, 1) THEN RootInode ELSE current)
        /\ remaining' = trim_leading_separators(e) /\ pc' = "component"
    BY <1>12 DEF Begin
  <2>2. /\ remaining' \in Texts /\ Len(remaining') <= Len(e)
        /\ Components[remaining'] = Components[e] /\ Clean(remaining') /\ Decodable(remaining')
    BY <1>5, <1>12, <2>1, TrimNames
  <2>3. Len(remaining') <= Len(path) + links' * (LongestTarget + 1)
    <3>1. Len(remaining') \in Nat
      BY <2>2, TextIs
    <3>2. ASSUME NEW x \in Nat, NEW y \in Nat, NEW z \in Nat, x <= y, y <= z PROVE x <= z
      BY <3>2
    <3>3. Len(remaining') <= Len(path) + (links + 1) * (LongestTarget + 1)
      BY <1>9, <2>2, <3>1, <3>2
    <3> QED BY <1>12, <3>3
  <2>4. Resolved = Walk[<<current', Components[remaining'], MaxSymlinkDepth - links'>>]
    BY <1>5, <1>7, <1>8, <1>12, <2>1, <2>2
  <2> QED BY <1>1, <2>1, <2>2, <2>3, <2>4, OpenGoesOn
<1> QED BY <1>6, <1>10, <1>11, <1>12

\* The text of a link in its inode.
LEMMA InlineIs ==
  ASSUME Holds, NEW n \in DOMAIN files, files[n].kind = "symlink", NEW i, i = InodeOf(volume, n),
         IsInline(i) \/ i.size = 0
  PROVE  InlineText(i) = files[n].target
<1>1. FileWritten(volume, Spelled(volume), n)
  BY DEF Holds, Written, files
<1>2. /\ i.size = files[n].size /\ Len(files[n].target) = files[n].size
      /\ IsInline(i) => files[n].target = InlineText(i)
  BY <1>1, Zenon DEF FileWritten, files
<1>3. CASE IsInline(i)
  BY <1>2, <1>3
<1>4. CASE i.size = 0
  <2>1. files[n].target = <<>>
    BY <1>2, <1>4, ListingHeld, EmptySeq DEF Texts
  <2>2. InlineText(i) = [k \in 1..0 |-> IF k <= Len(i.text) THEN i.text[k] ELSE NUL]
    BY <1>4 DEF InlineText
  <2>3. InlineText(i) = <<>>
    <3>1. InlineText(i) \in Seq(Chars)
      BY InodeHeld, InlineTyped
    <3>2. Len(InlineText(i)) = 0
      BY <2>2, <3>1
    <3> QED BY <3>1, <3>2, EmptySeq
  <2> QED BY <2>1, <2>3
<1> QED BY <1>3, <1>4

LEMMA ChildOpen ==
  ASSUME IndInv, Known, Collected, OpenHolds, read_child
  PROVE  OpenHolds'
<1> DEFINE c == read_inode(entry)
<1>1. /\ pc = "child" /\ UNCHANGED <<volume, geometry, path, entry, handle>>
      /\ \/ pc' = "done" /\ result' = "Device"
         \/ /\ c.kind # "symlink" /\ current' = entry /\ remaining' = Rest
            /\ pc' = "component" /\ UNCHANGED links
         \/ c.kind = "symlink" /\ TooManyLinks /\ pc' = "done" /\ result' = "SymlinkLoop"
         \/ /\ c.kind = "symlink" /\ ~TooManyLinks /\ c.size > PathBytes
            /\ pc' = "done" /\ result' = "NameTooLong"
         \/ /\ c.kind = "symlink" /\ ~TooManyLinks /\ (IsInline(c) \/ c.size = 0)
            /\ Expand(InlineText(c))
         \/ /\ c.kind = "symlink" /\ ~TooManyLinks /\ ~IsInline(c)
            /\ Collect(c, "link") /\ UNCHANGED <<current, remaining, links>>
  BY Zenon DEF read_child, diskVars, scanVars, ReadFails, Return
<1>2. Underway /\ AtChild /\ pc # "component"
  BY <1>1 DEF Underway, AtChild
<1>3. /\ Holds /\ current \in DOMAIN files /\ handle = 0 /\ Followed /\ AtEntry /\ Entered
      /\ path \in Texts /\ links \in 0..MaxSymlinkDepth /\ Resolved = AtName
  BY <1>2, OnTheWay DEF Followed, AtEntry
<1>4. entry \in DOMAIN files /\ entry = TheChild
  BY <1>1, <1>3 DEF Known, Entered
<1>5. c = InodeOf(volume, entry) /\ c.kind = files[entry].kind /\ c.size = files[entry].size
  BY <1>3, <1>4, ReadHeld
<1> HIDE DEF c
<1>6. CASE pc' = "done" /\ result' = "Device"
  BY <1>1, <1>3, <1>6, OpenEnds DEF Justified
<1>7. CASE /\ c.kind # "symlink" /\ current' = entry /\ remaining' = Rest
           /\ pc' = "component" /\ UNCHANGED links
  <2>1. Resolved = Walk[<<TheChild, Components[Rest], MaxSymlinkDepth - links>>]
    BY <1>3, <1>4, <1>5, <1>7, Zenon DEF AtName, AtEntry, Entered, Budget
  <2>2. /\ Clean(Rest) /\ Decodable(Rest) /\ Len(Rest) <= Len(path) + links * (LongestTarget + 1)
    BY <1>2, <1>3, RestOnPath DEF AtEntry
  <2> QED BY <1>1, <1>3, <1>4, <1>7, <2>1, <2>2, OpenGoesOn
<1>8. CASE c.kind = "symlink" /\ TooManyLinks /\ pc' = "done" /\ result' = "SymlinkLoop"
  <2>1. Budget = 0
    BY <1>3, <1>8, Sizes DEF Budget, TooManyLinks
  <2>2. Resolved = Refused("SymlinkLoop")
    BY <1>3, <1>4, <1>5, <1>8, <2>1, Zenon DEF AtName, AtEntry, Entered
  <2>3. Resolved.why = "SymlinkLoop"
    BY <2>2, RefusedWhy
  <2> QED BY <1>1, <1>3, <1>8, <2>3, OpenEnds DEF Justified
<1>9. CASE /\ c.kind = "symlink" /\ ~TooManyLinks /\ c.size > PathBytes
           /\ pc' = "done" /\ result' = "NameTooLong"
  <2>1. Len(files[entry].target) = files[entry].size
    <3>1. FileWritten(volume, Spelled(volume), entry)
      BY <1>3, <1>4 DEF Holds, Written, files
    <3> QED BY <1>5, <1>9, <3>1, Zenon DEF FileWritten, files
  <2>2. /\ LongestTarget \in Nat /\ c.size <= LongestTarget /\ c.size \in Nat
        /\ LongestText = Len(path) + MaxSymlinkDepth * (LongestTarget + 1)
    BY <1>3, <1>4, <1>5, <2>1, LongestIs, InodeHeld, InodesTyped
  <2>3. Len(path) \in Nat /\ MaxSymlinkDepth \in Nat /\ 1 <= MaxSymlinkDepth /\ LongestTarget + 1 \in Nat
    BY <1>3, <1>9, <2>2, TextIs, Sizes DEF TooManyLinks
  <2>4. 1 * (LongestTarget + 1) <= MaxSymlinkDepth * (LongestTarget + 1)
    BY <2>3, ProductGrows
  <2>5. ASSUME NEW x \in Nat, 1 * (LongestTarget + 1) <= x PROVE Len(path) + x > PathBytes
    BY <1>9, <2>2, <2>3, <2>5, Sizes
  <2>6. LongestText > PathBytes
    BY <2>2, <2>3, <2>4, <2>5, Product
  <2> QED BY <1>1, <1>3, <1>9, <2>6, OpenEnds DEF Justified
<1>10. CASE /\ c.kind = "symlink" /\ ~TooManyLinks /\ (IsInline(c) \/ c.size = 0)
            /\ Expand(InlineText(c))
  <2>1. InlineText(c) = TheTarget
    BY <1>3, <1>4, <1>5, <1>10, InlineIs DEF TheTarget
  <2>2. links < MaxSymlinkDepth
    BY <1>3, <1>10, Sizes DEF TooManyLinks
  <2> QED BY <1>1, <1>2, <1>4, <1>5, <1>10, <2>1, <2>2, ExpandOpen
<1>11. CASE /\ c.kind = "symlink" /\ ~TooManyLinks /\ ~IsInline(c)
            /\ Collect(c, "link") /\ UNCHANGED <<current, remaining, links>>
  <2>1. \/ ~c.extents /\ pc' = "done" /\ result' = "UnsupportedMapping"
        \/ pc' = "collect" /\ purpose' = "link"
    BY <1>11 DEF Collect, Return
  <2>2. CASE ~c.extents /\ pc' = "done" /\ result' = "UnsupportedMapping"
    <3>1. volume.damaged \/ PathsBeyondReader
      BY <1>3, <1>4, <1>5, <1>11, <2>2, NotMapped
    <3> QED BY <1>1, <1>3, <2>2, <3>1, OpenEnds DEF Justified, MappingErrors
  <2>3. CASE pc' = "collect" /\ purpose' = "link"
    <3>1. Underway' /\ pc' # "component"
      BY <2>3 DEF Underway
    <3>2. Component \in DOMAIN files[current].listing /\ entry' = TheChild
      BY <1>1, <1>3, <1>4 DEF Entered
    <3>3. OpenIsExact' /\ Followed'
      BY <1>1, <1>2, <1>11, <3>1, <3>2, OpenAtEntry
    <3>4. Scanned'
      BY <2>3 DEF Scanned
    <3> QED BY <3>3, <3>4 DEF OpenHolds
  <2> QED BY <2>1, <2>2, <2>3
<1> QED BY <1>1, <1>6, <1>7, <1>8, <1>9, <1>10, <1>11

LEMMA PlaceTyped ==
  ASSUME IndInv, Holds, NEW d \in 1..Len(extents), NEW k \in Nat \ {0}, Covers(extents[d], BlockOf(k))
  PROVE  PlaceIn(volume, extents[d], k - 1) # ZeroByte
<1> DEFINE s == BlockSize(volume.superblock)
           l == extents[d].logical_block
           p == extents[d].physical_block
           b == (k - 1) \div s
           r == (k - 1) % s
           a == volume.partition_start_lba * SectorSize
<1>1. s \in Nat \ {0} /\ volume \in Volumes
  BY SizeHeld
<1>2. l \in Nat /\ p \in Nat
  BY ExtentTyped
<1>3. k - 1 \in Nat
  OBVIOUS
<1>4. b \in Nat /\ r \in Nat
  BY <1>1, <1>3, Division
<1>5. a \in Nat
  <2>1. volume.partition_start_lba \in Nat
    BY <1>1, VolumeAssumption
  <2> QED BY <2>1, Sizes, Product
<1>6. b >= l
  BY DEF Covers, BlockOf
<1>7. PlaceIn(volume, extents[d], k - 1) = a + (p + b - l) * s + r
  BY Zenon DEF PlaceIn, PlaceOf
<1> HIDE DEF s, l, p, b, r, a
<1>8. p + b - l \in Nat
  BY <1>2, <1>4, <1>6
<1>9. (p + b - l) * s \in Nat
  BY <1>1, <1>8, Product
<1>10. ASSUME NEW x \in Nat PROVE a + x + r # -1
  BY <1>4, <1>5
<1> QED BY <1>7, <1>9, <1>10 DEF ZeroByte

\* The text of a link in its blocks.
LEMMA TextRead ==
  ASSUME IndInv, Known, Collected, Copied, pc = "copy", purpose = "link", CopyDone
  PROVE  TextOf(buffer) = files[entry].target
<1> DEFINE t == files[entry].target
<1>1. /\ Holds /\ Subject = entry /\ entry \in DOMAIN files /\ files[entry].kind = "symlink"
      /\ inode = InodeOf(volume, entry) /\ inode.extents /\ Gathered /\ CopiedUpto(extent - 1)
  BY DEF Known, Collected, Copied, Subject, SubjectKind
<1>2. Ascending(extents) /\ TextWritten(volume, t, extents)
  BY <1>1, GatheredFacts
<1>3. CopiedUpto(Len(extents))
  BY <1>1, <1>2, CopyEnd
<1>4. buffer \in Seq(Int) /\ Len(buffer) = inode.size
  BY DEF IndInv, Copying
<1>5. inode.size = files[entry].size /\ Len(t) = files[entry].size
  <2>1. FileWritten(volume, Spelled(volume), entry)
    BY <1>1 DEF Holds, Written, files
  <2> QED BY <1>1, <2>1, Zenon DEF FileWritten, files
<1>6. t \in Texts /\ Len(t) \in Nat /\ DOMAIN t = 1..Len(t)
  BY <1>1, ListingHeld, TextIs
<1>7. TextOf(buffer) \in Texts
  BY <1>1, <1>4, SizeHeld, TextTyped DEF Texts
<1>8. DOMAIN TextOf(buffer) = DOMAIN buffer /\ DOMAIN buffer = 1..Len(t) /\ Len(buffer) = Len(t)
  BY <1>4, <1>5 DEF TextOf
<1>9. ASSUME NEW k \in 1..Len(t) PROVE TextOf(buffer)[k] = t[k]
  <2>1. TextOf(buffer)[k] = IF buffer[k] = ZeroByte THEN NUL ELSE At(volume.text, buffer[k], NUL)
    BY <1>8 DEF TextOf
  <2>2. /\ \A d \in 1..Len(extents) : Covers(extents[d], BlockOf(k))
             => buffer[k] = PlaceIn(volume, extents[d], k - 1)
        /\ (\A d \in 1..Len(extents) : ~Covers(extents[d], BlockOf(k))) => buffer[k] = ZeroByte
    BY <1>3, <1>8 DEF CopiedUpto
  <2> DEFINE over == {d \in DOMAIN extents : Covers(extents[d], BlockOf(k))}
  <2>3. IF over = {} THEN t[k] = NUL
        ELSE \A d \in over : t[k] = At(volume.text, PlaceIn(volume, extents[d], k - 1), NUL)
    BY <1>2, <1>6, Zenon DEF TextWritten, BlockOf
  <2>4. DOMAIN extents = 1..Len(extents)
    BY DEF IndInv, Walking
  <2>5. CASE over = {}
    BY <2>1, <2>2, <2>3, <2>4, <2>5
  <2>6. CASE over # {}
    <3>1. PICK d \in 1..Len(extents) : Covers(extents[d], BlockOf(k)) /\ d \in over
      BY <2>4, <2>6
    <3>2. k \in Nat \ {0}
      BY <1>6
    <3>3. PlaceIn(volume, extents[d], k - 1) # ZeroByte
      BY <1>1, <3>1, <3>2, PlaceTyped
    <3>4. t[k] = At(volume.text, PlaceIn(volume, extents[d], k - 1), NUL)
      BY <2>3, <2>6, <3>1
    <3> QED BY <2>1, <2>2, <3>1, <3>3, <3>4
  <2> QED BY <2>5, <2>6
<1> HIDE DEF t
<1>10. Len(TextOf(buffer)) = Len(t)
  <2>1. Len(TextOf(buffer)) \in Nat /\ DOMAIN TextOf(buffer) = 1..Len(TextOf(buffer))
    BY <1>7, TextIs
  <2>2. ASSUME NEW m \in Nat, NEW n \in Nat, 1..m = 1..n PROVE m = n
    <3>1. m > n => m \in 1..m /\ m \notin 1..n
      OBVIOUS
    <3>2. n > m => n \in 1..n /\ n \notin 1..m
      OBVIOUS
    <3> QED BY <2>2, <3>1, <3>2
  <2> QED BY <1>6, <1>8, <2>1, <2>2
<1> QED BY <1>6, <1>7, <1>9, <1>10, SameText DEF t, Texts

LEMMA LoadOpen ==
  ASSUME IndInv, Known, OpenHolds, load_into_allocated_pages
  PROVE  OpenHolds'
<1>1. /\ pc = "opened" /\ UNCHANGED <<volume, path, handle>>
      /\ pc' = "done" \/ (pc' = "collect" /\ purpose' = "file")
  BY DEF load_into_allocated_pages, Collect, diskVars, pathVars, Return
<1>2. handle # 0
  BY <1>1 DEF Known
<1> QED BY <1>1, <1>2, OpenOpened

LEMMA ContentsOpen ==
  ASSUME IndInv, Known, Collected, Copied, OpenHolds, read_inode_contents
  PROVE  OpenHolds'
<1>1. /\ pc = "copy" /\ UNCHANGED <<volume, path, purpose, entry, handle>>
      /\ \/ purpose = "file" /\ pc' = "done"
         \/ purpose = "link" /\ CopyDone /\ Expand(TextOf(buffer))
         \/ pc' = "done" /\ result' = "Device"
         \/ UNCHANGED <<pc, current, remaining, links>>
  BY Zenon DEF read_inode_contents, diskVars, treeVars, Return, ReadFails
<1>2. CASE purpose = "file"
  <2>1. handle # 0 /\ (pc' = "done" \/ (pc' = "copy" /\ purpose' = "file"))
    BY <1>1, <1>2 DEF Known
  <2> QED BY <1>1, <2>1, OpenOpened
<1>3. CASE purpose # "file"
  <2>1. Underway /\ AtChild /\ pc # "component" /\ purpose = "link" /\ links < MaxSymlinkDepth
    BY <1>1, <1>3 DEF Underway, AtChild, IndInv, Walking
  <2>2. handle = 0 /\ Followed /\ Entered
    BY <2>1, OnTheWay DEF Followed
  <2>3. CASE CopyDone /\ Expand(TextOf(buffer))
    <3>1. TextOf(buffer) = TheTarget
      BY <1>1, <2>1, <2>2, <2>3, TextRead DEF Entered, TheTarget
    <3>2. files[TheChild].kind = "symlink"
      BY <1>1, <2>1, <2>2 DEF Known, Subject, SubjectKind, Entered
    <3> QED BY <1>1, <2>1, <2>3, <3>1, <3>2, ExpandOpen
  <2>4. CASE pc' = "done" /\ result' = "Device"
    BY <1>1, <2>2, <2>4, OpenEnds DEF Justified
  <2>5. CASE UNCHANGED <<pc, current, remaining, links>>
    <3>1. Underway' /\ pc' # "component"
      BY <1>1, <2>1, <2>5 DEF Underway
    <3>2. Component \in DOMAIN files[current].listing /\ entry' = TheChild
      BY <1>1, <2>2 DEF Entered
    <3>3. OpenIsExact' /\ Followed'
      BY <1>1, <2>1, <2>5, <3>1, <3>2, OpenAtEntry
    <3>4. Scanned'
      BY <1>1, <2>5 DEF Scanned
    <3> QED BY <3>3, <3>4 DEF OpenHolds
  <2> QED BY <1>1, <1>3, <2>3, <2>4, <2>5
<1> QED BY <1>2, <1>3

LEMMA StutterOpen ==
  ASSUME OpenHolds, UNCHANGED vars
  PROVE  OpenHolds'
<1>1. UNCHANGED <<volume, geometry, pc, path, current, remaining, links, purpose, extents, extent,
                  block, offset, entry, handle, result>>
  BY DEF vars, diskVars, pathVars, treeVars, scanVars
<1>2. /\ files' = files /\ Walk' = Walk /\ LongestTarget' = LongestTarget
      /\ Resolved' = Resolved /\ LongestText' = LongestText
  BY <1>1, OpenFrame
<1>3. OpenIsExact'
  BY <1>1, <1>2 DEF OpenHolds, OpenIsExact, PathsBeyondReader, BeyondReader
<1>4. Followed'
  <2>1. Underway' = Underway /\ AtChild' = AtChild
    BY <1>1 DEF Underway, AtChild
  <2>2. OnPath => OnPath' /\ (AtEntry => AtEntry') /\ (Entered => Entered')
    BY <1>1, OpenStays
  <2>3. AtChild => Underway
    BY DEF AtChild, Underway
  <2> QED BY <1>1, <2>1, <2>2, <2>3 DEF OpenHolds, Followed
<1>5. Scanned'
  <2>1. Places' = Places /\ BlockHere' = BlockHere
    BY <1>1 DEF Places, Spelled, BlockHere
  <2>2. ASSUME NEW k, Passed(extent, block, k) PROVE Passed(extent, block, k)'
    BY <1>1, <2>2, PassedNext
  <2> QED BY <1>1, <2>1, <2>2 DEF OpenHolds, Scanned
<1> QED BY <1>3, <1>4, <1>5 DEF OpenHolds

LEMMA NextOpen ==
  ASSUME IndInv, Known, Collected, Copied, OpenHolds, [Next]_vars
  PROVE  OpenHolds'
  BY NewOpen, CallOpen, ResolveOpen, CollectOpen, CollectedOpen, BlockOpen, FindOpen, ChildOpen,
     LoadOpen, ContentsOpen, StutterOpen DEF Next, Step, Unmounted

\* Ext4Volume::open returns the file that a reference walk over the directories
\* and links of the volume finds for the path, and fails with the error that
\* the walk ends with. It fails otherwise only because the device failed, the
\* text in its path buffer became too long, a directory or link of the volume is
\* mapped in a way the reader does not support, or the volume is damaged.
THEOREM Ext4OpenIsExact ==
  ASSUME VolumesAreWritten
  PROVE  Spec => []OpenIsExact
<1>1. Init => OpenHolds
  BY InitOpen
<1>2. IndInv /\ Known /\ Collected /\ Copied /\ OpenHolds /\ [Next]_vars => OpenHolds'
  BY NextOpen
<1>3. OpenHolds => OpenIsExact
  BY DEF OpenHolds
<1> QED BY <1>1, <1>2, <1>3, ReaderInvariants, PTL DEF Spec

=============================================================================
