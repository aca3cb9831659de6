--------------------------------- MODULE Fat ---------------------------------
(***************************************************************************)
(* The FAT reader (fat.rs): mounting a volume, finding a path in its       *)
(* directories with long and short names, and loading a file along its     *)
(* chain of clusters.                                                      *)
(*                                                                         *)
(* The disk is one volume that nobody writes to.  Names are compared after *)
(* case folding, so a name is a sequence of pieces, one for each long-name *)
(* entry; a short name is one piece.  A data sector holds itself: byte k   *)
(* of sector s is <<s, k>>.  Sums of boot-sector fields are small enough   *)
(* for 32 bits, and the table has an entry for every cluster.              *)
(***************************************************************************)
EXTENDS Integers, Sequences

CONSTANTS
  SectorSize,     \* VIRTIO_SECTOR_SIZE in bytes
  DirEntrySize,   \* FAT_DIR_ENTRY_SIZE
  Fat12Clusters,  \* fewer clusters are FAT12 (4085)
  Fat16Clusters,  \* fewer clusters are FAT16 (65525)
  Fat16Eoc,       \* FAT16_END_OF_CHAIN
  Fat32Eoc,       \* FAT32_END_OF_CHAIN
  Fat32Modulus,   \* 2^28: the upper bits of a FAT32 entry are no cluster bits
  MaxOrdinal,     \* long-name entries that fit into code_units (20)
  Undecodable,    \* pieces that are not UTF-16
  Volumes,        \* disks
  Paths,          \* sequences of names
  MayFail         \* of {"read", "memory"}

ASSUME SizeAssumption ==
  /\ SectorSize \in Nat \ {0} /\ DirEntrySize \in Nat \ {0}
  /\ SectorSize % DirEntrySize = 0
  /\ MaxOrdinal \in Nat \ {0}
  /\ Fat16Eoc \in Nat /\ Fat32Eoc \in Nat /\ Fat32Modulus \in Nat \ {0}
  /\ Fat12Clusters \in Nat \ {0} /\ Fat16Clusters \in Nat
  /\ MayFail \subseteq {"read", "memory"}

VARIABLES
  volume,     \* the disk
  pc,         \* where the reader is
  geometry,   \* the FatVolume that new returned
  path,       \* path being opened
  depth,      \* component being looked for
  directory,  \* DirectoryLocation it is looked for in
  cluster,    \* cluster of a directory or a file
  sector,     \* sector of the directory region or of the cluster
  offset,     \* directory entry in that sector
  lfn,        \* LongNameState
  entry,      \* FatDirectoryEntry that was found
  buffer,     \* bytes delivered
  remaining,  \* bytes still to deliver
  sectors,    \* sectors the last read asked for
  result      \* result of the call that ended last

diskVars == <<volume, geometry>>
findVars == <<path, depth, directory, sector, offset, lfn>>
loadVars == <<entry, buffer, remaining>>
vars == <<diskVars, pc, findVars, cluster, loadVars, sectors, result>>

-----------------------------------------------------------------------------
Min(a, b) == IF a < b THEN a ELSE b
CeilDiv(a, b) == (a + b - 1) \div b

EntriesPerSector == SectorSize \div DirEntrySize

\* Directory entries: long-name ones, and short ones with their checksum.
NoEntry == [kind |-> "end", ordinal |-> 0, last |-> FALSE, sum |-> 0, text |-> "",
            directory |-> FALSE, cluster |-> 0, size |-> 0]

\* A sector that holds no directory entries reads as zeros.
DirSector(s) ==
  IF s \in DOMAIN volume.dirs THEN volume.dirs[s]
  ELSE [k \in 1..EntriesPerSector |-> NoEntry]

-----------------------------------------------------------------------------
(* FatVolume::new. *)

TotalSectors(b) == IF b.total_sectors_16 # 0 THEN b.total_sectors_16 ELSE b.total_sectors_32
FatSize(b) == IF b.fat_size_16 # 0 THEN b.fat_size_16 ELSE b.fat_size_32
RootSectors(b) == CeilDiv(b.root_dir_entries * DirEntrySize, SectorSize)
RootFirst(b) == b.reserved_sector_count + b.fat_count * FatSize(b)
DataFirst(b) == RootFirst(b) + RootSectors(b)
TotalClusters(b) == (TotalSectors(b) - DataFirst(b)) \div b.sectors_per_cluster
FatType(b) == IF TotalClusters(b) < Fat16Clusters THEN "Fat16" ELSE "Fat32"

MountError(b) ==
  IF b.bytes_per_sector # SectorSize THEN "UnsupportedSectorSize"
  ELSE IF 0 \in {b.sectors_per_cluster, b.reserved_sector_count, b.fat_count,
                 TotalSectors(b), FatSize(b)} THEN "InvalidBootSector"
  ELSE IF TotalSectors(b) < DataFirst(b) THEN "InvalidBootSector"
  ELSE IF TotalClusters(b) < Fat12Clusters THEN "UnsupportedFatType"
  ELSE IF FatType(b) = "Fat32" /\ b.root_cluster < 2 THEN "InvalidBootSector"
  ELSE "none"

Geometry(b) ==
  [fat_type |-> FatType(b),
   sectors_per_cluster |-> b.sectors_per_cluster,
   root_dir_sectors |-> RootSectors(b),
   root_dir_first_sector |-> RootFirst(b),
   data_first_sector |-> DataFirst(b),
   root_cluster |-> IF FatType(b) = "Fat16" THEN 0 ELSE b.root_cluster,
   total_clusters |-> TotalClusters(b)]

NoGeometry ==
  [fat_type |-> "none", sectors_per_cluster |-> 0, root_dir_sectors |-> 0,
   root_dir_first_sector |-> 0, data_first_sector |-> 0, root_cluster |-> 0,
   total_clusters |-> 0]

\* Nothing is assumed of the fields of a disk but that they are numbers, and
\* of the table that it covers the clusters.
ASSUME VolumeAssumption ==
  \A v \in Volumes :
    /\ {v.boot.sectors_per_cluster, v.boot.reserved_sector_count, v.boot.fat_count,
        v.boot.root_dir_entries, v.boot.total_sectors_16, v.boot.total_sectors_32,
        v.boot.fat_size_16, v.boot.fat_size_32, v.boot.root_cluster} \subseteq Nat
    /\ MountError(v.boot) = "none" =>
         \A c \in 2..(TotalClusters(v.boot) + 1) : v.fat[c] \in Nat
    /\ \A s \in DOMAIN v.dirs : \A k \in 1..EntriesPerSector :
         LET e == v.dirs[s][k]
         IN {e.ordinal, e.cluster, e.size} \subseteq Nat /\ {e.last, e.directory} \subseteq BOOLEAN

\* A path is a sequence.
ASSUME PathAssumption ==
  \A p \in Paths : Len(p) \in Nat /\ p = [k \in 1..Len(p) |-> p[k]]

-----------------------------------------------------------------------------
(* Clusters. *)

\* Mutant: one cluster too many.
is_valid_cluster_inclusive(c) == c >= 2 /\ c <= geometry.total_clusters + 2

is_valid_cluster(c) == c >= 2 /\ c < geometry.total_clusters + 2

cluster_first_sector(c) ==
  geometry.data_first_sector + (c - 2) * geometry.sectors_per_cluster

EndOfChain == IF geometry.fat_type = "Fat16" THEN Fat16Eoc ELSE Fat32Eoc
is_end_of_chain(c) == c >= EndOfChain
IsBad(c) == c = EndOfChain - 1

next_cluster(c) ==
  IF geometry.fat_type = "Fat16" THEN volume.fat[c] ELSE volume.fat[c] % Fat32Modulus

-----------------------------------------------------------------------------
(* LongNameState. *)

NoName == [active |-> FALSE, max |-> 0, next |-> 0, sum |-> 0, units |-> <<>>]

\* Mutant: the order of the ordinals is not looked at.
push_unordered(s, e) ==
  LET t == IF e.last THEN [NoName EXCEPT !.active = TRUE, !.max = e.ordinal,
                                         !.next = e.ordinal, !.sum = e.sum]
           ELSE s
  IN IF /\ e.ordinal # 0
        /\ t.active /\ e.ordinal <= t.max /\ e.sum = t.sum
        /\ t.next > 0
        /\ e.ordinal <= MaxOrdinal
     THEN [t EXCEPT !.next = t.next - 1, !.units = <<e.text>> \o t.units]
     ELSE NoName

\* Pieces come last one first; `units` is the name from `next + 1` on.
push(s, e) ==
  LET t == IF e.last THEN [NoName EXCEPT !.active = TRUE, !.max = e.ordinal,
                                         !.next = e.ordinal, !.sum = e.sum]
           ELSE s
  IN IF /\ e.ordinal # 0
        /\ t.active /\ e.ordinal <= t.max /\ e.sum = t.sum
        /\ e.ordinal = t.next
        /\ e.ordinal <= MaxOrdinal
     THEN [t EXCEPT !.next = e.ordinal - 1, !.units = <<e.text>> \o t.units]
     ELSE NoName

\* All pieces are there and belong to this short entry.
matches_entry(s, e) == s.active /\ s.next = 0 /\ s.sum = e.sum

to_utf8_fails(s) == \E k \in DOMAIN s.units : s.units[k] \in Undecodable

NameOf(s, e) == IF matches_entry(s, e) THEN s.units ELSE <<e.text>>

-----------------------------------------------------------------------------
Root == [root |-> TRUE, cluster |-> 0]
ClusterChain(c) == [root |-> FALSE, cluster |-> c]

Init ==
  /\ volume \in Volumes
  /\ pc = "mount"
  /\ geometry = NoGeometry
  /\ path = <<>>
  /\ depth = 1
  /\ directory = Root
  /\ cluster = 0
  /\ sector = 0
  /\ offset = 1
  /\ lfn = NoName
  /\ entry = NoEntry
  /\ buffer = <<>>
  /\ remaining = 0
  /\ sectors = {}
  /\ result = "none"

\* The call returns.
Return(r) == pc' = "done" /\ result' = r

ReadFails == "read" \in MayFail /\ Return("Device")

new ==
  /\ pc = "mount"
  /\ \/ /\ "read" \in MayFail
        /\ result' = "Device"
        /\ pc' = "unmounted"
        /\ UNCHANGED geometry
     \/ /\ MountError(volume.boot) # "none"
        /\ result' = MountError(volume.boot)
        /\ pc' = "unmounted"
        /\ UNCHANGED geometry
     \/ /\ MountError(volume.boot) = "none"
        /\ geometry' = Geometry(volume.boot)
        /\ pc' = "idle"
        /\ UNCHANGED result
  /\ UNCHANGED <<volume, findVars, cluster, loadVars, sectors>>

\* FatVolume::open: find_path_entry starts in the root directory.
open ==
  /\ pc \in {"idle", "done"}
  /\ path' \in Paths
  /\ depth' = 1
  /\ directory' = Root
  /\ entry' = NoEntry
  /\ buffer' = <<>>
  /\ remaining' = 0
  /\ sectors' = {}
  /\ result' = "none"
  /\ pc' = "component"
  /\ UNCHANGED <<diskVars, cluster, sector, offset, lfn>>

IsName == path # <<>> /\ path[depth] \notin {<<".">>, <<"..">>}

\* One turn of the loop over components, and the start of
\* find_directory_entry.
find_path_entry ==
  /\ pc = "component"
  /\ \/ /\ ~IsName
        /\ Return("InvalidPath")
        /\ UNCHANGED <<sector, lfn, cluster>>
     \/ /\ IsName
        /\ sector' = 0
        /\ lfn' = NoName
        /\ cluster' = IF directory.root THEN geometry.root_cluster ELSE directory.cluster
        /\ pc' = "sector"
        /\ UNCHANGED result
  /\ UNCHANGED <<diskVars, path, depth, directory, offset, loadVars, sectors>>

-----------------------------------------------------------------------------
(* find_directory_entry. *)

\* The root directory of a FAT16 volume is a region of its own.
ScansRegion == directory.root /\ geometry.fat_type = "Fat16"

SectorAt ==
  IF ScansRegion THEN geometry.root_dir_first_sector + sector
  ELSE cluster_first_sector(cluster) + sector

MoreSectors ==
  IF ScansRegion THEN sector < geometry.root_dir_sectors
  ELSE sector < geometry.sectors_per_cluster /\ is_valid_cluster(cluster)

read_directory_sector ==
  /\ pc = "sector"
  /\ MoreSectors
  /\ sectors' = {SectorAt}
  /\ \/ /\ offset' = 1
        /\ pc' = "scan"
        /\ UNCHANGED result
     \/ /\ ReadFails
        /\ UNCHANGED offset
  /\ UNCHANGED <<diskVars, path, depth, directory, sector, lfn, cluster, loadVars>>

\* The region or the cluster is through.  A value that is neither a cluster
\* nor the end of the chain ends the directory like an end of chain.
next_directory_cluster ==
  LET next == next_cluster(cluster)
  IN /\ pc = "sector"
     /\ ~MoreSectors
     /\ \/ /\ ScansRegion \/ ~is_valid_cluster(cluster)
           /\ Return("NotFound")
           /\ UNCHANGED <<cluster, sector>>
        \/ /\ ~ScansRegion /\ is_valid_cluster(cluster)
           /\ \/ /\ ReadFails
                 /\ UNCHANGED <<cluster, sector>>
              \/ /\ IsBad(next)
                 /\ Return("InvalidCluster")
                 /\ UNCHANGED <<cluster, sector>>
              \/ /\ is_end_of_chain(next)
                 /\ Return("NotFound")
                 /\ UNCHANGED <<cluster, sector>>
              \/ /\ ~IsBad(next) /\ ~is_end_of_chain(next)
                 /\ cluster' = next
                 /\ sector' = 0
                 /\ UNCHANGED <<pc, result>>
     /\ UNCHANGED <<diskVars, path, depth, directory, offset, lfn, loadVars, sectors>>

\* What find_path_entry does with an entry that was found.
Found(e) ==
  /\ entry' = e
  /\ \/ /\ depth = Len(path)
        /\ pc' = "opened"
        /\ UNCHANGED <<directory, depth, result>>
     \/ /\ depth < Len(path) /\ ~e.directory
        /\ Return("NotDirectory")
        /\ UNCHANGED <<directory, depth>>
     \/ /\ depth < Len(path) /\ e.directory
        /\ directory' = ClusterChain(e.cluster)
        /\ depth' = depth + 1
        /\ pc' = "component"
        /\ UNCHANGED result

Stay == UNCHANGED <<directory, depth, entry, pc, result>>

\* One turn of the loop over the entries of a sector.
scan_directory_sector ==
  LET e == DirSector(SectorAt)[offset]
  IN /\ pc = "scan"
     /\ \/ /\ offset > EntriesPerSector
           /\ sector' = sector + 1
           /\ pc' = "sector"
           /\ UNCHANGED <<offset, lfn, directory, depth, entry, result>>
        \/ /\ offset <= EntriesPerSector
           /\ UNCHANGED sector
           /\ \/ /\ e.kind = "end"
                 /\ lfn' = NoName
                 /\ Return("NotFound")
                 /\ UNCHANGED <<offset, directory, depth, entry>>
              \/ /\ e.kind \in {"deleted", "label"}
                 /\ lfn' = NoName
                 /\ offset' = offset + 1
                 /\ Stay
              \/ /\ e.kind = "long"
                 /\ lfn' = push(lfn, e)
                 /\ offset' = offset + 1
                 /\ Stay
              \/ /\ e.kind = "short"
                 /\ matches_entry(lfn, e) /\ to_utf8_fails(lfn)
                 /\ Return("InvalidLongName")
                 /\ UNCHANGED <<lfn, offset, directory, depth, entry>>
              \/ /\ e.kind = "short"
                 /\ ~(matches_entry(lfn, e) /\ to_utf8_fails(lfn))
                 /\ lfn' = NoName
                 /\ IF NameOf(lfn, e) = path[depth]
                    THEN Found(e) /\ UNCHANGED offset
                    ELSE offset' = offset + 1 /\ Stay
     /\ UNCHANGED <<diskVars, path, cluster, buffer, remaining, sectors>>

-----------------------------------------------------------------------------
(* FatFile::load.  An empty file gets a page too (pages_for_size) and nothing
   is read into it. *)

load_into_allocated_pages ==
  /\ pc = "opened"
  /\ \/ /\ entry.directory
        /\ Return("IsDirectory")
        /\ UNCHANGED <<cluster, remaining>>
     \/ /\ ~entry.directory
        /\ "memory" \in MayFail
        /\ Return("Memory")
        /\ UNCHANGED <<cluster, remaining>>
     \/ /\ ~entry.directory /\ entry.size = 0
        /\ Return("Ok")
        /\ UNCHANGED <<cluster, remaining>>
     \/ /\ ~entry.directory /\ entry.size > 0
        /\ ~is_valid_cluster(entry.cluster)
        /\ Return("InvalidCluster")
        /\ UNCHANGED <<cluster, remaining>>
     \/ /\ ~entry.directory /\ entry.size > 0
        /\ is_valid_cluster(entry.cluster)
        /\ cluster' = entry.cluster
        /\ remaining' = entry.size
        /\ pc' = "read"
        /\ UNCHANGED result
  /\ UNCHANGED <<diskVars, findVars, entry, buffer, sectors>>

\* The first n bytes from sector s on.
Bytes(s, n) == [k \in 1..n |-> <<s + (k - 1) \div SectorSize, (k - 1) % SectorSize>>]

\* One turn of the loop of read_file_contents.  In a cluster: as many whole
\* sectors as are wanted, and a part of the one behind them.
full_sectors == Min(remaining \div SectorSize, geometry.sectors_per_cluster)

\* Mutant: the tail is not looked for behind the whole sectors.
tail_sector_first == cluster_first_sector(cluster)

tail_sector == cluster_first_sector(cluster) + full_sectors

\* Mutant: only whole sectors are read.
tail_len_none == 0

tail_len ==
  IF full_sectors < geometry.sectors_per_cluster
  THEN Min(remaining - full_sectors * SectorSize, SectorSize)
  ELSE 0

\* Mutant: the bytes of the tail are not counted.
Delivered_without_tail == full_sectors * SectorSize

Delivered == full_sectors * SectorSize + tail_len

SectorsWanted ==
  cluster_first_sector(cluster)..(cluster_first_sector(cluster) + full_sectors - 1)
    \cup (IF tail_len > 0 THEN {tail_sector} ELSE {})

read_file_contents ==
  LET next == next_cluster(cluster)
  IN /\ pc = "read"
     /\ \/ /\ ~is_valid_cluster(cluster)
           /\ Return("InvalidCluster")
           /\ UNCHANGED <<buffer, remaining, cluster, sectors>>
        \/ /\ is_valid_cluster(cluster)
           /\ sectors' = SectorsWanted
           /\ ReadFails
           /\ UNCHANGED <<buffer, remaining, cluster>>
        \/ /\ is_valid_cluster(cluster)
           /\ sectors' = SectorsWanted
           /\ buffer' = buffer \o Bytes(cluster_first_sector(cluster), full_sectors * SectorSize)
                               \o Bytes(tail_sector, tail_len)
           /\ remaining' = remaining - Delivered
           /\ \/ /\ remaining' = 0
                 /\ Return("Ok")
                 /\ UNCHANGED cluster
              \/ /\ remaining' # 0
                 /\ \/ /\ ReadFails
                       /\ UNCHANGED cluster
                    \/ /\ IsBad(next)
                       /\ Return("InvalidCluster")
                       /\ UNCHANGED cluster
                    \/ /\ is_end_of_chain(next)
                       /\ Return("ChainTooShort")
                       /\ UNCHANGED cluster
                    \/ /\ ~IsBad(next) /\ ~is_end_of_chain(next)
                       /\ cluster' = next
                       /\ UNCHANGED <<pc, result>>
     /\ UNCHANGED <<diskVars, findVars, entry>>

-----------------------------------------------------------------------------
Step ==
  \/ find_path_entry
  \/ read_directory_sector
  \/ next_directory_cluster
  \/ scan_directory_sector
  \/ load_into_allocated_pages
  \/ read_file_contents

\* No volume, no calls.
Unmounted == pc = "unmounted" /\ UNCHANGED vars

Next == new \/ open \/ Step \/ Unmounted

Spec == Init /\ [][Next]_vars

\* A call that has begun goes on; nobody has to make one.
FairSpec == Spec /\ WF_vars(Step)

-----------------------------------------------------------------------------
(* What the reader should compute, from the disk as a whole. *)

\* The values met along a chain; one that is no cluster is repeated.
ChainFrom(c, n) ==
  LET at[k \in 0..n] ==
        IF k = 0 THEN c
        ELSE IF is_valid_cluster(at[k - 1]) THEN next_cluster(at[k - 1])
        ELSE at[k - 1]
  IN at

\* The sectors of a directory, in order.
DirectorySectors(d) ==
  LET spc == geometry.sectors_per_cluster
      from == IF d.root THEN geometry.root_cluster ELSE d.cluster
      at == ChainFrom(from, geometry.total_clusters)
      \* where the chain ends, or everything if it does not
      length == CHOOSE n \in 0..geometry.total_clusters :
                  /\ \A k \in 0..(n - 1) : is_valid_cluster(at[k])
                  /\ n < geometry.total_clusters => ~is_valid_cluster(at[n])
  IN IF d.root /\ geometry.fat_type = "Fat16"
     THEN [k \in 1..geometry.root_dir_sectors |-> geometry.root_dir_first_sector + k - 1]
     ELSE [k \in 1..(length * spc) |->
             cluster_first_sector(at[(k - 1) \div spc]) + ((k - 1) % spc)]

Listing(d) ==
  LET s == DirectorySectors(d)
      n == EntriesPerSector
  IN [k \in 1..(Len(s) * n) |-> DirSector(s[(k - 1) \div n + 1])[((k - 1) % n) + 1]]

\* The k entries in front of short entry p spell its long name.
LongNameOf(l, p, k) ==
  /\ k \in 1..MaxOrdinal /\ k < p
  /\ \A j \in 1..k : /\ l[p - j].kind = "long"
                     /\ l[p - j].ordinal = j
                     /\ l[p - j].sum = l[p].sum
                     /\ l[p - j].last = (j = k)

EntryName(l, p) ==
  IF \E k \in 1..MaxOrdinal : LongNameOf(l, p, k)
  THEN LET k == CHOOSE k \in 1..MaxOrdinal : LongNameOf(l, p, k)
       IN [j \in 1..k |-> l[p - j].text]
  ELSE <<l[p].text>>

Named(l, name) ==
  {p \in DOMAIN l : /\ l[p].kind = "short"
                    /\ \A q \in 1..p : l[q].kind # "end"
                    /\ EntryName(l, p) = name}

Lookup(d, name) ==
  LET l == Listing(d)
      hits == Named(l, name)
  IN IF hits = {} THEN NoEntry
     ELSE l[CHOOSE p \in hits : \A q \in hits : p <= q]

\* The entry each prefix of the path leads to, or NoEntry.
Resolved ==
  LET at[k \in 0..Len(path)] ==
        IF k = 0 THEN [NoEntry EXCEPT !.directory = TRUE]
        ELSE IF ~at[k - 1].directory THEN NoEntry
        ELSE Lookup(IF k = 1 THEN Root ELSE ClusterChain(at[k - 1].cluster), path[k])
  IN at[Len(path)]

-----------------------------------------------------------------------------
(* Properties. *)

\* The shape of the state; in particular the buffer slices of
\* read_file_contents stay inside the file's size.
TypeOK ==
  /\ pc \in {"mount", "unmounted", "idle", "component", "sector", "scan", "opened",
             "read", "done"}
  /\ depth \in 1..(Len(path) + 1)
  /\ offset \in 1..(EntriesPerSector + 1)
  /\ lfn.next \in 0..MaxOrdinal /\ Len(lfn.units) = lfn.max - lfn.next
  /\ Len(buffer) <= entry.size
  /\ remaining \in 0..entry.size

\* No cluster has the number of a marker: with the numbers of the format
\* always so on FAT16, and on FAT32 below 2^28 - 10 clusters.
MarkersAreFree ==
  \A v \in Volumes :
    MountError(v.boot) = "none" =>
      TotalClusters(v.boot) + 2 < IF FatType(v.boot) = "Fat16" THEN Fat16Eoc ELSE Fat32Eoc

\* The chain of the directory that is being scanned has an end; one that runs
\* in a circle is scanned for ever.
DirectoryEnds ==
  pc \in {"sector", "scan"} /\ ~ScansRegion =>
    LET from == IF directory.root THEN geometry.root_cluster ELSE directory.cluster
    IN \E n \in 0..geometry.total_clusters :
         ~is_valid_cluster(ChainFrom(from, geometry.total_clusters)[n])

\* open finds the first entry of that name in each directory of the path, long
\* names spread over sectors and clusters included, and reports a missing one
\* only when there is none.
OpenIsExact ==
  /\ pc = "opened" => entry = Resolved
  /\ pc = "done" /\ result \in {"NotFound", "NotDirectory"} => Resolved = NoEntry

\* A load that returns Ok delivers the bytes along the chain, in order, none
\* for an empty file, and one that calls the chain too short met its end before
\* the size was reached.
LoadIsExact ==
  LET spc == geometry.sectors_per_cluster
      bytes == spc * SectorSize
      need == CeilDiv(entry.size, bytes)
      at == ChainFrom(entry.cluster, need)
  IN /\ pc = "done" /\ result = "Ok" =>
          /\ Len(buffer) = entry.size
          /\ \A k \in DOMAIN buffer :
               buffer[k] = <<cluster_first_sector(at[(k - 1) \div bytes])
                               + ((k - 1) % bytes) \div SectorSize,
                             (k - 1) % SectorSize>>
     /\ pc = "done" /\ result = "ChainTooShort" =>
          \E k \in 1..(need - 1) : is_end_of_chain(at[k])

\* No directory or file is read from the boot sector, from the tables or from
\* behind the end of the volume, whatever the table holds and for every boot
\* sector whose table sizes and sector counts do not overflow 32 bits.
ReadsInsideVolume ==
  sectors \subseteq geometry.root_dir_first_sector..(TotalSectors(volume.boot) - 1)

\* A call returns, also when the chain of a file runs in a circle.
CallsEnd == (pc \in {"component", "sector", "scan", "opened", "read"}) ~> (pc = "done")
=============================================================================
