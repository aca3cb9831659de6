------------------------------ MODULE FatProofs ------------------------------
(***************************************************************************)
(* What the FAT reader guarantees on every volume, whatever its boot       *)
(* sector, its table and its directories hold: it reads no sector outside  *)
(* the root directory and the clusters, it stays inside its buffers, a     *)
(* file it loads is the bytes along its chain of clusters, and what it     *)
(* opens is what the path names: the scan of a directory, sector by sector *)
(* along its chain, with the pieces of a long name collected on the way,   *)
(* is a search in the listing of the directory.                            *)
(***************************************************************************)
EXTENDS Fat, WellFoundedInduction, TLAPS

\* Everything a piece of a name may be.
TextsAt(v, s) == {v.dirs[s][k].text : k \in 1..EntriesPerSector}
TextsOf(v) == UNION {TextsAt(v, s) : s \in DOMAIN v.dirs}
Text == {""} \cup UNION {TextsOf(v) : v \in Volumes}

\* A volume in use passed the checks of new.
Mounted ==
  /\ volume \in Volumes
  /\ pc \in {"mount", "unmounted"} => sectors = {}
  /\ pc \notin {"mount", "unmounted"} =>
       MountError(volume.boot) = "none" /\ geometry = Geometry(volume.boot)

\* LongNameState: the pieces from next + 1 to max are there.
NameSound(s) ==
  /\ s = [active |-> s.active, max |-> s.max, next |-> s.next, sum |-> s.sum, units |-> s.units]
  /\ s.max \in Nat /\ s.next \in 0..MaxOrdinal
  /\ s.units \in Seq(Text)
  /\ Len(s.units) = s.max - s.next

Scanning ==
  /\ pc \in {"mount", "unmounted", "idle", "component", "sector", "scan", "opened",
             "read", "done"}
  /\ Len(path) \in Nat
  /\ depth \in 1..(Len(path) + 1)
  /\ offset \in 1..(EntriesPerSector + 1)
  /\ cluster \in Nat /\ sector \in Nat /\ directory.cluster \in Nat
  /\ NameSound(lfn)

\* What read_file_contents has delivered and has to deliver is the file.
Loading ==
  /\ entry.size \in Nat /\ entry.cluster \in Nat
  /\ buffer \in Seq(Int \X Int) /\ remaining \in Nat
  /\ pc \notin {"read", "done"} => buffer = <<>> /\ remaining = 0
  /\ pc = "read" => Len(buffer) + remaining = entry.size
  /\ Len(buffer) + remaining <= entry.size

IndInv == Mounted /\ Scanning /\ Loading /\ ReadsInsideVolume

-----------------------------------------------------------------------------
(* The geometry of a volume. *)

LEMMA DivBounds ==
  ASSUME NEW x \in Nat, NEW p \in Nat \ {0}
  PROVE  /\ x \div p \in Nat
         /\ p * (x \div p) <= x
         /\ x < p * (x \div p) + p
  OBVIOUS

LEMMA Sizes ==
  /\ SectorSize \in Nat \ {0} /\ DirEntrySize \in Nat \ {0} /\ MaxOrdinal \in Nat \ {0}
  /\ Fat32Modulus \in Nat \ {0}
  /\ EntriesPerSector \in Nat
  BY SizeAssumption, DivBounds DEF EntriesPerSector

LEMMA BootTyped ==
  ASSUME volume \in Volumes
  PROVE  LET b == volume.boot
         IN /\ b.sectors_per_cluster \in Nat /\ b.root_cluster \in Nat
            /\ TotalSectors(b) \in Nat /\ RootFirst(b) \in Nat /\ RootSectors(b) \in Nat
            /\ DataFirst(b) = RootFirst(b) + RootSectors(b) /\ DataFirst(b) \in Nat
<1> DEFINE b == volume.boot
<1>1. /\ b.sectors_per_cluster \in Nat /\ b.reserved_sector_count \in Nat
      /\ b.fat_count \in Nat /\ b.root_dir_entries \in Nat /\ b.total_sectors_16 \in Nat
      /\ b.total_sectors_32 \in Nat /\ b.fat_size_16 \in Nat /\ b.fat_size_32 \in Nat
      /\ b.root_cluster \in Nat
  BY VolumeAssumption
<1> HIDE DEF b
<1>2. TotalSectors(b) \in Nat /\ FatSize(b) \in Nat
  BY <1>1 DEF TotalSectors, FatSize
<1>3. RootFirst(b) \in Nat
  BY <1>1, <1>2 DEF RootFirst
<1>4. RootSectors(b) \in Nat
  <2> DEFINE x == b.root_dir_entries * DirEntrySize + SectorSize - 1
  <2>1. b.root_dir_entries * DirEntrySize \in Nat
    BY <1>1, Sizes
  <2>2. x \in Nat
    BY <2>1, Sizes
  <2>3. RootSectors(b) = x \div SectorSize
    BY DEF RootSectors, CeilDiv
  <2> HIDE DEF x
  <2> QED BY <2>2, <2>3, Sizes, DivBounds
<1>5. DataFirst(b) = RootFirst(b) + RootSectors(b) /\ DataFirst(b) \in Nat
  BY <1>3, <1>4 DEF DataFirst
<1> QED BY <1>1, <1>2, <1>3, <1>4, <1>5 DEF b

\* The root directory and the clusters of a mounted volume lie inside it.
LEMMA GeometryFits ==
  ASSUME Mounted, pc \notin {"mount", "unmounted"}
  PROVE  LET total == TotalSectors(volume.boot)
         IN /\ total \in Nat
            /\ geometry.sectors_per_cluster \in Nat \ {0}
            /\ geometry.root_dir_first_sector \in Nat /\ geometry.root_dir_sectors \in Nat
            /\ geometry.data_first_sector \in Nat /\ geometry.total_clusters \in Nat
            /\ geometry.root_cluster \in Nat
            /\ geometry.data_first_sector
                 = geometry.root_dir_first_sector + geometry.root_dir_sectors
            /\ geometry.data_first_sector
                 + geometry.total_clusters * geometry.sectors_per_cluster <= total
<1> DEFINE b == volume.boot
           spc == b.sectors_per_cluster
           total == TotalSectors(b)
           x == total - DataFirst(b)
<1>1. MountError(b) = "none" /\ geometry = Geometry(b) /\ volume \in Volumes
  BY DEF Mounted
<1>2. /\ spc \in Nat /\ b.root_cluster \in Nat
      /\ total \in Nat /\ RootFirst(b) \in Nat /\ RootSectors(b) \in Nat
      /\ DataFirst(b) = RootFirst(b) + RootSectors(b) /\ DataFirst(b) \in Nat
  BY <1>1, BootTyped
<1>3. spc # 0 /\ ~(total < DataFirst(b))
  BY <1>1 DEF MountError
<1>4. x \in Nat /\ TotalClusters(b) = x \div spc
  BY <1>2, <1>3 DEF TotalClusters
<1>5. /\ geometry.sectors_per_cluster = spc
      /\ geometry.root_dir_first_sector = RootFirst(b)
      /\ geometry.root_dir_sectors = RootSectors(b)
      /\ geometry.data_first_sector = DataFirst(b)
      /\ geometry.total_clusters = TotalClusters(b)
      /\ geometry.root_cluster \in {0, b.root_cluster}
  BY <1>1 DEF Geometry
<1> HIDE DEF x, spc, b, total
<1>6. TotalClusters(b) \in Nat /\ spc * TotalClusters(b) <= x
  BY <1>2, <1>3, <1>4, DivBounds
<1>7. TotalClusters(b) * spc <= x
  BY <1>2, <1>6
<1>8. DataFirst(b) + TotalClusters(b) * spc <= total
  <2>1. TotalClusters(b) * spc \in Nat
    BY <1>2, <1>6
  <2> QED BY <1>2, <1>4, <1>7, <2>1 DEF x
<1> QED BY <1>2, <1>3, <1>5, <1>6, <1>8 DEF b, total, spc

\* So do the sectors of a valid cluster.
LEMMA ClusterFits ==
  ASSUME Mounted, pc \notin {"mount", "unmounted"}, NEW c \in Nat, is_valid_cluster(c),
         NEW k \in Nat, k < geometry.sectors_per_cluster
  PROVE  /\ cluster_first_sector(c) \in Nat
         /\ cluster_first_sector(c) + k
              \in geometry.root_dir_first_sector..(TotalSectors(volume.boot) - 1)
<1> DEFINE spc == geometry.sectors_per_cluster
           data == geometry.data_first_sector
           n == geometry.total_clusters
           total == TotalSectors(volume.boot)
<1>1. /\ total \in Nat /\ spc \in Nat \ {0} /\ data \in Nat /\ n \in Nat
      /\ geometry.root_dir_first_sector \in Nat /\ geometry.root_dir_sectors \in Nat
      /\ data = geometry.root_dir_first_sector + geometry.root_dir_sectors
      /\ data + n * spc <= total
  BY GeometryFits
<1>2. c - 2 \in Nat /\ (c - 2) + 1 <= n
  BY <1>1 DEF is_valid_cluster
<1> DEFINE m == c - 2
<1>3. cluster_first_sector(c) = data + m * spc
  BY DEF cluster_first_sector
<1> HIDE DEF m, spc, data, n, total
<1>4. m \in Nat /\ m + 1 <= n
  BY <1>2 DEF m
<1>5. m * spc + spc <= n * spc
  <2>1. spc * (m + 1) <= spc * n
    BY <1>1, <1>4
  <2>2. spc * (m + 1) = m * spc + spc /\ spc * n = n * spc
    BY <1>1, <1>4
  <2> QED BY <2>1, <2>2
<1>6. m * spc \in Nat /\ n * spc \in Nat /\ k < spc
  BY <1>1, <1>4 DEF spc
<1>7. /\ data + m * spc \in Nat
      /\ geometry.root_dir_first_sector <= data + m * spc + k
      /\ data + m * spc + k <= total - 1
  BY <1>1, <1>5, <1>6
<1>8. data + m * spc + k \in Int
  BY <1>1, <1>6
<1> QED BY <1>1, <1>3, <1>7, <1>8 DEF total

\* The table holds a number for every cluster.
LEMMA NextTyped ==
  ASSUME Mounted, pc \notin {"mount", "unmounted"}, NEW c \in Nat, is_valid_cluster(c)
  PROVE  next_cluster(c) \in Nat
<1>1. /\ MountError(volume.boot) = "none" /\ volume \in Volumes
      /\ geometry.total_clusters = TotalClusters(volume.boot)
  BY DEF Mounted, Geometry
<1>2. geometry.total_clusters \in Nat
  BY GeometryFits
<1>3. c \in 2..(TotalClusters(volume.boot) + 1)
  BY <1>1, <1>2 DEF is_valid_cluster
<1>4. volume.fat[c] \in Nat
  BY <1>1, <1>3, VolumeAssumption
<1>5. volume.fat[c] % Fat32Modulus \in Nat
  BY <1>4, Sizes
<1> QED BY <1>4, <1>5 DEF next_cluster

\* A directory entry as it comes from the disk.
LEMMA EntryTyped ==
  ASSUME volume \in Volumes, NEW s, NEW k \in 1..EntriesPerSector
  PROVE  LET e == DirSector(s)[k]
         IN /\ e.ordinal \in Nat /\ e.cluster \in Nat /\ e.size \in Nat
            /\ e.text \in Text
<1>1. CASE s \in DOMAIN volume.dirs
  <2> DEFINE e == volume.dirs[s][k]
  <2>1. DirSector(s)[k] = e
    BY <1>1 DEF DirSector
  <2>2. {e.ordinal, e.cluster, e.size} \subseteq Nat
    BY <1>1, VolumeAssumption, Zenon
  <2>3. e.text \in Text
    <3>1. e.text \in TextsAt(volume, s)
      BY DEF TextsAt
    <3>2. TextsAt(volume, s) \subseteq TextsOf(volume)
      BY <1>1 DEF TextsOf
    <3>3. TextsOf(volume) \subseteq Text
      BY DEF Text
    <3> QED BY <3>1, <3>2, <3>3
  <2> HIDE DEF e
  <2> QED BY <2>1, <2>2, <2>3
<1>2. CASE s \notin DOMAIN volume.dirs
  BY <1>2 DEF DirSector, NoEntry, Text
<1> QED BY <1>1, <1>2

-----------------------------------------------------------------------------
(* The steps. *)

LEMMA NoNameSound == NameSound(NoName)
<1>1. <<>> \in Seq(Text) /\ Len(<<>>) = 0
  OBVIOUS
<1> QED BY <1>1, Sizes DEF NameSound, NoName

LEMMA PushSound ==
  ASSUME NEW s, NameSound(s), NEW e, e.ordinal \in Nat, e.text \in Text
  PROVE  NameSound(push(s, e))
<1> DEFINE t == IF e.last THEN [NoName EXCEPT !.active = TRUE, !.max = e.ordinal,
                                              !.next = e.ordinal, !.sum = e.sum]
                ELSE s
<1>1. /\ t = [active |-> t.active, max |-> t.max, next |-> t.next, sum |-> t.sum,
              units |-> t.units]
      /\ t.max \in Nat /\ t.next \in Nat /\ t.units \in Seq(Text)
      /\ Len(t.units) = t.max - t.next
  <2>1. CASE e.last
    <3>1. t = [active |-> TRUE, max |-> e.ordinal, next |-> e.ordinal, sum |-> e.sum,
               units |-> <<>>]
      BY <2>1 DEF NoName
    <3>2. <<>> \in Seq(Text) /\ Len(<<>>) = 0
      OBVIOUS
    <3> HIDE DEF t
    <3> QED BY <3>1, <3>2
  <2>2. CASE ~e.last
    BY <2>2, Sizes DEF NameSound
  <2> QED BY <2>1, <2>2
<1>2. \/ push(s, e) = NoName
      \/ /\ e.ordinal # 0 /\ e.ordinal = t.next /\ e.ordinal <= MaxOrdinal
         /\ push(s, e) = [t EXCEPT !.next = e.ordinal - 1, !.units = <<e.text>> \o t.units]
  BY Zenon DEF push
<1> HIDE DEF t
<1>3. ASSUME e.ordinal # 0, e.ordinal = t.next, e.ordinal <= MaxOrdinal,
             push(s, e) = [t EXCEPT !.next = e.ordinal - 1, !.units = <<e.text>> \o t.units]
      PROVE  NameSound(push(s, e))
  <2> DEFINE p == push(s, e)
             u == <<e.text>> \o t.units
  <2>1. p = [active |-> t.active, max |-> t.max, next |-> e.ordinal - 1, sum |-> t.sum,
             units |-> u]
    BY <1>1, <1>3
  <2>2. u \in Seq(Text) /\ Len(u) = 1 + Len(t.units)
    BY <1>1
  <2> HIDE DEF u, p
  <2>3. Len(u) = t.max - (e.ordinal - 1) /\ e.ordinal - 1 \in 0..MaxOrdinal
    BY <1>1, <1>3, <2>2, Sizes
  <2>4. NameSound(p)
    BY <1>1, <2>1, <2>2, <2>3 DEF NameSound
  <2> QED BY <2>4 DEF p
<1> QED BY <1>2, <1>3, NoNameSound

LEMMA InitInv == Init => IndInv
<1> SUFFICES ASSUME Init PROVE IndInv
  OBVIOUS
<1>1. Mounted
  BY DEF Init, Mounted
<1>2. Scanning
  <2>1. Len(<<>>) = 0 /\ Root.cluster = 0
    BY DEF Root
  <2> QED BY <2>1, Sizes, NoNameSound DEF Init, Scanning
<1>3. Loading
  <2>1. Len(<<>>) = 0 /\ <<>> \in Seq(Int \X Int) /\ NoEntry.size = 0 /\ NoEntry.cluster = 0
    BY DEF NoEntry
  <2> QED BY <2>1 DEF Init, Loading
<1>4. ReadsInsideVolume
  BY DEF Init, ReadsInsideVolume
<1> QED BY <1>1, <1>2, <1>3, <1>4 DEF IndInv

LEMMA NewInv ==
  ASSUME IndInv, new
  PROVE  IndInv'
<1>1. /\ pc = "mount" /\ pc' \in {"unmounted", "idle"} /\ sectors = {}
      /\ UNCHANGED <<volume, path, depth, directory, sector, offset, lfn, cluster,
                     entry, buffer, remaining, sectors>>
  BY DEF new, findVars, loadVars, IndInv, Mounted
<1>2. Mounted'
  BY <1>1 DEF new, IndInv, Mounted
<1>3. Scanning'
  BY <1>1 DEF IndInv, Scanning
<1>4. Loading'
  BY <1>1 DEF IndInv, Loading
<1>5. ReadsInsideVolume'
  BY <1>1 DEF ReadsInsideVolume
<1> QED BY <1>2, <1>3, <1>4, <1>5 DEF IndInv

LEMMA OpenInv ==
  ASSUME IndInv, open
  PROVE  IndInv'
<1>1. /\ pc' = "component" /\ pc \in {"idle", "done"} /\ path' \in Paths /\ depth' = 1
      /\ directory' = Root /\ entry' = NoEntry /\ buffer' = <<>> /\ remaining' = 0
      /\ sectors' = {}
      /\ UNCHANGED <<volume, geometry, cluster, sector, offset, lfn>>
  BY DEF open, diskVars
<1>2. Mounted'
  BY <1>1 DEF IndInv, Mounted
<1>3. Scanning'
  <2>1. Len(path') \in Nat /\ Root.cluster = 0
    BY <1>1, PathAssumption DEF Root
  <2> QED BY <1>1, <2>1 DEF IndInv, Scanning
<1>4. Loading'
  <2>1. Len(<<>>) = 0 /\ <<>> \in Seq(Int \X Int) /\ NoEntry.size = 0 /\ NoEntry.cluster = 0
    BY DEF NoEntry
  <2> QED BY <1>1, <2>1 DEF Loading
<1>5. ReadsInsideVolume'
  BY <1>1 DEF ReadsInsideVolume
<1> QED BY <1>2, <1>3, <1>4, <1>5 DEF IndInv

\* Between two loads nothing is in the buffer.
LEMMA LoadingKept ==
  ASSUME Loading, pc \notin {"read", "done"}, pc' # "read", UNCHANGED <<entry, buffer, remaining>>
  PROVE  Loading'
  BY DEF Loading

LEMMA FindInv ==
  ASSUME IndInv, find_path_entry
  PROVE  IndInv'
<1>1. /\ pc = "component" /\ pc' \in {"done", "sector"}
      /\ UNCHANGED <<volume, geometry, path, depth, directory, offset, entry, buffer,
                     remaining, sectors>>
  BY DEF find_path_entry, Return, diskVars, loadVars
<1>2. Mounted'
  BY <1>1 DEF IndInv, Mounted
<1>3. geometry.root_cluster \in Nat
  BY <1>1, GeometryFits DEF IndInv
<1>4. cluster' \in Nat /\ sector' \in Nat /\ NameSound(lfn)'
  <2>1. cluster \in Nat /\ sector \in Nat /\ directory.cluster \in Nat /\ NameSound(lfn)
    BY DEF IndInv, Scanning
  <2>2. CASE UNCHANGED <<sector, lfn, cluster>>
    BY <2>1, <2>2
  <2>3. CASE /\ sector' = 0 /\ lfn' = NoName
             /\ cluster' = IF directory.root THEN geometry.root_cluster ELSE directory.cluster
    BY <1>3, <2>1, <2>3, NoNameSound
  <2> QED BY <2>2, <2>3 DEF find_path_entry
<1>5. Scanning'
  BY <1>1, <1>4 DEF IndInv, Scanning
<1>6. Loading'
  BY <1>1, LoadingKept DEF IndInv
<1>7. ReadsInsideVolume'
  BY <1>1 DEF IndInv, ReadsInsideVolume
<1> QED BY <1>2, <1>5, <1>6, <1>7 DEF IndInv

LEMMA ReadDirectoryInv ==
  ASSUME IndInv, read_directory_sector
  PROVE  IndInv'
<1>1. /\ pc = "sector" /\ pc' \in {"done", "scan"} /\ MoreSectors /\ sectors' = {SectorAt}
      /\ offset' \in {1, offset}
      /\ UNCHANGED <<volume, geometry, path, depth, directory, sector, lfn, cluster,
                     entry, buffer, remaining>>
  BY DEF read_directory_sector, ReadFails, Return, diskVars, loadVars
<1>2. Mounted'
  BY <1>1 DEF IndInv, Mounted
<1>3. Scanning'
  BY <1>1, Sizes DEF IndInv, Scanning
<1>4. Loading'
  BY <1>1, LoadingKept DEF IndInv
<1>5. SectorAt \in geometry.root_dir_first_sector..(TotalSectors(volume.boot) - 1)
  <2>1. Mounted /\ sector \in Nat /\ cluster \in Nat
    BY DEF IndInv, Scanning
  <2>2. CASE ScansRegion
    <3>1. sector < geometry.root_dir_sectors /\ SectorAt = geometry.root_dir_first_sector + sector
      BY <1>1, <2>2 DEF MoreSectors, SectorAt
    <3> DEFINE more == geometry.total_clusters * geometry.sectors_per_cluster
    <3>2. /\ TotalSectors(volume.boot) \in Nat
          /\ geometry.root_dir_first_sector \in Nat /\ geometry.root_dir_sectors \in Nat
          /\ geometry.root_dir_first_sector + geometry.root_dir_sectors + more
               <= TotalSectors(volume.boot)
          /\ more \in Nat
      <4>1. geometry.total_clusters \in Nat /\ geometry.sectors_per_cluster \in Nat
        BY <1>1, <2>1, GeometryFits
      <4>2. more \in Nat
        BY <4>1
      <4> QED BY <1>1, <2>1, <4>2, GeometryFits
    <3> HIDE DEF more
    <3> QED BY <2>1, <3>1, <3>2
  <2>3. CASE ~ScansRegion
    <3>1. /\ sector < geometry.sectors_per_cluster /\ is_valid_cluster(cluster)
          /\ SectorAt = cluster_first_sector(cluster) + sector
      BY <1>1, <2>3 DEF MoreSectors, SectorAt
    <3> QED BY <1>1, <2>1, <3>1, ClusterFits
  <2> QED BY <2>2, <2>3
<1>6. ReadsInsideVolume'
  BY <1>1, <1>5 DEF ReadsInsideVolume
<1> QED BY <1>2, <1>3, <1>4, <1>6 DEF IndInv

LEMMA NextClusterInv ==
  ASSUME IndInv, next_directory_cluster
  PROVE  IndInv'
<1>1. /\ pc = "sector" /\ pc' \in {"done", "sector"}
      /\ UNCHANGED <<volume, geometry, path, depth, directory, offset, lfn, entry, buffer,
                     remaining, sectors>>
  BY DEF next_directory_cluster, Return, ReadFails, diskVars, loadVars
<1>2. \/ UNCHANGED <<cluster, sector>>
      \/ is_valid_cluster(cluster) /\ cluster' = next_cluster(cluster) /\ sector' = 0
  BY DEF next_directory_cluster
<1>3. cluster' \in Nat /\ sector' \in Nat
  <2>1. cluster \in Nat /\ sector \in Nat /\ Mounted
    BY DEF IndInv, Scanning
  <2>2. is_valid_cluster(cluster) => next_cluster(cluster) \in Nat
    BY <1>1, <2>1, NextTyped
  <2> QED BY <1>2, <2>1, <2>2
<1>4. Mounted'
  BY <1>1 DEF IndInv, Mounted
<1>5. Scanning'
  BY <1>1, <1>3 DEF IndInv, Scanning
<1>6. Loading'
  BY <1>1, LoadingKept DEF IndInv
<1>7. ReadsInsideVolume'
  BY <1>1 DEF IndInv, ReadsInsideVolume
<1> QED BY <1>4, <1>5, <1>6, <1>7 DEF IndInv

\* What a turn of the entry loop may do to the search.
LEMMA ScanInv ==
  ASSUME IndInv, scan_directory_sector
  PROVE  IndInv'
<1> DEFINE e == DirSector(SectorAt)[offset]
<1>1. /\ pc = "scan"
      /\ UNCHANGED <<volume, geometry, path, cluster, buffer, remaining, sectors>>
  BY DEF scan_directory_sector, diskVars
<1>2. /\ volume \in Volumes /\ Len(path) \in Nat /\ depth \in 1..(Len(path) + 1)
      /\ offset \in 1..(EntriesPerSector + 1) /\ sector \in Nat /\ directory.cluster \in Nat
      /\ NameSound(lfn) /\ entry.size \in Nat /\ entry.cluster \in Nat
      /\ buffer = <<>> /\ remaining = 0
  BY <1>1 DEF IndInv, Mounted, Scanning, Loading
<1>3. ASSUME offset <= EntriesPerSector
      PROVE  /\ e.ordinal \in Nat /\ e.cluster \in Nat /\ e.size \in Nat /\ e.text \in Text
  <2>1. offset \in 1..EntriesPerSector
    BY <1>2, <1>3, Sizes
  <2> QED BY <1>2, <2>1, EntryTyped
<1> HIDE DEF e
<1>4. CASE /\ offset > EntriesPerSector
           /\ sector' = sector + 1
           /\ pc' = "sector"
           /\ UNCHANGED <<offset, lfn, directory, depth, entry, result>>
  <2>1. Scanning'
    BY <1>1, <1>2, <1>4 DEF IndInv, Scanning
  <2>2. Loading'
    BY <1>1, <1>4, LoadingKept DEF IndInv
  <2>3. Mounted' /\ ReadsInsideVolume'
    BY <1>1, <1>4 DEF IndInv, Mounted, ReadsInsideVolume
  <2> QED BY <2>1, <2>2, <2>3 DEF IndInv
<1>5. CASE offset <= EntriesPerSector /\ UNCHANGED sector
           /\ UNCHANGED entry
           /\ pc' \in {"done", "scan"}
           /\ lfn' \in {NoName, lfn, push(lfn, e)}
           /\ offset' \in {offset, offset + 1}
           /\ UNCHANGED <<directory, depth>>
  <2>1. NameSound(lfn')
    BY <1>2, <1>3, <1>5, NoNameSound, PushSound
  <2>2. offset' \in 1..(EntriesPerSector + 1)
    BY <1>2, <1>5, Sizes
  <2>3. Scanning'
    BY <1>1, <1>2, <1>5, <2>1, <2>2 DEF IndInv, Scanning
  <2>4. Loading'
    BY <1>1, <1>5, LoadingKept DEF IndInv
  <2>5. Mounted' /\ ReadsInsideVolume'
    BY <1>1, <1>5 DEF IndInv, Mounted, ReadsInsideVolume
  <2> QED BY <2>3, <2>4, <2>5 DEF IndInv
<1>6. CASE offset <= EntriesPerSector /\ UNCHANGED <<sector, offset>>
           /\ lfn' = NoName /\ Found(e)
  <2>1. /\ entry' = e /\ pc' \in {"opened", "done", "component"}
        /\ \/ UNCHANGED <<directory, depth>>
           \/ depth < Len(path) /\ directory' = ClusterChain(e.cluster) /\ depth' = depth + 1
    BY <1>6 DEF Found, Return
  <2>2. directory'.cluster \in Nat /\ depth' \in 1..(Len(path) + 1)
    BY <1>2, <1>3, <1>6, <2>1 DEF ClusterChain
  <2>3. Scanning'
    BY <1>1, <1>2, <1>6, <2>1, <2>2, NoNameSound DEF IndInv, Scanning
  <2>4. Loading'
    <3>1. Len(<<>>) = 0 /\ <<>> \in Seq(Int \X Int)
      OBVIOUS
    <3> QED BY <1>1, <1>2, <1>3, <1>6, <2>1, <3>1 DEF Loading
  <2>5. Mounted' /\ ReadsInsideVolume'
    BY <1>1, <2>1 DEF IndInv, Mounted, ReadsInsideVolume
  <2> QED BY <2>3, <2>4, <2>5 DEF IndInv
<1>7. \/ /\ offset > EntriesPerSector
         /\ sector' = sector + 1
         /\ pc' = "sector"
         /\ UNCHANGED <<offset, lfn, directory, depth, entry, result>>
      \/ /\ offset <= EntriesPerSector /\ UNCHANGED sector
         /\ UNCHANGED entry
         /\ pc' \in {"done", "scan"}
         /\ lfn' \in {NoName, lfn, push(lfn, e)}
         /\ offset' \in {offset, offset + 1}
         /\ UNCHANGED <<directory, depth>>
      \/ /\ offset <= EntriesPerSector /\ UNCHANGED <<sector, offset>>
         /\ lfn' = NoName /\ Found(e)
  BY <1>1, Zenon DEF scan_directory_sector, Stay, Return, e
<1> QED BY <1>4, <1>5, <1>6, <1>7

LEMMA LoadInv ==
  ASSUME IndInv, load_into_allocated_pages
  PROVE  IndInv'
<1>1. /\ pc = "opened"
      /\ UNCHANGED <<volume, geometry, path, depth, directory, sector, offset, lfn, entry,
                     buffer, sectors>>
  BY DEF load_into_allocated_pages, diskVars, findVars
<1>2. \/ pc' = "done" /\ UNCHANGED <<cluster, remaining>>
      \/ pc' = "read" /\ cluster' = entry.cluster /\ remaining' = entry.size
  BY DEF load_into_allocated_pages, Return
<1>3. /\ buffer = <<>> /\ remaining = 0 /\ entry.size \in Nat /\ entry.cluster \in Nat
      /\ cluster \in Nat /\ Len(<<>>) = 0 /\ buffer \in Seq(Int \X Int)
  BY <1>1 DEF IndInv, Loading, Scanning
<1>4. Scanning'
  BY <1>1, <1>2, <1>3 DEF IndInv, Scanning
<1>5. Loading'
  BY <1>1, <1>2, <1>3 DEF Loading
<1>6. Mounted' /\ ReadsInsideVolume'
  BY <1>1, <1>2 DEF IndInv, Mounted, ReadsInsideVolume
<1> QED BY <1>4, <1>5, <1>6 DEF IndInv

\* One cluster's share of a file.
LEMMA ShareFits ==
  ASSUME IndInv, pc = "read"
  PROVE  /\ full_sectors \in Nat /\ full_sectors <= geometry.sectors_per_cluster
         /\ tail_len \in Nat /\ full_sectors * SectorSize \in Nat
         /\ tail_len > 0 => full_sectors < geometry.sectors_per_cluster
         /\ Delivered \in Nat /\ Delivered <= remaining
<1> DEFINE q == remaining \div SectorSize
           spc == geometry.sectors_per_cluster
           f == full_sectors
<1>1. remaining \in Nat /\ spc \in Nat
  BY GeometryFits DEF IndInv, Loading
<1>2. q \in Nat /\ SectorSize * q <= remaining
  BY <1>1, Sizes, DivBounds
<1>3. f = IF q < spc THEN q ELSE spc
  BY DEF full_sectors, Min
<1>4. tail_len = IF f < spc THEN IF remaining - f * SectorSize < SectorSize
                                 THEN remaining - f * SectorSize ELSE SectorSize
                 ELSE 0
  BY DEF tail_len, Min
<1>5. Delivered = f * SectorSize + tail_len
  BY DEF Delivered
<1> HIDE DEF q, f, spc
<1>6. f \in Nat /\ f <= q /\ f <= spc
  BY <1>1, <1>2, <1>3
<1>7. f * SectorSize \in Nat /\ f * SectorSize <= remaining
  <2>1. SectorSize * f <= SectorSize * q
    BY <1>2, <1>6, Sizes
  <2>2. f * SectorSize = SectorSize * f /\ f * SectorSize \in Nat /\ SectorSize * q \in Nat
    BY <1>2, <1>6, Sizes
  <2> QED BY <1>1, <1>2, <2>1, <2>2
<1>8. tail_len \in Nat /\ f * SectorSize + tail_len <= remaining /\ (tail_len > 0 => f < spc)
  BY <1>1, <1>4, <1>6, <1>7, Sizes
<1> QED BY <1>5, <1>6, <1>7, <1>8 DEF f, spc

LEMMA BytesTyped ==
  ASSUME NEW s \in Nat, NEW n \in Nat
  PROVE  Bytes(s, n) \in Seq(Int \X Int) /\ Len(Bytes(s, n)) = n
<1>1. ASSUME NEW k \in 1..n
      PROVE  <<s + (k - 1) \div SectorSize, (k - 1) % SectorSize>> \in Int \X Int
  <2>1. k - 1 \in Nat
    OBVIOUS
  <2>2. (k - 1) \div SectorSize \in Nat
    BY <2>1, Sizes, DivBounds
  <2>3. ASSUME NEW x \in Nat, NEW p \in Nat \ {0} PROVE x % p \in Int
    OBVIOUS
  <2>4. (k - 1) % SectorSize \in Int
    BY <2>1, <2>3, Sizes
  <2>5. s + (k - 1) \div SectorSize \in Int
    BY <2>2
  <2> QED BY <2>4, <2>5
<1>2. Bytes(s, n) \in [1..n -> Int \X Int]
  BY <1>1 DEF Bytes
<1>3. ASSUME NEW f \in [1..n -> Int \X Int] PROVE f \in Seq(Int \X Int) /\ Len(f) = n
  OBVIOUS
<1> QED BY <1>2, <1>3

LEMMA WantedFits ==
  ASSUME IndInv, pc = "read", is_valid_cluster(cluster)
  PROVE  /\ SectorsWanted \subseteq geometry.root_dir_first_sector..(TotalSectors(volume.boot) - 1)
         /\ cluster_first_sector(cluster) \in Nat /\ tail_sector \in Nat
<1>1. Mounted /\ cluster \in Nat
  BY DEF IndInv, Scanning
<1>2. /\ full_sectors \in Nat /\ full_sectors <= geometry.sectors_per_cluster
      /\ tail_len \in Nat
      /\ tail_len > 0 => full_sectors < geometry.sectors_per_cluster
  BY ShareFits
<1>3. geometry.sectors_per_cluster \in Nat \ {0}
  BY <1>1, GeometryFits
<1>4. \A k \in Nat : k < geometry.sectors_per_cluster =>
        /\ cluster_first_sector(cluster) \in Nat
        /\ cluster_first_sector(cluster) + k
              \in geometry.root_dir_first_sector..(TotalSectors(volume.boot) - 1)
  BY <1>1, ClusterFits
<1>5. cluster_first_sector(cluster) \in Nat
  <2>1. 0 \in Nat /\ 0 < geometry.sectors_per_cluster
    BY <1>3
  <2> QED BY <1>4, <2>1
<1>6. ASSUME NEW x \in cluster_first_sector(cluster)..(cluster_first_sector(cluster) + full_sectors - 1)
      PROVE  x \in geometry.root_dir_first_sector..(TotalSectors(volume.boot) - 1)
  <2>1. x - cluster_first_sector(cluster) \in Nat
        /\ x - cluster_first_sector(cluster) < geometry.sectors_per_cluster
        /\ cluster_first_sector(cluster) + (x - cluster_first_sector(cluster)) = x
    BY <1>2, <1>3, <1>5
  <2> QED BY <1>4, <2>1
<1>7. tail_len > 0 => tail_sector \in geometry.root_dir_first_sector..(TotalSectors(volume.boot) - 1)
  BY <1>2, <1>4 DEF tail_sector
<1>8. tail_sector \in Nat
  BY <1>2, <1>5 DEF tail_sector
<1> QED BY <1>5, <1>6, <1>7, <1>8 DEF SectorsWanted

LEMMA ReadInv ==
  ASSUME IndInv, read_file_contents
  PROVE  IndInv'
<1>1. /\ pc = "read" /\ pc' \in {"read", "done"}
      /\ UNCHANGED <<volume, geometry, path, depth, directory, sector, offset, lfn, entry>>
  BY DEF read_file_contents, Return, ReadFails, diskVars, findVars
<1>2. \/ UNCHANGED <<buffer, remaining, cluster>> /\ pc' = "done"
      \/ /\ is_valid_cluster(cluster)
         /\ buffer' = buffer \o Bytes(cluster_first_sector(cluster), full_sectors * SectorSize)
                             \o Bytes(tail_sector, tail_len)
         /\ remaining' = remaining - Delivered
         /\ cluster' \in {cluster, next_cluster(cluster)}
  BY DEF read_file_contents, Return, ReadFails
<1>3. sectors' = sectors \/ (is_valid_cluster(cluster) /\ sectors' = SectorsWanted)
  BY DEF read_file_contents
<1>4. Mounted /\ Scanning /\ Loading /\ ReadsInsideVolume
  BY DEF IndInv
<1>5. Mounted'
  BY <1>1, <1>4 DEF Mounted
<1>6. Scanning'
  <2>1. cluster \in Nat /\ (is_valid_cluster(cluster) => next_cluster(cluster) \in Nat)
    BY <1>1, <1>4, NextTyped DEF Scanning
  <2>2. cluster' \in Nat
    BY <1>2, <2>1
  <2> QED BY <1>1, <1>4, <2>2 DEF Scanning
<1>7. ReadsInsideVolume'
  <2>1. is_valid_cluster(cluster) =>
          SectorsWanted \subseteq geometry.root_dir_first_sector..(TotalSectors(volume.boot) - 1)
    BY <1>1, WantedFits
  <2> QED BY <1>1, <1>3, <1>4, <2>1 DEF ReadsInsideVolume
<1>8. Loading'
  <2>1. CASE UNCHANGED <<buffer, remaining, cluster>> /\ pc' = "done"
    BY <1>1, <1>4, <2>1 DEF Loading
  <2>2. CASE /\ is_valid_cluster(cluster)
             /\ buffer' = buffer \o Bytes(cluster_first_sector(cluster), full_sectors * SectorSize)
                                 \o Bytes(tail_sector, tail_len)
             /\ remaining' = remaining - Delivered
    <3> DEFINE A == Bytes(cluster_first_sector(cluster), full_sectors * SectorSize)
               B == Bytes(tail_sector, tail_len)
    <3>1. /\ full_sectors * SectorSize \in Nat /\ tail_len \in Nat
          /\ Delivered \in Nat /\ Delivered <= remaining
          /\ Delivered = full_sectors * SectorSize + tail_len
      BY <1>1, ShareFits DEF Delivered
    <3>2. cluster_first_sector(cluster) \in Nat /\ tail_sector \in Nat
      BY <1>1, <2>2, WantedFits
    <3>3. /\ A \in Seq(Int \X Int) /\ Len(A) = full_sectors * SectorSize
          /\ B \in Seq(Int \X Int) /\ Len(B) = tail_len
      BY <3>1, <3>2, BytesTyped
    <3>4. buffer' = buffer \o A \o B
      BY <2>2
    <3> HIDE DEF A, B
    <3>5. /\ buffer \in Seq(Int \X Int) /\ remaining \in Nat /\ entry.size \in Nat
          /\ entry.cluster \in Nat /\ Len(buffer) + remaining = entry.size
      BY <1>1, <1>4 DEF Loading
    <3>6. buffer' \in Seq(Int \X Int) /\ Len(buffer') = Len(buffer) + Len(A) + Len(B)
      <4>1. ASSUME NEW a \in Seq(Int \X Int), NEW b \in Seq(Int \X Int), NEW c \in Seq(Int \X Int)
            PROVE  a \o b \o c \in Seq(Int \X Int) /\ Len(a \o b \o c) = Len(a) + Len(b) + Len(c)
        OBVIOUS
      <4> QED BY <3>3, <3>4, <3>5, <4>1, Zenon
    <3>7. Len(buffer) \in Nat
      BY <3>5
    <3>8. remaining' \in Nat /\ Len(buffer') + remaining' = entry.size
      <4>1. Len(buffer') = Len(buffer) + Delivered
        BY <3>1, <3>3, <3>6, <3>7
      <4>2. remaining' = remaining - Delivered
        BY <2>2
      <4>3. ASSUME NEW l \in Nat, NEW d \in Nat, NEW m \in Nat, NEW z \in Nat, d <= m, l + m = z
            PROVE  m - d \in Nat /\ (l + d) + (m - d) = z
        BY <4>3
      <4>4. /\ remaining - Delivered \in Nat
            /\ (Len(buffer) + Delivered) + (remaining - Delivered) = entry.size
        BY <3>1, <3>5, <3>7, <4>3
      <4> QED BY <4>1, <4>2, <4>4
    <3> QED BY <1>1, <3>5, <3>6, <3>8 DEF Loading
  <2> QED BY <1>2, <2>1, <2>2
<1> QED BY <1>5, <1>6, <1>7, <1>8 DEF IndInv

LEMMA NextInv == IndInv /\ [Next]_vars => IndInv'
<1> SUFFICES ASSUME IndInv, [Next]_vars PROVE IndInv'
  OBVIOUS
<1>1. CASE UNCHANGED vars
  BY <1>1 DEF vars, diskVars, findVars, loadVars, IndInv, Mounted, Scanning, Loading,
       ReadsInsideVolume, NameSound
<1>2. CASE Next
  BY <1>1, <1>2, NewInv, OpenInv, FindInv, ReadDirectoryInv, NextClusterInv, ScanInv, LoadInv,
     ReadInv DEF Next, Step, Unmounted
<1> QED BY <1>1, <1>2

LEMMA Always == Spec => []IndInv
  BY InitInv, NextInv, PTL DEF Spec

-----------------------------------------------------------------------------
(* The theorems. *)

\* Whatever the disk holds, the long-name state keeps its pieces in step with
\* its ordinals and a load never writes behind the size of the file.
THEOREM FatTypeCorrect == Spec => []TypeOK
<1>1. IndInv => TypeOK
  <2> SUFFICES ASSUME IndInv PROVE TypeOK
    OBVIOUS
  <2>1. Len(buffer) \in Nat
    BY DEF IndInv, Loading
  <2>2. Len(buffer) <= entry.size /\ remaining \in 0..entry.size
    BY <2>1 DEF IndInv, Loading
  <2> QED BY <2>2 DEF IndInv, Scanning, NameSound, TypeOK
<1> QED BY <1>1, Always, PTL

\* Whatever the table holds, and for every boot sector whose table sizes and
\* sector counts do not overflow 32 bits, no directory or file is read from the
\* boot sector, from the tables or from behind the end of the volume.
THEOREM FatReadsInside == Spec => []ReadsInsideVolume
  BY Always, PTL DEF IndInv


-----------------------------------------------------------------------------
(* Chains. *)

\* The least-number principle stands in for induction: what does not hold of
\* every number has a first exception.
LEMMA LeastOf ==
  ASSUME NEW T, T \subseteq Nat, NEW R, NEW x \in T,
         \A y \in T : ~(<<y, x>> \in R),
         \A a, b \in Nat : a < b => <<a, b>> \in R
  PROVE  \A y \in T : x <= y
<1> SUFFICES ASSUME NEW y \in T PROVE x <= y
  OBVIOUS
<1>1. x \in Nat /\ y \in Nat
  OBVIOUS
<1>2. ~(y < x)
  BY <1>1
<1> QED BY <1>1, <1>2

LEMMA LeastNumber ==
  ASSUME NEW T, T \subseteq Nat, T # {}
  PROVE  \E x \in T : \A y \in T : x <= y
<1> DEFINE R == OpToRel(<, Nat)
<1>1. IsWellFoundedOn(R, Nat)
  BY NatLessThanWellFounded, Zenon
<1>2. \A a, b \in Nat : a < b => <<a, b>> \in R
  BY SMT DEF OpToRel
<1> HIDE DEF R
<1>3. PICK x \in T : \A y \in T : ~(<<y, x>> \in R)
  BY <1>1, WFMin
<1>4. \A y \in T : x <= y
  BY <1>2, <1>3, LeastOf
<1> QED BY <1>4

\* One step along a chain, and the chain that ChainFrom defines, with geometry
\* and disk as parameters.
Follow(g, v, c) ==
  IF c >= 2 /\ c < g.total_clusters + 2
  THEN IF g.fat_type = "Fat16" THEN v.fat[c] ELSE v.fat[c] % Fat32Modulus
  ELSE c

IsChain(at, g, v, c, n) ==
  at = [k \in 0..n |-> IF k = 0 THEN c ELSE Follow(g, v, at[k - 1])]

TheChain(g, v, c, n) == CHOOSE at : IsChain(at, g, v, c, n)

LEMMA ChainExists ==
  ASSUME NEW g, NEW v, NEW c, NEW n \in Nat
  PROVE  IsChain(TheChain(g, v, c, n), g, v, c, n)
<1> DEFINE T == {m \in Nat : ~\E at : IsChain(at, g, v, c, m)}
<1> SUFFICES ASSUME T # {} PROVE FALSE
  BY DEF TheChain
<1>1. PICK m \in T : \A y \in T : m <= y
  BY LeastNumber
<1>2. m \in Nat /\ ~\E at : IsChain(at, g, v, c, m)
  OBVIOUS
<1>3. m # 0
  <2> DEFINE a == [k \in 0..0 |-> c]
  <2>1. IsChain(a, g, v, c, 0)
    BY DEF IsChain
  <2> QED BY <1>2, <2>1
<1>4. m - 1 \in Nat /\ m - 1 \notin T
  BY <1>1, <1>2, <1>3
<1>5. PICK a : IsChain(a, g, v, c, m - 1)
  BY <1>4
<1> DEFINE h == [k \in 0..m |-> IF k = m THEN Follow(g, v, a[m - 1]) ELSE a[k]]
<1>6. ASSUME NEW k \in 0..m
      PROVE  h[k] = IF k = 0 THEN c ELSE Follow(g, v, h[k - 1])
  <2>1. \A j \in 0..(m - 1) : a[j] = IF j = 0 THEN c ELSE Follow(g, v, a[j - 1])
    BY <1>5 DEF IsChain
  <2>2. CASE k = 0
    BY <1>2, <1>3, <2>1, <2>2
  <2>3. CASE k # 0
    <3>1. k - 1 \in 0..m /\ k - 1 # m /\ h[k - 1] = a[k - 1]
      BY <1>2, <2>3
    <3>2. CASE k = m
      BY <2>3, <3>1, <3>2
    <3>3. CASE k # m
      <4>1. k \in 0..(m - 1) /\ h[k] = a[k]
        BY <1>2, <3>3
      <4> QED BY <2>1, <2>3, <3>1, <4>1
    <3> QED BY <3>2, <3>3
  <2> QED BY <2>2, <2>3
<1>7. h = [k \in 0..m |-> IF k = 0 THEN c ELSE Follow(g, v, h[k - 1])]
  BY <1>6
<1> QED BY <1>2, <1>7 DEF IsChain

LEMMA ChainSteps ==
  ASSUME NEW g, NEW v, NEW c, NEW n \in Nat
  PROVE  /\ TheChain(g, v, c, n)[0] = c
         /\ \A k \in 0..(n - 1) :
              TheChain(g, v, c, n)[k + 1] = Follow(g, v, TheChain(g, v, c, n)[k])
<1> DEFINE at == TheChain(g, v, c, n)
<1>1. \A k \in 0..n : at[k] = IF k = 0 THEN c ELSE Follow(g, v, at[k - 1])
  BY ChainExists DEF IsChain
<1> HIDE DEF at
<1>2. at[0] = c
  BY <1>1
<1>3. ASSUME NEW k \in 0..(n - 1) PROVE at[k + 1] = Follow(g, v, at[k])
  <2>1. k + 1 \in 0..n /\ k + 1 # 0 /\ (k + 1) - 1 = k
    OBVIOUS
  <2> QED BY <1>1, <2>1
<1> QED BY <1>2, <1>3 DEF at

\* ChainFrom is that chain, and next_cluster a step along it.
LEMMA ChainIsThat ==
  /\ \A c, n : ChainFrom(c, n) = TheChain(geometry, volume, c, n)
  /\ \A c : is_valid_cluster(c) => Follow(geometry, volume, c) = next_cluster(c)
  /\ \A c : ~is_valid_cluster(c) => Follow(geometry, volume, c) = c
<1>1. ASSUME NEW c, NEW n PROVE ChainFrom(c, n) = TheChain(geometry, volume, c, n)
  BY DEF ChainFrom, TheChain, IsChain, Follow, is_valid_cluster, next_cluster
<1> QED BY <1>1 DEF Follow, is_valid_cluster, next_cluster


-----------------------------------------------------------------------------
(* The bytes of a file. *)

LEMMA DivModIs ==
  ASSUME NEW q \in Nat, NEW b \in Nat \ {0}, NEW r \in Nat, r < b
  PROVE  (q * b + r) \div b = q /\ (q * b + r) % b = r
<1> DEFINE x == q * b + r
           d == x \div b
<1>1. x \in Nat
  OBVIOUS
<1>2. d \in Nat /\ b * d <= x /\ x < b * d + b
  BY <1>1, DivBounds
<1>3. x % b = x - b * d
  BY <1>1
<1> HIDE DEF d
<1>4. d = q
  <2>1. ASSUME d < q PROVE FALSE
    <3>1. b * (d + 1) <= b * q
      BY <1>2, <2>1
    <3> QED BY <1>2, <3>1 DEF x
  <2>2. ASSUME q < d PROVE FALSE
    <3>1. b * (q + 1) <= b * d
      BY <1>2, <2>2
    <3> QED BY <1>2, <3>1 DEF x
  <2> QED BY <1>2, <2>1, <2>2
<1>5. x % b = r
  BY <1>3, <1>4 DEF x
<1> QED BY <1>4, <1>5 DEF d, x

LEMMA DivMod ==
  ASSUME NEW x \in Nat, NEW p \in Nat \ {0}
  PROVE  /\ x \div p \in Nat /\ x % p \in Nat /\ x % p < p
         /\ x = (x \div p) * p + (x % p)
<1> DEFINE d == x \div p
           e == p * d
           r == x % p
<1>1. d \in Nat /\ e <= x /\ x < e + p
  BY DivBounds
<1>2. r = x - e
  OBVIOUS
<1> HIDE DEF d, r
<1>3. e = d * p /\ e \in Nat
  BY <1>1
<1> HIDE DEF e
<1>4. r \in Nat /\ r < p /\ x = e + r
  BY <1>1, <1>2, <1>3
<1>5. x = d * p + r
  BY <1>3, <1>4
<1> QED BY <1>1, <1>4, <1>5, Zenon DEF d, r

\* Byte i of cluster m of a file.
LEMMA ByteSplit ==
  ASSUME NEW m \in Nat, NEW spc \in Nat \ {0}, NEW S \in Nat \ {0},
         NEW i \in Nat, i < spc * S
  PROVE  /\ (m * (spc * S) + i) \div (spc * S) = m
         /\ (m * (spc * S) + i) % (spc * S) = i
         /\ (m * (spc * S) + i) % S = i % S
<1> DEFINE b == spc * S
           q == m * spc + i \div S
           r == i % S
<1>1. b \in Nat \ {0}
  OBVIOUS
<1>2. (m * b + i) \div b = m /\ (m * b + i) % b = i
  <2> HIDE DEF b
  <2> QED BY <1>1, DivModIs DEF b
<1>3. i \div S \in Nat /\ r \in Nat /\ r < S /\ i = (i \div S) * S + r
  BY DivMod
<1>4. q \in Nat
  BY <1>3
<1>5. m * b + i = q * S + r
  <2> DEFINE d == i \div S
  <2>1. d \in Nat /\ i = d * S + r
    BY <1>3
  <2> HIDE DEF d, r
  <2>2. m * (spc * S) + d * S = (m * spc + d) * S
    BY <2>1
  <2>3. m * (spc * S) \in Nat /\ d * S \in Nat /\ r \in Nat
    BY <1>3, <2>1 DEF r
  <2>4. m * (spc * S) + i = (m * spc + d) * S + r
    BY <2>1, <2>2, <2>3
  <2> QED BY <2>4 DEF d
<1> HIDE DEF q, r
<1>6. (q * S + r) % S = r
  BY <1>3, <1>4, DivModIs
<1> QED BY <1>2, <1>5, <1>6, Zenon DEF r, b

\* Whole sectors and the tail together are the first bytes of the cluster, as
\* many as the cluster has or the file still needs.
LEMMA ShareIsExact ==
  ASSUME IndInv, pc = "read"
  PROVE  LET bytes == geometry.sectors_per_cluster * SectorSize
         IN /\ bytes \in Nat \ {0}
            /\ tail_len < SectorSize
            /\ full_sectors * SectorSize + tail_len <= bytes
            /\ Delivered # remaining => Delivered = bytes
<1> DEFINE q == remaining \div SectorSize
           spc == geometry.sectors_per_cluster
           f == full_sectors
<1>1. remaining \in Nat /\ spc \in Nat \ {0}
  BY GeometryFits DEF IndInv, Loading
<1>2. q \in Nat /\ SectorSize * q <= remaining /\ remaining < SectorSize * q + SectorSize
  BY <1>1, Sizes, DivBounds
<1>3. f = IF q < spc THEN q ELSE spc
  BY DEF full_sectors, Min
<1>4. tail_len = IF f < spc THEN IF remaining - f * SectorSize < SectorSize
                                 THEN remaining - f * SectorSize ELSE SectorSize
                 ELSE 0
  BY DEF tail_len, Min
<1>5. Delivered = f * SectorSize + tail_len
  BY DEF Delivered
<1> HIDE DEF q, f, spc
<1>6. spc * SectorSize \in Nat \ {0} /\ SectorSize \in Nat \ {0}
  BY <1>1, Sizes
<1>7. CASE q < spc
  <2>1. f = q /\ q * SectorSize = SectorSize * q /\ q * SectorSize \in Nat
    BY <1>2, <1>3, <1>6, <1>7
  <2>2. tail_len = remaining - q * SectorSize /\ tail_len < SectorSize
    BY <1>1, <1>2, <1>4, <1>6, <1>7, <2>1
  <2>3. Delivered = remaining
    BY <1>1, <1>5, <2>1, <2>2
  <2>4. q * SectorSize + SectorSize <= spc * SectorSize
    <3>1. SectorSize * (q + 1) <= SectorSize * spc
      BY <1>1, <1>2, <1>6, <1>7
    <3>2. SectorSize * (q + 1) = q * SectorSize + SectorSize /\ SectorSize * spc = spc * SectorSize
      BY <1>1, <1>2, <1>6
    <3> QED BY <3>1, <3>2
  <2>5. f * SectorSize + tail_len <= spc * SectorSize
    BY <1>1, <1>6, <2>1, <2>2, <2>4
  <2> QED BY <1>6, <2>2, <2>3, <2>5 DEF f, spc
<1>8. CASE ~(q < spc)
  <2>1. f = spc /\ tail_len = 0
    BY <1>1, <1>3, <1>4, <1>8
  <2>2. Delivered = spc * SectorSize
    BY <1>5, <1>6, <2>1
  <2> QED BY <1>6, <2>1, <2>2 DEF f, spc
<1> QED BY <1>7, <1>8


\* Byte k of the file whose chain is at, as LoadIsExact says it.
FileByte(g, at, k) ==
  LET bytes == g.sectors_per_cluster * SectorSize
  IN <<g.data_first_sector + (at[(k - 1) \div bytes] - 2) * g.sectors_per_cluster
         + ((k - 1) % bytes) \div SectorSize,
       (k - 1) % SectorSize>>

Need(g, e) == CeilDiv(e.size, g.sectors_per_cluster * SectorSize)
FileChain(g, v, e) == TheChain(g, v, e.cluster, Need(g, e))

\* The load is at cluster m of the chain and has delivered the ones in front.
Progress(g, v, e, b, c) ==
  \E m \in 0..(Need(g, e) - 1) :
    /\ Len(b) = m * (g.sectors_per_cluster * SectorSize)
    /\ FileChain(g, v, e)[m] = c
    /\ \A k \in 1..Len(b) : b[k] = FileByte(g, FileChain(g, v, e), k)

Exact(g, v, e, b, r) ==
  /\ r = "Ok" => /\ Len(b) = e.size
                 /\ \A k \in 1..Len(b) : b[k] = FileByte(g, FileChain(g, v, e), k)
  /\ r = "ChainTooShort" =>
       \E k \in 1..(Need(g, e) - 1) :
         FileChain(g, v, e)[k] >= IF g.fat_type = "Fat16" THEN Fat16Eoc ELSE Fat32Eoc

LoadInOrder ==
  /\ pc = "read" => Progress(geometry, volume, entry, buffer, cluster)
  /\ pc = "done" => Exact(geometry, volume, entry, buffer, result)

\* How many clusters a file needs.
LEMMA NeedIs ==
  ASSUME NEW size \in Nat, NEW b \in Nat \ {0}, NEW m \in Nat
  PROVE  /\ CeilDiv(size, b) \in Nat
         /\ m * b < size => m <= CeilDiv(size, b) - 1
<1> DEFINE d == (size + b - 1) \div b
<1>1. size + b - 1 \in Nat
  OBVIOUS
<1>2. d \in Nat /\ b * d <= size + b - 1 /\ size + b - 1 < b * d + b
  BY <1>1, DivBounds
<1>3. CeilDiv(size, b) = d
  BY DEF CeilDiv
<1> HIDE DEF d
<1>4. ASSUME m * b < size, d <= m PROVE FALSE
  <2>1. b * d <= b * m
    BY <1>2, <1>4
  <2>2. b * m = m * b /\ b * m \in Nat /\ b * d \in Nat
    BY <1>2
  <2> QED BY <1>2, <1>4, <2>1, <2>2
<1> QED BY <1>2, <1>3, <1>4

\* What a cluster delivers, byte by byte.
LEMMA ShareBytes ==
  ASSUME NEW s \in Nat, NEW f \in Nat, NEW t \in Nat, t < SectorSize,
         NEW j \in 1..(f * SectorSize + t)
  PROVE  (Bytes(s, f * SectorSize) \o Bytes(s + f, t))[j]
           = <<s + (j - 1) \div SectorSize, (j - 1) % SectorSize>>
<1> DEFINE A == Bytes(s, f * SectorSize)
           B == Bytes(s + f, t)
           n == f * SectorSize
<1>1. n \in Nat /\ s + f \in Nat
  BY Sizes
<1>2. /\ A \in Seq(Int \X Int) /\ Len(A) = n
      /\ B \in Seq(Int \X Int) /\ Len(B) = t
  BY <1>1, BytesTyped, Zenon
<1> HIDE DEF n
<1>3. /\ j \in 1..n => (A \o B)[j] = A[j]
      /\ j \in (n + 1)..(n + t) => (A \o B)[j] = B[j - n]
  <2> HIDE DEF A, B
  <2> QED BY <1>1, <1>2, SMTT(30)
<1>4. j \in 1..(n + t)
  BY DEF n
<1>5. CASE j \in 1..n
  <2>1. A[j] = <<s + (j - 1) \div SectorSize, (j - 1) % SectorSize>>
    BY <1>5 DEF A, Bytes, n
  <2> QED BY <1>3, <1>5, <2>1
<1>6. CASE j \in (n + 1)..(n + t)
  <2> DEFINE i == j - n - 1
  <2>1. i \in Nat /\ i < SectorSize /\ j - n \in 1..t /\ (j - n) - 1 = i /\ j - 1 = n + i
    BY <1>1, <1>6, Sizes
  <2>2. B[j - n] = <<(s + f) + ((j - n) - 1) \div SectorSize, ((j - n) - 1) % SectorSize>>
    BY <2>1 DEF B, Bytes
  <2> HIDE DEF i
  <2>3. ASSUME NEW b \in Nat \ {0}, NEW r \in Nat, r < b PROVE r \div b = 0 /\ r % b = r
    BY <2>3
  <2>4. i \div SectorSize = 0 /\ i % SectorSize = i
    BY <2>1, <2>3, Sizes
  <2>5. (f * SectorSize + i) \div SectorSize = f /\ (f * SectorSize + i) % SectorSize = i
    BY <2>1, Sizes, DivModIs, ZenonT(60)
  <2>6. (j - 1) \div SectorSize = f /\ (j - 1) % SectorSize = i
    BY <2>1, <2>5 DEF n
  <2>7. B[j - n] = <<s + f, i>>
    BY <2>1, <2>2, <2>4
  <2> QED BY <1>3, <1>6, <2>6, <2>7
<1>7. j \in 1..n \/ j \in (n + 1)..(n + t)
  BY <1>1, <1>4
<1> QED BY <1>5, <1>6, <1>7


LEMMA Concatenated ==
  ASSUME NEW p \in Seq(Int \X Int), NEW q \in Seq(Int \X Int)
  PROVE  /\ p \o q \in Seq(Int \X Int) /\ Len(p \o q) = Len(p) + Len(q)
         /\ \A k \in 1..Len(p) : (p \o q)[k] = p[k]
         /\ \A k \in (Len(p) + 1)..(Len(p) + Len(q)) : (p \o q)[k] = q[k - Len(p)]
  OBVIOUS

LEMMA Appended ==
  ASSUME NEW p \in Seq(Int \X Int), NEW q \in Seq(Int \X Int), NEW r \in Seq(Int \X Int)
  PROVE  /\ Len(p) \in Nat /\ Len(p \o q \o r) = Len(p) + (Len(q) + Len(r))
         /\ \A k \in 1..Len(p) : (p \o q \o r)[k] = p[k]
         /\ \A k \in (Len(p) + 1)..(Len(p) + (Len(q) + Len(r))) :
              (p \o q \o r)[k] = (q \o r)[k - Len(p)]
<1> DEFINE t == p \o q
<1>1. /\ t \in Seq(Int \X Int) /\ Len(t) = Len(p) + Len(q)
      /\ Len(p) \in Nat /\ Len(q) \in Nat /\ Len(r) \in Nat
      /\ \A k \in 1..Len(p) : t[k] = p[k]
      /\ \A k \in (Len(p) + 1)..(Len(p) + Len(q)) : t[k] = q[k - Len(p)]
  OBVIOUS
<1>2. /\ \A k \in 1..Len(q) : (q \o r)[k] = q[k]
      /\ \A k \in (Len(q) + 1)..(Len(q) + Len(r)) : (q \o r)[k] = r[k - Len(q)]
  OBVIOUS
<1> HIDE DEF t
<1>3. /\ Len(t \o r) = Len(t) + Len(r)
      /\ \A k \in 1..Len(t) : (t \o r)[k] = t[k]
      /\ \A k \in (Len(t) + 1)..(Len(t) + Len(r)) : (t \o r)[k] = r[k - Len(t)]
  <2>1. t \in Seq(Int \X Int)
    BY <1>1
  <2> QED BY <2>1, Concatenated, Zenon
<1>4. \A k \in 1..Len(p) : (t \o r)[k] = p[k]
  <2>1. \A k \in 1..Len(p) : k \in 1..Len(t)
    BY <1>1
  <2> QED BY <1>1, <1>3, <2>1
<1>5. ASSUME NEW k \in (Len(p) + 1)..(Len(p) + (Len(q) + Len(r)))
      PROVE  (t \o r)[k] = (q \o r)[k - Len(p)]
  <2>1. CASE k <= Len(p) + Len(q)
    <3>1. k \in 1..Len(t) /\ k \in (Len(p) + 1)..(Len(p) + Len(q)) /\ k - Len(p) \in 1..Len(q)
      BY <1>1, <2>1
    <3> QED BY <1>1, <1>2, <1>3, <3>1
  <2>2. CASE ~(k <= Len(p) + Len(q))
    <3>1. /\ k \in (Len(t) + 1)..(Len(t) + Len(r))
          /\ k - Len(p) \in (Len(q) + 1)..(Len(q) + Len(r))
          /\ k - Len(t) = (k - Len(p)) - Len(q)
      BY <1>1, <2>2
    <3> QED BY <1>2, <1>3, <3>1
  <2> QED BY <2>1, <2>2
<1>6. Len(t \o r) = Len(p) + (Len(q) + Len(r))
  BY <1>1, <1>3
<1> QED BY <1>1, <1>4, <1>5, <1>6, Zenon DEF t

\* One cluster more is delivered, in its place.
LEMMA ReadInOrder ==
  ASSUME IndInv, LoadInOrder, read_file_contents
  PROVE  LoadInOrder'
<1> DEFINE g == geometry
           v == volume
           e == entry
           spc == g.sectors_per_cluster
           bytes == spc * SectorSize
           at == FileChain(g, v, e)
           first == cluster_first_sector(cluster)
           next == next_cluster(cluster)
<1>1. /\ pc = "read" /\ UNCHANGED <<volume, geometry, entry>>
      /\ Mounted /\ cluster \in Nat
      /\ Progress(g, v, e, buffer, cluster)
  BY DEF read_file_contents, diskVars, LoadInOrder, IndInv, Scanning
<1>2. PICK m \in 0..(Need(g, e) - 1) :
        /\ Len(buffer) = m * bytes
        /\ at[m] = cluster
        /\ \A k \in 1..Len(buffer) : buffer[k] = FileByte(g, at, k)
  BY <1>1 DEF Progress
<1>3. CASE pc' = "done" /\ result' \in {"InvalidCluster", "Device"}
  BY <1>3 DEF LoadInOrder, Exact
<1>4. ASSUME is_valid_cluster(cluster),
             buffer' = buffer \o Bytes(first, full_sectors * SectorSize) \o Bytes(tail_sector, tail_len),
             remaining' = remaining - Delivered,
             \/ remaining' = 0 /\ pc' = "done" /\ result' = "Ok"
             \/ /\ remaining' # 0 /\ is_end_of_chain(next)
                /\ pc' = "done" /\ result' = "ChainTooShort"
             \/ remaining' # 0 /\ pc' = "read" /\ cluster' = next
      PROVE  LoadInOrder'
  <2>1. /\ spc \in Nat \ {0} /\ bytes \in Nat \ {0} /\ SectorSize \in Nat \ {0}
        /\ e.size \in Nat /\ remaining \in Nat /\ buffer \in Seq(Int \X Int)
        /\ Len(buffer) + remaining = e.size
    BY <1>1, GeometryFits, ShareIsExact, Sizes DEF IndInv, Loading
  <2>2. /\ full_sectors \in Nat /\ tail_len \in Nat /\ full_sectors * SectorSize \in Nat
        /\ tail_len < SectorSize /\ Delivered \in Nat /\ Delivered <= remaining
        /\ Delivered = full_sectors * SectorSize + tail_len /\ Delivered <= bytes
        /\ Delivered # remaining => Delivered = bytes
    BY <1>1, ShareFits, ShareIsExact DEF Delivered
  <2>3. first \in Nat /\ tail_sector = first + full_sectors /\ tail_sector \in Nat
    BY <1>1, <1>4, WantedFits DEF tail_sector
  <2>4. Need(g, e) \in Nat /\ m \in Nat
    <3>1. 0 \in Nat
      OBVIOUS
    <3>2. Need(g, e) \in Nat
      BY <2>1, <3>1, NeedIs, Zenon DEF Need
    <3> QED BY <3>2
  <2> DEFINE A == Bytes(first, full_sectors * SectorSize)
             B == Bytes(tail_sector, tail_len)
             L == Len(buffer)
  <2>5. /\ A \in Seq(Int \X Int) /\ Len(A) = full_sectors * SectorSize
        /\ B \in Seq(Int \X Int) /\ Len(B) = tail_len
    BY <2>2, <2>3, BytesTyped, Zenon
  <2>6. \A j \in 1..Delivered : (A \o B)[j] = <<first + (j - 1) \div SectorSize, (j - 1) % SectorSize>>
    <3>1. \A j \in 1..(full_sectors * SectorSize + tail_len) :
            (Bytes(first, full_sectors * SectorSize) \o Bytes(first + full_sectors, tail_len))[j]
              = <<first + (j - 1) \div SectorSize, (j - 1) % SectorSize>>
      BY <2>2, <2>3, ShareBytes, ZenonT(40)
    <3> QED BY <2>2, <2>3, <3>1, Zenon
  <2> HIDE DEF A, B, bytes, first, next, at
  <2>7. /\ L \in Nat /\ Len(buffer') = L + Delivered
        /\ \A k \in 1..L : buffer'[k] = buffer[k]
        /\ \A k \in (L + 1)..(L + Delivered) : buffer'[k] = (A \o B)[k - L]
    <3>1. buffer' = buffer \o A \o B
      BY <1>4 DEF A, B
    <3>3. Len(A) + Len(B) = Delivered
      BY <2>2, <2>5
    <3>4. /\ Len(buffer) \in Nat
          /\ Len(buffer \o A \o B) = Len(buffer) + (Len(A) + Len(B))
          /\ \A k \in 1..Len(buffer) : (buffer \o A \o B)[k] = buffer[k]
          /\ \A k \in (Len(buffer) + 1)..(Len(buffer) + (Len(A) + Len(B))) :
               (buffer \o A \o B)[k] = (A \o B)[k - Len(buffer)]
      <4>1. buffer \in Seq(Int \X Int) /\ A \in Seq(Int \X Int) /\ B \in Seq(Int \X Int)
        BY <2>1, <2>5
      <4>2. /\ Len(buffer) \in Nat
            /\ Len(buffer \o A \o B) = Len(buffer) + (Len(A) + Len(B))
        BY <4>1, Appended, Zenon
      <4>3. \A k \in 1..Len(buffer) : (buffer \o A \o B)[k] = buffer[k]
        BY <4>1, Appended, Zenon
      <4>4. ASSUME NEW k \in (Len(buffer) + 1)..(Len(buffer) + (Len(A) + Len(B)))
            PROVE  (buffer \o A \o B)[k] = (A \o B)[k - Len(buffer)]
        BY <4>1, Appended, ZenonT(40)
      <4> QED BY <4>2, <4>3, <4>4, Zenon
    <3>5. L \in Nat /\ Len(buffer') = L + Delivered
      BY <3>1, <3>3, <3>4, Zenon
    <3>6. \A k \in 1..L : buffer'[k] = buffer[k]
      BY <3>1, <3>4, Zenon
    <3>7. \A k \in (L + 1)..(L + Delivered) : buffer'[k] = (A \o B)[k - L]
      BY <3>1, <3>3, <3>4, Zenon
    <3> QED BY <3>5, <3>6, <3>7, Zenon
  <2>8. ASSUME NEW k \in (L + 1)..(L + Delivered)
        PROVE  buffer'[k] = FileByte(g, at, k)
    <3> DEFINE i == k - L - 1
    <3>1. i \in Nat /\ i < bytes /\ k - L \in 1..Delivered /\ (k - L) - 1 = i
      BY <2>1, <2>2, <2>7
    <3>2. k - 1 = m * bytes + i
      BY <1>2, <2>1, <2>4, <2>7
    <3> HIDE DEF i
    <3>3. /\ (k - 1) \div bytes = m /\ (k - 1) % bytes = i
          /\ (k - 1) % SectorSize = i % SectorSize
      <4>1. /\ (m * bytes + i) \div bytes = m /\ (m * bytes + i) % bytes = i
            /\ (m * bytes + i) % SectorSize = i % SectorSize
        <5>1. i < spc * SectorSize
          BY <3>1 DEF bytes
        <5>2. m \in Nat /\ i \in Nat /\ spc \in Nat \ {0} /\ SectorSize \in Nat \ {0}
          BY <2>1, <2>4, <3>1
        <5> HIDE DEF spc
        <5>3. /\ (m * (spc * SectorSize) + i) \div (spc * SectorSize) = m
              /\ (m * (spc * SectorSize) + i) % (spc * SectorSize) = i
              /\ (m * (spc * SectorSize) + i) % SectorSize = i % SectorSize
          BY <5>1, <5>2, ByteSplit, ZenonT(40)
        <5> QED BY <5>3, Zenon DEF bytes
      <4> QED BY <3>2, <4>1, Zenon
    <3>4. buffer'[k] = <<first + i \div SectorSize, i % SectorSize>>
      BY <2>6, <2>7, <3>1
    <3>5. FileByte(g, at, k) = <<g.data_first_sector + (at[m] - 2) * g.sectors_per_cluster
                                   + i \div SectorSize, i % SectorSize>>
      BY <3>3, Zenon DEF FileByte, bytes
    <3> QED BY <1>2, <3>4, <3>5 DEF cluster_first_sector, first
  <2>9. \A k \in 1..Len(buffer') : buffer'[k] = FileByte(g, at, k)
    <3>1. \A k \in 1..(L + Delivered) : k \in 1..L \/ k \in (L + 1)..(L + Delivered)
      BY <2>2, <2>7
    <3> QED BY <1>2, <2>7, <2>8, <3>1
  <2>10. CASE remaining' = 0 /\ pc' = "done" /\ result' = "Ok"
    <3>1. Len(buffer') = e.size
      <4>1. remaining' = remaining - Delivered /\ remaining' = 0
        BY <1>4, <2>10
      <4>2. remaining \in Nat /\ Delivered \in Nat /\ Len(buffer) + remaining = e.size
        BY <2>1, <2>2
      <4>3. remaining = Delivered
        BY <4>1, <4>2
      <4>4. Len(buffer') = Len(buffer) + Delivered
        BY <2>7
      <4> QED BY <4>2, <4>3, <4>4
    <3> QED BY <1>1, <2>9, <2>10, <3>1 DEF LoadInOrder, Exact, at
  <2>11. ASSUME remaining' # 0
         PROVE  /\ m + 1 \in 0..(Need(g, e) - 1) /\ m + 1 \in 1..(Need(g, e) - 1)
                /\ Len(buffer') = (m + 1) * bytes
                /\ at[m + 1] = next
    <3>1. Delivered = bytes /\ bytes < remaining
      BY <1>4, <2>1, <2>2, <2>11
    <3>2. Len(buffer') = (m + 1) * bytes
      BY <1>2, <2>1, <2>4, <2>7, <3>1
    <3>3. (m + 1) * bytes < e.size
      BY <2>1, <2>7, <3>1, <3>2
    <3>4. m + 1 <= Need(g, e) - 1
      <4>1. m + 1 \in Nat
        BY <2>4
      <4> QED BY <2>1, <3>3, <4>1, NeedIs, Zenon DEF Need, bytes
    <3>5. m \in 0..(Need(g, e) - 1) /\ at[m + 1] = Follow(g, v, at[m])
      <4>1. \A k \in 0..(Need(g, e) - 1) :
              TheChain(g, v, e.cluster, Need(g, e))[k + 1]
                = Follow(g, v, TheChain(g, v, e.cluster, Need(g, e))[k])
        BY <2>4, ChainSteps
      <4> QED BY <4>1, Zenon DEF FileChain, at
    <3>6. at[m + 1] = next
      BY <1>2, <1>4, <3>5, ChainIsThat DEF next
    <3> QED BY <2>4, <3>2, <3>4, <3>6
  <2>12. CASE remaining' # 0 /\ is_end_of_chain(next) /\ pc' = "done" /\ result' = "ChainTooShort"
    BY <1>1, <2>11, <2>12 DEF LoadInOrder, Exact, is_end_of_chain, EndOfChain, at
  <2>13. CASE remaining' # 0 /\ pc' = "read" /\ cluster' = next
    BY <1>1, <2>9, <2>11, <2>13 DEF LoadInOrder, Progress, at, bytes
  <2> QED BY <1>4, <2>10, <2>12, <2>13
<1> QED BY <1>3, <1>4 DEF read_file_contents, Return, ReadFails


\* The load begins at the first cluster of the chain.
LEMMA LoadStarts ==
  ASSUME IndInv, load_into_allocated_pages
  PROVE  LoadInOrder'
<1>1. /\ pc = "opened" /\ UNCHANGED <<volume, geometry, entry, buffer>>
      /\ \/ pc' = "done" /\ result' \in {"IsDirectory", "Memory", "InvalidCluster"}
         \/ pc' = "done" /\ result' = "Ok" /\ entry.size = 0
         \/ pc' = "read" /\ cluster' = entry.cluster /\ entry.size > 0
  BY DEF load_into_allocated_pages, diskVars, Return
<1>2. CASE pc' = "done" /\ result' \in {"IsDirectory", "Memory", "InvalidCluster"}
  BY <1>2 DEF LoadInOrder, Exact
<1>3. CASE pc' = "read" /\ cluster' = entry.cluster /\ entry.size > 0
  <2> DEFINE bytes == geometry.sectors_per_cluster * SectorSize
             at == FileChain(geometry, volume, entry)
             need == Need(geometry, entry)
  <2>1. entry.size \in Nat /\ buffer = <<>> /\ bytes \in Nat \ {0}
    BY <1>1, GeometryFits, Sizes, SMTT(30) DEF IndInv, Loading
  <2>2. need \in Nat /\ 0 <= need - 1
    <3>1. 0 \in Nat /\ 0 * bytes < entry.size
      BY <1>3, <2>1
    <3> QED BY <2>1, <3>1, NeedIs, Zenon DEF Need
  <2>3. at[0] = entry.cluster
    <3> HIDE DEF need
    <3>1. TheChain(geometry, volume, entry.cluster, need)[0] = entry.cluster
      BY <2>2, ChainSteps
    <3> QED BY <3>1, Zenon DEF FileChain, need
  <2> HIDE DEF at, need
  <2>4. Len(<<>>) = 0 * bytes
    BY <2>1
  <2>5. 0 \in 0..(need - 1)
    BY <2>2
  <2>6. \A k \in 1..Len(<<>>) : buffer[k] = FileByte(geometry, at, k)
    OBVIOUS
  <2>7. Progress(geometry, volume, entry, buffer, entry.cluster)
    BY <2>1, <2>3, <2>4, <2>5, <2>6 DEF Progress, at, need, bytes
  <2> QED BY <1>1, <1>3, <2>7 DEF LoadInOrder
<1>4. CASE pc' = "done" /\ result' = "Ok" /\ entry.size = 0
  <2>1. buffer' = <<>> /\ entry' = entry /\ Len(<<>>) = 0
    BY <1>1 DEF IndInv, Loading
  <2> QED BY <1>4, <2>1 DEF LoadInOrder, Exact
<1> QED BY <1>1, <1>2, <1>3, <1>4

\* Everything else neither loads nor ends a load.
LEMMA NextInOrder == IndInv /\ LoadInOrder /\ [Next]_vars => LoadInOrder'
<1> SUFFICES ASSUME IndInv, LoadInOrder, [Next]_vars PROVE LoadInOrder'
  OBVIOUS
<1>1. CASE UNCHANGED vars
  BY <1>1 DEF vars, diskVars, loadVars, LoadInOrder
<1>2. CASE new \/ open
  BY <1>2 DEF new, open, LoadInOrder
<1>3. CASE find_path_entry
  <2>1. pc' = "sector" \/ (pc' = "done" /\ result' = "InvalidPath")
    BY <1>3 DEF find_path_entry, Return
  <2> QED BY <2>1 DEF LoadInOrder, Exact
<1>4. CASE read_directory_sector
  <2>1. pc' = "scan" \/ (pc' = "done" /\ result' = "Device")
    BY <1>4 DEF read_directory_sector, ReadFails, Return
  <2> QED BY <2>1 DEF LoadInOrder, Exact
<1>5. CASE next_directory_cluster
  <2>1. pc' = "sector" \/ (pc' = "done" /\ result' \in {"NotFound", "Device", "InvalidCluster"})
    BY <1>5 DEF next_directory_cluster, ReadFails, Return
  <2> QED BY <2>1 DEF LoadInOrder, Exact
<1>6. CASE scan_directory_sector
  <2>1. \/ pc' \in {"sector", "scan", "opened", "component"}
        \/ pc' = "done" /\ result' \in {"NotFound", "InvalidLongName", "NotDirectory"}
    BY <1>6 DEF scan_directory_sector, Found, Stay, Return
  <2> QED BY <2>1 DEF LoadInOrder, Exact
<1>7. CASE load_into_allocated_pages
  BY <1>7, LoadStarts
<1>8. CASE read_file_contents
  BY <1>8, ReadInOrder
<1> QED BY <1>1, <1>2, <1>3, <1>4, <1>5, <1>6, <1>7, <1>8 DEF Next, Step, Unmounted

\* A load that returns Ok delivers the bytes along the chain of clusters in
\* order, and one that calls the chain too short met its end before the size
\* was reached (read_file_contents), on every volume and for every size, zero
\* included.
THEOREM FatLoadsExactly == Spec => []LoadIsExact
<1>1. Init => LoadInOrder
  BY DEF Init, LoadInOrder
<1>2. IndInv /\ LoadInOrder => LoadIsExact
  <2> SUFFICES ASSUME IndInv, LoadInOrder PROVE LoadIsExact
    OBVIOUS
  <2> DEFINE at == FileChain(geometry, volume, entry)
             need == Need(geometry, entry)
  <2>1. at = ChainFrom(entry.cluster, need)
    BY ChainIsThat, Zenon DEF FileChain
  <2>2. pc = "done" => Exact(geometry, volume, entry, buffer, result)
    BY DEF LoadInOrder
  <2>3. DOMAIN buffer = 1..Len(buffer)
    BY DEF IndInv, Loading
  <2> HIDE DEF at, need
  <2>4. ASSUME NEW k
        PROVE  FileByte(geometry, at, k)
                 = <<cluster_first_sector(at[(k - 1) \div (geometry.sectors_per_cluster * SectorSize)])
                       + ((k - 1) % (geometry.sectors_per_cluster * SectorSize)) \div SectorSize,
                     (k - 1) % SectorSize>>
    BY Zenon DEF FileByte, cluster_first_sector
  <2>5. pc = "done" /\ result = "Ok" =>
          /\ Len(buffer) = entry.size
          /\ \A k \in DOMAIN buffer :
               buffer[k]
                 = <<cluster_first_sector(at[(k - 1) \div (geometry.sectors_per_cluster * SectorSize)])
                       + ((k - 1) % (geometry.sectors_per_cluster * SectorSize)) \div SectorSize,
                     (k - 1) % SectorSize>>
    BY <2>2, <2>3, <2>4, Zenon DEF Exact, at
  <2>6. pc = "done" /\ result = "ChainTooShort" =>
          \E k \in 1..(need - 1) : is_end_of_chain(at[k])
    BY <2>2 DEF Exact, at, need, is_end_of_chain, EndOfChain
  <2>7. need = CeilDiv(entry.size, geometry.sectors_per_cluster * SectorSize)
    BY DEF need, Need
  <2> QED BY <2>1, <2>5, <2>6, <2>7, Zenon DEF LoadIsExact
<1> QED BY <1>1, <1>2, NextInOrder, Always, PTL DEF Spec

-----------------------------------------------------------------------------
(* Directories, with geometry and disk as parameters. *)

Valid(g, c) == c >= 2 /\ c < g.total_clusters + 2
From(g, d) == IF d.root THEN g.root_cluster ELSE d.cluster
Region(g, d) == d.root /\ g.fat_type = "Fat16"
DirChain(g, v, d) == TheChain(g, v, From(g, d), g.total_clusters)

\* The first n clusters of the directory are all of them.
IsLength(g, v, d, n) ==
  /\ \A k \in 0..(n - 1) : Valid(g, DirChain(g, v, d)[k])
  /\ n < g.total_clusters => ~Valid(g, DirChain(g, v, d)[n])

ChainLength(g, v, d) == CHOOSE n \in 0..g.total_clusters : IsLength(g, v, d, n)

FirstOf(g, c) == g.data_first_sector + (c - 2) * g.sectors_per_cluster

SectorsOf(g, v, d) ==
  IF Region(g, d)
  THEN [k \in 1..g.root_dir_sectors |-> g.root_dir_first_sector + k - 1]
  ELSE [k \in 1..(ChainLength(g, v, d) * g.sectors_per_cluster) |->
          FirstOf(g, DirChain(g, v, d)[(k - 1) \div g.sectors_per_cluster])
            + ((k - 1) % g.sectors_per_cluster)]

EntriesIn(v, s) ==
  IF s \in DOMAIN v.dirs THEN v.dirs[s] ELSE [k \in 1..EntriesPerSector |-> NoEntry]

ListingOf(g, v, d) ==
  [k \in 1..(Len(SectorsOf(g, v, d)) * EntriesPerSector) |->
     EntriesIn(v, SectorsOf(g, v, d)[(k - 1) \div EntriesPerSector + 1])
       [((k - 1) % EntriesPerSector) + 1]]

LookupIn(l, name) ==
  IF Named(l, name) = {} THEN NoEntry
  ELSE l[CHOOSE p \in Named(l, name) : \A q \in Named(l, name) : p <= q]

LEMMA SectorsAreThose == \A d : DirectorySectors(d) = SectorsOf(geometry, volume, d)
<1> SUFFICES ASSUME NEW d PROVE DirectorySectors(d) = SectorsOf(geometry, volume, d)
  OBVIOUS
<1>1. ChainFrom(From(geometry, d), geometry.total_clusters) = DirChain(geometry, volume, d)
  BY ChainIsThat, Zenon DEF DirChain
<1> QED BY <1>1 DEF DirectorySectors, SectorsOf, From, Region, ChainLength, IsLength, Valid,
            is_valid_cluster, cluster_first_sector, FirstOf

LEMMA ListingIsThat == \A d : Listing(d) = ListingOf(geometry, volume, d)
  BY SectorsAreThose DEF Listing, ListingOf, DirSector, EntriesIn

LEMMA LookupIsThat == \A d, name : Lookup(d, name) = LookupIn(ListingOf(geometry, volume, d), name)
<1> SUFFICES ASSUME NEW d, NEW name
             PROVE  Lookup(d, name) = LookupIn(ListingOf(geometry, volume, d), name)
  OBVIOUS
<1>1. Listing(d) = ListingOf(geometry, volume, d)
  BY ListingIsThat
<1>2. Lookup(d, name) = LookupIn(Listing(d), name)
  BY Zenon DEF Lookup, LookupIn
<1> QED BY <1>1, <1>2, Zenon


-----------------------------------------------------------------------------
(* Paths. *)

\* The directory that component k of a path is looked for in, once the ones in
\* front of it have led to e.
DirectoryAt(k, e) == IF k = 1 THEN Root ELSE ClusterChain(e.cluster)

Along(g, v, p, k, e) ==
  IF ~e.directory THEN NoEntry ELSE LookupIn(ListingOf(g, v, DirectoryAt(k, e)), p[k])

Start == [NoEntry EXCEPT !.directory = TRUE]

\* The entries of a path, up to component n.
IsWay(at, g, v, p, n) ==
  at = [k \in 0..n |-> IF k = 0 THEN Start ELSE Along(g, v, p, k, at[k - 1])]

TheWay(g, v, p, n) == CHOOSE at : IsWay(at, g, v, p, n)

LEMMA WayExists ==
  ASSUME NEW g, NEW v, NEW p, NEW n \in Nat
  PROVE  IsWay(TheWay(g, v, p, n), g, v, p, n)
<1> DEFINE T == {m \in Nat : ~\E at : IsWay(at, g, v, p, m)}
<1> SUFFICES ASSUME T # {} PROVE FALSE
  BY DEF TheWay
<1>1. PICK m \in T : \A y \in T : m <= y
  BY LeastNumber
<1>2. m \in Nat /\ ~\E at : IsWay(at, g, v, p, m)
  OBVIOUS
<1>3. m # 0
  <2> DEFINE a == [k \in 0..0 |-> Start]
  <2>1. IsWay(a, g, v, p, 0)
    BY DEF IsWay
  <2> QED BY <1>2, <2>1
<1>4. m - 1 \in Nat /\ m - 1 \notin T
  BY <1>1, <1>2, <1>3
<1>5. PICK a : IsWay(a, g, v, p, m - 1)
  BY <1>4
<1> DEFINE h == [k \in 0..m |-> IF k = m THEN Along(g, v, p, m, a[m - 1]) ELSE a[k]]
<1>6. ASSUME NEW k \in 0..m
      PROVE  h[k] = IF k = 0 THEN Start ELSE Along(g, v, p, k, h[k - 1])
  <2>1. \A j \in 0..(m - 1) : a[j] = IF j = 0 THEN Start ELSE Along(g, v, p, j, a[j - 1])
    BY <1>5 DEF IsWay
  <2>2. CASE k = 0
    BY <1>2, <1>3, <2>1, <2>2
  <2>3. CASE k # 0
    <3>1. k - 1 \in 0..m /\ k - 1 # m /\ h[k - 1] = a[k - 1]
      BY <1>2, <2>3
    <3>2. CASE k = m
      BY <2>3, <3>1, <3>2
    <3>3. CASE k # m
      <4>1. k \in 0..(m - 1) /\ h[k] = a[k]
        BY <1>2, <3>3
      <4> QED BY <2>1, <2>3, <3>1, <4>1
    <3> QED BY <3>2, <3>3
  <2> QED BY <2>2, <2>3
<1>7. h = [k \in 0..m |-> IF k = 0 THEN Start ELSE Along(g, v, p, k, h[k - 1])]
  BY <1>6
<1> QED BY <1>2, <1>7 DEF IsWay

\* What the whole path leads to.
Way(g, v, p) == TheWay(g, v, p, Len(p))
Target(g, v, p) == Way(g, v, p)[Len(p)]

LEMMA WaySteps ==
  ASSUME NEW g, NEW v, NEW p, Len(p) \in Nat
  PROVE  /\ Way(g, v, p)[0] = Start
         /\ \A k \in 1..Len(p) : Way(g, v, p)[k] = Along(g, v, p, k, Way(g, v, p)[k - 1])
<1> DEFINE at == Way(g, v, p)
<1>1. \A k \in 0..Len(p) : at[k] = IF k = 0 THEN Start ELSE Along(g, v, p, k, at[k - 1])
  BY WayExists DEF IsWay, Way
<1> HIDE DEF at
<1>2. at[0] = Start
  BY <1>1
<1>3. ASSUME NEW k \in 1..Len(p) PROVE at[k] = Along(g, v, p, k, at[k - 1])
  BY <1>1
<1> QED BY <1>2, <1>3 DEF at

\* A way that is lost stays lost.
LEMMA Lost ==
  ASSUME NEW g, NEW v, NEW p, Len(p) \in Nat, NEW k \in 0..Len(p),
         ~Way(g, v, p)[k].directory, k < Len(p) \/ Way(g, v, p)[k] = NoEntry
  PROVE  Target(g, v, p) = NoEntry
<1> DEFINE at == Way(g, v, p)
           T == {j \in 0..Len(p) : j > k /\ at[j] # NoEntry}
<1>1. \A j \in 1..Len(p) : at[j] = Along(g, v, p, j, at[j - 1])
  BY WaySteps
<1>2. ~NoEntry.directory
  BY DEF NoEntry
<1> SUFFICES ASSUME T # {} PROVE FALSE
  BY DEF Target
<1> HIDE DEF at
<1>3. T \subseteq Nat
  OBVIOUS
<1>4. PICK j \in T : \A y \in T : j <= y
  BY <1>3, LeastNumber
<1>5. j \in 1..Len(p) /\ j - 1 \in 0..Len(p) /\ at[j] # NoEntry /\ j > k /\ j - 1 \notin T
  <2>1. j \in 0..Len(p) /\ j > k /\ at[j] # NoEntry
    BY <1>4
  <2>2. j \in 1..Len(p) /\ j - 1 \in 0..Len(p) /\ ~(j <= j - 1)
    BY <2>1
  <2>3. j - 1 \notin T
    BY <1>4, <2>2
  <2> QED BY <2>1, <2>2, <2>3
<1>6. ~at[j - 1].directory
  <2>1. CASE j - 1 = k
    BY <2>1 DEF at
  <2>2. CASE j - 1 # k
    <3>1. j - 1 > k
      BY <1>5, <2>2
    <3>2. at[j - 1] = NoEntry
      BY <1>5, <3>1
    <3> QED BY <1>2, <3>2
  <2> QED BY <2>1, <2>2
<1>7. at[j] = Along(g, v, p, j, at[j - 1])
  BY <1>1, <1>5
<1> QED BY <1>5, <1>6, <1>7 DEF Along

\* Resolved is that target.
LEMMA ResolvedIsThat == Resolved = Target(geometry, volume, path)
<1> DEFINE g == geometry
           v == volume
           n == Len(path)
<1>1. \A d, name : Lookup(d, name) = LookupIn(ListingOf(g, v, d), name)
  BY LookupIsThat
<1>2. Resolved = (CHOOSE at : at = [k \in 0..n |->
                    IF k = 0 THEN Start
                    ELSE IF ~at[k - 1].directory THEN NoEntry
                    ELSE Lookup(IF k = 1 THEN Root ELSE ClusterChain(at[k - 1].cluster), path[k])])[n]
  BY DEF Resolved, Start
<1> QED BY <1>1, <1>2 DEF Target, Way, TheWay, IsWay, Along, DirectoryAt


-----------------------------------------------------------------------------
(* Long names. *)

\* The j entries up to entry n carry the ordinals from b + 1 on, backwards, the
\* flag of a beginning in front, and one checksum.
Piece(l, n, j, b, sum) ==
  /\ b + j <= MaxOrdinal
  /\ \A i \in 1..j : /\ l[n + 1 - i].kind = "long"
                     /\ l[n + 1 - i].ordinal = b + i
                     /\ l[n + 1 - i].sum = sum
                     /\ l[n + 1 - i].last = (i = j)

\* LongNameState after n entries: the piece that ends there, if there is one.
InStep(l, n, s) ==
  /\ s.active => /\ Len(s.units) \in 1..n
                 /\ Piece(l, n, Len(s.units), s.next, s.sum)
                 /\ \A i \in 1..Len(s.units) : s.units[i] = l[n + 1 - i].text
  /\ ~s.active => \A j \in 1..n, b \in Nat : \A sum : ~Piece(l, n, j, b, sum)

\* Entries as a disk holds them.
IsListing(l) ==
  \A k \in DOMAIN l : l[k].ordinal \in Nat /\ l[k].last \in BOOLEAN

LEMMA NoNameInStep ==
  ASSUME NEW l, NEW n \in Nat, n = 0 \/ l[n].kind # "long"
  PROVE  InStep(l, n, NoName)
<1>1. ~NoName.active
  BY DEF NoName
<1>2. ASSUME NEW j \in 1..n, NEW b \in Nat, NEW sum, Piece(l, n, j, b, sum) PROVE FALSE
  <2>1. 1 \in 1..j /\ n + 1 - 1 = n /\ n # 0
    OBVIOUS
  <2>2. l[n].kind = "long"
    BY <1>2, <2>1 DEF Piece
  <2> QED BY <2>1, <2>2
<1> QED BY <1>1, <1>2 DEF InStep

\* A piece without its last entry is a piece, unless it was that entry alone.
LEMMA PieceShortens ==
  ASSUME NEW l, NEW n \in Nat, NEW j \in 2..(n + 1), NEW b \in Nat, NEW sum,
         Piece(l, n + 1, j, b, sum)
  PROVE  Piece(l, n, j - 1, b + 1, sum) /\ j - 1 \in 1..n /\ b + 1 \in Nat
<1>1. j - 1 \in 1..n /\ b + 1 \in Nat
  OBVIOUS
<1>2. (b + 1) + (j - 1) <= MaxOrdinal
  <2>1. b + j <= MaxOrdinal
    BY DEF Piece
  <2>2. (b + 1) + (j - 1) = b + j
    OBVIOUS
  <2> QED BY <2>1, <2>2
<1>3. ASSUME NEW i \in 1..(j - 1)
      PROVE  /\ l[n + 1 - i].kind = "long"
             /\ l[n + 1 - i].ordinal = (b + 1) + i
             /\ l[n + 1 - i].sum = sum
             /\ l[n + 1 - i].last = (i = j - 1)
  <2>1. /\ i + 1 \in 1..j /\ (n + 1) + 1 - (i + 1) = n + 1 - i
        /\ b + (i + 1) = (b + 1) + i /\ (i + 1 = j) = (i = j - 1)
    BY <1>1
  <2>2. /\ l[(n + 1) + 1 - (i + 1)].kind = "long"
        /\ l[(n + 1) + 1 - (i + 1)].ordinal = b + (i + 1)
        /\ l[(n + 1) + 1 - (i + 1)].sum = sum
        /\ l[(n + 1) + 1 - (i + 1)].last = (i + 1 = j)
    BY <2>1, Zenon DEF Piece
  <2> QED BY <2>1, <2>2
<1> QED BY <1>1, <1>2, <1>3 DEF Piece

\* What the entry behind a piece says of it.
LEMMA PieceEnds ==
  ASSUME NEW l, NEW n \in Nat, NEW j \in 1..n, NEW b \in Nat, NEW sum, Piece(l, n, j, b, sum)
  PROVE  /\ l[n].kind = "long" /\ l[n].ordinal = b + 1 /\ l[n].sum = sum
         /\ l[n].last = (1 = j) /\ b + 1 <= MaxOrdinal
<1>1. 1 \in 1..j /\ n + 1 - 1 = n /\ b + j <= MaxOrdinal
  BY DEF Piece
<1>2. b + 1 <= MaxOrdinal
  BY <1>1, Sizes
<1>3. /\ l[n + 1 - 1].kind = "long" /\ l[n + 1 - 1].ordinal = b + 1 /\ l[n + 1 - 1].sum = sum
      /\ l[n + 1 - 1].last = (1 = j)
  BY <1>1, Zenon DEF Piece
<1> QED BY <1>1, <1>2, <1>3

LEMMA PieceEndsNext ==
  ASSUME NEW l, NEW n \in Nat, NEW j \in 1..(n + 1), NEW b \in Nat, NEW sum,
         Piece(l, n + 1, j, b, sum)
  PROVE  /\ l[n + 1].kind = "long" /\ l[n + 1].ordinal = b + 1 /\ l[n + 1].sum = sum
         /\ l[n + 1].last = (1 = j) /\ b + 1 <= MaxOrdinal
<1>1. n + 1 \in Nat
  OBVIOUS
<1> QED BY <1>1, PieceEnds, Zenon

\* A piece grows by an entry that carries the ordinal in front of it.
LEMMA PieceGrows ==
  ASSUME NEW l, NEW n \in Nat, NEW j \in 1..n, NEW b \in Nat \ {0}, NEW sum, Piece(l, n, j, b, sum),
         l[n + 1].kind = "long", l[n + 1].ordinal = b, l[n + 1].sum = sum, l[n + 1].last = FALSE
  PROVE  Piece(l, n + 1, j + 1, b - 1, sum)
<1>1. (b - 1) + (j + 1) <= MaxOrdinal
  <2>1. b + j <= MaxOrdinal
    BY DEF Piece
  <2>2. (b - 1) + (j + 1) = b + j
    OBVIOUS
  <2> QED BY <2>1, <2>2
<1>2. ASSUME NEW i \in 1..(j + 1)
      PROVE  /\ l[(n + 1) + 1 - i].kind = "long"
             /\ l[(n + 1) + 1 - i].ordinal = (b - 1) + i
             /\ l[(n + 1) + 1 - i].sum = sum
             /\ l[(n + 1) + 1 - i].last = (i = j + 1)
  <2>1. CASE i = 1
    <3>1. (n + 1) + 1 - i = n + 1 /\ (b - 1) + i = b /\ (i = j + 1) = FALSE
      BY <2>1
    <3> QED BY <3>1
  <2>2. CASE i # 1
    <3>1. /\ i - 1 \in 1..j /\ (n + 1) + 1 - i = n + 1 - (i - 1)
          /\ (b - 1) + i = b + (i - 1) /\ (i = j + 1) = (i - 1 = j)
      BY <2>2
    <3>2. /\ l[n + 1 - (i - 1)].kind = "long" /\ l[n + 1 - (i - 1)].ordinal = b + (i - 1)
          /\ l[n + 1 - (i - 1)].sum = sum /\ l[n + 1 - (i - 1)].last = (i - 1 = j)
      BY <3>1, Zenon DEF Piece
    <3> QED BY <3>1, <3>2
  <2> QED BY <2>1, <2>2
<1> QED BY <1>1, <1>2 DEF Piece


\* Pushing a long-name entry keeps the state in step.
LEMMA PushInStep ==
  ASSUME NEW l, NEW n \in Nat, NEW s, NameSound(s), InStep(l, n, s), NEW e, e = l[n + 1],
         e.kind = "long", e.ordinal \in Nat, e.last \in BOOLEAN
  PROVE  InStep(l, n + 1, push(s, e))
<1> DEFINE p == push(s, e)
           accepts == /\ s.active /\ e.ordinal # 0 /\ e.ordinal <= s.max /\ e.sum = s.sum
                      /\ e.ordinal = s.next /\ e.ordinal <= MaxOrdinal
           N == n + 1
<1>1. N \in Nat /\ MaxOrdinal \in Nat /\ ~NoName.active
  BY Sizes DEF NoName
<1>2. CASE e.last /\ e.ordinal \in 1..MaxOrdinal
  <2>1. p = [active |-> TRUE, max |-> e.ordinal, next |-> e.ordinal - 1, sum |-> e.sum,
             units |-> <<e.text>>]
    <3> DEFINE t == IF e.last THEN [NoName EXCEPT !.active = TRUE, !.max = e.ordinal,
                                                  !.next = e.ordinal, !.sum = e.sum]
                    ELSE s
    <3>1. t = [active |-> TRUE, max |-> e.ordinal, next |-> e.ordinal, sum |-> e.sum,
               units |-> <<>>]
      BY <1>2 DEF NoName
    <3>2. e.ordinal # 0 /\ e.ordinal <= MaxOrdinal /\ e.ordinal <= e.ordinal
      BY <1>1, <1>2
    <3>3. <<e.text>> \o <<>> = <<e.text>>
      OBVIOUS
    <3>4. p = IF /\ e.ordinal # 0
                 /\ t.active /\ e.ordinal <= t.max /\ e.sum = t.sum
                 /\ e.ordinal = t.next
                 /\ e.ordinal <= MaxOrdinal
              THEN [t EXCEPT !.next = e.ordinal - 1, !.units = <<e.text>> \o t.units]
              ELSE NoName
      BY Zenon DEF push
    <3> HIDE DEF t, p
    <3>5. t.active /\ t.max = e.ordinal /\ t.next = e.ordinal /\ t.sum = e.sum /\ t.units = <<>>
      BY <3>1
    <3>6. p = [t EXCEPT !.next = e.ordinal - 1, !.units = <<e.text>>]
      BY <3>2, <3>3, <3>4, <3>5
    <3> QED BY <3>1, <3>6
  <2> HIDE DEF p
  <2>2. p.active /\ p.next = e.ordinal - 1 /\ p.sum = e.sum /\ p.units = <<e.text>>
    BY <2>1
  <2>3. Len(<<e.text>>) = 1 /\ <<e.text>>[1] = e.text
    OBVIOUS
  <2>4. Piece(l, N, 1, e.ordinal - 1, e.sum)
    <3>1. (e.ordinal - 1) + 1 = e.ordinal /\ e.ordinal <= MaxOrdinal
      BY <1>2
    <3>2. ASSUME NEW i \in 1..1
          PROVE  /\ l[N + 1 - i].kind = "long" /\ l[N + 1 - i].ordinal = (e.ordinal - 1) + i
                 /\ l[N + 1 - i].sum = e.sum /\ l[N + 1 - i].last = (i = 1)
      <4>1. i = 1 /\ N + 1 - i = n + 1
        BY <1>1
      <4> QED BY <1>2, <3>1, <4>1
    <3> QED BY <3>1, <3>2 DEF Piece
  <2>5. \A i \in 1..1 : <<e.text>>[i] = l[N + 1 - i].text
    <3>1. N + 1 - 1 = n + 1
      BY <1>1
    <3> QED BY <2>3, <3>1
  <2>6. 1 \in 1..N
    OBVIOUS
  <2>7. InStep(l, N, p)
    BY <2>2, <2>3, <2>4, <2>5, <2>6, Zenon DEF InStep
  <2> QED BY <2>7 DEF p
<1>3. CASE e.last /\ e.ordinal \notin 1..MaxOrdinal
  <2>1. p = NoName
    <3>1. e.ordinal = 0 \/ ~(e.ordinal <= MaxOrdinal)
      BY <1>1, <1>3
    <3> QED BY <3>1 DEF push
  <2>2. ASSUME NEW j \in 1..N, NEW b \in Nat, NEW sum, Piece(l, N, j, b, sum) PROVE FALSE
    <3> HIDE DEF p
    <3>3. Piece(l, n + 1, j, b, sum)
      BY <2>2
    <3>4. j \in 1..(n + 1)
      OBVIOUS
    <3>1. l[n + 1].ordinal = b + 1 /\ b + 1 <= MaxOrdinal
      BY <3>3, <3>4, PieceEndsNext
    <3>2. b + 1 \in 1..MaxOrdinal
      BY <1>1, <3>1
    <3> QED BY <1>3, <3>1, <3>2
  <2> HIDE DEF p
  <2>3. InStep(l, N, p)
    BY <1>1, <2>1, <2>2 DEF InStep
  <2> QED BY <2>3 DEF p
<1>4. CASE ~e.last /\ accepts
  <2> DEFINE u == <<e.text>> \o s.units
             j == Len(s.units)
  <2>1. p = [active |-> s.active, max |-> s.max, next |-> e.ordinal - 1, sum |-> s.sum, units |-> u]
    <3>1. p = [s EXCEPT !.next = e.ordinal - 1, !.units = u]
      BY <1>4, Zenon DEF push
    <3>2. s = [active |-> s.active, max |-> s.max, next |-> s.next, sum |-> s.sum, units |-> s.units]
      BY DEF NameSound
    <3> HIDE DEF p, u
    <3> QED BY <3>1, <3>2
  <2>2. s.units \in Seq(Text) /\ s.next \in Nat
    BY <1>1 DEF NameSound
  <2>3. /\ j \in 1..n /\ Piece(l, n, j, s.next, s.sum)
        /\ \A i \in 1..j : s.units[i] = l[n + 1 - i].text
    BY <1>4 DEF InStep
  <2>4. Len(u) = j + 1 /\ u[1] = e.text /\ \A i \in 2..(j + 1) : u[i] = s.units[i - 1]
    BY <2>2
  <2> HIDE DEF p, u, j
  <2>5. p.active /\ p.next = s.next - 1 /\ p.sum = s.sum /\ p.units = u
    BY <1>4, <2>1
  <2>6. Piece(l, N, j + 1, s.next - 1, s.sum)
    <3>1. s.next \in Nat \ {0} /\ l[n + 1].last = FALSE /\ l[n + 1].kind = "long"
          /\ l[n + 1].ordinal = s.next /\ l[n + 1].sum = s.sum
      BY <1>4, <2>2
    <3> QED BY <2>3, <3>1, PieceGrows
  <2>7. ASSUME NEW i \in 1..(j + 1) PROVE u[i] = l[N + 1 - i].text
    <3>1. CASE i = 1
      <4>1. N + 1 - i = n + 1
        BY <1>1, <3>1
      <4> QED BY <2>4, <3>1, <4>1
    <3>2. CASE i # 1
      <4>1. i \in 2..(j + 1) /\ i - 1 \in 1..j /\ n + 1 - (i - 1) = N + 1 - i
        BY <2>3, <3>2
      <4> QED BY <2>3, <2>4, <4>1
    <3> QED BY <3>1, <3>2
  <2>8. j + 1 \in 1..N
    BY <2>3
  <2>9. InStep(l, N, p)
    <3>1. p.active => /\ Len(p.units) \in 1..N
                      /\ Piece(l, N, Len(p.units), p.next, p.sum)
                      /\ \A i \in 1..Len(p.units) : p.units[i] = l[N + 1 - i].text
      BY <2>4, <2>5, <2>6, <2>7, <2>8, Zenon
    <3> QED BY <2>5, <3>1, Zenon DEF InStep
  <2> QED BY <2>9 DEF p
<1>5. CASE ~e.last /\ ~accepts
  <2>1. p = NoName
    BY <1>5, Zenon DEF push
  <2>2. ASSUME NEW j \in 1..N, NEW b \in Nat, NEW sum, Piece(l, N, j, b, sum) PROVE FALSE
    <3> HIDE DEF p
    <3>1. /\ l[n + 1].ordinal = b + 1 /\ b + 1 <= MaxOrdinal /\ l[n + 1].sum = sum
          /\ l[n + 1].last = (1 = j)
      BY <2>2, PieceEndsNext
    <3>12. j # 1
      BY <1>5, <3>1
    <3>2. j \in 2..(n + 1)
      BY <3>12
    <3>3. Piece(l, n, j - 1, b + 1, sum) /\ j - 1 \in 1..n /\ b + 1 \in Nat
      BY <2>2, <3>2, PieceShortens
    <3>4. s.active
      BY <3>3 DEF InStep
    <3>5. Len(s.units) \in 1..n /\ Piece(l, n, Len(s.units), s.next, s.sum)
      BY <3>4 DEF InStep
    <3>6. s.next \in Nat /\ s.max \in Nat /\ Len(s.units) = s.max - s.next
      BY <1>1 DEF NameSound
    <3>7. l[n].ordinal = s.next + 1 /\ l[n].sum = s.sum
      BY <3>5, <3>6, PieceEnds
    <3>8. l[n].ordinal = (b + 1) + 1 /\ l[n].sum = sum
      BY <3>3, PieceEnds
    <3>9. s.next = b + 1
      BY <3>6, <3>7, <3>8
    <3>10. e.ordinal # 0 /\ e.ordinal = s.next /\ e.ordinal <= MaxOrdinal /\ e.sum = s.sum
      BY <3>1, <3>7, <3>8, <3>9
    <3>11. e.ordinal <= s.max
      BY <3>5, <3>6, <3>10
    <3> QED BY <1>5, <3>4, <3>10, <3>11
  <2> HIDE DEF p
  <2>3. InStep(l, N, p)
    BY <1>1, <2>1, <2>2 DEF InStep
  <2> QED BY <2>3 DEF p
<1> QED BY <1>2, <1>3, <1>4, <1>5


\* A long name in front of a short entry is a piece from the first ordinal on.
LEMMA LongNameIsPiece ==
  ASSUME NEW l, NEW n \in Nat, NEW k \in Nat
  PROVE  LongNameOf(l, n + 1, k) <=> k \in 1..n /\ Piece(l, n, k, 0, l[n + 1].sum)
<1>1. MaxOrdinal \in Nat
  BY Sizes
<1>2. (k \in 1..MaxOrdinal /\ k < n + 1) <=> (k \in 1..n /\ 0 + k <= MaxOrdinal)
  BY <1>1
<1>3. \A i \in 1..k : 0 + i = i
  OBVIOUS
<1> QED BY <1>2, <1>3 DEF LongNameOf, Piece

LEMMA LongNameUnique ==
  ASSUME NEW l, NEW p, NEW j \in Nat, NEW k \in Nat, LongNameOf(l, p, j), LongNameOf(l, p, k)
  PROVE  j = k
<1>1. j \in 1..j /\ k \in 1..k
  BY DEF LongNameOf
<1>2. l[p - j].last = (j = j) /\ l[p - k].last = (k = k)
  BY <1>1, Zenon DEF LongNameOf
<1>3. CASE j \in 1..k
  <2>1. l[p - j].last = (j = k)
    BY <1>3, Zenon DEF LongNameOf
  <2> QED BY <1>2, <2>1
<1>4. CASE k \in 1..j
  <2>1. l[p - k].last = (k = j)
    BY <1>4, Zenon DEF LongNameOf
  <2> QED BY <1>2, <2>1
<1> QED BY <1>1, <1>3, <1>4

\* The name that the scan compares is the name of the entry.
LEMMA EntryNameIs ==
  ASSUME NEW l, NEW n \in Nat, NEW s, NameSound(s), InStep(l, n, s), NEW e, e = l[n + 1]
  PROVE  NameOf(s, e) = EntryName(l, n + 1)
<1> DEFINE p == n + 1
           k0 == Len(s.units)
<1>1. s.next \in Nat /\ s.units \in Seq(Text) /\ MaxOrdinal \in Nat
  BY Sizes DEF NameSound
<1>2. CASE matches_entry(s, e)
  <2>1. /\ k0 \in 1..n /\ Piece(l, n, k0, 0, e.sum)
        /\ \A i \in 1..k0 : s.units[i] = l[n + 1 - i].text
    BY <1>2 DEF matches_entry, InStep
  <2>2. LongNameOf(l, p, k0) /\ k0 \in 1..MaxOrdinal
    <3>1. LongNameOf(l, n + 1, k0)
      BY <2>1, LongNameIsPiece
    <3> QED BY <3>1 DEF LongNameOf
  <2> DEFINE k == CHOOSE k \in 1..MaxOrdinal : LongNameOf(l, p, k)
  <2>3. k \in 1..MaxOrdinal /\ LongNameOf(l, p, k)
    BY <2>2
  <2>4. EntryName(l, p) = [j \in 1..k |-> l[p - j].text]
    BY <2>2 DEF EntryName
  <2> HIDE DEF k, p
  <2>5. k = k0
    BY <1>1, <2>2, <2>3, LongNameUnique
  <2>6. s.units = [j \in 1..k0 |-> l[n + 1 - j].text]
    <3>1. s.units = [j \in 1..k0 |-> s.units[j]]
      BY <1>1
    <3> QED BY <2>1, <3>1, Zenon
  <2>7. NameOf(s, e) = s.units
    BY <1>2 DEF NameOf
  <2> QED BY <2>4, <2>5, <2>6, <2>7 DEF p
<1>3. CASE ~matches_entry(s, e)
  <2>1. ASSUME NEW k \in 1..MaxOrdinal, LongNameOf(l, p, k) PROVE FALSE
    <3>1. k \in 1..n /\ Piece(l, n, k, 0, e.sum)
      BY <2>1, LongNameIsPiece
    <3>2. s.active
      BY <3>1 DEF InStep
    <3>3. k0 \in 1..n /\ Piece(l, n, k0, s.next, s.sum)
      BY <3>2 DEF InStep
    <3>4. l[n].ordinal = 0 + 1 /\ l[n].sum = e.sum
      BY <3>1, PieceEnds
    <3>5. l[n].ordinal = s.next + 1 /\ l[n].sum = s.sum
      BY <1>1, <3>3, PieceEnds
    <3>6. s.next = 0
      BY <1>1, <3>4, <3>5
    <3> QED BY <1>3, <3>2, <3>4, <3>5, <3>6 DEF matches_entry
  <2>2. EntryName(l, p) = <<e.text>>
    BY <2>1 DEF EntryName
  <2> QED BY <1>3, <2>2 DEF NameOf
<1> QED BY <1>2, <1>3


-----------------------------------------------------------------------------
(* The place of the scan in a directory. *)

Sized(g) ==
  g.sectors_per_cluster \in Nat \ {0} /\ g.total_clusters \in Nat /\ g.root_dir_sectors \in Nat

\* The chain of the directory has an end.
Ends(g, v, d) == \E n \in 0..g.total_clusters : ~Valid(g, DirChain(g, v, d)[n])

LEMMA LengthIs ==
  ASSUME NEW g, NEW v, NEW d, Sized(g)
  PROVE  /\ ChainLength(g, v, d) \in 0..g.total_clusters
         /\ \A k \in 0..(ChainLength(g, v, d) - 1) : Valid(g, DirChain(g, v, d)[k])
         /\ Ends(g, v, d) => ~Valid(g, DirChain(g, v, d)[ChainLength(g, v, d)])
<1> DEFINE n == g.total_clusters
           at == DirChain(g, v, d)
           L == ChainLength(g, v, d)
           T == {k \in 0..n : ~Valid(g, at[k])}
<1>1. n \in Nat
  BY DEF Sized
<1> HIDE DEF n, at, L
<1>2. \E m \in 0..n : /\ \A k \in 0..(m - 1) : Valid(g, at[k])
                      /\ m < n => ~Valid(g, at[m])
  <2>1. CASE T = {}
    <3>1. n \in 0..n /\ ~(n < n)
      BY <1>1
    <3>2. \A k \in 0..(n - 1) : Valid(g, at[k])
      BY <1>1, <2>1
    <3> QED BY <3>1, <3>2
  <2>2. CASE T # {}
    <3>1. T \subseteq Nat
      BY <1>1
    <3>2. PICK m \in T : \A y \in T : m <= y
      BY <2>2, <3>1, LeastNumber
    <3>3. m \in 0..n /\ ~Valid(g, at[m])
      OBVIOUS
    <3>4. ASSUME NEW k \in 0..(m - 1) PROVE Valid(g, at[k])
      <4>1. k \in 0..n /\ ~(m <= k)
        BY <1>1, <3>3
      <4> QED BY <3>2, <4>1
    <3> QED BY <3>3, <3>4
  <2> QED BY <2>1, <2>2
<1>3. \E m \in 0..n : IsLength(g, v, d, m)
  BY <1>2 DEF IsLength, at, n
<1>4. L \in 0..n /\ IsLength(g, v, d, L)
  BY <1>3 DEF L, ChainLength, n
<1>5. \A k \in 0..(L - 1) : Valid(g, at[k])
  BY <1>4 DEF IsLength, at
<1>6. ASSUME Ends(g, v, d) PROVE ~Valid(g, at[L])
  <2>1. PICK m \in 0..n : ~Valid(g, at[m])
    BY <1>6 DEF Ends, n, at
  <2>2. L < n => ~Valid(g, at[L])
    BY <1>4 DEF IsLength, at, n
  <2>3. m \notin 0..(L - 1)
    BY <1>5, <2>1
  <2>4. CASE L < n
    BY <2>2, <2>4
  <2>5. CASE ~(L < n)
    <3>1. m = L
      BY <1>1, <1>4, <2>3, <2>5
    <3> QED BY <2>1, <3>1
  <2> QED BY <2>4, <2>5
<1> QED BY <1>4, <1>5, <1>6 DEF L, n, at

\* The scan, at sector s of the region or of cluster c, has i sectors of the
\* directory behind it.
Here(g, v, d, c, s, i) ==
  IF Region(g, d) THEN s = i /\ i \in 0..g.root_dir_sectors
  ELSE \E m \in 0..ChainLength(g, v, d) :
         /\ DirChain(g, v, d)[m] = c
         /\ s \in 0..g.sectors_per_cluster /\ i = m * g.sectors_per_cluster + s
         /\ m = ChainLength(g, v, d) => s = 0

More(g, d, c, s) ==
  IF Region(g, d) THEN s < g.root_dir_sectors ELSE s < g.sectors_per_cluster /\ Valid(g, c)

SectorOf(g, d, c, s) ==
  IF Region(g, d) THEN g.root_dir_first_sector + s ELSE FirstOf(g, c) + s

LEMMA SectorsLen ==
  ASSUME NEW g, NEW v, NEW d, Sized(g)
  PROVE  /\ Len(SectorsOf(g, v, d)) \in Nat
         /\ Region(g, d) => Len(SectorsOf(g, v, d)) = g.root_dir_sectors
         /\ ~Region(g, d) =>
              Len(SectorsOf(g, v, d)) = ChainLength(g, v, d) * g.sectors_per_cluster
<1> DEFINE L == ChainLength(g, v, d)
           spc == g.sectors_per_cluster
<1>1. L \in Nat
  BY LengthIs DEF Sized
<1>2. spc \in Nat /\ g.root_dir_sectors \in Nat
  BY DEF Sized
<1> HIDE DEF L, spc
<1>3. L * spc \in Nat
  BY <1>1, <1>2
<1>4. CASE Region(g, d)
  BY <1>2, <1>4 DEF SectorsOf
<1>5. CASE ~Region(g, d)
  <2>1. SectorsOf(g, v, d) = [k \in 1..(L * spc) |->
          FirstOf(g, DirChain(g, v, d)[(k - 1) \div spc]) + ((k - 1) % spc)]
    BY <1>5, Zenon DEF SectorsOf, L, spc
  <2>2. Len(SectorsOf(g, v, d)) = L * spc
    BY <1>3, <2>1
  <2> QED BY <1>3, <1>5, <2>2 DEF L, spc
<1> QED BY <1>4, <1>5

\* The scan begins in front of the first sector.
LEMMA HereStarts ==
  ASSUME NEW g, NEW v, NEW d, Sized(g)
  PROVE  Here(g, v, d, From(g, d), 0, 0)
<1> DEFINE L == ChainLength(g, v, d)
           spc == g.sectors_per_cluster
<1>1. CASE Region(g, d)
  BY <1>1 DEF Here, Sized
<1>2. CASE ~Region(g, d)
  <2>1. g.total_clusters \in Nat /\ spc \in Nat
    BY DEF Sized
  <2>2. DirChain(g, v, d)[0] = From(g, d)
    BY <2>1, ChainSteps DEF DirChain
  <2>3. 0 \in 0..L
    BY <2>1, LengthIs
  <2> HIDE DEF L, spc
  <2>4. 0 \in 0..spc /\ 0 = 0 * spc + 0
    BY <2>1
  <2> QED BY <1>2, <2>2, <2>3, <2>4 DEF Here, L, spc
<1> QED BY <1>1, <1>2


\* While there is more, the next sector of the directory is the one that the
\* scan reads.
LEMMA HereMore ==
  ASSUME NEW g, NEW v, NEW d, Sized(g), Region(g, d) \/ Ends(g, v, d), NEW c, NEW s, NEW i,
         Here(g, v, d, c, s, i), More(g, d, c, s)
  PROVE  /\ i \in Nat /\ i < Len(SectorsOf(g, v, d))
         /\ SectorsOf(g, v, d)[i + 1] = SectorOf(g, d, c, s)
         /\ Here(g, v, d, c, s + 1, i + 1)
<1> DEFINE L == ChainLength(g, v, d)
           spc == g.sectors_per_cluster
           at == DirChain(g, v, d)
<1>1. CASE Region(g, d)
  <2>1. s = i /\ i \in 0..g.root_dir_sectors /\ s < g.root_dir_sectors /\ g.root_dir_sectors \in Nat
    BY <1>1 DEF Here, More, Sized
  <2>2. i \in Nat /\ i < Len(SectorsOf(g, v, d)) /\ i + 1 \in 1..g.root_dir_sectors
        /\ (i + 1) - 1 = i
    BY <1>1, <2>1, SectorsLen
  <2>3. SectorsOf(g, v, d) = [k \in 1..g.root_dir_sectors |-> g.root_dir_first_sector + k - 1]
    BY <1>1 DEF SectorsOf
  <2>4. SectorsOf(g, v, d)[i + 1] = g.root_dir_first_sector + (i + 1) - 1
    BY <2>2, <2>3
  <2>5. SectorsOf(g, v, d)[i + 1] = SectorOf(g, d, c, s)
    BY <1>1, <2>1, <2>4 DEF SectorOf
  <2>6. Here(g, v, d, c, s + 1, i + 1)
    BY <1>1, <2>1, <2>2 DEF Here
  <2> QED BY <2>2, <2>5, <2>6
<1>2. CASE ~Region(g, d)
  <2>1. s < spc /\ Valid(g, c) /\ spc \in Nat \ {0}
    BY <1>2 DEF More, Sized
  <2>2. PICK m \in 0..L : at[m] = c /\ s \in 0..spc /\ i = m * spc + s
    BY <1>2 DEF Here
  <2>3. L \in Nat /\ ~Valid(g, at[L])
    BY <1>2, LengthIs DEF Sized
  <2> HIDE DEF L, spc, at
  <2>4. m \in Nat /\ m < L /\ s \in Nat /\ m + 1 <= L
    BY <2>1, <2>2, <2>3
  <2>5. m * spc \in Nat /\ i \in Nat /\ (m + 1) * spc = m * spc + spc /\ i + 1 = m * spc + (s + 1)
    BY <2>1, <2>2, <2>4
  <2>6. (m + 1) * spc <= L * spc /\ L * spc \in Nat
    <3>1. spc * (m + 1) <= spc * L
      BY <2>1, <2>3, <2>4
    <3> QED BY <2>1, <2>3, <2>4, <3>1
  <2>7. i < L * spc /\ i + 1 \in 1..(L * spc) /\ (i + 1) - 1 = m * spc + s
    BY <2>1, <2>2, <2>4, <2>5, <2>6
  <2>8. Len(SectorsOf(g, v, d)) = L * spc
    BY <1>2, SectorsLen DEF L, spc
  <2>9. SectorsOf(g, v, d) = [k \in 1..(L * spc) |->
          FirstOf(g, at[(k - 1) \div spc]) + ((k - 1) % spc)]
    BY <1>2, Zenon DEF SectorsOf, L, spc, at
  <2>10. (m * spc + s) \div spc = m /\ (m * spc + s) % spc = s
    BY <2>1, <2>4, DivModIs
  <2>11. SectorsOf(g, v, d)[i + 1] = FirstOf(g, at[m]) + s
    <3>1. SectorsOf(g, v, d)[i + 1]
            = FirstOf(g, at[((i + 1) - 1) \div spc]) + (((i + 1) - 1) % spc)
      BY <2>7, <2>9
    <3> QED BY <2>7, <2>10, <3>1, Zenon
  <2>12. SectorsOf(g, v, d)[i + 1] = SectorOf(g, d, c, s)
    BY <1>2, <2>2, <2>11 DEF SectorOf
  <2>13. Here(g, v, d, c, s + 1, i + 1)
    <3>1. s + 1 \in 0..spc /\ m # L
      BY <2>1, <2>3, <2>4
    <3> QED BY <1>2, <2>2, <2>5, <3>1 DEF Here, L, spc, at
  <2> QED BY <2>5, <2>7, <2>8, <2>12, <2>13
<1> QED BY <1>1, <1>2

LEMMA HereReads ==
  \A g, v, d, c, s : \A i \in Nat :
    Sized(g) /\ (Region(g, d) \/ Ends(g, v, d)) /\ Here(g, v, d, c, s, i) /\ More(g, d, c, s) =>
      SectorsOf(g, v, d)[i + 1] = SectorOf(g, d, c, s)
<1> SUFFICES ASSUME NEW g, NEW v, NEW d, NEW c, NEW s, NEW i \in Nat, Sized(g),
                    Region(g, d) \/ Ends(g, v, d), Here(g, v, d, c, s, i), More(g, d, c, s)
             PROVE  SectorsOf(g, v, d)[i + 1] = SectorOf(g, d, c, s)
  OBVIOUS
<1> QED BY HereMore

\* Where there is no cluster left, the directory is through.
LEMMA HereEnd ==
  ASSUME NEW g, NEW v, NEW d, Sized(g), NEW c, NEW s, NEW i,
         Here(g, v, d, c, s, i), ~More(g, d, c, s), Region(g, d) \/ ~Valid(g, c)
  PROVE  i = Len(SectorsOf(g, v, d))
<1> DEFINE L == ChainLength(g, v, d)
           spc == g.sectors_per_cluster
           at == DirChain(g, v, d)
<1>1. CASE Region(g, d)
  BY <1>1, SectorsLen DEF Here, More, Sized
<1>2. CASE ~Region(g, d)
  <2>1. PICK m \in 0..L : /\ at[m] = c /\ s \in 0..spc /\ i = m * spc + s
                          /\ m = L => s = 0
    BY <1>2 DEF Here
  <2>2. L \in Nat /\ spc \in Nat /\ \A k \in 0..(L - 1) : Valid(g, at[k])
    BY LengthIs DEF Sized
  <2>3. Len(SectorsOf(g, v, d)) = L * spc
    BY <1>2, SectorsLen
  <2> HIDE DEF L, spc, at
  <2>4. m \notin 0..(L - 1)
    BY <1>2, <2>1, <2>2
  <2>5. m = L
    BY <2>2, <2>4
  <2>6. i = L * spc + 0
    BY <2>1, <2>5
  <2>7. L * spc \in Nat
    BY <2>2
  <2> QED BY <2>3, <2>6, <2>7
<1> QED BY <1>1, <1>2

\* Behind a cluster comes the next one.
LEMMA HereNext ==
  ASSUME NEW g, NEW v, NEW d, Sized(g), Ends(g, v, d), ~Region(g, d), NEW c, NEW s, NEW i,
         Here(g, v, d, c, s, i), ~More(g, d, c, s), Valid(g, c)
  PROVE  /\ Here(g, v, d, Follow(g, v, c), 0, i)
         /\ ~Valid(g, Follow(g, v, c)) => i = Len(SectorsOf(g, v, d))
<1> DEFINE L == ChainLength(g, v, d)
           spc == g.sectors_per_cluster
           at == DirChain(g, v, d)
           n == g.total_clusters
           nx == Follow(g, v, c)
<1>1. PICK m \in 0..L : at[m] = c /\ s \in 0..spc /\ i = m * spc + s
  BY DEF Here
<1>2. L \in 0..n /\ n \in Nat /\ ~Valid(g, at[L]) /\ spc \in Nat \ {0} /\ ~(s < spc)
  BY LengthIs DEF Sized, More
<1>3. \A k \in 0..(n - 1) : at[k + 1] = Follow(g, v, at[k])
  BY <1>2, ChainSteps DEF DirChain
<1> HIDE DEF L, spc, at, n
<1>4. m \in Nat /\ m < L /\ m + 1 \in 0..L /\ m \in 0..(n - 1) /\ s = spc
  BY <1>1, <1>2
<1>5. at[m + 1] = nx
  BY <1>1, <1>3, <1>4
<1>6. i = (m + 1) * spc + 0 /\ 0 \in 0..spc
  BY <1>1, <1>2, <1>4
<1>7. Here(g, v, d, nx, 0, i)
  BY <1>4, <1>5, <1>6 DEF Here, L, spc, at
<1>8. ASSUME ~Valid(g, nx) PROVE i = Len(SectorsOf(g, v, d))
  <2>1. ~More(g, d, nx, 0)
    BY <1>8 DEF More
  <2> HIDE DEF nx
  <2> QED BY <1>7, <1>8, <2>1, HereEnd
<1> QED BY <1>7, <1>8


-----------------------------------------------------------------------------
(* The place of the scan in the listing. *)

LEMMA EntriesPositive == EntriesPerSector \in Nat \ {0}
<1> DEFINE n == SectorSize \div DirEntrySize
<1>1. SectorSize \in Nat \ {0} /\ DirEntrySize \in Nat \ {0} /\ SectorSize % DirEntrySize = 0
  BY SizeAssumption
<1>2. n \in Nat /\ SectorSize = DirEntrySize * n + (SectorSize % DirEntrySize)
  BY <1>1
<1> HIDE DEF n
<1>3. n # 0
  BY <1>1, <1>2
<1> QED BY <1>2, <1>3 DEF EntriesPerSector, n

LEMMA ListingLen ==
  ASSUME NEW g, NEW v, NEW d, Sized(g)
  PROVE  /\ Len(ListingOf(g, v, d)) = Len(SectorsOf(g, v, d)) * EntriesPerSector
         /\ Len(ListingOf(g, v, d)) \in Nat
         /\ DOMAIN ListingOf(g, v, d) = 1..Len(ListingOf(g, v, d))
<1> DEFINE S == SectorsOf(g, v, d)
           n == EntriesPerSector
           N == Len(S) * n
<1>1. Len(S) \in Nat /\ n \in Nat
  BY SectorsLen, EntriesPositive
<1> HIDE DEF S, n
<1>2. N \in Nat
  BY <1>1
<1>3. ListingOf(g, v, d) = [k \in 1..N |-> EntriesIn(v, S[(k - 1) \div n + 1])[((k - 1) % n) + 1]]
  BY Zenon DEF ListingOf, S, n
<1> HIDE DEF N
<1>4. Len(ListingOf(g, v, d)) = N /\ DOMAIN ListingOf(g, v, d) = 1..N
  BY <1>2, <1>3
<1> QED BY <1>2, <1>4 DEF N, S, n

\* Entry o of the sector that is next is the entry that many places on.
LEMMA ListingAt ==
  ASSUME NEW g, NEW v, NEW d, Sized(g), NEW i \in Nat, i < Len(SectorsOf(g, v, d)),
         NEW o \in 1..EntriesPerSector
  PROVE  /\ i * EntriesPerSector + o \in 1..Len(ListingOf(g, v, d))
         /\ ListingOf(g, v, d)[i * EntriesPerSector + o]
              = EntriesIn(v, SectorsOf(g, v, d)[i + 1])[o]
<1> DEFINE S == SectorsOf(g, v, d)
           n == EntriesPerSector
           N == Len(S) * n
           k0 == i * n + o
<1>1. Len(S) \in Nat /\ n \in Nat \ {0} /\ i < Len(S) /\ o \in 1..n
  BY SectorsLen, EntriesPositive
<1>2. Len(ListingOf(g, v, d)) = N
  BY ListingLen
<1>3. ListingOf(g, v, d) = [k \in 1..N |-> EntriesIn(v, S[(k - 1) \div n + 1])[((k - 1) % n) + 1]]
  BY Zenon DEF ListingOf
<1> HIDE DEF S, n
<1>4. i * n + n <= N /\ i * n \in Nat /\ N \in Nat
  <2>1. n * (i + 1) <= n * Len(S)
    BY <1>1
  <2> QED BY <1>1, <2>1
<1>5. k0 \in 1..N /\ k0 - 1 = i * n + (o - 1) /\ o - 1 \in Nat /\ o - 1 < n
  BY <1>1, <1>4
<1>6. (i * n + (o - 1)) \div n = i /\ (i * n + (o - 1)) % n = o - 1
  BY <1>1, <1>5, DivModIs, ZenonT(60)
<1>7. (k0 - 1) \div n = i /\ (k0 - 1) % n = o - 1
  BY <1>5, <1>6, Zenon
<1> HIDE DEF N, k0
<1>8. ListingOf(g, v, d)[k0] = EntriesIn(v, S[(k0 - 1) \div n + 1])[((k0 - 1) % n) + 1]
  BY <1>3, <1>5, Zenon
<1>9. (o - 1) + 1 = o
  BY <1>1
<1>10. ListingOf(g, v, d)[k0] = EntriesIn(v, S[i + 1])[o]
  BY <1>7, <1>8, <1>9, Zenon
<1> QED BY <1>2, <1>5, <1>10 DEF k0, S, n

\* The scan is k entries into the listing: none of them ends the directory or
\* has the name, and the long-name state is in step.
Passed(l, name, k, s) ==
  /\ k \in 0..Len(l)
  /\ \A q \in 1..k : l[q].kind # "end" /\ ~(l[q].kind = "short" /\ EntryName(l, q) = name)
  /\ InStep(l, k, s)

LEMMA NothingPassed ==
  ASSUME NEW l, Len(l) \in Nat, NEW name
  PROVE  Passed(l, name, 0, NoName)
  BY NoNameInStep DEF Passed

LEMMA PassOne ==
  ASSUME NEW l, Len(l) \in Nat, NEW name, NEW k \in Nat, NEW s, Passed(l, name, k, s),
         k + 1 \in 1..Len(l), l[k + 1].kind # "end",
         ~(l[k + 1].kind = "short" /\ EntryName(l, k + 1) = name),
         NEW t, InStep(l, k + 1, t)
  PROVE  Passed(l, name, k + 1, t)
<1>1. ASSUME NEW q \in 1..(k + 1)
      PROVE  l[q].kind # "end" /\ ~(l[q].kind = "short" /\ EntryName(l, q) = name)
  <2>1. q \in 1..k \/ q = k + 1
    OBVIOUS
  <2> QED BY <2>1 DEF Passed
<1>2. k + 1 \in 0..Len(l)
  OBVIOUS
<1> QED BY <1>1, <1>2, Zenon DEF Passed

\* The first entry of that name.
LEMMA FoundIsFirst ==
  ASSUME NEW l, Len(l) \in Nat, DOMAIN l = 1..Len(l), NEW name, NEW k \in Nat, NEW s,
         Passed(l, name, k, s), k + 1 \in 1..Len(l),
         l[k + 1].kind = "short", EntryName(l, k + 1) = name
  PROVE  LookupIn(l, name) = l[k + 1]
<1> DEFINE H == Named(l, name)
<1>1. ASSUME NEW q \in 1..(k + 1) PROVE l[q].kind # "end"
  <2>1. q \in 1..k \/ q = k + 1
    OBVIOUS
  <2> QED BY <2>1 DEF Passed
<1>2. k + 1 \in H
  BY <1>1, Zenon DEF Named
<1>3. ASSUME NEW q \in H PROVE q \in Nat /\ k + 1 <= q
  <2>1. q \in 1..Len(l) /\ l[q].kind = "short" /\ EntryName(l, q) = name
    BY DEF Named
  <2>2. q \notin 1..k
    BY <2>1 DEF Passed
  <2> QED BY <2>1, <2>2
<1> DEFINE p == CHOOSE p \in H : \A q \in H : p <= q
<1>4. p \in H /\ \A q \in H : p <= q
  BY <1>2, <1>3
<1>5. LookupIn(l, name) = l[p]
  BY <1>2, Zenon DEF LookupIn
<1> HIDE DEF p, H
<1>6. p = k + 1
  BY <1>2, <1>3, <1>4
<1> QED BY <1>5, <1>6

LEMMA Behind ==
  \A n, k \in Nat : \A q : q \in 1..n /\ q \notin 1..k => k + 1 \in 1..q /\ k # n
  OBVIOUS

\* No entry of that name: the listing ends, or its last sector is through.
LEMMA NoneFound ==
  ASSUME NEW l, Len(l) \in Nat, DOMAIN l = 1..Len(l), NEW name, NEW k \in Nat, NEW s,
         Passed(l, name, k, s), k = Len(l) \/ (k + 1 \in 1..Len(l) /\ l[k + 1].kind = "end")
  PROVE  LookupIn(l, name) = NoEntry
<1>1. ASSUME NEW q \in Named(l, name) PROVE FALSE
  <2>1. /\ q \in 1..Len(l) /\ l[q].kind = "short" /\ EntryName(l, q) = name
        /\ \A r \in 1..q : l[r].kind # "end"
    BY DEF Named
  <2>2. q \notin 1..k
    BY <2>1 DEF Passed
  <2>3. q \in 1..Len(l)
    BY <2>1
  <2>4. k + 1 \in 1..q /\ k # Len(l)
    BY <2>2, <2>3, Behind, Zenon
  <2> QED BY <2>1, <2>4
<1> QED BY <1>1 DEF LookupIn


-----------------------------------------------------------------------------
(* The search. *)

\* Component n of the path is looked for in the directory that the ones in
\* front of it lead to.
Searching(g, v, p, n, d) ==
  /\ n \in 1..Len(p)
  /\ Way(g, v, p)[n - 1].directory
  /\ d = DirectoryAt(n, Way(g, v, p)[n - 1])

\* The scan has the sectors behind it, and k entries of the next one.
Scanned(g, v, name, d, c, s, k, t) ==
  \E i \in Nat : /\ Here(g, v, d, c, s, i)
                 /\ Passed(ListingOf(g, v, d), name, i * EntriesPerSector + k, t)

FoundInOrder ==
  /\ pc = "component" /\ path # <<>> => Searching(geometry, volume, path, depth, directory)
  /\ pc \in {"sector", "scan"} => Searching(geometry, volume, path, depth, directory)
  /\ pc = "sector" => Scanned(geometry, volume, path[depth], directory, cluster, sector, 0, lfn)
  /\ pc = "scan" => /\ More(geometry, directory, cluster, sector)
                    /\ Scanned(geometry, volume, path[depth], directory, cluster, sector,
                               offset - 1, lfn)
  /\ pc = "opened" => entry = Target(geometry, volume, path)
  /\ pc = "done" /\ result \in {"NotFound", "NotDirectory"} =>
       Target(geometry, volume, path) = NoEntry

LEMMA WayGoesOn ==
  ASSUME NEW g, NEW v, NEW p, Len(p) \in Nat, NEW n, NEW d, Searching(g, v, p, n, d)
  PROVE  n \in 1..Len(p) /\ Way(g, v, p)[n] = LookupIn(ListingOf(g, v, d), p[n])
<1>1. n \in 1..Len(p) /\ Way(g, v, p)[n - 1].directory /\ d = DirectoryAt(n, Way(g, v, p)[n - 1])
  BY DEF Searching
<1>2. Way(g, v, p)[n] = Along(g, v, p, n, Way(g, v, p)[n - 1])
  BY <1>1, WaySteps
<1> QED BY <1>1, <1>2, Zenon DEF Along

\* A name that is not there.
LEMMA Misses ==
  ASSUME NEW g, NEW v, NEW p, Len(p) \in Nat, NEW n, NEW d, Searching(g, v, p, n, d),
         LookupIn(ListingOf(g, v, d), p[n]) = NoEntry
  PROVE  Target(g, v, p) = NoEntry
<1>1. n \in 1..Len(p) /\ Way(g, v, p)[n] = NoEntry
  BY WayGoesOn
<1>2. ~NoEntry.directory
  BY DEF NoEntry
<1>3. n \in 0..Len(p)
  BY <1>1
<1> QED BY <1>1, <1>2, <1>3, Lost

\* What the names of the model's state are.
LEMMA StateIs ==
  ASSUME IndInv, pc \notin {"mount", "unmounted"}
  PROVE  /\ Sized(geometry)
         /\ ScansRegion <=> Region(geometry, directory)
         /\ MoreSectors <=> More(geometry, directory, cluster, sector)
         /\ SectorAt = SectorOf(geometry, directory, cluster, sector)
         /\ \A s : DirSector(s) = EntriesIn(volume, s)
         /\ \A c : is_valid_cluster(c) <=> Valid(geometry, c)
<1>1. Sized(geometry)
  BY GeometryFits DEF IndInv, Sized
<1> QED BY <1>1 DEF ScansRegion, Region, MoreSectors, More, SectorAt, SectorOf, DirSector, EntriesIn,
            is_valid_cluster, Valid, cluster_first_sector, FirstOf

LEMMA EndsHere ==
  ASSUME DirectoryEnds, pc \in {"sector", "scan"}
  PROVE  Region(geometry, directory) \/ Ends(geometry, volume, directory)
<1> DEFINE from == IF directory.root THEN geometry.root_cluster ELSE directory.cluster
<1>1. ChainFrom(from, geometry.total_clusters) = DirChain(geometry, volume, directory)
  BY ChainIsThat, Zenon DEF DirChain, From
<1> QED BY <1>1 DEF DirectoryEnds, Ends, ScansRegion, Region, is_valid_cluster, Valid

LEMMA FindInOrder ==
  ASSUME IndInv, FoundInOrder, find_path_entry
  PROVE  FoundInOrder'
<1>1. /\ pc = "component" /\ UNCHANGED <<volume, geometry, path, depth, directory>>
      /\ \/ pc' = "done" /\ result' = "InvalidPath"
         \/ /\ path # <<>> /\ sector' = 0 /\ lfn' = NoName /\ pc' = "sector"
            /\ cluster' = From(geometry, directory)
  BY DEF find_path_entry, Return, diskVars, IsName, From
<1>2. CASE pc' = "done" /\ result' = "InvalidPath"
  BY <1>2 DEF FoundInOrder
<1>3. CASE path # <<>> /\ sector' = 0 /\ lfn' = NoName /\ pc' = "sector"
           /\ cluster' = From(geometry, directory)
  <2> DEFINE l == ListingOf(geometry, volume, directory)
  <2>1. Searching(geometry, volume, path, depth, directory)
    BY <1>1, <1>3 DEF FoundInOrder
  <2>2. Sized(geometry)
    BY <1>1, StateIs
  <2>3. Here(geometry, volume, directory, From(geometry, directory), 0, 0)
    BY <2>2, HereStarts
  <2>4. Len(l) \in Nat
    BY <2>2, ListingLen
  <2>5. Passed(l, path[depth], 0, NoName)
    BY <2>4, NothingPassed
  <2>6. 0 * EntriesPerSector + 0 = 0 /\ 0 \in Nat
    BY EntriesPositive
  <2> HIDE DEF l
  <2>7. Scanned(geometry, volume, path[depth], directory, From(geometry, directory), 0, 0, NoName)
    BY <2>3, <2>5, <2>6 DEF Scanned, l
  <2> QED BY <1>1, <1>3, <2>1, <2>7 DEF FoundInOrder
<1> QED BY <1>1, <1>2, <1>3

LEMMA ReadInStep ==
  ASSUME IndInv, FoundInOrder, read_directory_sector
  PROVE  FoundInOrder'
<1>1. /\ pc = "sector" /\ MoreSectors
      /\ UNCHANGED <<volume, geometry, path, depth, directory, cluster, sector, lfn>>
      /\ \/ pc' = "done" /\ result' = "Device"
         \/ pc' = "scan" /\ offset' = 1
  BY DEF read_directory_sector, ReadFails, Return, diskVars
<1>2. CASE pc' = "done" /\ result' = "Device"
  BY <1>2 DEF FoundInOrder
<1>3. CASE pc' = "scan" /\ offset' = 1
  <2>1. /\ Searching(geometry, volume, path, depth, directory)
        /\ Scanned(geometry, volume, path[depth], directory, cluster, sector, 0, lfn)
    BY <1>1 DEF FoundInOrder
  <2>2. More(geometry, directory, cluster, sector)
    BY <1>1, StateIs
  <2>3. offset' - 1 = 0
    BY <1>3
  <2> QED BY <1>1, <1>3, <2>1, <2>2, <2>3 DEF FoundInOrder
<1> QED BY <1>1, <1>2, <1>3


\* The region or the cluster is through: the chain goes on, or nothing is left.
LEMMA NextInStep ==
  ASSUME MarkersAreFree, DirectoryEnds, IndInv, FoundInOrder, next_directory_cluster
  PROVE  FoundInOrder'
<1> DEFINE g == geometry
           v == volume
           d == directory
           next == next_cluster(cluster)
           l == ListingOf(g, v, d)
<1>1. /\ pc = "sector" /\ ~MoreSectors
      /\ UNCHANGED <<volume, geometry, path, depth, directory, lfn>>
      /\ \/ pc' = "done" /\ result' \in {"Device", "InvalidCluster"}
         \/ /\ ScansRegion \/ ~is_valid_cluster(cluster)
            /\ pc' = "done"
         \/ /\ ~ScansRegion /\ is_valid_cluster(cluster) /\ is_end_of_chain(next)
            /\ pc' = "done"
         \/ /\ ~ScansRegion /\ is_valid_cluster(cluster)
            /\ pc' = "sector" /\ cluster' = next /\ sector' = 0
  BY Zenon DEF next_directory_cluster, ReadFails, Return, diskVars
<1>2. /\ Sized(g) /\ ~More(g, d, cluster, sector)
      /\ ScansRegion <=> Region(g, d)
      /\ is_valid_cluster(cluster) <=> Valid(g, cluster)
  BY <1>1, StateIs
<1>3. Region(g, d) \/ Ends(g, v, d)
  BY <1>1, EndsHere
<1>4. Searching(g, v, path, depth, d) /\ Len(path) \in Nat /\ cluster \in Nat
  BY <1>1 DEF FoundInOrder, IndInv, Scanning
<1>5. PICK i \in Nat : /\ Here(g, v, d, cluster, sector, i)
                       /\ Passed(l, path[depth], i * EntriesPerSector + 0, lfn)
  BY <1>1 DEF FoundInOrder, Scanned
<1>6. i * EntriesPerSector + 0 \in Nat
  BY EntriesPositive
<1>7. ASSUME i = Len(SectorsOf(g, v, d)) PROVE Target(g, v, path) = NoEntry
  <2>1. /\ Len(l) = Len(SectorsOf(g, v, d)) * EntriesPerSector /\ Len(l) \in Nat
        /\ DOMAIN l = 1..Len(l)
    BY <1>2, ListingLen
  <2>2. i * EntriesPerSector + 0 = Len(l)
    BY <1>6, <1>7, <2>1, EntriesPositive
  <2> HIDE DEF l
  <2>3. LookupIn(l, path[depth]) = NoEntry
    BY <1>5, <1>6, <2>1, <2>2, NoneFound
  <2> QED BY <1>4, <2>3, Misses DEF l
<1>8. CASE pc' = "done" /\ result' \in {"Device", "InvalidCluster"}
  BY <1>8 DEF FoundInOrder
<1>9. CASE (ScansRegion \/ ~is_valid_cluster(cluster)) /\ pc' = "done"
  <2>1. i = Len(SectorsOf(g, v, d))
    BY <1>2, <1>5, <1>9, HereEnd
  <2> QED BY <1>1, <1>7, <1>9, <2>1 DEF FoundInOrder
<1>10. ASSUME ~ScansRegion, is_valid_cluster(cluster)
       PROVE  /\ Here(g, v, d, next, 0, i)
              /\ ~Valid(g, next) => i = Len(SectorsOf(g, v, d))
  <2>1. Follow(g, v, cluster) = next
    BY <1>10, ChainIsThat
  <2>2. ~Region(g, d) /\ Ends(g, v, d) /\ Valid(g, cluster)
    BY <1>2, <1>3, <1>10
  <2>3. /\ Here(g, v, d, Follow(g, v, cluster), 0, i)
        /\ ~Valid(g, Follow(g, v, cluster)) => i = Len(SectorsOf(g, v, d))
    BY <1>2, <1>5, <2>2, HereNext
  <2> QED BY <2>1, <2>3, Zenon
<1>11. CASE ~ScansRegion /\ is_valid_cluster(cluster) /\ is_end_of_chain(next) /\ pc' = "done"
  <2>1. Mounted
    BY DEF IndInv
  <2>2. next \in Nat
    BY <1>1, <1>4, <1>11, <2>1, NextTyped
  <2>3. /\ volume \in Volumes /\ MountError(volume.boot) = "none"
        /\ geometry.total_clusters = TotalClusters(volume.boot)
        /\ geometry.fat_type = FatType(volume.boot)
    BY <1>1, <2>1 DEF Mounted, Geometry
  <2>4. geometry.total_clusters + 2 < EndOfChain
    BY <2>3 DEF MarkersAreFree, EndOfChain
  <2>5. EndOfChain \in Nat /\ geometry.total_clusters \in Nat
    BY <1>2, SizeAssumption DEF EndOfChain, Sized
  <2>6. next >= EndOfChain
    BY <1>11 DEF is_end_of_chain
  <2> HIDE DEF next
  <2>7. ~Valid(g, next)
    BY <2>2, <2>4, <2>5, <2>6 DEF Valid
  <2>8. i = Len(SectorsOf(g, v, d))
    BY <1>10, <1>11, <2>7
  <2> QED BY <1>1, <1>7, <1>11, <2>8 DEF FoundInOrder
<1>12. CASE ~ScansRegion /\ is_valid_cluster(cluster) /\ pc' = "sector" /\ cluster' = next /\ sector' = 0
  <2>1. Scanned(g, v, path[depth], d, next, 0, 0, lfn)
    BY <1>5, <1>10, <1>12, Zenon DEF Scanned
  <2> QED BY <1>1, <1>4, <1>12, <2>1 DEF FoundInOrder
<1> QED BY <1>1, <1>8, <1>9, <1>11, <1>12


LEMMA EntryFlags ==
  ASSUME volume \in Volumes, NEW s, NEW k \in 1..EntriesPerSector
  PROVE  DirSector(s)[k].last \in BOOLEAN
<1>1. CASE s \in DOMAIN volume.dirs
  <2> DEFINE e == volume.dirs[s][k]
  <2>1. {e.last, e.directory} \subseteq BOOLEAN
    BY <1>1, VolumeAssumption, Zenon
  <2>2. DirSector(s)[k] = e
    BY <1>1 DEF DirSector
  <2> HIDE DEF e
  <2> QED BY <2>1, <2>2
<1>2. CASE s \notin DOMAIN volume.dirs
  BY <1>2 DEF DirSector, NoEntry
<1> QED BY <1>1, <1>2

\* The entry under the scan is the next one of the listing.
LEMMA ScanIsNext ==
  ASSUME DirectoryEnds, IndInv, FoundInOrder, pc = "scan", offset <= EntriesPerSector
  PROVE  LET l == ListingOf(geometry, volume, directory)
         IN \E i \in Nat, k \in Nat :
              /\ Here(geometry, volume, directory, cluster, sector, i)
              /\ k = i * EntriesPerSector + (offset - 1)
              /\ k + 1 = i * EntriesPerSector + ((offset + 1) - 1)
              /\ Passed(l, path[depth], k, lfn)
              /\ k + 1 \in 1..Len(l)
              /\ l[k + 1] = DirSector(SectorAt)[offset]
<1> DEFINE g == geometry
           v == volume
           d == directory
           l == ListingOf(g, v, d)
<1>1. /\ Sized(g) /\ SectorAt = SectorOf(g, d, cluster, sector)
      /\ \A s : DirSector(s) = EntriesIn(v, s)
  BY StateIs
<1>2. Region(g, d) \/ Ends(g, v, d)
  BY EndsHere
<1>3. More(g, d, cluster, sector)
  BY DEF FoundInOrder
<1>4. PICK i \in Nat : /\ Here(g, v, d, cluster, sector, i)
                       /\ Passed(l, path[depth], i * EntriesPerSector + (offset - 1), lfn)
  BY DEF FoundInOrder, Scanned
<1>5. /\ i < Len(SectorsOf(g, v, d))
      /\ SectorsOf(g, v, d)[i + 1] = SectorOf(g, d, cluster, sector)
  <2>1. Sized(g) /\ Here(g, v, d, cluster, sector, i)
    BY <1>1, <1>4
  <2> HIDE DEF g, v, d, l
  <2>2. i < Len(SectorsOf(g, v, d))
    BY <1>2, <1>3, <2>1, HereMore
  <2>3. SectorsOf(g, v, d)[i + 1] = SectorOf(g, d, cluster, sector)
    BY <1>2, <1>3, <2>1, HereReads
  <2> QED BY <2>2, <2>3
<1>6. offset \in 1..EntriesPerSector /\ EntriesPerSector \in Nat
  BY EntriesPositive DEF IndInv, Scanning
<1>7. /\ i * EntriesPerSector + offset \in 1..Len(l)
      /\ l[i * EntriesPerSector + offset] = EntriesIn(v, SectorsOf(g, v, d)[i + 1])[offset]
  BY <1>1, <1>5, <1>6, ListingAt
<1> DEFINE k == i * EntriesPerSector + (offset - 1)
<1>8. k \in Nat /\ k + 1 = i * EntriesPerSector + offset /\ (offset + 1) - 1 = offset
  BY <1>6
<1> HIDE DEF l, k
<1>9. l[k + 1] = DirSector(SectorAt)[offset]
  BY <1>1, <1>5, <1>7, <1>8
<1>10. Passed(l, path[depth], k, lfn)
  BY <1>4 DEF k
<1>11. k + 1 \in 1..Len(l) /\ k = i * EntriesPerSector + (offset - 1)
       /\ k + 1 = i * EntriesPerSector + ((offset + 1) - 1)
  BY <1>7, <1>8 DEF k
<1> QED BY <1>4, <1>8, <1>9, <1>10, <1>11 DEF l

\* The sector is through.
LEMMA SectorInStep ==
  ASSUME DirectoryEnds, IndInv, FoundInOrder, pc = "scan", offset > EntriesPerSector,
         pc' = "sector", sector' = sector + 1,
         UNCHANGED <<volume, geometry, path, depth, directory, cluster, lfn>>
  PROVE  FoundInOrder'
<1> DEFINE g == geometry
           v == volume
           d == directory
           n == EntriesPerSector
<1>1. Sized(g) /\ (Region(g, d) \/ Ends(g, v, d)) /\ More(g, d, cluster, sector)
  BY StateIs, EndsHere DEF FoundInOrder
<1>2. PICK i \in Nat : /\ Here(g, v, d, cluster, sector, i)
                       /\ Passed(ListingOf(g, v, d), path[depth], i * n + (offset - 1), lfn)
  BY DEF FoundInOrder, Scanned
<1>3. Here(g, v, d, cluster, sector + 1, i + 1)
  BY <1>1, <1>2, HereMore
<1>4. offset = n + 1 /\ n \in Nat
  BY EntriesPositive DEF IndInv, Scanning
<1> HIDE DEF n
<1>5. i * n + (offset - 1) = (i + 1) * n + 0 /\ i + 1 \in Nat
  BY <1>4
<1>6. Scanned(g, v, path[depth], d, cluster, sector + 1, 0, lfn)
  BY <1>2, <1>3, <1>5, Zenon DEF Scanned, n
<1>7. Searching(g, v, path, depth, d)
  BY DEF FoundInOrder
<1> QED BY <1>6, <1>7 DEF FoundInOrder

\* One entry more is behind the scan.
LEMMA EntryInStep ==
  ASSUME IndInv, FoundInOrder, pc = "scan", pc' = "scan", offset' = offset + 1,
         UNCHANGED <<volume, geometry, path, depth, directory, cluster, sector>>,
         NEW i \in Nat, Here(geometry, volume, directory, cluster, sector, i),
         Passed(ListingOf(geometry, volume, directory), path[depth],
                i * EntriesPerSector + ((offset + 1) - 1), lfn')
  PROVE  FoundInOrder'
<1>1. /\ Searching(geometry, volume, path, depth, directory)
      /\ More(geometry, directory, cluster, sector)
  BY DEF FoundInOrder
<1>2. Scanned(geometry, volume, path[depth], directory, cluster, sector, (offset + 1) - 1, lfn')
  BY Zenon DEF Scanned
<1> QED BY <1>1, <1>2 DEF FoundInOrder


\* One turn of the loop over the entries of a sector.
LEMMA ScanInOrder ==
  ASSUME DirectoryEnds, IndInv, FoundInOrder, scan_directory_sector
  PROVE  FoundInOrder'
<1> DEFINE g == geometry
           v == volume
           d == directory
           l == ListingOf(g, v, d)
           e == DirSector(SectorAt)[offset]
<1>1. pc = "scan" /\ UNCHANGED <<volume, geometry, path, cluster>>
  BY DEF scan_directory_sector, diskVars
<1>2. CASE /\ offset > EntriesPerSector /\ sector' = sector + 1 /\ pc' = "sector"
           /\ UNCHANGED <<lfn, directory, depth>>
  BY <1>1, <1>2, SectorInStep
<1>3. ASSUME offset <= EntriesPerSector, UNCHANGED sector,
             \/ e.kind = "end" /\ pc' = "done" /\ UNCHANGED <<directory, depth>>
             \/ /\ e.kind \in {"deleted", "label"} /\ lfn' = NoName
                /\ offset' = offset + 1 /\ UNCHANGED <<pc, directory, depth>>
             \/ /\ e.kind = "long" /\ lfn' = push(lfn, e)
                /\ offset' = offset + 1 /\ UNCHANGED <<pc, directory, depth>>
             \/ pc' = "done" /\ result' = "InvalidLongName"
             \/ /\ e.kind = "short" /\ lfn' = NoName
                /\ NameOf(lfn, e) = path[depth] /\ Found(e)
             \/ /\ e.kind = "short" /\ lfn' = NoName
                /\ NameOf(lfn, e) # path[depth]
                /\ offset' = offset + 1 /\ UNCHANGED <<pc, directory, depth>>
      PROVE  FoundInOrder'
  <2>1. PICK i \in Nat, k \in Nat :
              /\ Here(g, v, d, cluster, sector, i)
              /\ k + 1 = i * EntriesPerSector + ((offset + 1) - 1)
              /\ Passed(l, path[depth], k, lfn)
              /\ k + 1 \in 1..Len(l)
              /\ l[k + 1] = e
    BY <1>1, <1>3, ScanIsNext
  <2>2. Len(l) \in Nat /\ DOMAIN l = 1..Len(l)
    BY <1>1, StateIs, ListingLen
  <2>3. /\ offset \in 1..EntriesPerSector /\ volume \in Volumes /\ NameSound(lfn)
        /\ Searching(g, v, path, depth, d) /\ Len(path) \in Nat /\ depth \in 1..Len(path)
    BY <1>1, <1>3, EntriesPositive DEF IndInv, Scanning, Mounted, FoundInOrder, Searching
  <2>4. e.ordinal \in Nat /\ e.last \in BOOLEAN
    BY <2>3, EntryTyped, EntryFlags
  <2>5. InStep(l, k, lfn)
    BY <2>1 DEF Passed
  <2> HIDE DEF l, e, g, v, d
  <2>6. NameOf(lfn, e) = EntryName(l, k + 1)
    BY <2>1, <2>3, <2>5, EntryNameIs
  <2>7. ASSUME e.kind # "end", ~(e.kind = "short" /\ EntryName(l, k + 1) = path[depth]),
               InStep(l, k + 1, lfn'),
               offset' = offset + 1, UNCHANGED <<pc, directory, depth>>
        PROVE  FoundInOrder'
    <3>1. Passed(l, path[depth], k + 1, lfn')
      BY <2>1, <2>2, <2>7, PassOne
    <3>2. Passed(l, path[depth], i * EntriesPerSector + ((offset + 1) - 1), lfn')
      BY <2>1, <3>1
    <3> QED BY <1>1, <1>3, <2>1, <2>7, <3>2, EntryInStep DEF l, g, v, d
  <2>8. CASE e.kind = "end" /\ pc' = "done" /\ UNCHANGED <<directory, depth>>
    <3>1. LookupIn(l, path[depth]) = NoEntry
      BY <2>1, <2>2, <2>8, NoneFound
    <3>2. Target(g, v, path) = NoEntry
      BY <2>3, <3>1, Misses DEF l
    <3> QED BY <1>1, <2>8, <3>2 DEF FoundInOrder, g, v
  <2>9. CASE /\ e.kind \in {"deleted", "label"} /\ lfn' = NoName
             /\ offset' = offset + 1 /\ UNCHANGED <<pc, directory, depth>>
    <3>1. InStep(l, k + 1, lfn')
      BY <2>1, <2>9, NoNameInStep
    <3> QED BY <2>7, <2>9, <3>1
  <2>10. CASE /\ e.kind = "long" /\ lfn' = push(lfn, e)
              /\ offset' = offset + 1 /\ UNCHANGED <<pc, directory, depth>>
    <3>1. InStep(l, k + 1, lfn')
      BY <2>1, <2>3, <2>4, <2>5, <2>10, PushInStep
    <3> QED BY <2>7, <2>10, <3>1
  <2>11. CASE pc' = "done" /\ result' = "InvalidLongName"
    BY <2>11 DEF FoundInOrder
  <2>12. CASE /\ e.kind = "short" /\ lfn' = NoName /\ NameOf(lfn, e) # path[depth]
              /\ offset' = offset + 1 /\ UNCHANGED <<pc, directory, depth>>
    <3>1. InStep(l, k + 1, lfn')
      BY <2>1, <2>12, NoNameInStep
    <3> QED BY <2>6, <2>7, <2>12, <3>1
  <2>13. CASE e.kind = "short" /\ NameOf(lfn, e) = path[depth] /\ Found(e)
    <3>1. LookupIn(l, path[depth]) = e
      BY <2>1, <2>2, <2>6, <2>13, FoundIsFirst
    <3>2. Way(g, v, path)[depth] = e
      BY <2>3, <3>1, WayGoesOn DEF l
    <3>3. /\ entry' = e
          /\ \/ depth = Len(path) /\ pc' = "opened"
             \/ depth < Len(path) /\ ~e.directory /\ pc' = "done"
             \/ /\ depth < Len(path) /\ e.directory /\ pc' = "component"
                /\ directory' = ClusterChain(e.cluster) /\ depth' = depth + 1
      BY <2>13 DEF Found, Return
    <3>4. CASE depth = Len(path) /\ pc' = "opened"
      <4>1. Target(g, v, path) = e
        BY <3>2, <3>4 DEF Target
      <4> QED BY <1>1, <3>3, <3>4, <4>1 DEF FoundInOrder, g, v
    <3>5. CASE depth < Len(path) /\ ~e.directory /\ pc' = "done"
      <4>1. depth \in 0..Len(path)
        BY <2>3
      <4>2. Target(g, v, path) = NoEntry
        BY <2>3, <3>2, <3>5, <4>1, Lost
      <4> QED BY <1>1, <3>5, <4>2 DEF FoundInOrder, g, v
    <3>6. CASE /\ depth < Len(path) /\ e.directory /\ pc' = "component"
               /\ directory' = ClusterChain(e.cluster) /\ depth' = depth + 1
      <4>1. depth + 1 \in 1..Len(path) /\ (depth + 1) - 1 = depth /\ depth + 1 # 1
        BY <2>3, <3>6
      <4>2. Searching(g, v, path, depth + 1, ClusterChain(e.cluster))
        BY <3>2, <3>6, <4>1 DEF Searching, DirectoryAt
      <4> QED BY <1>1, <3>6, <4>2 DEF FoundInOrder, g, v
    <3> QED BY <3>3, <3>4, <3>5, <3>6
  <2> QED BY <1>3, <2>8, <2>9, <2>10, <2>11, <2>12, <2>13
<1>4. \/ /\ offset > EntriesPerSector /\ sector' = sector + 1 /\ pc' = "sector"
         /\ UNCHANGED <<lfn, directory, depth>>
      \/ /\ offset <= EntriesPerSector /\ UNCHANGED sector
         /\ \/ e.kind = "end" /\ pc' = "done" /\ UNCHANGED <<directory, depth>>
            \/ /\ e.kind \in {"deleted", "label"} /\ lfn' = NoName
               /\ offset' = offset + 1 /\ UNCHANGED <<pc, directory, depth>>
            \/ /\ e.kind = "long" /\ lfn' = push(lfn, e)
               /\ offset' = offset + 1 /\ UNCHANGED <<pc, directory, depth>>
            \/ pc' = "done" /\ result' = "InvalidLongName"
            \/ /\ e.kind = "short" /\ lfn' = NoName
               /\ NameOf(lfn, e) = path[depth] /\ Found(e)
            \/ /\ e.kind = "short" /\ lfn' = NoName
               /\ NameOf(lfn, e) # path[depth]
               /\ offset' = offset + 1 /\ UNCHANGED <<pc, directory, depth>>
  BY Zenon DEF scan_directory_sector, Stay, Return
<1> QED BY <1>2, <1>3, <1>4

LEMMA NextFound ==
  ASSUME MarkersAreFree
  PROVE  DirectoryEnds /\ IndInv /\ FoundInOrder /\ [Next]_vars => FoundInOrder'
<1> SUFFICES ASSUME DirectoryEnds, IndInv, FoundInOrder, [Next]_vars PROVE FoundInOrder'
  OBVIOUS
<1>1. CASE UNCHANGED vars
  BY <1>1 DEF vars, diskVars, findVars, loadVars, FoundInOrder
<1>2. CASE new
  BY <1>2 DEF new, FoundInOrder
<1>3. CASE open
  <2>1. /\ pc' = "component" /\ depth' = 1 /\ directory' = Root /\ path' \in Paths
        /\ UNCHANGED <<volume, geometry>>
    BY <1>3 DEF open, diskVars
  <2> DEFINE p == path'
  <2>2. Len(p) \in Nat /\ p = [k \in 1..Len(p) |-> p[k]]
    BY <2>1, PathAssumption
  <2> HIDE DEF p
  <2>3. ASSUME p # <<>> PROVE Searching(geometry, volume, p, 1, Root)
    <3>1. Len(p) # 0
      BY <2>2, <2>3
    <3>2. 1 \in 1..Len(p) /\ 1 - 1 = 0
      BY <2>2, <3>1
    <3>3. Way(geometry, volume, p)[0] = Start
      BY <2>2, WaySteps
    <3>4. Start.directory
      BY DEF Start, NoEntry
    <3> QED BY <3>2, <3>3, <3>4 DEF Searching, DirectoryAt
  <2> QED BY <2>1, <2>3 DEF FoundInOrder, p
<1>4. CASE find_path_entry
  BY <1>4, FindInOrder
<1>5. CASE read_directory_sector
  BY <1>5, ReadInStep
<1>6. CASE next_directory_cluster
  BY <1>6, NextInStep
<1>7. CASE scan_directory_sector
  BY <1>7, ScanInOrder
<1>8. CASE load_into_allocated_pages
  <2>1. \/ pc' = "read"
        \/ pc' = "done" /\ result' \in {"IsDirectory", "Memory", "Ok", "InvalidCluster"}
    BY <1>8 DEF load_into_allocated_pages, Return
  <2> QED BY <2>1 DEF FoundInOrder
<1>9. CASE read_file_contents
  <2>1. \/ pc' = "read"
        \/ pc' = "done" /\ result' \in {"Ok", "Device", "InvalidCluster", "ChainTooShort"}
    BY <1>9 DEF read_file_contents, ReadFails, Return
  <2> QED BY <2>1 DEF FoundInOrder
<1> QED BY <1>1, <1>2, <1>3, <1>4, <1>5, <1>6, <1>7, <1>8, <1>9 DEF Next, Step, Unmounted

\* On every volume whose directories end and whose clusters have no marker's
\* number, open (find_path_entry, find_directory_entry) finds the first entry
\* of that name in each directory of the path, with long names spread over
\* sectors and clusters, and reports NotFound or NotDirectory only when the
\* path leads nowhere.
THEOREM FatOpensExactly ==
  ASSUME MarkersAreFree
  PROVE  Spec /\ []DirectoryEnds => []OpenIsExact
<1>1. Init => FoundInOrder
  BY DEF Init, FoundInOrder
<1>2. FoundInOrder => OpenIsExact
  BY ResolvedIsThat DEF FoundInOrder, OpenIsExact
<1> QED BY <1>1, <1>2, NextFound, Always, PTL DEF Spec

=============================================================================
