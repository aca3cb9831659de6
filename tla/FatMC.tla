------------------------------- MODULE FatMC -------------------------------
(***************************************************************************)
(* Small FAT volumes.  A sector has two bytes or two directory entries.    *)
(***************************************************************************)
EXTENDS Fat, TLC

Long(ordinal, last, sum, text) ==
  [NoEntry EXCEPT !.kind = "long", !.ordinal = ordinal, !.last = last, !.sum = sum,
                  !.text = text]
File(text, sum, c, size) ==
  [NoEntry EXCEPT !.kind = "short", !.text = text, !.sum = sum, !.cluster = c, !.size = size]
Dir(text, sum, c) ==
  [NoEntry EXCEPT !.kind = "short", !.text = text, !.sum = sum, !.directory = TRUE,
                  !.cluster = c]
Deleted == [NoEntry EXCEPT !.kind = "deleted"]
Label   == [NoEntry EXCEPT !.kind = "label"]

Boot(spc, rootEntries, total, rootCluster) ==
  [bytes_per_sector |-> SectorSize, sectors_per_cluster |-> spc,
   reserved_sector_count |-> 1, fat_count |-> 1, root_dir_entries |-> rootEntries,
   total_sectors_16 |-> total, total_sectors_32 |-> 0, fat_size_16 |-> 1,
   fat_size_32 |-> 0, root_cluster |-> rootCluster]

Table(a, b, c, d) == [k \in 0..8 |->
  CASE k = 2 -> a [] k = 3 -> b [] k = 4 -> c [] k = 5 -> d [] OTHER -> Fat16Eoc]

\* Entries in front of the file "s" or the directory "x": pieces of the long
\* name x y, in and out of order, for this or for another entry, and what
\* interrupts them.
Fronts == {NoEntry, Deleted, Label, Long(1, TRUE, 1, "x"), Long(2, TRUE, 1, "y"),
           Long(1, FALSE, 1, "x"), Long(1, FALSE, 2, "x"), Long(1, TRUE, 1, "?"),
           Long(2, FALSE, 1, "x"), Long(3, TRUE, 1, "y"), File("s", 1, 3, 2)}

\* What is in the root directory of these volumes, sector by sector, with the
\* directory x in a third sector.
NameDirs(first, second, third) ==
  {first :> <<a, b>> @@ second :> <<c, d>> @@ third :> <<File("s", 1, 3, 1), NoEntry>> :
    a \in Fronts, b \in Fronts, c \in Fronts, d \in {File("s", 1, 3, 1), Dir("x", 2, 4)}}

\* A FAT32 root directory in clusters 2 and 5, whose table entries have upper
\* bits set, and a FAT16 one in sectors 2 and 3.
NameVolumes ==
  [boot : {Boot(1, 0, 6, 2)}, dirs : NameDirs(2, 5, 4),
   fat : {Table(5 + Fat32Modulus, Fat32Eoc, Fat32Eoc, Fat32Eoc + Fat32Modulus)}]
  \cup
  [boot : {Boot(1, 4, 7, 0)}, dirs : NameDirs(2, 3, 6),
   fat : {Table(Fat16Eoc, Fat16Eoc, Fat16Eoc, Fat16Eoc)}]

\* A file on every table of three clusters: circles, wrong ends, bad clusters.
Entries == {2, 3, 4, 6, Fat16Eoc - 1, Fat16Eoc}
ChainVolumes ==
  [boot : {Boot(spc, 1, 3 + 3 * spc, 0) : spc \in {1, 2}},
   dirs : {2 :> <<File("s", 1, first, size), NoEntry>> :
             first \in {2, 4, 5}, size \in {0, 1, 3, 4, 8}},
   fat : {Table(a, b, c, Fat16Eoc) : a \in Entries, b \in Entries, c \in Entries}]

\* A directory whose chain is cut short by a bad or an impossible cluster.
DirectoryVolumes ==
  [boot : {Boot(2, 0, 10, 2)},
   dirs : {2 :> <<Label, Deleted>> @@ 3 :> <<Label, Long(1, TRUE, 1, "x")>>
             @@ 6 :> <<File("s", 1, 3, 7), NoEntry>>},
   fat : {Table(a, 5, 0, Fat32Eoc) : a \in {0, 4, 7, Fat32Eoc - 1, Fat32Eoc}}]

\* Boot sectors.
BootVolumes ==
  [boot : [bytes_per_sector : {1, SectorSize}, sectors_per_cluster : 0..2,
           reserved_sector_count : 0..1, fat_count : 0..2, root_dir_entries : {0, 3},
           total_sectors_16 : {0, 6}, total_sectors_32 : {0, 9}, fat_size_16 : 0..1,
           fat_size_32 : {0, 2}, root_cluster : {1, 2}],
   dirs : {2 :> <<File("s", 1, 6, 3), NoEntry>>},
   fat : {Table(Fat16Eoc, Fat16Eoc, Fat16Eoc, Fat16Eoc)}]

AllVolumes == NameVolumes \cup ChainVolumes \cup DirectoryVolumes \cup BootVolumes

AllPaths == {<<>>, <<<<"s">>>>, <<<<"x", "y">>>>, <<<<"x">>, <<"s">>>>}
=============================================================================
