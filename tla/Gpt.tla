-------------------------------- MODULE Gpt --------------------------------
(***************************************************************************)
(* The partition-table reader (gpt.rs): the primary header, the backup     *)
(* header when the primary one is refused, the check of the entry array    *)
(* against its CRC, and single entries.                                    *)
(*                                                                         *)
(* The disk is what partitioning tools left behind, possibly in the middle *)
(* of an update.  The bytes of an entry array come in chunks of the        *)
(* smallest entry size, keyed by their address in chunks; the first chunk  *)
(* of an entry holds its fields.  A CRC is the bytes it was computed over: *)
(* collisions are left out.                                                *)
(***************************************************************************)
EXTENDS Integers, Sequences

CONSTANTS
  SectorSize,     \* VIRTIO_SECTOR_SIZE
  HeaderMinSize,  \* GPT_HEADER_MIN_SIZE
  EntryMinSize,   \* GPT_ENTRY_MIN_SIZE
  LbaModulus,     \* 2^64
  Disks,          \* disks
  MayFail         \* {"read"} where reads may fail

ASSUME SizeAssumption ==
  /\ {SectorSize, EntryMinSize, LbaModulus} \subseteq Nat \ {0}
  /\ SectorSize % EntryMinSize = 0
  /\ MayFail \subseteq {"read"}

\* Nothing else is assumed of a disk.
ASSUME DiskAssumption ==
  \A d \in Disks :
    /\ d.sector_count \in Nat
    /\ \A lba \in DOMAIN d.headers :
         LET h == d.headers[lba]
         IN {h.partition_entry_lba, h.partition_entry_count, h.partition_entry_size}
              \subseteq Nat

VARIABLES
  device,      \* the disk: its size, header sectors, chunks, and the tables that were
               \* written to it
  pc,          \* where the reader is
  copy,        \* header being read: "primary" or "backup"
  header,      \* header of the table, once its fields were accepted
  current,     \* current_lba of verify_entry_array_crc
  remaining,   \* bytes it still has to read
  crc,         \* the chunks it has read
  failed,      \* a read failed in this call of new
  entries,     \* what partition() returned for each index of this table
  last         \* sectors that the last read_blocks of partition() covered

scanVars == <<current, remaining, crc>>
vars == <<device, pc, copy, header, scanVars, failed, entries, last>>

-----------------------------------------------------------------------------
Chunks == SectorSize \div EntryMinSize

NoHeader == [partition_entry_lba |-> 0, partition_entry_count |-> 0, partition_entry_size |-> 0]
NoEntry == [type |-> "unused", first_lba |-> 0, last_lba |-> 0]
NoTable == [i \in {} |-> i]

Zero(f, a) == IF a \in DOMAIN f THEN f[a] ELSE NoEntry

\* The bytes of a sector, cut off behind `take` bytes.
SectorChunks(lba, take) ==
  [k \in 1..(take \div EntryMinSize) |-> Zero(device.chunks, lba * Chunks + k - 1)]

Readable(lba) == lba < device.sector_count

-----------------------------------------------------------------------------
(* read_header_at. *)

CopyLba(c) == IF c = "primary" THEN 1 ELSE device.sector_count - 1

HeaderLba == CopyLba(copy)

\* A sector that holds no header has no signature.
HeaderAt(lba) ==
  IF lba \in DOMAIN device.headers THEN device.headers[lba] ELSE [signature |-> FALSE]

HeaderSector == HeaderAt(HeaderLba)

ArrayBytes(h) == h.partition_entry_count * h.partition_entry_size
ArraySectors(h) == (ArrayBytes(h) + SectorSize - 1) \div SectorSize
ArrayEnd(h) == h.partition_entry_lba + ArraySectors(h)

\* Mutant: only the first sector of the array has to be on the disk.
ArrayFits_start(h) ==
  /\ h.partition_entry_lba # 0
  /\ h.partition_entry_lba < device.sector_count

ArrayFits(h) ==
  /\ ArrayEnd(h) < LbaModulus
  /\ h.partition_entry_lba # 0
  /\ ArrayEnd(h) <= device.sector_count

\* The checks of read_header_at on the sector read at header_lba.
Accepted(h, header_lba) ==
  /\ h.signature
  /\ h.header_size \in HeaderMinSize..SectorSize
  /\ h.header_crc
  /\ h.current_lba = header_lba
  /\ h.backup_lba < device.sector_count /\ h.backup_lba # h.current_lba
  /\ h.first_usable_lba <= h.last_usable_lba
  /\ h.last_usable_lba < device.sector_count
  /\ h.partition_entry_count # 0
  /\ h.partition_entry_size >= EntryMinSize
  /\ h.partition_entry_size % EntryMinSize = 0
  /\ ArrayFits(h)
  /\ header_lba \notin h.partition_entry_lba..(ArrayEnd(h) - 1)

-----------------------------------------------------------------------------
Init ==
  /\ device \in Disks
  /\ pc = "closed"
  /\ copy = "primary"
  /\ header = NoHeader
  /\ current = 0
  /\ remaining = 0
  /\ crc = <<>>
  /\ failed = FALSE
  /\ entries = NoTable
  /\ last = {}

\* GptPartitionTable::new, also on a disk that was opened before.
new ==
  /\ pc \in {"closed", "none", "open"}
  /\ pc' = "header"
  /\ copy' = "primary"
  /\ header' = NoHeader
  /\ failed' = FALSE
  /\ entries' = NoTable
  /\ last' = {}
  /\ UNCHANGED <<device, scanVars>>

\* Mutant: there is no second header.
HeaderRefused_at_once == pc' = "none" /\ UNCHANGED copy

\* Mutant: each copy is tried when the other one is refused.
HeaderRefused_again ==
  pc' = "header" /\ copy' = IF copy = "primary" THEN "backup" ELSE "primary"

\* A copy is refused: read_backup_header, or no table.
HeaderRefused ==
  IF copy = "primary" /\ device.sector_count > 0
  THEN pc' = "header" /\ copy' = "backup"
  ELSE pc' = "none" /\ UNCHANGED copy

\* A read that fails, and one that the device refuses.
ReadFails(lba) ==
  /\ "read" \in MayFail \/ ~Readable(lba)
  /\ failed' = (failed \/ Readable(lba))

read_header_at ==
  /\ pc = "header"
  /\ \/ /\ ReadFails(HeaderLba)
        /\ HeaderRefused
        /\ UNCHANGED <<header, scanVars>>
     \/ /\ Readable(HeaderLba) /\ (HeaderSector.signature => ~Accepted(HeaderSector, HeaderLba))
        /\ HeaderRefused
        /\ UNCHANGED <<header, scanVars, failed>>
     \/ /\ Readable(HeaderLba) /\ HeaderSector.signature
        /\ Accepted(HeaderSector, HeaderLba)
        /\ header' = [partition_entry_lba |-> HeaderSector.partition_entry_lba,
                      partition_entry_count |-> HeaderSector.partition_entry_count,
                      partition_entry_size |-> HeaderSector.partition_entry_size]
        /\ current' = HeaderSector.partition_entry_lba
        /\ remaining' = ArrayBytes(HeaderSector)
        /\ crc' = <<>>
        /\ pc' = "array"
        /\ UNCHANGED <<copy, failed>>
  /\ UNCHANGED <<device, entries, last>>

Take == IF remaining < SectorSize THEN remaining ELSE SectorSize

\* Mutant: the array is only read.
CrcMatches_any == Len(crc) > 0

CrcMatches == HeaderSector.entry_crc = crc

\* One turn of the loop of verify_entry_array_crc, and its end.
verify_entry_array_crc ==
  /\ pc = "array"
  /\ \/ /\ remaining # 0
        /\ ReadFails(current)
        /\ HeaderRefused
        /\ UNCHANGED <<header, scanVars>>
     \/ /\ remaining # 0 /\ Readable(current)
        /\ crc' = crc \o SectorChunks(current, Take)
        /\ remaining' = remaining - Take
        /\ current' = current + 1
        /\ UNCHANGED <<pc, copy, header, failed>>
     \/ /\ remaining = 0 /\ ~CrcMatches
        /\ HeaderRefused
        /\ UNCHANGED <<header, scanVars, failed>>
     \/ /\ remaining = 0 /\ CrcMatches
        /\ pc' = "open"
        /\ UNCHANGED <<copy, header, scanVars, failed>>
  /\ UNCHANGED <<device, entries, last>>

-----------------------------------------------------------------------------
(* read_partition_entry. *)

EntryOffset(index) == index * header.partition_entry_size

EntryLba(index) == header.partition_entry_lba + EntryOffset(index) \div SectorSize

required_entry_sectors(sector_offset) ==
  (sector_offset + EntryMinSize + SectorSize - 1) \div SectorSize

Entry(index) ==
  Zero(device.chunks,
       EntryLba(index) * Chunks + (EntryOffset(index) % SectorSize) \div EntryMinSize)

Possible(e) == e.first_lba <= e.last_lba /\ e.last_lba < device.sector_count

\* partition(index), for any index below partition_count().
partition ==
  /\ pc = "open"
  /\ \E index \in 0..(header.partition_entry_count - 1) :
       LET span == EntryLba(index)..(EntryLba(index)
                     + required_entry_sectors(EntryOffset(index) % SectorSize) - 1)
           result(e) == [i \in DOMAIN entries \cup {index} |->
                           IF i = index THEN e ELSE entries[i]]
       IN /\ last' = span
          /\ \/ /\ "read" \in MayFail \/ \E l \in span : ~Readable(l)
                /\ UNCHANGED entries
             \/ /\ \A l \in span : Readable(l)
                /\ entries' = IF Possible(Entry(index)) THEN result(Entry(index)) ELSE entries
  /\ UNCHANGED <<device, pc, copy, header, scanVars, failed>>

-----------------------------------------------------------------------------
Step == read_header_at \/ verify_entry_array_crc

Next == new \/ Step \/ partition

Spec == Init /\ [][Next]_vars

\* A call that has begun goes on; nobody has to make one.
FairSpec == Spec /\ WF_vars(Step)

-----------------------------------------------------------------------------
(* Properties. *)

\* The shape of the state; in particular the check of the array and every read
\* of an entry stay in the accepted array, which lies on the disk and leaves
\* the header out.
TypeOK ==
  /\ pc \in {"closed", "header", "array", "open", "none"}
  /\ copy \in {"primary", "backup"}
  /\ remaining \in Nat
  /\ pc \in {"array", "open"} => ArrayEnd(header) <= device.sector_count
  /\ pc = "array" /\ remaining > 0 => current < ArrayEnd(header)
  /\ last \subseteq header.partition_entry_lba..(ArrayEnd(header) - 1)
  /\ DOMAIN entries \subseteq 0..(header.partition_entry_count - 1)

\* What the entry array of a header holds, in chunks.
ArrayOf(h) ==
  [k \in 1..(ArrayBytes(h) \div EntryMinSize) |->
     Zero(device.chunks, h.partition_entry_lba * Chunks + k - 1)]

\* A header that is accepted, with the array it was written for.
Whole(lba) ==
  /\ HeaderAt(lba).signature
  /\ Accepted(HeaderAt(lba), lba)
  /\ HeaderAt(lba).entry_crc = ArrayOf(HeaderAt(lba))

\* The entry at `index` of an array of chunks.
Slot(h, index) == ArrayOf(h)[index * (h.partition_entry_size \div EntryMinSize) + 1]

\* What a partitioning tool owes the reader: an array that has the CRC of its
\* header is a table that was written as a whole ...
ArraysAreTables ==
  /\ device.versions # {}
  /\ \A lba \in DOMAIN device.headers : Whole(lba) =>
       LET h == HeaderAt(lba)
       IN \E v \in device.versions : \A i \in 0..(h.partition_entry_count - 1) :
            Possible(Slot(h, i)) => i \in DOMAIN v /\ v[i] = Slot(h, i)

\* ... and a disk that was partitioned always has one whole copy.
OneCopyIsWhole ==
  device.versions # {NoTable} =>
    \E c \in {"primary", "backup"} : Readable(CopyLba(c)) /\ Whole(CopyLba(c))

\* Whatever an interrupted update left behind, the entries read through one
\* view are all the old table's or all the new one's, and none is made up of
\* the padding of another.
EntriesFromOneTable ==
  \E v \in device.versions : \A i \in DOMAIN entries :
    i \in DOMAIN v /\ entries[i] = v[i]

\* A tool that writes one copy and then the other always leaves one that the
\* reader opens, as long as the disk can be read.
UpdateSurvives ==
  pc = "none" /\ device.versions # {NoTable} => failed

\* new returns: the loop over the array counts down.
CallsEnd == pc \in {"header", "array"} ~> pc \in {"open", "none"}
=============================================================================
