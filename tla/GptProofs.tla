------------------------------ MODULE GptProofs ------------------------------
(***************************************************************************)
(* What the partition-table reader guarantees on every disk: its reads     *)
(* stay in the accepted array, the entries it returns are the ones the CRC *)
(* was checked over, and it opens a disk that has one whole copy.          *)
(***************************************************************************)
EXTENDS Gpt, TLAPS

Fields == [partition_entry_lba : Nat, partition_entry_count : Nat,
           partition_entry_size : Nat]

\* Everything a chunk of a disk may be.
Chunk == {NoEntry} \cup UNION {{d.chunks[a] : a \in DOMAIN d.chunks} : d \in Disks}

\* The copy being read was accepted and `header` has its fields.
HeaderKept ==
  /\ Readable(HeaderLba)
  /\ HeaderSector.signature
  /\ Accepted(HeaderSector, HeaderLba)
  /\ header.partition_entry_lba = HeaderSector.partition_entry_lba
  /\ header.partition_entry_count = HeaderSector.partition_entry_count
  /\ header.partition_entry_size = HeaderSector.partition_entry_size

\* The loop of verify_entry_array_crc: crc holds the chunks in front of the
\* sector to be read next.
Progress ==
  /\ crc \in Seq(Chunk)
  /\ current \in Nat /\ header.partition_entry_lba <= current
  /\ Len(crc) * EntryMinSize + remaining = ArrayBytes(header)
  /\ remaining # 0 =>
       Len(crc) = (current - header.partition_entry_lba) * Chunks
  /\ \A k \in 1..Len(crc) :
       crc[k] = Zero(device.chunks, header.partition_entry_lba * Chunks + k - 1)

WholeCopy(c) ==
  device.sector_count > 0 /\ Readable(CopyLba(c)) /\ Whole(CopyLba(c))

\* A copy is left behind only if it is not whole or a read failed.
Refused ==
  ~failed => /\ copy = "backup" => ~WholeCopy("primary")
             /\ pc = "none" => ~WholeCopy("primary") /\ ~WholeCopy("backup")

Returned ==
  /\ last \subseteq header.partition_entry_lba..(ArrayEnd(header) - 1)
  /\ DOMAIN entries \subseteq 0..(header.partition_entry_count - 1)
  /\ \A i \in DOMAIN entries :
       entries[i] = Slot(HeaderSector, i) /\ Possible(entries[i])

IndInv ==
  /\ device \in Disks
  /\ pc \in {"closed", "header", "array", "open", "none"}
  /\ copy \in {"primary", "backup"}
  /\ failed \in BOOLEAN
  /\ remaining \in Nat
  /\ header \in Fields
  /\ copy = "backup" => device.sector_count > 0
  /\ pc # "open" => last = {} /\ entries = NoTable
  /\ pc \in {"array", "open"} => HeaderKept
  /\ pc = "array" => Progress
  /\ pc = "open" => Whole(HeaderLba) /\ Returned
  /\ Refused

-----------------------------------------------------------------------------
(* Sectors and chunks. *)

LEMMA Sizes ==
  /\ SectorSize \in Nat \ {0} /\ EntryMinSize \in Nat \ {0} /\ LbaModulus \in Nat
  /\ Chunks \in Nat \ {0}
  /\ SectorSize = Chunks * EntryMinSize
<1>1. SectorSize \in Nat \ {0} /\ EntryMinSize \in Nat \ {0} /\ LbaModulus \in Nat
  BY SizeAssumption
<1>2. Chunks \in Nat /\ SectorSize = EntryMinSize * Chunks
  BY <1>1, SizeAssumption DEF Chunks
<1> HIDE DEF Chunks
<1>3. Chunks # 0
  BY <1>1, <1>2
<1>4. EntryMinSize * Chunks = Chunks * EntryMinSize
  BY <1>1, <1>2
<1> QED BY <1>1, <1>2, <1>3, <1>4

LEMMA DivBounds ==
  ASSUME NEW x \in Nat, NEW p \in Nat \ {0}
  PROVE  /\ x \div p \in Nat
         /\ p * (x \div p) <= x
         /\ x < p * (x \div p) + p
  OBVIOUS

LEMMA DivMod ==
  ASSUME NEW x \in Nat, NEW p \in Nat \ {0}
  PROVE  /\ x \div p \in Nat /\ x % p \in Nat /\ x % p < p
         /\ x = p * (x \div p) + (x % p)
  OBVIOUS

LEMMA DivOf ==
  ASSUME NEW k \in Nat, NEW p \in Nat \ {0}
  PROVE  (k * p) \div p = k
<1> DEFINE q == (k * p) \div p
<1>1. k * p \in Nat
  OBVIOUS
<1>2. q \in Nat /\ p * q <= k * p /\ k * p < p * q + p
  BY <1>1
<1> HIDE DEF q
<1>3. p * q <= p * k
  BY <1>2
<1>4. p * k < p * (q + 1)
  BY <1>2
<1>5. q <= k
  BY <1>2, <1>3
<1>6. k < q + 1
  BY <1>2, <1>4
<1>7. q = k
  BY <1>2, <1>5, <1>6
<1> QED BY <1>7 DEF q

LEMMA ModOf ==
  ASSUME NEW s \in Nat, NEW p \in Nat \ {0}, s % p = 0
  PROVE  \E k \in Nat : s = k * p
<1> DEFINE q == s \div p
<1>1. q \in Nat /\ s = p * q
  OBVIOUS
<1>2. s = q * p
  BY <1>1
<1> QED BY <1>1, <1>2

LEMMA HeaderTyped ==
  ASSUME device \in Disks, NEW lba, HeaderAt(lba).signature
  PROVE  /\ lba \in DOMAIN device.headers
         /\ HeaderAt(lba).partition_entry_lba \in Nat
         /\ HeaderAt(lba).partition_entry_count \in Nat
         /\ HeaderAt(lba).partition_entry_size \in Nat
<1>1. lba \in DOMAIN device.headers
  BY DEF HeaderAt
<1> QED BY <1>1, DiskAssumption DEF HeaderAt

LEMMA ChunkTyped ==
  ASSUME device \in Disks, NEW a
  PROVE  Zero(device.chunks, a) \in Chunk
  BY DEF Zero, Chunk

\* An accepted array has a whole number of chunks, and its sectors are those
\* that begin in front of its end.
LEMMA ArrayFacts ==
  ASSUME NEW h, h.partition_entry_lba \in Nat, h.partition_entry_count \in Nat \ {0},
         h.partition_entry_size \in Nat, h.partition_entry_size >= EntryMinSize,
         h.partition_entry_size % EntryMinSize = 0
  PROVE  /\ ArrayBytes(h) \in Nat /\ ArraySectors(h) \in Nat /\ ArrayEnd(h) \in Nat
         /\ \A q \in Nat : q * SectorSize < ArrayBytes(h) => q < ArraySectors(h)
         /\ \E z \in Nat \ {0} :
              /\ h.partition_entry_size = z * EntryMinSize
              /\ ArrayBytes(h) = (h.partition_entry_count * z) * EntryMinSize
              /\ ArrayBytes(h) \div EntryMinSize = h.partition_entry_count * z
<1> DEFINE count == h.partition_entry_count
           size == h.partition_entry_size
           bytes == count * size
<1>1. PICK z \in Nat : size = z * EntryMinSize
  BY Sizes, ModOf
<1>2. z # 0
  BY Sizes, <1>1
<1>3. bytes = (count * z) * EntryMinSize /\ count * z \in Nat
  <2>1. ASSUME NEW a \in Nat, NEW b \in Nat, NEW c \in Nat
        PROVE  a * (b * c) = (a * b) * c /\ a * b \in Nat
    OBVIOUS
  <2> QED BY <1>1, <2>1, Sizes
<1>4. bytes \div EntryMinSize = count * z
  BY Sizes, <1>3, DivOf
<1>5. bytes \in Nat
  OBVIOUS
<1> DEFINE x == bytes + SectorSize - 1
           s == x \div SectorSize
<1>6. ArrayBytes(h) = bytes /\ ArraySectors(h) = s
  BY DEF ArrayBytes, ArraySectors
<1> HIDE DEF bytes
<1>7. x \in Nat
  BY <1>5, Sizes
<1> HIDE DEF x
<1>8. s \in Nat /\ SectorSize * s <= x /\ x < SectorSize * s + SectorSize
  BY <1>7, Sizes, DivBounds
<1> HIDE DEF s
<1>9. ASSUME NEW q \in Nat, q * SectorSize < bytes PROVE q < s
  <2>1. SectorSize * q < SectorSize * s
    <3>1. bytes <= SectorSize * s
      BY <1>5, <1>8, Sizes DEF x
    <3>2. SectorSize * q = q * SectorSize /\ SectorSize * q \in Nat /\ SectorSize * s \in Nat
      BY <1>8, Sizes
    <3> QED BY <1>5, <1>9, <3>1, <3>2
  <2> QED BY <1>8, <2>1, Sizes
<1>10. ArrayEnd(h) \in Nat
  BY <1>6, <1>8 DEF ArrayEnd
<1> QED BY <1>1, <1>2, <1>3, <1>4, <1>5, <1>6, <1>8, <1>9, <1>10

\* What the checks of read_header_at leave of a header.
LEMMA AcceptedFacts ==
  ASSUME device \in Disks, NEW lba, HeaderAt(lba).signature, Accepted(HeaderAt(lba), lba)
  PROVE  LET h == HeaderAt(lba)
         IN /\ h.partition_entry_lba \in Nat /\ h.partition_entry_count \in Nat \ {0}
            /\ h.partition_entry_size \in Nat /\ h.partition_entry_size >= EntryMinSize
            /\ h.partition_entry_size % EntryMinSize = 0
            /\ ArrayEnd(h) <= device.sector_count
  BY HeaderTyped DEF Accepted, ArrayFits

\* A step of the program does not change the disk, so all that depends on the
\* disk only stays as it is.
LEMMA SameDisk ==
  ASSUME UNCHANGED device
  PROVE  /\ \A l : Readable(l)' <=> Readable(l)
         /\ \A c : CopyLba(c)' = CopyLba(c)
         /\ \A l : HeaderAt(l)' = HeaderAt(l)
         /\ \A h, l : Accepted(h, l)' <=> Accepted(h, l)
         /\ \A l : Whole(l)' <=> Whole(l)
         /\ \A c : WholeCopy(c)' <=> WholeCopy(c)
         /\ \A h, i : Slot(h, i)' = Slot(h, i)
         /\ \A e : Possible(e)' <=> Possible(e)
  BY DEF Readable, CopyLba, HeaderAt, Accepted, ArrayFits, ArrayEnd, ArraySectors, ArrayBytes,
         Whole, WholeCopy, ArrayOf, Zero, Slot, Possible

-----------------------------------------------------------------------------
(* The steps. *)

LEMMA InitInv == Init => IndInv
<1> SUFFICES ASSUME Init PROVE IndInv
  OBVIOUS
<1>1. header \in Fields
  BY DEF Init, NoHeader, Fields
<1> QED BY <1>1 DEF Init, IndInv, Refused

LEMMA NewInv ==
  ASSUME IndInv, new
  PROVE  IndInv'
<1>1. NoHeader \in Fields
  BY DEF NoHeader, Fields
<1> QED BY <1>1 DEF IndInv, new, scanVars, Refused

\* A copy is left for the other one, or for none.
LEMMA RefuseInv ==
  ASSUME IndInv, pc \in {"header", "array"}, HeaderRefused,
         UNCHANGED <<device, entries, last, header>>,
         remaining' \in Nat, failed' \in BOOLEAN,
         failed => failed', failed' \/ ~WholeCopy(copy)
  PROVE  IndInv'
<1>1. device.sector_count \in Nat
  BY DiskAssumption DEF IndInv
<1>2. /\ pc' \in {"header", "none"} /\ copy' \in {"primary", "backup"}
      /\ copy' = "backup" => device'.sector_count > 0
  BY <1>1 DEF HeaderRefused, IndInv
<1>3. Refused'
  <2> SUFFICES ASSUME ~failed'
               PROVE  /\ copy' = "backup" => ~WholeCopy("primary")'
                      /\ pc' = "none" => ~WholeCopy("primary")' /\ ~WholeCopy("backup")'
    BY DEF Refused
  <2>1. ~failed /\ ~WholeCopy(copy)
    OBVIOUS
  <2>2. copy = "backup" => ~WholeCopy("primary")
    BY <2>1 DEF IndInv, Refused
  <2>3. ~WholeCopy("primary")
    BY <2>1, <2>2 DEF IndInv
  <2>4. pc' = "none" => ~WholeCopy("backup")
    BY <1>1, <2>1 DEF HeaderRefused, IndInv, WholeCopy
  <2> QED BY <2>3, <2>4, SameDisk
<1> QED BY <1>2, <1>3 DEF IndInv

\* In the loop over the array there is a sector to read.
LEMMA NextSector ==
  ASSUME IndInv, pc = "array", remaining # 0
  PROVE  /\ current \in Nat /\ current < ArrayEnd(header)
         /\ ArrayEnd(header) <= device.sector_count
<1> DEFINE lba == header.partition_entry_lba
           done == current - lba
<1>1. HeaderKept /\ Progress /\ device \in Disks /\ remaining \in Nat
  BY DEF IndInv
<1>2. /\ lba \in Nat /\ header.partition_entry_count \in Nat \ {0}
      /\ header.partition_entry_size \in Nat /\ header.partition_entry_size >= EntryMinSize
      /\ header.partition_entry_size % EntryMinSize = 0
      /\ ArrayEnd(HeaderSector) <= device.sector_count
  BY <1>1, AcceptedFacts DEF HeaderKept, HeaderSector
<1>3. ArrayEnd(header) = ArrayEnd(HeaderSector)
  BY <1>1 DEF HeaderKept, ArrayEnd, ArraySectors, ArrayBytes
<1>4. done \in Nat /\ current \in Nat /\ current = lba + done
  BY <1>1, <1>2 DEF Progress
<1>5. Len(crc) = done * Chunks /\ Len(crc) * EntryMinSize + remaining = ArrayBytes(header)
  BY <1>1 DEF Progress
<1>6. ArrayBytes(header) \in Nat /\ ArraySectors(header) \in Nat
  BY <1>2, ArrayFacts
<1> HIDE DEF done
<1>7. done * SectorSize < ArrayBytes(header)
  <2>1. (done * Chunks) * EntryMinSize = done * (Chunks * EntryMinSize)
    BY <1>4, Sizes
  <2>2. done * SectorSize + remaining = ArrayBytes(header) /\ done * SectorSize \in Nat
    BY <1>4, <1>5, <2>1, Sizes
  <2> QED BY <1>1, <1>6, <2>2
<1>8. done < ArraySectors(header)
  BY <1>2, <1>4, <1>7, ArrayFacts
<1> QED BY <1>2, <1>3, <1>4, <1>6, <1>8 DEF ArrayEnd

\* At its end crc is the whole array.
LEMMA CrcIsArray ==
  ASSUME IndInv, pc = "array", remaining = 0
  PROVE  crc = ArrayOf(HeaderSector)
<1>1. HeaderKept /\ Progress /\ device \in Disks
  BY DEF IndInv
<1>2. /\ ArrayBytes(HeaderSector) = ArrayBytes(header)
      /\ HeaderSector.partition_entry_lba = header.partition_entry_lba
  BY <1>1 DEF HeaderKept, ArrayBytes
<1>3. Len(crc) \in Nat /\ Len(crc) * EntryMinSize = ArrayBytes(header)
  BY <1>1, Sizes DEF Progress
<1>4. ArrayBytes(header) \div EntryMinSize = Len(crc)
  BY <1>3, DivOf, Sizes
<1>5. crc = [k \in 1..Len(crc) |-> crc[k]]
  BY <1>1 DEF Progress
<1>6. \A k \in 1..Len(crc) :
        crc[k] = Zero(device.chunks, HeaderSector.partition_entry_lba * Chunks + k - 1)
  BY <1>1, <1>2 DEF Progress
<1> QED BY <1>2, <1>4, <1>5, <1>6 DEF ArrayOf

LEMMA HeaderInv ==
  ASSUME IndInv, read_header_at
  PROVE  IndInv'
<1>1. pc = "header" /\ UNCHANGED <<device, entries, last>> /\ device \in Disks
  BY DEF read_header_at, IndInv
<1>2. CASE ReadFails(HeaderLba) /\ HeaderRefused /\ UNCHANGED <<header, scanVars>>
  <2>1. failed' \in BOOLEAN /\ (failed => failed') /\ (failed' \/ ~Readable(HeaderLba))
    BY <1>2 DEF ReadFails, IndInv, Readable
  <2>2. failed' \/ ~WholeCopy(copy)
    BY <2>1 DEF WholeCopy, HeaderLba
  <2>3. remaining' \in Nat
    BY <1>2 DEF IndInv, scanVars
  <2> QED BY <1>1, <1>2, <2>1, <2>2, <2>3, RefuseInv
<1>3. CASE /\ Readable(HeaderLba) /\ (HeaderSector.signature => ~Accepted(HeaderSector, HeaderLba))
           /\ HeaderRefused
           /\ UNCHANGED <<header, scanVars, failed>>
  <2>1. ~WholeCopy(copy)
    BY <1>3 DEF WholeCopy, Whole, HeaderSector, HeaderLba
  <2>2. remaining' \in Nat /\ failed' \in BOOLEAN
    BY <1>3 DEF IndInv, scanVars
  <2> QED BY <1>1, <1>3, <2>1, <2>2, RefuseInv
<1>4. CASE /\ Readable(HeaderLba) /\ HeaderSector.signature
           /\ Accepted(HeaderSector, HeaderLba)
           /\ header' = [partition_entry_lba |-> HeaderSector.partition_entry_lba,
                         partition_entry_count |-> HeaderSector.partition_entry_count,
                         partition_entry_size |-> HeaderSector.partition_entry_size]
           /\ current' = HeaderSector.partition_entry_lba
           /\ remaining' = ArrayBytes(HeaderSector)
           /\ crc' = <<>>
           /\ pc' = "array"
           /\ UNCHANGED <<copy, failed>>
  <2>1. HeaderLba' = HeaderLba /\ HeaderSector' = HeaderSector
    BY <1>1, <1>4 DEF HeaderLba, CopyLba, HeaderSector, HeaderAt
  <2>2. /\ HeaderSector.partition_entry_lba \in Nat
        /\ HeaderSector.partition_entry_count \in Nat \ {0}
        /\ HeaderSector.partition_entry_size \in Nat
        /\ HeaderSector.partition_entry_size >= EntryMinSize
        /\ HeaderSector.partition_entry_size % EntryMinSize = 0
    BY <1>1, <1>4, AcceptedFacts DEF HeaderSector
  <2>3. ArrayBytes(HeaderSector) \in Nat
    BY <2>2, ArrayFacts
  <2>4. /\ header'.partition_entry_lba = HeaderSector.partition_entry_lba
        /\ header'.partition_entry_count = HeaderSector.partition_entry_count
        /\ header'.partition_entry_size = HeaderSector.partition_entry_size
        /\ header' \in Fields
    BY <1>4, <2>2 DEF Fields
  <2>5. HeaderKept'
    <3>1. Readable(HeaderLba)' /\ Accepted(HeaderSector, HeaderLba)'
      BY <1>1, <1>4, <2>1 DEF Readable, Accepted, ArrayFits, ArrayEnd, ArraySectors, ArrayBytes
    <3> QED BY <1>4, <2>1, <2>4, <3>1 DEF HeaderKept
  <2>6. ArrayBytes(header)' = ArrayBytes(HeaderSector)
    BY <2>4 DEF ArrayBytes
  <2>7. Progress'
    <3>1. crc' \in Seq(Chunk) /\ Len(crc') = 0 /\ 1..0 = {}
      BY <1>4
    <3>2. current' - header'.partition_entry_lba = 0 /\ header'.partition_entry_lba <= current'
          /\ current' \in Nat
      BY <1>4, <2>2, <2>4
    <3>3. Len(crc') * EntryMinSize + remaining' = ArrayBytes(header)'
      BY <1>4, <2>3, <2>6, <3>1, Sizes
    <3>4. Len(crc') = (current' - header'.partition_entry_lba) * Chunks
      BY <3>1, <3>2, Sizes
    <3> QED BY <3>1, <3>2, <3>3, <3>4 DEF Progress, Chunk
  <2>8. Refused'
    BY <1>1, <1>4, SameDisk DEF IndInv, Refused
  <2> QED BY <1>1, <1>4, <2>3, <2>4, <2>5, <2>7, <2>8 DEF IndInv
<1> QED BY <1>2, <1>3, <1>4 DEF read_header_at

\* One sector of the array is added to crc.
LEMMA ReadSector ==
  ASSUME IndInv, pc = "array", remaining # 0,
         crc' = crc \o SectorChunks(current, Take),
         remaining' = remaining - Take, current' = current + 1,
         UNCHANGED <<device, header>>
  PROVE  Progress' /\ remaining' \in Nat
<1> DEFINE L == Len(crc)
           lba == header.partition_entry_lba
           new_chunks == SectorChunks(current, Take)
<1>1. HeaderKept /\ Progress /\ device \in Disks /\ remaining \in Nat
  BY DEF IndInv
<1>2. /\ lba \in Nat /\ header.partition_entry_count \in Nat \ {0}
      /\ header.partition_entry_size \in Nat /\ header.partition_entry_size >= EntryMinSize
      /\ header.partition_entry_size % EntryMinSize = 0
  BY <1>1, AcceptedFacts DEF HeaderKept, HeaderSector
<1>3. PICK N \in Nat : ArrayBytes(header) = N * EntryMinSize
  <2>1. PICK z \in Nat \ {0} : ArrayBytes(header) = (header.partition_entry_count * z) * EntryMinSize
    BY <1>2, ArrayFacts
  <2>2. header.partition_entry_count * z \in Nat
    BY <1>2
  <2> QED BY <2>1, <2>2
<1>4. L \in Nat /\ L * EntryMinSize + remaining = N * EntryMinSize
  BY <1>1, <1>3 DEF Progress
<1>5. PICK t \in Nat : Take = t * EntryMinSize /\ t <= N - L /\ (t # N - L => t = Chunks)
  <2>1. remaining = (N - L) * EntryMinSize
    BY <1>1, <1>4, Sizes
  <2>2. N - L \in Nat
    <3>1. N >= L
      BY <1>1, <1>4, <2>1, Sizes
    <3> QED BY <1>4, <3>1
  <2>3. CASE remaining < SectorSize
    BY <2>1, <2>2, <2>3 DEF Take
  <2>4. CASE ~(remaining < SectorSize)
    <3> DEFINE r == N - L
    <3>1. r * EntryMinSize >= Chunks * EntryMinSize
      BY <1>1, <2>1, <2>4, Sizes
    <3> HIDE DEF r
    <3>2. EntryMinSize * Chunks <= EntryMinSize * r /\ r \in Nat
      BY <2>2, <3>1, Sizes DEF r
    <3>3. Chunks <= r
      BY <3>2, Sizes
    <3> QED BY <2>4, <3>3, Sizes DEF Take, r
  <2> QED BY <2>3, <2>4
<1>6. Take \div EntryMinSize = t
  BY <1>5, DivOf, Sizes
<1>7. current * Chunks = lba * Chunks + L
  <2>1. L = (current - lba) * Chunks /\ current \in Nat
    BY <1>1 DEF Progress
  <2>2. (current - lba) * Chunks = current * Chunks - lba * Chunks
    BY <1>2, <2>1, Sizes
  <2>3. current * Chunks \in Nat /\ lba * Chunks \in Nat
    BY <1>2, <2>1, Sizes
  <2> QED BY <1>4, <2>1, <2>2, <2>3
<1>8. new_chunks = [k \in 1..t |-> Zero(device.chunks, lba * Chunks + L + k - 1)]
  BY <1>6, <1>7 DEF SectorChunks
<1>9. new_chunks \in Seq(Chunk) /\ Len(new_chunks) = t
      /\ \A k \in 1..t : new_chunks[k] = Zero(device.chunks, lba * Chunks + L + k - 1)
  BY <1>1, <1>5, <1>8, ChunkTyped
<1>10. /\ crc' \in Seq(Chunk) /\ Len(crc') = L + t
       /\ \A k \in 1..(L + t) : crc'[k] = IF k <= L THEN crc[k] ELSE new_chunks[k - L]
  <2>1. crc \in Seq(Chunk)
    BY <1>1 DEF Progress
  <2>2. crc' = crc \o new_chunks
    OBVIOUS
  <2>3. new_chunks \in Seq(Chunk) /\ Len(new_chunks) = t
    BY <1>9
  <2>4. ASSUME NEW a \in Seq(Chunk), NEW b \in Seq(Chunk)
        PROVE  /\ a \o b \in Seq(Chunk) /\ Len(a \o b) = Len(a) + Len(b)
               /\ \A k \in 1..(Len(a) + Len(b)) :
                    (a \o b)[k] = IF k <= Len(a) THEN a[k] ELSE b[k - Len(a)]
    OBVIOUS
  <2> HIDE DEF new_chunks
  <2>5. /\ crc \o new_chunks \in Seq(Chunk) /\ Len(crc \o new_chunks) = L + t
        /\ \A k \in 1..(L + t) :
             (crc \o new_chunks)[k] = IF k <= L THEN crc[k] ELSE new_chunks[k - L]
    BY <2>1, <2>3, <2>4, Zenon
  <2> QED BY <2>2, <2>5, Zenon
<1>11. \A k \in 1..Len(crc') : crc'[k] = Zero(device.chunks, lba * Chunks + k - 1)
  <2> SUFFICES ASSUME NEW k \in 1..(L + t)
               PROVE  crc'[k] = Zero(device.chunks, lba * Chunks + k - 1)
    BY <1>10
  <2>1. CASE k <= L
    <3>1. crc[k] = Zero(device.chunks, lba * Chunks + k - 1)
      BY <1>1, <1>4, <2>1 DEF Progress
    <3> QED BY <1>10, <2>1, <3>1
  <2>2. CASE ~(k <= L)
    <3>1. k - L \in 1..t
      BY <1>4, <1>5, <2>2
    <3>2. lba * Chunks \in Nat
      BY <1>2, Sizes
    <3>3. lba * Chunks + L + (k - L) - 1 = lba * Chunks + k - 1
      BY <1>4, <3>2
    <3>4. new_chunks[k - L] = Zero(device.chunks, lba * Chunks + L + (k - L) - 1)
      BY <1>9, <3>1
    <3> HIDE DEF new_chunks
    <3> QED BY <1>10, <2>2, <3>3, <3>4
  <2> QED BY <2>1, <2>2
<1>12. /\ remaining' \in Nat
       /\ Len(crc') * EntryMinSize + remaining' = ArrayBytes(header)
       /\ remaining' # 0 => t = Chunks
  <2>1. remaining' = remaining - t * EntryMinSize
    BY <1>5
  <2>2. t * EntryMinSize <= (N - L) * EntryMinSize
    <3>1. ASSUME NEW a \in Nat, NEW b \in Int, a <= b, NEW p \in Nat
          PROVE  a * p <= b * p
      <4>1. (b - a) * p >= 0 /\ (b - a) * p = b * p - a * p
        BY <3>1
      <4>2. a * p \in Int /\ b * p \in Int
        BY <3>1
      <4> QED BY <4>1, <4>2
    <3>2. N - L \in Int
      BY <1>4
    <3> HIDE DEF L
    <3> QED BY <1>5, <3>1, <3>2, Sizes
  <2>3. /\ (N - L) * EntryMinSize = N * EntryMinSize - L * EntryMinSize
        /\ (L + t) * EntryMinSize = L * EntryMinSize + t * EntryMinSize
        /\ N * EntryMinSize \in Nat /\ L * EntryMinSize \in Nat /\ t * EntryMinSize \in Nat
    BY <1>4, <1>5, Sizes
  <2>4. remaining' \in Nat
    BY <1>1, <1>4, <2>1, <2>2, <2>3, SMTT(30)
  <2>5. Len(crc') * EntryMinSize + remaining' = ArrayBytes(header)
    BY <1>1, <1>3, <1>4, <1>10, <2>1, <2>3
  <2>6. t = N - L => remaining' = 0
    BY <1>1, <1>4, <2>1, <2>3
  <2> QED BY <1>5, <2>4, <2>5, <2>6
<1>13. current' \in Nat /\ lba <= current'
  BY <1>1, <1>2 DEF Progress
<1>14. remaining' # 0 => Len(crc') = (current' - lba) * Chunks
  <2>1. current \in Nat /\ L = (current - lba) * Chunks
    BY <1>1 DEF Progress
  <2>2. (current + 1 - lba) * Chunks = (current - lba) * Chunks + Chunks
    BY <1>2, <2>1, Sizes
  <2>3. (current - lba) * Chunks \in Int
    BY <1>2, <2>1, Sizes
  <2>4. remaining' # 0 => Len(crc') = L + Chunks
    BY <1>10, <1>12
  <2>5. L + Chunks = (current + 1 - lba) * Chunks
    BY <2>1, <2>2
  <2>6. current' - lba = current + 1 - lba
    BY <1>2, <2>1
  <2> QED BY <2>4, <2>5, <2>6
<1>15. ArrayBytes(header)' = ArrayBytes(header) /\ header'.partition_entry_lba = lba
  BY DEF ArrayBytes
<1> QED BY <1>10, <1>11, <1>12, <1>13, <1>14, <1>15 DEF Progress

LEMMA VerifyInv ==
  ASSUME IndInv, verify_entry_array_crc
  PROVE  IndInv'
<1>1. pc = "array" /\ UNCHANGED <<device, entries, last>> /\ device \in Disks
  BY DEF verify_entry_array_crc, IndInv
<1>2. HeaderKept
  BY <1>1 DEF IndInv
<1>3. CASE /\ remaining # 0
           /\ ReadFails(current)
           /\ HeaderRefused
           /\ UNCHANGED <<header, scanVars>>
  <2>1. Readable(current)
    <3>1. device.sector_count \in Nat
      BY <1>1, DiskAssumption
    <3>2. current \in Nat /\ current < ArrayEnd(header) /\ ArrayEnd(header) <= device.sector_count
      BY <1>1, <1>3, NextSector
    <3>3. ArrayEnd(header) \in Nat
      <4>1. /\ header.partition_entry_lba \in Nat /\ header.partition_entry_count \in Nat \ {0}
            /\ header.partition_entry_size \in Nat
            /\ header.partition_entry_size >= EntryMinSize
            /\ header.partition_entry_size % EntryMinSize = 0
        BY <1>1, <1>2, AcceptedFacts DEF HeaderKept, HeaderSector
      <4> QED BY <4>1, ArrayFacts
    <3> QED BY <3>1, <3>2, <3>3 DEF Readable
  <2>2. failed' = TRUE
    BY <1>3, <2>1 DEF ReadFails
  <2>3. remaining' \in Nat
    BY <1>3 DEF IndInv, scanVars
  <2> QED BY <1>1, <1>3, <2>2, <2>3, RefuseInv
<1>4. CASE /\ remaining # 0 /\ Readable(current)
           /\ crc' = crc \o SectorChunks(current, Take)
           /\ remaining' = remaining - Take
           /\ current' = current + 1
           /\ UNCHANGED <<pc, copy, header, failed>>
  <2>1. Progress' /\ remaining' \in Nat
    BY <1>1, <1>4, ReadSector
  <2>2. HeaderKept'
    BY <1>1, <1>2, <1>4 DEF HeaderKept, HeaderLba, HeaderSector, HeaderAt, CopyLba, Readable,
         Accepted, ArrayFits, ArrayEnd, ArraySectors, ArrayBytes
  <2>3. Refused'
    BY <1>1, <1>4, SameDisk DEF IndInv, Refused
  <2> QED BY <1>1, <1>4, <2>1, <2>2, <2>3 DEF IndInv
<1>5. CASE /\ remaining = 0 /\ ~CrcMatches
           /\ HeaderRefused
           /\ UNCHANGED <<header, scanVars, failed>>
  <2>1. ~WholeCopy(copy)
    BY <1>1, <1>5, CrcIsArray DEF CrcMatches, WholeCopy, Whole, HeaderSector, HeaderLba
  <2>2. remaining' \in Nat /\ failed' \in BOOLEAN
    BY <1>5 DEF IndInv, scanVars
  <2> QED BY <1>1, <1>5, <2>1, <2>2, RefuseInv
<1>6. CASE /\ remaining = 0 /\ CrcMatches
           /\ pc' = "open"
           /\ UNCHANGED <<copy, header, scanVars, failed>>
  <2>1. Whole(HeaderLba)
    BY <1>1, <1>2, <1>6, CrcIsArray DEF CrcMatches, Whole, HeaderSector, HeaderKept
  <2>2. HeaderKept' /\ Whole(HeaderLba)'
    <3>1. HeaderLba' = HeaderLba /\ HeaderSector' = HeaderSector
      BY <1>1, <1>6 DEF HeaderLba, CopyLba, HeaderSector, HeaderAt
    <3>2. Readable(HeaderLba)' /\ Accepted(HeaderSector, HeaderLba)'
      BY <1>1, <1>2, <3>1 DEF HeaderKept, Readable, Accepted, ArrayFits, ArrayEnd,
           ArraySectors, ArrayBytes
    <3>3. Whole(HeaderLba)'
      BY <1>1, <2>1, <3>1, SMTT(30) DEF Whole, HeaderAt, Accepted, ArrayFits, ArrayEnd, ArraySectors,
           ArrayBytes, ArrayOf, Zero
    <3> QED BY <1>2, <1>6, <3>1, <3>2, <3>3 DEF HeaderKept
  <2>3. Returned'
    <3>1. last' = {} /\ entries' = NoTable /\ DOMAIN NoTable = {}
      BY <1>1 DEF IndInv, NoTable
    <3> QED BY <3>1 DEF Returned
  <2>4. Refused'
    BY <1>1, <1>6, SameDisk DEF IndInv, Refused
  <2> QED BY <1>1, <1>6, <2>2, <2>3, <2>4 DEF IndInv, scanVars
<1> QED BY <1>3, <1>4, <1>5, <1>6 DEF verify_entry_array_crc

\* Where read_partition_entry looks: one sector of the array, and in it the
\* first chunk of the entry.
LEMMA EntryPlace ==
  ASSUME IndInv, pc = "open", NEW index \in 0..(header.partition_entry_count - 1)
  PROVE  /\ Entry(index) = Slot(HeaderSector, index)
         /\ required_entry_sectors(EntryOffset(index) % SectorSize) = 1
         /\ EntryLba(index) \in header.partition_entry_lba..(ArrayEnd(header) - 1)
<1> DEFINE h == header
           lba == header.partition_entry_lba
           count == header.partition_entry_count
           size == header.partition_entry_size
           off == index * size
           q == off \div SectorSize
           r == off % SectorSize
<1>1. HeaderKept /\ Whole(HeaderLba) /\ device \in Disks
  BY DEF IndInv
<1>2. /\ lba \in Nat /\ count \in Nat \ {0} /\ size \in Nat /\ size >= EntryMinSize
      /\ size % EntryMinSize = 0
  BY <1>1, AcceptedFacts DEF HeaderKept, HeaderSector
<1>3. PICK z \in Nat \ {0} :
        /\ size = z * EntryMinSize
        /\ ArrayBytes(h) = (count * z) * EntryMinSize
        /\ ArrayBytes(h) \div EntryMinSize = count * z
  BY <1>2, ArrayFacts
<1>4. index \in Nat /\ index < count
  BY <1>2
<1>5. index * z \in Nat /\ index * z < count * z /\ count * z \in Nat
  <2>1. (count - index) * z > 0 /\ (count - index) * z = count * z - index * z
    BY <1>2, <1>4
  <2>2. index * z \in Nat /\ count * z \in Nat
    BY <1>2, <1>4
  <2> QED BY <2>1, <2>2
<1>6. off = (index * z) * EntryMinSize /\ off \in Nat
  <2>1. ASSUME NEW a \in Nat, NEW b \in Nat, NEW c \in Nat
        PROVE  a * (b * c) = (a * b) * c /\ (a * b) * c \in Nat
    OBVIOUS
  <2> QED BY <1>3, <1>4, <2>1, Sizes
<1> HIDE DEF off
<1>7. q \in Nat /\ r \in Nat /\ r < SectorSize /\ off = SectorSize * q + r
  BY <1>6, Sizes, DivMod
<1> HIDE DEF q, r
<1> DEFINE w == index * z - q * Chunks
<1>8. r = w * EntryMinSize /\ w \in Nat /\ w < Chunks
  <2>1. SectorSize * q = (q * Chunks) * EntryMinSize
    BY <1>7, Sizes
  <2>2. w * EntryMinSize = (index * z) * EntryMinSize - (q * Chunks) * EntryMinSize
    BY <1>5, <1>7, Sizes
  <2>3. (q * Chunks) * EntryMinSize \in Nat /\ q * Chunks \in Nat
    BY <1>7, Sizes
  <2>4. r = w * EntryMinSize
    BY <1>6, <1>7, <2>1, <2>2, <2>3
  <2>5. w \in Int
    BY <1>5, <2>3
  <2> HIDE DEF w
  <2>6. w >= 0
    BY <1>7, <2>4, <2>5, Sizes
  <2>7. EntryMinSize * w < EntryMinSize * Chunks
    BY <1>7, <2>4, <2>5, Sizes
  <2>8. w < Chunks
    BY <2>5, <2>7, Sizes
  <2> QED BY <2>4, <2>5, <2>6, <2>8
<1>9. r \div EntryMinSize = w
  BY <1>8, DivOf, Sizes
<1>10. EntryLba(index) = lba + q /\ EntryOffset(index) % SectorSize = r
  BY DEF EntryLba, EntryOffset, off, q, r
<1>11. (lba + q) * Chunks + w = lba * Chunks + index * z
  <2>1. (lba + q) * Chunks = lba * Chunks + q * Chunks
    BY <1>2, <1>7, Sizes
  <2>2. lba * Chunks \in Nat /\ q * Chunks \in Nat
    BY <1>2, <1>7, Sizes
  <2> QED BY <1>5, <2>1, <2>2
<1>12. Entry(index) = Zero(device.chunks, lba * Chunks + index * z)
  BY <1>9, <1>10, <1>11 DEF Entry
<1>13. Slot(HeaderSector, index) = Zero(device.chunks, lba * Chunks + index * z)
  <2>1. /\ HeaderSector.partition_entry_lba = lba
        /\ ArrayBytes(HeaderSector) = ArrayBytes(h)
        /\ HeaderSector.partition_entry_size = size
    BY <1>1 DEF HeaderKept, ArrayBytes
  <2>2. size \div EntryMinSize = z
    BY <1>3, DivOf, Sizes
  <2>3. index * z + 1 \in 1..(count * z)
    BY <1>5
  <2>4. lba * Chunks + (index * z + 1) - 1 = lba * Chunks + index * z
    BY <1>2, <1>5, Sizes
  <2>5. Slot(HeaderSector, index) = ArrayOf(HeaderSector)[index * z + 1]
    BY <2>1, <2>2 DEF Slot
  <2>6. ArrayOf(HeaderSector) = [k \in 1..(count * z) |-> Zero(device.chunks, lba * Chunks + k - 1)]
    BY <1>3, <2>1 DEF ArrayOf
  <2> QED BY <2>3, <2>4, <2>5, <2>6
<1>14. required_entry_sectors(r) = 1
  <2>1. (w + 1) * EntryMinSize <= Chunks * EntryMinSize
    BY <1>8, Sizes
  <2>2. (w + 1) * EntryMinSize = r + EntryMinSize
    BY <1>8, Sizes
  <2> HIDE DEF w
  <2>3. r + EntryMinSize <= SectorSize
    BY <2>1, <2>2, Sizes
  <2> DEFINE x == r + EntryMinSize + SectorSize - 1
  <2>4. x \in Nat /\ x >= SectorSize /\ x < 2 * SectorSize
    BY <1>7, <2>3, Sizes
  <2>5. required_entry_sectors(r) = x \div SectorSize
    BY DEF required_entry_sectors
  <2> HIDE DEF x
  <2> DEFINE s == x \div SectorSize
  <2>6. s \in Nat /\ SectorSize * s <= x /\ x < SectorSize * s + SectorSize
    BY <2>4, Sizes, DivBounds
  <2> HIDE DEF s
  <2>7. s # 0
    BY <2>4, <2>6, Sizes
  <2>8. s < 2
    <3>1. ASSUME s >= 2 PROVE SectorSize * s >= SectorSize * 2
      BY <2>6, <3>1, Sizes
    <3> QED BY <2>4, <2>6, <3>1, Sizes
  <2>9. s = 1
    BY <2>6, <2>7, <2>8
  <2> QED BY <2>5, <2>9 DEF s
<1>15. q < ArraySectors(h) /\ ArraySectors(h) \in Nat
  <2>1. (index * z) * EntryMinSize < (count * z) * EntryMinSize
    <3>1. ASSUME NEW a \in Nat, NEW b \in Nat, a < b, NEW p \in Nat \ {0}
          PROVE  a * p < b * p
      <4>1. (b - a) * p > 0 /\ (b - a) * p = b * p - a * p
        BY <3>1
      <4>2. a * p \in Nat /\ b * p \in Nat
        BY <3>1
      <4> QED BY <4>1, <4>2
    <3> QED BY <1>5, <3>1, Sizes
  <2>2. q * SectorSize <= off
    BY <1>6, <1>7, Sizes
  <2>3. ArrayBytes(h) \in Nat /\ q * SectorSize \in Nat
    BY <1>2, <1>7, ArrayFacts, Sizes
  <2>4. q * SectorSize < ArrayBytes(h)
    BY <1>3, <1>6, <2>1, <2>2, <2>3
  <2> QED BY <1>2, <1>7, <2>4, ArrayFacts
<1>16. EntryLba(index) \in lba..(ArrayEnd(h) - 1)
  BY <1>2, <1>7, <1>10, <1>15 DEF ArrayEnd
<1> QED BY <1>10, <1>12, <1>13, <1>14, <1>16

LEMMA PartitionInv ==
  ASSUME IndInv, partition
  PROVE  IndInv'
<1> DEFINE result(index, e) == [i \in DOMAIN entries \cup {index} |->
                                  IF i = index THEN e ELSE entries[i]]
           Span(index) == EntryLba(index)..(EntryLba(index)
                     + required_entry_sectors(EntryOffset(index) % SectorSize) - 1)
<1>1. pc = "open" /\ UNCHANGED <<device, pc, copy, header, scanVars, failed>>
  BY DEF partition
<1>2. PICK index \in 0..(header.partition_entry_count - 1) :
        /\ last' = Span(index)
        /\ \/ UNCHANGED entries
           \/ entries' = IF Possible(Entry(index)) THEN result(index, Entry(index)) ELSE entries
  BY Zenon DEF partition
<1>3. /\ Entry(index) = Slot(HeaderSector, index)
      /\ required_entry_sectors(EntryOffset(index) % SectorSize) = 1
      /\ EntryLba(index) \in header.partition_entry_lba..(ArrayEnd(header) - 1)
  BY <1>1, EntryPlace
<1>4. HeaderKept /\ Whole(HeaderLba) /\ Returned /\ device \in Disks
  BY <1>1 DEF IndInv
<1>5. HeaderLba' = HeaderLba /\ HeaderSector' = HeaderSector
  BY <1>1 DEF HeaderLba, CopyLba, HeaderSector, HeaderAt
<1>6. last' \subseteq header.partition_entry_lba..(ArrayEnd(header) - 1)
  <2>1. header.partition_entry_lba \in Nat
    BY DEF IndInv, Fields
  <2>2. EntryLba(index) \in Int
    BY <1>3, <2>1
  <2>3. last' = EntryLba(index)..EntryLba(index)
    BY <1>2, <1>3, <2>2
  <2>4. last' = {EntryLba(index)}
    BY <2>2, <2>3
  <2> QED BY <1>3, <2>4
<1>7. /\ DOMAIN entries' \subseteq 0..(header.partition_entry_count - 1)
      /\ \A i \in DOMAIN entries' :
           entries'[i] = Slot(HeaderSector, i) /\ Possible(entries'[i])
  <2>1. CASE entries' = entries
    BY <1>4, <2>1, Zenon DEF Returned
  <2>2. CASE entries' = result(index, Entry(index)) /\ Possible(Entry(index))
    BY <1>3, <1>4, <2>2, Zenon DEF Returned
  <2> QED BY <1>2, <2>1, <2>2
<1>8. Returned'
  <2>1. ArrayEnd(header)' = ArrayEnd(header)
    BY <1>1 DEF ArrayEnd, ArraySectors, ArrayBytes
  <2>2. ASSUME NEW i \in DOMAIN entries'
        PROVE  entries'[i] = Slot(HeaderSector, i)' /\ Possible(entries[i])'
    BY <1>1, <1>5, <1>7, <2>2 DEF Slot, ArrayOf, ArrayBytes, Zero, Possible
  <2> QED BY <1>1, <1>6, <1>7, <2>1, <2>2 DEF Returned
<1>9. HeaderKept' /\ Whole(HeaderLba)'
  <2>1. Readable(HeaderLba)' /\ Accepted(HeaderSector, HeaderLba)'
    BY <1>1, <1>4, <1>5 DEF HeaderKept, Readable, Accepted, ArrayFits, ArrayEnd,
         ArraySectors, ArrayBytes
  <2>2. Whole(HeaderLba)'
    BY <1>1, <1>4, <1>5 DEF Whole, HeaderAt, Accepted, ArrayFits, ArrayEnd, ArraySectors,
         ArrayBytes, ArrayOf, Zero
  <2> QED BY <1>1, <1>4, <1>5, <2>1, <2>2 DEF HeaderKept
<1>10. Refused'
  BY <1>1, SameDisk DEF IndInv, Refused
<1> QED BY <1>1, <1>4, <1>8, <1>9, <1>10 DEF IndInv, scanVars

LEMMA StutterInv ==
  ASSUME IndInv, UNCHANGED vars
  PROVE  IndInv'
<1>1. UNCHANGED <<device, pc, copy, header, current, remaining, crc, failed, entries, last>>
  BY DEF vars, scanVars
<1>2. HeaderKept' = HeaderKept /\ Whole(HeaderLba)' = Whole(HeaderLba)
  BY <1>1 DEF HeaderKept, HeaderLba, HeaderSector, HeaderAt, CopyLba, Readable, Accepted,
       ArrayFits, ArrayEnd, ArraySectors, ArrayBytes, Whole, ArrayOf, Zero
<1>3. Progress' = Progress
  BY <1>1 DEF Progress, ArrayBytes, Zero
<1>4. Returned' = Returned
  BY <1>1 DEF Returned, ArrayEnd, ArraySectors, ArrayBytes, HeaderSector, HeaderLba, CopyLba,
       HeaderAt, Slot, ArrayOf, Zero, Possible
<1>5. Refused' = Refused
  BY <1>1 DEF Refused, WholeCopy, CopyLba, Readable, HeaderAt, Accepted,
       ArrayFits, ArrayEnd, ArraySectors, ArrayBytes, Whole, ArrayOf, Zero
<1> QED BY <1>1, <1>2, <1>3, <1>4, <1>5 DEF IndInv

LEMMA NextInv == IndInv /\ [Next]_vars => IndInv'
  BY NewInv, HeaderInv, VerifyInv, PartitionInv, StutterInv DEF Next, Step

LEMMA Always == Spec => []IndInv
  BY InitInv, NextInv, PTL DEF Spec

-----------------------------------------------------------------------------
(* The theorems. *)

\* On every disk, whatever its headers say, the check of the array and every
\* read of an entry stay in the array that was accepted, which is on the disk.
THEOREM GptTypeCorrect == Spec => []TypeOK
<1>1. IndInv => TypeOK
  <2> SUFFICES ASSUME IndInv PROVE TypeOK
    OBVIOUS
  <2>1. pc \in {"array", "open"} => ArrayEnd(header) <= device.sector_count
    <3> SUFFICES ASSUME pc \in {"array", "open"} PROVE ArrayEnd(header) <= device.sector_count
      OBVIOUS
    <3>1. HeaderKept /\ device \in Disks
      BY DEF IndInv
    <3>2. ArrayEnd(HeaderSector) <= device.sector_count
      BY <3>1, AcceptedFacts DEF HeaderKept, HeaderSector
    <3> QED BY <3>1, <3>2 DEF HeaderKept, ArrayEnd, ArraySectors, ArrayBytes
  <2>2. pc = "array" /\ remaining > 0 => current < ArrayEnd(header)
    BY NextSector
  <2>3. /\ last \subseteq header.partition_entry_lba..(ArrayEnd(header) - 1)
        /\ DOMAIN entries \subseteq 0..(header.partition_entry_count - 1)
    BY DEF IndInv, Returned, NoTable
  <2> QED BY <2>1, <2>2, <2>3 DEF IndInv, TypeOK
<1> QED BY <1>1, Always, PTL

\* What partition() returns was under the CRC: on a disk where an array that
\* has its header's CRC is a table that was written as a whole, the entries
\* read through one view all belong to one table, whichever header led to it.
THEOREM EntriesOfOneTable == Spec /\ ArraysAreTables => []EntriesFromOneTable
<1>1. IndInv /\ ArraysAreTables => EntriesFromOneTable
  <2> SUFFICES ASSUME IndInv, ArraysAreTables PROVE EntriesFromOneTable
    OBVIOUS
  <2>1. CASE pc # "open"
    <3>1. entries = NoTable /\ DOMAIN NoTable = {}
      BY <2>1 DEF IndInv, NoTable
    <3> QED BY <3>1 DEF ArraysAreTables, EntriesFromOneTable
  <2>2. CASE pc = "open"
    <3>1. HeaderKept /\ Whole(HeaderLba) /\ Returned /\ device \in Disks
      BY <2>2 DEF IndInv
    <3>2. HeaderLba \in DOMAIN device.headers
      BY <3>1, HeaderTyped DEF HeaderKept, HeaderSector
    <3>3. PICK v \in device.versions :
            \A i \in 0..(HeaderSector.partition_entry_count - 1) :
              Possible(Slot(HeaderSector, i)) => i \in DOMAIN v /\ v[i] = Slot(HeaderSector, i)
      BY <3>1, <3>2 DEF ArraysAreTables, HeaderSector
    <3>4. \A i \in DOMAIN entries : i \in DOMAIN v /\ entries[i] = v[i]
      BY <3>1, <3>3 DEF Returned, HeaderKept
    <3> QED BY <3>4 DEF EntriesFromOneTable
  <2> QED BY <2>1, <2>2
<1>2. ArraysAreTables /\ [Next]_vars => ArraysAreTables'
  <2> SUFFICES ASSUME ArraysAreTables, UNCHANGED device PROVE ArraysAreTables'
    BY DEF Next, Step, new, read_header_at, verify_entry_array_crc, partition, vars
  <2>1. \A lba : HeaderAt(lba)' = HeaderAt(lba) /\ Whole(lba)' = Whole(lba)
    BY DEF Whole, HeaderAt, Accepted, ArrayFits, ArrayEnd, ArraySectors, ArrayBytes, ArrayOf, Zero
  <2>2. \A lba, i : Slot(HeaderAt(lba), i)' = Slot(HeaderAt(lba), i)
    BY DEF HeaderAt, ArrayBytes, ArrayOf, Zero, Slot
  <2>3. \A lba, i : Possible(Slot(HeaderAt(lba), i))' = Possible(Slot(HeaderAt(lba), i))
    BY <2>2 DEF Possible
  <2> QED BY <2>1, <2>2, <2>3 DEF ArraysAreTables
<1> QED BY <1>1, <1>2, Always, PTL DEF Spec

\* As long as no read fails, new opens a disk that has one whole copy.
THEOREM WholeCopyIsOpened == Spec /\ OneCopyIsWhole => []UpdateSurvives
<1>1. IndInv /\ OneCopyIsWhole => UpdateSurvives
  <2> SUFFICES ASSUME IndInv, OneCopyIsWhole, pc = "none", device.versions # {NoTable}, ~failed
               PROVE  FALSE
    BY DEF UpdateSurvives
  <2>1. PICK c \in {"primary", "backup"} : Readable(CopyLba(c)) /\ Whole(CopyLba(c))
    BY DEF OneCopyIsWhole
  <2>2. device.sector_count \in Nat
    BY DiskAssumption DEF IndInv
  <2>3. ~WholeCopy(c)
    BY <2>1 DEF IndInv, Refused
  <2>4. device.sector_count = 0
    BY <2>1, <2>2, <2>3 DEF WholeCopy
  <2> DEFINE h == HeaderAt(CopyLba(c))
  <2>5. /\ h.partition_entry_lba \in Nat /\ h.partition_entry_count \in Nat \ {0}
        /\ h.partition_entry_size \in Nat /\ h.partition_entry_size >= EntryMinSize
        /\ h.partition_entry_size % EntryMinSize = 0
        /\ ArrayEnd(h) <= device.sector_count /\ h.partition_entry_lba # 0
    BY <2>1, AcceptedFacts DEF IndInv, Whole, Accepted, ArrayFits
  <2> HIDE DEF h
  <2>6. ArraySectors(h) \in Nat
    BY <2>5, ArrayFacts
  <2> QED BY <2>4, <2>5, <2>6 DEF ArrayEnd
<1>2. OneCopyIsWhole /\ [Next]_vars => OneCopyIsWhole'
  <2> SUFFICES ASSUME OneCopyIsWhole, UNCHANGED device PROVE OneCopyIsWhole'
    BY DEF Next, Step, new, read_header_at, verify_entry_array_crc, partition, vars
  <2>1. \A c : CopyLba(c)' = CopyLba(c) /\ Readable(CopyLba(c))' = Readable(CopyLba(c))
    BY DEF CopyLba, Readable
  <2>2. \A c : Whole(CopyLba(c))' = Whole(CopyLba(c))
    BY DEF Whole, CopyLba, HeaderAt, Accepted, ArrayFits, ArrayEnd, ArraySectors, ArrayBytes,
         ArrayOf, Zero
  <2> QED BY <2>1, <2>2 DEF OneCopyIsWhole
<1> QED BY <1>1, <1>2, Always, PTL DEF Spec

=============================================================================
