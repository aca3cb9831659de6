-------------------------------- MODULE GptMC --------------------------------
(***************************************************************************)
(* Disks of twelve sectors, four bytes each, with tables that were being   *)
(* replaced when the power went.  The smallest entry has two bytes.        *)
(***************************************************************************)
EXTENDS Gpt, TLC

Last == 11

E(type, first, last_lba) == [type |-> type, first_lba |-> first, last_lba |-> last_lba]

\* A table: its entries, and the size of one.
T(list, size) == [list |-> list, size |-> size]

Old == T(<<E("linux", 5, 6), NoEntry, E("esp", 7, 7)>>, 2)
New == T(<<E("linux", 5, 5), E("linux", 6, 7), E("linux", 7, 7)>>, 2)
Wide == T(<<E("esp", 5, 6), E("linux", 7, 7)>>, 4)
Padded == T(<<E("esp", 5, 6)>>, 6)
Odd == T(<<E("linux", 9, 5), E("linux", 5, 12), E("linux", 6, 6), NoEntry>>, 2)

\* Tables by index from zero, without the entries that are refused.
Version(t) ==
  [i \in {k - 1 : k \in {k \in DOMAIN t.list : /\ t.list[k].first_lba <= t.list[k].last_lba
                                               /\ t.list[k].last_lba <= Last}} |-> t.list[i + 1]]

\* The array in chunks, entries wider than a chunk filled up with traces of
\* older ones.
ChunksOf(t) ==
  LET n == t.size \div EntryMinSize
  IN [c \in 1..(Len(t.list) * n) |->
        IF (c - 1) % n = 0 THEN t.list[(c - 1) \div n + 1] ELSE E("trace", 8, 8)]

HeaderOf(t, at, other, lba) ==
  [signature |-> TRUE, header_size |-> 3, header_crc |-> TRUE, current_lba |-> at,
   backup_lba |-> other, first_usable_lba |-> 5, last_usable_lba |-> 7,
   partition_entry_lba |-> lba, partition_entry_count |-> Len(t.list),
   partition_entry_size |-> t.size, entry_crc |-> ChunksOf(t)]

Primary(t) == HeaderOf(t, 1, Last, 2)
Backup(t) == HeaderOf(t, Last, 1, 9)

\* A table's sectors in the order in which a copy is written: the array, then
\* the header.
ArrayAt(t, lba) ==
  LET c == ChunksOf(t)
  IN [s \in 0..((Len(c) + 1) \div 2 - 1) |->
        [a \in {(lba + s) * 2, (lba + s) * 2 + 1} |->
           LET k == a - lba * 2 + 1 IN IF k \in DOMAIN c THEN c[k] ELSE NoEntry]]

ArrayWrites(t) == (Len(ChunksOf(t)) + 1) \div 2

\* The chunks of one copy after n of its writes.
Rewritten(before, after, lba, n) ==
  LET o == ArrayAt(before, lba)
      w == ArrayAt(after, lba)
      f[s \in 0..2] == IF s \in DOMAIN w /\ s < n THEN w[s]
                       ELSE IF s \in DOMAIN o THEN o[s] ELSE NoTable
  IN f[0] @@ f[1] @@ f[2]

\* The header is written behind the array.
TableAfter(before, after, n) == IF n > ArrayWrites(after) THEN after ELSE before

\* The disk after n writes of the one copy and m of the other.
Updated(before, after, n, m) ==
  [sector_count |-> Last + 1,
   headers |-> 1 :> Primary(TableAfter(before, after, n)) @@ Last :> Backup(TableAfter(before, after, m)),
   chunks |-> Rewritten(before, after, 2, n) @@ Rewritten(before, after, 9, m),
   versions |-> {Version(before), Version(after)}]

\* Every point of an update, whichever copy comes first.
Points(after) ==
  LET all == ArrayWrites(after) + 1
  IN {<<n, 0>> : n \in 0..all} \cup {<<all, m>> : m \in 0..all}
       \cup {<<0, m>> : m \in 0..all} \cup {<<n, all>> : n \in 0..all}

Tables == {Old, New, Wide, Padded, Odd}

Interrupted ==
  UNION {{Updated(pair[1], pair[2], p[1], p[2]) : p \in Points(pair[2])} : pair \in Tables \X Tables}

\* Both headers with one field out of range: no table.
Damage(h) ==
  {[h EXCEPT !.signature = FALSE], [h EXCEPT !.header_size = 2], [h EXCEPT !.header_size = 5],
   [h EXCEPT !.header_crc = FALSE], [h EXCEPT !.current_lba = 3],
   [h EXCEPT !.backup_lba = h.current_lba], [h EXCEPT !.backup_lba = Last + 1],
   [h EXCEPT !.first_usable_lba = 8], [h EXCEPT !.last_usable_lba = Last + 1],
   [h EXCEPT !.partition_entry_count = 0], [h EXCEPT !.partition_entry_size = 0],
   [h EXCEPT !.partition_entry_size = 3], [h EXCEPT !.partition_entry_count = 100],
   [h EXCEPT !.partition_entry_lba = 0], [h EXCEPT !.partition_entry_lba = Last],
   [h EXCEPT !.partition_entry_lba = 62], [h EXCEPT !.entry_crc = <<>>]}

\* The array over its own header.
Covering == [Backup(Old) EXCEPT !.partition_entry_lba = Last - 1]

Damaged ==
  {[Updated(Old, Old, 0, 0) EXCEPT !.headers = 1 :> p @@ Last :> b, !.versions = {NoTable}] :
      p \in Damage(Primary(Old)), b \in Damage(Backup(Old)) \cup {Covering}}

\* Disks without room for tables.
Tiny ==
  {[sector_count |-> n, headers |-> NoTable, chunks |-> NoTable, versions |-> {NoTable}] :
      n \in 0..2}

AllDisks == Interrupted \cup Damaged \cup Tiny
=============================================================================
