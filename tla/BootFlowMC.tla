----------------------------- MODULE BootFlowMC -----------------------------
(***************************************************************************)
(* Small machines for BootFlow.                                            *)
(***************************************************************************)
EXTENDS BootFlow

F(pages, linux) == [pages |-> pages, linux |-> linux]
None == F(0, FALSE)

V(fs, k1, k2, i1, i2) ==
  [filesystem |-> fs,
   files |-> [p \in Paths |-> CASE p = "/boot/vmlinuz"    -> k1
                                [] p = "/vmlinuz"         -> k2
                                [] p = "/boot/initrd.img" -> i1
                                [] p = "/initrd.img"      -> i2]]

E(lba, bootable) ==
  [present |-> TRUE, bootable |-> bootable, sound |-> TRUE, first_lba |-> lba]
Absent == [present |-> FALSE, bootable |-> FALSE, sound |-> TRUE, first_lba |-> 0]
Broken == [present |-> TRUE, bootable |-> FALSE, sound |-> FALSE, first_lba |-> 0]

Good(entries) == [valid |-> TRUE, entries |-> entries]
Bad == [valid |-> FALSE, entries |-> <<>>]

\* Volumes by the block they start on: nothing, a whole system, a kernel that
\* is none, a kernel at the second path without initrd, and one that fills the
\* memory.
Volumes == [l \in 0..4 |->
  CASE l = 0 -> V("unknown", None, None, None, None)
    [] l = 1 -> V("fat", F(2, TRUE), None, F(1, FALSE), None)
    [] l = 2 -> V("ext4", F(1, FALSE), F(2, TRUE), None, F(1, FALSE))
    [] l = 3 -> V("ext4", None, F(2, TRUE), None, F(3, FALSE))
    [] l = 4 -> V("fat", F(4, TRUE), None, F(2, FALSE), None)]

Disk(works, primary, backup) ==
  [works |-> works, primary |-> primary, backup |-> backup, volumes |-> Volumes]

TableChoices == {
  <<>>, <<Absent, E(1, TRUE)>>, <<E(1, FALSE), E(3, TRUE)>>, <<E(2, TRUE), E(4, TRUE)>>,
  <<E(0, TRUE), E(2, TRUE), Absent>>}

\* Every pair of disks, the first with a damaged primary table or a driver
\* that does not start.
ReliableMachines ==
  {<<Disk(w, Good(a), Good(a)), Disk(TRUE, Bad, Good(b))>> :
      w \in BOOLEAN, a \in TableChoices, b \in TableChoices}
  \cup {<<>>, <<Disk(TRUE, Bad, Bad)>>}

\* The backup table is older than the primary one, or an entry with a reversed
\* range stands in front of a bootable partition.
FlakyMachines ==
  {<<Disk(TRUE, Good(a), Good(<<E(4, TRUE)>>)), Disk(TRUE, Good(b), Bad)>> :
      a \in TableChoices, b \in TableChoices}
  \cup {<<Disk(TRUE, Good(<<Broken, E(1, TRUE)>>), Good(<<E(1, TRUE), Broken>>))>>}
=============================================================================
