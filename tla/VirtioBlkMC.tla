---------------------------- MODULE VirtioBlkMC ----------------------------
(***************************************************************************)
(* Small instances of VirtioBlk.                                           *)
(***************************************************************************)
EXTENDS VirtioBlk

CONSTANTS b1, b2, none
=============================================================================
