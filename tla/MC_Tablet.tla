----------------------------- MODULE MC_Tablet -----------------------------
(***************************************************************************)
(* Instantiates Tablet for TLC.  The compaction threshold (5 in addTable)  *)
(* and width (K = 8 in doCompaction) are scaled down to 2 so that a few    *)
(* mutations build a stack in which a compaction leaves the bottom table   *)
(* out and must keep its erasures.                                         *)
(***************************************************************************)
EXTENDS Tablet, TLC

CONSTANTS t1, t2, t3, t4, t5
MCTableIds == {t1, t2, t3, t4, t5}
\* Table identities are interchangeable: nothing orders or compares them.
MCSymmetry == Permutations(MCTableIds)
MCThreshold == 2
MCWidth == 2
=============================================================================
