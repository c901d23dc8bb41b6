--------------------------- MODULE MC_TabletCrash ---------------------------
(***************************************************************************)
(* Instantiates TabletCrash for TLC.  Five table ids hold two memory       *)
(* tables, their two serialized files and a compaction output at once.    *)
(***************************************************************************)
EXTENDS TabletCrash, TLC

CONSTANTS t1, t2, t3, t4, t5
MCTableIds == {t1, t2, t3, t4, t5}
\* Table identities are interchangeable: nothing orders or compares them.
MCSymmetry == Permutations(MCTableIds)
=============================================================================
