--------------------------- MODULE MC_SuperTablet ---------------------------
(***************************************************************************)
(* SuperTablet instantiated for TLC.  Three rows let a tablet be split     *)
(* twice and a split request reach a one-row tablet that has nowhere to   *)
(* split; three tablet identities are enough for every split of 3 rows.   *)
(***************************************************************************)
EXTENDS SuperTablet, TLC

CONSTANTS ta, tb, tc

MCTabletIds == {ta, tb, tc}
=============================================================================
