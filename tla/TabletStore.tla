---------------------------- MODULE TabletStore ----------------------------
(***************************************************************************)
(* What a tablet promises its clients, independent of how the cells are   *)
(* stored: a map from cell key (row, column, timestamp) to the value last  *)
(* set for it, or Absent once the cell has been erased.  Tablet::set and   *)
(* Tablet::erase are the only operations that change it; flushing,         *)
(* serializing and compacting the fragment stack must leave it unchanged.  *)
(***************************************************************************)
EXTENDS Naturals

CONSTANTS
    Keys,       \* cell keys (row, column, timestamp)
    Values,     \* cell values
    Absent      \* no live cell for the key

ASSUME Absent \notin Values

VARIABLES
    store,      \* the live cells
    applied     \* number of set/erase calls applied so far

StoreTypeOK == store \in [Keys -> Values \cup {Absent}] /\ applied \in Nat

StoreInit == store = [k \in Keys |-> Absent] /\ applied = 0

StoreSet(k, v) == store' = [store EXCEPT ![k] = v] /\ applied' = applied + 1

StoreErase(k) ==
    store' = [store EXCEPT ![k] = Absent] /\ applied' = applied + 1

StoreNext ==
    \E k \in Keys :
        \/ \E v \in Values : StoreSet(k, v)
        \/ StoreErase(k)

StoreSpec == StoreInit /\ [][StoreNext]_<<store, applied>>
=============================================================================
