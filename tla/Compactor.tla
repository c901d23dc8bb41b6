------------------------------ MODULE Compactor ------------------------------
(***************************************************************************)
(* Compactor::compact of kdi/server/Compactor.cc: the ranges of a         *)
(* compaction set, in map order, are merged one after another into a      *)
(* FragmentWriter; the writer is rolled to a new file once its data size   *)
(* reaches OUTPUT_SPLIT_SIZE, and the output map binds each range to the   *)
(* file holding its cells, or to the "" sentinel when the merge of the     *)
(* range produced no cells.                                                *)
(*                                                                         *)
(* The merge of a range is abstracted to the number of cells it emits,    *)
(* each one unit of data; SplitSize stands for OUTPUT_SPLIT_SIZE in those *)
(* units.  Files are numbered in the order FragmentWriter::finish names   *)
(* them.                                                                   *)
(***************************************************************************)
EXTENDS Naturals, Sequences, SequencesExt

CONSTANTS
    NRanges,        \* ranges of the compaction set are 1..NRanges, in order
    MaxRangeCells,  \* most cells the merge of one range emits
    SplitSize,      \* OUTPUT_SPLIT_SIZE, in cells
    Empty,          \* the "" sentinel of the output map
    Unset           \* a range with no entry in the output map

ASSUME /\ NRanges \in Nat /\ MaxRangeCells \in Nat /\ SplitSize \in Nat \ {0}
       /\ Empty \notin Nat /\ Unset \notin Nat /\ Empty # Unset

Ranges == 1..NRanges

VARIABLES
    merged,         \* cells the merge of each range emits (the input)
    i,              \* the loop's next range
    writer,         \* number of the open writer's file, 0 when none
    dataSize,       \* writer->getDataSize()
    outputRanges,   \* ranges that emitted cells since the set was made
    outputSet,      \* the RangeOutputMap being filled in
    finished,       \* files finished so far
    writtenTo,      \* writtenTo[r]: file the cells of range r went to
    done            \* compact has returned

vars == <<merged, i, writer, dataSize, outputRanges, outputSet, finished,
          writtenTo, done>>

FileIds == 1..(NRanges + 1)

TypeOK ==
    /\ merged \in [Ranges -> 0..MaxRangeCells]
    /\ i \in 1..(NRanges + 1)
    /\ writer \in 0..(NRanges + 1)
    /\ dataSize \in 0..(SplitSize - 1)
    /\ outputRanges \in Seq(Ranges)
    /\ outputSet \in [Ranges -> FileIds \cup {Empty, Unset}]
    /\ finished \in 0..(NRanges + 1)
    /\ writtenTo \in [Ranges -> 0..(NRanges + 1)]
    /\ done \in BOOLEAN

\* Any compaction set, with an empty output map.
Init ==
    /\ merged \in [Ranges -> 0..MaxRangeCells]
    /\ i = 1
    /\ writer = 0
    /\ dataSize = 0
    /\ outputRanges = <<>>
    /\ outputSet = [r \in Ranges |-> Unset]
    /\ finished = 0
    /\ writtenTo = [r \in Ranges |-> 0]
    /\ done = FALSE

\* writer->finish() names the file fn and every range of outputRanges is
\* bound to it ...
BindOutputs(set, ranges, fn) ==
    [r \in Ranges |-> IF r \in ToSet(ranges) THEN fn ELSE set[r]]

\* ... and then outputSet.clear() empties the whole map.
Clear(set) == [r \in Ranges |-> Unset]

\* The roll: finish the writer w and bind the output ranges, then clear.
RollOutput(w, size, set, ranges) ==
    /\ writer' = 0 /\ dataSize' = 0 /\ finished' = w
    /\ outputSet' = Clear(BindOutputs(set, ranges, w))

\* One iteration of the loop over the compaction set: open a writer if
\* there is none, merge the range into it, record the range as output or
\* as compacted away, and roll the writer once it is big enough.
CompactRange ==
    LET w      == IF writer = 0 THEN finished + 1 ELSE writer
        size   == dataSize + merged[i]
        ranges == IF merged[i] > 0 THEN Append(outputRanges, i)
                  ELSE outputRanges
        set    == IF merged[i] > 0 THEN outputSet
                  ELSE [outputSet EXCEPT ![i] = Empty]
    IN
    /\ ~done /\ i <= NRanges
    /\ i' = i + 1
    /\ outputRanges' = ranges
    /\ writtenTo' = IF merged[i] > 0 THEN [writtenTo EXCEPT ![i] = w]
                    ELSE writtenTo
    /\ \/ /\ size >= SplitSize
          /\ RollOutput(w, size, set, ranges)
       \/ /\ size < SplitSize
          /\ writer' = w /\ dataSize' = size
          /\ outputSet' = set
          /\ UNCHANGED finished
    /\ UNCHANGED <<merged, done>>

\* Mutant: compact returns without closing the last output.
CloseLastSkipped ==
    /\ ~done /\ i > NRanges
    /\ done' = TRUE
    /\ UNCHANGED <<merged, i, writer, dataSize, outputRanges, outputSet,
                   finished, writtenTo>>

\* After the loop: finish the last writer, if one is open, bind the
\* output ranges to it and clear the map; then compact returns.
CloseLast ==
    /\ ~done /\ i > NRanges
    /\ \/ /\ writer # 0
          /\ RollOutput(writer, dataSize, outputSet, outputRanges)
       \/ /\ writer = 0
          /\ UNCHANGED <<writer, dataSize, outputSet, finished>>
    /\ done' = TRUE
    /\ UNCHANGED <<merged, i, outputRanges, writtenTo>>

Next == CompactRange \/ CloseLast

Spec == Init /\ [][Next]_vars

-----------------------------------------------------------------------------
(* Properties                                                               *)

\* No merged cell is left behind in an unfinished writer: once compact
\* returns, the cells of every range went to a file FragmentWriter::finish
\* has named.
MergedCellsFinished ==
    done => \A r \in Ranges : merged[r] > 0 => writtenTo[r] \in 1..finished
=============================================================================
