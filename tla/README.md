# TLA+ models of the kdi tablet server

This directory holds TLA+ specifications of the concurrent core of kdi
(`src/src/cc/kdi`), the TLC configurations that check them, and
`PROJECT.json`. `PROJECT.json` lists the components, runs, seeded mutants,
the source lines every definition models, the findings and the hazards.

## The system

A kdi tablet server stores cells `(row, column, timestamp) -> value` in
tablets. The parts and how they interact:

* **Tablet** (`kdi/tablet/Tablet.cc`) is an LSM store. It keeps a stack of
  tables (`tables`): memory tables written through the shared logger, and
  static disk tables written by the serializer or by compaction.
  * **Mutations.** `set`/`erase` log the cell and raise `mutationsPending`.
    `sync` makes the log durable and saves the tablet config (the table list)
    when `configChanged`.
  * **Replacement.** `addTable` pushes a new memory table and may request a
    compaction. `doCompaction` merges the last K (=8) tables that end at the
    last static table, filtering erasures when it reaches the bottom.
    `replaceTables` then swaps the compacted sequence for the new table, saves
    the config, reopens registered scanners (`updateScanners`) and removes
    the dead files.
  * **Scans.** `scan` builds a Scanner over `getMergedScan` and registers it
    weakly.
* **SuperTablet** (`kdi/tablet/SuperTablet.cc`) holds the tablets of one
  table, ordered by last row.
  * **Routing.** Every mutation and `sync` takes a `MutationInterlock` and
    routes by `getTablet`.
  * **Splits.** `performSplit` runs on a WorkQueue thread under a
    `MutationLull`, which blocks new interlocks and waits until none is
    pending. It then splits a tablet and inserts the new low tablet.
* **Server Compactor** (`kdi/server/Compactor.cc`). `compact` merges every
  range of a compaction set into output files. It rolls to a new file at
  1 GiB and fills a map from each range to its output file, or to `""` when
  the range compacted away.
* **ScannerI** (`kdi/server/ScannerI.cc`) is the RPC servant of an open
  scanner. `scanMore_async` admits one batch at a time through `inUse` and
  answers others `ScannerBusy`. The batch's `ScanCb` replies, closes a
  finished scan (`doClose`, which removes it from the ScannerLocator) and
  clears `inUse`. `close_async` closes an idle scanner.
* **tuple_encode** (`warp/tuple_encode.h`) encodes a tuple or sequence of
  strings as one string that keeps their nested lexicographic order. Each
  item is ZeroEscape'd and followed by `"\0\0"`. Decoding cuts at the first
  `"\0\0"`.

The shared logger, serializer, SharedCompactor, Scanner, CellMerge,
ScannerLocator, `Tablet::splitTablet` and `warp/zero_escape.h` are not in
the source tree. ZeroEscape is modelled as writing each `'\0'` as
`"\0\1"`. That is the escape under which the header's order claim can
hold: an escaped item never contains `"\0\0"`, and an escaped zero sorts
above the terminator. Where
the models need them they follow `spec.md`; those definitions are marked
`spec_modelled` in the map.

## Modules

| module | models | state | actions |
|---|---|---|---|
| `TabletStore` | what a tablet promises | `store` (key -> value or Absent), `applied` (count of set/erase) | `StoreSet`, `StoreErase` |
| `Tablet` | `Tablet.cc` + spec-modelled logger, serializer, compactor, scanner | `stack` (table ids, bottom first), `static`, `cells`, `files` on disk, saved `config`, `configChanged`, `mutationsPending`, the log (`logLen`, `logDurable`), per-thread pcs of writers, replacers (compactors and the serializer) and readers, registered `scanners`, and the ghost `rWatch` (the scanners registered when a replacer swapped) | one action per step between locks: `Set`/`Erase` (logger append, `addTable`), `SetPending`, `SyncStart`, `LogSynced`, `SyncStatus`, `SyncSave`, `Compact`/`CompactionSkip`, `RollMemTable`, `Serialize`, `ReplaceSwap`, `ReplaceSaveRead`, `ReplaceSaveWrite`, `ReplaceUpdateScanners`, `ReplaceRemoveFiles`, `OpenScanner`, `RegisterScanner`, `CloseScanner` |
| `MC_Tablet` | model values for table ids, symmetry, scaled threshold/width | | |
| `TabletCrash` | `Tablet.cc` with its durable state and a crash fault | `stack`, `disk` files, their `content` (mutation numbers), `durable` (written back), saved `config`, the log (`logged`, `logSynced`), `flushed` (no longer replayed), `acked` (ghost: mutations a returned sync covered), the compaction's `cOld`/`cNew`, `up` | each operation one step: `Set` (set/erase, `addTable`), `Sync`, `RollMemTable`, `Serialize`, `CompactWrite` (doCompaction up to the unsynced `close`), `CompactReplace` (`replaceTables`), environment `Writeback` and `Crash`, `Restart` (the constructor's `loadConfig` and log replay) |
| `MC_TabletCrash` | model values for table ids, symmetry | | |
| `SuperTablet` | `SuperTablet.cc` | `tablets` vector, rows `(lo, hi]` per tablet, `mutationsBlocked`, `mutationsPending`, mutator and splitter pcs, the weak SuperScanner list `registered`, each scanner's life `cpc` and the split `generation` it last opened at (`sview`) | `Call`, `InterlockEnter`, `Route`, `Apply`, `SyncTablets`, `InterlockExit`, `RequestSplit`, `LullBlock`, `LullQuiet`, `PerformSplit` (its early return included), `UpdateScanners`, `LullRelease`, `ScanCreate`/`ScanRegister` (the two halves of `scan`), `ScanFirstTablet`, `ScanDrop` (the client releases its handle) |
| `BitVector` | `warp/bit_vector.cc` + spec-less `bitsToBytes` from the missing header | `vec` (per object: `nBits` and the buffer as a byte sequence, `Null`, or `Undef` bytes), ghost `overrun` | `Construct`, `Clear`, `CopyConstruct`, `Assign` (self-assignment included), `Load`, `WordOp` (`|=`, `&=`, `^=`) |
| `MC_SuperTablet` | model values for tablet ids | | |
| `Compactor` | `Compactor::compact` | the input (cells each range's merge emits), loop index, open writer and its size, `outputRanges`, `outputSet`, files finished, `writtenTo` (ghost) | `CompactRange` (one loop iteration, roll or not), `CloseLast` |
| `TupleEncode` | `warp/tuple_encode.h` + spec-modelled `ZeroEscape`/`zeroUnescape` | two input tuples `x`, `y`, their encodings, the decodings, `stage` | `Encode` (encodeStringSequence of `x`, encodeTuple of `y`), `Decode` (decodeStringSequence, and decodeTuple at every arity); the codec functions are operators, `RECURSIVE` where the code recurses |
| `ScannerI` | `ScannerI.cc` | `registered` (in the locator), `inUse`, per-client call state and reply count, per-client ScanCb state | `Call`, `Dispatch`, `ScanMore`, `Close`, `CbDone`, `CbError`, `CbReset` |

Each action covers a code block that runs under one lock, or between two
lock or await points. Its guard comes from the code's conditions, and error
paths are separate disjuncts. The data is abstracted:

* cells are one key and one value plus the Erasure marker;
* file names are table ids;
* merges become the operator `MergeCells`;
* rows are small integers;
* a compaction range's merge is the number of cells it emits.

## Runs

| run | cfg | expect | what it shows |
|---|---|---|---|
| tablet_store | `MC_Tablet.cfg` | pass | One writer, one compactor and the serializer. The stack refines `TabletStore` (`StoreRefinement`: every flush, serialization and compaction leaves the logical map unchanged, and each set/erase is one store step), and no stack table's file is ever removed (`StackFilesExist`). |
| tablet_scanners | `MC_TabletScanners.cfg` | pass | One reader, one compactor and the serializer, compaction threshold 1. When `replaceTables` removes its dead files, no scanner that was registered at its swap and is still open reads one of them (`DeadFilesUnread`). This needs `updateScanners` to reopen every such scanner between the swap and `fs::remove`, and a concurrent `replaceTables`' pruning of expired handles never to drop a live one. |
| tablet_sync_race | `MC_TabletSync.cfg` | violation | Two writers. The unlocked `mutationsPending` lets a `sync` return with its own earlier `set` not durable (`SyncedMutationsDurable`). |
| tablet_config_race | `MC_TabletConfig.cfg` | violation | The serializer's and the compactor's `saveConfig` race. A stale table list is saved last, naming a removed file (`ConfigFilesExist`). |
| tablet_orphan_file | `MC_TabletOrphan.cfg` | violation | Three memory tables get a compaction, because `getCompactionPriority` counts memory tables as static. The compaction has no static table to merge, so `replaceTables` gets an empty sequence and raises, and the new file is never removed (`NoOrphanFiles`). |
| supertablet_gate | `MC_SuperTablet.cfg` | pass | One split worker, two clients, one SuperScanner. The vector stays a partition of the rows (`EveryRowRouted`), no interlock is held during a split (`MutationsExcludeSplits`), a routed mutation's tablet still holds its row (`RoutedRowStillInTablet`), and every waiting mutation completes (`MutationsComplete`). |
| tablet_crash_compaction | `MC_TabletCrash.cfg` | violation | `doCompaction` closes its output without an fsync. `replaceTables` then saves a config naming only that file and removes the inputs. A crash before writeback, then a restart, loses mutations an earlier `sync` acknowledged (`AckedMutationsSurvive`). Spec section 9 says the fragment must be flushed before the config names it. |
| compactor_cells | `MC_Compactor.cfg` | pass | Every merged cell ends up in a finished file (`MergedCellsFinished`). |
| bitvector_empty_ops | `MC_BitVector.cfg` | violation | `bitsToWords` divides by `sizeof(size_t)` instead of 64, so `bitsToWords(0)` is 7. `|=`, `&=` and `^=` on a zero-bit vector, whose buffer `allocBits(0)` left null, loop over seven words through the null pointer (`NoOverrun`). With the division by 64 the same model passes (169 states). |
| scanneri_busy | `MC_ScannerI.cfg` | pass | Two clients. One batch in flight at a time (`OneBatchInFlight`), one reply per call (`TypeOK`), and every call answered (`EveryCallAnswered`). |
| tuple_encode | `MC_TupleEncode.cfg` | pass | Every pair of tuples of up to two strings of up to two bytes from {0,1,2} (33,489 pairs). Decoding inverts encoding (`RoundTrip`). The encodings compare as the tuples do (`OrderPreserved`, against a reference lexicographic order). `decodeTuple` raises for every other arity (`WrongSizeRejected`). |
| scanneri_use_after_close | `MC_ScannerIClose.cfg` | violation | `ScanCb::done` locks the servant's mutex after `doClose` removed it (`NoUseAfterClose`). A `scanMore` dispatched before a concurrent `close_async` also starts a scan on the removed scanner. |

The findings behind the violation runs are in `PROJECT.json`. Each property
of a passing run has a seeded mutant, a plausible bug in the mapped code,
under which TLC finds that property violated.

## Bounds

* **Tablet.** Five table ids (symmetric model values) are enough for a
  memtable, a serialized table, a compaction output and two tables being
  replaced. Other settings:
  * One key and one value, because the properties are about which table
    holds a cell, not about the data.
  * Compaction threshold 2 and width 2, scaled down from 5 and 8, so that a
    compaction that leaves out the bottom table (and so keeps erasures)
    happens within reach.
  * `MaxMutations` 2–3 bounds the writes.
* **TabletCrash.** Five table ids hold two memtables, their two serialized
  files, and the compaction output. Two mutations, compaction width 2 and
  one crash are enough for the shortest losing trace (11 steps). At a crash,
  a file not written back keeps any subset of its content.
* **SuperTablet.** Three rows allow two splits, or one split and a request
  for a one-row tablet (the early-return path). Three tablet ids cover every
  split of three rows. `MaxSplitRequests` 2 bounds requestSplit, whose caller
  is not in the tree; at 3 the run grows to 556k states and 3 minutes
  without a new case. One SuperScanner is enough to be created, registered,
  opened and dropped before, during and after each split.
* **BitVector.** Two objects, sizes {0, 3, 8, 9} (no buffer; a partial last
  byte; a whole byte; one bit into a second byte) and raw bytes {0, 255},
  so that load's mask matters.
* **Compactor.** Four ranges of 0–2 cells and a split size of 2 give rolls
  after one or two ranges, and ranges compacted away before and after a roll.
* **TupleEncode.** The byte 0 is the case that matters: it is escaped, and
  the terminator is made of it. Bytes {0,1,2} put a byte below and a byte
  above the escape byte `1`. Strings of up to two bytes hold `"\0\0"`,
  `"\0\1"` and an escaped zero next to the terminator. Tuples of up to two
  items hold empty items, and decodeTuple is asked for arities 0..3.
* **ScannerI.** Two clients reach busy replies, a close racing a scan, and a
  call reaching a removed scanner.

## Fairness

* **SuperTablet.** Weak fairness on every step of a thread already inside a
  call. Threads blocked on a condition variable are woken by `notify_all`.
  Splits are bounded, so the gate eventually stays open, and weak fairness
  is enough for `MutationsComplete`. The split worker's `UpdateScanners` step
  is part of its weakly fair steps. Clients need not call again or use their
  scanners, so `Call` and the `Scan*` steps have no fairness.
* **ScannerI.** Weak fairness on dispatch and on the scanner's callback: the
  Scanner eventually finishes or fails the batch it was asked for.
* **Tablet, TabletCrash, Compactor, TupleEncode and BitVector.** The runs check safety only.
  `compact`, `encode` and `decode` are one-shot calls, so their runs set
  `CHECK_DEADLOCK FALSE`.

## What is not modelled, and the plan

Built so far: the Tablet (threads, and separately crash and restart), the
SuperTablet gate, split and SuperScanner registration, `Compactor::compact`,
ScannerI, tuple_encode and BitVector.

Hazards listed with no run, and why:

* A Scanner takes its tables before it is registered (`Tablet.cc:149`).
  Whether it reads removed files depends on when the Scanner takes its table
  list, and the Scanner is not in the tree. The model reaches the race:
  `DeadFilesUnread` covers only the scanners registered at the swap, and
  the full property would rest on the missing Scanner class.
* SuperScanners around a split (`SuperTablet.cc:303`). Per the spec a
  SuperScanner opens its tablets lazily, so one created around a split has
  read nothing the split changed. A property about its reopen would hold by
  construction of the spec-modelled part, so none is checked.
* `getMergedScan`'s single-static-table fast path (`Tablet.cc:186`) yields
  erasures only if the serializer writes them. The serializer is not in the tree.
* Two split workers (`SuperTablet.cc:153`): the first lull's destructor
  reopens the gate during the second split. This needs two WorkQueue
  threads, and the WorkQueue is not in the tree. The gate run has one
  split worker.
* Compaction liveness (`Tablet.cc:294`). `addTable` requests a compaction
  only when it crosses the threshold. Whether a stack above the threshold is
  eventually compacted depends on the SharedCompactor's scheduling, which is
  not in the tree.
* `Compactor::compact`'s output map (`Compactor.cc:122`, `:127`).
  `outputSet.clear()` runs after the bindings, so the returned map binds no
  range, and `outputRanges` is never cleared after a roll. The bug is still
  in the code. Any call of `compact` that inspects its result shows it, so
  its violation run was retired for `bitvector_empty_ops`: the project is
  limited to twelve runs.
* BitVector self-assignment (`bit_vector.cc:76`). `operator=` frees the old
  buffer before it copies from `o`, so `v = v` copies uninitialised bytes.
  `Assign` models this, but the only BitVector run checks `NoOverrun`. A
  property about contents would need a passing run, and no run slot is free.
* BitVector operands of different sizes (`bit_vector.cc:108`). `bit_vector.h`,
  which would state the contract, is not in the tree. The model combines only
  operands of one size.

Not modelled:

* `LogWriter.h`, an interface only.
* `box2f.h` and `tmpfile.h`: value types and I/O.
* `oort` start-up registration: it runs once, single-threaded, and nothing in the tree calls `initModule`.
* The robots.txt unit test.
* What `SuperScanner::reopen` does: its code is not in the tree. The model records only that a scanner was reopened at the current split generation.
