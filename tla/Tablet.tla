------------------------------- MODULE Tablet -------------------------------
(***************************************************************************)
(* One tablet of kdi/tablet/Tablet.cc: its fragment stack ("tables"), the  *)
(* writer threads calling set/erase/sync, the reader threads opening       *)
(* scanners, the compactor threads running doCompaction, and the logger's  *)
(* serializer thread that turns full memory tables into disk tables.       *)
(*                                                                         *)
(* Every mutex-protected block of the code is one atomic step; a method    *)
(* that releases a lock and takes another is several steps, recorded in a *)
(* per-thread program counter.  The SharedLogger, SharedCompactor and      *)
(* Scanner classes are not in the source tree: the steps that stand for    *)
(* them follow the spec's description and are marked as such.             *)
(***************************************************************************)
EXTENDS Integers, Sequences, FiniteSets, SequencesExt

CONSTANTS
    Keys,             \* cell keys (row, column, timestamp) inside the tablet
    Values,           \* cell values
    Absent,           \* a table holds no cell for the key
    Erasure,          \* an erasure cell (tombstone)
    TableIds,         \* identities of in-memory and disk tables (TablePtr)
    NoTable,          \* null TablePtr
    Writers,          \* client threads calling set/erase/sync
    Readers,          \* client threads calling scan
    Compactors,       \* SharedCompactor worker threads
    Serializer,       \* the logger's memory-table serializer thread
    NoOwner,          \* statusMutex is free
    CompactThreshold, \* addTable: request compaction when size exceeds it (5)
    CompactWidth,     \* doCompaction: K, the number of tables merged (8)
    MaxMutations      \* bound on set/erase calls

ASSUME /\ {Absent, Erasure} \cap Values = {}
       /\ NoTable \notin TableIds
       /\ Serializer \notin Compactors
       /\ CompactThreshold \in Nat /\ CompactWidth \in Nat \ {0}
       /\ MaxMutations \in Nat

Cell == Values \cup {Erasure, Absent}
Replacers == Compactors \cup {Serializer}

VARIABLES
    stack,              \* Tablet::tables, oldest first, as table ids
    static,             \* ids whose TableInfo.isStatic is set (disk tables)
    cells,              \* cells[t][k]: the cell table t holds for key k
    files,              \* ids whose disk file exists
    config,             \* table list of the last TabletConfig saved
    configChanged,      \* Tablet::configChanged
    mutationsPending,   \* Tablet::mutationsPending
    compactionRequested,\* a requestCompaction(tablet) not yet served
    active,             \* the logger's current memory table for the tablet
    logLen,             \* records appended to the shared log
    logDurable,         \* records the log has made durable
    mutations,          \* set/erase calls so far (bounded)
    wpc,                \* writer program counter
    wLast,              \* index of the writer's last log record
    wTarget,            \* log length when the writer called logger->sync()
    wSnap,              \* table list read by the writer's saveConfig
    statusOwner,        \* thread holding statusMutex across saveConfig
    rpc,                \* replacer program counter (doCompaction/serializer)
    rOld,               \* table sequence being replaced
    rNew,               \* replacement table
    rDead,              \* deadFiles of replaceTables
    rSnap,              \* table list read by replaceTables' saveConfig
    rWatch,             \* ghost: scanners registered when the swap ran
    scanState,          \* reader's scanner: idle, open (constructed), live
    scanSnap,           \* tables the scanner's merge stream reads
    scanners            \* Tablet::scanners (weak handles), as reader ids

storageVars == <<stack, static, cells, files, config, configChanged,
                 compactionRequested, active>>
logVars == <<mutationsPending, logLen, logDurable, mutations>>
writerVars == <<wpc, wLast, wTarget, wSnap, statusOwner>>
replaceVars == <<rpc, rOld, rNew, rDead, rSnap, rWatch>>
readerVars == <<scanState, scanSnap, scanners>>
vars == <<storageVars, logVars, writerVars, replaceVars, readerVars>>

-----------------------------------------------------------------------------
(* Merging.  CellMerge pipes the tables newest-first, so for every key the *)
(* cell of the topmost table holding one wins; with filterErasures set, a  *)
(* winning erasure is dropped together with the cells it masks.            *)

TopCell(seq, k) ==
    LET i == SelectLastInSeq(seq, LAMBDA t : cells[t][k] # Absent)
    IN IF i = 0 THEN Absent ELSE cells[seq[i]][k]

MergeCells(seq, filterErasures) ==
    [k \in Keys |-> IF filterErasures /\ TopCell(seq, k) = Erasure
                    THEN Absent ELSE TopCell(seq, k)]

\* What a full merge of the stack holds: the tablet's logical contents.
LogicalView(seq) == MergeCells(seq, TRUE)

\* Tablet::getMergedScan: a single static table is scanned without an
\* erasure filter; anything else goes through an erasure-filtering merge.
MergedScan(seq) ==
    IF Len(seq) = 1 /\ seq[1] \in static
    THEN cells[seq[1]]
    ELSE MergeCells(seq, TRUE)

\* Tablet::getCompactionPriority
CompactionPriority ==
    LET n == IF Len(stack) > 0 /\ Last(stack) \notin static
             THEN Len(stack) - 1 ELSE Len(stack)
    IN IF n > 1 THEN n ELSE 0

\* doCompaction's choice: the last K tables ending at the last static one;
\* erasures are filtered when the range starts at the bottom of the stack.
LastStatic == SelectLastInSeq(stack, LAMBDA t : t \in static)
CompactionTables ==
    IF LastStatic > CompactWidth
    THEN SubSeq(stack, LastStatic - CompactWidth + 1, LastStatic)
    ELSE SubSeq(stack, 1, LastStatic)
\* Seeded fault: erasures dropped whichever tables are merged.
FilterErasuresAlways == TRUE
FilterErasures == LastStatic <= CompactWidth

\* Table ids still reachable from some state; the others may be reused.
InUse ==
    ToSet(stack) \cup ToSet(config) \cup files \cup ({active} \ {NoTable})
    \cup UNION {ToSet(wSnap[w]) : w \in Writers}
    \cup UNION {ToSet(rOld[a]) \cup ToSet(rSnap[a]) : a \in Replacers}
    \cup ({rNew[a] : a \in Replacers} \ {NoTable})
    \cup UNION {ToSet(scanSnap[r]) : r \in Readers}
FreeIds == TableIds \ InUse

-----------------------------------------------------------------------------
TypeOK ==
    /\ stack \in Seq(TableIds) /\ static \subseteq TableIds
    /\ cells \in [TableIds -> [Keys -> Cell]]
    /\ files \subseteq TableIds /\ config \in Seq(TableIds)
    /\ {configChanged, mutationsPending, compactionRequested} \subseteq BOOLEAN
    /\ active \in TableIds \cup {NoTable}
    /\ {logLen, logDurable} \subseteq Nat /\ mutations \in 0..MaxMutations
    /\ wpc \in [Writers -> {"idle", "logged", "log_sync", "status", "save"}]
    /\ wLast \in [Writers -> Nat] /\ wTarget \in [Writers -> Nat]
    /\ wSnap \in [Writers -> Seq(TableIds)]
    /\ statusOwner \in Writers \cup {NoOwner}
    /\ rpc \in [Replacers -> {"idle", "written", "save_read", "save_write",
                              "update", "remove"}]
    /\ rOld \in [Replacers -> Seq(TableIds)]
    /\ rNew \in [Replacers -> TableIds \cup {NoTable}]
    /\ rDead \in [Replacers -> SUBSET TableIds]
    /\ rSnap \in [Replacers -> Seq(TableIds)]
    /\ rWatch \in [Replacers -> SUBSET Readers]
    /\ scanState \in [Readers -> {"idle", "open", "live"}]
    /\ scanSnap \in [Readers -> Seq(TableIds)]
    /\ scanners \subseteq Readers

\* Tablet constructed by loadConfig from an empty TabletConfig.
Init ==
    /\ stack = <<>> /\ static = {} /\ files = {} /\ config = <<>>
    /\ cells = [t \in TableIds |-> [k \in Keys |-> Absent]]
    /\ configChanged = FALSE /\ mutationsPending = FALSE
    /\ compactionRequested = FALSE /\ active = NoTable
    /\ logLen = 0 /\ logDurable = 0 /\ mutations = 0
    /\ wpc = [w \in Writers |-> "idle"]
    /\ wLast = [w \in Writers |-> 0] /\ wTarget = [w \in Writers |-> 0]
    /\ wSnap = [w \in Writers |-> <<>>] /\ statusOwner = NoOwner
    /\ rpc = [a \in Replacers |-> "idle"]
    /\ rOld = [a \in Replacers |-> <<>>] /\ rNew = [a \in Replacers |-> NoTable]
    /\ rDead = [a \in Replacers |-> {}] /\ rSnap = [a \in Replacers |-> <<>>]
    /\ rWatch = [a \in Replacers |-> {}]
    /\ scanState = [r \in Readers |-> "idle"]
    /\ scanSnap = [r \in Readers |-> <<>>] /\ scanners = {}
-----------------------------------------------------------------------------
(* Writers: Tablet::set / Tablet::erase / Tablet::sync.                    *)

\* Tablet::addTable: append the table as non-static under the tables lock,
\* set configChanged under statusMutex, and request a compaction when the
\* stack has grown past the threshold.
AddTable(m) ==
    /\ statusOwner = NoOwner
    /\ stack' = Append(stack, m)
    /\ static' = static \ {m}
    /\ configChanged' = TRUE
    /\ compactionRequested' =
           (compactionRequested \/ Len(stack) + 1 > CompactThreshold)

\* logger->set(tablet, ...) / logger->erase(...) (spec-modelled
\* SharedLogger): append a log record and put the cell in the tablet's
\* memory table, first creating one and handing it to addTable when the
\* tablet has none.
LogAppend(w, k, c) ==
    /\ \/ /\ active # NoTable
          /\ cells' = [cells EXCEPT ![active][k] = c]
          /\ UNCHANGED <<stack, static, configChanged, compactionRequested,
                         active>>
       \/ /\ active = NoTable
          /\ \E m \in FreeIds :
                /\ active' = m
                /\ cells' = [cells EXCEPT ![m] = [j \in Keys |->
                                               IF j = k THEN c ELSE Absent]]
                /\ AddTable(m)
    /\ logLen' = logLen + 1
    /\ wLast' = [wLast EXCEPT ![w] = logLen + 1]
    /\ mutations' = mutations + 1
    /\ wpc' = [wpc EXCEPT ![w] = "logged"]
    /\ UNCHANGED <<files, config, mutationsPending, logDurable, wTarget,
                   wSnap, statusOwner, replaceVars, readerVars>>

LogCell(w, k, c) ==
    wpc[w] = "idle" /\ mutations < MaxMutations /\ LogAppend(w, k, c)

\* Tablet::set and Tablet::erase: validateRow, logger call, then
\* mutationsPending = true (unlocked).
Set(w, k, v) == LogCell(w, k, v)
Erase(w, k) == LogCell(w, k, Erasure)

SetPending(w) ==
    /\ wpc[w] = "logged"
    /\ mutationsPending' = TRUE
    /\ wpc' = [wpc EXCEPT ![w] = "idle"]
    /\ UNCHANGED <<storageVars, logLen, logDurable, mutations, wLast, wTarget,
                   wSnap, statusOwner, replaceVars, readerVars>>

\* Tablet::sync: read mutationsPending; if set, call logger->sync().
SyncStart(w) ==
    /\ wpc[w] = "idle"
    /\ IF mutationsPending
       THEN /\ wpc' = [wpc EXCEPT ![w] = "log_sync"]
            /\ wTarget' = [wTarget EXCEPT ![w] = logLen]
       ELSE /\ wpc' = [wpc EXCEPT ![w] = "status"]
            /\ UNCHANGED wTarget
    /\ UNCHANGED <<storageVars, logVars, wLast, wSnap, statusOwner,
                   replaceVars, readerVars>>

\* logger->sync() returns once every record appended before the call (and
\* possibly later ones of the same batch) is durable; then
\* mutationsPending = false.
LogSynced(w) ==
    /\ wpc[w] = "log_sync"
    /\ \E d \in (IF logDurable > wTarget[w] THEN logDurable ELSE wTarget[w])
                 ..logLen :
          logDurable' = d
    /\ mutationsPending' = FALSE
    /\ wpc' = [wpc EXCEPT ![w] = "status"]
    /\ UNCHANGED <<storageVars, logLen, mutations, wLast, wTarget, wSnap,
                   statusOwner, replaceVars, readerVars>>

\* lock(statusMutex); if configChanged, saveConfig() reads the table list
\* under the tables lock ...
SyncStatus(w) ==
    /\ wpc[w] = "status"
    /\ statusOwner = NoOwner
    /\ IF configChanged
       THEN /\ statusOwner' = w
            /\ wSnap' = [wSnap EXCEPT ![w] = stack]
            /\ wpc' = [wpc EXCEPT ![w] = "save"]
       ELSE /\ wpc' = [wpc EXCEPT ![w] = "idle"]
            /\ UNCHANGED <<statusOwner, wSnap>>
    /\ UNCHANGED <<storageVars, logVars, wLast, wTarget, replaceVars,
                   readerVars>>

\* ... and stores it with configMgr->setTabletConfig outside the tables
\* lock; then configChanged = false and statusMutex is released.
SyncSave(w) ==
    /\ wpc[w] = "save"
    /\ config' = wSnap[w]
    /\ configChanged' = FALSE
    /\ statusOwner' = NoOwner
    /\ wSnap' = [wSnap EXCEPT ![w] = <<>>]
    /\ wpc' = [wpc EXCEPT ![w] = "idle"]
    /\ UNCHANGED <<stack, static, cells, files, compactionRequested, active,
                   logVars, wLast, wTarget, replaceVars, readerVars>>

-----------------------------------------------------------------------------
(* Replacers: doCompaction on a compactor thread, and the serializer.      *)

\* SharedCompactor (spec-modelled) serves a request when the tablet's
\* priority is positive; doCompaction then picks the tables under the
\* tables lock, merges them into a new disk file with the lock released
\* (DiskTableWriter, configMgr->openTable) and calls replaceTables.
CompactionSkip ==
    /\ compactionRequested
    /\ CompactionPriority = 0
    /\ compactionRequested' = FALSE
    /\ UNCHANGED <<stack, static, cells, files, config, configChanged, active,
                   logVars, writerVars, replaceVars, readerVars>>

Compact(c) ==
    /\ rpc[c] = "idle"
    /\ compactionRequested
    /\ CompactionPriority > 0
    /\ \E n \in FreeIds :
          /\ cells' = [cells EXCEPT ![n] =
                           MergeCells(CompactionTables, FilterErasures)]
          /\ files' = files \cup {n}
          /\ static' = static \ {n}
          /\ rNew' = [rNew EXCEPT ![c] = n]
    /\ rOld' = [rOld EXCEPT ![c] = CompactionTables]
    /\ compactionRequested' = FALSE
    /\ rpc' = [rpc EXCEPT ![c] = "written"]
    /\ UNCHANGED <<stack, config, configChanged, active, logVars,
                   writerVars, rDead, rSnap, rWatch, readerVars>>

\* The logger closes the tablet's memory table (spec-modelled); the next
\* set/erase starts a new one.
RollMemTable ==
    /\ active # NoTable
    /\ active' = NoTable
    /\ UNCHANGED <<stack, static, cells, files, config, configChanged,
                   compactionRequested, logVars, writerVars, replaceVars,
                   readerVars>>

\* The serializer (spec-modelled) writes the oldest closed memory table to
\* a disk file, cells and erasures alike, and calls replaceTables with it.
Serialize ==
    LET i == SelectInSeq(stack, LAMBDA t : t \notin static)
    IN /\ rpc[Serializer] = "idle"
       /\ i > 0
       /\ stack[i] # active
       /\ \E n \in FreeIds :
             /\ cells' = [cells EXCEPT ![n] = cells[stack[i]]]
             /\ files' = files \cup {n}
             /\ static' = static \ {n}
             /\ rNew' = [rNew EXCEPT ![Serializer] = n]
       /\ rOld' = [rOld EXCEPT ![Serializer] = <<stack[i]>>]
       /\ rpc' = [rpc EXCEPT ![Serializer] = "written"]
       /\ UNCHANGED <<stack, config, configChanged,
                      compactionRequested, active, logVars, writerVars, rDead,
                      rSnap, rWatch, readerVars>>

\* Seeded fault: the first slot is overwritten with the new table before
\* its uri is pushed, so the new file is marked dead instead of the first
\* old one.
DeadFilesSwapped(a) ==
    {rNew[a]} \cup (ToSet(Tail(rOld[a])) \cap static)

\* The disk files of the replaced tables ("disk" URI scheme).
DeadFiles(a) == ToSet(rOld[a]) \cap static

\* Tablet::replaceTables, first block, under the tables lock: find the old
\* sequence, put the new table (static) in its place and collect the disk
\* files of the old tables; an empty or unknown sequence raises, leaving
\* the new file behind.
ReplaceSwap(a) ==
    /\ rpc[a] = "written"
    /\ IF rOld[a] # <<>> /\ rOld[a] \in SubSeqs(stack)
       THEN /\ stack' = ReplaceFirstSubSeq(<<rNew[a]>>, rOld[a], stack)
            /\ static' = static \cup {rNew[a]}
            /\ rDead' = [rDead EXCEPT ![a] = DeadFiles(a)]
            /\ rpc' = [rpc EXCEPT ![a] = "save_read"]
            /\ rWatch' = [rWatch EXCEPT ![a] =
                              {r \in Readers : scanState[r] = "live"}]
            /\ UNCHANGED <<rOld, rNew>>
       ELSE /\ rpc' = [rpc EXCEPT ![a] = "idle"]
            /\ rOld' = [rOld EXCEPT ![a] = <<>>]
            /\ rNew' = [rNew EXCEPT ![a] = NoTable]
            /\ UNCHANGED <<stack, static, rDead, rWatch>>
    /\ UNCHANGED <<cells, files, config, configChanged, compactionRequested,
                   active, logVars, writerVars, rSnap, readerVars>>

\* saveConfig: read the table list under the tables lock ...
ReplaceSaveRead(a) ==
    /\ rpc[a] = "save_read"
    /\ rSnap' = [rSnap EXCEPT ![a] = stack]
    /\ rpc' = [rpc EXCEPT ![a] = "save_write"]
    /\ UNCHANGED <<storageVars, logVars, writerVars, rOld, rNew, rDead,
                   rWatch, readerVars>>

\* ... and store it (no statusMutex on this path).
ReplaceSaveWrite(a) ==
    /\ rpc[a] = "save_write"
    /\ config' = rSnap[a]
    /\ rSnap' = [rSnap EXCEPT ![a] = <<>>]
    /\ rpc' = [rpc EXCEPT ![a] = "update"]
    /\ UNCHANGED <<stack, static, cells, files, configChanged,
                   compactionRequested, active, logVars, writerVars, rOld,
                   rNew, rDead, rWatch, readerVars>>

\* ReopenScannerOrRemove: a handle whose lock() fails (the scanner was
\* released) is to be removed; a live one is reopened and kept.
ReopenScannerOrRemove(r) == scanState[r] # "live"

\* Seeded fault: remove_if with the predicate inverted, pruning the live
\* scanners and keeping the expired ones.
ReplaceUpdateScannersInverted(a) ==
    LET live == {r \in scanners : scanState[r] = "live"}
    IN /\ rpc[a] = "update"
       /\ scanSnap' = [r \in Readers |->
                          IF r \in live THEN stack ELSE scanSnap[r]]
       /\ scanners' = scanners \ live
       /\ rpc' = [rpc EXCEPT ![a] = "remove"]
       /\ UNCHANGED <<storageVars, logVars, writerVars, rOld, rNew, rDead,
                      rSnap, rWatch, scanState>>

\* updateScanners, under the scanners lock: reopen every live scanner on
\* the current tables (Scanner::reopen -> getMergedScan), drop the expired.
ReplaceUpdateScanners(a) ==
    LET live == {r \in scanners : ~ReopenScannerOrRemove(r)}
    IN /\ rpc[a] = "update"
       /\ scanSnap' = [r \in Readers |->
                          IF r \in live THEN stack ELSE scanSnap[r]]
       /\ scanners' = live
       /\ rpc' = [rpc EXCEPT ![a] = "remove"]
       /\ UNCHANGED <<storageVars, logVars, writerVars, rOld, rNew, rDead,
                      rSnap, rWatch, scanState>>

\* fs::remove on every dead file.
ReplaceRemoveFiles(a) ==
    /\ rpc[a] = "remove"
    /\ files' = files \ rDead[a]
    /\ rpc' = [rpc EXCEPT ![a] = "idle"]
    /\ rOld' = [rOld EXCEPT ![a] = <<>>]
    /\ rNew' = [rNew EXCEPT ![a] = NoTable]
    /\ rDead' = [rDead EXCEPT ![a] = {}]
    /\ rWatch' = [rWatch EXCEPT ![a] = {}]
    /\ UNCHANGED <<stack, static, cells, config, configChanged,
                   compactionRequested, active, logVars, writerVars, rSnap,
                   readerVars>>

-----------------------------------------------------------------------------
(* Readers: Tablet::scan constructs a Scanner, whose merge stream is a     *)
(* snapshot of the tables (spec-modelled), then registers it under the     *)
(* scanners lock.  Dropping the handle expires the weak reference.        *)

OpenScanner(r) ==
    /\ scanState[r] = "idle"
    /\ scanState' = [scanState EXCEPT ![r] = "open"]
    /\ scanSnap' = [scanSnap EXCEPT ![r] = stack]
    /\ UNCHANGED <<storageVars, logVars, writerVars, replaceVars, scanners>>

RegisterScanner(r) ==
    /\ scanState[r] = "open"
    /\ scanState' = [scanState EXCEPT ![r] = "live"]
    /\ scanners' = scanners \cup {r}
    /\ UNCHANGED <<storageVars, logVars, writerVars, replaceVars, scanSnap>>

CloseScanner(r) ==
    /\ scanState[r] = "live"
    /\ scanState' = [scanState EXCEPT ![r] = "idle"]
    /\ scanSnap' = [scanSnap EXCEPT ![r] = <<>>]
    /\ UNCHANGED <<storageVars, logVars, writerVars, replaceVars, scanners>>

-----------------------------------------------------------------------------
Next ==
    \/ \E w \in Writers :
          \/ \E k \in Keys : \/ \E v \in Values : Set(w, k, v)
                             \/ Erase(w, k)
          \/ SetPending(w) \/ SyncStart(w) \/ LogSynced(w)
          \/ SyncStatus(w) \/ SyncSave(w)
    \/ CompactionSkip \/ \E c \in Compactors : Compact(c)
    \/ RollMemTable \/ Serialize
    \/ \E a \in Replacers :
          \/ ReplaceSwap(a) \/ ReplaceSaveRead(a) \/ ReplaceSaveWrite(a)
          \/ ReplaceUpdateScanners(a) \/ ReplaceRemoveFiles(a)
    \/ \E r \in Readers :
          OpenScanner(r) \/ RegisterScanner(r) \/ CloseScanner(r)

Spec == Init /\ [][Next]_vars

-----------------------------------------------------------------------------
(* Properties.                                                             *)

\* The tablet implements TabletStore: with the stack's merged contents as
\* the store, set/erase are the store's set/erase, and addTable, the
\* serializer, doCompaction (its choice of K tables and of when to drop
\* erasures) and replaceTables never change what the stack holds.
Store == INSTANCE TabletStore
             WITH store <- LogicalView(stack), applied <- mutations
StoreRefinement == Store!StoreSpec

\* Every disk table in the stack still has its file: replaceTables removes
\* only the files of the tables it took out of the stack.
StackFilesExist == \A t \in ToSet(stack) \cap static : t \in files

\* replaceTables removes its dead files only after the scanners reading
\* them have moved off: when fs::remove runs, no scanner that was
\* registered at the swap and is still open reads a removed table.  It
\* takes updateScanners to reopen every such scanner (and a concurrent
\* replaceTables' pruning of expired handles never to drop a live one)
\* between the swap and the removal.
DeadFilesUnread ==
    [][\A a \in Replacers :
          rpc[a] = "remove" /\ rpc'[a] = "idle" =>
              \A r \in rWatch[a] :
                  scanState[r] = "live" => ToSet(scanSnap[r]) \cap rDead[a] = {}]_vars

\* When Tablet::sync returns, every cell the calling thread logged before
\* it is durable in the shared log (spec 4.2, 8.4).
SyncReturns(w) == wpc[w] \in {"status", "save"} /\ wpc'[w] = "idle"
SyncedMutationsDurable ==
    [][\A w \in Writers : SyncReturns(w) => wLast[w] <= logDurable']_vars

\* The TabletConfig last saved names only disk tables whose files exist,
\* so the tablet can be loaded from it (spec 6: persisted state).
ConfigFilesExist == \A t \in ToSet(config) \cap static : t \in files

\* Every disk file is a table of the stack or belongs to a replaceTables
\* in progress (its new file, or a dead file not yet removed): a file that
\* nothing refers to is never removed and leaks (spec 3 FileTracker: a
\* file is released when its last reference goes).
NoOrphanFiles ==
    files \subseteq ToSet(stack)
                     \cup UNION {{rNew[a]} \cup rDead[a] : a \in Replacers}

=============================================================================
