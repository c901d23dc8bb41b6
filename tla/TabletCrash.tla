----------------------------- MODULE TabletCrash -----------------------------
(***************************************************************************)
(* What of a tablet survives a server crash: kdi/tablet/Tablet.cc with     *)
(* the durable state made explicit.  Durable are the log prefix the shared *)
(* logger has synced, the TabletConfig last saved (setTabletConfig), and   *)
(* the contents of disk files that reached the platter.  A crash loses     *)
(* the rest; the restarted server builds the tablet from its config        *)
(* (Tablet::Tablet -> loadConfig) and the logger replays the durable log   *)
(* entries not yet flushed into a disk table (spec 4.2).                   *)
(*                                                                         *)
(* The threads' interleavings are the subject of Tablet.tla; here each     *)
(* operation is one step and the fault is the crash.  A cell is a          *)
(* mutation number; a table holds the set of mutations it has, which is    *)
(* all a durability property needs (shadowing and erasures are left out).  *)
(* The serializer and the logger are not in the source tree: the           *)
(* serializer is modelled writing durably, as the spec requires, so that   *)
(* what is shown rests on the code of doCompaction.                        *)
(***************************************************************************)
EXTENDS Naturals, Sequences, SequencesExt

CONSTANTS
    TableIds,       \* identities of tables (memory tables and disk files)
    NoTable,
    CompactWidth,   \* K of doCompaction
    MaxMutations,   \* bound on set/erase calls
    MaxCrashes      \* bound on crashes

VARIABLES
    stack,          \* the tablet's table list, bottom first (volatile)
    disk,           \* tables that are disk files ("disk" URI scheme)
    content,        \* content[t]: mutations table t holds, as written
    durable,        \* disk files whose contents are on stable storage
    config,         \* the TabletConfig last saved (durable)
    configChanged,
    active,         \* the logger's open memory table for this tablet
    issued,         \* mutations issued so far (they are numbered)
    logged,         \* mutations in the log
    logSynced,      \* mutations the log has synced
    flushed,        \* mutations the logger no longer replays
    acked,          \* ghost: mutations a returned sync made durable
    cpc,            \* doCompaction: "idle" or "written" (file closed)
    cOld, cNew,     \* its tables and its output file
    up,             \* the server is running
    crashes

vars == <<stack, disk, content, durable, config, configChanged, active,
          issued, logged, logSynced, flushed, acked, cpc, cOld, cNew, up,
          crashes>>

Mutations == 1..MaxMutations

TypeOK ==
    /\ stack \in Seq(TableIds) /\ config \in Seq(TableIds)
    /\ disk \subseteq TableIds /\ durable \subseteq disk
    /\ content \in [TableIds -> SUBSET Mutations]
    /\ configChanged \in BOOLEAN /\ up \in BOOLEAN
    /\ active \in TableIds \cup {NoTable}
    /\ issued \in 0..MaxMutations
    /\ logged \subseteq 1..issued /\ logSynced \subseteq logged
    /\ flushed \subseteq Mutations /\ acked \subseteq Mutations
    /\ cpc \in {"idle", "written"} /\ cOld \in Seq(TableIds)
    /\ cNew \in TableIds \cup {NoTable}
    /\ crashes \in 0..MaxCrashes

\* Table ids nothing refers to any more, free for a new table.
FreeIds ==
    TableIds \ (ToSet(stack) \cup ToSet(config) \cup disk \cup ToSet(cOld)
                \cup {active, cNew})

Init ==
    /\ stack = <<>> /\ config = <<>> /\ disk = {} /\ durable = {}
    /\ content = [t \in TableIds |-> {}]
    /\ configChanged = FALSE /\ active = NoTable
    /\ issued = 0 /\ logged = {} /\ logSynced = {}
    /\ flushed = {} /\ acked = {}
    /\ cpc = "idle" /\ cOld = <<>> /\ cNew = NoTable
    /\ up = TRUE /\ crashes = 0

-----------------------------------------------------------------------------
\* Tablet::set/erase: the logger appends the mutation to the tablet's open
\* memory table, first opening one with addTable (configChanged).
Set ==
    LET m == issued + 1 IN
    /\ up /\ issued < MaxMutations
    /\ \/ /\ active # NoTable
          /\ content' = [content EXCEPT ![active] = @ \cup {m}]
          /\ UNCHANGED <<stack, active, configChanged>>
       \/ /\ active = NoTable
          /\ \E n \in FreeIds :
                /\ content' = [content EXCEPT ![n] = {m}]
                /\ active' = n
                /\ stack' = Append(stack, n)
          /\ configChanged' = TRUE
    /\ issued' = m /\ logged' = logged \cup {m}
    /\ UNCHANGED <<disk, durable, config, logSynced, flushed, acked, cpc,
                   cOld, cNew, up, crashes>>

\* saveConfig: the uris of the current table list.
\* Tablet::sync: logger->sync() makes the log durable, then a changed
\* config is saved.  The caller's mutations are acknowledged.
Sync ==
    /\ up
    /\ logSynced' = logged
    /\ acked' = acked \cup logged
    /\ config' = IF configChanged THEN stack ELSE config
    /\ configChanged' = FALSE
    /\ UNCHANGED <<stack, disk, content, durable, active, issued, logged,
                   flushed, cpc, cOld, cNew, up, crashes>>

\* The logger closes the memory table; the next set starts a new one.
RollMemTable ==
    /\ up /\ active # NoTable
    /\ active' = NoTable
    /\ UNCHANGED <<stack, disk, content, durable, config, configChanged,
                   issued, logged, logSynced, flushed, acked, cpc, cOld, cNew,
                   up, crashes>>

\* The serializer (spec-modelled) writes the oldest closed memory table to
\* a durable disk file and calls replaceTables, which saves the config;
\* the logger then stops replaying the mutations the file holds.
Serialize ==
    LET i == SelectInSeq(stack, LAMBDA t : t \notin disk) IN
    /\ up /\ i > 0 /\ stack[i] # active
    /\ \E n \in FreeIds :
          /\ content' = [content EXCEPT ![n] = content[stack[i]]]
          /\ disk' = disk \cup {n} /\ durable' = durable \cup {n}
          /\ stack' = [stack EXCEPT ![i] = n]
          /\ config' = [stack EXCEPT ![i] = n]
    /\ flushed' = flushed \cup content[stack[i]]
    /\ UNCHANGED <<configChanged, active, issued, logged, logSynced, acked,
                   cpc, cOld, cNew, up, crashes>>

\* getCompactionPriority
CompactionPriority ==
    LET n == IF Len(stack) > 0 /\ Last(stack) \notin disk
             THEN Len(stack) - 1 ELSE Len(stack)
    IN IF n > 1 THEN n ELSE 0

\* doCompaction's range: the last K tables ending at the last static one.
LastStatic == SelectLastInSeq(stack, LAMBDA t : t \in disk)
CompactionTables ==
    SubSeq(stack, IF LastStatic > CompactWidth
                  THEN LastStatic - CompactWidth + 1 ELSE 1, LastStatic)

\* doCompaction, up to writer.close(): the merge of the chosen tables is
\* written to a new disk file, which is closed without an fsync
\* ("XXX should sync file").
CompactWrite ==
    /\ up /\ cpc = "idle" /\ CompactionPriority > 0
    /\ \E n \in FreeIds :
          /\ content' = [content EXCEPT ![n] =
                            UNION {content[t] : t \in ToSet(CompactionTables)}]
          /\ disk' = disk \cup {n}
          /\ cNew' = n
    /\ cOld' = CompactionTables /\ cpc' = "written"
    /\ UNCHANGED <<stack, durable, config, configChanged, active, issued,
                   logged, logSynced, flushed, acked, up, crashes>>

\* openTable, then replaceTables: swap the compacted tables for the new
\* one, saveConfig, and fs::remove the old disk files.  An empty table
\* sequence raises before the swap.
CompactReplace ==
    /\ up /\ cpc = "written"
    /\ IF cOld # <<>>
       THEN /\ stack' = ReplaceFirstSubSeq(<<cNew>>, cOld, stack)
            /\ config' = ReplaceFirstSubSeq(<<cNew>>, cOld, stack)
            /\ disk' = disk \ ToSet(cOld)
            /\ durable' = durable \ ToSet(cOld)
       ELSE UNCHANGED <<stack, config, disk, durable>>
    /\ cpc' = "idle" /\ cOld' = <<>> /\ cNew' = NoTable
    /\ UNCHANGED <<content, configChanged, active, issued, logged, logSynced,
                   flushed, acked, up, crashes>>

-----------------------------------------------------------------------------
(* The environment: page-cache writeback and the crash.                    *)

\* The kernel writes a dirty file back on its own schedule.
Writeback ==
    /\ up
    /\ \E t \in disk \ durable : durable' = durable \cup {t}
    /\ UNCHANGED <<stack, disk, content, config, configChanged, active,
                   issued, logged, logSynced, flushed, acked, cpc, cOld, cNew,
                   up, crashes>>

\* The server dies: unsynced log entries are gone, and a disk file not
\* written back keeps any part of what was written to it.
Crash ==
    /\ up /\ crashes < MaxCrashes
    /\ \E kept \in [disk \ durable -> SUBSET Mutations] :
          content' = [t \in TableIds |->
                        IF t \in disk \ durable THEN content[t] \cap kept[t]
                        ELSE content[t]]
    /\ durable' = disk
    /\ logged' = logSynced
    /\ up' = FALSE /\ crashes' = crashes + 1
    /\ UNCHANGED <<stack, disk, config, configChanged, active, issued,
                   logSynced, flushed, acked, cpc, cOld, cNew>>

\* The tablet is constructed from its saved config: loadConfig opens
\* every listed table as static.  The logger replays the durable, not yet
\* flushed mutations into a new memory table (spec-modelled).
Restart ==
    LET replay == logSynced \ flushed
        tables == SelectSeq(config, LAMBDA t : t \in disk)
    IN
    /\ ~up
    /\ \/ /\ replay = {}
          /\ stack' = tables /\ active' = NoTable
          /\ configChanged' = FALSE
          /\ UNCHANGED content
       \/ /\ replay # {}
          /\ \E n \in TableIds \ (ToSet(config) \cup disk) :
                /\ content' = [content EXCEPT ![n] = replay]
                /\ stack' = Append(tables, n)
                /\ active' = n
          /\ configChanged' = TRUE
    /\ cpc' = "idle" /\ cOld' = <<>> /\ cNew' = NoTable
    /\ up' = TRUE
    /\ UNCHANGED <<disk, durable, config, issued, logged, logSynced,
                   flushed, acked, crashes>>

Next ==
    \/ Set \/ Sync \/ RollMemTable \/ Serialize \/ CompactWrite
    \/ CompactReplace \/ Writeback \/ Crash \/ Restart

Spec == Init /\ [][Next]_vars

-----------------------------------------------------------------------------
(* Properties                                                               *)

\* Every mutation a returned sync acknowledged is in the running tablet,
\* across any crash and restart: the compacted file the saved config names
\* instead of its inputs must hold their cells (spec 9: durable before
\* visible, flush the fragment file before the config names it).
AckedMutationsSurvive ==
    up => acked \subseteq UNION {content[t] : t \in ToSet(stack)}
=============================================================================
