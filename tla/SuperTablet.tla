----------------------------- MODULE SuperTablet -----------------------------
(***************************************************************************)
(* The per-table collection of tablets of kdi/tablet/SuperTablet.cc: the   *)
(* vector of tablets ordered by last row, the mutation gate made of        *)
(* MutationInterlock (every set/erase/insert/sync) and MutationLull        *)
(* (performSplit), and online splits run by WorkQueue threads.            *)
(*                                                                         *)
(* Rows are the integers 1..MaxRow; a tablet holds the rows (lo, hi].      *)
(* Each block under SuperTablet::mutex is one step; a condition-variable  *)
(* wait is a guard.  Tablet::splitTablet is not in the source tree: the   *)
(* split step follows the spec (a row strictly inside the tablet, or no   *)
(* split when there is none).                                              *)
(***************************************************************************)
EXTENDS Integers, Sequences, FiniteSets, SequencesExt

CONSTANTS
    MaxRow,         \* rows are 1..MaxRow
    TabletIds,      \* identities of Tablet objects
    Mutators,       \* client threads calling set/erase/insert/sync
    Splitters,      \* WorkQueue threads running performSplit
    Scanners,       \* SuperScanner objects scan() may create
    NoTablet,       \* no tablet
    MaxSplitRequests \* bound on requestSplit calls

ASSUME /\ MaxRow \in Nat \ {0}
       /\ NoTablet \notin TabletIds

Rows == 1..MaxRow

VARIABLES
    tablets,            \* SuperTablet::tablets, ordered by last row
    lo, hi,             \* lo[t], hi[t]: tablet t holds rows (lo[t], hi[t]]
    mutationsBlocked,   \* SuperTablet::mutationsBlocked
    mutationsPending,   \* SuperTablet::mutationsPending
    mpc,                \* mutator program counter
    mop,                \* entry point the mutator called: "set" or "sync"
    mrow,               \* row of the mutator's set (0 between calls)
    mtablet,            \* tablet getTablet returned to the mutator
    spc,                \* splitter program counter
    stablet,            \* tablet the splitter was asked to split
    requests,           \* requestSplit calls so far (bounded)
    generation,         \* splits that changed the vector (ghost)
    cpc,                \* a SuperScanner's life: "none", "created",
                        \* "returned" (scan returned it), "dropped"
    registered,         \* SuperTablet::scanners (weak handles)
    sview               \* generation the scanner last opened or reopened
                        \* at; -1 before scanFirstTablet

gateVars == <<mutationsBlocked, mutationsPending>>
mutatorVars == <<mpc, mop, mrow, mtablet>>
splitVars == <<spc, stablet, requests>>
scanVars == <<cpc, registered, sview>>
viewVars == <<generation, scanVars>>
vars == <<tablets, lo, hi, gateVars, mutatorVars, splitVars, generation,
          scanVars>>

-----------------------------------------------------------------------------
\* getTabletInternal: lower_bound on the last row, then the lower bound
\* must also hold the row; NoTablet stands for "row not on this server".
Owner(row) ==
    LET i == SelectInSeq(tablets, LAMBDA t : hi[t] >= row)
    IN IF i > 0 /\ lo[tablets[i]] < row THEN tablets[i] ELSE NoTablet

FreeTablets == TabletIds \ ToSet(tablets)

TypeOK ==
    /\ tablets \in Seq(TabletIds)
    /\ lo \in [TabletIds -> 0..MaxRow] /\ hi \in [TabletIds -> 0..MaxRow]
    /\ mutationsBlocked \in BOOLEAN
    /\ mutationsPending \in 0..Cardinality(Mutators)
    /\ mpc \in [Mutators -> {"idle", "wait", "set", "routed", "sync",
                             "done"}]
    /\ mop \in [Mutators -> {"set", "sync"}]
    /\ mrow \in [Mutators -> 0..MaxRow]
    /\ mtablet \in [Mutators -> TabletIds \cup {NoTablet}]
    /\ spc \in [Splitters -> {"idle", "posted", "lull_wait", "split",
                              "update", "release"}]
    /\ stablet \in [Splitters -> TabletIds \cup {NoTablet}]
    /\ requests \in 0..MaxSplitRequests
    /\ generation \in 0..MaxSplitRequests
    /\ cpc \in [Scanners -> {"none", "created", "returned", "dropped"}]
    /\ registered \subseteq Scanners
    /\ sview \in [Scanners -> -1..MaxSplitRequests]

\* The SuperTablet loaded from a single TabletConfig covering every row.
Init ==
    /\ \E t \in TabletIds :
          /\ tablets = <<t>>
          /\ lo = [u \in TabletIds |-> 0]
          /\ hi = [u \in TabletIds |-> IF u = t THEN MaxRow ELSE 0]
    /\ mutationsBlocked = FALSE /\ mutationsPending = 0
    /\ mpc = [m \in Mutators |-> "idle"]
    /\ mop = [m \in Mutators |-> "sync"]
    /\ mrow = [m \in Mutators |-> 0]
    /\ mtablet = [m \in Mutators |-> NoTablet]
    /\ spc = [s \in Splitters |-> "idle"]
    /\ stablet = [s \in Splitters |-> NoTablet]
    /\ requests = 0
    /\ generation = 0
    /\ cpc = [c \in Scanners |-> "none"] /\ registered = {}
    /\ sview = [c \in Scanners |-> -1]

-----------------------------------------------------------------------------
(* Mutators: SuperTablet::set/erase/insert (one row) and SuperTablet::sync. *)

\* A client thread calls set/erase/insert for a row, or sync.
Call(m) ==
    /\ mpc[m] = "idle"
    /\ \/ /\ mop' = [mop EXCEPT ![m] = "sync"]
          /\ UNCHANGED mrow
       \/ /\ mop' = [mop EXCEPT ![m] = "set"]
          /\ \E row \in Rows : mrow' = [mrow EXCEPT ![m] = row]
    /\ mpc' = [mpc EXCEPT ![m] = "wait"]
    /\ UNCHANGED <<viewVars, tablets, lo, hi, gateVars, mtablet, splitVars>>

\* Mutant: the interlock counts the mutation without waiting for the gate.
InterlockEnterUnguarded(m) ==
    /\ mpc[m] = "wait"
    /\ mutationsPending' = mutationsPending + 1
    /\ mpc' = [mpc EXCEPT ![m] = mop[m]]
    /\ UNCHANGED <<viewVars, tablets, lo, hi, mutationsBlocked, mop, mrow,
                   mtablet, splitVars>>

\* MutationInterlock constructor: wait while mutations are blocked, then
\* count this mutation as pending.  op is the entry point that took it.
InterlockEnter(m) ==
    /\ mpc[m] = "wait"
    /\ ~mutationsBlocked
    /\ mutationsPending' = mutationsPending + 1
    /\ mpc' = [mpc EXCEPT ![m] = mop[m]]
    /\ UNCHANGED <<viewVars, tablets, lo, hi, mutationsBlocked, mop, mrow,
                   mtablet, splitVars>>

\* getTablet(row): under the mutex, find the tablet holding the row.  An
\* unknown row raises ValueError and the interlock is released.
Route(m) ==
    /\ mpc[m] = "set"
    /\ mtablet' = [mtablet EXCEPT ![m] = Owner(mrow[m])]
    /\ mpc' = [mpc EXCEPT ![m] = IF Owner(mrow[m]) = NoTablet
                                  THEN "done" ELSE "routed"]
    /\ UNCHANGED <<viewVars, tablets, lo, hi, gateVars, mop, mrow, splitVars>>

\* Tablet::set on the tablet getTablet returned (validateRow raises
\* RowNotInTabletError when the row is outside the tablet's rows); the
\* cells themselves are the Tablet module's business.
Apply(m) ==
    /\ mpc[m] = "routed"
    /\ mpc' = [mpc EXCEPT ![m] = "done"]
    /\ mtablet' = [mtablet EXCEPT ![m] = NoTablet]
    /\ UNCHANGED <<viewVars, tablets, lo, hi, gateVars, mop, mrow, splitVars>>

\* sync(): Tablet::sync on every tablet of the vector, iterated without
\* the mutex while the interlock is held.
SyncTablets(m) ==
    /\ mpc[m] = "sync"
    /\ mpc' = [mpc EXCEPT ![m] = "done"]
    /\ UNCHANGED <<viewVars, tablets, lo, hi, gateVars, mop, mrow, mtablet,
                   splitVars>>

\* Mutant: the destructor forgets to decrement mutationsPending.
InterlockExitNoDecrement(m) ==
    /\ mpc[m] = "done"
    /\ mpc' = [mpc EXCEPT ![m] = "idle"]
    /\ mrow' = [mrow EXCEPT ![m] = 0]
    /\ UNCHANGED <<viewVars, tablets, lo, hi, gateVars, mop, mtablet,
                   splitVars>>

\* MutationInterlock destructor: the last pending mutation notifies allQuiet.
InterlockExit(m) ==
    /\ mpc[m] = "done"
    /\ mutationsPending' = mutationsPending - 1
    /\ mpc' = [mpc EXCEPT ![m] = "idle"]
    /\ mrow' = [mrow EXCEPT ![m] = 0]
    /\ UNCHANGED <<viewVars, tablets, lo, hi, mutationsBlocked, mop, mtablet,
                   splitVars>>

-----------------------------------------------------------------------------
(* Splitters: requestSplit posts performSplit to the WorkQueue.            *)

\* A tablet grown past its split size calls requestSplit, which posts
\* performSplit to an idle WorkQueue thread.  The caller is not in the
\* source tree: size, not rows, triggers it, so the tablet may have no
\* row to split at.
RequestSplit(s) ==
    /\ spc[s] = "idle"
    /\ requests < MaxSplitRequests
    /\ \E t \in ToSet(tablets) : stablet' = [stablet EXCEPT ![s] = t]
    /\ spc' = [spc EXCEPT ![s] = "posted"]
    /\ requests' = requests + 1
    /\ UNCHANGED <<viewVars, tablets, lo, hi, gateVars, mutatorVars>>

\* MutationLull constructor, first half: block new mutations.
LullBlock(s) ==
    /\ spc[s] = "posted"
    /\ mutationsBlocked' = TRUE
    /\ spc' = [spc EXCEPT ![s] = "lull_wait"]
    /\ UNCHANGED <<viewVars, tablets, lo, hi, mutationsPending, mutatorVars,
                   stablet, requests>>

\* MutationLull constructor, second half: wait on allQuiet until no
\* mutation is pending.
LullQuiet(s) ==
    /\ spc[s] = "lull_wait"
    /\ mutationsPending = 0
    /\ spc' = [spc EXCEPT ![s] = "split"]
    /\ UNCHANGED <<viewVars, tablets, lo, hi, gateVars, mutatorVars, stablet,
                   requests>>

\* Mutant: the new low tablet is inserted after the tablet it came from.
PerformSplitAfter(s) ==
    LET t == stablet[s] IN
    /\ spc[s] = "split"
    /\ \/ /\ \E split \in (lo[t] + 1)..(hi[t] - 1), low \in FreeTablets :
                LET i == SelectInSeq(tablets, LAMBDA u : u = t)
                IN /\ tablets' = InsertAt(tablets, i + 1, low)
                   /\ lo' = [lo EXCEPT ![t] = split, ![low] = lo[t]]
                   /\ hi' = [hi EXCEPT ![low] = split]
          /\ generation' = generation + 1
          /\ spc' = [spc EXCEPT ![s] = "update"]
       \/ /\ hi[t] - lo[t] < 2
          /\ spc' = [spc EXCEPT ![s] = "release"]
          /\ UNCHANGED <<tablets, lo, hi, generation>>
    /\ UNCHANGED <<scanVars, gateVars, mutatorVars, stablet, requests>>

\* performSplit under the mutex: splitTablet shrinks the tablet to
\* (split, hi] and returns a new tablet (lo, split], inserted at its
\* lower_bound position.  With no split row performSplit returns early,
\* before updateScanners.
PerformSplit(s) ==
    LET t == stablet[s] IN
    /\ spc[s] = "split"
    /\ \/ /\ \E split \in (lo[t] + 1)..(hi[t] - 1), low \in FreeTablets :
                LET i == SelectInSeq(tablets, LAMBDA u : hi[u] >= split)
                IN /\ tablets' = InsertAt(tablets, i, low)
                   /\ lo' = [lo EXCEPT ![t] = split, ![low] = lo[t]]
                   /\ hi' = [hi EXCEPT ![low] = split]
          /\ generation' = generation + 1
          /\ spc' = [spc EXCEPT ![s] = "update"]
       \/ /\ hi[t] - lo[t] < 2
          /\ spc' = [spc EXCEPT ![s] = "release"]
          /\ UNCHANGED <<tablets, lo, hi, generation>>
    /\ UNCHANGED <<scanVars, gateVars, mutatorVars, stablet, requests>>

-----------------------------------------------------------------------------
(* SuperScanners: scan() registers them, splits reopen them.               *)

\* scan(pred): a SuperScanner is constructed; it opens its tablets lazily,
\* so nothing of the vector is read yet.
ScanCreate(c) ==
    /\ cpc[c] = "none"
    /\ cpc' = [cpc EXCEPT ![c] = "created"]
    /\ UNCHANGED <<tablets, lo, hi, gateVars, mutatorVars, splitVars,
                   generation, registered, sview>>

\* scan(pred), under scannerMutex: push_back the weak handle, then return
\* the scanner to the client.
ScanRegister(c) ==
    /\ cpc[c] = "created"
    /\ registered' = registered \cup {c}
    /\ cpc' = [cpc EXCEPT ![c] = "returned"]
    /\ UNCHANGED <<tablets, lo, hi, gateVars, mutatorVars, splitVars,
                   generation, sview>>

\* scanFirstTablet, under the mutex: the SuperScanner opens the tablet
\* holding the first row of its predicate in the current vector.
ScanFirstTablet(c) ==
    /\ cpc[c] = "returned" /\ sview[c] # generation
    /\ sview' = [sview EXCEPT ![c] = generation]
    /\ UNCHANGED <<tablets, lo, hi, gateVars, mutatorVars, splitVars,
                   generation, cpc, registered>>

\* The client releases its SuperScannerPtr: the weak handle expires.
ScanDrop(c) ==
    /\ cpc[c] = "returned"
    /\ cpc' = [cpc EXCEPT ![c] = "dropped"]
    /\ UNCHANGED <<tablets, lo, hi, gateVars, mutatorVars, splitVars,
                   generation, registered, sview>>

\* ReopenSuperScannerOrRemove: reopen a handle whose lock() succeeds and
\* keep it; report an expired one for removal.
ReopenOrRemove(c) == cpc[c] = "dropped"

\* updateScanners, after the split released the mutex: under scannerMutex,
\* reopen every live registered SuperScanner and erase the expired ones.
UpdateScanners(s) ==
    /\ spc[s] = "update"
    /\ registered' = {c \in registered : ~ReopenOrRemove(c)}
    /\ sview' = [c \in Scanners |->
                    IF c \in registered /\ ~ReopenOrRemove(c) THEN generation
                    ELSE sview[c]]
    /\ spc' = [spc EXCEPT ![s] = "release"]
    /\ UNCHANGED <<tablets, lo, hi, gateVars, mutatorVars, stablet, requests,
                   generation, cpc>>

\* Mutant: the lull is released without clearing mutationsBlocked.
LullReleaseKeepBlocked(s) ==
    /\ spc[s] = "release"
    /\ spc' = [spc EXCEPT ![s] = "idle"]
    /\ stablet' = [stablet EXCEPT ![s] = NoTablet]
    /\ UNCHANGED <<viewVars, tablets, lo, hi, gateVars, mutatorVars, requests>>

\* MutationLull destructor: unblock mutations and notify allowMutations.
LullRelease(s) ==
    /\ spc[s] = "release"
    /\ mutationsBlocked' = FALSE
    /\ spc' = [spc EXCEPT ![s] = "idle"]
    /\ stablet' = [stablet EXCEPT ![s] = NoTablet]
    /\ UNCHANGED <<viewVars, tablets, lo, hi, mutationsPending, mutatorVars,
                   requests>>

Next ==
    \/ \E m \in Mutators :
          \/ Call(m) \/ InterlockEnter(m) \/ Route(m) \/ Apply(m)
          \/ SyncTablets(m) \/ InterlockExit(m)
    \/ \E s \in Splitters :
          \/ RequestSplit(s) \/ LullBlock(s) \/ LullQuiet(s)
          \/ PerformSplit(s) \/ UpdateScanners(s) \/ LullRelease(s)
    \/ \E c \in Scanners :
          \/ ScanCreate(c) \/ ScanRegister(c) \/ ScanFirstTablet(c)
          \/ ScanDrop(c)

\* Every step but a client's call is taken by a thread that is running or
\* is woken by notify_all once its wait condition holds.
Fairness ==
    /\ \A m \in Mutators :
          WF_vars(InterlockEnter(m) \/ Route(m) \/ Apply(m)
                  \/ SyncTablets(m) \/ InterlockExit(m))
    /\ \A s \in Splitters :
          WF_vars(LullBlock(s) \/ LullQuiet(s) \/ PerformSplit(s)
                  \/ UpdateScanners(s) \/ LullRelease(s))

Spec == Init /\ [][Next]_vars /\ Fairness

-----------------------------------------------------------------------------
(* Properties                                                               *)

\* Splits never lose or duplicate rows: after any sequence of splits every
\* row of the table is still found by getTabletInternal, in the tablet
\* whose rows hold it (splitTablet plus the lower_bound insert keep the
\* vector a sorted partition of the rows).
EveryRowRouted ==
    \A row \in Rows :
        /\ Owner(row) # NoTablet
        /\ lo[Owner(row)] < row /\ row <= hi[Owner(row)]

\* The mutation gate: while performSplit changes the tablet vector and a
\* tablet's rows, no set/erase/insert/sync holds a MutationInterlock.
MutationsExcludeSplits ==
    (\E s \in Splitters : spc[s] = "split") => mutationsPending = 0

\* A mutation routed by getTablet still lands in a tablet that holds its
\* row when Tablet::set runs, so validateRow never raises
\* RowNotInTabletError for a row the server does hold.
RoutedRowStillInTablet ==
    \A m \in Mutators :
        mpc[m] = "routed" =>
            lo[mtablet[m]] < mrow[m] /\ mrow[m] <= hi[mtablet[m]]

\* Every mutation that waits at the interlock eventually completes: a
\* split's MutationLull always lets blocked mutations through again.
MutationsComplete ==
    \A m \in Mutators : mpc[m] = "wait" ~> mpc[m] = "idle"
=============================================================================
