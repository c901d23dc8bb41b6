------------------------------- MODULE ScannerI -------------------------------
(***************************************************************************)
(* The RPC servant of one open scanner, kdi/server/ScannerI.cc: clients'   *)
(* scanMore and close calls, dispatched on Ice threads, and the ScanCb     *)
(* callback the server Scanner runs when a batch is ready.  inUse, taken   *)
(* under ScannerI::mutex, lets one batch be in flight; a second caller is  *)
(* answered ScannerBusy.  doClose removes the scanner from the             *)
(* ScannerLocator.                                                          *)
(*                                                                         *)
(* The ScannerLocator and the Ice dispatch are not in the source tree:    *)
(* a call reaches the servant only while the locator holds it (else the   *)
(* client is answered ScannerExpired), as the spec describes.  Cells and  *)
(* the scan transaction are left out; only whether the scan continues     *)
(* matters to the control.                                                 *)
(***************************************************************************)
EXTENDS Naturals, FiniteSets

CONSTANTS Clients       \* RPC client threads sharing the scanner handle

VARIABLES
    registered,     \* the locator holds the scanner (not yet doClose'd)
    inUse,          \* ScannerI::inUse
    cpc,            \* client call state
    cop,            \* the call: "more", "moreClose" (params.close) or "close"
    answers,        \* replies sent for the client's current call
    cb              \* cb[c]: state of the ScanCb serving client c's scanMore

vars == <<registered, inUse, cpc, cop, answers, cb>>

Ops == {"more", "moreClose", "close"}

TypeOK ==
    /\ registered \in BOOLEAN /\ inUse \in BOOLEAN
    /\ cpc \in [Clients -> {"idle", "calling", "dispatched", "waiting"}]
    /\ cop \in [Clients -> Ops]
    \* Ice allows one reply (ice_response or ice_exception) per call.
    /\ answers \in [Clients -> 0..1]
    /\ cb \in [Clients -> {"none", "running", "reset"}]

Init ==
    /\ registered = TRUE /\ inUse = FALSE
    /\ cpc = [c \in Clients |-> "idle"]
    /\ cop = [c \in Clients |-> "more"]
    /\ answers = [c \in Clients |-> 0]
    /\ cb = [c \in Clients |-> "none"]

\* Reply to client c's call and let the client return.
Reply(c) ==
    /\ answers' = [answers EXCEPT ![c] = @ + 1]
    /\ cpc' = [cpc EXCEPT ![c] = "idle"]

-----------------------------------------------------------------------------
\* A client calls scanMore (with or without params.close) or close.
Call(c) ==
    /\ cpc[c] = "idle"
    /\ \E op \in Ops : cop' = [cop EXCEPT ![c] = op]
    /\ cpc' = [cpc EXCEPT ![c] = "calling"]
    /\ answers' = [answers EXCEPT ![c] = 0]
    /\ UNCHANGED <<registered, inUse, cb>>

\* The Ice adapter asks the locator for the servant: a removed scanner is
\* answered ScannerExpired.
Dispatch(c) ==
    /\ cpc[c] = "calling"
    /\ \/ /\ registered
          /\ cpc' = [cpc EXCEPT ![c] = "dispatched"]
          /\ UNCHANGED answers
       \/ /\ ~registered
          /\ Reply(c)
    /\ UNCHANGED <<registered, inUse, cop, cb>>

\* Mutant: the busy branch sends ScannerBusy but does not return.
ScanMoreNoReturn(c) ==
    /\ cpc[c] = "dispatched" /\ cop[c] \in {"more", "moreClose"}
    /\ answers' = [answers EXCEPT ![c] = IF inUse THEN @ + 1 ELSE @]
    /\ inUse' = TRUE
    /\ cb' = [cb EXCEPT ![c] = "running"]
    /\ cpc' = [cpc EXCEPT ![c] = "waiting"]
    /\ UNCHANGED <<registered, cop>>

\* Mutant: the busy branch returns without sending ScannerBusy.
ScanMoreSilentBusy(c) ==
    /\ cpc[c] = "dispatched" /\ cop[c] \in {"more", "moreClose"}
    /\ \/ /\ inUse
          /\ cpc' = [cpc EXCEPT ![c] = "waiting"]
          /\ UNCHANGED <<inUse, answers, cb>>
       \/ /\ ~inUse
          /\ inUse' = TRUE
          /\ cb' = [cb EXCEPT ![c] = "running"]
          /\ cpc' = [cpc EXCEPT ![c] = "waiting"]
          /\ UNCHANGED answers
    /\ UNCHANGED <<registered, cop>>

\* scanMore_async: under the mutex, a scanner in use answers ScannerBusy;
\* otherwise take inUse and start scan_async with a new ScanCb, whose
\* done() or error() will answer the client.
ScanMore(c) ==
    /\ cpc[c] = "dispatched" /\ cop[c] \in {"more", "moreClose"}
    /\ \/ /\ inUse
          /\ Reply(c)
          /\ UNCHANGED <<inUse, cb>>
       \/ /\ ~inUse
          /\ inUse' = TRUE
          /\ cb' = [cb EXCEPT ![c] = "running"]
          /\ cpc' = [cpc EXCEPT ![c] = "waiting"]
          /\ UNCHANGED answers
    /\ UNCHANGED <<registered, cop>>

\* close_async: under the mutex, a scanner in use answers ScannerBusy;
\* otherwise doClose removes it from the locator and the call succeeds.
Close(c) ==
    /\ cpc[c] = "dispatched" /\ cop[c] = "close"
    /\ Reply(c)
    /\ registered' = (registered /\ inUse)
    /\ UNCHANGED <<inUse, cop, cb>>

\* ScanCb::done: the batch is ready.  The scan is closed when it is
\* complete or the call asked to close; a closed scan is doClose'd before
\* the reply is sent.
CbDone(c) ==
    /\ cb[c] = "running"
    /\ \E scanContinues \in BOOLEAN :
          registered' = (registered /\ scanContinues /\ cop[c] # "moreClose")
    /\ Reply(c)
    /\ cb' = [cb EXCEPT ![c] = "reset"]
    /\ UNCHANGED <<inUse, cop>>

\* ScanCb::error: the scan failed; the client gets the exception.
CbError(c) ==
    /\ cb[c] = "running"
    /\ Reply(c)
    /\ cb' = [cb EXCEPT ![c] = "reset"]
    /\ UNCHANGED <<registered, inUse, cop>>

\* ScanCb::resetUseFlag: under ScannerI::mutex, clear inUse; then the
\* callback deletes itself.
CbReset(c) ==
    /\ cb[c] = "reset"
    /\ inUse' = FALSE
    /\ cb' = [cb EXCEPT ![c] = "none"]
    /\ UNCHANGED <<registered, cpc, cop, answers>>

Next ==
    \E c \in Clients :
        \/ Call(c) \/ Dispatch(c) \/ ScanMore(c) \/ Close(c)
        \/ CbDone(c) \/ CbError(c) \/ CbReset(c)

\* Ice threads run dispatched calls, and the scanner eventually finishes
\* or fails a batch it was asked for; a client need not call again.
Fairness ==
    \A c \in Clients :
        WF_vars(Dispatch(c) \/ ScanMore(c) \/ Close(c) \/ CbDone(c)
                \/ CbError(c) \/ CbReset(c))

Spec == Init /\ [][Next]_vars /\ Fairness

-----------------------------------------------------------------------------
(* Properties                                                               *)

\* The inUse protocol: however scanMore and close calls of several clients
\* interleave with callbacks, at most one ScanCb is ever outstanding on the
\* scanner (a second batch would race on the Scanner's packed cells).
OneBatchInFlight ==
    Cardinality({c \in Clients : cb[c] # "none"}) <= 1

\* Every call the servant receives is eventually answered: a scanMore by
\* its ScanCb or by ScannerBusy, a close by success or ScannerBusy.
EveryCallAnswered ==
    \A c \in Clients : cpc[c] # "idle" ~> cpc[c] = "idle"

\* A scanner removed from the locator by doClose is never touched again:
\* no callback locks its mutex, and no call starts a scan on it.
NoUseAfterClose ==
    [][~registered =>
          \A c \in Clients : ~CbReset(c) /\ ~ScanMore(c) /\ ~Close(c)]_vars
=============================================================================
