---------------------------- MODULE WatchedIngest ----------------------------
(***************************************************************************)
(* The ingestion loop in watched mode (internal/ingester/ingester.go):     *)
(* every watched contract has a row of its own in contract_cursors.  With  *)
(* one filter batch a cycle reads one page (singlePageWatched); with more  *)
(* it sweeps a ledger window, one goroutine per batch (windowSweepWatched  *)
(* and sweepBatch).  The HTTP API edits the watch list at any time.        *)
(*                                                                         *)
(* Writing a page is one step here (Ingester has its details), START_LEDGER *)
(* is unset, and all contracts belong to the ingester's network.           *)
(***************************************************************************)
EXTENDS Rpc

CONSTANTS
    Contracts,          \* contract ids, ordered like numbers
    Owner,              \* Owner[n] is the contract that emits event n
    Initially,          \* the watch list at the start
    BatchCap,           \* contracts per request (5 filters of 5 ids)
    PageLimit,          \* events per page
    SweepWindow,        \* ledgers per window
    SweepConcurrency,   \* batches swept at the same time
    MaxEventsPerCycle,  \* event budget of a cycle, 0 when unlimited
    RetentionLedgers,   \* how far behind the head a cold start begins
    Editable,           \* contracts the operator adds and removes
    EditsDuringCycle    \* the watch list may change while a cycle runs

ASSUME WatchedAssumption ==
    /\ Contracts \subseteq Nat /\ IsFiniteSet(Contracts)
    /\ Owner \in [1 .. MaxEvents -> Contracts]
    /\ Initially \subseteq Contracts /\ Initially # {}
    /\ BatchCap \in Nat \ {0} /\ PageLimit \in Nat \ {0}
    /\ SweepWindow \in Nat \ {0} /\ SweepConcurrency \in Nat \ {0}
    /\ MaxEventsPerCycle \in Nat /\ RetentionLedgers \in Nat
    /\ Editable \subseteq Contracts /\ EditsDuringCycle \in BOOLEAN

VARIABLES
    watched,       \* watched_contracts
    row,           \* contract_cursors: last ingested ledger, 0 when absent
    lastIngested,  \* ingestion_state.last_ingested_ledger, 0 when absent
    recorded,      \* events written to events or dead_letters
    waived,        \* ledgers declared out of scope, per contract (history)
    pc,            \* the step the cycle is at
    worker,        \* the cycle's filter batches and the goroutine of each
    start,         \* first ledger of the request or window
    end,           \* last ledger of the window
    tip,           \* health.LatestLedger of the sweep
    floor,         \* health.OldestLedger of the sweep
    budget,        \* events the cycle may still fetch
    capHit,        \* a batch found the budget used up
    outOfRange,    \* a batch asked for a ledger that aged out
    failed,        \* a batch returned an error, the others are cancelled
    saving,        \* contract_cursors rows still to be saved
    savingGlobal,  \* the ingestion_state row to be saved after them
    calm           \* from now on no call fails and nobody edits the list

position == <<row, lastIngested>>
sweep    == <<end, tip, floor, budget, capHit, outOfRange, failed>>
pending  == <<saving, savingGlobal>>
local    == <<pc, worker, start, sweep, pending>>
vars     == <<rpcVars, watched, position, recorded, waived, local, calm>>

None == -1

Ids == UNION DOMAIN worker

Goroutine == [at : {"queued", "paging", "fetch", "done"}, cursor : Nat, limit : Nat]

Queued == [at |-> "queued", cursor |-> NoCursor, limit |-> 0]
Paging(c) == [at |-> "paging", cursor |-> c, limit |-> 0]
Done == [at |-> "done", cursor |-> NoCursor, limit |-> 0]

TypeOK ==
    /\ RpcTypeOK
    /\ watched \in SUBSET Contracts \ {{}}
    /\ row \in [Contracts -> Nat]
    /\ lastIngested \in Nat
    /\ recorded \subseteq Emitted
    /\ waived \in [Contracts -> SUBSET Nat]
    /\ pc \in {"idle", "page", "fetch", "sweep", "sweeping", "reclamp", "saving"}
    /\ DOMAIN worker \subseteq SUBSET Contracts
    /\ \A b \in DOMAIN worker : worker[b] \in Goroutine
    /\ start \in Nat /\ end \in Nat /\ tip \in Nat /\ floor \in Nat
    /\ budget \in Int
    /\ capHit \in BOOLEAN /\ outOfRange \in BOOLEAN /\ failed \in BOOLEAN
    /\ DOMAIN saving \subseteq Contracts
    /\ \A c \in DOMAIN saving : saving[c] \in Nat
    /\ savingGlobal \in Nat \cup {None}
    /\ calm \in BOOLEAN

Init ==
    /\ RpcInit
    /\ watched = Initially
    /\ row = [c \in Contracts |-> 0]
    /\ lastIngested = 0
    /\ recorded = {}
    /\ waived = [c \in Contracts |-> {}]
    /\ pc = "idle" /\ worker = <<>> /\ start = 0
    /\ end = 0 /\ tip = 0 /\ floor = 0 /\ budget = 0
    /\ capHit = FALSE /\ outOfRange = FALSE /\ failed = FALSE
    /\ saving = <<>> /\ savingGlobal = None
    /\ calm = FALSE

EndCycle ==
    /\ pc' = "idle" /\ worker' = <<>> /\ start' = 0
    /\ end' = 0 /\ tip' = 0 /\ floor' = 0 /\ budget' = 0
    /\ capHit' = FALSE /\ outOfRange' = FALSE /\ failed' = FALSE
    /\ saving' = <<>> /\ savingGlobal' = None

-----------------------------------------------------------------------------
\* The watch list in order, cut into requests.
FilterBatches ==
    LET slot(c) == Cardinality({d \in watched : d < c}) \div BatchCap
    IN  {{d \in watched : slot(d) = slot(c)} : c \in watched}

\* runOnce: the filters of this cycle, and with them its mode.
RunOnce ==
    /\ pc = "idle"
    /\ worker' = [b \in FilterBatches |-> Queued]
    /\ pc' = IF Cardinality(FilterBatches) = 1 THEN "page" ELSE "sweep"
    /\ UNCHANGED <<rpcVars, watched, position, recorded, waived, start,
                   sweep, pending>>

MaxOf(a, b) == IF a >= b THEN a ELSE b
MinOf(a, b) == IF a <= b THEN a ELSE b

\* resolvePosition without a cursor in ingestion_state.
ColdStartPosition ==
    IF lastIngested > 0 THEN lastIngested + 1
    ELSE MaxOf(2, MaxOf(latest - RetentionLedgers, Oldest))

ResolveContractPosition(c) ==
    IF row[c] > 0 THEN row[c] + 1 ELSE ColdStartPosition


EarliestStart(C) ==
    CHOOSE l \in {ResolveContractPosition(c) : c \in C} :
        \A c \in C : l <= ResolveContractPosition(c)

\* A contract without a row leaves the ledgers before its start out.
WaiveOlder(C) ==
    waived' = [c \in Contracts |->
                  IF c \in C /\ row[c] = 0 THEN waived[c] \cup 1 .. ColdStartPosition - 1
                  ELSE waived[c]]

(***************************************************************************)
(* singlePageWatched                                                       *)
(***************************************************************************)
ResolveBatchStart ==
    /\ pc = "page"
    /\ pc' = "fetch"
    /\ start' = EarliestStart(Ids)
    /\ WaiveOlder(Ids)
    /\ UNCHANGED <<rpcVars, watched, position, recorded, worker, sweep, pending>>

EventsOf(C, first) == {n \in Emitted : chain[n] >= first /\ Owner[n] \in C}

LastOf(P) == CHOOSE n \in P : \A m \in P : m <= n

\* advanceContractCursors: every contract on the page moves to the ledger of
\* its last event there.
NewRows(P) ==
    [c \in {Owner[n] : n \in P} |-> chain[LastOf({n \in P : Owner[n] = c})]]

EffectivePageLimit ==
    IF MaxEventsPerCycle > 0 THEN MinOf(MaxEventsPerCycle, PageLimit) ELSE PageLimit

FetchPage ==
    /\ pc = "fetch"
    /\ Served(start, NoCursor)
    /\ \E P \in Prefixes(EventsOf(Ids, start), EffectivePageLimit) :
          /\ recorded' = recorded \cup P
          /\ saving' = NewRows(P)
    /\ pc' = "saving"
    /\ UNCHANGED <<rpcVars, watched, position, waived, worker, start, sweep,
                   savingGlobal>>

FetchOutOfRange ==
    /\ pc = "fetch"
    /\ BelowRetention(start, NoCursor) \/ AboveTip(start, NoCursor)
    /\ pc' = "reclamp"
    /\ UNCHANGED <<rpcVars, watched, position, recorded, waived, worker,
                   start, sweep, pending>>

\* Mutant: one ledger too low, below zero on a young chain.
ReclampTwoBelow ==
    /\ pc = "reclamp"
    /\ saving' = [c \in Ids |-> Oldest - 2]
    /\ pc' = "saving"
    /\ UNCHANGED <<rpcVars, watched, position, recorded, waived, worker, start,
                   sweep, savingGlobal>>

\* reclampToOldest: the contracts of the page, or the whole watch list as it
\* is now after a sweep, whose global row follows with the older health.
Reclamp ==
    LET sweeping == Cardinality(DOMAIN worker) > 1
        C == IF sweeping THEN watched ELSE Ids
    IN  /\ pc = "reclamp"
        /\ saving' = [c \in C |-> Oldest - 1]
        /\ savingGlobal' = IF sweeping THEN floor - 1 ELSE None
        /\ waived' = [c \in Contracts |->
                         IF c \in C THEN waived[c] \cup start .. Oldest - 1 ELSE waived[c]]
        /\ pc' = "saving"
        /\ UNCHANGED <<rpcVars, watched, position, recorded, worker, start, sweep>>

(***************************************************************************)
(* windowSweepWatched and sweepBatch                                       *)
(***************************************************************************)
SweepNothingNew ==
    /\ pc = "sweep"
    /\ EarliestStart(watched) > latest
    /\ EndCycle
    /\ WaiveOlder(watched)
    /\ UNCHANGED <<rpcVars, watched, position, recorded>>

SweepBegin ==
    /\ pc = "sweep"
    /\ start' = EarliestStart(watched)
    /\ start' <= latest
    /\ end' = MinOf(start' + SweepWindow - 1, latest)
    /\ tip' = latest
    /\ floor' = Oldest
    /\ budget' = MaxEventsPerCycle
    /\ pc' = "sweeping"
    /\ WaiveOlder(watched)
    /\ UNCHANGED <<rpcVars, watched, position, recorded, worker, capHit,
                   outOfRange, failed, pending>>

Running(b) == worker[b].at \in {"paging", "fetch"}

HasSlot(b) ==
    Running(b) \/ Cardinality({d \in DOMAIN worker : Running(d)}) < SweepConcurrency

\* The budget is read before the request and charged after the write.
ClaimPage(b) ==
    /\ pc = "sweeping"
    /\ ~failed
    /\ worker[b].at \in {"queued", "paging"}
    /\ HasSlot(b)
    /\ IF MaxEventsPerCycle > 0 /\ budget <= 0
       THEN /\ capHit' = TRUE
            /\ worker' = [worker EXCEPT ![b] = Done]
       ELSE /\ worker' = [worker EXCEPT ![b].at = "fetch",
                             ![b].limit = IF MaxEventsPerCycle > 0
                                          THEN MinOf(PageLimit, budget) ELSE PageLimit]
            /\ UNCHANGED capHit
    /\ UNCHANGED <<rpcVars, watched, position, recorded, waived, pc, start,
                   end, tip, floor, budget, outOfRange, failed, pending>>

\* A request with a cursor cannot carry the window's bounds.
BatchEvents(b) ==
    IF worker[b].cursor # NoCursor
    THEN {n \in Emitted : n > worker[b].cursor /\ Owner[n] \in b}
    ELSE {n \in EventsOf(b, start) : chain[n] <= end}

\* A short page ends the batch unless the node attached a cursor to it.
SweepPage(b) ==
    /\ pc = "sweeping"
    /\ worker[b].at = "fetch"
    /\ Served(start, worker[b].cursor)
    /\ \E P \in Prefixes(BatchEvents(b), worker[b].limit) :
          /\ recorded' = recorded \cup P
          /\ budget' = budget - Cardinality(P)
          /\ \/ /\ Cardinality(P) < worker[b].limit \/ \E n \in P : chain[n] > end
                /\ worker' = [worker EXCEPT ![b] = Done]
             \/ /\ P # {} /\ \A n \in P : chain[n] <= end
                /\ worker' = [worker EXCEPT ![b] = Paging(LastOf(P))]
    /\ UNCHANGED <<rpcVars, watched, position, waived, pc, start, end, tip,
                   floor, capHit, outOfRange, failed, pending>>

\* The request or the write of a batch fails, perhaps halfway through the page.
SweepFails(b) ==
    /\ pc = "sweeping"
    /\ worker[b].at = "fetch"
    /\ \/ UNCHANGED recorded
       \/ /\ Served(start, worker[b].cursor)
          /\ \E k \in 1 .. worker[b].limit :
                recorded' = recorded \cup FirstOf(BatchEvents(b), k)
    /\ failed' = TRUE
    /\ worker' = [worker EXCEPT ![b] = Done]
    /\ UNCHANGED <<rpcVars, watched, position, waived, pc, start, end, tip,
                   floor, budget, capHit, outOfRange, pending>>

SweepOutOfRange(b) ==
    /\ pc = "sweeping"
    /\ worker[b].at = "fetch"
    /\ BelowRetention(start, worker[b].cursor)
    /\ outOfRange' = TRUE
    /\ failed' = TRUE
    /\ worker' = [worker EXCEPT ![b] = Done]
    /\ UNCHANGED <<rpcVars, watched, position, recorded, waived, pc, start,
                   end, tip, floor, budget, capHit, pending>>

\* The error of one batch cancels the context of the others.
Cancelled(b) ==
    /\ pc = "sweeping"
    /\ failed
    /\ worker[b].at \in {"queued", "paging"}
    /\ worker' = [worker EXCEPT ![b] = Done]
    /\ UNCHANGED <<rpcVars, watched, position, recorded, waived, pc, start,
                   sweep, pending>>

AllDone == \A b \in DOMAIN worker : worker[b].at = "done"

\* An error, or a budget used up, leaves the window where it is.
SweepIncomplete ==
    /\ pc = "sweeping"
    /\ AllDone
    /\ IF failed THEN ~outOfRange ELSE capHit
    /\ EndCycle
    /\ UNCHANGED <<rpcVars, watched, position, recorded, waived>>

SweepReclamps ==
    /\ pc = "sweeping"
    /\ AllDone
    /\ outOfRange
    /\ pc' = "reclamp"
    /\ UNCHANGED <<rpcVars, watched, position, recorded, waived, worker,
                   start, sweep, pending>>

\* A window that touches the tip is read again: its last ledger may grow.
SweptTo == IF end >= tip THEN end - 1 ELSE end

\* Mutant: the errors of the batches are swallowed.
SweepCompleteDespiteError ==
    /\ pc = "sweeping"
    /\ AllDone
    /\ ~capHit
    /\ saving' = [c \in watched |-> SweptTo]
    /\ savingGlobal' = SweptTo
    /\ pc' = "saving"
    /\ UNCHANGED <<rpcVars, watched, position, recorded, waived, worker,
                   start, sweep>>

\* The rows of the watch list as it is now move to the end of the window.
SweepComplete ==
    /\ pc = "sweeping"
    /\ AllDone
    /\ ~failed
    /\ ~capHit
    /\ saving' = [c \in watched |-> SweptTo]
    /\ savingGlobal' = SweptTo
    /\ pc' = "saving"
    /\ UNCHANGED <<rpcVars, watched, position, recorded, waived, worker,
                   start, sweep>>

(***************************************************************************)
(* SaveContractCursor, row by row, then SaveIngestionState                 *)
(***************************************************************************)
SaveContractCursor(c) ==
    /\ pc = "saving"
    /\ row' = [row EXCEPT ![c] = saving[c]]
    /\ saving' = [d \in DOMAIN saving \ {c} |-> saving[d]]
    /\ UNCHANGED <<rpcVars, watched, lastIngested, recorded, waived, pc,
                   worker, start, sweep, savingGlobal>>

FinishSaving ==
    /\ pc = "saving"
    /\ DOMAIN saving = {}
    /\ lastIngested' = IF savingGlobal = None THEN lastIngested ELSE savingGlobal
    /\ EndCycle
    /\ UNCHANGED <<rpcVars, watched, row, recorded, waived>>

\* A call of the cycle fails, or the process dies; a page may be half written.
Stop ==
    /\ pc # "idle"
    /\ \/ UNCHANGED recorded
       \/ /\ pc = "fetch"
          /\ Served(start, NoCursor)
          /\ \E k \in 1 .. EffectivePageLimit :
                recorded' = recorded \cup FirstOf(EventsOf(Ids, start), k)
    /\ EndCycle
    /\ UNCHANGED <<rpcVars, watched, position, waived>>

-----------------------------------------------------------------------------
\* POST and DELETE /watched-contracts.  The cursor row outlives the entry, and
\* a list that became empty would switch to unwatched mode.
EditWatchList ==
    /\ EditsDuringCycle \/ pc = "idle"
    /\ \E c \in Editable :
          watched' = IF c \in watched THEN watched \ {c} ELSE watched \cup {c}
    /\ watched' # {}
    /\ UNCHANGED <<rpcVars, position, recorded, waived, local>>

RpcStep == RpcNext /\ UNCHANGED <<watched, position, recorded, waived, local>>

Cycle ==
    \/ RunOnce
    \/ ResolveBatchStart
    \/ FetchPage
    \/ FetchOutOfRange
    \/ Reclamp
    \/ SweepNothingNew
    \/ SweepBegin
    \/ \E b \in DOMAIN worker :
          ClaimPage(b) \/ SweepPage(b) \/ SweepOutOfRange(b) \/ Cancelled(b)
    \/ SweepIncomplete
    \/ SweepReclamps
    \/ SweepComplete
    \/ \E c \in DOMAIN saving : SaveContractCursor(c)
    \/ FinishSaving

Fails == Stop \/ \E b \in DOMAIN worker : SweepFails(b)

CalmDown ==
    /\ ~calm
    /\ calm' = TRUE
    /\ UNCHANGED <<rpcVars, watched, position, recorded, waived, local>>

Next ==
    \/ RpcStep /\ UNCHANGED calm
    \/ Cycle /\ UNCHANGED calm
    \/ ~calm /\ EditWatchList /\ UNCHANGED calm
    \/ ~calm /\ Fails /\ UNCHANGED calm
    \/ CalmDown

Spec == Init /\ [][Next]_vars

\* Run retries for ever, calls do not fail for ever, and the operator leaves
\* the watch list alone in the end.
FairSpec ==
    /\ Spec
    /\ WF_vars(Cycle /\ UNCHANGED calm)
    /\ WF_vars(CalmDown)

-----------------------------------------------------------------------------
\* No event of a contract is silently lost: once the contract's row is at or
\* past the event's ledger, the event is recorded or its ledger was declared
\* out of scope for that contract, whichever batches failed, raced or were cut
\* short and wherever the row-by-row save stopped.
NoSilentLoss ==
    \A n \in Emitted :
        chain[n] <= row[Owner[n]] =>
            n \in recorded \/ chain[n] \in waived[Owner[n]]

\* A contract that falls behind, or stays quiet, does not hold back the
\* others: every event of a watched contract is in the end recorded, unless it
\* ages out or the contract is unwatched.
EventuallyRecorded ==
    \A n \in 1 .. MaxEvents :
        (n \in Emitted /\ Owner[n] \in watched) ~>
            (n \in Emitted /\ (\/ n \in recorded
                              \/ chain[n] \in waived[Owner[n]]
                              \/ Owner[n] \notin watched))
=============================================================================
