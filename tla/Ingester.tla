------------------------------ MODULE Ingester ------------------------------
(***************************************************************************)
(* The live ingestion loop (internal/ingester/ingester.go) in unwatched,   *)
(* single-page mode: runOnce resolves the resume position, fetches one     *)
(* page, decodes it, writes it in batches, publishes each batch and only   *)
(* then saves the new position.  Every call can fail, and the process can  *)
(* crash between any two of them.                                          *)
(***************************************************************************)
EXTENDS Rpc

CONSTANTS
    PageLimit,         \* getEvents page size
    WriteBatchSize,    \* events per write batch
    BatchSize,         \* rows per upsert, 0 when chunking is off
    RetentionLedgers,  \* how far behind the head a cold start begins
    StartLedgers,      \* START_LEDGER values: 0 unset, n a ledger, -n "latest-n"
    DeadLetterSink,    \* a dead-letter store is wired
    SkipListed,        \* events of contracts on the skip list
    Undecodable,       \* events the decoder rejects
    Unstorable         \* events the store rejects permanently

ASSUME IngesterAssumption ==
    /\ PageLimit \in Nat \ {0}
    /\ WriteBatchSize \in Nat \ {0}
    /\ BatchSize \in Nat
    /\ RetentionLedgers \in Nat
    /\ StartLedgers # {}
    /\ StartLedgers \subseteq Int \ {1}
    /\ DeadLetterSink \in BOOLEAN
    /\ SkipListed \subseteq Nat
    /\ Undecodable \subseteq Nat
    /\ Unstorable \subseteq Nat

VARIABLES
    lastIngested,     \* ingestion_state.last_ingested_ledger, 0 when absent
    lastCursor,       \* ingestion_state.last_cursor
    stored,           \* rows of events
    deadLetters,      \* rows of dead_letters
    published,        \* events handed to the broadcaster and the notifier
    startLedger,      \* START_LEDGER of this process
    overrideApplied,  \* startOverrideApplied
    pc,               \* the step the cycle is at
    start,            \* the resolved start ledger, 0 with a cursor
    cursor,           \* the resolved cursor
    respLatest,       \* LatestLedger of the response
    last,             \* last event of the response, 0 on an empty page
    page,             \* events of the page still to be decoded
    todo,             \* decoded events not yet in a write batch
    batch,            \* the write batch in progress
    left,             \* its events not yet in a chunk
    isolating,        \* the chunk's events still to be written one by one
    waived,           \* ledgers the ingester declared out of scope (history)
    calm              \* from now on no call fails and the process stays up

stateRow == <<lastIngested, lastCursor>>
tables   == <<stored, deadLetters, published>>
request  == <<start, cursor>>
writing  == <<todo, batch, left, isolating>>
response == <<respLatest, last, page>>
local    == <<pc, request, response, writing>>
process  == <<startLedger, overrideApplied>>
vars     == <<rpcVars, stateRow, tables, process, local, waived, calm>>

Steps == {"resolve", "fetch", "reclamp", "decode", "write", "save"}

\* The types of all but calm.
CycleTypeOK ==
    /\ RpcTypeOK
    /\ lastIngested \in Nat
    /\ lastCursor \in 0 .. Len(chain)
    /\ stored \subseteq Emitted
    /\ deadLetters \subseteq Emitted
    /\ published \subseteq Emitted
    /\ startLedger \in StartLedgers
    /\ overrideApplied \in BOOLEAN
    /\ pc \in Steps
    /\ start \in Nat
    /\ cursor \in 0 .. Len(chain)
    /\ respLatest \in 0 .. latest
    /\ last \in 0 .. Len(chain)
    /\ page \subseteq Emitted
    /\ todo \subseteq Emitted
    /\ batch \subseteq Emitted
    /\ left \subseteq batch
    /\ isolating \subseteq batch
    /\ waived \subseteq Nat

TypeOK == CycleTypeOK /\ calm \in BOOLEAN

Init ==
    /\ RpcInit
    /\ lastIngested = 0
    /\ lastCursor = NoCursor
    /\ stored = {}
    /\ deadLetters = {}
    /\ published = {}
    /\ startLedger \in StartLedgers
    /\ overrideApplied = FALSE
    /\ pc = "resolve"
    /\ start = 0 /\ cursor = NoCursor
    /\ respLatest = 0 /\ last = 0 /\ page = {}
    /\ todo = {} /\ batch = {} /\ left = {} /\ isolating = {}
    /\ waived = {}
    /\ calm = FALSE

-----------------------------------------------------------------------------
\* The cycle ends, with an error or after its save: Run starts the next one.
EndCycle ==
    /\ pc' = "resolve"
    /\ start' = 0 /\ cursor' = NoCursor
    /\ respLatest' = 0 /\ last' = 0 /\ page' = {}
    /\ todo' = {} /\ batch' = {} /\ left' = {} /\ isolating' = {}

\* The cycle ends with an error that changes nothing persistent.
Abort == EndCycle /\ UNCHANGED <<rpcVars, stateRow, process, waived>>

(***************************************************************************)
(* resolvePosition                                                         *)
(***************************************************************************)
UsePosition(s, c) ==
    /\ pc' = "fetch"
    /\ start' = s
    /\ cursor' = c
    /\ UNCHANGED <<rpcVars, stateRow, tables, response, writing>>

\* START_LEDGER, once per process: the flag is set before getHealth answers,
\* so a failed call, like a START_LEDGER below retention, uses it up.
ApplyOverride ==
    /\ pc = "resolve"
    /\ ~overrideApplied
    /\ startLedger > 0
    /\ overrideApplied' = TRUE
    /\ \/ /\ startLedger >= Oldest
          /\ UsePosition(startLedger, NoCursor)
          /\ waived' = waived \cup 1 .. startLedger - 1
       \/ UNCHANGED <<rpcVars, stateRow, tables, local, waived>>
    /\ UNCHANGED startLedger

OverrideDone == overrideApplied \/ startLedger <= 0

ResumeFromState ==
    /\ pc = "resolve"
    /\ OverrideDone
    /\ \/ lastCursor # NoCursor /\ UsePosition(0, lastCursor)
       \/ /\ lastCursor = NoCursor
          /\ lastIngested > 0
          /\ UsePosition(lastIngested + 1, NoCursor)
    /\ UNCHANGED <<process, waived>>

MaxOf(a, b) == IF a >= b THEN a ELSE b

\* The ledger a cold start begins at.
ColdStartLedger ==
    IF startLedger > 0 THEN MaxOf(2, startLedger)
    ELSE IF startLedger < 0 THEN MaxOf(2, latest + startLedger)
    ELSE MaxOf(2, MaxOf(latest - RetentionLedgers, Oldest))

ColdStart ==
    /\ pc = "resolve"
    /\ OverrideDone
    /\ lastCursor = NoCursor
    /\ lastIngested = 0
    /\ startLedger # 0 => ColdStartLedger >= Oldest
    /\ UsePosition(ColdStartLedger, NoCursor)
    /\ waived' = waived \cup 1 .. ColdStartLedger - 1
    /\ UNCHANGED process

\* A read of the state row, a getHealth call or the START_LEDGER check fails.
ResolveFails ==
    /\ pc = "resolve"
    /\ OverrideDone
    /\ Abort
    /\ UNCHANGED tables

(***************************************************************************)
(* singlePage: the fetch                                                   *)
(***************************************************************************)
FetchFails ==
    /\ pc = "fetch"
    /\ Abort
    /\ UNCHANGED tables

FetchOutOfRange ==
    /\ pc = "fetch"
    /\ BelowRetention(start, cursor) \/ AboveTip(start, cursor)
    /\ pc' = "reclamp"
    /\ UNCHANGED <<rpcVars, stateRow, tables, process, request,
                   response, writing, waived>>

FetchPage ==
    /\ pc = "fetch"
    /\ Served(start, cursor)
    /\ page' \in Pages(start, cursor, PageLimit)
    /\ last' \in page' \cup {0}
    /\ \A n \in page' : n <= last' /\ last' # 0
    /\ respLatest' = latest
    /\ pc' = "decode"
    /\ UNCHANGED <<rpcVars, stateRow, tables, process, request,
                   writing, waived>>

\* Mutant: the position moves to the oldest retained ledger itself.
ReclampPastOldest ==
    /\ pc = "reclamp"
    /\ EndCycle
    /\ lastIngested' = Oldest
    /\ lastCursor' = NoCursor
    /\ waived' = waived \cup RequestedLedger(start, cursor) .. Oldest - 1
    /\ UNCHANGED <<rpcVars, tables, process>>

\* reclampToOldest: getHealth, then the state row moves to the ledger below
\* the oldest retained one and the events in between are declared lost.
Reclamp ==
    /\ pc = "reclamp"
    /\ EndCycle
    /\ lastIngested' = Oldest - 1
    /\ lastCursor' = NoCursor
    /\ waived' = waived \cup RequestedLedger(start, cursor) .. Oldest - 1
    /\ UNCHANGED <<rpcVars, tables, process>>

ReclampFails ==
    /\ pc = "reclamp"
    /\ Abort
    /\ UNCHANGED tables

(***************************************************************************)
(* persistEventsWithReorgCheck: the decode loop                            *)
(***************************************************************************)
NextToDecode(n) == n \in page /\ \A m \in page : n <= m

\* The next event is skip-listed and dropped, or decodes and is kept.
DecodeEvent ==
    /\ pc = "decode"
    /\ \E n \in page :
          /\ NextToDecode(n)
          /\ n \in SkipListed \/ n \notin Undecodable
          /\ page' = page \ {n}
          /\ todo' = IF n \in SkipListed THEN todo ELSE todo \cup {n}
    /\ UNCHANGED <<rpcVars, stateRow, tables, process, pc, request,
                   respLatest, last, batch, left, isolating, waived>>

NextIsUndecodable ==
    \E n \in page : NextToDecode(n) /\ n \in Undecodable \ SkipListed

\* The next event does not decode and goes to the dead-letter sink.
DeadLetterUndecodable ==
    /\ pc = "decode"
    /\ DeadLetterSink
    /\ NextIsUndecodable
    /\ \E n \in page :
          /\ NextToDecode(n)
          /\ deadLetters' = deadLetters \cup {n}
          /\ page' = page \ {n}
    /\ UNCHANGED <<rpcVars, stateRow, stored, published, process, pc,
                   request, respLatest, last, writing, waived>>

\* There is no sink, or its write fails: the cycle aborts.
DecodeFails ==
    /\ pc = "decode"
    /\ NextIsUndecodable
    /\ Abort
    /\ UNCHANGED tables

DecodeDone ==
    /\ pc = "decode"
    /\ page = {}
    /\ pc' = "write"
    /\ UNCHANGED <<rpcVars, stateRow, tables, process, request,
                   response, writing, waived>>

(***************************************************************************)
(* persistEventBatch, writeEventsPersist and upsertChunkWithIsolation      *)
(***************************************************************************)
TakeBatch ==
    /\ pc = "write"
    /\ batch = {}
    /\ todo # {}
    /\ batch' = FirstOf(todo, WriteBatchSize)
    /\ left' = batch'
    /\ todo' = todo \ batch'
    /\ UNCHANGED <<rpcVars, stateRow, tables, process, pc, request,
                   response, isolating, waived>>

\* The sizes the latency controller can pick for the next chunk.
ChunkSizes == IF BatchSize = 0 THEN {WriteBatchSize} ELSE 1 .. BatchSize

Chunks == {FirstOf(left, k) : k \in ChunkSizes}

\* One UpsertEvents call, a single transaction.
UpsertChunk ==
    /\ pc = "write"
    /\ left # {}
    /\ isolating = {}
    /\ \E chunk \in Chunks :
          /\ chunk \cap Unstorable = {}
          /\ stored' = stored \cup chunk
          /\ left' = left \ chunk
    /\ UNCHANGED <<rpcVars, stateRow, deadLetters, published, process,
                   pc, request, response, todo, batch, isolating, waived>>

\* The call fails on a bad row and rolls back: its events go one by one.
IsolateChunk ==
    /\ pc = "write"
    /\ left # {}
    /\ isolating = {}
    /\ DeadLetterSink
    /\ \E chunk \in Chunks :
          /\ chunk \cap Unstorable # {}
          /\ isolating' = chunk
          /\ left' = left \ chunk
    /\ UNCHANGED <<rpcVars, stateRow, tables, process, pc, request,
                   response, todo, batch, waived>>

\* Mutant: the bad event is retried instead of dead-lettered.
IsolateEventKeepsBad ==
    /\ pc = "write"
    /\ \E n \in isolating :
          /\ \A m \in isolating : n <= m
          /\ n \notin Unstorable
          /\ isolating' = isolating \ {n}
          /\ stored' = stored \cup {n}
    /\ UNCHANGED <<rpcVars, stateRow, deadLetters, published, process, pc,
                   request, response, todo, batch, left, waived>>

\* The next isolated event is stored, or dead-lettered when it is the bad one.
IsolateEvent ==
    /\ pc = "write"
    /\ \E n \in isolating :
          /\ \A m \in isolating : n <= m
          /\ isolating' = isolating \ {n}
          /\ IF n \in Unstorable
             THEN deadLetters' = deadLetters \cup {n} /\ UNCHANGED stored
             ELSE stored' = stored \cup {n} /\ UNCHANGED deadLetters
    /\ UNCHANGED <<rpcVars, stateRow, published, process, pc, request,
                   response, todo, batch, left, waived>>

\* A write fails for a reason the store does not call permanent, a bad row
\* meets no sink, or the sink fails.  A lost connection may hide a commit.
WriteFails ==
    /\ pc = "write"
    /\ left # {} \/ isolating # {}
    /\ \/ UNCHANGED stored
       \/ \E chunk \in Chunks :
             /\ isolating = {}
             /\ chunk \cap Unstorable = {}
             /\ stored' = stored \cup chunk
    /\ Abort
    /\ UNCHANGED <<deadLetters, published>>

\* The batch is written: the broadcaster and the notifier get all of it.
PublishBatch ==
    /\ pc = "write"
    /\ batch # {}
    /\ left = {}
    /\ isolating = {}
    /\ published' = published \cup batch
    /\ batch' = {}
    /\ UNCHANGED <<rpcVars, stateRow, stored, deadLetters, process, pc,
                   request, response, todo, left, isolating, waived>>

\* Mutant: the cycle goes on once the rows are in, published or not.
WriteDoneUnpublished ==
    /\ pc = "write"
    /\ todo = {} /\ left = {} /\ isolating = {}
    /\ pc' = "save"
    /\ UNCHANGED <<rpcVars, stateRow, tables, process, request,
                   response, writing, waived>>

WriteDone ==
    /\ pc = "write"
    /\ batch = {}
    /\ todo = {}
    /\ pc' = "save"
    /\ UNCHANGED <<rpcVars, stateRow, tables, process, request,
                   response, writing, waived>>

(***************************************************************************)
(* nextState and SaveIngestionState                                        *)
(***************************************************************************)

\* A page with events moves the position to its last one; an empty page
\* drops the cursor and moves to the ledger below the head.
NextCursor == last

\* Mutant: an empty page moves to the head, which may still gain events.
NextIngestedAtHead == IF last # 0 THEN chain[last] ELSE respLatest

\* Mutant: one more ledger of margin, without the guard for young chains.
NextIngestedMargin == IF last # 0 THEN chain[last] ELSE respLatest - 2

NextIngested ==
    IF last # 0 THEN chain[last]
    ELSE IF respLatest > 1 THEN respLatest - 1
    ELSE start - 1

SaveIngestionState ==
    /\ pc = "save"
    /\ lastCursor' = NextCursor
    /\ lastIngested' = NextIngested
    /\ EndCycle
    /\ UNCHANGED <<rpcVars, tables, process, waived>>

SaveFails ==
    /\ pc = "save"
    /\ Abort
    /\ UNCHANGED tables

\* The process dies and restarts, perhaps with another START_LEDGER: only
\* the store survives.
Crash ==
    /\ EndCycle
    /\ startLedger' \in StartLedgers
    /\ overrideApplied' = FALSE
    /\ UNCHANGED <<rpcVars, stateRow, tables, waived>>

-----------------------------------------------------------------------------
RpcStep ==
    RpcNext /\ UNCHANGED <<stateRow, tables, process, local, waived>>

Progress ==
    \/ ApplyOverride
    \/ ResumeFromState
    \/ ColdStart
    \/ FetchOutOfRange
    \/ FetchPage
    \/ Reclamp
    \/ DecodeEvent
    \/ DeadLetterUndecodable
    \/ DecodeDone
    \/ TakeBatch
    \/ UpsertChunk
    \/ IsolateChunk
    \/ IsolateEvent
    \/ PublishBatch
    \/ WriteDone
    \/ SaveIngestionState

Fails ==
    \/ FetchFails \/ ReclampFails \/ DecodeFails \/ WriteFails \/ SaveFails

\* Without a dead-letter sink a bad event fails every cycle.
CalmDown ==
    /\ ~calm
    /\ DeadLetterSink
    /\ calm' = TRUE
    /\ UNCHANGED <<rpcVars, stateRow, tables, process, local, waived>>

Next ==
    \/ RpcStep /\ UNCHANGED calm
    \/ Progress /\ UNCHANGED calm
    \/ ResolveFails /\ UNCHANGED calm
    \/ ~calm /\ Fails /\ UNCHANGED calm
    \/ ~calm /\ Crash /\ UNCHANGED calm
    \/ CalmDown

Spec == Init /\ [][Next]_vars

(***************************************************************************)
(* Run retries for ever, so the loop goes on as long as it can, and the    *)
(* calls that fail and the crashes come to an end.                         *)
(***************************************************************************)
Fairness == WF_vars(Progress /\ UNCHANGED calm) /\ WF_vars(CalmDown)

FairSpec == Spec /\ Fairness

-----------------------------------------------------------------------------
\* The saved position has moved past event n.
Passed(n) ==
    IF lastCursor # NoCursor THEN n <= lastCursor ELSE chain[n] <= lastIngested

\* Event n is where the pipeline promises it: in a table, or dropped on
\* purpose.
Accounted(n) == n \in stored \cup deadLetters \cup SkipListed

\* No event is silently lost: once the saved position is past an event, the
\* event is in events or in dead_letters, is skip-listed, or lies in a ledger
\* the ingester declared out of scope, whatever calls failed and wherever the
\* process crashed (recordDeadLetter's "no event may be silently dropped").
NoSilentLoss ==
    \A n \in Emitted : Passed(n) => Accounted(n) \/ chain[n] \in waived

\* Delivery is at least once: the saved position never moves past a stored
\* event that was not handed to the broadcaster and the notifier, although
\* storing and publishing are two steps a crash can separate.
PublishedBeforePassed ==
    \A n \in stored : Passed(n) => n \in published \/ chain[n] \in waived

\* Every event the chain emits is eventually stored, dead-lettered, skipped or
\* declared out of scope: no sequence of failures wedges the loop for good.
EventuallyAccounted ==
    \A n \in 1 .. MaxEvents :
        n \in Emitted ~> (n \in Emitted /\ (Accounted(n) \/ chain[n] \in waived))
=============================================================================
