# A TLA+ development of SoroTrail

SoroTrail indexes the contract events of a Stellar network: an ingester polls
an RPC node, decodes and stores what it finds, hands it to subscribers, and
remembers how far it got. Around that loop run jobs that repair, replay,
backfill, archive and prune what is stored, and an HTTP API that reads it.

This directory models the part everything else depends on, the live ingester
and the node it polls. It contains the model-checked instances and the proofs
for it, and the plan for the other parts.

## The system and its parts

| Part | Code | State that matters | Here |
|---|---|---|---|
| RPC node | `internal/simtest/chain.go`, `internal/rpc/client.go` | event stream, tip, retained range | `Rpc` |
| Ingester, unwatched | `internal/ingester/ingester.go` | `ingestion_state`, `events`, `dead_letters`, the cycle in progress | `Ingester` |
| Ingester, watched | same file | `contract_cursors`, `watched_contracts`, the sweep in progress | `WatchedIngest` |
| Reorg handling | `internal/ingester/reorg.go` | ledger fingerprints, the pass in flight and the pending range | planned: `Reorg` |
| Lag coordinator | `internal/ingester/backpressure.go` | lagging or not, since when maintenance yields | planned: `Retention` |
| Failover and breaker | `internal/rpc/failover.go`, `circuit_breaker.go` | providers, cursor owner, breaker state | planned: `Failover` |
| Auditor | `internal/audit` | high-water mark, findings and their attempts | planned: `Audit` |
| Replay | `internal/replay` | replay row, rows read and not yet rewritten | planned: `Replay` |
| Backfill | `internal/backfill`, `internal/horizon` | sub-ranges and their progress | planned: `Backfill` |
| Pruner, archiver | `internal/pruner`, `internal/archive` | objects, manifests, rows to delete | planned: `Retention` |
| Webhooks, broadcast | `internal/webhook`, `internal/broadcast` | queue, failure counts, subscriber buffers | planned: `Delivery` |
| Store, API, decoder, config, metrics, clients, generators | the other packages | none over time beyond the tables above | not modelled |

The ingester is the only writer of the positions. The API edits the watch list
while it runs. Publishing goes to the broadcaster and the webhook notifier
after a batch is stored and before the position moves, so a failure in between
means a second delivery, never a missing one.

## Modules

**`Rpc`** is the node. Event `n` is the n-th event of one totally ordered
stream and `chain[n]` its ledger; a cursor is an event number and 0 is "no
cursor". `AdvanceBy` closes the next ledger with any number of events and lets
old ones age out; `FillTip` adds an event to the ledger at the tip, for a node
that serves a ledger before it is complete. `Pages` is what `getEvents` may
answer: the events after the position, cut only when the page is full. Where
the repository's virtual chain and a Stellar node differ (an aged-out cursor, a
start above the tip) both answers are possible.

**`Ingester`** is the loop in unwatched mode, one action per call that can
fail. `pc` is the position inside `runOnce`:

| `pc` | Code | Actions |
|---|---|---|
| `resolve` | `resolvePosition` | `ApplyOverride`, `ResumeFromState`, `ColdStart`, `ResolveFails` |
| `fetch` | `singlePage` | `FetchPage`, `FetchOutOfRange`, `FetchFails` |
| `reclamp` | `reclampToOldest` | `Reclamp`, `ReclampFails` |
| `decode` | `persistEventsWithReorgCheck`, `recordDeadLetter` | `DecodeEvent`, `DeadLetterUndecodable`, `DecodeFails`, `DecodeDone` |
| `write` | `persistEventBatch`, `writeEventsPersist`, `upsertChunkWithIsolation` | `TakeBatch`, `UpsertChunk`, `IsolateChunk`, `IsolateEvent`, `PublishBatch`, `WriteFails`, `WriteDone` |
| `save` | `nextState`, `SaveIngestionState` | `SaveIngestionState`, `SaveFails` |

`Crash` is possible in every state and keeps only the tables. A failing upsert
may have committed. The latency controller that sizes chunks is a choice of any
size up to `BatchSize`. `waived` is a history variable: the ledgers the
ingester itself declared out of scope, by a start ledger, a cold start, or the
"events in the gap are lost" of a re-clamp.

**`IngestContract`** is the abstract specification: events are recorded, and
the position moves only over events that are recorded or waived.
**`IngesterRefinement`** maps the loop to it.

**`WatchedIngest`** is watched mode. With one filter batch a cycle reads a page
(`singlePageWatched`); with several it sweeps a ledger window with one
goroutine per batch (`windowSweepWatched`, `sweepBatch`), at most
`SweepConcurrency` at a time, sharing an event budget. A batch can fail, find
the window aged out, run out of budget or be cancelled by another batch's
error, in any order. Rows are saved one by one, and a failure can stop the save
after any of them. `EditWatchList` is the API. Writing a page is one step that
may stop half-way; its details are those of `Ingester`.

`MCIngester` and `MCWatched` name the values of the constants for TLC.
`IngesterProofs` and `IngesterRefinementProofs` hold the proofs.
Definitions commented "Mutant" are plausible mistakes in the definition that
follows them. They are not part of the specification; each is used to confirm
that a property notices the mistake.

## Model checking

| Run | Configuration | Result |
|---|---|---|
| `ingester` | `MCIngester.cfg` | `TypeOK`, `NoSilentLoss`, `PublishedBeforePassed`, `ImplementsContract` hold; 954,710 states |
| `ingester_live` | `MCIngesterLive.cfg` | `EventuallyAccounted` holds; 59,396 states |
| `watched` | `MCWatched.cfg` | `TypeOK`, `NoSilentLoss`, `EventuallyRecorded` hold; 323,536 states |
| `watched_page` | `MCWatchedPage.cfg` | `NoSilentLoss` is violated |
| `watched_stall` | `MCWatchedStall.cfg` | `EventuallyRecorded` is violated |
| `sweep_cap` | `MCSweepCap.cfg` | `EventuallyRecorded` is violated |

* `NoSilentLoss`: an event behind the saved position is in `events` or
  `dead_letters`, skip-listed, or in a waived ledger.
* `PublishedBeforePassed`: a stored event behind the saved position was handed
  to the subscribers.
* `ImplementsContract`: the loop refines `IngestContract`.
* `EventuallyAccounted`, `EventuallyRecorded`: every event gets there, unless
  it is waived (or its contract unwatched).

**Bounds.** `ingester` has five events (two plain, one that does not decode,
one the store rejects, one on the skip list) over four ledgers with a retention
of one ledger behind the head, pages of four, batches and chunks of two, and
a start ledger that is unset, absolute or relative. So pages are cut inside a
ledger, a page can need two batches, a bad row has a good neighbour, and every
position can age out between two calls. `ingester_live` keeps three events and
four ledgers. `watched` has a quiet contract, two contracts with an event each,
one of which is added and removed, batches of two (so both the page and the
sweep occur), windows of two ledgers and a budget of two events. Deadlock is
checked in every run: an idle loop keeps polling.

**What `watched` does not cover.** Its pages and its budget are as large as
the number of events. The three violation runs show what happens otherwise.
The watch list changes between cycles only (`EditsDuringCycle = FALSE`), and
`FillTip` is off; the `ingester` runs have it on.

**Fairness.** `Run` retries for ever with a capped back-off, so the loop's own
steps are weakly fair. Nothing forces calls to succeed, so liveness is
conditional: the variable `calm` turns true at some point, after which no call
fails, the process stays up and the watch list is left alone. The chain is not
assumed to grow. A START_LEDGER below the retained range is refused in every
cycle, by intent, so `ingester_live` leaves it unset or at `latest-1`.
`calm` also needs a dead-letter sink in `Ingester`: without one a bad event
aborts every cycle, as the code says it should.

## What the violations show

* **`watched_page`.** A contract has two events in one ledger and the page ends
  between them. `advanceContractCursors` saves that ledger (and a cursor that
  `resolveContractPosition` does not read), the next request starts one ledger
  later, and the second event is neither stored nor dead-lettered.
* **`watched_stall`.** A contract without events never gets a new row, so its
  batch starts at the same ledger in every cycle. Once a page is filled by what
  follows that ledger, the same page is fetched for ever and newer events of
  the batch's other contracts wait for the quiet one. The README and the
  comment on `runOnceWatched` say they do not.
* **`sweep_cap`.** A window with more events than `MaxEventsPerCycle` ends
  early and is read again from its start with the same budget. The comment on
  the option says the next cycle re-scans the remainder.

These instances set `FillingTip` to FALSE and a retention longer than the run,
so neither an incomplete ledger nor an aged-out one plays a part.

## Proofs

TLAPS proves, for every value of the constants allowed by `RpcAssumption` and
`IngesterAssumption`:

| Theorem | Module | Statement |
|---|---|---|
| `TypeCorrect` | `IngesterProofs` | `Spec => []TypeOK` |
| `NothingSilentlyLost` | `IngesterProofs` | `Spec => []NoSilentLoss` |
| `DeliveredAtLeastOnce` | `IngesterProofs` | `Spec => []PublishedBeforePassed` |
| `ImplementsIngestContract` | `IngesterRefinementProofs` | `Spec => ImplementsContract` |

`NoSilentLoss` is not inductive: it says nothing about the position a cycle has
resolved or is about to save. `IInv` adds that. *Finished* means: waived,
skip-listed, dead-lettered as undecodable, or written and published; no step
undoes it (`FinishedGrows`). Then

* `SavedOK`: everything behind the saved position is finished;
* `ResolvedOK`: everything before the position of this cycle is finished;
* `FetchedOK`: everything behind the position this cycle will save is finished,
  or still in `page`, `todo` or `batch`;
* `PipelineOK`: what left the batch's queues is in a table, and at `save`
  nothing is left in any of them, which turns `FetchedOK` into `SavedOK`;
* `ChainOrdered`: the stream is ordered by ledger, so a prefix of events and a
  bound on ledgers can be compared;
* `BehindHead`: a position given as a ledger stays below the head, or is
  waived. Otherwise an event joining the head would appear behind it. This is
  why `nextState` stops one ledger short.

There is one lemma per group of actions, and `NextOK` combines them. The
refinement shows that a step of the loop is a step of the contract or leaves
its variables unchanged, using `IInv` for the step that moves the position.
The invariant was model-checked before it was proved.

Only model-checked: the liveness properties (the prover has no support for
fairness), and everything about `WatchedIngest`.

## Abstractions and what is left out

* Events are numbers. Whether one decodes or can be stored is a fixed property
  of it. XDR, JSON and SQL are not modelled; an upsert is idempotent because it
  adds to a set. A page never repeats an event, so `removeDuplicateEvents` has
  no effect.
* `Ingester`: no address index (its failure is only logged), dry run, ledger
  fingerprints, tip regression, or failover re-anchor.
* `WatchedIngest`: `START_LEDGER` unset, one network, no left-over global
  cursor, no tip regression, catch-up widening of the window left out. A switch
  between the two modes is not modelled.
* The components without a module are listed in `PROJECT.json` with the reason.

## Plan

In this order; each module gets its own small instance and then its proofs.

1. `WatchedIngest`: the network of a watch-list entry, edits during a cycle,
   and the two reads of the list in one cycle; the switch between the modes.
   Then an inductive invariant for `NoSilentLoss` when pages are not cut.
2. `Reorg`: a chain whose tip regresses or whose ledgers change, fingerprints,
   coalesced passes; abstract specification "the stored range is in the end the
   chain's range". Composed with `Rpc` and the position of `Ingester`.
3. `Failover`: providers, cursor ownership, re-anchor and the breaker, composed
   with the fetch step; promise: a switch of provider skips no event.
4. `Retention`: pruner, archiver and lag coordinator over one table; promise:
   with archiving on, nothing is deleted that is not in an object, and
   maintenance is not starved.
5. `Delivery`: notifier queue, retries and failure count, broadcaster buffers;
   promise: a subscriber that is still open has seen a gapless run.
6. `Backfill`, `Audit` and `Replay`: resumable range jobs that share the table
   with the ingester; promise: a job marked complete covered its range.

Theorems planned: the type and the main safety invariant of each, the breaker's
state machine, and the refinement of the range jobs to one abstract job.
