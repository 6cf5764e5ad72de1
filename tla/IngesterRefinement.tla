-------------------------- MODULE IngesterRefinement -------------------------
(***************************************************************************)
(* The live ingestion loop seen as an implementation of IngestContract.    *)
(* What it accounts for is what it stored, dead-lettered or was told to    *)
(* skip; where it stands is the ingestion_state row.                       *)
(***************************************************************************)
EXTENDS Ingester

Contract == INSTANCE IngestContract WITH
    recorded <- stored \cup deadLetters \cup SkipListed,
    frontier <- lastIngested,
    resumeAt <- lastCursor

\* Ingestion implements its contract: it records before it moves, never drops
\* what it recorded, and skips ledgers only when the node dropped them or the
\* operator left them out.
ImplementsContract == Contract!ContractSpec
=============================================================================
