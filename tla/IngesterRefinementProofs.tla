----------------------- MODULE IngesterRefinementProofs ----------------------
(***************************************************************************)
(* The ingestion loop implements IngestContract.  Writes record, the save  *)
(* moves, an operator's or a cold start scopes, the reclamp skips what     *)
(* aged out; the rest stutters.  The inductive invariant is needed where   *)
(* the save moves: nothing is in flight behind the new position.           *)
(***************************************************************************)
EXTENDS IngesterRefinement, IngesterProofs

LEMMA ContractStep ==
    ASSUME IInv, IInv', [Next]_vars
    PROVE  [Contract!ContractNext]_(Contract!contractVars)
<1> DEFINE recorded == stored \cup deadLetters \cup SkipListed
<1> USE DEF Contract!contractVars, Contract!rpcVars
<1>1. CASE RpcStep
  <2>1. RpcNext /\ UNCHANGED <<recorded, lastIngested, lastCursor, waived>>
    BY <1>1 DEF RpcStep, stateRow, tables
  <2>2. Contract!Grow
    BY <2>1 DEF Contract!Grow, Contract!RpcNext, Contract!AdvanceBy, Contract!FillTip,
       Contract!AddEvents, Contract!Emitted, RpcNext, AdvanceBy, FillTip, AddEvents,
       Emitted
  <2> QED
    BY <2>2 DEF Contract!ContractNext
<1>2. ASSUME NEW s \in Nat, s >= 2, waived' = waived \cup 1 .. s - 1,
             UNCHANGED <<rpcVars, stateRow, tables>>
      PROVE  Contract!ContractNext
  <2>1. s - 1 \in waived'
    BY <1>2
  <2>2. UNCHANGED <<chain, latest>> /\ UNCHANGED <<recorded, lastIngested, lastCursor>>
    BY <1>2 DEF rpcVars, stateRow, tables
  <2>3. Contract!Scope
    BY <1>2, <2>1, <2>2 DEF Contract!Scope
  <2> QED
    BY <2>3 DEF Contract!ContractNext
<1>3. ASSUME UNCHANGED <<rpcVars, stateRow, tables, waived>>
      PROVE  UNCHANGED Contract!contractVars
  BY <1>3 DEF rpcVars, stateRow, tables
<1>4. startLedger \in Int /\ startLedger # 1
  BY IngesterAssumption DEF IInv, CycleTypeOK
<1>5. CASE ApplyOverride
  <2>1. CASE UsePosition(startLedger, NoCursor) /\ waived' = waived \cup 1 .. startLedger - 1
    BY <1>2, <1>4, <1>5, <2>1 DEF ApplyOverride, UsePosition
  <2>2. CASE UNCHANGED <<rpcVars, stateRow, tables, local, waived>>
    BY <1>3, <2>2
  <2> QED
    BY <1>5, <2>1, <2>2 DEF ApplyOverride
<1>6. CASE ResumeFromState
  BY <1>3, <1>6 DEF ResumeFromState, UsePosition
<1>7. CASE ColdStart
  <2>1. latest \in Nat /\ Oldest \in Nat /\ RetentionLedgers \in Nat
    BY ChainTypes, OldestInRange, IngesterAssumption DEF IInv, CycleTypeOK
  <2>2. ColdStartLedger \in Nat /\ ColdStartLedger >= 2
    BY <1>4, <2>1 DEF ColdStartLedger, MaxOf
  <2> QED
    BY <1>2, <1>7, <2>2 DEF ColdStart, UsePosition
<1>8. CASE Reclamp
  <2>1. /\ UNCHANGED <<chain, latest>> /\ UNCHANGED recorded
        /\ lastIngested' = Oldest - 1 /\ lastCursor' = NoCursor
        /\ waived' = waived \cup RequestedLedger(start, cursor) .. Oldest - 1
    BY <1>8 DEF Reclamp, rpcVars, tables
  <2>2. Oldest \in Nat
    BY OldestInRange DEF IInv, CycleTypeOK
  <2>3. \A l \in RequestedLedger(start, cursor) .. Oldest - 1 : l < Oldest
    BY <2>2
  <2>4. Contract!Oldest = Oldest
    BY DEF Contract!Oldest, Oldest
  <2>5. Contract!SkipAgedOut
    BY <2>1, <2>3, <2>4 DEF Contract!SkipAgedOut, Contract!NoCursor, NoCursor
  <2> QED
    BY <2>5 DEF Contract!ContractNext
<1>9. CASE SaveIngestionState
  <2>1. UNCHANGED <<chain, latest>> /\ UNCHANGED <<recorded, waived>>
    BY <1>9 DEF SaveIngestionState, rpcVars, tables
  <2>2. \A n \in Emitted' : Passed(n)' => Finished(n)'
    BY DEF IInv, SavedOK
  <2>3. Contract!Kept'
    BY <2>2 DEF Contract!Kept, Contract!Behind, Contract!Emitted, Contract!NoCursor,
       Emitted, Passed, Finished, NoCursor
  <2>4. Contract!Move
    BY <2>1, <2>3 DEF Contract!Move
  <2> QED
    BY <2>4 DEF Contract!ContractNext
<1>10. ASSUME UNCHANGED <<rpcVars, stateRow, waived>>,
              stored \subseteq stored', deadLetters \subseteq deadLetters'
       PROVE  Contract!ContractNext
  <2>1. UNCHANGED <<chain, latest>> /\ UNCHANGED <<lastIngested, lastCursor, waived>>
    BY <1>10 DEF rpcVars, stateRow
  <2>2. recorded \subseteq recorded'
    BY <1>10
  <2>3. recorded' \ recorded \subseteq Emitted
    BY <2>1 DEF IInv, CycleTypeOK, Emitted
  <2>4. Contract!Record
    BY <2>1, <2>2, <2>3 DEF Contract!Record, Contract!Emitted, Emitted
  <2> QED
    BY <2>4 DEF Contract!ContractNext
<1>11. CASE DecodeEvent \/ DecodeDone \/ TakeBatch \/ IsolateChunk \/ WriteDone
            \/ FetchOutOfRange \/ FetchPage \/ Crash \/ ResolveFails \/ FetchFails
            \/ ReclampFails \/ DecodeFails \/ SaveFails
  BY <1>3, <1>11 DEF DecodeEvent, DecodeDone, TakeBatch, IsolateChunk, WriteDone,
     FetchOutOfRange, FetchPage, Crash, ResolveFails, FetchFails, ReclampFails,
     DecodeFails, SaveFails, Abort
<1>12. CASE PublishBatch
  BY <1>10, <1>12 DEF PublishBatch
<1>13. CASE DeadLetterUndecodable
  BY <1>10, <1>13 DEF DeadLetterUndecodable
<1>14. CASE UpsertChunk
  BY <1>10, <1>14 DEF UpsertChunk
<1>15. CASE IsolateEvent
  BY <1>10, <1>15 DEF IsolateEvent
<1>16. CASE WriteFails
  BY <1>10, <1>16 DEF WriteFails, Abort
<1>17. CASE UNCHANGED vars \/ CalmDown
  BY <1>3, <1>17 DEF vars, CalmDown
<1> QED
  BY <1>1, <1>5, <1>6, <1>7, <1>8, <1>9, <1>11, <1>12, <1>13, <1>14, <1>15, <1>16,
     <1>17 DEF Next, Progress, Fails

\* The ingestion loop implements IngestContract: it records before it moves,
\* never drops what it recorded, and skips only declared ledgers.
THEOREM ImplementsIngestContract == Spec => ImplementsContract
<1>1. Init => Contract!ContractInit
  BY DEF Init, RpcInit, Contract!ContractInit, Contract!RpcInit, Contract!Emitted,
     Contract!NoCursor, NoCursor
<1>2. IInv /\ IInv' /\ [Next]_vars => [Contract!ContractNext]_(Contract!contractVars)
  BY ContractStep
<1> QED
  BY <1>1, <1>2, Inductive, PTL DEF Spec, ImplementsContract, Contract!ContractSpec
=============================================================================
