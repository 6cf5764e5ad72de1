--------------------------- MODULE IngesterProofs ---------------------------
(***************************************************************************)
(* Proofs about Ingester for every page size, batch size, retention,       *)
(* START_LEDGER and every set of skipped, undecodable and unstorable       *)
(* events.                                                                 *)
(*                                                                         *)
(* NoSilentLoss speaks of the saved position only.  What makes it          *)
(* inductive is that the same holds of the two positions in flight: the    *)
(* one a cycle resolved, and the one it will save, where the events of the *)
(* cycle not yet finished are the exception.                               *)
(***************************************************************************)
EXTENDS Ingester, TLAPS

\* Nothing remains to be done for event n.  No step makes this false again.
Finished(n) ==
    \/ chain[n] \in waived
    \/ n \in SkipListed
    \/ n \in Undecodable /\ n \in deadLetters
    \/ n \in published /\ n \in stored \cup deadLetters

\* Ledgers are ordered along the stream and reach no further than the head.
ChainOrdered ==
    /\ \A n \in Emitted : chain[n] <= latest
    /\ \A m, n \in Emitted : m <= n => chain[m] <= chain[n]

\* A position given as a ledger leaves no room behind it for new events.
BehindHead(ledger) == ledger < latest \/ 1 .. ledger \subseteq waived

\* The saved position.
SavedOK ==
    /\ \A n \in Emitted : Passed(n) => Finished(n)
    /\ lastCursor = NoCursor => BehindHead(lastIngested)
    /\ lastCursor # NoCursor => chain[lastCursor] >= 2

\* The position this cycle resolved.
Before(n) == IF cursor # NoCursor THEN n <= cursor ELSE chain[n] < start

ResolvedOK ==
    pc # "resolve" =>
        /\ \A n \in Emitted : Before(n) => Finished(n)
        /\ cursor = NoCursor => start >= 2 /\ BehindHead(start - 1)
        /\ cursor # NoCursor => chain[cursor] >= 2

\* The position this cycle will save.
WillPass(n) == IF last # 0 THEN n <= last ELSE chain[n] <= NextIngested

FetchedOK ==
    pc \in {"decode", "write", "save"} =>
        /\ \A n \in Emitted : WillPass(n) => Finished(n) \/ n \in page \cup todo \cup batch
        /\ last # 0 => chain[last] >= 2
        /\ last = 0 => NextIngested \in Nat /\ BehindHead(NextIngested)

\* The events of the cycle that are not written or not published yet.
PipelineOK ==
    /\ \A n \in batch \ (left \cup isolating) : n \in stored \cup deadLetters
    /\ (stored \cup todo \cup batch) \cap (SkipListed \cup Undecodable) = {}
    /\ pc \in {"write", "save"} => page = {}
    /\ pc = "save" => todo = {} /\ batch = {}

IInv ==
    /\ CycleTypeOK
    /\ ChainOrdered
    /\ SavedOK
    /\ ResolvedOK
    /\ FetchedOK
    /\ PipelineOK

-----------------------------------------------------------------------------
\* The tables and the declared gaps only grow in this step, and the stream
\* keeps its prefix.
Grows ==
    /\ waived \subseteq waived'
    /\ stored \subseteq stored'
    /\ deadLetters \subseteq deadLetters'
    /\ published \subseteq published'
    /\ \A n \in Emitted : n \in Emitted' /\ chain'[n] = chain[n]

\* What is finished stays finished.
LEMMA FinishedGrows ==
    ASSUME Grows, NEW n \in Emitted, Finished(n)
    PROVE  Finished(n)'
BY DEF Grows, Finished

\* Lengths, ledgers and the head are positive or natural numbers.
LEMMA ChainTypes ==
    ASSUME RpcTypeOK
    PROVE  /\ Len(chain) \in Nat
           /\ latest \in Nat /\ latest >= 1
           /\ Emitted = 1 .. Len(chain)
           /\ \A n \in Emitted : chain[n] \in Nat /\ chain[n] >= 1
<1>1. chain \in Seq(Ledger) /\ latest \in Ledger
  BY DEF RpcTypeOK
<1>2. Emitted = 1 .. Len(chain)
  BY DEF Emitted
<1>3. \A n \in Emitted : chain[n] \in Ledger
  BY <1>1, <1>2
<1>4. \A l \in Ledger : l \in Nat /\ l >= 1
  BY DEF Ledger
<1>5. Len(chain) \in Nat
  BY <1>1
<1> QED
  BY <1>1, <1>2, <1>3, <1>4, <1>5

\* The head of the chain is a ledger of the retained range.
LEMMA OldestInRange ==
    ASSUME RpcTypeOK
    PROVE  Oldest \in Nat /\ 1 <= Oldest /\ Oldest <= latest
BY RpcAssumption DEF RpcTypeOK, Oldest, Ledger

\* Adding k events appends exactly k entries of the given ledger.
LEMMA AddEventsAppends ==
    ASSUME RpcTypeOK, NEW ledger \in Ledger, NEW k \in Nat, AddEvents(ledger, k)
    PROVE  /\ chain' \in Seq(Ledger)
           /\ Len(chain') = Len(chain) + k
           /\ \A n \in Emitted : n \in Emitted' /\ chain'[n] = chain[n]
           /\ \A n \in Emitted' \ Emitted : chain'[n] = ledger
           /\ latest' = ledger
<1> DEFINE m == Len(chain) + k
<1>1. Len(chain) \in Nat /\ m \in Nat
  BY DEF RpcTypeOK
<1>2. \A n \in Emitted : chain[n] \in Ledger
  BY DEF RpcTypeOK, Emitted
<1>3. chain' = [n \in 1 .. m |-> IF n \in Emitted THEN chain[n] ELSE ledger]
  BY DEF AddEvents
<1>4. chain' \in [1 .. m -> Ledger]
  BY <1>2, <1>3
<1>5. chain' \in Seq(Ledger) /\ Len(chain') = m
  BY <1>1, <1>4
<1>6. Emitted' = 1 .. m /\ Emitted = 1 .. Len(chain)
  BY <1>5 DEF Emitted
<1>7. latest' = ledger
  BY DEF AddEvents
<1> QED
  BY <1>1, <1>3, <1>5, <1>6, <1>7

\* Every step of the node keeps the emitted events, and gives the new ones
\* the ledger at the new head.
LEMMA RpcNextAppends ==
    ASSUME RpcTypeOK, RpcNext
    PROVE  /\ RpcTypeOK'
           /\ Len(chain') >= Len(chain)
           /\ latest' >= latest
           /\ \A n \in Emitted : n \in Emitted' /\ chain'[n] = chain[n]
           /\ \A n \in Emitted' \ Emitted : chain'[n] = latest'
<1>1. Len(chain) \in Nat /\ latest \in Nat /\ latest \in Ledger
  BY DEF RpcTypeOK, Ledger
<1>2. CASE FillTip
  BY <1>1, <1>2, AddEventsAppends DEF FillTip, RpcTypeOK
<1>3. CASE AdvanceBy
  <2>1. PICK k \in 0 .. MaxEvents : AddEvents(latest + 1, k)
    BY <1>3 DEF AdvanceBy
  <2>2. latest + 1 \in Ledger /\ k \in Nat
    BY <1>1, <1>3, RpcAssumption DEF AdvanceBy, Ledger
  <2>3. /\ chain' \in Seq(Ledger)
        /\ Len(chain') = Len(chain) + k
        /\ \A n \in Emitted : n \in Emitted' /\ chain'[n] = chain[n]
        /\ \A n \in Emitted' \ Emitted : chain'[n] = latest + 1
        /\ latest' = latest + 1
    BY <2>1, <2>2, AddEventsAppends
  <2> QED
    BY <1>1, <2>2, <2>3 DEF RpcTypeOK
<1> QED
  BY <1>2, <1>3 DEF RpcNext

-----------------------------------------------------------------------------
(***************************************************************************)
(* Frames: what a step that leaves the chain alone keeps.                  *)
(***************************************************************************)
LEMMA SavedFrame ==
    ASSUME SavedOK, Grows, UNCHANGED <<rpcVars, stateRow>>
    PROVE  SavedOK'
<1>1. /\ chain' = chain /\ latest' = latest
      /\ lastCursor' = lastCursor /\ lastIngested' = lastIngested
      /\ Emitted' = Emitted
  BY DEF rpcVars, stateRow, Emitted
<1>2. ASSUME NEW n \in Emitted', Passed(n)'
      PROVE  Finished(n)'
  BY <1>1, <1>2, FinishedGrows DEF SavedOK, Passed
<1>3. lastCursor' = NoCursor => BehindHead(lastIngested)'
  BY <1>1 DEF SavedOK, BehindHead, Grows
<1>4. lastCursor' # NoCursor => chain'[lastCursor'] >= 2
  BY <1>1 DEF SavedOK
<1> QED
  BY <1>2, <1>3, <1>4 DEF SavedOK, NoCursor

LEMMA ResolvedFrame ==
    ASSUME ResolvedOK, pc # "resolve", Grows, UNCHANGED <<rpcVars, request>>
    PROVE  ResolvedOK'
<1>1. /\ chain' = chain /\ latest' = latest
      /\ start' = start /\ cursor' = cursor
      /\ Emitted' = Emitted
  BY DEF rpcVars, request, Emitted
<1>2. ASSUME NEW n \in Emitted', Before(n)'
      PROVE  Finished(n)'
  BY <1>1, <1>2, FinishedGrows DEF ResolvedOK, Before
<1>3. cursor' = NoCursor => start' >= 2 /\ BehindHead(start - 1)'
  BY <1>1 DEF ResolvedOK, BehindHead, Grows
<1>4. cursor' # NoCursor => chain'[cursor'] >= 2
  BY <1>1 DEF ResolvedOK
<1> QED
  BY <1>2, <1>3, <1>4 DEF ResolvedOK, NoCursor

\* A step inside the pipeline: the events that leave it are finished.
LEMMA FetchedFrame ==
    ASSUME FetchedOK, pc \in {"decode", "write", "save"}, Grows,
           UNCHANGED <<rpcVars, request, respLatest, last>>,
           \A n \in page \cup todo \cup batch :
               Finished(n)' \/ n \in page' \cup todo' \cup batch'
    PROVE  FetchedOK'
<1>1. /\ chain' = chain /\ latest' = latest
      /\ start' = start /\ respLatest' = respLatest /\ last' = last
      /\ Emitted' = Emitted
  BY DEF rpcVars, request, Emitted
<1>2. NextIngested' = NextIngested
  BY <1>1 DEF NextIngested
<1>3. ASSUME NEW n \in Emitted', WillPass(n)'
      PROVE  Finished(n)' \/ n \in page' \cup todo' \cup batch'
  BY <1>1, <1>2, <1>3, FinishedGrows DEF FetchedOK, WillPass
<1>4. last' # 0 => chain'[last'] >= 2
  BY <1>1 DEF FetchedOK
<1>5. last' = 0 => NextIngested' \in Nat /\ BehindHead(NextIngested)'
  BY <1>1, <1>2 DEF FetchedOK, BehindHead, Grows
<1> QED
  BY <1>3, <1>4, <1>5 DEF FetchedOK

\* A cycle that ends, however it ends, leaves nothing in flight.
LEMMA EndOfCycle ==
    ASSUME IInv, EndCycle, Grows, SavedOK', UNCHANGED rpcVars,
           lastIngested' \in Nat, lastCursor' \in 0 .. Len(chain),
           stored' \subseteq Emitted, deadLetters' \subseteq Emitted,
           published' \subseteq Emitted, waived' \subseteq Nat,
           startLedger' \in StartLedgers, overrideApplied' \in BOOLEAN,
           stored' \cap (SkipListed \cup Undecodable) = {}
    PROVE  IInv'
<1>1. chain' = chain /\ latest' = latest /\ Emitted' = Emitted
  BY DEF rpcVars, Emitted
<1>2. pc' = "resolve" /\ batch' = {} /\ todo' = {} /\ page' = {}
  BY DEF EndCycle
<1>3. CycleTypeOK'
  <2>1. Len(chain) \in Nat /\ latest \in Nat
    BY DEF IInv, CycleTypeOK, RpcTypeOK, Ledger
  <2> QED
    BY <1>1, <2>1 DEF IInv, CycleTypeOK, RpcTypeOK, EndCycle, Steps, NoCursor
<1>4. ChainOrdered'
  BY <1>1 DEF IInv, ChainOrdered
<1>5. ResolvedOK' /\ FetchedOK'
  BY <1>2 DEF ResolvedOK, FetchedOK
<1>6. PipelineOK'
  BY <1>2 DEF PipelineOK
<1> QED
  BY <1>3, <1>4, <1>5, <1>6 DEF IInv

\* A cycle that fails without writing anything.
LEMMA FailedCycle ==
    ASSUME IInv, Abort, UNCHANGED tables
    PROVE  IInv'
<1>1. /\ UNCHANGED <<rpcVars, stateRow>>
      /\ stored' = stored /\ deadLetters' = deadLetters
      /\ published' = published /\ waived' = waived
      /\ startLedger' = startLedger /\ overrideApplied' = overrideApplied
      /\ EndCycle
  BY DEF Abort, tables, process
<1>2. Grows
  BY <1>1 DEF Grows, rpcVars, Emitted
<1>3. SavedOK'
  BY <1>1, <1>2, SavedFrame DEF IInv
<1>4. UNCHANGED rpcVars /\ lastIngested' \in Nat /\ lastCursor' \in 0 .. Len(chain)
  BY <1>1 DEF IInv, CycleTypeOK, stateRow
<1>5. stored' \cap (SkipListed \cup Undecodable) = {}
  BY <1>1 DEF IInv, PipelineOK
<1>6. /\ stored' \subseteq Emitted /\ deadLetters' \subseteq Emitted
      /\ published' \subseteq Emitted /\ waived' \subseteq Nat
      /\ startLedger' \in StartLedgers /\ overrideApplied' \in BOOLEAN
  BY <1>1 DEF IInv, CycleTypeOK
<1> QED
  BY <1>1, <1>2, <1>3, <1>4, <1>5, <1>6, EndOfCycle

\* A step inside the pipeline keeps the invariant when what leaves the
\* pipeline is finished.
LEMMA PipelineStep ==
    ASSUME IInv, Grows, PipelineOK',
           pc \in {"decode", "write", "save"}, pc' \in {"decode", "write", "save"},
           UNCHANGED <<rpcVars, stateRow, process, request, respLatest, last, waived>>,
           stored' \subseteq Emitted, deadLetters' \subseteq Emitted,
           published' \subseteq Emitted, page' \subseteq Emitted,
           todo' \subseteq Emitted, batch' \subseteq Emitted,
           left' \subseteq batch', isolating' \subseteq batch',
           \A n \in page \cup todo \cup batch :
               Finished(n)' \/ n \in page' \cup todo' \cup batch'
    PROVE  IInv'
<1>1. /\ chain' = chain /\ latest' = latest /\ Emitted' = Emitted
      /\ lastIngested' = lastIngested /\ lastCursor' = lastCursor
      /\ startLedger' = startLedger /\ overrideApplied' = overrideApplied
      /\ start' = start /\ cursor' = cursor
      /\ respLatest' = respLatest /\ last' = last /\ waived' = waived
  BY DEF rpcVars, stateRow, process, request, Emitted
<1>2. CycleTypeOK'
  BY <1>1 DEF IInv, CycleTypeOK, RpcTypeOK, Steps
<1>3. ChainOrdered'
  BY <1>1 DEF IInv, ChainOrdered
<1>4. SavedOK'
  BY <1>1, SavedFrame DEF IInv, rpcVars, stateRow
<1>5. ResolvedOK'
  BY <1>1, ResolvedFrame DEF IInv, rpcVars, request
<1>6. FetchedOK'
  BY <1>1, FetchedFrame DEF IInv, rpcVars, request
<1> QED
  BY <1>2, <1>3, <1>4, <1>5, <1>6 DEF IInv

-----------------------------------------------------------------------------
(***************************************************************************)
(* The steps.                                                              *)
(***************************************************************************)
LEMMA InitOK == Init => IInv
<1> SUFFICES ASSUME Init PROVE IInv
  OBVIOUS
<1>1. chain = <<>> /\ latest = 1 /\ Len(chain) = 0 /\ Emitted = {}
  BY DEF Init, RpcInit, Emitted
<1>2. latest \in Ledger /\ chain \in Seq(Ledger)
  BY <1>1, RpcAssumption DEF Ledger
<1>3. CycleTypeOK
  <2>1. RpcTypeOK
    BY <1>2 DEF RpcTypeOK
  <2>2. /\ lastIngested \in Nat /\ lastCursor \in 0 .. Len(chain)
        /\ start \in Nat /\ cursor \in 0 .. Len(chain)
        /\ respLatest \in 0 .. latest /\ last \in 0 .. Len(chain)
    BY <1>1 DEF Init, NoCursor
  <2>3. /\ stored = {} /\ deadLetters = {} /\ published = {} /\ waived = {}
        /\ page = {} /\ todo = {} /\ batch = {} /\ left = {} /\ isolating = {}
        /\ startLedger \in StartLedgers /\ overrideApplied \in BOOLEAN /\ pc \in Steps
    BY DEF Init, Steps
  <2> QED
    BY <2>1, <2>2, <2>3 DEF CycleTypeOK
<1>4. ChainOrdered
  BY <1>1 DEF ChainOrdered
<1>5. SavedOK
  BY <1>1 DEF Init, SavedOK, BehindHead, NoCursor
<1>6. ResolvedOK /\ FetchedOK /\ PipelineOK
  BY DEF Init, ResolvedOK, FetchedOK, PipelineOK
<1> QED
  BY <1>3, <1>4, <1>5, <1>6 DEF IInv

\* The chain grows under the cycle's feet: no position in flight, and not the
\* saved one, is past the new events.
LEMMA RpcStepOK ==
    ASSUME IInv, RpcStep
    PROVE  IInv'
<1>1. /\ RpcTypeOK'
      /\ Len(chain') >= Len(chain)
      /\ latest' >= latest
      /\ \A n \in Emitted : n \in Emitted' /\ chain'[n] = chain[n]
      /\ \A n \in Emitted' \ Emitted : chain'[n] = latest'
  BY RpcNextAppends DEF IInv, CycleTypeOK, RpcStep
<1>2. /\ lastIngested' = lastIngested /\ lastCursor' = lastCursor
      /\ stored' = stored /\ deadLetters' = deadLetters /\ published' = published
      /\ startLedger' = startLedger /\ overrideApplied' = overrideApplied
      /\ pc' = pc /\ start' = start /\ cursor' = cursor
      /\ respLatest' = respLatest /\ last' = last /\ page' = page
      /\ todo' = todo /\ batch' = batch /\ left' = left /\ isolating' = isolating
      /\ waived' = waived
  BY DEF RpcStep, stateRow, tables, process, local, request, response, writing
<1>3. Grows
  BY <1>1, <1>2 DEF Grows
<1>4. /\ Len(chain) \in Nat /\ Len(chain') \in Nat
      /\ latest \in Nat /\ latest' \in Nat /\ latest' >= 1
      /\ Emitted = 1 .. Len(chain) /\ Emitted' = 1 .. Len(chain')
      /\ \A n \in Emitted : chain[n] \in Nat
  BY <1>1, ChainTypes DEF IInv, CycleTypeOK, RpcTypeOK, Emitted, Ledger
<1>5. \A ledger \in Nat : BehindHead(ledger) => BehindHead(ledger)'
  BY <1>1, <1>2, <1>4 DEF BehindHead
<1>6. ASSUME NEW ledger \in Nat, BehindHead(ledger),
             NEW n \in Emitted' \ Emitted, chain'[n] <= ledger
      PROVE  Finished(n)'
  BY <1>1, <1>2, <1>4, <1>6 DEF BehindHead, Finished
<1>7. CycleTypeOK'
  BY <1>1, <1>2, <1>4 DEF IInv, CycleTypeOK
<1>8. ChainOrdered'
  <2>1. \A n \in Emitted' : chain'[n] <= latest'
    BY <1>1, <1>4 DEF IInv, ChainOrdered
  <2>2. ASSUME NEW m \in Emitted', NEW n \in Emitted', m <= n
        PROVE  chain'[m] <= chain'[n]
    <3>1. CASE n \in Emitted
      BY <1>1, <1>4, <2>2, <3>1 DEF IInv, ChainOrdered
    <3>2. CASE n \notin Emitted
      BY <1>1, <2>1, <3>2
    <3> QED
      BY <3>1, <3>2
  <2> QED
    BY <2>1, <2>2 DEF ChainOrdered
<1>9. SavedOK'
  <2>1. lastIngested \in Nat /\ lastCursor \in 0 .. Len(chain)
    BY DEF IInv, CycleTypeOK
  <2>2. ASSUME NEW n \in Emitted, Passed(n)' PROVE Finished(n)'
    BY <1>1, <1>2, <1>3, <2>2, FinishedGrows DEF IInv, SavedOK, Passed
  <2>3. ASSUME NEW n \in Emitted' \ Emitted, Passed(n)' PROVE Finished(n)'
    BY <1>2, <1>4, <1>6, <2>1, <2>3 DEF IInv, SavedOK, Passed, NoCursor
  <2>4. lastCursor' # NoCursor => chain'[lastCursor'] >= 2
    BY <1>1, <1>2, <1>4, <2>1 DEF IInv, SavedOK, NoCursor
  <2>5. lastCursor' = NoCursor => BehindHead(lastIngested)'
    BY <1>2, <1>5, <2>1 DEF IInv, SavedOK
  <2> QED
    BY <2>2, <2>3, <2>4, <2>5 DEF SavedOK, NoCursor
<1>10. ResolvedOK'
  <2> SUFFICES ASSUME pc # "resolve" PROVE ResolvedOK'
    BY <1>2 DEF ResolvedOK
  <2>1. start \in Nat /\ cursor \in 0 .. Len(chain)
    BY DEF IInv, CycleTypeOK
  <2>2. ASSUME NEW n \in Emitted, Before(n)' PROVE Finished(n)'
    BY <1>1, <1>2, <1>3, <2>2, FinishedGrows DEF IInv, ResolvedOK, Before
  <2>3. cursor = NoCursor => start >= 2 /\ BehindHead(start - 1) /\ start - 1 \in Nat
    BY <2>1 DEF IInv, ResolvedOK
  <2>4. ASSUME NEW n \in Emitted' \ Emitted, Before(n)' PROVE Finished(n)'
    <3>1. cursor = NoCursor
      BY <1>2, <1>4, <2>1, <2>4 DEF Before, NoCursor
    <3>2. chain'[n] <= start - 1
      BY <1>1, <1>2, <1>4, <2>1, <2>4, <3>1 DEF Before
    <3> QED
      BY <1>6, <2>3, <3>1, <3>2
  <2>5. cursor' # NoCursor => chain'[cursor'] >= 2
    BY <1>1, <1>2, <1>4, <2>1 DEF IInv, ResolvedOK, NoCursor
  <2>6. cursor' = NoCursor => start' >= 2 /\ BehindHead(start - 1)'
    BY <1>2, <1>5, <2>3
  <2> QED
    BY <2>2, <2>4, <2>5, <2>6 DEF ResolvedOK, NoCursor
<1>11. FetchedOK'
  <2> SUFFICES ASSUME pc \in {"decode", "write", "save"} PROVE FetchedOK'
    BY <1>2 DEF FetchedOK
  <2>1. last \in 0 .. Len(chain)
    BY DEF IInv, CycleTypeOK
  <2>2. NextIngested' = NextIngested
    BY <1>1, <1>2, <1>4, <2>1 DEF NextIngested
  <2>3. ASSUME NEW n \in Emitted, WillPass(n)'
        PROVE  Finished(n)' \/ n \in page' \cup todo' \cup batch'
    BY <1>1, <1>2, <1>3, <2>2, <2>3, FinishedGrows DEF IInv, FetchedOK, WillPass
  <2>4. ASSUME NEW n \in Emitted' \ Emitted, WillPass(n)' PROVE Finished(n)'
    <3>1. last = 0
      BY <1>2, <1>4, <2>1, <2>4 DEF WillPass
    <3>2. NextIngested \in Nat /\ BehindHead(NextIngested) /\ chain'[n] <= NextIngested
      BY <1>2, <2>2, <2>4, <3>1 DEF IInv, FetchedOK, WillPass
    <3> QED
      BY <1>6, <3>2
  <2>5. last' # 0 => chain'[last'] >= 2
    BY <1>1, <1>2, <1>4, <2>1 DEF IInv, FetchedOK
  <2>6. last' = 0 => NextIngested' \in Nat /\ BehindHead(NextIngested)'
    <3>1. ASSUME last = 0 PROVE NextIngested \in Nat /\ BehindHead(NextIngested)
      BY <3>1 DEF IInv, FetchedOK
    <3> QED
      BY <1>1, <1>2, <1>4, <2>2, <3>1 DEF BehindHead
  <2> QED
    BY <2>3, <2>4, <2>5, <2>6 DEF FetchedOK
<1>12. PipelineOK'
  BY <1>2 DEF IInv, PipelineOK
<1> QED
  BY <1>7, <1>8, <1>9, <1>10, <1>11, <1>12 DEF IInv

\* A cycle adopts a position that is past finished events only.
LEMMA UsePositionOK ==
    ASSUME IInv, NEW s \in Nat, NEW c \in 0 .. Len(chain), UsePosition(s, c),
           waived \subseteq waived', waived' \subseteq Nat,
           startLedger' \in StartLedgers, overrideApplied' \in BOOLEAN,
           \A n \in Emitted :
               (IF c # NoCursor THEN n <= c ELSE chain[n] < s) => Finished(n)',
           c = NoCursor => s >= 2 /\ (s - 1 < latest \/ 1 .. s - 1 \subseteq waived'),
           c # NoCursor => chain[c] >= 2
    PROVE  IInv'
<1>1. /\ chain' = chain /\ latest' = latest /\ Emitted' = Emitted
      /\ lastIngested' = lastIngested /\ lastCursor' = lastCursor
      /\ stored' = stored /\ deadLetters' = deadLetters /\ published' = published
      /\ pc' = "fetch" /\ start' = s /\ cursor' = c
      /\ respLatest' = respLatest /\ last' = last /\ page' = page
      /\ todo' = todo /\ batch' = batch /\ left' = left /\ isolating' = isolating
  BY DEF UsePosition, rpcVars, stateRow, tables, response, writing, Emitted
<1>2. Grows
  BY <1>1 DEF Grows
<1>3. CycleTypeOK'
  BY <1>1 DEF IInv, CycleTypeOK, RpcTypeOK, Steps
<1>4. ChainOrdered'
  BY <1>1 DEF IInv, ChainOrdered
<1>5. SavedOK'
  BY <1>1, <1>2, SavedFrame DEF IInv, rpcVars, stateRow
<1>6. ResolvedOK'
  <2>1. ASSUME NEW n \in Emitted', Before(n)' PROVE Finished(n)'
    BY <1>1, <2>1 DEF Before
  <2>2. cursor' = NoCursor => start' >= 2 /\ BehindHead(start - 1)'
    BY <1>1 DEF BehindHead
  <2>3. cursor' # NoCursor => chain'[cursor'] >= 2
    BY <1>1
  <2> QED
    BY <2>1, <2>2, <2>3 DEF ResolvedOK, NoCursor
<1>7. FetchedOK'
  BY <1>1 DEF FetchedOK
<1>8. PipelineOK'
  BY <1>1 DEF IInv, PipelineOK
<1> QED
  BY <1>3, <1>4, <1>5, <1>6, <1>7, <1>8 DEF IInv

\* Starting at a ledger is safe once the older ones are declared out of scope.
LEMMA StartAtOK ==
    ASSUME IInv, NEW s \in Nat, s >= 2, UsePosition(s, NoCursor),
           waived' = waived \cup 1 .. s - 1,
           startLedger' \in StartLedgers, overrideApplied' \in BOOLEAN
    PROVE  IInv'
<1>1. Len(chain) \in Nat /\ \A n \in Emitted : chain[n] \in Nat /\ chain[n] >= 1
  BY ChainTypes DEF IInv, CycleTypeOK
<1>2. chain' = chain
  BY DEF UsePosition, rpcVars
<1>3. ASSUME NEW n \in Emitted, chain[n] < s PROVE Finished(n)'
  BY <1>1, <1>2, <1>3 DEF Finished
<1>4. waived \subseteq waived' /\ waived' \subseteq Nat /\ 1 .. s - 1 \subseteq waived'
  BY DEF IInv, CycleTypeOK
<1>5. NoCursor \in 0 .. Len(chain)
  BY <1>1 DEF NoCursor
<1> QED
  BY <1>3, <1>4, <1>5, UsePositionOK

LEMMA ResolveOK ==
    ASSUME IInv, ApplyOverride \/ ResumeFromState \/ ColdStart
    PROVE  IInv'
<1>1. /\ startLedger \in StartLedgers /\ startLedger \in Int /\ startLedger # 1
      /\ overrideApplied \in BOOLEAN
  BY IngesterAssumption DEF IInv, CycleTypeOK
<1>2. CASE ApplyOverride
  <2>1. CASE UsePosition(startLedger, NoCursor) /\ waived' = waived \cup 1 .. startLedger - 1
    <3>1. startLedger \in Nat /\ startLedger >= 2 /\ startLedger' = startLedger
          /\ overrideApplied' \in BOOLEAN
      BY <1>1, <1>2 DEF ApplyOverride
    <3> QED
      BY <1>1, <2>1, <3>1, StartAtOK
  <2>2. CASE UNCHANGED <<rpcVars, stateRow, tables, local, waived>>
    <3>1. /\ chain' = chain /\ latest' = latest /\ Emitted' = Emitted
          /\ lastIngested' = lastIngested /\ lastCursor' = lastCursor
          /\ stored' = stored /\ deadLetters' = deadLetters /\ published' = published
          /\ startLedger' = startLedger /\ overrideApplied' = TRUE
          /\ pc' = pc /\ pc = "resolve" /\ start' = start /\ cursor' = cursor
          /\ respLatest' = respLatest /\ last' = last /\ page' = page
          /\ todo' = todo /\ batch' = batch /\ left' = left /\ isolating' = isolating
          /\ waived' = waived
      BY <1>2, <2>2 DEF ApplyOverride, rpcVars, stateRow, tables, local, request,
         response, writing, Emitted
    <3>2. CycleTypeOK'
      BY <3>1 DEF IInv, CycleTypeOK, RpcTypeOK
    <3>3. SavedOK'
      BY <3>1, SavedFrame DEF IInv, Grows, rpcVars, stateRow
    <3>4. ChainOrdered' /\ ResolvedOK' /\ FetchedOK' /\ PipelineOK'
      BY <3>1 DEF IInv, ChainOrdered, ResolvedOK, FetchedOK, PipelineOK
    <3> QED
      BY <3>2, <3>3, <3>4 DEF IInv
  <2> QED
    BY <1>2, <2>1, <2>2 DEF ApplyOverride
<1>3. CASE ResumeFromState
  <2>1. startLedger' = startLedger /\ overrideApplied' = overrideApplied /\ waived' = waived
    BY <1>3 DEF ResumeFromState, process
  <2>2. lastIngested \in Nat /\ lastCursor \in 0 .. Len(chain) /\ Len(chain) \in Nat
        /\ latest \in Nat /\ waived \subseteq Nat
        /\ \A n \in Emitted : chain[n] \in Nat
    BY ChainTypes DEF IInv, CycleTypeOK
  <2>3. \A n \in Emitted : Passed(n) /\ chain' = chain /\ UNCHANGED tables => Finished(n)'
    BY <2>1 DEF IInv, SavedOK, Finished, tables
  <2>4. CASE lastCursor # NoCursor /\ UsePosition(0, lastCursor)
    <3>1. chain' = chain /\ UNCHANGED tables
      BY <2>4 DEF UsePosition, rpcVars
    <3>2. \A n \in Emitted : n <= lastCursor => Finished(n)'
      BY <2>3, <2>4, <3>1 DEF Passed
    <3>3. chain[lastCursor] >= 2
      BY <2>4 DEF IInv, SavedOK
    <3> QED
      BY <1>1, <2>1, <2>2, <2>4, <3>2, <3>3, UsePositionOK
  <2>5. CASE lastCursor = NoCursor /\ lastIngested > 0 /\ UsePosition(lastIngested + 1, NoCursor)
    <3>1. chain' = chain /\ UNCHANGED tables
      BY <2>5 DEF UsePosition, rpcVars
    <3>2. \A n \in Emitted : chain[n] < lastIngested + 1 => Finished(n)'
      BY <2>2, <2>3, <2>5, <3>1 DEF Passed
    <3>3. lastIngested + 1 >= 2 /\ lastIngested + 1 - 1 = lastIngested
          /\ (lastIngested < latest \/ 1 .. lastIngested \subseteq waived')
      BY <2>1, <2>2, <2>5 DEF IInv, SavedOK, BehindHead
    <3>4. NoCursor \in 0 .. Len(chain) /\ lastIngested + 1 \in Nat
      BY <2>2 DEF NoCursor
    <3> QED
      BY <1>1, <2>1, <2>2, <2>5, <3>2, <3>3, <3>4, UsePositionOK
  <2> QED
    BY <1>3, <2>4, <2>5 DEF ResumeFromState
<1>4. CASE ColdStart
  <2>1. startLedger' = startLedger /\ overrideApplied' = overrideApplied
        /\ UsePosition(ColdStartLedger, NoCursor)
        /\ waived' = waived \cup 1 .. ColdStartLedger - 1
    BY <1>4 DEF ColdStart, process
  <2>2. latest \in Nat /\ Oldest \in Nat /\ RetentionLedgers \in Nat
    BY OldestInRange, IngesterAssumption DEF IInv, CycleTypeOK, RpcTypeOK, Ledger
  <2>3. ColdStartLedger \in Nat /\ ColdStartLedger >= 2
    BY <1>1, <2>2 DEF ColdStartLedger, MaxOf
  <2> QED
    BY <1>1, <2>1, <2>3, StartAtOK
<1> QED
  BY <1>2, <1>3, <1>4

LEMMA FetchOutOfRangeOK ==
    ASSUME IInv, FetchOutOfRange
    PROVE  IInv'
<1>1. /\ chain' = chain /\ latest' = latest /\ Emitted' = Emitted
      /\ lastIngested' = lastIngested /\ lastCursor' = lastCursor
      /\ stored' = stored /\ deadLetters' = deadLetters /\ published' = published
      /\ startLedger' = startLedger /\ overrideApplied' = overrideApplied
      /\ pc' = "reclamp" /\ pc = "fetch" /\ start' = start /\ cursor' = cursor
      /\ respLatest' = respLatest /\ last' = last /\ page' = page
      /\ todo' = todo /\ batch' = batch /\ left' = left /\ isolating' = isolating
      /\ waived' = waived
  BY DEF FetchOutOfRange, rpcVars, stateRow, tables, process, request, response,
     writing, Emitted
<1>2. Grows
  BY <1>1 DEF Grows
<1>3. CycleTypeOK'
  BY <1>1 DEF IInv, CycleTypeOK, RpcTypeOK, Steps
<1>4. SavedOK'
  BY <1>1, <1>2, SavedFrame DEF IInv, rpcVars, stateRow
<1>5. ResolvedOK'
  BY <1>1, <1>2, ResolvedFrame DEF IInv, rpcVars, request
<1>6. ChainOrdered' /\ FetchedOK' /\ PipelineOK'
  BY <1>1 DEF IInv, ChainOrdered, FetchedOK, PipelineOK
<1> QED
  BY <1>3, <1>4, <1>5, <1>6 DEF IInv

\* A page is a prefix of the events after the position: an event up to its
\* last one is on it or was behind the position, and an empty page means that
\* every event was.
LEMMA PageIsPrefix ==
    ASSUME IInv, NEW P, P \in Pages(start, cursor, PageLimit),
           NEW l, l \in P \cup {0}, \A n \in P : n <= l /\ l # 0
    PROVE  /\ P \subseteq Matching(start, cursor)
           /\ l # 0 => l \in P
           /\ l # 0 => \A n \in Matching(start, cursor) : n <= l => n \in P
           /\ l = 0 => P = {} /\ Matching(start, cursor) = {}
<1> DEFINE M == Matching(start, cursor)
<1>1. PICK b \in M \cup {0} : P = {n \in M : n <= b}
  BY DEF Pages, Prefixes
<1>2. P # {} \/ P = M
  BY DEF Pages, Prefixes
<1>3. M \subseteq Nat
  BY ChainTypes DEF IInv, CycleTypeOK, Matching
<1>4. l # 0 => l \in P
  OBVIOUS
<1>5. ASSUME l # 0, NEW n \in M, n <= l PROVE n \in P
  BY <1>1, <1>3, <1>4, <1>5
<1>6. l = 0 => P = {} /\ M = {}
  BY <1>2
<1> QED
  BY <1>1, <1>4, <1>5, <1>6

LEMMA FetchPageOK ==
    ASSUME IInv, FetchPage
    PROVE  IInv'
<1>1. /\ chain' = chain /\ latest' = latest /\ Emitted' = Emitted
      /\ lastIngested' = lastIngested /\ lastCursor' = lastCursor
      /\ stored' = stored /\ deadLetters' = deadLetters /\ published' = published
      /\ startLedger' = startLedger /\ overrideApplied' = overrideApplied
      /\ pc' = "decode" /\ pc = "fetch" /\ start' = start /\ cursor' = cursor
      /\ respLatest' = latest
      /\ todo' = todo /\ batch' = batch /\ left' = left /\ isolating' = isolating
      /\ waived' = waived
  BY DEF FetchPage, rpcVars, stateRow, tables, process, request, writing, Emitted
<1>2. /\ page' \subseteq Matching(start, cursor)
      /\ last' # 0 => last' \in page'
      /\ last' # 0 => \A n \in Matching(start, cursor) : n <= last' => n \in page'
      /\ last' = 0 => page' = {} /\ Matching(start, cursor) = {}
  BY PageIsPrefix DEF FetchPage
<1>3. /\ Len(chain) \in Nat /\ latest \in Nat /\ latest >= 1
      /\ Emitted = 1 .. Len(chain)
      /\ \A n \in Emitted : chain[n] \in Nat /\ chain[n] >= 1
      /\ start \in Nat /\ cursor \in 0 .. Len(chain)
  BY ChainTypes DEF IInv, CycleTypeOK
<1>4. Matching(start, cursor) \subseteq Emitted
  BY DEF Matching
<1>5. \A n \in Emitted : n \in Matching(start, cursor) \/ Before(n)
  BY <1>3 DEF Matching, Before
<1>6. Grows
  BY <1>1 DEF Grows
<1>7. CycleTypeOK'
  <2>1. page' \subseteq Emitted /\ last' \in 0 .. Len(chain)
    BY <1>2, <1>3, <1>4
  <2>2. respLatest' \in 0 .. latest
    BY <1>1, <1>3
  <2> QED
    BY <1>1, <2>1, <2>2 DEF IInv, CycleTypeOK, RpcTypeOK, Steps
<1>8. SavedOK'
  BY <1>1, <1>6, SavedFrame DEF IInv, rpcVars, stateRow
<1>9. ResolvedOK'
  BY <1>1, <1>6, ResolvedFrame DEF IInv, rpcVars, request
<1>10. /\ \A n \in Emitted : Before(n) => Finished(n)
       /\ cursor = NoCursor => start >= 2 /\ BehindHead(start - 1)
       /\ cursor # NoCursor => chain[cursor] >= 2
  BY <1>1 DEF IInv, ResolvedOK
<1>11. FetchedOK'
  <2>1. ASSUME NEW n \in Emitted', WillPass(n)'
        PROVE  Finished(n)' \/ n \in page' \cup todo' \cup batch'
    <3>1. n \in Emitted
      BY <1>1
    <3>2. CASE Before(n)
      BY <1>6, <1>10, <3>1, <3>2, FinishedGrows
    <3>3. CASE n \in Matching(start, cursor)
      BY <1>2, <2>1, <3>3 DEF WillPass
    <3> QED
      BY <1>5, <3>1, <3>2, <3>3
  <2>2. ASSUME last' # 0 PROVE chain'[last'] >= 2
    <3>1. last' \in Matching(start, cursor) /\ last' \in Emitted
      BY <1>2, <1>4, <2>2
    <3>2. CASE cursor = NoCursor
      BY <1>1, <1>3, <1>10, <3>1, <3>2 DEF Matching
    <3>3. CASE cursor # NoCursor
      <4>1. cursor \in Emitted /\ cursor <= last'
        BY <1>3, <3>1, <3>3 DEF Matching, NoCursor
      <4>2. chain[cursor] <= chain[last']
        BY <3>1, <4>1 DEF IInv, ChainOrdered
      <4> QED
        BY <1>1, <1>3, <1>10, <3>1, <3>3, <4>1, <4>2
    <3> QED
      BY <3>2, <3>3
  <2>3. ASSUME last' = 0 PROVE NextIngested' \in Nat /\ BehindHead(NextIngested)'
    <3>1. CASE latest > 1
      BY <1>1, <1>3, <2>3, <3>1 DEF NextIngested, BehindHead
    <3>2. CASE ~(latest > 1)
      <4>1. cursor = NoCursor
        <5>1. SUFFICES ASSUME cursor # NoCursor PROVE FALSE
          OBVIOUS
        <5>2. cursor \in Emitted
          BY <1>3, <5>1 DEF NoCursor
        <5> QED
          BY <1>3, <1>10, <3>2, <5>1, <5>2 DEF IInv, ChainOrdered
      <4>2. NextIngested' = start - 1
        BY <1>1, <2>3, <3>2 DEF NextIngested
      <4> QED
        BY <1>1, <1>3, <1>10, <4>1, <4>2 DEF BehindHead
    <3> QED
      BY <3>1, <3>2
  <2> QED
    BY <2>1, <2>2, <2>3 DEF FetchedOK
<1>12. ChainOrdered' /\ PipelineOK'
  BY <1>1 DEF IInv, ChainOrdered, PipelineOK
<1> QED
  BY <1>7, <1>8, <1>9, <1>11, <1>12 DEF IInv

\* Skipping to the oldest retained ledger leaves behind finished events and
\* the declared gap.
LEMMA ReclampOK ==
    ASSUME IInv, Reclamp
    PROVE  IInv'
<1>1. /\ chain' = chain /\ latest' = latest /\ Emitted' = Emitted
      /\ stored' = stored /\ deadLetters' = deadLetters /\ published' = published
      /\ startLedger' = startLedger /\ overrideApplied' = overrideApplied
      /\ lastIngested' = Oldest - 1 /\ lastCursor' = NoCursor
      /\ waived' = waived \cup RequestedLedger(start, cursor) .. Oldest - 1
      /\ EndCycle /\ UNCHANGED rpcVars /\ pc = "reclamp"
  BY DEF Reclamp, rpcVars, tables, process, Emitted
<1>2. /\ Len(chain) \in Nat /\ Emitted = 1 .. Len(chain)
      /\ \A n \in Emitted : chain[n] \in Nat
      /\ start \in Nat /\ cursor \in 0 .. Len(chain) /\ latest \in Nat
      /\ Oldest \in Nat /\ 1 <= Oldest /\ Oldest <= latest
  BY ChainTypes, OldestInRange DEF IInv, CycleTypeOK
<1>3. RequestedLedger(start, cursor) \in Nat
  BY <1>2 DEF RequestedLedger, NoCursor
<1>4. Grows /\ waived' \subseteq Nat
  <2>1. waived \subseteq Nat
    BY DEF IInv, CycleTypeOK
  <2>2. RequestedLedger(start, cursor) .. Oldest - 1 \subseteq Nat
    BY <1>2, <1>3
  <2> QED
    BY <1>1, <2>1, <2>2 DEF Grows
<1>5. ASSUME NEW n \in Emitted', Passed(n)' PROVE Finished(n)'
  <2>1. n \in Emitted /\ chain[n] <= Oldest - 1
    BY <1>1, <1>5 DEF Passed
  <2>2. CASE Before(n)
    BY <1>1, <1>4, <2>1, <2>2, FinishedGrows DEF IInv, ResolvedOK
  <2>3. CASE ~Before(n)
    <3>1. RequestedLedger(start, cursor) <= chain[n]
      <4>1. CASE cursor = NoCursor
        BY <1>2, <2>1, <2>3, <4>1 DEF Before, RequestedLedger
      <4>2. CASE cursor # NoCursor
        BY <1>2, <2>1, <2>3, <4>2 DEF Before, RequestedLedger, IInv, ChainOrdered, NoCursor
      <4> QED
        BY <4>1, <4>2
    <3> QED
      BY <1>1, <1>2, <1>3, <2>1, <3>1 DEF Finished
  <2> QED
    BY <2>2, <2>3
<1>6. SavedOK'
  <2>1. BehindHead(lastIngested)'
    BY <1>1, <1>2 DEF BehindHead
  <2> QED
    BY <1>1, <1>5, <2>1 DEF SavedOK, NoCursor
<1>7. /\ lastIngested' \in Nat /\ lastCursor' \in 0 .. Len(chain)
  BY <1>1, <1>2 DEF NoCursor
<1>8. stored' \cap (SkipListed \cup Undecodable) = {}
  BY <1>1 DEF IInv, PipelineOK
<1>9. /\ stored' \subseteq Emitted /\ deadLetters' \subseteq Emitted
      /\ published' \subseteq Emitted
      /\ startLedger' \in StartLedgers /\ overrideApplied' \in BOOLEAN
  BY <1>1 DEF IInv, CycleTypeOK
<1> QED
  BY <1>1, <1>4, <1>6, <1>7, <1>8, <1>9, EndOfCycle

LEMMA DecodeOK ==
    ASSUME IInv, DecodeEvent \/ DeadLetterUndecodable \/ DecodeDone
    PROVE  IInv'
<1>1. /\ UNCHANGED <<rpcVars, stateRow, process, request, respLatest, last, waived>>
      /\ stored' = stored /\ published' = published
      /\ batch' = batch /\ left' = left /\ isolating' = isolating
      /\ pc = "decode"
  BY DEF DecodeEvent, DeadLetterUndecodable, DecodeDone, tables, response, writing
<1>2. chain' = chain /\ waived' = waived
  BY <1>1 DEF rpcVars
<1>3. /\ stored \subseteq Emitted /\ deadLetters \subseteq Emitted
      /\ published \subseteq Emitted /\ page \subseteq Emitted
      /\ todo \subseteq Emitted /\ batch \subseteq Emitted
      /\ left \subseteq batch /\ isolating \subseteq batch
      /\ Emitted \subseteq Nat
  BY ChainTypes DEF IInv, CycleTypeOK
<1>4. CASE DecodeEvent
  <2>1. PICK n \in page :
          /\ n \in SkipListed \/ n \notin Undecodable
          /\ page' = page \ {n}
          /\ todo' = IF n \in SkipListed THEN todo ELSE todo \cup {n}
    BY <1>4 DEF DecodeEvent
  <2>2. deadLetters' = deadLetters /\ pc' = "decode"
    BY <1>1, <1>4 DEF DecodeEvent, tables
  <2>3. Grows
    BY <1>1, <1>2, <2>2 DEF Grows, Emitted
  <2>4. PipelineOK'
    BY <1>1, <2>1, <2>2 DEF IInv, PipelineOK
  <2>5. ASSUME NEW e \in page \cup todo \cup batch
        PROVE  Finished(e)' \/ e \in page' \cup todo' \cup batch'
    BY <1>1, <2>1 DEF Finished
  <2>6. page' \subseteq Emitted /\ todo' \subseteq Emitted
    BY <1>3, <2>1
  <2> QED
    BY <1>1, <1>3, <2>2, <2>3, <2>4, <2>5, <2>6, PipelineStep
<1>5. CASE DeadLetterUndecodable
  <2>1. PICK n \in page :
          /\ NextToDecode(n)
          /\ deadLetters' = deadLetters \cup {n}
          /\ page' = page \ {n}
    BY <1>5 DEF DeadLetterUndecodable
  <2>2. n \in Undecodable
    <3>1. PICK u \in page : NextToDecode(u) /\ u \in Undecodable
      BY <1>5 DEF DeadLetterUndecodable, NextIsUndecodable
    <3>2. u <= n /\ n <= u /\ u \in Nat /\ n \in Nat
      BY <1>3, <2>1, <3>1 DEF NextToDecode
    <3> QED
      BY <3>1, <3>2
  <2>3. todo' = todo /\ pc' = "decode"
    BY <1>1, <1>5 DEF DeadLetterUndecodable, writing
  <2>4. Grows
    BY <1>1, <1>2, <2>1 DEF Grows, Emitted
  <2>5. PipelineOK'
    BY <1>1, <2>1, <2>3 DEF IInv, PipelineOK
  <2>6. ASSUME NEW e \in page \cup todo \cup batch
        PROVE  Finished(e)' \/ e \in page' \cup todo' \cup batch'
    BY <1>1, <2>1, <2>2, <2>3 DEF Finished
  <2>7. page' \subseteq Emitted /\ deadLetters' \subseteq Emitted
    BY <1>3, <2>1
  <2> QED
    BY <1>1, <1>3, <2>3, <2>4, <2>5, <2>6, <2>7, PipelineStep
<1>6. CASE DecodeDone
  <2>1. /\ page = {} /\ page' = page /\ todo' = todo
        /\ deadLetters' = deadLetters /\ pc' = "write"
    BY <1>6 DEF DecodeDone, tables, response, writing
  <2>2. Grows
    BY <1>1, <1>2, <2>1 DEF Grows, Emitted
  <2>3. PipelineOK'
    BY <1>1, <2>1 DEF IInv, PipelineOK
  <2> QED
    BY <1>1, <1>3, <2>1, <2>2, <2>3, PipelineStep
<1> QED
  BY <1>4, <1>5, <1>6

\* The steps that write a batch: events leave the pipeline only when they are
\* in a table and published.
LEMMA WriteOK ==
    ASSUME IInv,
           TakeBatch \/ UpsertChunk \/ IsolateChunk \/ IsolateEvent
              \/ PublishBatch \/ WriteDone
    PROVE  IInv'
<1>1. /\ UNCHANGED <<rpcVars, stateRow, process, request, respLatest, last, waived>>
      /\ pc = "write" /\ page' = page /\ page = {}
      /\ pc' \in {"write", "save"}
  BY DEF IInv, PipelineOK, TakeBatch, UpsertChunk, IsolateChunk, IsolateEvent,
     PublishBatch, WriteDone, response
<1>2. chain' = chain /\ waived' = waived
  BY <1>1 DEF rpcVars
<1>3. /\ stored \subseteq Emitted /\ deadLetters \subseteq Emitted
      /\ published \subseteq Emitted /\ page \subseteq Emitted
      /\ todo \subseteq Emitted /\ batch \subseteq Emitted
      /\ left \subseteq batch /\ isolating \subseteq batch
  BY DEF IInv, CycleTypeOK
<1>4. /\ \A n \in batch \ (left \cup isolating) : n \in stored \cup deadLetters
      /\ (stored \cup todo \cup batch) \cap (SkipListed \cup Undecodable) = {}
  BY DEF IInv, PipelineOK
<1>5. \A chunk \in Chunks : chunk \subseteq left
  BY DEF Chunks, FirstOf
<1>6. SUFFICES /\ Grows /\ PipelineOK'
               /\ stored' \subseteq Emitted /\ deadLetters' \subseteq Emitted
               /\ published' \subseteq Emitted /\ todo' \subseteq Emitted
               /\ batch' \subseteq Emitted
               /\ left' \subseteq batch' /\ isolating' \subseteq batch'
               /\ \A n \in todo \cup batch :
                      Finished(n)' \/ n \in todo' \cup batch'
  BY <1>1, <1>3, PipelineStep
<1>7. CASE TakeBatch
  <2>1. /\ stored' = stored /\ deadLetters' = deadLetters /\ published' = published
        /\ batch = {} /\ batch' \subseteq todo /\ left' = batch'
        /\ todo' = todo \ batch' /\ isolating' = isolating /\ pc' = "write"
    BY <1>7 DEF TakeBatch, FirstOf, tables
  <2>2. Grows
    BY <1>1, <1>2, <2>1 DEF Grows, Emitted
  <2>3. PipelineOK'
    BY <1>1, <1>4, <2>1 DEF PipelineOK
  <2> QED
    BY <1>3, <2>1, <2>2, <2>3
<1>8. CASE UpsertChunk
  <2>1. PICK chunk \in Chunks : stored' = stored \cup chunk /\ left' = left \ chunk
    BY <1>8 DEF UpsertChunk
  <2>2. /\ deadLetters' = deadLetters /\ published' = published /\ todo' = todo
        /\ batch' = batch /\ isolating' = isolating /\ pc' = "write"
    BY <1>1, <1>8 DEF UpsertChunk
  <2>3. Grows
    BY <1>1, <1>2, <2>1, <2>2 DEF Grows, Emitted
  <2>4. chunk \subseteq batch
    BY <1>3, <1>5
  <2>5. PipelineOK'
    BY <1>1, <1>4, <2>1, <2>2, <2>4 DEF PipelineOK
  <2> QED
    BY <1>3, <2>1, <2>2, <2>3, <2>4, <2>5
<1>9. CASE IsolateChunk
  <2>1. PICK chunk \in Chunks : isolating' = chunk /\ left' = left \ chunk
    BY <1>9 DEF IsolateChunk
  <2>2. /\ stored' = stored /\ deadLetters' = deadLetters /\ published' = published
        /\ todo' = todo /\ batch' = batch /\ isolating = {} /\ pc' = "write"
    BY <1>1, <1>9 DEF IsolateChunk, tables
  <2>3. Grows
    BY <1>1, <1>2, <2>2 DEF Grows, Emitted
  <2>4. chunk \subseteq batch
    BY <1>3, <1>5
  <2>5. PipelineOK'
    BY <1>1, <1>4, <2>1, <2>2 DEF PipelineOK
  <2> QED
    BY <1>3, <2>1, <2>2, <2>3, <2>4, <2>5
<1>10. CASE IsolateEvent
  <2>1. PICK n \in isolating :
          /\ isolating' = isolating \ {n}
          /\ \/ deadLetters' = deadLetters \cup {n} /\ stored' = stored
             \/ stored' = stored \cup {n} /\ deadLetters' = deadLetters
    BY <1>10 DEF IsolateEvent
  <2>2. /\ published' = published /\ todo' = todo /\ batch' = batch
        /\ left' = left /\ pc' = "write"
    BY <1>1, <1>10 DEF IsolateEvent
  <2>3. Grows
    BY <1>1, <1>2, <2>1, <2>2 DEF Grows, Emitted
  <2>4. PipelineOK'
    BY <1>1, <1>3, <1>4, <2>1, <2>2 DEF PipelineOK
  <2> QED
    BY <1>3, <2>1, <2>2, <2>3, <2>4
<1>11. CASE PublishBatch
  <2>1. /\ published' = published \cup batch /\ batch' = {}
        /\ left = {} /\ left' = left /\ isolating = {} /\ isolating' = isolating
        /\ stored' = stored /\ deadLetters' = deadLetters /\ todo' = todo
        /\ pc' = "write"
    BY <1>1, <1>11 DEF PublishBatch
  <2>2. Grows
    BY <1>1, <1>2, <2>1 DEF Grows, Emitted
  <2>3. PipelineOK'
    BY <1>1, <1>4, <2>1 DEF PipelineOK
  <2>4. \A n \in batch : Finished(n)'
    BY <1>4, <2>1 DEF Finished
  <2> QED
    BY <1>3, <2>1, <2>2, <2>3, <2>4
<1>12. CASE WriteDone
  <2>1. /\ stored' = stored /\ deadLetters' = deadLetters /\ published' = published
        /\ batch = {} /\ todo = {} /\ todo' = todo /\ batch' = batch
        /\ left' = left /\ isolating' = isolating
    BY <1>12 DEF WriteDone, tables, writing
  <2>2. Grows
    BY <1>1, <1>2, <2>1 DEF Grows, Emitted
  <2>3. PipelineOK'
    BY <1>1, <1>4, <2>1 DEF PipelineOK
  <2> QED
    BY <1>3, <2>1, <2>2, <2>3
<1> QED
  BY <1>7, <1>8, <1>9, <1>10, <1>11, <1>12

\* A write that fails, and whose commit the store may have made all the same.
LEMMA WriteFailsOK ==
    ASSUME IInv, WriteFails
    PROVE  IInv'
<1>1. /\ UNCHANGED <<rpcVars, stateRow>> /\ UNCHANGED rpcVars /\ EndCycle
      /\ lastIngested' = lastIngested /\ lastCursor' = lastCursor
      /\ deadLetters' = deadLetters /\ published' = published /\ waived' = waived
      /\ startLedger' = startLedger /\ overrideApplied' = overrideApplied
  BY DEF WriteFails, Abort, stateRow, process
<1>2. stored' = stored \/ \E chunk \in Chunks : stored' = stored \cup chunk
  BY DEF WriteFails
<1>3. \A chunk \in Chunks : chunk \subseteq batch
  BY DEF Chunks, FirstOf, IInv, CycleTypeOK
<1>4. /\ stored \subseteq stored'
      /\ stored' \subseteq stored \cup batch
  BY <1>2, <1>3
<1>5. /\ stored' \subseteq Emitted
      /\ stored' \cap (SkipListed \cup Undecodable) = {}
  BY <1>4 DEF IInv, CycleTypeOK, PipelineOK
<1>6. Grows
  BY <1>1, <1>4 DEF Grows, rpcVars, Emitted
<1>7. SavedOK'
  BY <1>1, <1>6, SavedFrame DEF IInv
<1>8. /\ lastIngested' \in Nat /\ lastCursor' \in 0 .. Len(chain)
      /\ deadLetters' \subseteq Emitted /\ published' \subseteq Emitted
      /\ waived' \subseteq Nat
      /\ startLedger' \in StartLedgers /\ overrideApplied' \in BOOLEAN
  BY <1>1 DEF IInv, CycleTypeOK
<1> QED
  BY <1>1, <1>5, <1>6, <1>7, <1>8, EndOfCycle

\* The position moves once nothing is in flight behind it.
LEMMA SaveOK ==
    ASSUME IInv, SaveIngestionState
    PROVE  IInv'
<1>1. /\ chain' = chain /\ latest' = latest /\ Emitted' = Emitted
      /\ UNCHANGED rpcVars /\ EndCycle /\ pc = "save"
      /\ stored' = stored /\ deadLetters' = deadLetters /\ published' = published
      /\ startLedger' = startLedger /\ overrideApplied' = overrideApplied
      /\ waived' = waived
      /\ lastCursor' = last /\ lastIngested' = NextIngested
  BY DEF SaveIngestionState, NextCursor, rpcVars, tables, process, Emitted
<1>2. /\ page = {} /\ todo = {} /\ batch = {}
      /\ stored' \cap (SkipListed \cup Undecodable) = {}
  BY <1>1 DEF IInv, PipelineOK
<1>3. /\ \A n \in Emitted : WillPass(n) => Finished(n)
      /\ last # 0 => chain[last] >= 2
      /\ last = 0 => NextIngested \in Nat /\ BehindHead(NextIngested)
  BY <1>1, <1>2 DEF IInv, FetchedOK
<1>4. Grows
  BY <1>1 DEF Grows
<1>5. lastIngested' \in Nat /\ lastCursor' \in 0 .. Len(chain)
  <2>1. last \in 0 .. Len(chain) /\ Len(chain) \in Nat
        /\ \A n \in 1 .. Len(chain) : chain[n] \in Nat
    BY ChainTypes DEF IInv, CycleTypeOK
  <2>2. last # 0 => NextIngested = chain[last]
    BY DEF NextIngested
  <2> QED
    BY <1>1, <1>3, <2>1, <2>2
<1>6. SavedOK'
  <2>1. ASSUME NEW n \in Emitted', Passed(n)' PROVE Finished(n)'
    BY <1>1, <1>3, <1>4, <2>1, FinishedGrows DEF Passed, WillPass, NoCursor
  <2>2. lastCursor' = NoCursor => BehindHead(lastIngested)'
    BY <1>1, <1>3 DEF BehindHead, NoCursor
  <2>3. lastCursor' # NoCursor => chain'[lastCursor'] >= 2
    BY <1>1, <1>3 DEF NoCursor
  <2> QED
    BY <2>1, <2>2, <2>3 DEF SavedOK, NoCursor
<1>7. /\ stored' \subseteq Emitted /\ deadLetters' \subseteq Emitted
      /\ published' \subseteq Emitted /\ waived' \subseteq Nat
      /\ startLedger' \in StartLedgers /\ overrideApplied' \in BOOLEAN
  BY <1>1 DEF IInv, CycleTypeOK
<1> QED
  BY <1>1, <1>2, <1>4, <1>5, <1>6, <1>7, EndOfCycle

LEMMA CrashOK ==
    ASSUME IInv, Crash
    PROVE  IInv'
<1>1. /\ UNCHANGED <<rpcVars, stateRow>> /\ UNCHANGED rpcVars /\ EndCycle
      /\ lastIngested' = lastIngested /\ lastCursor' = lastCursor
      /\ stored' = stored /\ deadLetters' = deadLetters
      /\ published' = published /\ waived' = waived
      /\ startLedger' \in StartLedgers /\ overrideApplied' \in BOOLEAN
  BY DEF Crash, stateRow, tables
<1>2. Grows
  BY <1>1 DEF Grows, rpcVars, Emitted
<1>3. SavedOK'
  BY <1>1, <1>2, SavedFrame DEF IInv
<1>4. stored' \cap (SkipListed \cup Undecodable) = {}
  BY <1>1 DEF IInv, PipelineOK
<1>5. /\ lastIngested' \in Nat /\ lastCursor' \in 0 .. Len(chain)
      /\ stored' \subseteq Emitted /\ deadLetters' \subseteq Emitted
      /\ published' \subseteq Emitted /\ waived' \subseteq Nat
  BY <1>1 DEF IInv, CycleTypeOK
<1> QED
  BY <1>1, <1>2, <1>3, <1>4, <1>5, EndOfCycle

\* Every step, and every stuttering step, keeps the invariant.
LEMMA NextOK ==
    ASSUME IInv, [Next]_vars
    PROVE  IInv'
<1>1. CASE RpcStep
  BY <1>1, RpcStepOK
<1>2. CASE ApplyOverride \/ ResumeFromState \/ ColdStart
  BY <1>2, ResolveOK
<1>3. CASE FetchOutOfRange
  BY <1>3, FetchOutOfRangeOK
<1>4. CASE FetchPage
  BY <1>4, FetchPageOK
<1>5. CASE Reclamp
  BY <1>5, ReclampOK
<1>6. CASE DecodeEvent \/ DeadLetterUndecodable \/ DecodeDone
  BY <1>6, DecodeOK
<1>7. CASE TakeBatch \/ UpsertChunk \/ IsolateChunk \/ IsolateEvent
              \/ PublishBatch \/ WriteDone
  BY <1>7, WriteOK
<1>8. CASE SaveIngestionState
  BY <1>8, SaveOK
<1>9. CASE WriteFails
  BY <1>9, WriteFailsOK
<1>10. CASE ResolveFails \/ FetchFails \/ ReclampFails \/ DecodeFails \/ SaveFails
  BY <1>10, FailedCycle DEF ResolveFails, FetchFails, ReclampFails, DecodeFails, SaveFails
<1>11. CASE Crash
  BY <1>11, CrashOK
<1>12. CASE UNCHANGED vars \/ CalmDown
  <2>1. UNCHANGED <<rpcVars, stateRow, tables, process, local, waived>>
    BY <1>12 DEF vars, CalmDown
  <2>2. /\ chain' = chain /\ latest' = latest /\ Emitted' = Emitted
        /\ lastIngested' = lastIngested /\ lastCursor' = lastCursor
        /\ stored' = stored /\ deadLetters' = deadLetters /\ published' = published
        /\ startLedger' = startLedger /\ overrideApplied' = overrideApplied
        /\ pc' = pc /\ start' = start /\ cursor' = cursor
        /\ respLatest' = respLatest /\ last' = last /\ page' = page
        /\ todo' = todo /\ batch' = batch /\ left' = left /\ isolating' = isolating
        /\ waived' = waived
    BY <2>1 DEF rpcVars, stateRow, tables, process, local, request, response,
       writing, Emitted
  <2>3. Grows
    BY <2>2 DEF Grows
  <2>4. CycleTypeOK' /\ ChainOrdered' /\ PipelineOK'
    BY <2>2 DEF IInv, CycleTypeOK, RpcTypeOK, ChainOrdered, PipelineOK
  <2>5. SavedOK'
    BY <2>1, <2>3, SavedFrame DEF IInv
  <2>6. ResolvedOK'
    <3>1. CASE pc = "resolve"
      BY <2>2, <3>1 DEF ResolvedOK
    <3>2. CASE pc # "resolve"
      BY <2>2, <2>3, <3>2, ResolvedFrame DEF IInv, rpcVars, request
    <3> QED
      BY <3>1, <3>2
  <2>7. FetchedOK'
    <3>1. CASE pc \in {"decode", "write", "save"}
      BY <2>2, <2>3, <3>1, FetchedFrame DEF IInv, rpcVars, request
    <3>2. CASE pc \notin {"decode", "write", "save"}
      BY <2>2, <3>2 DEF FetchedOK
    <3> QED
      BY <3>1, <3>2
  <2> QED
    BY <2>4, <2>5, <2>6, <2>7 DEF IInv
<1> QED
  BY <1>1, <1>2, <1>3, <1>4, <1>5, <1>6, <1>7, <1>8, <1>9, <1>10, <1>11, <1>12
     DEF Next, Progress, Fails

-----------------------------------------------------------------------------
LEMMA Inductive == Spec => []IInv
<1>1. Init => IInv
  BY InitOK
<1>2. IInv /\ [Next]_vars => IInv'
  BY NextOK
<1> QED
  BY <1>1, <1>2, PTL DEF Spec

\* Every variable of the ingester keeps its type: in particular the ledger that
\* nextState saves never becomes negative, not even next to the genesis ledger.
THEOREM TypeCorrect == Spec => []TypeOK
<1>1. Init => calm \in BOOLEAN
  BY DEF Init
<1>2. calm \in BOOLEAN /\ [Next]_vars => (calm \in BOOLEAN)'
  BY DEF Next, CalmDown, vars
<1>3. IInv /\ calm \in BOOLEAN => TypeOK
  BY DEF IInv, TypeOK
<1> QED
  BY <1>1, <1>2, <1>3, Inductive, PTL DEF Spec

\* No event is silently lost, for any page size, batch size, retention and
\* START_LEDGER, whatever calls fail and wherever the process crashes.
THEOREM NothingSilentlyLost == Spec => []NoSilentLoss
<1>1. ASSUME IInv PROVE NoSilentLoss
  <2>1. \A n \in Emitted : Passed(n) => Finished(n)
    BY <1>1 DEF IInv, SavedOK
  <2> QED
    BY <2>1 DEF NoSilentLoss, Finished, Accounted
<1> QED
  BY <1>1, Inductive, PTL

\* Delivery is at least once: no stored event is left behind by the saved
\* position without having been handed to the broadcaster and the notifier.
THEOREM DeliveredAtLeastOnce == Spec => []PublishedBeforePassed
<1>1. ASSUME IInv PROVE PublishedBeforePassed
  <2>1. \A n \in Emitted : Passed(n) => Finished(n)
    BY <1>1 DEF IInv, SavedOK
  <2>2. stored \subseteq Emitted /\ stored \cap (SkipListed \cup Undecodable) = {}
    BY <1>1 DEF IInv, CycleTypeOK, PipelineOK
  <2> QED
    BY <2>1, <2>2 DEF PublishedBeforePassed, Finished
<1> QED
  BY <1>1, Inductive, PTL
=============================================================================
