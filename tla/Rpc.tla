-------------------------------- MODULE Rpc --------------------------------
(***************************************************************************)
(* The Stellar RPC node an ingester polls, as the repository's own         *)
(* deterministic chain (internal/simtest/chain.go) describes it.           *)
(*                                                                         *)
(* The node serves one totally ordered stream of contract events.  Event n *)
(* is the n-th event of the stream and chain[n] is the ledger it belongs   *)
(* to, so event identifiers, paging cursors and stream positions are all   *)
(* natural numbers and the order of events is <.                           *)
(***************************************************************************)
EXTENDS Integers, Sequences, FiniteSets

CONSTANTS
    MaxEvents,       \* bound: events the chain ever emits
    MaxLedger,       \* bound: ledgers the chain ever closes
    RetentionWindow, \* ledgers behind the head that the node still serves
    FillingTip       \* events may still join the ledger at the tip

ASSUME RpcAssumption ==
    /\ MaxEvents \in Nat
    /\ MaxLedger \in Nat \ {0}
    /\ RetentionWindow \in Nat
    /\ FillingTip \in BOOLEAN

VARIABLES
    chain,   \* chain[n] is the ledger of the n-th event
    latest   \* headLedger: the ledger currently at the tip

rpcVars == <<chain, latest>>

Ledger == 1 .. MaxLedger

Emitted == 1 .. Len(chain)

\* An absent cursor, an empty string in the code.
NoCursor == 0

RpcTypeOK ==
    /\ chain \in Seq(Ledger)
    /\ latest \in Ledger

RpcInit ==
    /\ chain = <<>>
    /\ latest = 1

\* The oldest ledger the node still serves.
Oldest == IF latest <= RetentionWindow THEN 1 ELSE latest - RetentionWindow

\* k events join a ledger at or above the tip.
AddEvents(ledger, k) ==
    /\ Len(chain) + k <= MaxEvents
    /\ chain' = [n \in 1 .. Len(chain) + k |->
                    IF n \in Emitted THEN chain[n] ELSE ledger]
    /\ latest' = ledger

\* The next ledger closes with its events, and the oldest may age out.
AdvanceBy ==
    /\ latest < MaxLedger
    /\ \E k \in 0 .. MaxEvents : AddEvents(latest + 1, k)

\* An event shows up in the ledger already at the tip: a node that serves a
\* ledger before it has all of its events.
FillTip == FillingTip /\ AddEvents(latest, 1)

RpcNext == AdvanceBy \/ FillTip

(***************************************************************************)
(* getEvents.  A request names a cursor, or a start ledger when it has no  *)
(* cursor.                                                                 *)
(***************************************************************************)

\* The events after the requested position, in stream order.
Matching(start, cursor) ==
    {n \in Emitted : IF cursor # NoCursor THEN n > cursor ELSE chain[n] >= start}

\* The ledger of the requested position.
RequestedLedger(start, cursor) ==
    IF cursor # NoCursor THEN chain[cursor] ELSE start

\* The request lies below the retained range.
BelowRetention(start, cursor) == RequestedLedger(start, cursor) < Oldest

\* An aged-out start ledger is refused.  An aged-out cursor may be: simtest
\* serves the events after it, a Stellar node does not.
Served(start, cursor) == cursor # NoCursor \/ start >= Oldest

\* The request lies above the tip: simtest answers it with an empty page,
\* a Stellar node with "startLedger must be within the ledger range".
AboveTip(start, cursor) == cursor = NoCursor /\ start > latest

\* The answers of at most limit events out of M: a prefix of M that stops
\* short of its end only when it is full.
Prefixes(M, limit) ==
    {P \in {{n \in M : n <= last} : last \in M \cup {0}} :
        /\ Cardinality(P) <= limit
        /\ P = M \/ (P # {} /\ Cardinality(P) = limit)}

Pages(start, cursor, limit) == Prefixes(Matching(start, cursor), limit)

\* The first k elements of a set of events.
FirstOf(S, k) == {n \in S : Cardinality({m \in S : m < n}) < k}
=============================================================================
