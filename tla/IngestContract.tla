--------------------------- MODULE IngestContract ---------------------------
(***************************************************************************)
(* What ingestion promises, without saying how: events are recorded, then  *)
(* the resume position moves past them.  Recording and moving are separate *)
(* steps, nothing recorded is ever dropped, and the position may leave     *)
(* behind only events that are recorded or were waived beforehand or in    *)
(* the same step because the node no longer serves their ledger.           *)
(***************************************************************************)
EXTENDS Rpc

VARIABLES
    recorded,    \* events accounted for
    frontier,    \* the position as a ledger
    resumeAt,    \* the position as a cursor
    waived       \* ledgers declared out of scope

contractVars == <<rpcVars, recorded, frontier, resumeAt, waived>>

Behind(n) == IF resumeAt # NoCursor THEN n <= resumeAt ELSE chain[n] <= frontier

Kept == \A n \in Emitted : Behind(n) => n \in recorded \/ chain[n] \in waived

ContractInit ==
    /\ RpcInit
    /\ recorded \cap Emitted = {}
    /\ frontier = 0
    /\ resumeAt = NoCursor
    /\ waived = {}

Record ==
    /\ recorded' \ recorded \subseteq Emitted
    /\ recorded \subseteq recorded'
    /\ UNCHANGED <<rpcVars, frontier, resumeAt, waived>>

Move ==
    /\ Kept'
    /\ UNCHANGED <<rpcVars, recorded, waived>>

\* An operator's start ledger, or a cold start, leaves older ledgers out.
Scope ==
    /\ \E l \in waived' \cup {0} : waived' = waived \cup 1 .. l
    /\ UNCHANGED <<rpcVars, recorded, frontier, resumeAt>>

\* The node has dropped the ledgers after the position: skip to the oldest.
SkipAgedOut ==
    /\ waived \subseteq waived'
    /\ \A l \in waived' \ waived : l < Oldest
    /\ frontier' = Oldest - 1
    /\ resumeAt' = NoCursor
    /\ UNCHANGED <<rpcVars, recorded>>

Grow == RpcNext /\ UNCHANGED <<recorded, frontier, resumeAt, waived>>

ContractNext == Grow \/ Record \/ Move \/ Scope \/ SkipAgedOut

ContractSpec == ContractInit /\ [][ContractNext]_contractVars
=============================================================================
