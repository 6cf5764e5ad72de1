----------------------------- MODULE MCWatched -----------------------------
(***************************************************************************)
(* TLC instances of WatchedIngest.                                         *)
(***************************************************************************)
EXTENDS WatchedIngest

MCOne == {1}
MCNone == {}
MCPair == {1, 2}
MCThird == {3}
MCThree == {1, 2, 3}

\* Contracts 2 and 3 emit one event each, contract 1 stays quiet.
MCOneQuiet == <<2, 3>>

\* Contract 1 emits everything.
MCOneBusy == [n \in 1 .. MaxEvents |-> 1]
=============================================================================
