----------------------------- MODULE MCIngester -----------------------------
(***************************************************************************)
(* TLC instance of Ingester.  Among the first five events one is           *)
(* skip-listed, one does not decode and one cannot be stored.              *)
(***************************************************************************)
EXTENDS IngesterRefinement

MCSkipListed == {5}
MCUndecodable == {2}
MCUnstorable == {3}

\* The liveness instance: START_LEDGER unset or latest-1, and no skip list.
MCLiveStart == {0, -1}
MCNone == {}

MCStartLedgers == {0, 2, -1}
=============================================================================
