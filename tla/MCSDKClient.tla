----------------------------- MODULE MCSDKClient -----------------------------
(* Small values for SDKClient: a plain name and "registered/all"; a passport the *)
(* server may issue, and an identifier like "revoke-me" that somebody made up.   *)
EXTENDS SDKClient, TLC

CONSTANTS p1, madeUp

MCNames     == {<<"read">>, <<"registered", "all">>}
MCBeginning == [revoke |-> {madeUp}, register |-> {"registered"}]

\* Goroutines are alike, and so are the places of requests on the server.
MCSymmetry == Permutations(Threads) \cup Permutations(Slots)

=============================================================================
