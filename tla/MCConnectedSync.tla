--------------------------- MODULE MCConnectedSync ---------------------------
(* Two syncs of one site; every pull, push and decision interleaves.       *)
EXTENDS ConnectedSync, TLC

Interchangeable == Permutations(Syncs)

=============================================================================
