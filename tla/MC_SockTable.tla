---------------------------- MODULE MC_SockTable ----------------------------
(* The socket table on small pools.  Remote ends are interchangeable: the   *)
(* table only ever compares them.                                           *)
EXTENDS SockTable, TLC

Interchangeable == Permutations(Remote)
=============================================================================
