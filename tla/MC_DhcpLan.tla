----------------------------- MODULE MC_DhcpLan -----------------------------
(***************************************************************************)
(* The instance of DhcpLan that TLC checks: the last bytes of addresses,   *)
(* and stations that may be exchanged.                                     *)
(***************************************************************************)
EXTENDS DhcpLan, TLC

\* The last bytes that occur: the pool, and the byte arithmetic around it.
LastBytes == 0..255

Stations == Permutations(Client)
=============================================================================
