---------------------------- MODULE MC_Queries ----------------------------
(***************************************************************************)
(* Two hosts that send datagrams, one of them from the port of DNS.        *)
(***************************************************************************)
EXTENDS Queries, TLC

CONSTANTS Resolver, Other

MCSenders == {Resolver, Other}
MCPortOf == [x \in MCSenders |-> IF x = Resolver THEN dnsPort ELSE 5000]

Symmetry == Permutations(Callers)
=============================================================================
