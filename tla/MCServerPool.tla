---------------------------- MODULE MCServerPool ----------------------------
(* Small instances of ServerPool: two engines and four servers, one more   *)
(* than the two engines and a parked server need.                          *)
EXTENDS ServerPool, TLC

CONSTANTS s1, s2, s3, s4, e1, e2

Servers == {s1, s2, s3, s4}
Engines == {e1, e2}

\* set_server_reuse() is called with the default, with 0 and below it.
LimitChoices == {-1, 1, 2}

ServerSymmetry == Permutations(Servers) \cup Permutations(Engines)
=============================================================================
