------------------------------- MODULE MCGateway -------------------------------
(***************************************************************************)
(* Small instances of module Gateway, and with it of Sessions.             *)
(***************************************************************************)
EXTENDS Gateway

CONSTANTS k1, k2, u1, q1, q2, r1, r2, g1

\* A second key is added, the first one is taken away.
MCKeySets == <<{k1}, {k1, k2}, {k2}>>
==============================================================================
