-------------------------- MODULE MCConnectionPool --------------------------
(* A small instance of ConnectionPool for TLC. *)
EXTENDS ConnectionPool

CONSTANTS k1, k2, q1, q2, q3
=============================================================================
