--------------------------- MODULE MCAdminAccount ---------------------------
(* Small instances of AdminAccount for TLC. *)
EXTENDS AdminAccount, TLC

CONSTANTS pw1, pw2, q1, q2, q3, q4, ip1, ip2

Interchangeable == Permutations(Procs) \cup Permutations(Ips)

\* The clock is only read by the limiter, which never reads the row: once the
\* version has moved, the clock stays at 0, and once the clock has moved, the
\* version stays the first.  Neither bounds how calls overlap.
LimiterApart == clock = 0 \/ row.version = 1
=============================================================================
