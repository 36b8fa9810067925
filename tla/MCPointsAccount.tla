-------------------------- MODULE MCPointsAccount --------------------------
(* Small instances of PointsAccount for TLC. *)
EXTENDS PointsAccount, TLC

CONSTANTS u1, a1, k1, k2, q1, q2, q3

Debit(key) == [kind |-> "adjust", admin |-> a1, key |-> key, user |-> u1, delta |-> -2]
Credit(key) == [Debit(key) EXCEPT !.delta = 1]

Login1 == {[kind |-> "login", user |-> u1]}
Adjustments == {Debit(k1), Credit(k1), Credit(k2)}
MCDeltas == {-2, 1}

\* The bonus of one deployment.
Steady == {2}

\* The catalogue plays no part here.
MCInit == PointsInit /\ \A p \in Products : products[p].stock = 0

MCSpec == MCInit /\ [][PointsNext]_pointsVars

MCFairSpec == MCSpec /\ \A p \in Procs : SF_pointsVars(Step(p))
=============================================================================
