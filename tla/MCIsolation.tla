---------------------------- MODULE MCIsolation -----------------------------
(* Instances of SessionIsolation for TLC.                                  *)
EXTENDS SessionIsolation, MCSession

CONSTANT u2

\* u1 is careful, u2 is not.
TwoUsers == {u1, u2}
OwnToken == (t1 :> u1) @@ (t2 :> u2)

IsolationSymmetry == Permutations(TwoSessions) \cup Permutations(TwoRequests)
=============================================================================
