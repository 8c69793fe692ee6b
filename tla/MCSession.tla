----------------------------- MODULE MCSession ------------------------------
(* Instances of SessionLifecycle for TLC.                                  *)
EXTENDS SessionProperties, TLC

CONSTANTS u1, t1, t2, s1, s2, s3, r1, r2, none

OneUser == {u1}
TwoTokens == {t1, t2}
OneToken == {t1}
TwoSessions == {s1, s2}
ThreeSessions == {s1, s2, s3}
OneRequest == {r1}
TwoRequests == {r1, r2}

NoFaults == {}
AllFaults == AllFaultKinds
UsersFaults == {"users"}
PublishFaults == {"publish"}

SerialSymmetry == Permutations({t1, t2}) \cup Permutations({s1, s2, s3})
Symmetry == SerialSymmetry \cup Permutations({r1, r2})
=============================================================================
