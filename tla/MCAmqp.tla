------------------------------- MODULE MCAmqp -------------------------------
(* Instances of AmqpMiddleware for TLC.                                    *)
EXTENDS AmqpProperties, TLC

CONSTANTS m1, m2, d1, d2, e1

TwoMessages == {m1, m2}
OneDeclaration == {d1}
TwoDeclarations == {d1, d2}
OneDeletion == {e1}
NoOperation == {}

EveryFault == AllFaultKinds
SomeFaults == {"channel", "loss"}
Loss == {"loss"}

MessageSymmetry == Permutations(TwoMessages)
=============================================================================
