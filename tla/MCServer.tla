------------------------------ MODULE MCServer ------------------------------
(* Instances of ServerLifecycle for TLC.                                   *)
EXTENDS ServerProperties

CONSTANTS h1, h2

TwoHandlers == {h1, h2}

AllRight == [s \in Settings |-> "right"]
NoMistake == {AllRight}

\* At most one setting is not right; any value is accepted where none is parsed.
OneMistake ==
    {AllRight} \cup
    {[AllRight EXCEPT ![s] = v] : s \in Settings, v \in {"wrong", "missing"}} \cup
    {[AllRight EXCEPT ![s] = "malformed"] : s \in IntegerSettings}

EveryEvent == AllEvents
ServicesGone == {"outage"}
=============================================================================
