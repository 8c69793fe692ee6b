------------------------------ MODULE Notifier ------------------------------
(***************************************************************************)
(* What a caller of Publish may rely on, and what SessionLifecycle assumes *)
(* of it: a message is taken by the broker only once its call has begun,   *)
(* perhaps after the call has failed; a call succeeds if its message was   *)
(* taken, or mistakenly while another call is running.                     *)
(***************************************************************************)
CONSTANT Messages
VARIABLES taken, answer

Init ==
    /\ taken = {}
    /\ answer = [m \in Messages |-> "none"]

Answer(m, from, to) ==
    /\ answer[m] = from
    /\ answer' = [answer EXCEPT ![m] = to]
    /\ UNCHANGED taken

Call(m) == Answer(m, "none", "running")
Fail(m) == Answer(m, "running", "failed")

Succeed(m) ==
    /\ m \in taken \/ \E q \in Messages \ {m} : answer[q] = "running"
    /\ Answer(m, "running", "published")

\* One or, when a channel closes, several messages at once.
Take(ms) ==
    /\ \A m \in ms : answer[m] # "none"
    /\ taken' = taken \cup ms
    /\ UNCHANGED answer

Next ==
    \/ \E m \in Messages : Call(m) \/ Fail(m) \/ Succeed(m)
    \/ \E ms \in SUBSET Messages : Take(ms)

Spec == Init /\ [][Next]_<<taken, answer>>
=============================================================================
