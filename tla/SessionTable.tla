---------------------------- MODULE SessionTable ----------------------------
(***************************************************************************)
(* What the service promises about client_sessions, whatever fails and     *)
(* however requests overlap.  A session is opened once; once closed it is  *)
(* never open again (but may be closed again, with the other status); it   *)
(* is removed only as long as its client has not been told that it is      *)
(* connected, and a removed session never comes back.                      *)
(***************************************************************************)
CONSTANT Sessions
VARIABLES status, confirmed

Closed == {"COMPLETED", "TIMEOUT"}
Present == {"IN_PROGRESS"} \cup Closed

Init ==
    /\ status = [s \in Sessions |-> "UNUSED"]
    /\ confirmed = {}

Open(s) ==
    /\ status[s] = "UNUSED"
    /\ status' = [status EXCEPT ![s] = "IN_PROGRESS"]
    /\ UNCHANGED confirmed

Confirm(s) ==
    /\ status[s] \in Present
    /\ confirmed' = confirmed \cup {s}
    /\ UNCHANGED status

Close(s) ==
    /\ status[s] \in Present
    /\ \E c \in Closed : status' = [status EXCEPT ![s] = c]
    /\ UNCHANGED confirmed

Remove(s) ==
    /\ status[s] \in Present
    /\ s \notin confirmed
    /\ status' = [status EXCEPT ![s] = "DELETED"]
    /\ UNCHANGED confirmed

Next == \E s \in Sessions : Open(s) \/ Confirm(s) \/ Close(s) \/ Remove(s)

Spec == Init /\ [][Next]_<<status, confirmed>>
=============================================================================
