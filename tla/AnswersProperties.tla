------------------------- MODULE AnswersProperties --------------------------
(* What the HTTP status tells the caller about the state behind it, when   *)
(* requests do not overlap.                                                *)
EXTENDS SessionProperties, HttpAnswers

(* A caller that is told 200 for completing a session finds its token      *)
(* revoked, whichever of the revocations failed, and however: the error of *)
(* each must reach the status that is written.                             *)
OkMeansRevoked ==
    \A r \in Requests :
        http[r] = OK /\ req[r].kind = "completed" => tokenOf[req[r].sid] \in revoked

(* A client that is told 200 for a start can use its credentials: it has   *)
(* an active session and, unless the database has failed or the process    *)
(* crashed, its broker user, permissions and queues are there.             *)
OkMeansUsable ==
    \A r \in Requests :
        http[r] = OK /\ req[r].kind = "start" =>
            \E s \in Sessions :
                /\ Active(s) /\ owner[s] = req[r].user
                /\ Only({"users", "verdict", "broker", "publish"}) =>
                        TopologyComplete(owner[s])

(* A 502 for completing a session comes too late to try again: the session *)
(* is closed already, and the same request would be a conflict.  A 502 for *)
(* a start comes early enough: nothing has been inserted.                  *)
GatewayErrorPlace ==
    \A r \in Requests : http[r] = BadGateway =>
        IF req[r].kind = "start"
        THEN req[r].sid = None
        ELSE status[req[r].sid] \in Stored /\ ~Active(req[r].sid)
=============================================================================
