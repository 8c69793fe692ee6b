-------------------------- MODULE SessionIsolation --------------------------
(***************************************************************************)
(* Several users.  Everything the service keeps for a user is found by the *)
(* user's name and nothing locks it, so overlapping requests for one user  *)
(* disturb one another; requests for different users must not.  The steps  *)
(* are those of SessionLifecycle, with clients that present their own      *)
(* tokens.  Careful users have at most one request in progress, a start or *)
(* a status change of a session of theirs; the others have any number.     *)
(***************************************************************************)
EXTENDS SessionProperties

CONSTANTS
    Holder,   \* the user to whom a token was issued
    Careful   \* users for whom one request at a time is made

ASSUME IsolationAssumption ==
    /\ Holder \in [Tokens -> Users]
    /\ Careful \subseteq Users

\* Request r is for user u, and its answer has not been written.
WorksFor(r, u) ==
    /\ ~At(r, "idle")
    /\ u = IF req[r].kind = "start" THEN req[r].user ELSE owner[req[r].sid]

OneAtATime ==
    \A u \in Careful, r, q \in Requests : WorksFor(r, u) /\ WorksFor(q, u) => r = q

IsolationNext == Next /\ PresentOwnTokens(Holder)' /\ OneAtATime'
IsolationSpec == Init /\ [][IsolationNext]_vars

-----------------------------------------------------------------------------
IsCareful(s) == owner[s] \in Careful

(* A careful user has at most one active session, whatever fails and       *)
(* whatever is done for others between the query and the INSERT of         *)
(* HandleClientConnection.                                                 *)
CarefulOneActive ==
    \A s, t \in Sessions :
        Active(s) /\ Active(t) /\ owner[s] = owner[t] /\ IsCareful(s) => s = t

(* A careful user's closed session keeps its status, whatever fails: what  *)
(* a status handler has checked is what its UPDATE replaces.               *)
CarefulClosedIsFinal ==
    [][\A s \in Sessions :
        status[s] \in Stored /\ ~Active(s) /\ IsCareful(s) => status'[s] = status[s]]_vars

(* A careful user's active session keeps what its start has set up: no     *)
(* tear-down and no rollback for another user reaches it, unless a call to *)
(* the broker or the database fails or the process crashes.                *)
CarefulHasTopology ==
    Only({"users", "verdict", "publish"}) =>
      \A s \in Sessions :
        Active(s) /\ IsCareful(s) => TopologyComplete(owner[s]) \/ Opening(s)

(* A careful user's active session has a token that is not revoked and an  *)
(* authorised user, if the users-service answers every invalid token with  *)
(* an error: between validateConnection and the INSERT, and afterwards, no *)
(* completion for another user takes them away.                            *)
CarefulMayConnect ==
    Only(AllFaultKinds \ {"verdict"}) =>
        \A s \in Sessions :
            Active(s) /\ IsCareful(s) =>
                tokenOf[s] \notin revoked /\ owner[s] \in authorized
=============================================================================
