-------------------------- MODULE SessionProperties -------------------------
(***************************************************************************)
(* What SessionLifecycle guarantees, and under which circumstances: for    *)
(* every schedule and every failure; for requests that do not overlap;     *)
(* when the database and the process do not fail.                          *)
(***************************************************************************)
EXTENDS SessionLifecycle

FaultCounts == [AllFaultKinds -> 0..MaxFaults]

(* The variables hold values of their types.                               *)
TypeOK ==
    /\ status \in [Sessions -> Stored \cup {"UNUSED", "DELETED"}]
    /\ owner \in [Sessions -> Users \cup {None}]
    /\ tokenOf \in [Sessions -> Tokens \cup {None}]
    /\ completedAt \in [Sessions -> BOOLEAN]
    /\ creator \in [Sessions -> Requests \cup {None}]
    /\ broker \in [Users -> SUBSET Resources]
    /\ announced \subseteq Sessions
    /\ authorized \subseteq Users
    /\ revoked \subseteq Tokens
    /\ req \in [Requests -> Request]
    /\ faults \in FaultCounts
    /\ confirmed \subseteq Sessions

Active(s) == status[s] = "IN_PROGRESS"
\* Nothing else has failed so far.
Only(kinds) == \A k \in AllFaultKinds \ kinds : faults[k] = 0

AllIdle == \A r \in Requests : At(r, "idle")
TopologyComplete(u) == ClientTopology \subseteq broker[u]

(* A start still works on the session it inserted.                         *)
Opening(s) == \E r \in Requests : req[r].pc \in OwnsRow /\ req[r].sid = s

\* The users-service gives a token to one user, and a client starts a session with
\* its own.
PresentOwnTokens(holder) ==
    \A r \in Requests : At(r, "fetchUser") => holder[req[r].tok] = req[r].user

-----------------------------------------------------------------------------
(* Every schedule, every failure.                                          *)

(* The check for an active session in HandleClientConnection excludes a    *)
(* second one except by overlap: two active sessions of a user were never  *)
(* inserted by the same request slot, even with requests of others, status *)
(* changes, failures and crashes between the check and the INSERT.         *)
DistinctCreators ==
    \A s, t \in Sessions :
        s # t /\ Active(s) /\ Active(t) /\ owner[s] = owner[t]
            => creator[s] # creator[t]

(* The table keeps the promise of SessionTable: in particular the rollback *)
(* of one start never deletes a session another start has confirmed.       *)
Table == INSTANCE SessionTable
TablePromise == Table!Spec

(* When SetSessionStatusToCompleted reports success the session's token,   *)
(* read two calls earlier, is revoked.                                     *)
UpdatedMeansRevoked ==
    \A r \in Requests :
        At(r, "updated") /\ req[r].kind = "completed"
            => tokenOf[req[r].sid] \in revoked

-----------------------------------------------------------------------------
(* Requests that do not overlap.                                           *)

(* A user has at most one active session.                                  *)
AtMostOneActive ==
    \A s, t \in Sessions :
        Active(s) /\ Active(t) /\ owner[s] = owner[t] => s = t

(* A session that is COMPLETED or TIMEOUT keeps that status: both status   *)
(* handlers check for IN_PROGRESS before they write.                       *)
ClosedIsFinal ==
    [][\A s \in Sessions :
        status[s] \in Stored /\ ~Active(s) => status'[s] = status[s]]_vars

(* The token a session was started with is not revoked and its user is     *)
(* authorized as long as it is active, provided the users-service answers  *)
(* an invalid token with an error status: what was validated two calls     *)
(* before the INSERT still holds, and a closed session's user and token    *)
(* are given up only after the session.                                    *)
ActiveMayConnect ==
    Only(AllFaultKinds \ {"verdict"}) =>
        \A s \in Sessions :
            Active(s) => tokenOf[s] \notin revoked /\ owner[s] \in authorized

(* An active session has its broker user, both queues and its permissions, *)
(* or its start is still at work, unless the database has failed or the    *)
(* process crashed.                                                        *)
ActiveHasTopology ==
    Only({"users", "verdict", "broker", "publish"}) =>
      \A s \in Sessions : Active(s) => TopologyComplete(owner[s]) \/ Opening(s)

(* When nothing is in progress a user without an active session has        *)
(* nothing left in the broker that this service created.  Publishing may   *)
(* have failed and been rolled back; nothing else has failed.              *)
NoLeftovers ==
    AllIdle /\ Only({"publish"}) => \A u \in Users :
        (\A s \in Sessions : Active(s) => owner[s] # u)
            => broker[u] \cap ClientTopology = {}

(* When nothing is in progress, a client was told of each active session:  *)
(* a start that fails takes its session away again, unless the database    *)
(* has failed or the process crashed.                                      *)
ActiveIsConfirmed ==
    AllIdle /\ Only({"users", "verdict", "broker", "publish"}) =>
        \A s \in Sessions : Active(s) => s \in confirmed

-----------------------------------------------------------------------------
(* Overlapping requests without failures of the users-service, the         *)
(* database or the process.                                                *)

(* A COMPLETED session that no request is at work on has its token         *)
(* revoked: completing a session and revoking what opened it go together.  *)
CompletedMeansRevoked ==
    \A s \in Sessions :
        status[s] = "COMPLETED" /\ (\A r \in Requests : req[r].sid # s)
            => tokenOf[s] \in revoked

(* A start whose set-up fails because a tear-down has deleted its broker   *)
(* user takes its session away again; no session stays active for ever     *)
(* that no client was told of.                                             *)
UnconfirmedEnds ==
    \A s \in Sessions :
        Active(s) /\ s \notin confirmed ~> ~Active(s) \/ s \in confirmed

(* Closing a session eventually removes the broker user, unless the user   *)
(* has opened, or is opening, another one.                                 *)
ClosedIsTornDown ==
    \A s \in Sessions :
        status[s] \in {"COMPLETED", "TIMEOUT"} ~>
            \/ \A u \in Users :
                  owner[s] = u => broker[u] \cap {"user", "permissions"} = {}
            \/ \E t \in Sessions \ {s} : owner[t] = owner[s] /\ Active(t)
=============================================================================
