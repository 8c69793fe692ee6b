------------------------ MODULE SessionSerial_proofs ------------------------
(***************************************************************************)
(* Proofs of what SessionProperties and AnswersProperties state of         *)
(* requests that do not overlap, or of executions in which the database    *)
(* or the process do not fail, and of what SessionIsolation states of      *)
(* users whose requests do not overlap, for every value of the constants.  *)
(***************************************************************************)
EXTENDS AnswersProperties, SessionIsolation, SessionSafety_proofs

(* One slot: requests do not overlap.                                      *)
OneSlot == \A q, r \in Requests : q = r

(* The failures a start answers by itself.                                 *)
StartFaults == {"users", "verdict", "broker", "publish"}

(* The steps of a request before it has a session of its own, and after    *)
(* the UPDATE of a status change.                                          *)
Looking == {"fetchUser", "checkToken", "queryActive", "insert"}
Revoking == {"revokeAuth", "revokeToken"}
Closing == Revoking \cup {"tearDown", "updated"}

-----------------------------------------------------------------------------
(* Steps.                                                                  *)

(* What Goto, Begin and Advance do to the position in a sequence of calls. *)
LEMMA StepEffect ==
    ASSUME TypeInv, NEW r \in Requests, NEW pc \in PCs
    PROVE  /\ Goto(r, pc) => req'[r].step = req[r].step
           /\ Begin(r, pc) => req'[r].step = 1
           /\ Advance(r, pc) =>
                 \/ /\ req[r].step < 4
                    /\ req'[r].pc = req[r].pc /\ req'[r].step = req[r].step + 1
                 \/ req[r].step = 4 /\ req'[r].pc = pc
<1>1. req \in [Requests -> Request] /\ req[r].step \in 1..4
  BY StepSets DEF TypeInv, TypeOK, Steps
<1>2. Goto(r, pc) => req'[r].step = req[r].step
  BY <1>1, StepSets DEF Goto
<1>3. Begin(r, pc) => req'[r].step = 1
  BY <1>1, StepSets DEF Begin
<1>4. ASSUME Advance(r, pc), req[r].step < 4
      PROVE  req'[r].pc = req[r].pc /\ req'[r].step = req[r].step + 1
  BY <1>1, <1>4, StepSets DEF Advance
<1>5. ASSUME Advance(r, pc), ~(req[r].step < 4)
      PROVE  req[r].step = 4 /\ req'[r].pc = pc
  <2>1. Goto(r, pc) /\ req[r].step = 4
    BY <1>1, <1>5 DEF Advance
  <2> QED
    BY <1>1, <2>1, GotoEffect
<1> QED
  BY <1>2, <1>3, <1>4, <1>5

(* A failure that is counted excludes that only others have happened.      *)
LEMMA FaultShows ==
    ASSUME TypeInv, NEW k, Fault(k), NEW kinds, k \notin kinds
    PROVE  ~Only(kinds)'
<1>1. k \in AllFaultKinds /\ faults \in [AllFaultKinds -> Nat]
  BY ConstantsAssumption DEF Fault, TypeInv, TypeOK, FaultCounts
<1>2. faults'[k] = faults[k] + 1 /\ faults[k] \in Nat
  BY <1>1 DEF Fault
<1>3. faults'[k] # 0
  BY <1>2
<1> QED
  BY <1>1, <1>3 DEF Only

(* Every step leaves the counts alone or adds a failure.                   *)
LEMMA FaultsOfStep ==
    ASSUME TypeInv, [Next]_vars
    PROVE  Success \/ \E k \in AllFaultKinds : Fault(k)
<1>1. ASSUME NEW k, Fault(k) PROVE k \in AllFaultKinds
  BY <1>1, ConstantsAssumption DEF Fault
<1>2. CASE UNCHANGED vars
  BY <1>2 DEF vars, Success
<1>3. CASE Environment
  BY <1>1, <1>3
  DEF Environment, StartRequest, StatusRequest, DispatcherJoins, Authorize, Crash, Panic, Success
<1>4. ASSUME NEW r \in Requests, Handler(r)
      PROVE  Success \/ \E k \in AllFaultKinds : Fault(k)
  <2>1. CASE StartHandler(r)
    BY <1>1, <2>1
    DEF StartHandler, FetchUser, CheckToken, GetActiveSession, CreateSession,
        SetUpTopologyFor, NotifyNewConnection, RollBackTopology, DeleteResource,
        DeleteSession
  <2>2. CASE StatusHandler(r)
    BY <1>1, <2>2
    DEF StatusHandler, GetSessionByID, UpdateSessionStatus, RevokeAuthorization,
        RevokeToken, TearDownTopology, DeleteResource
  <2>3. CASE Reply(r)
    BY <2>3 DEF Reply, Success
  <2> QED
    BY <1>4, <2>1, <2>2, <2>3 DEF Handler
<1> QED
  BY <1>2, <1>3, <1>4 DEF Next

(* What only certain failures have reached, only these had reached before. *)
LEMMA OnlyBefore ==
    ASSUME TypeInv, [Next]_vars, NEW kinds, Only(kinds)'
    PROVE  Only(kinds)
<1>1. faults \in [AllFaultKinds -> Nat]
  BY ConstantsAssumption DEF TypeInv, TypeOK, FaultCounts
<1>2. CASE Success
  BY <1>2 DEF Success, Only
<1>3. CASE \E k \in AllFaultKinds : Fault(k)
  <2>1. PICK k \in AllFaultKinds : Fault(k)
    BY <1>3
  <2>2. k \in kinds
    BY <2>1, FaultShows
  <2>3. \A j \in AllFaultKinds \ kinds : faults'[j] = faults[j]
    BY <1>1, <2>1, <2>2 DEF Fault
  <2> QED
    BY <2>3 DEF Only
<1> QED
  BY <1>2, <1>3, FaultsOfStep

(* Unless the process fails, the environment only starts requests.         *)
LEMMA EnvironmentStarts ==
    ASSUME TypeInv, Environment, ~Crash, \A r \in Requests : ~Panic(r)
    PROVE  \A q \in Requests :
              \/ req'[q] = req[q]
              \/ /\ req[q].pc = "idle" /\ req'[q].sid = None
                 /\ req'[q].pc = "fetchUser" /\ req'[q].kind = "start"
              \/ /\ req[q].pc = "idle" /\ req'[q].sid \in Sessions
                 /\ req'[q].pc = "getSession" /\ req'[q].kind # "start"
<1> USE DEF TypeInv, TypeOK
<1>1. CASE \E r \in Requests, u \in Users, t \in Tokens : StartRequest(r, u, t)
  BY <1>1 DEF StartRequest, Idle, At
<1>2. CASE \E r \in Requests, s \in Sessions :
              StatusRequest(r, "completed", s) \/ StatusRequest(r, "timeout", s)
  <2>1. PICK r \in Requests, s \in Sessions, kind \in {"completed", "timeout"} :
           StatusRequest(r, kind, s)
    BY <1>2
  <2>2. /\ req[r].pc = "idle" /\ req'[r].pc = "getSession"
        /\ req'[r].kind = kind /\ req'[r].sid = s
        /\ \A q \in Requests : q # r => req'[q] = req[q]
    BY <2>1 DEF StatusRequest, Idle, At
  <2> QED
    BY <2>2
<1>3. CASE \E s \in Sessions : DispatcherJoins(s)
  BY <1>3 DEF DispatcherJoins
<1>4. CASE \E u \in Users : Authorize(u)
  BY <1>4 DEF Authorize
<1> QED
  BY <1>1, <1>2, <1>3, <1>4 DEF Environment

-----------------------------------------------------------------------------
(* Active sessions and the starts that opened them.                        *)

(* A session becomes active by the INSERT of a start, which then works on  *)
(* it unless the database fails.                                           *)
LEMMA ActiveSince ==
    ASSUME TypeInv, [Next]_vars, NEW s \in Sessions, Active(s)'
    PROVE  \/ Active(s) /\ owner'[s] = owner[s]
           \/ \E r \in Requests :
                 /\ CreateSession(r) /\ InsertRow(r, s)
                 /\ \/ req'[r].pc = "setUp" /\ req'[r].sid = s /\ req'[r].step = 1
                       /\ req'[r].user = req[r].user
                    \/ Fault("db")
<1>1. CASE UNCHANGED <<status, owner, tokenOf, creator, confirmed>>
  BY <1>1 DEF Active
<1>2. ASSUME NEW r \in Requests, CreateSession(r)
      PROVE  \/ Active(s) /\ owner'[s] = owner[s]
             \/ /\ InsertRow(r, s)
                /\ \/ req'[r].pc = "setUp" /\ req'[r].sid = s /\ req'[r].step = 1
                      /\ req'[r].user = req[r].user
                   \/ Fault("db")
  <2>1. CASE UNCHANGED tableVars
    BY <2>1 DEF tableVars, Active
  <2>2. CASE \E t \in Sessions : InsertRow(r, t)
    <3>1. PICK t \in Sessions : InsertRow(r, t)
      BY <2>2
    <3>2. CASE t # s
      BY <3>1, <3>2 DEF InsertRow, Active, TypeInv, TypeOK
    <3>3. CASE t = s
      <4>1. \A z \in Sessions : InsertRow(r, z) => z = s
        BY <3>1, <3>3 DEF InsertRow, TypeInv, TypeOK
      <4>2. CASE req' = [req EXCEPT ![r] = [@ EXCEPT !.pc = "setUp", !.sid = s, !.step = 1]]
        <5>1. req'[r].pc = "setUp" /\ req'[r].sid = s /\ req'[r].user = req[r].user
          BY <4>2, InsertEffect DEF TypeInv, TypeOK
        <5>2. req'[r].step = 1
          BY <4>2, StepSets DEF TypeInv, TypeOK
        <5> QED
          BY <3>1, <3>3, <5>1, <5>2
      <4>3. CASE Fault("db")
        BY <3>1, <3>3, <4>3
      <4>4. ~UNCHANGED tableVars
        BY <3>1, <3>3 DEF tableVars, InsertRow, TypeInv, TypeOK
      <4> QED
        BY <1>2, <4>1, <4>2, <4>3, <4>4 DEF CreateSession
    <3> QED
      BY <3>2, <3>3
  <2> QED
    BY <1>2, <2>1, <2>2 DEF CreateSession
<1>3. ASSUME NEW r \in Requests,
             NotifyNewConnection(r) \/ DeleteSession(r) \/ UpdateSessionStatus(r)
      PROVE  Active(s) /\ owner'[s] = owner[s]
  BY <1>3
  DEF NotifyNewConnection, DeleteSession, UpdateSessionStatus, SetRow, tableVars,
      Active, TypeInv, TypeOK
<1>4. CASE UNCHANGED vars \/ Environment
  BY <1>1, <1>4, EnvironmentEffect DEF vars, tableVars
<1>5. ASSUME NEW r \in Requests, Handler(r)
      PROVE  \/ UNCHANGED <<status, owner, tokenOf, creator, confirmed>>
             \/ CreateSession(r)
             \/ NotifyNewConnection(r) \/ DeleteSession(r) \/ UpdateSessionStatus(r)
  BY <1>5, TableEffect
<1> QED
  BY <1>1, <1>2, <1>3, <1>4, <1>5 DEF Next

(* A start leaves the row it inserted when its client was told, or the row *)
(* is deleted, unless the database or the process fails.                   *)
LEMMA RowLeft ==
    ASSUME TypeInv, [Next]_vars, Only(StartFaults)',
           NEW q \in Requests, req[q].pc \in OwnsRow
    PROVE  \/ req'[q].pc \in OwnsRow /\ req'[q].sid = req[q].sid
           \/ /\ NotifyNewConnection(q) /\ req'[q].pc = "connected"
              /\ req[q].sid \in confirmed'
           \/ status'[req[q].sid] = "DELETED"
<1>0. ~Fault("crash") /\ ~Fault("db")
  BY FaultShows DEF StartFaults
<1>1. CASE req'[q] = req[q]
  BY <1>1
<1>2. CASE UNCHANGED vars
  BY <1>2 DEF vars
<1>3. CASE Environment
  BY <1>0, <1>1, <1>3, EnvironmentStarts DEF OwnsRow, Crash, Panic
<1>4. ASSUME NEW r \in Requests, Handler(r), r # q PROVE req'[q] = req[q]
  BY <1>4, HandlerEffect
<1>5. CASE Handler(q)
  <2> USE DEF PCs, StartSteps, StatusSteps, Replies, OwnsRow, At
  <2>0. req \in [Requests -> Request]
    BY DEF TypeInv, TypeOK
  <2>1. CASE SetUpTopologyFor(q)
    BY <2>0, <2>1, GotoEffect, AdvanceEffect DEF SetUpTopologyFor
  <2>2. CASE NotifyNewConnection(q)
    BY <2>0, <2>2, GotoEffect DEF NotifyNewConnection
  <2>3. CASE RollBackTopology(q)
    BY <2>0, <2>3, AdvanceEffect DEF RollBackTopology, DeleteResource
  <2>4. CASE DeleteSession(q)
    <3>1. req[q].sid \in Sessions
      BY OwnsRowUsesSession
    <3> QED
      BY <1>0, <2>4, <3>1 DEF DeleteSession, TypeInv, TypeOK
  <2> QED
    BY <1>5, <2>1, <2>2, <2>3, <2>4
    DEF Handler, StartHandler, StatusHandler, FetchUser, CheckToken, GetActiveSession,
        CreateSession, GetSessionByID, UpdateSessionStatus, RevokeAuthorization,
        RevokeToken, TearDownTopology, Reply
<1> QED
  BY <1>1, <1>2, <1>3, <1>4, <1>5 DEF Next

(* The client of an active session was told, or its start is at work.      *)
ConfirmInv ==
    Only(StartFaults) => \A s \in Sessions : Active(s) => s \in confirmed \/ Opening(s)

(* Sessions stay confirmed.                                                *)
LEMMA ConfirmedKept ==
    ASSUME TypeInv, [Next]_vars
    PROVE  confirmed \subseteq confirmed'
<1>1. ASSUME NEW r \in Requests, Handler(r) PROVE confirmed \subseteq confirmed'
  BY <1>1, TableEffect
  DEF CreateSession, NotifyNewConnection, DeleteSession, UpdateSessionStatus
<1> QED
  BY <1>1, EnvironmentEffect DEF Next, vars

LEMMA ConfirmKept == TypeInv /\ ConfirmInv /\ [Next]_vars => ConfirmInv'
<1> SUFFICES ASSUME TypeInv, ConfirmInv, [Next]_vars, Only(StartFaults)',
                    NEW s \in Sessions, Active(s)'
             PROVE  s \in confirmed' \/ Opening(s)'
  BY DEF ConfirmInv
<1>1. CASE Active(s)
  <2>1. s \in confirmed \/ Opening(s)
    BY <1>1, OnlyBefore DEF ConfirmInv
  <2>2. CASE s \in confirmed
    BY <2>2, ConfirmedKept
  <2>3. CASE Opening(s)
    <3>1. PICK q \in Requests : req[q].pc \in OwnsRow /\ req[q].sid = s
      BY <2>3 DEF Opening
    <3> QED
      BY <3>1, RowLeft DEF Opening, Active
  <2> QED
    BY <2>1, <2>2, <2>3
<1>2. CASE ~Active(s)
  <2>1. ~Fault("db")
    BY FaultShows DEF StartFaults
  <2> QED
    BY <1>2, <2>1, ActiveSince DEF Opening, OwnsRow
<1> QED
  BY <1>1, <1>2

(* A start that fails takes its session away again, however requests       *)
(* overlap, until the database fails or the process crashes.               *)
THEOREM ActiveConfirmed == Spec => []ActiveIsConfirmed
<1>1. Init => ConfirmInv
  BY DEF Init, ConfirmInv, Active
<1>2. ConfirmInv => ActiveIsConfirmed
  BY DEF ConfirmInv, ActiveIsConfirmed, StartFaults, Opening, OwnsRow, AllIdle, At
<1> QED
  BY <1>1, <1>2, ConfirmKept, TypeInvariant, PTL DEF Spec

-----------------------------------------------------------------------------
(* Where the step a handler is at comes from.                              *)
LEMMA HandlerOrder ==
    ASSUME TypeInv, NEW r \in Requests, Handler(r)
    PROVE  /\ req'[r].pc \in StartSteps \cup {"connected", "reconnected"} =>
                 req[r].pc \in StartSteps /\ req'[r].kind = req[r].kind
           /\ req'[r].pc \in StatusSteps \cup {"updated"} =>
                 req[r].pc \in StatusSteps /\ req'[r].kind = req[r].kind
           /\ req'[r].pc \in Looking =>
                 req[r].pc \in Looking /\ req'[r].sid = req[r].sid
           /\ req'[r].pc \in Revoking =>
                 req[r].pc \in Revoking \/ req[r].kind = "completed"
<1> USE DEF PCs, StartSteps, StatusSteps, Replies, Looking, Revoking, At
<1>0. req \in [Requests -> Request]
  BY DEF TypeInv, TypeOK
<1>1. CASE FetchUser(r) \/ CheckToken(r) \/ GetActiveSession(r)
  BY <1>0, <1>1, GotoEffect DEF FetchUser, CheckToken, GetActiveSession
<1>2. CASE CreateSession(r)
  <2>1. CASE Goto(r, "failed")
    BY <1>0, <1>2, <2>1, GotoEffect
  <2>2. CASE \E s \in Sessions :
               req' = [req EXCEPT ![r] = [@ EXCEPT !.pc = "setUp", !.sid = s, !.step = 1]]
    BY <1>0, <1>2, <2>2, InsertEffect DEF CreateSession
  <2> QED
    BY <1>2, <2>1, <2>2 DEF CreateSession
<1>3. CASE SetUpTopologyFor(r)
  BY <1>0, <1>3, GotoEffect, AdvanceEffect DEF SetUpTopologyFor
<1>4. CASE NotifyNewConnection(r)
  BY <1>0, <1>4, GotoEffect DEF NotifyNewConnection
<1>5. CASE RollBackTopology(r) \/ DeleteSession(r)
  BY <1>0, <1>5, GotoEffect, AdvanceEffect DEF RollBackTopology, DeleteSession, DeleteResource
<1>6. CASE GetSessionByID(r)
  <2>1. req[r].pc = "getSession"
    BY <1>6 DEF GetSessionByID
  <2>2. req'[r].kind = req[r].kind /\ req'[r].pc \notin StartSteps \cup Revoking \cup {"connected", "reconnected"}
    <3>1. CASE \E pc \in {"notFound", "conflict", "failed"} : Goto(r, pc)
      BY <1>0, <3>1, GotoEffect
    <3> DEFINE u == owner[req[r].sid]
               t == tokenOf[req[r].sid]
    <3>2. CASE req' = [req EXCEPT ![r] = [@ EXCEPT !.pc = "update", !.user = u, !.tok = t]]
      <4> HIDE DEF u, t
      <4>1. req'[r] = [req[r] EXCEPT !.pc = "update", !.user = u, !.tok = t]
        BY <1>0, <3>2
      <4>2. req'[r].pc = "update" /\ req'[r].kind = req[r].kind
        BY <1>0, <4>1 DEF Request
      <4> QED
        BY <4>2
    <3> QED
      BY <1>6, <3>1, <3>2 DEF GetSessionByID
  <2> QED
    BY <2>1, <2>2
<1>7. CASE UpdateSessionStatus(r)
  BY <1>0, <1>7, GotoEffect DEF UpdateSessionStatus
<1>8. CASE RevokeAuthorization(r) \/ RevokeToken(r)
  BY <1>0, <1>8, GotoEffect DEF RevokeAuthorization, RevokeToken
<1>9. CASE TearDownTopology(r)
  BY <1>0, <1>9, AdvanceEffect DEF TearDownTopology, DeleteResource
<1>10. CASE Reply(r)
  BY <1>0, <1>10 DEF Reply, Idle
<1> QED
  BY <1>1, <1>2, <1>3, <1>4, <1>5, <1>6, <1>7, <1>8, <1>9, <1>10
  DEF Handler, StartHandler, StatusHandler

(* The steps of a start are those of a start, and so on; a start has no    *)
(* session before its INSERT; only a completion revokes.                   *)
KindInv ==
    \A r \in Requests :
        /\ req[r].pc \in StartSteps \cup {"connected", "reconnected"} => req[r].kind = "start"
        /\ req[r].pc \in StatusSteps \cup {"updated"} => req[r].kind # "start"
        /\ req[r].pc \in Revoking => req[r].kind = "completed"
        /\ req[r].pc \in Looking => req[r].sid = None

(* What happens to a slot in a step that is not its own.                   *)
LEMMA OthersStep ==
    ASSUME TypeInv, [Next]_vars, NEW q \in Requests
    PROVE  \/ Handler(q)
           \/ req'[q] = req[q]
           \/ Fault("crash") /\ req'[q].pc \in {"idle", "failed"}
                /\ (req'[q].pc = "failed" =>
                       req'[q].sid = req[q].sid /\ req'[q].kind = req[q].kind)
           \/ /\ req[q].pc = "idle" /\ req'[q].sid = None
              /\ req'[q].pc = "fetchUser" /\ req'[q].kind = "start"
           \/ /\ req[q].pc = "idle" /\ req'[q].sid \in Sessions
              /\ req'[q].pc = "getSession" /\ req'[q].kind # "start"
<1>1. CASE UNCHANGED vars
  BY <1>1 DEF vars
<1>2. ASSUME NEW r \in Requests, Handler(r), r # q PROVE req'[q] = req[q]
  BY <1>2, HandlerEffect
<1>3. CASE Crash
  BY <1>3 DEF Crash, Idle
<1>4. ASSUME NEW r \in Requests, Panic(r)
      PROVE  \/ req'[q] = req[q]
             \/ Fault("crash") /\ req'[q].pc = "failed"
                /\ req'[q].sid = req[q].sid /\ req'[q].kind = req[q].kind
  BY <1>4, GotoEffect DEF Panic, TypeInv, TypeOK, PCs, Replies
<1>5. CASE Environment /\ ~Crash /\ \A r \in Requests : ~Panic(r)
  BY <1>5, EnvironmentStarts
<1> QED
  BY <1>1, <1>2, <1>3, <1>4, <1>5 DEF Next

LEMMA KindKept == TypeInv /\ KindInv /\ [Next]_vars => KindInv'
<1> USE DEF StartSteps, StatusSteps, Looking, Revoking
<1> SUFFICES ASSUME TypeInv, KindInv, [Next]_vars, NEW q \in Requests
             PROVE  /\ req'[q].pc \in StartSteps \cup {"connected", "reconnected"} =>
                          req'[q].kind = "start"
                    /\ req'[q].pc \in StatusSteps \cup {"updated"} => req'[q].kind # "start"
                    /\ req'[q].pc \in Revoking => req'[q].kind = "completed"
                    /\ req'[q].pc \in Looking => req'[q].sid = None
  BY DEF KindInv
<1>1. CASE Handler(q)
  BY <1>1, HandlerOrder DEF KindInv
<1>2. CASE ~Handler(q)
  BY <1>2, OthersStep DEF KindInv
<1> QED
  BY <1>1, <1>2

LEMMA KindInit == Init => KindInv
BY DEF Init, KindInv, Idle, StartSteps, StatusSteps, Looking, Revoking

LEMMA KindInvariant == Spec => []KindInv
BY KindInit, KindKept, TypeInvariant, PTL DEF Spec

-----------------------------------------------------------------------------
(* Completed sessions and the requests that revoke their tokens.           *)

CompletionFaults == {"verdict", "broker", "publish"}

(* The token of a completed session is revoked, or a request is about to   *)
(* revoke it.                                                              *)
RevokingInv ==
    Only(CompletionFaults) =>
        \A s \in Sessions : status[s] = "COMPLETED" =>
            \/ tokenOf[s] \in revoked
            \/ \E r \in Requests : req[r].sid = s /\ req[r].pc \in Revoking

(* A session is completed by the UPDATE of a completion, whose request     *)
(* goes on to revoke unless the database fails.                            *)
LEMMA CompletedSince ==
    ASSUME TypeInv, [Next]_vars, ~Fault("db"), NEW s \in Sessions, status'[s] = "COMPLETED"
    PROVE  \/ status[s] = "COMPLETED"
           \/ \E r \in Requests : req'[r].sid = s /\ req'[r].pc = "revokeAuth"
<1>1. CASE UNCHANGED status
  BY <1>1
<1>2. ASSUME NEW r \in Requests,
             CreateSession(r) \/ NotifyNewConnection(r) \/ DeleteSession(r)
      PROVE  status[s] = "COMPLETED"
  BY <1>2
  DEF CreateSession, InsertRow, NotifyNewConnection, DeleteSession, tableVars, TypeInv, TypeOK
<1>3. ASSUME NEW r \in Requests, UpdateSessionStatus(r)
      PROVE  \/ status[s] = "COMPLETED"
             \/ req'[r].sid = s /\ req'[r].pc = "revokeAuth"
  <2>1. CASE UNCHANGED status
    BY <2>1
  <2>2. CASE /\ SetRow(r)
             /\ Begin(r, IF req[r].kind = "completed" THEN "revokeAuth" ELSE "tearDown")
    <3>1. CASE req[r].kind = "completed" /\ req[r].sid = s
      BY <2>2, <3>1, GotoEffect DEF TypeInv, TypeOK, PCs, StatusSteps
    <3>2. CASE ~(req[r].kind = "completed" /\ req[r].sid = s)
      BY <2>2, <3>2 DEF SetRow, TypeInv, TypeOK
    <3> QED
      BY <3>1, <3>2
  <2> QED
    BY <1>3, <2>1, <2>2 DEF UpdateSessionStatus
<1>4. CASE UNCHANGED vars \/ Environment
  BY <1>1, <1>4, EnvironmentEffect DEF vars, tableVars
<1>5. ASSUME NEW r \in Requests, Handler(r)
      PROVE  \/ UNCHANGED status
             \/ CreateSession(r) \/ NotifyNewConnection(r) \/ DeleteSession(r)
             \/ UpdateSessionStatus(r)
  BY <1>5, TableEffect
<1> QED
  BY <1>1, <1>2, <1>3, <1>4, <1>5 DEF Next

(* A request that revokes goes on until it has revoked the token, unless a *)
(* call to the users-service or the process fails.                         *)
LEMMA RevocationLeft ==
    ASSUME TypeInv, TokenInv, KindInv, [Next]_vars, ~Fault("crash"), ~Fault("users"),
           NEW q \in Requests, req[q].pc \in Revoking
    PROVE  \/ req'[q].pc \in Revoking /\ req'[q].sid = req[q].sid
           \/ tokenOf[req[q].sid] \in revoked'
<1>1. CASE ~Handler(q)
  BY <1>1, OthersStep DEF Revoking
<1>2. CASE Handler(q)
  <2> USE DEF PCs, StartSteps, StatusSteps, Replies, Revoking, At
  <2>0. req \in [Requests -> Request]
    BY DEF TypeInv, TypeOK
  <2>1. CASE RevokeAuthorization(q)
    BY <2>0, <2>1, GotoEffect DEF RevokeAuthorization
  <2>2. CASE RevokeToken(q)
    <3>1. req[q].kind = "completed" /\ req[q].tok = tokenOf[req[q].sid]
      BY DEF KindInv, TokenInv, AfterRead
    <3>2. revoked' = revoked \cup {req[q].tok}
      BY <2>2 DEF RevokeToken
    <3> QED
      BY <3>1, <3>2
  <2> QED
    BY <1>2, <2>1, <2>2
    DEF Handler, StartHandler, StatusHandler, FetchUser, CheckToken, GetActiveSession,
        CreateSession, SetUpTopologyFor, NotifyNewConnection, DeleteSession,
        RollBackTopology, GetSessionByID, UpdateSessionStatus, TearDownTopology, Reply
<1> QED
  BY <1>1, <1>2

LEMMA RevokingKept ==
    TypeInv /\ TokenInv /\ KindInv /\ RevokingInv /\ [Next]_vars => RevokingInv'
<1> SUFFICES ASSUME TypeInv, TokenInv, KindInv, RevokingInv, [Next]_vars,
                    Only(CompletionFaults)', NEW s \in Sessions, status'[s] = "COMPLETED"
             PROVE  \/ tokenOf'[s] \in revoked'
                    \/ \E r \in Requests : req'[r].sid = s /\ req'[r].pc \in Revoking
  BY DEF RevokingInv
<1>1. ~Fault("db") /\ ~Fault("crash") /\ ~Fault("users")
  BY FaultShows DEF CompletionFaults
<1>2. CASE status[s] = "COMPLETED"
  <2>1. tokenOf'[s] = tokenOf[s] /\ revoked \subseteq revoked'
    BY <1>2, TokenKept, RevokedKept DEF vars, tableVars, usersVars
  <2>2. CASE tokenOf[s] \in revoked
    BY <2>1, <2>2
  <2>3. CASE \E r \in Requests : req[r].sid = s /\ req[r].pc \in Revoking
    BY <1>1, <2>1, <2>3, RevocationLeft
  <2> QED
    BY <1>2, <2>2, <2>3, OnlyBefore DEF RevokingInv
<1>3. CASE status[s] # "COMPLETED"
  BY <1>1, <1>3, CompletedSince DEF Revoking
<1> QED
  BY <1>2, <1>3

LEMMA TokenInvariant == Spec => []TokenInv
<1>1. Init => TokenInv
  BY DEF Init, TokenInv, Idle
<1>2. TypeInv /\ TokenInv /\ [Next]_vars => TokenInv'
  <2>1. TokenInv /\ UNCHANGED vars => TokenInv'
    BY DEF vars, tableVars, usersVars, TokenInv
  <2> QED
    BY <2>1, HandlerTokenInv, EnvironmentTokenInv DEF Next
<1> QED
  BY <1>1, <1>2, TypeInvariant, PTL DEF Spec

(* However completions, timeouts and starts overlap, a completed session   *)
(* nobody is at work on has its token revoked, as long as no call to the   *)
(* users-service or the database has failed and the process has not        *)
(* crashed.                                                                *)
THEOREM CompletedRevoked == Spec => [](Only(CompletionFaults) => CompletedMeansRevoked)
<1>1. Init => RevokingInv
  BY DEF Init, RevokingInv
<1>2. RevokingInv => (Only(CompletionFaults) => CompletedMeansRevoked)
  BY DEF RevokingInv, CompletedMeansRevoked
<1> QED
  BY <1>1, <1>2, RevokingKept, KindInvariant, TokenInvariant, TypeInvariant, PTL DEF Spec

(* In particular when such failures are not among those that may happen,   *)
(* as in the run.                                                          *)
THEOREM NoFaultsCompletedRevoked ==
    ASSUME FaultKinds \subseteq CompletionFaults
    PROVE  Spec => []CompletedMeansRevoked
<1> DEFINE Counted == Only(CompletionFaults)
<1>1. Init => Counted
  BY DEF Init, Only
<1>2. TypeInv /\ Counted /\ [Next]_vars => Counted'
  <2> SUFFICES ASSUME TypeInv, Counted, [Next]_vars PROVE Counted'
    OBVIOUS
  <2>1. CASE Success
    BY <2>1 DEF Success, Only
  <2>2. ASSUME NEW k \in AllFaultKinds, Fault(k) PROVE Counted'
    <3>1. k \in CompletionFaults /\ faults' = [faults EXCEPT ![k] = @ + 1]
      BY <2>2 DEF Fault
    <3> QED
      BY <3>1 DEF Only, TypeInv, TypeOK, FaultCounts
  <2> QED
    BY <2>1, <2>2, FaultsOfStep
<1> HIDE DEF Counted
<1>3. Spec => []Counted
  BY <1>1, <1>2, TypeInvariant, PTL DEF Spec
<1>4. Spec => [](Counted => CompletedMeansRevoked)
  BY CompletedRevoked DEF Counted
<1> QED
  BY <1>3, <1>4, PTL

-----------------------------------------------------------------------------
(* Requests that do not overlap: what a handler knows about its session.   *)

Closed(s) == status[s] \in Stored /\ ~Active(s)
NoActive(u) == \A s \in Sessions : Active(s) => owner[s] # u

(* The row a handler works on is what its last call to the table made it:  *)
(* active and its user's until a status change has updated it, then closed *)
(* with no other active session of the user.                               *)
Owns(r) ==
    /\ req[r].pc \in OwnsRow \cup {"update", "connected"} =>
          /\ req[r].sid \in Sessions /\ Active(req[r].sid)
          /\ owner[req[r].sid] = req[r].user
    /\ req[r].pc \in Closing =>
          /\ req[r].sid \in Sessions /\ Closed(req[r].sid)
          /\ owner[req[r].sid] = req[r].user
          /\ NoActive(req[r].user)
    /\ req[r].pc = "reconnected" => ~NoActive(req[r].user)

OwnInv == \A r \in Requests : Owns(r)

(* A step that is not the slot's own is the environment's.                 *)
LEMMA OneSlotStep ==
    ASSUME OneSlot, TypeInv, [Next]_vars, NEW q \in Requests, ~Handler(q)
    PROVE  UNCHANGED vars \/ Environment
BY DEF OneSlot, Next

(* What a start's steps after its INSERT, and a status change's steps      *)
(* after its UPDATE, leave alone.                                          *)
LEMMA StaysWithRow ==
    ASSUME TypeInv, NEW r \in Requests, NEW pc \in PCs,
           Goto(r, pc) \/ Begin(r, pc) \/ Advance(r, pc) \/ UNCHANGED req
    PROVE  /\ req'[r].pc \in {req[r].pc, pc}
           /\ req'[r].user = req[r].user /\ req'[r].sid = req[r].sid
BY GotoEffect, AdvanceEffect DEF TypeInv, TypeOK

(* A step that leaves the table alone and moves within those sets.         *)
LEMMA OwnsKept ==
    ASSUME NEW r \in Requests, Owns(r), UNCHANGED tableVars,
           req'[r].user = req[r].user, req'[r].sid = req[r].sid,
           req'[r].pc \in OwnsRow \cup {"update", "connected"} =>
               req[r].pc \in OwnsRow \cup {"update", "connected"},
           req'[r].pc \in Closing => req[r].pc \in Closing,
           req'[r].pc = "reconnected" => ~NoActive(req[r].user)
    PROVE  Owns(r)'
BY DEF Owns, Active, Closed, NoActive, tableVars

LEMMA OwnHandler ==
    ASSUME TypeInv, AtMostOneActive, OwnInv, NEW r \in Requests, Handler(r)
    PROVE  Owns(r)'
<1> USE DEF PCs, StartSteps, StatusSteps, Replies, OwnsRow, Closing, Revoking, At
<1>0. Owns(r) /\ req \in [Requests -> Request]
  BY DEF OwnInv, TypeInv, TypeOK
<1>1. CASE FetchUser(r) \/ CheckToken(r)
  BY <1>0, <1>1, GotoEffect DEF FetchUser, CheckToken, Owns
<1>2. CASE GetActiveSession(r)
  <2>1. UNCHANGED tableVars
    BY <1>2 DEF GetActiveSession
  <2>2. CASE ActiveSessions(req[r].user) # {} /\ Goto(r, "reconnected")
    <3>1. ~NoActive(req[r].user)
      BY <2>2 DEF ActiveSessions, NoActive, Active
    <3> QED
      BY <1>0, <2>1, <2>2, <3>1, GotoEffect, OwnsKept
  <2>3. CASE Goto(r, "insert") \/ Goto(r, "failed")
    BY <1>0, <2>3, GotoEffect DEF Owns
  <2> QED
    BY <1>2, <2>2, <2>3 DEF GetActiveSession
<1>3. CASE CreateSession(r)
  <2>1. CASE Goto(r, "failed")
    BY <1>0, <2>1, GotoEffect DEF Owns
  <2>2. CASE \E s \in Sessions :
               /\ InsertRow(r, s)
               /\ req' = [req EXCEPT ![r] = [@ EXCEPT !.pc = "setUp", !.sid = s, !.step = 1]]
    <3>1. PICK s \in Sessions :
             /\ InsertRow(r, s)
             /\ req' = [req EXCEPT ![r] = [@ EXCEPT !.pc = "setUp", !.sid = s, !.step = 1]]
      BY <2>2
    <3>2. Active(s)' /\ owner'[s] = req[r].user
      BY <3>1 DEF InsertRow, Active, TypeInv, TypeOK
    <3>3. req'[r].pc = "setUp" /\ req'[r].sid = s /\ req'[r].user = req[r].user
      BY <1>0, <3>1, InsertEffect
    <3> QED
      BY <3>2, <3>3 DEF Owns, Active
  <2> QED
    BY <1>3, <2>1, <2>2 DEF CreateSession
<1>4. CASE SetUpTopologyFor(r)
  <2>1. UNCHANGED tableVars /\ (Advance(r, "notify") \/ Goto(r, "deleteRow"))
    BY <1>4 DEF SetUpTopologyFor
  <2> QED
    BY <1>0, <1>4, <2>1, StaysWithRow, OwnsKept DEF SetUpTopologyFor
<1>5. CASE NotifyNewConnection(r)
  <2>1. UNCHANGED tableVars /\ (UNCHANGED req \/ Goto(r, "connected") \/ Begin(r, "rollback"))
    BY <1>5 DEF NotifyNewConnection
  <2> QED
    BY <1>0, <1>5, <2>1, StaysWithRow, OwnsKept DEF NotifyNewConnection
<1>6. CASE RollBackTopology(r)
  <2>1. UNCHANGED tableVars /\ Advance(r, "deleteRow")
    BY <1>6 DEF RollBackTopology, DeleteResource
  <2> QED
    BY <1>0, <1>6, <2>1, StaysWithRow, OwnsKept DEF RollBackTopology
<1>7. CASE DeleteSession(r)
  BY <1>0, <1>7, GotoEffect DEF DeleteSession, Owns
<1>8. CASE GetSessionByID(r)
  <2>1. CASE \E pc \in {"notFound", "conflict", "failed"} : Goto(r, pc)
    BY <1>0, <2>1, GotoEffect DEF Owns
  <2>2. CASE /\ status[req[r].sid] = "IN_PROGRESS"
             /\ req' = [req EXCEPT ![r] = [@ EXCEPT !.pc = "update",
                           !.user = owner[req[r].sid], !.tok = tokenOf[req[r].sid]]]
    <3>1. UNCHANGED tableVars /\ req[r].sid \in Sessions
      BY <1>8 DEF GetSessionByID, TypeInv, LocalsTyped, UsesSession
    <3>2. owner[req[r].sid] \in Users /\ tokenOf[req[r].sid] \in Tokens
      BY <2>2, <3>1 DEF TypeInv, RowsTyped
    <3>3. PICK u \in Users, t \in Tokens :
             /\ u = owner[req[r].sid]
             /\ req' = [req EXCEPT ![r] = [@ EXCEPT !.pc = "update", !.user = u, !.tok = t]]
      BY <2>2, <3>2
    <3>4. req'[r].pc = "update" /\ req'[r].sid = req[r].sid /\ req'[r].user = u
      BY <1>0, <3>3, UpdateEffect
    <3> QED
      BY <2>2, <3>1, <3>3, <3>4 DEF Owns, Active, tableVars
  <2> QED
    BY <1>8, <2>1, <2>2 DEF GetSessionByID
<1>9. CASE UpdateSessionStatus(r)
  <2>1. CASE Goto(r, "notFound") \/ Goto(r, "failed")
    BY <1>0, <2>1, GotoEffect DEF Owns
  <2>2. CASE /\ SetRow(r)
             /\ Begin(r, IF req[r].kind = "completed" THEN "revokeAuth" ELSE "tearDown")
    <3> DEFINE s == req[r].sid
    <3>1. s \in Sessions /\ Active(s) /\ owner[s] = req[r].user /\ UNCHANGED owner
      BY <1>0, <1>9 DEF UpdateSessionStatus, Owns
    <3>2. /\ status'[s] \in Stored \ {"IN_PROGRESS"}
          /\ \A t \in Sessions \ {s} : status'[t] = status[t]
      BY <2>2, <3>1 DEF SetRow, Stored, TypeInv, TypeOK
    <3>3. NoActive(req[r].user)'
      <4> SUFFICES ASSUME NEW t \in Sessions, Active(t)' PROVE owner'[t] # req'[r].user
        BY <3>1, <2>2, GotoEffect DEF NoActive, TypeInv, TypeOK
      <4>1. t # s /\ Active(t)
        BY <3>1, <3>2 DEF Active
      <4>2. owner[t] # owner[s]
        BY <3>1, <4>1 DEF AtMostOneActive
      <4>3. req'[r].user = req[r].user
        BY <1>0, <2>2, StaysWithRow
      <4> QED
        BY <3>1, <4>2, <4>3
    <3>4. /\ req'[r].pc \in {"revokeAuth", "tearDown"} /\ req'[r].sid = s
          /\ req'[r].user = req[r].user
      BY <1>0, <2>2, GotoEffect
    <3> QED
      BY <3>1, <3>2, <3>3, <3>4 DEF Owns, Closed, Active, NoActive
  <2> QED
    BY <1>9, <2>1, <2>2 DEF UpdateSessionStatus
<1>10. CASE RevokeAuthorization(r)
  <2>1. UNCHANGED tableVars /\ (Goto(r, "revokeToken") \/ Goto(r, "failed"))
    BY <1>10 DEF RevokeAuthorization
  <2> QED
    BY <1>0, <1>10, <2>1, StaysWithRow, OwnsKept DEF RevokeAuthorization
<1>11. CASE RevokeToken(r)
  <2>1. UNCHANGED tableVars /\ (Begin(r, "tearDown") \/ Goto(r, "failed"))
    BY <1>11 DEF RevokeToken
  <2> QED
    BY <1>0, <1>11, <2>1, StaysWithRow, OwnsKept DEF RevokeToken
<1>12. CASE TearDownTopology(r)
  <2>1. UNCHANGED tableVars /\ Advance(r, "updated")
    BY <1>12 DEF TearDownTopology, DeleteResource
  <2> QED
    BY <1>0, <1>12, <2>1, StaysWithRow, OwnsKept DEF TearDownTopology
<1>13. CASE Reply(r)
  BY <1>0, <1>13 DEF Reply, Idle, Owns
<1> QED
  BY <1>1, <1>2, <1>3, <1>4, <1>5, <1>6, <1>7, <1>8, <1>9, <1>10, <1>11, <1>12, <1>13
  DEF Handler, StartHandler, StatusHandler

LEMMA OwnKept ==
    ASSUME OneSlot
    PROVE  TypeInv /\ AtMostOneActive /\ OwnInv /\ [Next]_vars => OwnInv'
<1> SUFFICES ASSUME TypeInv, AtMostOneActive, OwnInv, [Next]_vars, NEW q \in Requests
             PROVE  Owns(q)'
  BY DEF OwnInv
<1>1. CASE Handler(q)
  BY <1>1, OwnHandler
<1>2. CASE ~Handler(q)
  <2>1. UNCHANGED tableVars
    BY <1>2, OneSlotStep, EnvironmentEffect DEF vars
  <2>2. req'[q] = req[q] \/ req'[q].pc \in {"fetchUser", "getSession", "failed", "idle"}
    BY <1>2, OneSlotStep, EnvironmentEffect DEF vars
  <2>3. CASE req'[q] = req[q]
    BY <2>1, <2>3, OwnsKept DEF OwnInv, Owns
  <2>4. CASE req'[q].pc \in {"fetchUser", "getSession", "failed", "idle"}
    BY <2>4 DEF Owns, OwnsRow, Closing, Revoking
  <2> QED
    BY <2>2, <2>3, <2>4
<1> QED
  BY <1>1, <1>2

LEMMA OwnInvariant ==
    ASSUME OneSlot
    PROVE  Spec => []OwnInv
<1>1. Init => OwnInv
  BY DEF Init, OwnInv, Owns, Idle, OwnsRow, Closing, Revoking
<1>2. Spec => []AtMostOneActive
  BY SerialAtMostOneActive DEF OneSlot
<1>3. TypeInv /\ AtMostOneActive /\ OwnInv /\ [Next]_vars => OwnInv'
  BY OwnKept
<1> QED
  BY <1>1, <1>2, <1>3, TypeInvariant, PTL DEF Spec

(* Without overlap no handler writes over the status that another one set: *)
(* what GetSessionByID read is still so when UpdateSessionStatus writes,   *)
(* and a rollback deletes a session that is still active.                  *)
THEOREM SerialClosedIsFinal ==
    ASSUME OneSlot
    PROVE  Spec => ClosedIsFinal
<1>1. ASSUME TypeInv, OwnInv, [Next]_vars, NEW s \in Sessions,
             status[s] \in Stored, ~Active(s)
      PROVE  status'[s] = status[s]
  <2>1. ASSUME NEW r \in Requests, CreateSession(r) PROVE status'[s] = status[s]
    BY <1>1, <2>1 DEF CreateSession, InsertRow, tableVars, Stored, TypeInv, TypeOK
  <2>2. ASSUME NEW r \in Requests, DeleteSession(r) PROVE status'[s] = status[s]
    <3>1. req[r].sid # s
      BY <1>1, <2>2 DEF DeleteSession, At, OwnInv, Owns, OwnsRow
    <3> QED
      BY <1>1, <2>2, <3>1 DEF DeleteSession, TypeInv, TypeOK
  <2>3. ASSUME NEW r \in Requests, UpdateSessionStatus(r) PROVE status'[s] = status[s]
    <3>1. req[r].sid # s
      BY <1>1, <2>3 DEF UpdateSessionStatus, At, OwnInv, Owns
    <3> QED
      BY <1>1, <2>3, <3>1 DEF UpdateSessionStatus, SetRow, TypeInv, TypeOK
  <2>4. ASSUME NEW r \in Requests, Handler(r) PROVE status'[s] = status[s]
    BY <2>1, <2>2, <2>3, <2>4, TableEffect DEF NotifyNewConnection, tableVars
  <2> QED
    BY <1>1, <2>4, EnvironmentEffect DEF Next, vars, tableVars
<1>2. TypeInv /\ OwnInv /\ [Next]_vars =>
        [\A s \in Sessions : status[s] \in Stored /\ ~Active(s) => status'[s] = status[s]]_vars
  BY <1>1
<1>3. Spec => []OwnInv
  BY OwnInvariant
<1> QED
  BY <1>2, <1>3, TypeInvariant, PTL DEF Spec, ClosedIsFinal

-----------------------------------------------------------------------------
(* Requests that do not overlap: the broker's resources.                   *)

(* What the first calls of a set-up have created, in SetUpOrder.           *)
Made(i) == {SetUpOrder[j] : j \in 1..(i - 1)}

LEMMA MadeFacts ==
    /\ Made(1) = {}
    /\ \A i \in 1..3 : Made(i + 1) = Made(i) \cup {SetUpOrder[i]}
    /\ Made(4) \cup {SetUpOrder[4]} = ClientTopology
<1>1. Made(1) = {}
  BY DEF Made
<1>2. ASSUME NEW i \in 1..3 PROVE Made(i + 1) = Made(i) \cup {SetUpOrder[i]}
  <2>1. 1..((i + 1) - 1) = (1..(i - 1)) \cup {i}
    OBVIOUS
  <2> QED
    BY <2>1 DEF Made
<1>3. Made(4) = {SetUpOrder[1], SetUpOrder[2], SetUpOrder[3]}
  <2>1. 1..(4 - 1) = {1, 2, 3}
    OBVIOUS
  <2> QED
    BY <2>1 DEF Made
<1>4. Made(4) \cup {SetUpOrder[4]} = ClientTopology
  BY <1>3 DEF SetUpOrder, ClientTopology
<1> QED
  BY <1>1, <1>2, <1>4

(* Only the two tear-downs take resources away, from their own user.       *)
LEMMA BrokerShrinks ==
    ASSUME TypeInv, [Next]_vars, NEW u \in Users
    PROVE  \/ broker[u] \subseteq broker'[u]
           \/ \E r \in Requests : (RollBackTopology(r) \/ TearDownTopology(r)) /\ req[r].user = u
<1> USE DEF TypeInv, TypeOK
<1>1. CASE UNCHANGED broker
  BY <1>1
<1>2. ASSUME NEW r \in Requests, SetUpTopologyFor(r) PROVE broker[u] \subseteq broker'[u]
  BY <1>2 DEF SetUpTopologyFor
<1>3. ASSUME NEW r \in Requests, RollBackTopology(r) \/ TearDownTopology(r), req[r].user # u
      PROVE  broker[u] \subseteq broker'[u]
  BY <1>3 DEF RollBackTopology, TearDownTopology, DeleteResource
<1>4. ASSUME NEW s \in Sessions, DispatcherJoins(s) PROVE broker[u] \subseteq broker'[u]
  BY <1>4 DEF DispatcherJoins
<1>5. CASE Environment
  BY <1>1, <1>4, <1>5
  DEF Environment, StartRequest, StatusRequest, Authorize, Crash, Panic
<1>6. ASSUME NEW r \in Requests, Handler(r)
      PROVE  \/ UNCHANGED broker
             \/ SetUpTopologyFor(r) \/ RollBackTopology(r) \/ TearDownTopology(r)
  BY <1>6
  DEF Handler, StartHandler, StatusHandler, FetchUser, CheckToken, GetActiveSession,
      CreateSession, NotifyNewConnection, DeleteSession, GetSessionByID,
      UpdateSessionStatus, RevokeAuthorization, RevokeToken, Reply
<1> QED
  BY <1>1, <1>2, <1>3, <1>5, <1>6 DEF Next, vars

(* A set-up has created what it has passed; an active session has its      *)
(* topology or is being opened.                                            *)
Prepared(r) ==
    /\ At(r, "setUp") => Made(req[r].step) \subseteq broker[req[r].user]
    /\ At(r, "notify") => TopologyComplete(req[r].user)

TopologyInv ==
    Only(StartFaults) =>
        /\ \A s \in Sessions : Active(s) => TopologyComplete(owner[s]) \/ Opening(s)
        /\ \A r \in Requests : Prepared(r)

LEMMA PreparedHandler ==
    ASSUME OneSlot, TypeInv, NEW r \in Requests, Prepared(r), Handler(r), ~Fault("db")
    PROVE  Prepared(r)'
<1> USE DEF PCs, StartSteps, StatusSteps, Replies, At
<1>0. /\ req \in [Requests -> Request] /\ broker \in [Users -> SUBSET Resources]
      /\ req[r].step \in 1..4
  BY StepSets DEF TypeInv, TypeOK, Steps
<1>1. CASE CreateSession(r)
  <2>1. CASE Goto(r, "failed")
    BY <1>0, <2>1, GotoEffect DEF Prepared
  <2>2. CASE \E s \in Sessions :
               req' = [req EXCEPT ![r] = [@ EXCEPT !.pc = "setUp", !.sid = s, !.step = 1]]
    <3>1. req'[r].pc = "setUp" /\ req'[r].step = 1
      BY <1>0, <2>2, StepSets
    <3> QED
      BY <3>1, MadeFacts DEF Prepared
  <2> QED
    BY <1>1, <2>1, <2>2 DEF CreateSession
<1>2. CASE SetUpTopologyFor(r)
  <2>1. CASE Goto(r, "deleteRow")
    BY <1>0, <2>1, GotoEffect DEF Prepared
  <2>2. CASE /\ Advance(r, "notify")
             /\ broker' = [broker EXCEPT ![req[r].user] = @ \cup {SetUpOrder[req[r].step]}]
    <3>1. /\ req[r].user \in Users /\ req'[r].user = req[r].user
          /\ Made(req[r].step) \subseteq broker[req[r].user]
      BY <1>0, <1>2, <2>2, AdvanceEffect
      DEF SetUpTopologyFor, Prepared, TypeInv, LocalsTyped, UsesUser
    <3>2. broker'[req[r].user] = broker[req[r].user] \cup {SetUpOrder[req[r].step]}
      BY <1>0, <2>2, <3>1
    <3>3. CASE /\ req[r].step < 4 /\ req'[r].pc = "setUp"
               /\ req'[r].step = req[r].step + 1
      <4>1. Made(req'[r].step) = Made(req[r].step) \cup {SetUpOrder[req[r].step]}
        BY <1>0, <3>3, MadeFacts
      <4> QED
        BY <3>1, <3>2, <3>3, <4>1 DEF Prepared
    <3>4. CASE req[r].step = 4 /\ req'[r].pc = "notify"
      <4>1. ClientTopology \subseteq broker'[req[r].user]
        BY <3>1, <3>2, <3>4, MadeFacts
      <4> QED
        BY <3>1, <3>4, <4>1 DEF Prepared, TopologyComplete
    <3> QED
      BY <1>2, <2>2, <3>3, <3>4, StepEffect DEF SetUpTopologyFor
  <2>3. Requests = {r}
    BY DEF OneSlot
  <2> QED
    BY <1>2, <2>1, <2>2, <2>3 DEF SetUpTopologyFor
<1>3. CASE NotifyNewConnection(r)
  <2>1. UNCHANGED req \/ req'[r].pc \in {"connected", "rollback"}
    BY <1>0, <1>3, GotoEffect DEF NotifyNewConnection
  <2> QED
    BY <1>3, <2>1 DEF NotifyNewConnection, Prepared, TopologyComplete
<1>4. req'[r].pc \in {"setUp", "notify"} =>
         CreateSession(r) \/ SetUpTopologyFor(r) \/ NotifyNewConnection(r)
  <2>1. req'[r].pc \in {"setUp", "notify"} =>
           req[r].pc \in StartSteps \cap OwnsRow \/ CreateSession(r)
    BY HandlerEffect DEF OwnsRow
  <2>2. RollBackTopology(r) \/ DeleteSession(r) => req'[r].pc \notin {"setUp", "notify"}
    BY <1>0, GotoEffect, AdvanceEffect DEF RollBackTopology, DeleteResource, DeleteSession
  <2> QED
    BY <2>1, <2>2
    DEF Handler, StartHandler, StatusHandler, OwnsRow, FetchUser, CheckToken,
        GetActiveSession, GetSessionByID, UpdateSessionStatus, RevokeAuthorization,
        RevokeToken, TearDownTopology, Reply
<1> QED
  BY <1>1, <1>2, <1>3, <1>4 DEF Prepared

LEMMA TopologyKept ==
    ASSUME OneSlot
    PROVE  TypeInv /\ AtMostOneActive /\ OwnInv /\ TopologyInv /\ [Next]_vars => TopologyInv'
<1> SUFFICES ASSUME TypeInv, AtMostOneActive, OwnInv, TopologyInv, [Next]_vars,
                    Only(StartFaults)'
             PROVE  /\ \A s \in Sessions :
                          Active(s)' => TopologyComplete(owner[s])' \/ Opening(s)'
                    /\ \A r \in Requests : Prepared(r)'
  BY DEF TopologyInv
<1>1. ~Fault("db") /\ ~Fault("crash")
  BY FaultShows DEF StartFaults
<1>2. /\ \A s \in Sessions : Active(s) => TopologyComplete(owner[s]) \/ Opening(s)
      /\ \A r \in Requests : Prepared(r)
  BY OnlyBefore DEF TopologyInv
<1>3. ASSUME NEW q \in Requests PROVE Prepared(q)'
  <2>1. CASE Handler(q)
    BY <1>1, <1>2, <2>1, PreparedHandler
  <2>2. CASE ~Handler(q) /\ req'[q] = req[q]
    <3>1. CASE At(q, "setUp") \/ At(q, "notify")
      <4>1. req[q].user \in Users
        BY <3>1 DEF At, TypeInv, LocalsTyped, UsesUser, StartSteps
      <4>2. \A r \in Requests : ~(RollBackTopology(r) \/ TearDownTopology(r))
        BY <3>1 DEF OneSlot, RollBackTopology, TearDownTopology, At
      <4>3. broker[req[q].user] \subseteq broker'[req[q].user]
        BY <4>1, <4>2, BrokerShrinks
      <4> QED
        BY <1>2, <2>2, <4>3 DEF Prepared, At, TopologyComplete
    <3>2. CASE ~(At(q, "setUp") \/ At(q, "notify"))
      BY <2>2, <3>2 DEF Prepared, At
    <3> QED
      BY <3>1, <3>2
  <2>3. CASE req'[q].pc \in {"idle", "failed", "fetchUser", "getSession"}
    BY <2>3 DEF Prepared, At
  <2> QED
    BY <2>1, <2>2, <2>3, OthersStep
<1>4. ASSUME NEW s \in Sessions, Active(s)'
      PROVE  TopologyComplete(owner[s])' \/ Opening(s)'
  <2>1. CASE Active(s) /\ owner'[s] = owner[s] /\ Opening(s)
    <3>1. PICK q \in Requests : req[q].pc \in OwnsRow /\ req[q].sid = s
      BY <2>1 DEF Opening
    <3>2. CASE NotifyNewConnection(q)
      <4>1. TopologyComplete(req[q].user) /\ owner[s] = req[q].user
        BY <1>2, <3>1, <3>2 DEF NotifyNewConnection, Prepared, OwnInv, Owns, At
      <4> QED
        BY <2>1, <3>2, <4>1 DEF NotifyNewConnection, TopologyComplete
    <3>3. CASE ~NotifyNewConnection(q)
      BY <1>4, <3>1, <3>3, RowLeft DEF Opening, Active
    <3> QED
      BY <3>2, <3>3
  <2>2. CASE Active(s) /\ owner'[s] = owner[s] /\ ~Opening(s)
    <3>1. owner[s] \in Users /\ TopologyComplete(owner[s])
      BY <1>2, <2>2 DEF TypeInv, RowsTyped, Active
    <3>2. ASSUME NEW r \in Requests, RollBackTopology(r) PROVE req[r].user # owner[s]
      BY <2>2, <3>2
      DEF RollBackTopology, At, OwnInv, Owns, OwnsRow, AtMostOneActive, Opening
    <3>3. ASSUME NEW r \in Requests, TearDownTopology(r) PROVE req[r].user # owner[s]
      BY <2>2, <3>3 DEF TearDownTopology, At, OwnInv, Owns, Closing, NoActive
    <3>4. broker[owner[s]] \subseteq broker'[owner[s]]
      BY <3>1, <3>2, <3>3, BrokerShrinks
    <3> QED
      BY <2>2, <3>1, <3>4 DEF TopologyComplete
  <2>3. CASE \E r \in Requests : req'[r].pc = "setUp" /\ req'[r].sid = s
    BY <2>3 DEF Opening, OwnsRow
  <2> QED
    BY <1>1, <1>4, <2>1, <2>2, <2>3, ActiveSince
<1> QED
  BY <1>3, <1>4

LEMMA TopologyInvariant ==
    ASSUME OneSlot
    PROVE  Spec => []TopologyInv
<1>1. Init => TopologyInv
  BY DEF Init, TopologyInv, Prepared, Active, At, Idle
<1>2. Spec => []AtMostOneActive
  BY SerialAtMostOneActive DEF OneSlot
<1>3. Spec => []OwnInv
  BY OwnInvariant
<1>4. TypeInv /\ AtMostOneActive /\ OwnInv /\ TopologyInv /\ [Next]_vars => TopologyInv'
  BY TopologyKept
<1> QED
  BY <1>1, <1>2, <1>3, <1>4, TypeInvariant, PTL DEF Spec

(* Without overlap an active session has its broker user, queues and       *)
(* permissions, or its start is still at work: a tear-down never reaches   *)
(* what a session that is open needs.                                      *)
THEOREM SerialActiveHasTopology ==
    ASSUME OneSlot
    PROVE  Spec => []ActiveHasTopology
<1>1. TopologyInv => ActiveHasTopology
  BY DEF TopologyInv, ActiveHasTopology, StartFaults
<1>2. Spec => []TopologyInv
  BY TopologyInvariant
<1> QED
  BY <1>1, <1>2, PTL

-----------------------------------------------------------------------------
(* Requests that do not overlap: what is left in the broker.               *)

(* What the first calls of a tear-down have deleted, in TearDownOrder.     *)
Gone(i) == UNION {Removed(TearDownOrder[j]) : j \in 1..(i - 1)}

LEMMA GoneFacts ==
    /\ Gone(1) = {}
    /\ \A i \in 1..3 : Gone(i + 1) = Gone(i) \cup Removed(TearDownOrder[i])
    /\ ClientTopology \subseteq Gone(4) \cup Removed(TearDownOrder[4])
<1>1. Gone(1) = {}
  BY DEF Gone
<1>2. ASSUME NEW i \in 1..3 PROVE Gone(i + 1) = Gone(i) \cup Removed(TearDownOrder[i])
  <2>1. 1..((i + 1) - 1) = (1..(i - 1)) \cup {i}
    OBVIOUS
  <2> QED
    BY <2>1 DEF Gone
<1>3. Gone(4) = Removed(TearDownOrder[1]) \cup Removed(TearDownOrder[2])
                   \cup Removed(TearDownOrder[3])
  <2>1. Gone(2) = Gone(1) \cup Removed(TearDownOrder[1])
    BY <1>2
  <2>2. Gone(3) = Gone(2) \cup Removed(TearDownOrder[2])
    BY <1>2
  <2>3. Gone(4) = Gone(3) \cup Removed(TearDownOrder[3])
    BY <1>2
  <2> QED
    BY <1>1, <2>1, <2>2, <2>3
<1>4. ClientTopology \subseteq Gone(4) \cup Removed(TearDownOrder[4])
  BY <1>3 DEF TearDownOrder, ClientTopology, Removed
<1> QED
  BY <1>1, <1>2, <1>4

Clear(u) == broker[u] \cap ClientTopology = {}

(* A rollback or tear-down has deleted what it has passed; when a start is *)
(* about to delete its row nothing is left.                                *)
Cleared(r) ==
    /\ req[r].pc \in {"rollback", "tearDown"} =>
          broker[req[r].user] \cap ClientTopology \cap Gone(req[r].step) = {}
    /\ At(r, "deleteRow") => Clear(req[r].user)

(* A request is about to clear what user u has.                            *)
Clearing(u) == \E r \in Requests : req[r].pc \in Closing \ {"updated"} /\ req[r].user = u

LeftoverInv ==
    Only({"publish"}) =>
        /\ \A u \in Users : NoActive(u) /\ ~Clearing(u) => Clear(u)
        /\ \A r \in Requests : Cleared(r)

(* Only a set-up adds to what this service creates.                        *)
LEMMA BrokerGrows ==
    ASSUME TypeInv, [Next]_vars, NEW u \in Users
    PROVE  \/ broker'[u] \cap ClientTopology \subseteq broker[u]
           \/ \E r \in Requests : SetUpTopologyFor(r) /\ req[r].user = u
<1> USE DEF TypeInv, TypeOK
<1>1. CASE UNCHANGED broker
  BY <1>1
<1>2. ASSUME NEW r \in Requests, SetUpTopologyFor(r), req[r].user # u
      PROVE  broker'[u] \cap ClientTopology \subseteq broker[u]
  BY <1>2 DEF SetUpTopologyFor
<1>3. ASSUME NEW r \in Requests, RollBackTopology(r) \/ TearDownTopology(r)
      PROVE  broker'[u] \cap ClientTopology \subseteq broker[u]
  BY <1>3 DEF RollBackTopology, TearDownTopology, DeleteResource
<1>4. ASSUME NEW s \in Sessions, DispatcherJoins(s)
      PROVE  broker'[u] \cap ClientTopology \subseteq broker[u]
  BY <1>4 DEF DispatcherJoins, ClientTopology
<1>5. CASE Environment
  BY <1>1, <1>4, <1>5
  DEF Environment, StartRequest, StatusRequest, Authorize, Crash, Panic
<1>6. ASSUME NEW r \in Requests, Handler(r)
      PROVE  \/ UNCHANGED broker
             \/ SetUpTopologyFor(r) \/ RollBackTopology(r) \/ TearDownTopology(r)
  BY <1>6
  DEF Handler, StartHandler, StatusHandler, FetchUser, CheckToken, GetActiveSession,
      CreateSession, NotifyNewConnection, DeleteSession, GetSessionByID,
      UpdateSessionStatus, RevokeAuthorization, RevokeToken, Reply
<1> QED
  BY <1>1, <1>2, <1>3, <1>5, <1>6 DEF Next, vars

(* One deletion that does not fail.                                        *)
LEMMA DeleteResourceClears ==
    ASSUME TypeInv, NEW r \in Requests, NEW after \in PCs, DeleteResource(r, after),
           ~Fault("broker"), req[r].user \in Users,
           broker[req[r].user] \cap ClientTopology \cap Gone(req[r].step) = {}
    PROVE  /\ req'[r].user = req[r].user
           /\ \/ /\ req'[r].pc = req[r].pc
                 /\ broker'[req[r].user] \cap ClientTopology \cap Gone(req'[r].step) = {}
              \/ req'[r].pc = after /\ Clear(req[r].user)'
<1>1. /\ req[r].step \in 1..4 /\ req'[r].user = req[r].user
      /\ \/ req[r].step < 4 /\ req'[r].pc = req[r].pc /\ req'[r].step = req[r].step + 1
         \/ req[r].step = 4 /\ req'[r].pc = after
  BY StepSets, AdvanceEffect, StepEffect DEF DeleteResource, TypeInv, TypeOK, Steps
<1> DEFINE gone == Gone(req[r].step) \cup Removed(TearDownOrder[req[r].step])
<1>2. broker'[req[r].user] = broker[req[r].user] \ Removed(TearDownOrder[req[r].step])
  BY DEF DeleteResource, TypeInv, TypeOK
<1>3. broker'[req[r].user] \cap ClientTopology \cap gone = {}
  BY <1>2
<1>4. CASE /\ req[r].step < 4 /\ req'[r].pc = req[r].pc
           /\ req'[r].step = req[r].step + 1
  <2>1. Gone(req'[r].step) = gone
    BY <1>1, <1>4, GoneFacts
  <2> QED
    BY <1>1, <1>3, <1>4, <2>1
<1>5. CASE req[r].step = 4 /\ req'[r].pc = after
  <2>1. ClientTopology \subseteq gone
    BY <1>5, GoneFacts
  <2> QED
    BY <1>1, <1>3, <1>5, <2>1 DEF Clear
<1> QED
  BY <1>1, <1>4, <1>5

LEMMA ClearedHandler ==
    ASSUME TypeInv, NEW r \in Requests, Prepared(r), Cleared(r), Handler(r),
           Only({"publish"})'
    PROVE  Cleared(r)'
<1> USE DEF PCs, StartSteps, StatusSteps, Replies, At
<1>0. /\ req \in [Requests -> Request] /\ req[r].step \in 1..4
      /\ ~Fault("broker") /\ ~Fault("db")
  BY StepSets, FaultShows DEF TypeInv, TypeOK, Steps
<1>1. CASE SetUpTopologyFor(r)
  <2>1. CASE Advance(r, "notify")
    BY <1>0, <1>1, <2>1, AdvanceEffect DEF SetUpTopologyFor, Cleared
  <2>2. CASE ~CanCreate(SetUpOrder[req[r].step], req[r].user)
    <3>1. SetUpOrder[req[r].step] = "permissions" /\ "user" \notin broker[req[r].user]
      BY <2>2 DEF CanCreate
    <3>2. req[r].step = 4
      BY <1>0, <3>1 DEF SetUpOrder
    <3>3. SetUpOrder[1] \in Made(req[r].step)
      BY <3>2 DEF Made
    <3> QED
      BY <1>1, <3>1, <3>3 DEF SetUpTopologyFor, Prepared, SetUpOrder
  <2> QED
    BY <1>0, <1>1, <2>1, <2>2 DEF SetUpTopologyFor
<1>2. CASE NotifyNewConnection(r)
  <2>1. CASE UNCHANGED req \/ Goto(r, "connected")
    BY <1>0, <1>2, <2>1, GotoEffect DEF NotifyNewConnection, Cleared
  <2>2. CASE Begin(r, "rollback")
    BY <1>0, <2>2, GotoEffect, StepEffect, GoneFacts DEF Cleared
  <2> QED
    BY <1>2, <2>1, <2>2 DEF NotifyNewConnection
<1>3. CASE RollBackTopology(r)
  <2>1. req[r].user \in Users
    BY <1>3 DEF RollBackTopology, TypeInv, LocalsTyped, UsesUser
  <2> QED
    BY <1>0, <1>3, <2>1, DeleteResourceClears DEF RollBackTopology, Cleared, Clear
<1>4. CASE TearDownTopology(r)
  <2>1. req[r].user \in Users
    BY <1>4 DEF TearDownTopology, TypeInv, LocalsTyped, UsesUser
  <2> QED
    BY <1>0, <1>4, <2>1, DeleteResourceClears DEF TearDownTopology, Cleared, Clear
<1>5. CASE UpdateSessionStatus(r)
  <2>1. CASE Begin(r, "revokeAuth") \/ Goto(r, "notFound")
    BY <1>0, <2>1, GotoEffect DEF Cleared
  <2>2. CASE Begin(r, "tearDown")
    BY <1>0, <2>2, GotoEffect, StepEffect, GoneFacts DEF Cleared
  <2> QED
    BY <1>0, <1>5, <2>1, <2>2 DEF UpdateSessionStatus
<1>6. CASE RevokeToken(r)
  <2>1. CASE Begin(r, "tearDown")
    BY <1>0, <2>1, GotoEffect, StepEffect, GoneFacts DEF Cleared
  <2>2. CASE Goto(r, "failed")
    BY <1>0, <2>2, GotoEffect DEF Cleared
  <2> QED
    BY <1>6, <2>1, <2>2 DEF RevokeToken
<1>7. CASE CreateSession(r)
  <2>1. CASE Goto(r, "failed")
    BY <1>0, <2>1, GotoEffect DEF Cleared
  <2>2. CASE \E s \in Sessions :
               req' = [req EXCEPT ![r] = [@ EXCEPT !.pc = "setUp", !.sid = s, !.step = 1]]
    BY <1>0, <2>2, InsertEffect DEF Cleared
  <2> QED
    BY <1>7, <2>1, <2>2 DEF CreateSession
<1>8. CASE FetchUser(r) \/ CheckToken(r) \/ GetActiveSession(r)
  BY <1>0, <1>8, GotoEffect DEF FetchUser, CheckToken, GetActiveSession, Cleared
<1>9. CASE DeleteSession(r) \/ RevokeAuthorization(r)
  BY <1>0, <1>9, GotoEffect DEF DeleteSession, RevokeAuthorization, Cleared
<1>10. CASE GetSessionByID(r)
  <2>1. req'[r].pc \notin OwnsRow
    BY <1>10, HandlerEffect DEF GetSessionByID, CreateSession, OwnsRow
  <2>2. req'[r].pc # "tearDown"
    BY <1>10, ReadEffect DEF AfterRead
  <2> QED
    BY <2>1, <2>2 DEF OwnsRow, Cleared
<1>11. CASE Reply(r)
  BY <1>0, <1>11 DEF Reply, Idle, Cleared
<1> QED
  BY <1>1, <1>2, <1>3, <1>4, <1>5, <1>6, <1>7, <1>8, <1>9, <1>10, <1>11
  DEF Handler, StartHandler, StatusHandler

(* An active session ends by a rollback's DELETE or a status change's      *)
(* UPDATE.                                                                 *)
LEMMA ActiveEnds ==
    ASSUME TypeInv, [Next]_vars, NEW s \in Sessions, Active(s), ~Active(s)' \/ owner'[s] # owner[s]
    PROVE  \E r \in Requests :
              /\ req[r].sid = s
              /\ DeleteSession(r) \/ (UpdateSessionStatus(r) /\ SetRow(r))
<1>1. CASE UNCHANGED <<status, owner, tokenOf, creator, confirmed>>
  BY <1>1 DEF Active
<1>2. ASSUME NEW r \in Requests, CreateSession(r) \/ NotifyNewConnection(r) PROVE FALSE
  BY <1>2
  DEF CreateSession, InsertRow, NotifyNewConnection, tableVars, Active, TypeInv, TypeOK
<1>3. ASSUME NEW r \in Requests, DeleteSession(r) PROVE req[r].sid = s
  BY <1>3 DEF DeleteSession, Active, TypeInv, TypeOK
<1>4. ASSUME NEW r \in Requests, UpdateSessionStatus(r) PROVE req[r].sid = s /\ SetRow(r)
  BY <1>4 DEF UpdateSessionStatus, SetRow, Active, TypeInv, TypeOK
<1>5. CASE UNCHANGED vars \/ Environment
  BY <1>1, <1>5, EnvironmentEffect DEF vars, tableVars
<1>6. ASSUME NEW r \in Requests, Handler(r)
      PROVE  \/ UNCHANGED <<status, owner, tokenOf, creator, confirmed>>
             \/ CreateSession(r)
             \/ NotifyNewConnection(r) \/ DeleteSession(r) \/ UpdateSessionStatus(r)
  BY <1>6, TableEffect
<1> QED
  BY <1>1, <1>2, <1>3, <1>4, <1>5, <1>6 DEF Next

(* A request that is clearing goes on, unless something fails, until it    *)
(* has torn down what its user has.                                        *)
LEMMA ClearingGoesOn ==
    ASSUME TypeInv, [Next]_vars, Only({"publish"})', NEW q \in Requests, Cleared(q),
           req[q].pc \in Closing \ {"updated"}
    PROVE  /\ req'[q].user = req[q].user
           /\ req'[q].pc \in Closing \ {"updated"} \/ Clear(req[q].user)'
<1> USE DEF PCs, StartSteps, StatusSteps, Replies, Closing, Revoking, At
<1>0. /\ req \in [Requests -> Request]
      /\ ~Fault("users") /\ ~Fault("crash") /\ ~Fault("broker")
  BY FaultShows DEF TypeInv, TypeOK
<1>1. CASE ~Handler(q)
  BY <1>0, <1>1, OthersStep
<1>2. CASE RevokeAuthorization(q) \/ RevokeToken(q)
  BY <1>0, <1>2, GotoEffect DEF RevokeAuthorization, RevokeToken
<1>3. CASE TearDownTopology(q)
  <2>1. req[q].user \in Users
    BY <1>3 DEF TearDownTopology, TypeInv, LocalsTyped, UsesUser
  <2> QED
    BY <1>0, <1>3, <2>1, DeleteResourceClears DEF TearDownTopology, Cleared
<1> QED
  BY <1>1, <1>2, <1>3
  DEF Handler, StartHandler, StatusHandler, FetchUser, CheckToken, GetActiveSession,
      CreateSession, SetUpTopologyFor, NotifyNewConnection, DeleteSession,
      RollBackTopology, GetSessionByID, UpdateSessionStatus, Reply

LEMMA LeftoverKept ==
    ASSUME OneSlot
    PROVE  TypeInv /\ OwnInv /\ TopologyInv /\ LeftoverInv /\ [Next]_vars => LeftoverInv'
<1> SUFFICES ASSUME TypeInv, OwnInv, TopologyInv, LeftoverInv, [Next]_vars,
                    Only({"publish"})'
             PROVE  /\ \A u \in Users : NoActive(u)' /\ ~Clearing(u)' => Clear(u)'
                    /\ \A r \in Requests : Cleared(r)'
  BY DEF LeftoverInv
<1>1. ~Fault("db") /\ ~Fault("crash") /\ ~Fault("broker")
  BY FaultShows
<1>2. /\ \A u \in Users : NoActive(u) /\ ~Clearing(u) => Clear(u)
      /\ \A r \in Requests : Cleared(r) /\ Prepared(r)
  <2>1. Only({"publish"})
    BY OnlyBefore
  <2>2. Only(StartFaults)
    BY <2>1 DEF Only, StartFaults
  <2> QED
    BY <2>1, <2>2 DEF LeftoverInv, TopologyInv
<1>3. ASSUME NEW q \in Requests PROVE Cleared(q)'
  <2>1. CASE Handler(q)
    BY <1>2, <2>1, ClearedHandler
  <2>2. CASE ~Handler(q) /\ req'[q] = req[q]
    <3>1. CASE req[q].pc \in {"rollback", "tearDown", "deleteRow"}
      <4>1. req[q].user \in Users
        BY <3>1 DEF TypeInv, LocalsTyped, UsesUser, StartSteps, StatusSteps
      <4>2. \A r \in Requests : ~SetUpTopologyFor(r)
        BY <3>1 DEF OneSlot, SetUpTopologyFor, At
      <4>3. broker'[req[q].user] \cap ClientTopology \subseteq broker[req[q].user]
        BY <4>1, <4>2, BrokerGrows
      <4> QED
        BY <1>2, <2>2, <4>3 DEF Cleared, Clear, At
    <3>2. CASE req[q].pc \notin {"rollback", "tearDown", "deleteRow"}
      BY <2>2, <3>2 DEF Cleared, At
    <3> QED
      BY <3>1, <3>2
  <2>3. CASE req'[q].pc \in {"idle", "failed", "fetchUser", "getSession"}
    BY <2>3 DEF Cleared, At
  <2> QED
    BY <2>1, <2>2, <2>3, OthersStep
<1>4. ASSUME NEW u \in Users, NoActive(u)', ~Clearing(u)' PROVE Clear(u)'
  <2>1. CASE NoActive(u) /\ ~Clearing(u)
    <3>1. \A r \in Requests : SetUpTopologyFor(r) => req[r].user # u
      BY <2>1 DEF SetUpTopologyFor, At, OwnInv, Owns, OwnsRow, NoActive
    <3>2. broker'[u] \cap ClientTopology \subseteq broker[u]
      BY <3>1, BrokerGrows
    <3> QED
      BY <1>2, <2>1, <3>2 DEF Clear
  <2>2. CASE Clearing(u)
    <3>1. PICK q \in Requests : req[q].pc \in Closing \ {"updated"} /\ req[q].user = u
      BY <2>2 DEF Clearing
    <3> QED
      BY <1>2, <1>4, <3>1, ClearingGoesOn DEF Clearing
  <2>3. CASE ~NoActive(u)
    <3>1. PICK s \in Sessions : Active(s) /\ owner[s] = u
      BY <2>3 DEF NoActive
    <3>2. ~Active(s)' \/ owner'[s] # owner[s]
      BY <1>4, <3>1 DEF NoActive
    <3>3. PICK r \in Requests :
             /\ req[r].sid = s
             /\ DeleteSession(r) \/ (UpdateSessionStatus(r) /\ SetRow(r))
      BY <3>1, <3>2, ActiveEnds
    <3>4. owner[s] = req[r].user
      BY <3>3 DEF DeleteSession, UpdateSessionStatus, At, OwnInv, Owns, OwnsRow
    <3>5. CASE DeleteSession(r)
      BY <1>2, <3>1, <3>4, <3>5 DEF DeleteSession, Cleared, Clear, At
    <3>6. CASE UpdateSessionStatus(r)
      <4>1. /\ status[s] \in Stored
            /\ Begin(r, IF req[r].kind = "completed" THEN "revokeAuth" ELSE "tearDown")
        BY <1>1, <3>1, <3>3, <3>6 DEF UpdateSessionStatus, Active, Stored
      <4>2. req'[r].pc \in {"revokeAuth", "tearDown"} /\ req'[r].user = u
        BY <3>1, <3>4, <4>1, GotoEffect DEF TypeInv, TypeOK, PCs, StatusSteps
      <4> QED
        BY <1>4, <4>2 DEF Clearing, Closing, Revoking
    <3> QED
      BY <3>3, <3>5, <3>6
  <2> QED
    BY <2>1, <2>2, <2>3
<1> QED
  BY <1>3, <1>4

(* Without overlap, and if at most publishing fails, nothing this service  *)
(* created for a user outlasts the user's sessions: every start that fails *)
(* and every status change takes back all of it.                           *)
THEOREM SerialNoLeftovers ==
    ASSUME OneSlot
    PROVE  Spec => []NoLeftovers
<1>1. Init => LeftoverInv
  BY DEF Init, LeftoverInv, Cleared, Clear, At, Idle
<1>2. Spec => []OwnInv
  BY OwnInvariant
<1>3. Spec => []TopologyInv
  BY TopologyInvariant
<1>4. TypeInv /\ OwnInv /\ TopologyInv /\ LeftoverInv /\ [Next]_vars => LeftoverInv'
  BY LeftoverKept
<1>5. LeftoverInv => NoLeftovers
  BY DEF LeftoverInv, NoLeftovers, NoActive, Clearing, Clear, AllIdle, At, Closing, Revoking
<1> QED
  BY <1>1, <1>2, <1>3, <1>4, <1>5, TypeInvariant, PTL DEF Spec

-----------------------------------------------------------------------------
(* Requests that do not overlap: credentials.                              *)

HeldInv(holder) ==
    /\ \A s \in Sessions : status[s] # "UNUSED" => holder[tokenOf[s]] = owner[s]
    /\ \A r \in Requests : req[r].pc \in Looking => holder[req[r].tok] = req[r].user

LEMMA HeldKept ==
    ASSUME NEW holder
    PROVE  /\ TypeInv /\ HeldInv(holder) /\ PresentOwnTokens(holder)' /\ [Next]_vars
           => HeldInv(holder)'
<1> SUFFICES ASSUME TypeInv, HeldInv(holder), PresentOwnTokens(holder)', [Next]_vars
             PROVE  HeldInv(holder)'
  OBVIOUS
<1>1. ASSUME NEW q \in Requests, req'[q].pc \in Looking
      PROVE  holder[req'[q].tok] = req'[q].user
  <2>1. CASE Handler(q)
    <3>1. req[q].pc \in Looking
      BY <1>1, <2>1, HandlerOrder
    <3>2. ~GetSessionByID(q) /\ ~Reply(q)
      BY <3>1 DEF GetSessionByID, Reply, Replies, At, Looking
    <3>3. req'[q].user = req[q].user /\ req'[q].tok = req[q].tok
      BY <2>1, <3>2, HandlerEffect
    <3> QED
      BY <3>1, <3>3 DEF HeldInv
  <2>2. CASE req'[q] = req[q]
    BY <1>1, <2>2 DEF HeldInv
  <2>3. CASE req'[q].pc = "fetchUser"
    BY <2>3 DEF PresentOwnTokens, At
  <2> QED
    BY <1>1, <2>1, <2>2, <2>3, OthersStep DEF Looking
<1>2. ASSUME NEW s \in Sessions, status'[s] # "UNUSED"
      PROVE  holder[tokenOf'[s]] = owner'[s]
  <2>1. CASE UNCHANGED <<status, owner, tokenOf>>
    BY <1>2, <2>1 DEF HeldInv
  <2>2. ASSUME NEW r \in Requests, NEW t \in Sessions, At(r, "insert"), InsertRow(r, t)
        PROVE  holder[tokenOf'[s]] = owner'[s]
    <3>1. holder[req[r].tok] = req[r].user
      BY <2>2 DEF HeldInv, At, Looking
    <3> QED
      BY <1>2, <2>2, <3>1 DEF InsertRow, HeldInv, TypeInv, TypeOK
  <2>3. ASSUME NEW r \in Requests, DeleteSession(r) \/ UpdateSessionStatus(r)
        PROVE  holder[tokenOf'[s]] = owner'[s]
    <3>1. UNCHANGED <<owner, tokenOf>> /\ status[s] # "UNUSED"
      <4>1. status[req[r].sid] # "UNUSED"
        BY <2>3
        DEF DeleteSession, UpdateSessionStatus, At, TypeInv, LocalsTyped, UsesSession,
            OwnsRow, StatusSteps
      <4>2. status'[s] = status[s] \/ s = req[r].sid
        BY <2>3 DEF DeleteSession, UpdateSessionStatus, SetRow, TypeInv, TypeOK
      <4> QED
        BY <1>2, <2>3, <4>1, <4>2 DEF DeleteSession, UpdateSessionStatus
    <3> QED
      BY <3>1 DEF HeldInv
  <2>4. ASSUME NEW r \in Requests, Handler(r)
        PROVE  \/ UNCHANGED <<status, owner, tokenOf>>
               \/ \E t \in Sessions : At(r, "insert") /\ InsertRow(r, t)
               \/ DeleteSession(r) \/ UpdateSessionStatus(r)
    BY <2>4, TableEffect DEF CreateSession, NotifyNewConnection, tableVars
  <2> QED
    BY <2>1, <2>2, <2>3, <2>4, EnvironmentEffect DEF Next, vars, tableVars
<1> QED
  BY <1>1, <1>2 DEF HeldInv

(* A client that was let through may still connect; an active session's    *)
(* client may connect again.                                               *)
Admitted(r) ==
    /\ req[r].pc \in {"checkToken", "queryActive", "insert"} => req[r].user \in authorized
    /\ req[r].pc \in {"queryActive", "insert"} => req[r].tok \notin revoked

AdmittedInv ==
    Only(AllFaultKinds \ {"verdict"}) =>
        /\ \A s \in Sessions : Active(s) => tokenOf[s] \notin revoked /\ owner[s] \in authorized
        /\ \A r \in Requests : Admitted(r)

(* Only revocations take authorizations and tokens away.                   *)
LEMMA UsersEffect ==
    ASSUME [Next]_vars
    PROVE  /\ \/ authorized \subseteq authorized'
              \/ \E r \in Requests :
                    RevokeAuthorization(r) /\ authorized \ {req[r].user} \subseteq authorized'
           /\ \/ revoked' = revoked
              \/ \E r \in Requests :
                    RevokeToken(r) /\ revoked' \subseteq revoked \cup {req[r].tok}
<1>1. CASE UNCHANGED usersVars
  BY <1>1 DEF usersVars
<1>2. CASE Environment
  BY <1>1, <1>2
  DEF Environment, StartRequest, StatusRequest, DispatcherJoins, Authorize, Crash, Panic
<1>3. ASSUME NEW r \in Requests, RevokeAuthorization(r)
      PROVE  revoked' = revoked /\ authorized \ {req[r].user} \subseteq authorized'
  BY <1>3 DEF RevokeAuthorization
<1>4. ASSUME NEW r \in Requests, RevokeToken(r)
      PROVE  authorized' = authorized /\ revoked' \subseteq revoked \cup {req[r].tok}
  BY <1>4 DEF RevokeToken
<1>5. ASSUME NEW r \in Requests, Handler(r)
      PROVE  UNCHANGED usersVars \/ RevokeAuthorization(r) \/ RevokeToken(r)
  BY <1>5
  DEF Handler, StartHandler, StatusHandler, FetchUser, CheckToken, GetActiveSession,
      CreateSession, SetUpTopologyFor, NotifyNewConnection, RollBackTopology,
      DeleteSession, DeleteResource, GetSessionByID, UpdateSessionStatus,
      TearDownTopology, Reply
<1> QED
  BY <1>1, <1>2, <1>3, <1>4, <1>5 DEF Next, vars

LEMMA AdmittedHandler ==
    ASSUME TypeInv, NEW r \in Requests, Admitted(r), Handler(r), ~Fault("verdict")
    PROVE  Admitted(r)'
<1> USE DEF PCs, StartSteps, Replies, At
<1>0. req \in [Requests -> Request]
  BY DEF TypeInv, TypeOK
<1>1. CASE FetchUser(r)
  BY <1>0, <1>1, GotoEffect DEF FetchUser, Admitted, usersVars
<1>2. CASE CheckToken(r)
  BY <1>0, <1>2, GotoEffect DEF CheckToken, Admitted, usersVars
<1>3. CASE GetActiveSession(r)
  BY <1>0, <1>3, GotoEffect DEF GetActiveSession, Admitted, usersVars
<1>4. req'[r].pc \in {"checkToken", "queryActive", "insert"} =>
         FetchUser(r) \/ CheckToken(r) \/ GetActiveSession(r)
  <2>1. CreateSession(r) => req'[r].pc \in {"setUp", "failed"}
    <3>1. CASE Goto(r, "failed")
      BY <1>0, <3>1, GotoEffect
    <3>2. CASE \E s \in Sessions :
                 req' = [req EXCEPT ![r] = [@ EXCEPT !.pc = "setUp", !.sid = s, !.step = 1]]
      BY <1>0, <3>2, InsertEffect
    <3> QED
      BY <3>1, <3>2 DEF CreateSession
  <2>2. req'[r].pc \in {"checkToken", "queryActive", "insert"} => req[r].pc \in Looking
    BY HandlerOrder DEF Looking
  <2> QED
    BY <2>1, <2>2
    DEF Looking, Handler, StartHandler, StatusHandler, SetUpTopologyFor,
        NotifyNewConnection, RollBackTopology, DeleteSession, GetSessionByID,
        UpdateSessionStatus, RevokeAuthorization, RevokeToken, TearDownTopology, Reply
<1> QED
  BY <1>1, <1>2, <1>3, <1>4 DEF Admitted

LEMMA AdmittedKept ==
    ASSUME OneSlot, NEW holder
    PROVE  /\ TypeInv /\ TokenInv /\ KindInv /\ OwnInv /\ HeldInv(holder)
           /\ AdmittedInv /\ [Next]_vars
           => AdmittedInv'
<1> SUFFICES ASSUME TypeInv, TokenInv, KindInv, OwnInv, HeldInv(holder), AdmittedInv,
                    [Next]_vars, Only(AllFaultKinds \ {"verdict"})'
             PROVE  /\ \A s \in Sessions :
                          Active(s)' => tokenOf'[s] \notin revoked' /\ owner'[s] \in authorized'
                    /\ \A r \in Requests : Admitted(r)'
  BY DEF AdmittedInv
<1>1. ~Fault("verdict")
  BY FaultShows
<1>2. /\ \A s \in Sessions : Active(s) => tokenOf[s] \notin revoked /\ owner[s] \in authorized
      /\ \A r \in Requests : Admitted(r)
  BY OnlyBefore DEF AdmittedInv
<1>3. ASSUME NEW q \in Requests PROVE Admitted(q)'
  <2>1. CASE Handler(q)
    BY <1>1, <1>2, <2>1, AdmittedHandler
  <2>2. CASE ~Handler(q) /\ req'[q] = req[q]
    <3>1. \A r \in Requests : ~RevokeAuthorization(r) /\ ~RevokeToken(r)
      BY <2>2 DEF OneSlot, Handler, StatusHandler
    <3>2. authorized \subseteq authorized' /\ revoked' = revoked
      BY <3>1, UsersEffect
    <3> QED
      BY <1>2, <2>2, <3>2 DEF Admitted
  <2>3. CASE req'[q].pc \in {"idle", "failed", "fetchUser", "getSession"}
    BY <2>3 DEF Admitted
  <2> QED
    BY <2>1, <2>2, <2>3, OthersStep
<1>4. ASSUME NEW s \in Sessions, Active(s)'
      PROVE  tokenOf'[s] \notin revoked' /\ owner'[s] \in authorized'
  <2>1. CASE Active(s) /\ owner'[s] = owner[s]
    <3>1. tokenOf'[s] = tokenOf[s] /\ holder[tokenOf[s]] = owner[s]
      BY <2>1, TokenKept DEF HeldInv, Active, vars, tableVars
    <3>2. ASSUME NEW r \in Requests, RevokeAuthorization(r) \/ RevokeToken(r)
          PROVE  req[r].user # owner[s] /\ holder[tokenOf[req[r].sid]] = req[r].user
      <4>1. /\ req[r].sid \in Sessions /\ Closed(req[r].sid)
            /\ owner[req[r].sid] = req[r].user /\ NoActive(req[r].user)
        BY <3>2 DEF RevokeAuthorization, RevokeToken, At, OwnInv, Owns, Closing, Revoking
      <4>2. status[req[r].sid] # "UNUSED"
        BY <4>1 DEF Closed, Stored
      <4> QED
        BY <2>1, <4>1, <4>2 DEF NoActive, HeldInv
    <3>3. owner[s] \in authorized'
      BY <1>2, <2>1, <3>2, UsersEffect
    <3>4. ASSUME NEW r \in Requests, RevokeToken(r) PROVE tokenOf[s] # req[r].tok
      <4>1. req[r].tok = tokenOf[req[r].sid]
        BY <3>4 DEF RevokeToken, At, KindInv, TokenInv, AfterRead, Revoking
      <4> QED
        BY <3>1, <3>2, <3>4, <4>1
    <3>5. tokenOf[s] \notin revoked'
      BY <1>2, <2>1, <3>4, UsersEffect
    <3> QED
      BY <2>1, <3>1, <3>3, <3>5
  <2>2. ASSUME NEW r \in Requests, CreateSession(r), InsertRow(r, s)
        PROVE  tokenOf'[s] \notin revoked' /\ owner'[s] \in authorized'
    <3>1. tokenOf'[s] = req[r].tok /\ owner'[s] = req[r].user /\ UNCHANGED usersVars
      BY <2>2 DEF InsertRow, CreateSession, TypeInv, TypeOK
    <3> QED
      BY <1>2, <2>2, <3>1 DEF CreateSession, At, Admitted, usersVars
  <2> QED
    BY <1>4, <2>1, <2>2, ActiveSince
<1> QED
  BY <1>3, <1>4

(* Without overlap, and if the users-service answers every invalid token   *)
(* with an error, an active session's user is authorized and its token not *)
(* revoked: what validateConnection was told still holds at the INSERT,    *)
(* and revocations concern closed sessions.  With tokens that several      *)
(* users present it would not hold: closing the session of one would       *)
(* revoke the token of the other.                                          *)
THEOREM SerialActiveMayConnect ==
    ASSUME OneSlot, NEW holder \in [Tokens -> Users]
    PROVE  Spec /\ []PresentOwnTokens(holder) => []ActiveMayConnect
<1> DEFINE Held == HeldInv(holder)
           Own == PresentOwnTokens(holder)
<1>1. Init => Held /\ AdmittedInv
  BY DEF Init, HeldInv, AdmittedInv, Admitted, Active, Idle, Looking
<1>2. TypeInv /\ Held /\ Own' /\ [Next]_vars => Held'
  BY HeldKept
<1>3. TypeInv /\ TokenInv /\ KindInv /\ OwnInv /\ Held /\ AdmittedInv /\ [Next]_vars => AdmittedInv'
  BY AdmittedKept
<1>4. AdmittedInv => ActiveMayConnect
  BY DEF AdmittedInv, ActiveMayConnect
<1>5. Spec => []OwnInv
  BY OwnInvariant
<1> HIDE DEF Held, Own
<1>6. Spec /\ []Own => []ActiveMayConnect
  BY <1>1, <1>2, <1>3, <1>4, <1>5, TypeInvariant, TokenInvariant, KindInvariant, PTL DEF Spec
<1> QED
  BY <1>6 DEF Own

-----------------------------------------------------------------------------
(* Careful users among others, with requests that overlap.                 *)

(* In the initial state nothing is in progress, and every step keeps to    *)
(* one request at a time for each careful user.                            *)
LEMMA OneAtATimeInvariant == IsolationSpec => []OneAtATime
<1>1. Init => OneAtATime
  BY DEF Init, OneAtATime, WorksFor, Idle, At
<1>2. OneAtATime /\ [IsolationNext]_vars => OneAtATime'
  BY DEF IsolationNext, OneAtATime, WorksFor, At, vars, tableVars
<1> QED
  BY <1>1, <1>2, PTL DEF IsolationSpec

LEMMA IsolationImpliesSpec == IsolationSpec => Spec
<1>1. [IsolationNext]_vars => [Next]_vars
  BY DEF IsolationNext
<1> QED
  BY <1>1, PTL DEF IsolationSpec, Spec

(* What GetActiveSession found for a careful user is so until the INSERT.  *)
CheckedAlone ==
    \A r \in Requests :
        At(r, "insert") /\ req[r].user \in Careful => NoActive(req[r].user)

(* A slot that moves to its INSERT has found no active session.            *)
LEMMA FoundNone ==
    ASSUME TypeInv, [Next]_vars, NEW q \in Requests,
           req'[q] # req[q], At(q, "insert")'
    PROVE  /\ GetActiveSession(q) /\ UNCHANGED tableVars
           /\ req'[q].user = req[q].user /\ NoActive(req[q].user)
<1>1. ~UNCHANGED vars /\ ~Environment
  BY EnvironmentEffect DEF vars, At
<1>2. Handler(q)
  BY <1>1, HandlerEffect DEF Next
<1>3. GetActiveSession(q)
  BY <1>2, HandlerEffect DEF At
<1>4. req'[q].user = req[q].user
  BY <1>2, <1>3, HandlerEffect DEF GetActiveSession, GetSessionByID, Reply, At, Replies
<1>5. ActiveSessions(req[q].user) = {}
  BY <1>3, GotoEffect DEF GetActiveSession, TypeInv, TypeOK, PCs, StartSteps, Replies, At
<1>6. UNCHANGED tableVars
  BY <1>3 DEF GetActiveSession
<1> QED
  BY <1>3, <1>4, <1>5, <1>6 DEF ActiveSessions, Active, NoActive

(* The INSERT of a slot for a user.                                        *)
LEMMA InsertWorksFor ==
    ASSUME TypeInv, KindInv, NEW r \in Requests, NEW s \in Sessions,
           CreateSession(r), InsertRow(r, s)
    PROVE  /\ At(r, "insert") /\ WorksFor(r, req[r].user)
           /\ status[s] = "UNUSED" /\ owner'[s] = req[r].user
           /\ \A t \in Sessions \ {s} : status'[t] = status[t] /\ owner'[t] = owner[t]
<1>1. At(r, "insert")
  BY DEF CreateSession
<1>2. WorksFor(r, req[r].user)
  BY <1>1 DEF KindInv, WorksFor, At, StartSteps
<1> QED
  BY <1>1, <1>2 DEF InsertRow, TypeInv, TypeOK

LEMMA CarefulActiveKept ==
    /\ TypeInv /\ KindInv /\ OneAtATime /\ CarefulOneActive /\ CheckedAlone /\ [Next]_vars
    => CarefulOneActive' /\ CheckedAlone'
<1> SUFFICES ASSUME TypeInv, KindInv, OneAtATime, CarefulOneActive, CheckedAlone, [Next]_vars
             PROVE  CarefulOneActive' /\ CheckedAlone'
  OBVIOUS
<1>1. ASSUME NEW s \in Sessions, NEW t \in Sessions, Active(s)', Active(t)',
             owner'[s] = owner'[t], owner'[s] \in Careful, s # t
      PROVE  FALSE
  <2>1. CASE Active(s) /\ owner'[s] = owner[s] /\ Active(t) /\ owner'[t] = owner[t]
    BY <1>1, <2>1 DEF CarefulOneActive, IsCareful
  <2>2. ASSUME NEW a \in Sessions, NEW b \in Sessions, a # b,
               owner'[a] = owner'[b], owner'[a] \in Careful, Active(b)',
               NEW r \in Requests, CreateSession(r), InsertRow(r, a)
        PROVE  FALSE
    <3>1. At(r, "insert") /\ owner'[a] = req[r].user /\ Active(b) /\ owner'[b] = owner[b]
      BY <2>2, InsertWorksFor DEF Active
    <3> QED
      BY <2>2, <3>1 DEF CheckedAlone, NoActive
  <2> QED
    BY <1>1, <2>1, <2>2, ActiveSince
<1>2. ASSUME NEW q \in Requests, At(q, "insert")', req'[q].user \in Careful
      PROVE  NoActive(req[q].user)' /\ req'[q].user = req[q].user
  <2>1. CASE req'[q] # req[q]
    BY <1>2, <2>1, FoundNone DEF NoActive, Active, tableVars
  <2>2. CASE req'[q] = req[q]
    <3> SUFFICES ASSUME NEW s \in Sessions, Active(s)', owner'[s] = req[q].user PROVE FALSE
      BY <2>2 DEF NoActive
    <3>1. At(q, "insert") /\ WorksFor(q, req[q].user) /\ NoActive(req[q].user)
      BY <1>2, <2>2 DEF CheckedAlone, KindInv, WorksFor, At, StartSteps
    <3>2. PICK r \in Requests : CreateSession(r) /\ InsertRow(r, s)
      BY <3>1, ActiveSince DEF NoActive
    <3>3. WorksFor(r, req[q].user)
      BY <3>2, InsertWorksFor
    <3>4. r = q
      BY <1>2, <2>2, <3>1, <3>3 DEF OneAtATime
    <3>5. GetActiveSession(q)
      BY <1>2, <3>2, <3>4, HandlerEffect DEF Handler, StartHandler, At
    <3> QED
      BY <3>1, <3>5 DEF GetActiveSession, At
  <2> QED
    BY <2>1, <2>2
<1>3. CarefulOneActive'
  BY <1>1 DEF CarefulOneActive, IsCareful
<1>4. CheckedAlone'
  <2> SUFFICES ASSUME NEW q \in Requests, At(q, "insert")', req'[q].user \in Careful
               PROVE  NoActive(req[q].user)'
    BY DEF CheckedAlone
  <2> QED
    BY <1>2
<1> QED
  BY <1>3, <1>4

(* A careful user has at most one active session, for any number of other  *)
(* users with any number of requests, whatever fails: what is done for     *)
(* others between its query and its INSERT does not matter.                *)
THEOREM IsolatedOneActive == IsolationSpec => []CarefulOneActive
<1>1. Init => CarefulOneActive /\ CheckedAlone
  BY DEF Init, CarefulOneActive, CheckedAlone, Active, Idle, At
<1> QED
  BY <1>1, CarefulActiveKept, OneAtATimeInvariant, IsolationImpliesSpec, TypeInvariant,
     KindInvariant, PTL DEF IsolationSpec, Spec

(* A careful user's row that a handler may still write or delete is active *)
(* and that handler's alone.                                               *)
Holding == OwnsRow \cup {"update"}
HoldsRow ==
    \A r \in Requests :
        req[r].pc \in Holding /\ IsCareful(req[r].sid) =>
            Active(req[r].sid) /\ WorksFor(r, owner[req[r].sid])

(* What a handler's own step does to the row it holds.                     *)
LEMMA HoldingHandler ==
    ASSUME TypeInv, KindInv, HoldsRow, NEW q \in Requests, Handler(q),
           req'[q].pc \in Holding, owner'[req'[q].sid] \in Careful
    PROVE  Active(req[q].sid)' /\ WorksFor(q, owner[req[q].sid])'
<1> USE DEF PCs, StartSteps, StatusSteps, Replies, OwnsRow, Holding, At
<1>0. req \in [Requests -> Request]
  BY DEF TypeInv, TypeOK
<1>1. CASE CreateSession(q)
  <2>1. ~Goto(q, "failed")
    BY <1>0, GotoEffect
  <2>2. PICK s \in Sessions :
           /\ InsertRow(q, s)
           /\ req' = [req EXCEPT ![q] = [@ EXCEPT !.pc = "setUp", !.sid = s, !.step = 1]]
    BY <1>1, <2>1 DEF CreateSession
  <2>3. /\ req'[q].pc = "setUp" /\ req'[q].sid = s
        /\ req'[q].user = req[q].user /\ req'[q].kind = req[q].kind
    BY <1>0, <2>2, InsertEffect
  <2>4. status'[s] = "IN_PROGRESS" /\ owner'[s] = req[q].user
    BY <2>2 DEF InsertRow, TypeInv, TypeOK
  <2>5. req[q].kind = "start"
    BY <1>1 DEF CreateSession, KindInv
  <2> QED
    BY <2>3, <2>4, <2>5 DEF Active, WorksFor
<1>2. CASE GetSessionByID(q)
  <2>1. req'[q].pc = "update"
    BY <1>2, HandlerEffect DEF GetSessionByID, CreateSession
  <2>2. req'[q].sid = req[q].sid /\ UNCHANGED <<status, owner>>
    BY <1>2, <2>1, ReadEffect DEF AfterRead, GetSessionByID, tableVars
  <2>3. status[req[q].sid] = "IN_PROGRESS"
    <3>1. \A pc \in {"notFound", "conflict", "failed"} : ~Goto(q, pc)
      BY <1>0, <2>1, GotoEffect
    <3> QED
      BY <1>2, <3>1 DEF GetSessionByID
  <2>4. req'[q].kind # "start"
    BY <1>2, <2>1, HandlerOrder, KindKept DEF KindInv, GetSessionByID
  <2> QED
    BY <2>1, <2>2, <2>3, <2>4 DEF Active, WorksFor
<1>3. CASE ~CreateSession(q) /\ ~GetSessionByID(q)
  <2>1. req[q].pc \in OwnsRow /\ req'[q].pc \in OwnsRow
    <3>1. req[q].pc = "update" => UpdateSessionStatus(q)
      BY DEF Handler, StartHandler, StatusHandler, FetchUser, CheckToken, GetActiveSession,
         CreateSession, SetUpTopologyFor, NotifyNewConnection, RollBackTopology,
         DeleteSession, GetSessionByID, RevokeAuthorization, RevokeToken,
         TearDownTopology, Reply
    <3>2. req[q].pc \notin {"update", "getSession"} => req'[q].pc # "update"
      <4>1. req[q].pc \notin AfterRead => req'[q].pc # "update"
        BY <1>3, HandlerEffect DEF AfterRead
      <4>2. CASE RevokeAuthorization(q) \/ RevokeToken(q)
        BY <1>0, <4>2, GotoEffect DEF RevokeAuthorization, RevokeToken
      <4>3. CASE TearDownTopology(q)
        BY <1>0, <4>3, AdvanceEffect DEF TearDownTopology, DeleteResource
      <4>4. CASE Reply(q)
        BY <1>0, <4>4 DEF Reply, Idle
      <4>5. req[q].pc \in AfterRead \ {"update"} =>
               RevokeAuthorization(q) \/ RevokeToken(q) \/ TearDownTopology(q) \/ Reply(q)
        BY DEF AfterRead, Handler, StartHandler, StatusHandler, FetchUser, CheckToken,
           GetActiveSession, CreateSession, SetUpTopologyFor, NotifyNewConnection,
           RollBackTopology, DeleteSession, GetSessionByID, UpdateSessionStatus
      <4> QED
        BY <4>1, <4>2, <4>3, <4>4, <4>5
    <3>3. UpdateSessionStatus(q) => req'[q].pc \notin Holding
      BY <1>0, GotoEffect DEF UpdateSessionStatus
    <3>4. req'[q].pc \in OwnsRow => req[q].pc \in OwnsRow
      BY <1>3, HandlerEffect
    <3>5. req[q].pc = "getSession" => GetSessionByID(q)
      BY DEF Handler, StartHandler, StatusHandler, FetchUser, CheckToken, GetActiveSession,
         CreateSession, SetUpTopologyFor, NotifyNewConnection, RollBackTopology,
         DeleteSession, UpdateSessionStatus, RevokeAuthorization, RevokeToken,
         TearDownTopology, Reply
    <3> QED
      BY <1>3, <3>1, <3>2, <3>3, <3>4, <3>5
  <2>2. ~DeleteSession(q) /\ ~Reply(q)
    BY <1>0, <2>1, GotoEffect DEF DeleteSession, Reply
  <2>3. UNCHANGED <<status, owner>>
    BY <1>3, <2>1, <2>2, TableEffect DEF NotifyNewConnection, UpdateSessionStatus, tableVars
  <2>4. req'[q].sid = req[q].sid /\ req'[q].user = req[q].user /\ req'[q].kind = req[q].kind
    BY <1>3, <2>2, HandlerEffect
  <2>5. Active(req[q].sid) /\ WorksFor(q, owner[req[q].sid])
    BY <2>1, <2>3, <2>4 DEF HoldsRow, IsCareful
  <2> QED
    BY <2>1, <2>3, <2>4, <2>5 DEF Active, WorksFor
<1> QED
  BY <1>1, <1>2, <1>3

(* Only the slot that holds a careful user's row changes its status.       *)
LEMMA OnlyHolderWrites ==
    ASSUME TypeInv, [Next]_vars, NEW s \in Sessions, status[s] # "UNUSED",
           status'[s] # status[s]
    PROVE  \E r \in Requests :
              /\ req[r].pc \in Holding /\ req[r].sid = s
              /\ DeleteSession(r) \/ UpdateSessionStatus(r)
<1>1. ~UNCHANGED vars /\ ~Environment
  BY EnvironmentEffect DEF vars, tableVars
<1>2. PICK r \in Requests : Handler(r)
  BY <1>1 DEF Next
<1>3. ~CreateSession(r)
  BY DEF CreateSession, InsertRow, tableVars, TypeInv, TypeOK
<1>4. DeleteSession(r) \/ UpdateSessionStatus(r)
  BY <1>2, <1>3, TableEffect DEF NotifyNewConnection, tableVars
<1>5. req[r].sid = s
  BY <1>4 DEF DeleteSession, UpdateSessionStatus, SetRow, TypeInv, TypeOK
<1> QED
  BY <1>4, <1>5 DEF DeleteSession, UpdateSessionStatus, Holding, OwnsRow, At

LEMMA HoldsKept == TypeInv /\ KindInv /\ OneAtATime /\ HoldsRow /\ [Next]_vars => HoldsRow'
<1> SUFFICES ASSUME TypeInv, KindInv, OneAtATime, HoldsRow, [Next]_vars, NEW q \in Requests,
                    req'[q].pc \in Holding, owner'[req'[q].sid] \in Careful
             PROVE  Active(req[q].sid)' /\ WorksFor(q, owner[req[q].sid])'
  BY DEF HoldsRow, IsCareful
<1>1. CASE Handler(q)
  BY <1>1, HoldingHandler
<1>2. CASE ~Handler(q)
  <2>1. req'[q] = req[q]
    BY <1>2, OthersStep DEF Holding, OwnsRow
  <2> DEFINE s == req[q].sid
  <2>2. s \in Sessions /\ status[s] # "UNUSED"
    BY <2>1, OwnsRowUsesSession, AfterReadUsesSession DEF Holding, AfterRead
  <2>3. owner'[s] = owner[s]
    BY <2>2, TokenKept DEF vars, tableVars
  <2>4. Active(s) /\ WorksFor(q, owner[s])
    BY <2>1, <2>3 DEF HoldsRow, IsCareful
  <2>5. status'[s] = status[s]
    <3> SUFFICES ASSUME status'[s] # status[s] PROVE FALSE
      OBVIOUS
    <3>1. PICK r \in Requests : /\ req[r].pc \in Holding /\ req[r].sid = s
                                /\ DeleteSession(r) \/ UpdateSessionStatus(r)
      BY <2>2, OnlyHolderWrites
    <3>2. WorksFor(r, owner[s])
      BY <2>1, <2>3, <3>1 DEF HoldsRow, IsCareful
    <3>3. r = q
      BY <2>1, <2>3, <2>4, <3>2 DEF OneAtATime
    <3> QED
      BY <1>2, <3>1, <3>3 DEF Handler, StartHandler, StatusHandler
  <2> QED
    BY <2>1, <2>3, <2>4, <2>5 DEF Active, WorksFor, At
<1> QED
  BY <1>1, <1>2

(* A careful user's closed session keeps its status, for any number of     *)
(* other users with any number of requests, whatever fails: what the       *)
(* status handlers check is what they write over.                          *)
THEOREM IsolatedClosedIsFinal == IsolationSpec => CarefulClosedIsFinal
<1>1. Init => HoldsRow
  BY DEF Init, HoldsRow, Holding, OwnsRow, Idle
<1>2. ASSUME TypeInv, HoldsRow, [Next]_vars, NEW s \in Sessions,
             status[s] \in Stored, ~Active(s), IsCareful(s)
      PROVE  status'[s] = status[s]
  BY <1>2, OnlyHolderWrites DEF HoldsRow, Stored
<1>3. TypeInv /\ HoldsRow /\ [Next]_vars =>
        [\A s \in Sessions :
            status[s] \in Stored /\ ~Active(s) /\ IsCareful(s) => status'[s] = status[s]]_vars
  BY <1>2
<1> QED
  BY <1>1, <1>3, HoldsKept, OneAtATimeInvariant, IsolationImpliesSpec, TypeInvariant,
     KindInvariant, PTL DEF IsolationSpec, Spec, CarefulClosedIsFinal

-----------------------------------------------------------------------------
(* Careful users among others: credentials.                                *)

LEMMA OwnTokensInvariant == IsolationSpec => []PresentOwnTokens(Holder)
<1>1. Init => PresentOwnTokens(Holder)
  BY DEF Init, PresentOwnTokens, Idle, At
<1>2. PresentOwnTokens(Holder) /\ [IsolationNext]_vars => PresentOwnTokens(Holder)'
  BY DEF IsolationNext, PresentOwnTokens, At, vars
<1> QED
  BY <1>1, <1>2, PTL DEF IsolationSpec

(* A handler that has read a row works for the row's user.                 *)
RowUserInv == \A r \in Requests : req[r].pc \in AfterRead => req[r].user = owner[req[r].sid]

LEMMA RowUserKept == TypeInv /\ RowUserInv /\ [Next]_vars => RowUserInv'
<1> SUFFICES ASSUME TypeInv, RowUserInv, [Next]_vars, NEW q \in Requests,
                    req'[q].pc \in AfterRead
             PROVE  req'[q].user = owner'[req'[q].sid]
  BY DEF RowUserInv
<1>1. CASE req[q].pc \in AfterRead /\ req'[q].user = req[q].user /\ req'[q].sid = req[q].sid
  BY <1>1, AfterReadUsesSession, TokenKept DEF RowUserInv, vars, tableVars
<1>2. CASE GetSessionByID(q)
  BY <1>2, ReadEffect
<1>3. CASE Handler(q) /\ ~GetSessionByID(q)
  <2>1. ~Reply(q)
    BY DEF Reply, Idle, AfterRead, TypeInv, TypeOK
  <2>2. req[q].pc \in AfterRead /\ ~CreateSession(q)
    BY <1>3, HandlerEffect DEF CreateSession, At, AfterRead
  <2> QED
    BY <1>1, <1>3, <2>1, <2>2, HandlerEffect
<1>4. CASE ~Handler(q)
  BY <1>1, <1>4, OthersStep DEF AfterRead
<1> QED
  BY <1>2, <1>3, <1>4 DEF Handler, StatusHandler

(* A careful user whose session is being revoked has no active one left.   *)
RevokedAlone ==
    \A r \in Requests :
        req[r].pc \in Revoking /\ IsCareful(req[r].sid) => NoActive(owner[req[r].sid])

(* A step by which a slot begins or goes on to revoke a session.           *)
LEMMA RevokingSince ==
    ASSUME TypeInv, [Next]_vars, NEW q \in Requests, req'[q].pc \in Revoking
    PROVE  /\ req'[q].sid = req[q].sid
           /\ \/ req[q].pc \in Revoking
              \/ UpdateSessionStatus(q) /\ SetRow(q) /\ req[q].kind = "completed"
<1> USE DEF PCs, StartSteps, StatusSteps, Replies, Revoking, At
<1>0. req \in [Requests -> Request]
  BY DEF TypeInv, TypeOK
<1>1. CASE ~Handler(q)
  BY <1>1, OthersStep
<1>2. CASE UpdateSessionStatus(q)
  BY <1>0, <1>2, GotoEffect DEF UpdateSessionStatus
<1>3. CASE Handler(q) /\ ~UpdateSessionStatus(q)
  <2>1. ~CreateSession(q) /\ ~Reply(q)
    <3>1. ~Reply(q)
      BY <1>0 DEF Reply, Idle
    <3>2. req[q].pc \in StatusSteps
      BY <1>3, HandlerOrder
    <3> QED
      BY <3>1, <3>2 DEF CreateSession
  <2>2. req'[q].sid = req[q].sid
    BY <1>3, <2>1, HandlerEffect
  <2>3. req[q].pc \in StatusSteps
    BY <1>3, HandlerOrder
  <2>4. ~GetSessionByID(q)
    BY ReadEffect DEF AfterRead
  <2>5. ~TearDownTopology(q)
    BY <1>0, AdvanceEffect DEF TearDownTopology, DeleteResource
  <2>6. req[q].pc \in Revoking
    BY <1>3, <2>1, <2>3, <2>4, <2>5
    DEF Handler, StartHandler, StatusHandler, FetchUser, CheckToken, GetActiveSession,
        CreateSession, SetUpTopologyFor, NotifyNewConnection, RollBackTopology,
        DeleteSession, RevokeAuthorization, RevokeToken
  <2> QED
    BY <2>2, <2>6
<1> QED
  BY <1>1, <1>2, <1>3

LEMMA RevokedAloneKept ==
    /\ TypeInv /\ KindInv /\ OneAtATime /\ CarefulOneActive /\ HoldsRow /\ RevokedAlone
    /\ [Next]_vars
    => RevokedAlone'
<1> SUFFICES ASSUME TypeInv, KindInv, OneAtATime, CarefulOneActive, HoldsRow, RevokedAlone,
                    [Next]_vars, NEW q \in Requests, req'[q].pc \in Revoking,
                    owner'[req'[q].sid] \in Careful,
                    NEW s \in Sessions, Active(s)', owner'[s] = owner'[req'[q].sid]
             PROVE  FALSE
  BY DEF RevokedAlone, NoActive, IsCareful
<1> DEFINE k == req[q].sid
<1>1. /\ req'[q].sid = k
      /\ \/ req[q].pc \in Revoking
         \/ UpdateSessionStatus(q) /\ SetRow(q) /\ req[q].kind = "completed"
  BY RevokingSince
<1>2. req[q].pc \in Revoking \cup {"update"} /\ req[q].pc \in AfterRead
  BY <1>1 DEF UpdateSessionStatus, At, AfterRead, Revoking
<1>3. k \in Sessions /\ status[k] # "UNUSED" /\ owner'[k] = owner[k]
  BY <1>2, AfterReadUsesSession, TokenKept DEF vars, tableVars
<1>4. WorksFor(q, owner[k])
  BY <1>2 DEF KindInv, WorksFor, At, Revoking, StatusSteps
<1>5. CASE Active(s) /\ owner'[s] = owner[s]
  <2>1. req[q].pc \notin Revoking
    BY <1>1, <1>3, <1>5 DEF RevokedAlone, NoActive, IsCareful
  <2>2. UpdateSessionStatus(q) /\ SetRow(q) /\ req[q].kind = "completed" /\ req[q].pc = "update"
    BY <1>1, <2>1 DEF UpdateSessionStatus, At
  <2>3. Active(k)
    BY <1>1, <1>3, <2>2 DEF HoldsRow, Holding, IsCareful
  <2>4. s = k
    BY <1>1, <1>3, <1>5, <2>3 DEF CarefulOneActive, IsCareful
  <2> QED
    BY <1>3, <2>2, <2>4 DEF SetRow, Active, TypeInv, TypeOK
<1>6. ASSUME NEW r \in Requests, CreateSession(r), InsertRow(r, s)
      PROVE  FALSE
  <2>1. At(r, "insert") /\ WorksFor(r, owner[k])
    BY <1>1, <1>3, <1>6, InsertWorksFor
  <2>2. r = q
    BY <1>1, <1>3, <1>4, <2>1 DEF OneAtATime
  <2> QED
    BY <1>2, <2>1, <2>2 DEF At, Revoking
<1> QED
  BY <1>5, <1>6, ActiveSince

(* What ActiveMayConnect needs, of careful users only.                     *)
CarefulAdmittedInv ==
    Only(AllFaultKinds \ {"verdict"}) =>
        /\ \A s \in Sessions :
              Active(s) /\ IsCareful(s) => tokenOf[s] \notin revoked /\ owner[s] \in authorized
        /\ \A r \in Requests : req[r].user \in Careful => Admitted(r)

(* A revocation that reaches a user's authorization or token is made for   *)
(* that user.                                                              *)
LEMMA RevokesForUser ==
    ASSUME TypeInv, TokenInv, KindInv, RowUserInv, HeldInv(Holder), NEW r \in Requests
    PROVE  /\ RevokeAuthorization(r) =>
                 /\ req[r].pc \in Revoking /\ req[r].user = owner[req[r].sid]
                 /\ WorksFor(r, req[r].user)
           /\ RevokeToken(r) =>
                 /\ req[r].pc \in Revoking /\ Holder[req[r].tok] = owner[req[r].sid]
                 /\ WorksFor(r, Holder[req[r].tok])
<1> SUFFICES ASSUME req[r].pc \in Revoking
             PROVE  /\ req[r].user = owner[req[r].sid] /\ WorksFor(r, req[r].user)
                    /\ Holder[req[r].tok] = owner[req[r].sid] /\ WorksFor(r, Holder[req[r].tok])
  BY DEF RevokeAuthorization, RevokeToken, At, Revoking
<1>1. req[r].pc \in AfterRead /\ req[r].kind = "completed"
  BY DEF KindInv, AfterRead, Revoking
<1>2. req[r].sid \in Sessions /\ status[req[r].sid] # "UNUSED"
  BY <1>1, AfterReadUsesSession
<1>3. req[r].user = owner[req[r].sid] /\ req[r].tok = tokenOf[req[r].sid]
  BY <1>1 DEF RowUserInv, TokenInv
<1>4. Holder[req[r].tok] = owner[req[r].sid]
  BY <1>2, <1>3 DEF HeldInv
<1> QED
  BY <1>1, <1>3, <1>4 DEF WorksFor, At, Revoking

(* A revocation that reaches what a careful user's start was shown would   *)
(* be that user's second request.                                          *)
LEMMA StartKeepsCredentials ==
    ASSUME TypeInv, TokenInv, KindInv, RowUserInv, HeldInv(Holder), OneAtATime, [Next]_vars,
           NEW q \in Requests, ~Handler(q), req[q].pc \in Looking, req[q].user \in Careful
    PROVE  /\ req[q].user \in authorized => req[q].user \in authorized'
           /\ req[q].tok \notin revoked => req[q].tok \notin revoked'
<1>1. WorksFor(q, req[q].user) /\ Holder[req[q].tok] = req[q].user
  BY DEF KindInv, HeldInv, WorksFor, At, Looking, StartSteps
<1>2. ASSUME NEW r \in Requests, RevokeAuthorization(r) PROVE req[r].user # req[q].user
  BY <1>1, <1>2, RevokesForUser DEF OneAtATime, Handler, StatusHandler
<1>3. ASSUME NEW r \in Requests, RevokeToken(r) PROVE req[r].tok # req[q].tok
  BY <1>1, <1>3, RevokesForUser DEF OneAtATime, Handler, StatusHandler
<1> QED
  BY <1>2, <1>3, UsersEffect

(* One that reaches those of an active session would belong to a session   *)
(* of its user that is closed, beside the active one.                      *)
LEMMA ActiveKeepsCredentials ==
    ASSUME TypeInv, TokenInv, KindInv, RowUserInv, HeldInv(Holder), RevokedAlone, [Next]_vars,
           NEW s \in Sessions, Active(s), IsCareful(s)
    PROVE  /\ owner[s] \in authorized => owner[s] \in authorized'
           /\ tokenOf[s] \notin revoked => tokenOf[s] \notin revoked'
<1>1. Holder[tokenOf[s]] = owner[s]
  BY DEF HeldInv, Active
<1>2. ASSUME NEW r \in Requests, req[r].pc \in Revoking PROVE owner[req[r].sid] # owner[s]
  BY <1>2 DEF RevokedAlone, NoActive, IsCareful
<1>3. ASSUME NEW r \in Requests, RevokeAuthorization(r) PROVE req[r].user # owner[s]
  BY <1>2, <1>3, RevokesForUser
<1>4. ASSUME NEW r \in Requests, RevokeToken(r) PROVE req[r].tok # tokenOf[s]
  BY <1>1, <1>2, <1>4, RevokesForUser
<1> QED
  BY <1>3, <1>4, UsersEffect

LEMMA CarefulAdmittedKept ==
    /\ TypeInv /\ TokenInv /\ KindInv /\ RowUserInv /\ HeldInv(Holder)
    /\ OneAtATime /\ RevokedAlone /\ CarefulAdmittedInv /\ [Next]_vars
    => CarefulAdmittedInv'
<1> SUFFICES ASSUME TypeInv, TokenInv, KindInv, RowUserInv, HeldInv(Holder), OneAtATime,
                    RevokedAlone, CarefulAdmittedInv, [Next]_vars,
                    Only(AllFaultKinds \ {"verdict"})'
             PROVE  /\ \A s \in Sessions :
                          Active(s)' /\ owner'[s] \in Careful =>
                              tokenOf'[s] \notin revoked' /\ owner'[s] \in authorized'
                    /\ \A r \in Requests : req'[r].user \in Careful => Admitted(r)'
  BY DEF CarefulAdmittedInv, IsCareful
<1>1. ~Fault("verdict")
  BY FaultShows
<1>2. /\ \A s \in Sessions :
            Active(s) /\ IsCareful(s) => tokenOf[s] \notin revoked /\ owner[s] \in authorized
      /\ \A r \in Requests : req[r].user \in Careful => Admitted(r)
  BY OnlyBefore DEF CarefulAdmittedInv
<1>3. ASSUME NEW q \in Requests, req'[q].user \in Careful PROVE Admitted(q)'
  <2>1. CASE Handler(q) /\ req'[q].pc \in Looking
    <3>1. req[q].pc \in Looking
      BY <2>1, HandlerOrder
    <3>2. ~GetSessionByID(q) /\ ~Reply(q)
      BY <3>1 DEF GetSessionByID, Reply, Replies, At, Looking
    <3>3. req'[q].user = req[q].user
      BY <2>1, <3>2, HandlerEffect
    <3> QED
      BY <1>1, <1>2, <1>3, <2>1, <3>3, AdmittedHandler
  <2>2. CASE req'[q].pc \notin Looking
    BY <2>2 DEF Admitted, Looking
  <2>3. CASE ~Handler(q) /\ req'[q] = req[q] /\ req'[q].pc \in Looking
    BY <1>2, <1>3, <2>3, StartKeepsCredentials DEF Admitted
  <2>4. CASE req'[q].pc \in {"idle", "failed", "fetchUser", "getSession"}
    BY <2>4 DEF Admitted
  <2> QED
    BY <2>1, <2>2, <2>3, <2>4, OthersStep
<1>4. ASSUME NEW s \in Sessions, Active(s)', owner'[s] \in Careful
      PROVE  tokenOf'[s] \notin revoked' /\ owner'[s] \in authorized'
  <2>1. CASE Active(s) /\ owner'[s] = owner[s]
    <3>1. tokenOf'[s] = tokenOf[s]
      BY <2>1, TokenKept DEF Active, vars, tableVars
    <3> QED
      BY <1>2, <1>4, <2>1, <3>1, ActiveKeepsCredentials DEF IsCareful
  <2>2. ASSUME NEW r \in Requests, CreateSession(r), InsertRow(r, s)
        PROVE  tokenOf'[s] \notin revoked' /\ owner'[s] \in authorized'
    <3>1. tokenOf'[s] = req[r].tok /\ owner'[s] = req[r].user /\ UNCHANGED usersVars
      BY <2>2 DEF InsertRow, CreateSession, TypeInv, TypeOK
    <3> QED
      BY <1>2, <1>4, <2>2, <3>1 DEF CreateSession, At, Admitted, usersVars
  <2> QED
    BY <1>4, <2>1, <2>2, ActiveSince
<1> QED
  BY <1>3, <1>4

(* A careful user's active session has a token that is not revoked and a   *)
(* user who is authorized, for any number of other users with any number   *)
(* of requests and if the users-service answers every invalid token with   *)
(* an error: what validateConnection looked at still holds at the INSERT,  *)
(* however many completions for others lie between.                        *)
THEOREM IsolatedMayConnect == IsolationSpec => []CarefulMayConnect
<1> DEFINE Held == HeldInv(Holder)
           Own == PresentOwnTokens(Holder)
<1>1. Init => /\ Held /\ HoldsRow /\ RowUserInv /\ RevokedAlone /\ CarefulAdmittedInv
              /\ CarefulOneActive /\ CheckedAlone
  <2>1. Init => Held /\ CarefulAdmittedInv
    BY DEF Init, HeldInv, CarefulAdmittedInv, Admitted, Active, Idle, Looking
  <2>2. Init => HoldsRow /\ RowUserInv /\ RevokedAlone
    BY DEF Init, HoldsRow, Holding, OwnsRow, RowUserInv, RevokedAlone, AfterRead, Revoking, Idle
  <2>3. Init => CarefulOneActive /\ CheckedAlone
    BY DEF Init, CarefulOneActive, CheckedAlone, Active, Idle, At
  <2> QED
    BY <2>1, <2>2, <2>3
<1>2. TypeInv /\ Held /\ Own' /\ [Next]_vars => Held'
  BY HeldKept
<1>3. /\ TypeInv /\ TokenInv /\ KindInv /\ RowUserInv /\ Held /\ OneAtATime /\ RevokedAlone
      /\ CarefulAdmittedInv /\ [Next]_vars
      => CarefulAdmittedInv'
  BY CarefulAdmittedKept
<1>4. CarefulAdmittedInv => CarefulMayConnect
  BY DEF CarefulAdmittedInv, CarefulMayConnect
<1>5. IsolationSpec => []Own
  BY OwnTokensInvariant
<1> HIDE DEF Held, Own
<1> QED
  BY <1>1, <1>2, <1>3, <1>4, <1>5, CarefulActiveKept, HoldsKept, RowUserKept, RevokedAloneKept,
     OneAtATimeInvariant, IsolationImpliesSpec, TypeInvariant, TokenInvariant, KindInvariant,
     PTL DEF IsolationSpec, Spec

-----------------------------------------------------------------------------
(* What the caller is told.                                                *)

(* HttpAnswers adds an answer to the steps and changes none of them.       *)
LEMMA AnswersImplySpec == AnswersSpec => Spec
<1>1. AnswersInit => Init
  BY DEF AnswersInit
<1>2. [AnswersNext]_answerVars => [Next]_vars
  BY DEF AnswersNext, answerVars
<1> QED
  BY <1>1, <1>2, PTL DEF AnswersSpec, Spec

(* What a slot is told: what it was told before, or by the call in which   *)
(* it ends.                                                                *)
LEMMA ToldOnce ==
    ASSUME [AnswersNext]_answerVars, NEW r \in Requests
    PROVE  \/ req'[r] = req[r] /\ http'[r] = http[r]
           \/ req'[r] # req[r] /\ http'[r] \in Told(r)
<1>1. CASE UNCHANGED answerVars
  BY <1>1 DEF answerVars, vars
<1>2. CASE Answer
  BY <1>2 DEF Answer
<1> QED
  BY <1>1, <1>2 DEF AnswersNext

(* The statuses the calls of a handler end with are positive, unless a     *)
(* revocation's error has a JSON body without one.                         *)
LEMMA CallStatuses ==
    ASSUME NEW a \in Answers
    PROVE  /\ FetchUserStatus(a) \in 200..599 /\ CheckTokenStatus(a) \in 200..599
           /\ "detail" \notin Bodies =>
                 /\ RevokeAuthorizationStatus(a) \in 200..599
                 /\ RevokeTokenStatus(a) \in 200..599
<1>1. /\ a.code \in 200..599 \cup {0} /\ a.body \in Bodies
      /\ a.code # 0 => a.code \in 200..599
  BY AnswersAssumption DEF Answers
<1>2. FetchUserStatus(a) \in 200..599
  BY <1>1 DEF FetchUserStatus, NoAnswer, Forbidden, InternalError, BadGateway
<1>3. CheckTokenStatus(a) \in 200..599
  BY <1>1 DEF CheckTokenStatus, Unreadable, NoAnswer, OK, InternalError, BadGateway
<1>4. ASSUME "detail" \notin Bodies, NEW success \in {200, 204}
      PROVE  RevokeStatus(a, success) \in 200..599
  BY <1>1, <1>4
  DEF RevokeStatus, RemoteErrorStatus, Unreadable, NoAnswer, OK, BadGateway, ClientErrors
<1> QED
  BY <1>2, <1>3, <1>4
  DEF RevokeAuthorizationStatus, RevokeTokenStatus, InternalError

(* An error that is written is no 200.                                     *)
LEMMA ErrorsNotOk ==
    ASSUME NEW S, S \subseteq 200..599
    PROVE  OK \notin Errors(S)
BY DEF Errors, Written, OK

LEMMA PossibleAnswers == Possible \subseteq Answers
BY DEF Possible

(* Success is told to the requests that succeed.                           *)
Successes == {"connected", "reconnected", "updated"}

LEMMA ToldOk ==
    ASSUME NEW r \in Requests, OK \in Told(r)
    PROVE  \/ req'[r].pc \in Successes
           \/ /\ req'[r].pc = "failed" /\ req[r].pc \in Revoking
              /\ "detail" \in Bodies
<1> USE DEF At
<1>1. CASE req'[r].pc \in {"rejected", "notFound", "conflict"}
  <2>1. OK \notin {Forbidden} /\ OK \notin {NotFound} /\ OK \notin {Conflict}
    BY DEF OK, Forbidden, NotFound, Conflict
  <2>2. OK \notin RejectedToken
    <3> SUFFICES ASSUME NEW a \in Answers, a.code \in ClientErrors, CheckTokenStatus(a) = OK
                 PROVE  FALSE
      BY PossibleAnswers DEF RejectedToken
    <3>1. a.code \in 400..499
      BY DEF ClientErrors
    <3> QED
      BY <3>1 DEF CheckTokenStatus, OK, BadGateway, Unreadable, NoAnswer
  <2> QED
    BY <1>1, <2>1, <2>2 DEF Told
<1>2. CASE req'[r].pc = "failed"
  <2>1. OK \in FailedStatus(r)
    BY <1>2 DEF Told
  <2>2. OK \notin Errors({FetchUserStatus(a) : a \in Possible})
    BY PossibleAnswers, CallStatuses, ErrorsNotOk
  <2>3. OK \notin Errors({CheckTokenStatus(a) : a \in Possible})
    BY PossibleAnswers, CallStatuses, ErrorsNotOk
  <2>4. "detail" \notin Bodies =>
           /\ OK \notin Errors({RevokeAuthorizationStatus(a) : a \in Possible})
           /\ OK \notin Errors({RevokeTokenStatus(a) : a \in Possible})
    BY PossibleAnswers, CallStatuses, ErrorsNotOk
  <2>5. OK # InternalError
    BY DEF OK, InternalError
  <2> QED
    BY <1>2, <2>1, <2>2, <2>3, <2>4, <2>5 DEF FailedStatus, Revoking
<1>3. CASE req'[r].pc \notin Replies
  BY <1>3 DEF Told, Replies, OK
<1> QED
  BY <1>1, <1>2, <1>3 DEF Replies, Successes

(* Who is told 200 has succeeded, if he asked for a start or if the        *)
(* users-service's errors are no JSON without a status.                    *)
OkInv ==
    \A r \in Requests :
        http[r] = OK /\ (req[r].kind = "start" \/ "detail" \notin Bodies)
            => req[r].pc \in Successes

LEMMA OkKept == TypeInv /\ KindInv /\ OkInv /\ [AnswersNext]_answerVars => OkInv'
<1> SUFFICES ASSUME TypeInv, KindInv, OkInv, [AnswersNext]_answerVars, NEW r \in Requests,
                    http'[r] = OK, req'[r].kind = "start" \/ "detail" \notin Bodies
             PROVE  req'[r].pc \in Successes
  BY DEF OkInv
<1>1. CASE req'[r] = req[r] /\ http'[r] = http[r]
  BY <1>1 DEF OkInv
<1>2. CASE req'[r] # req[r] /\ http'[r] \in Told(r)
  <2>1. [Next]_vars
    BY DEF AnswersNext, answerVars
  <2>2. ASSUME req'[r].pc = "failed", req[r].pc \in Revoking PROVE req'[r].kind # "start"
    <3>1. req[r].kind = "completed"
      BY <2>2 DEF KindInv
    <3>2. CASE Handler(r)
      <4>1. ~Reply(r)
        BY <2>2 DEF Reply, Replies, Revoking
      <4> QED
        BY <3>1, <3>2, <4>1, HandlerEffect
    <3>3. CASE ~Handler(r)
      BY <2>1, <2>2, <3>1, <3>3, OthersStep
    <3> QED
      BY <3>2, <3>3
  <2> QED
    BY <1>2, <2>2, ToldOk
<1> QED
  BY <1>1, <1>2, ToldOnce

LEMMA OkInvariant == AnswersSpec => []OkInv
<1>1. AnswersInit => OkInv
  BY DEF AnswersInit, OkInv, OK
<1> QED
  BY <1>1, OkKept, TypeInvariant, KindInvariant, AnswersImplySpec, PTL DEF AnswersSpec

(* A caller that is told 200 for completing a session finds its token      *)
(* revoked, however requests overlap and whatever fails: it is enough that *)
(* the bodies of client errors say their status or are not JSON.           *)
THEOREM OkRevoked ==
    ASSUME "detail" \notin Bodies
    PROVE  AnswersSpec => []OkMeansRevoked
<1>1. OkInv /\ KindInv /\ UpdatedMeansRevoked => OkMeansRevoked
  BY DEF OkInv, KindInv, UpdatedMeansRevoked, OkMeansRevoked, Successes, At
<1> QED
  BY <1>1, OkInvariant, KindInvariant, UpdatedRevokes, AnswersImplySpec, PTL

(* A client that is told 200 for a start, without overlap, has an active   *)
(* session, with its topology unless the database failed or the process    *)
(* crashed.                                                                *)
THEOREM SerialOkUsable ==
    ASSUME OneSlot
    PROVE  AnswersSpec => []OkMeansUsable
<1>1. TypeInv /\ OkInv /\ KindInv /\ OwnInv /\ ActiveHasTopology => OkMeansUsable
  <2> SUFFICES ASSUME TypeInv, OkInv, KindInv, OwnInv, ActiveHasTopology,
                      NEW r \in Requests, http[r] = OK, req[r].kind = "start"
               PROVE  \E s \in Sessions :
                         /\ Active(s) /\ owner[s] = req[r].user
                         /\ Only({"users", "verdict", "broker", "publish"}) =>
                                TopologyComplete(owner[s])
    BY DEF OkMeansUsable
  <2>1. req[r].pc \in {"connected", "reconnected"}
    BY DEF OkInv, KindInv, Successes
  <2>2. PICK s \in Sessions : Active(s) /\ owner[s] = req[r].user
    BY <2>1 DEF OwnInv, Owns, NoActive
  <2>3. ~Opening(s)
    BY <2>1 DEF OneSlot, Opening, OwnsRow
  <2> QED
    BY <2>2, <2>3 DEF ActiveHasTopology
<1>2. Spec => []OwnInv
  BY OwnInvariant
<1>3. Spec => []ActiveHasTopology
  BY SerialActiveHasTopology
<1> QED
  BY <1>1, <1>2, <1>3, OkInvariant, KindInvariant, TypeInvariant, AnswersImplySpec, PTL

-----------------------------------------------------------------------------
(* Who is told 502 has asked for a start and has no session, or for a      *)
(* status change and the session is closed already.                        *)
Refused(r) == IF req[r].kind = "start" THEN req[r].sid = None ELSE Closed(req[r].sid)

GatewayInv ==
    \A r \in Requests :
        /\ http[r] # 0 => req[r].pc \in Replies
        /\ http[r] = BadGateway => Refused(r)

LEMMA ToldGateway ==
    ASSUME NEW r \in Requests, BadGateway \in Told(r)
    PROVE  /\ req'[r].pc \in {"rejected", "failed"}
           /\ req[r].pc \in {"fetchUser", "checkToken"} \cup Revoking \/ req'[r].pc = "rejected"
<1>1. /\ BadGateway # OK /\ BadGateway # NotFound /\ BadGateway # Conflict
      /\ BadGateway # 0 /\ BadGateway # InternalError
  BY DEF BadGateway, OK, NotFound, Conflict, InternalError
<1>2. req'[r].pc \in {"rejected", "failed"}
  BY <1>1 DEF Told
<1>3. ASSUME req'[r].pc = "failed" PROVE req[r].pc \in {"fetchUser", "checkToken"} \cup Revoking
  BY <1>1, <1>3 DEF Told, FailedStatus, At, Revoking
<1> QED
  BY <1>2, <1>3

(* The step that ends a request rejects it only while it is looking, and   *)
(* changes no row if it ends a revocation.                                 *)
LEMMA EndsWhere ==
    ASSUME TypeInv, [Next]_vars, NEW r \in Requests, req'[r] # req[r],
           req'[r].pc \in {"rejected", "failed"},
           req[r].pc \in {"fetchUser", "checkToken"} \cup Revoking \/ req'[r].pc = "rejected"
    PROVE  /\ req[r].pc \in Looking \cup Revoking
           /\ req'[r].kind = req[r].kind /\ req'[r].sid = req[r].sid
           /\ Handler(r) => UNCHANGED status
<1> USE DEF Looking, Revoking
<1>1. CASE ~Handler(r)
  BY <1>1, OthersStep
<1>2. CASE Handler(r)
  <2>1. req'[r].pc = "rejected" => req[r].pc \in {"fetchUser", "checkToken"}
    <3> USE DEF PCs, StartSteps, StatusSteps, Replies, At
    <3>0. req \in [Requests -> Request]
      BY DEF TypeInv, TypeOK
    <3>1. CASE FetchUser(r) \/ CheckToken(r)
      BY <3>1 DEF FetchUser, CheckToken
    <3>2. CASE GetActiveSession(r) \/ DeleteSession(r) \/ RevokeAuthorization(r) \/ RevokeToken(r)
      BY <3>0, <3>2, GotoEffect
      DEF GetActiveSession, DeleteSession, RevokeAuthorization, RevokeToken
    <3>3. CASE SetUpTopologyFor(r) \/ RollBackTopology(r) \/ TearDownTopology(r)
      <4>1. CASE SetUpTopologyFor(r)
        BY <3>0, <4>1, GotoEffect, AdvanceEffect DEF SetUpTopologyFor
      <4>2. CASE RollBackTopology(r)
        BY <3>0, <4>2, AdvanceEffect DEF RollBackTopology, DeleteResource
      <4>3. CASE TearDownTopology(r)
        BY <3>0, <4>3, AdvanceEffect DEF TearDownTopology, DeleteResource
      <4> QED
        BY <3>3, <4>1, <4>2, <4>3
    <3>4. CASE NotifyNewConnection(r) \/ UpdateSessionStatus(r)
      BY <3>0, <3>4, GotoEffect DEF NotifyNewConnection, UpdateSessionStatus
    <3>5. CASE CreateSession(r)
      <4>1. CASE Goto(r, "failed")
        BY <3>0, <4>1, GotoEffect
      <4>2. CASE \E s \in Sessions :
                   req' = [req EXCEPT ![r] = [@ EXCEPT !.pc = "setUp", !.sid = s, !.step = 1]]
        BY <3>0, <4>2, InsertEffect
      <4> QED
        BY <3>5, <4>1, <4>2 DEF CreateSession
    <3>6. CASE GetSessionByID(r)
      <4>1. CASE \E pc \in {"notFound", "conflict", "failed"} : Goto(r, pc)
        BY <3>0, <4>1, GotoEffect
      <4> DEFINE u == owner[req[r].sid]
                 t == tokenOf[req[r].sid]
      <4>2. CASE req' = [req EXCEPT ![r] = [@ EXCEPT !.pc = "update", !.user = u, !.tok = t]]
        <5> HIDE DEF u, t
        <5>1. req'[r] = [req[r] EXCEPT !.pc = "update", !.user = u, !.tok = t]
          BY <3>0, <4>2
        <5>2. req'[r].pc = "update"
          BY <3>0, <5>1 DEF Request
        <5> QED
          BY <5>2
      <4> QED
        BY <3>6, <4>1, <4>2 DEF GetSessionByID
    <3>7. CASE Reply(r)
      BY <3>0, <3>7 DEF Reply, Idle
    <3> QED
      BY <1>2, <3>1, <3>2, <3>3, <3>4, <3>5, <3>6, <3>7
      DEF Handler, StartHandler, StatusHandler
  <2>2. req[r].pc \in {"fetchUser", "checkToken"} \cup Revoking
    BY <2>1
  <2>3. FetchUser(r) \/ CheckToken(r) \/ RevokeAuthorization(r) \/ RevokeToken(r)
    BY <1>2, <2>2
    DEF Handler, StartHandler, StatusHandler, GetActiveSession, CreateSession,
        SetUpTopologyFor, NotifyNewConnection, RollBackTopology, DeleteSession,
        GetSessionByID, UpdateSessionStatus, TearDownTopology, Reply, Replies, At
  <2>4. UNCHANGED tableVars
    BY <2>3 DEF FetchUser, CheckToken, RevokeAuthorization, RevokeToken
  <2>5. ~Reply(r) /\ ~CreateSession(r)
    BY <2>2 DEF Reply, Replies, CreateSession, At
  <2> QED
    BY <1>2, <2>2, <2>4, <2>5, HandlerEffect DEF tableVars
<1> QED
  BY <1>1, <1>2

LEMMA GatewayKept ==
    ASSUME OneSlot
    PROVE  TypeInv /\ KindInv /\ OwnInv /\ GatewayInv /\ [AnswersNext]_answerVars => GatewayInv'
<1> SUFFICES ASSUME TypeInv, KindInv, OwnInv, GatewayInv, [AnswersNext]_answerVars,
                    NEW r \in Requests
             PROVE  /\ http'[r] # 0 => req'[r].pc \in Replies
                    /\ http'[r] = BadGateway => Refused(r)'
  BY DEF GatewayInv
<1>1. [Next]_vars
  BY DEF AnswersNext, answerVars
<1>2. CASE req'[r] = req[r] /\ http'[r] = http[r]
  <2>1. ASSUME http[r] = BadGateway PROVE UNCHANGED status
    <3>1. req[r].pc \in Replies
      BY <2>1 DEF GatewayInv, BadGateway
    <3>2. CASE Handler(r)
      <4>1. Reply(r)
        BY <3>1, <3>2
        DEF Handler, StartHandler, StatusHandler, FetchUser, CheckToken, GetActiveSession,
            CreateSession, SetUpTopologyFor, NotifyNewConnection, RollBackTopology,
            DeleteSession, GetSessionByID, UpdateSessionStatus, RevokeAuthorization,
            RevokeToken, TearDownTopology, At, Replies
      <4> QED
        BY <4>1 DEF Reply, tableVars
    <3>3. CASE ~Handler(r)
      BY <1>1, <3>3, OneSlotStep, EnvironmentEffect DEF vars, tableVars
    <3> QED
      BY <3>2, <3>3
  <2> QED
    BY <1>2, <2>1 DEF GatewayInv, Refused, Closed, Active
<1>3. CASE req'[r] # req[r] /\ http'[r] \in Told(r)
  <2>1. http'[r] # 0 => req'[r].pc \in Replies
    BY <1>3 DEF Told, Replies
  <2>2. ASSUME http'[r] = BadGateway PROVE Refused(r)'
    <3>1. /\ req[r].pc \in Looking \cup Revoking
          /\ req'[r].kind = req[r].kind /\ req'[r].sid = req[r].sid
          /\ Handler(r) => UNCHANGED status
      BY <1>1, <1>3, <2>2, ToldGateway, EndsWhere
    <3>2. UNCHANGED status
      BY <1>1, <3>1, OneSlotStep, EnvironmentEffect DEF vars, tableVars
    <3>3. CASE req[r].pc \in Looking
      BY <3>1, <3>3 DEF KindInv, Refused, Looking, StartSteps
    <3>4. CASE req[r].pc \in Revoking
      BY <3>1, <3>2, <3>4 DEF KindInv, OwnInv, Owns, Refused, Closed, Active, Closing
    <3> QED
      BY <3>1, <3>3, <3>4
  <2> QED
    BY <2>1, <2>2
<1> QED
  BY <1>2, <1>3, ToldOnce

(* Without overlap a 502 says where the request ended: a start before its  *)
(* INSERT, a completion after its UPDATE.                                  *)
THEOREM SerialGatewayErrors ==
    ASSUME OneSlot
    PROVE  AnswersSpec => []GatewayErrorPlace
<1>1. AnswersInit => GatewayInv
  BY DEF AnswersInit, GatewayInv, BadGateway
<1>2. Spec => []OwnInv
  BY OwnInvariant
<1>3. TypeInv /\ KindInv /\ OwnInv /\ GatewayInv /\ [AnswersNext]_answerVars => GatewayInv'
  BY GatewayKept
<1>4. GatewayInv => GatewayErrorPlace
  BY DEF GatewayInv, GatewayErrorPlace, Refused, Closed
<1> QED
  BY <1>1, <1>2, <1>3, <1>4, TypeInvariant, KindInvariant, AnswersImplySpec, PTL DEF AnswersSpec
=============================================================================
