------------------------ MODULE SessionTyping_proofs ------------------------
(***************************************************************************)
(* Type correctness of SessionLifecycle, for every value of its constants, *)
(* and what each kind of step does to the requests in progress.            *)
(***************************************************************************)
EXTENDS SessionProperties, TLAPS

PCs == {"idle"} \cup StartSteps \cup StatusSteps \cup Replies

(* The steps at which a handler still uses its user and token, and those   *)
(* at which it uses its session.                                           *)
UsesUser == StartSteps \cup (StatusSteps \ {"getSession"})
UsesSession == OwnsRow \cup StatusSteps \cup {"updated"}

(* A stored row names a user and a token, and some request inserted it.    *)
RowsTyped ==
    \A s \in Sessions :
        status[s] # "UNUSED" =>
            owner[s] \in Users /\ tokenOf[s] \in Tokens /\ creator[s] \in Requests

(* A notification names a session that was stored.                         *)
AnnouncedStored == \A s \in announced : status[s] # "UNUSED"

(* The locals a handler still uses have been assigned.                     *)
LocalsTyped ==
    \A r \in Requests :
        /\ req[r].pc \in UsesUser => req[r].user \in Users /\ req[r].tok \in Tokens
        /\ req[r].pc \in UsesSession =>
              req[r].sid \in Sessions /\ (req[r].pc # "getSession" => status[req[r].sid] # "UNUSED")

TypeInv == TypeOK /\ RowsTyped /\ AnnouncedStored /\ LocalsTyped

-----------------------------------------------------------------------------
(* Steps of the program counters.                                          *)

LEMMA StepSets ==
    /\ UsesUser \subseteq PCs /\ UsesSession \subseteq PCs /\ OwnsRow \subseteq PCs
    /\ Request = [pc : PCs, kind : Kinds, user : Users \cup {None},
                  tok : Tokens \cup {None}, sid : Sessions \cup {None}, step : Steps]
    /\ 1 \in Steps /\ \A i \in Steps : i < 4 => i + 1 \in Steps
BY DEF Steps, PCs, UsesUser, UsesSession, OwnsRow, StartSteps, StatusSteps, Replies, Request

(* What Goto, Begin and Advance do to the requests.                        *)
LEMMA GotoEffect ==
    ASSUME req \in [Requests -> Request], NEW r \in Requests, NEW pc \in PCs,
           Goto(r, pc) \/ Begin(r, pc)
    PROVE  /\ req' \in [Requests -> Request]
           /\ \A q \in Requests : q # r => req'[q] = req[q]
           /\ req'[r].pc = pc
           /\ req'[r].kind = req[r].kind /\ req'[r].user = req[r].user
           /\ req'[r].tok = req[r].tok /\ req'[r].sid = req[r].sid
BY StepSets DEF Goto, Begin

LEMMA AdvanceEffect ==
    ASSUME req \in [Requests -> Request], NEW r \in Requests, NEW pc \in PCs,
           Advance(r, pc)
    PROVE  /\ req' \in [Requests -> Request]
           /\ \A q \in Requests : q # r => req'[q] = req[q]
           /\ req'[r].pc \in {req[r].pc, pc}
           /\ req'[r].kind = req[r].kind /\ req'[r].user = req[r].user
           /\ req'[r].tok = req[r].tok /\ req'[r].sid = req[r].sid
BY StepSets DEF Goto, Advance

(* What the INSERT does to the requests.                                   *)
LEMMA InsertEffect ==
    ASSUME req \in [Requests -> Request], NEW r \in Requests, NEW s \in Sessions,
           req' = [req EXCEPT ![r] = [@ EXCEPT !.pc = "setUp", !.sid = s, !.step = 1]]
    PROVE  /\ req' \in [Requests -> Request]
           /\ \A q \in Requests : q # r => req'[q] = req[q]
           /\ req'[r].pc = "setUp" /\ req'[r].sid = s
           /\ req'[r].kind = req[r].kind /\ req'[r].user = req[r].user
           /\ req'[r].tok = req[r].tok
<1>1. "setUp" \in PCs
  BY DEF PCs, StartSteps
<1> QED
  BY <1>1, StepSets

(* What reading the row does to the requests.                              *)
LEMMA UpdateEffect ==
    ASSUME req \in [Requests -> Request], NEW r \in Requests,
           NEW u \in Users, NEW t \in Tokens,
           req' = [req EXCEPT ![r] = [@ EXCEPT !.pc = "update", !.user = u, !.tok = t]]
    PROVE  /\ req' \in [Requests -> Request]
           /\ \A q \in Requests : q # r => req'[q] = req[q]
           /\ req'[r].pc = "update" /\ req'[r].sid = req[r].sid
           /\ req'[r].kind = req[r].kind /\ req'[r].user = u /\ req'[r].tok = t
<1>1. "update" \in PCs
  BY DEF PCs, StatusSteps
<1> QED
  BY <1>1, StepSets

(* A step that moves a request on, without adding rows, keeps the locals   *)
(* typed if the step it moves to uses no more than the one it was at.      *)
LEMMA LocalsKept ==
    ASSUME TypeInv, NEW r \in Requests,
           \A s \in Sessions : status[s] # "UNUSED" => status'[s] # "UNUSED",
           \A q \in Requests : q # r => req'[q] = req[q],
           req'[r].user = req[r].user, req'[r].tok = req[r].tok,
           req'[r].sid = req[r].sid,
           req'[r].pc \in UsesUser => req[r].pc \in UsesUser,
           req'[r].pc \in UsesSession => req[r].pc \in UsesSession \ {"getSession"}
    PROVE  LocalsTyped'
BY DEF TypeInv, LocalsTyped

-----------------------------------------------------------------------------
LEMMA InitTypeInv == Init => TypeInv
<1>1. Init => faults \in FaultCounts
  BY ConstantsAssumption DEF Init, FaultCounts
<1> QED
  BY <1>1, ConstantsAssumption, StepSets
     DEF Init, TypeInv, TypeOK, RowsTyped, AnnouncedStored, LocalsTyped, Idle, Kinds, PCs,
         UsesUser, UsesSession, StartSteps, StatusSteps, OwnsRow, Replies

(* The counts of failures keep their bound.                                *)
LEMMA FaultBound ==
    ASSUME TypeOK, NEW kind, Success \/ Fault(kind)
    PROVE  faults' \in FaultCounts
<1>1. CASE Success
  BY <1>1 DEF TypeOK, Success
<1>2. CASE Fault(kind)
  <2>1. faults \in [AllFaultKinds -> 0..MaxFaults] /\ MaxFaults \in Nat
    BY ConstantsAssumption DEF TypeOK, FaultCounts
  <2>2. kind \in AllFaultKinds
    BY <1>2, ConstantsAssumption DEF Fault
  <2>3. faults[kind] < MaxFaults
    BY <1>2, <2>1, <2>2 DEF Fault, TotalFaults, AllFaultKinds
  <2>4. faults[kind] + 1 \in 0..MaxFaults
    BY <2>1, <2>2, <2>3
  <2> QED
    BY <1>2, <2>1, <2>2, <2>4 DEF Fault, FaultCounts
<1> QED
  BY <1>1, <1>2

(* A step that only moves a request on and does not touch the shared state,*)
(* except perhaps the users-service.                                       *)
LEMMA MoveTypeInv ==
    ASSUME TypeInv, NEW r \in Requests, NEW pc \in PCs, Goto(r, pc) \/ Begin(r, pc),
           NEW kind, Success \/ Fault(kind),
           pc \in UsesUser => req[r].pc \in UsesUser,
           pc \in UsesSession => req[r].pc \in UsesSession \ {"getSession"},
           authorized' \subseteq Users, revoked' \subseteq Tokens,
           UNCHANGED <<tableVars, broker, announced, confirmed>>
    PROVE  TypeInv'
<1>1. req' \in [Requests -> Request] /\ LocalsTyped'
  BY GotoEffect, LocalsKept DEF TypeInv, TypeOK, tableVars
<1>2. faults' \in FaultCounts
  BY FaultBound DEF TypeInv
<1> QED
  BY <1>1, <1>2 DEF TypeInv, TypeOK, RowsTyped, AnnouncedStored, tableVars

(* One deletion of a tear-down.                                            *)
LEMMA DeleteResourceTypeInv ==
    ASSUME TypeInv, NEW r \in Requests, NEW after \in PCs, DeleteResource(r, after),
           req[r].pc \in UsesUser, req[r].pc \in UsesSession \ {"getSession"}
    PROVE  TypeInv'
<1>1. req' \in [Requests -> Request] /\ LocalsTyped'
  BY AdvanceEffect, LocalsKept DEF TypeInv, TypeOK, tableVars, DeleteResource
<1>2. faults' \in FaultCounts
  BY FaultBound DEF TypeInv, DeleteResource
<1>3. broker' \in [Users -> SUBSET Resources]
  BY DEF DeleteResource, TypeInv, TypeOK
<1> QED
  BY <1>1, <1>2, <1>3
  DEF DeleteResource, TypeInv, TypeOK, RowsTyped, AnnouncedStored, tableVars, usersVars

-----------------------------------------------------------------------------
LEMMA StartTypeInv ==
    ASSUME TypeInv, NEW r \in Requests, StartHandler(r)
    PROVE  TypeInv'
<1> USE DEF PCs, UsesUser, UsesSession, StartSteps, StatusSteps, OwnsRow, Replies
<1>1. CASE FetchUser(r)
  <2>1. PICK pc \in {"checkToken", "rejected", "failed"} : Goto(r, pc)
    BY <1>1 DEF FetchUser
  <2> QED
    BY <1>1, <2>1, MoveTypeInv DEF FetchUser, At, TypeInv, TypeOK, usersVars
<1>2. CASE CheckToken(r)
  <2>1. PICK pc \in {"queryActive", "rejected", "failed"} : Goto(r, pc)
    BY <1>2 DEF CheckToken
  <2> QED
    BY <1>2, <2>1, MoveTypeInv DEF CheckToken, At, TypeInv, TypeOK, usersVars
<1>3. CASE GetActiveSession(r)
  <2>1. PICK pc \in {"reconnected", "insert", "failed"} : Goto(r, pc)
    BY <1>3 DEF GetActiveSession
  <2> QED
    BY <1>3, <2>1, MoveTypeInv DEF GetActiveSession, At, TypeInv, TypeOK, usersVars
<1>4. CASE CreateSession(r)
  <2>1. CASE UNCHANGED tableVars
    <3>1. \A s \in Sessions : ~InsertRow(r, s)
      BY <2>1 DEF tableVars, InsertRow, TypeInv, TypeOK
    <3>2. /\ Goto(r, "failed") /\ (Success \/ Fault("db"))
          /\ UNCHANGED <<tableVars, broker, announced, confirmed>>
          /\ authorized' = authorized /\ revoked' = revoked
      BY <1>4, <2>1, <3>1 DEF CreateSession, usersVars
    <3>3. "failed" \in PCs /\ "failed" \notin UsesUser \cup UsesSession
      OBVIOUS
    <3> QED
      BY <3>2, <3>3, MoveTypeInv DEF TypeInv, TypeOK
  <2>2. CASE \E s \in Sessions : InsertRow(r, s)
    <3>1. PICK s \in Sessions :
             /\ InsertRow(r, s) /\ (Success \/ Fault("db"))
             /\ \/ req' = [req EXCEPT ![r] = [@ EXCEPT !.pc = "setUp", !.sid = s, !.step = 1]]
                \/ Goto(r, "failed")
      BY <1>4, <2>2 DEF CreateSession, InsertRow, tableVars
    <3>2. faults' \in FaultCounts
      BY <3>1, FaultBound DEF TypeInv
    <3>3. /\ req[r].user \in Users /\ req[r].tok \in Tokens
          /\ RowsTyped' /\ AnnouncedStored'
      BY <1>4, <3>1
      DEF CreateSession, InsertRow, At, TypeInv, TypeOK, LocalsTyped, RowsTyped, AnnouncedStored
    <3>4. req' \in [Requests -> Request] /\ LocalsTyped'
      <4>1. CASE Goto(r, "failed")
        BY <3>1, <4>1, GotoEffect, LocalsKept DEF InsertRow, TypeInv, TypeOK
      <4>2. CASE req' = [req EXCEPT ![r] = [@ EXCEPT !.pc = "setUp", !.sid = s, !.step = 1]]
        <5>1. /\ status'[s] # "UNUSED"
              /\ \A t \in Sessions : status[t] # "UNUSED" => status'[t] # "UNUSED"
          BY <3>1 DEF TypeInv, TypeOK, InsertRow
        <5>2. /\ req' \in [Requests -> Request]
              /\ \A q \in Requests : q # r => req'[q] = req[q]
              /\ req'[r].pc = "setUp" /\ req'[r].sid = s
              /\ req'[r].user \in Users /\ req'[r].tok \in Tokens
          BY <3>3, <4>2, InsertEffect DEF TypeInv, TypeOK
        <5> QED
          BY <5>1, <5>2 DEF TypeInv, LocalsTyped
      <4> QED
        BY <3>1, <4>1, <4>2
    <3>5. TypeOK'
      BY <1>4, <3>1, <3>2, <3>3, <3>4
      DEF CreateSession, InsertRow, TypeInv, TypeOK, usersVars, Stored
    <3> QED
      BY <3>3, <3>4, <3>5 DEF TypeInv
  <2> QED
    BY <1>4, <2>1, <2>2 DEF CreateSession
<1>5. CASE SetUpTopologyFor(r)
  <2>1. req' \in [Requests -> Request] /\ LocalsTyped'
    <3>1. Advance(r, "notify") \/ Goto(r, "deleteRow")
      BY <1>5 DEF SetUpTopologyFor
    <3> QED
      BY <1>5, <3>1, GotoEffect, AdvanceEffect, LocalsKept
      DEF TypeInv, TypeOK, tableVars, SetUpTopologyFor, At
  <2>2. faults' \in FaultCounts
    BY <1>5, FaultBound DEF TypeInv, SetUpTopologyFor
  <2>3. broker' \in [Users -> SUBSET Resources]
    <3>1. req[r].user \in Users /\ req[r].step \in 1..4
      BY <1>5, StepSets DEF Steps, SetUpTopologyFor, At, TypeInv, TypeOK, LocalsTyped
    <3>2. SetUpOrder[req[r].step] \in Resources
      BY <3>1 DEF SetUpOrder, Resources, ClientTopology
    <3> QED
      BY <1>5, <3>1, <3>2 DEF SetUpTopologyFor, TypeInv, TypeOK
  <2> QED
    BY <1>5, <2>1, <2>2, <2>3
    DEF SetUpTopologyFor, TypeInv, TypeOK, RowsTyped, AnnouncedStored, tableVars, usersVars
<1>6. CASE NotifyNewConnection(r)
  <2>1. /\ req[r].sid \in Sessions /\ status[req[r].sid] # "UNUSED"
        /\ announced' \subseteq announced \cup {req[r].sid}
        /\ confirmed' \subseteq confirmed \cup {req[r].sid}
    BY <1>6 DEF NotifyNewConnection, At, TypeInv, LocalsTyped
  <2>2. req' \in [Requests -> Request] /\ LocalsTyped'
    <3>1. UNCHANGED req \/ Goto(r, "connected") \/ Begin(r, "rollback")
      BY <1>6 DEF NotifyNewConnection
    <3>2. CASE UNCHANGED req
      BY <1>6, <3>2 DEF NotifyNewConnection, TypeInv, TypeOK, LocalsTyped, tableVars
    <3>3. CASE Goto(r, "connected") \/ Begin(r, "rollback")
      BY <1>6, <3>3, GotoEffect, LocalsKept
      DEF NotifyNewConnection, At, TypeInv, TypeOK, tableVars
    <3> QED
      BY <3>1, <3>2, <3>3
  <2>3. faults' \in FaultCounts
    BY <1>6, FaultBound DEF TypeInv, NotifyNewConnection
  <2> QED
    BY <1>6, <2>1, <2>2, <2>3
    DEF NotifyNewConnection, TypeInv, TypeOK, RowsTyped, AnnouncedStored, tableVars, usersVars
<1>7. CASE RollBackTopology(r)
  BY <1>7, DeleteResourceTypeInv DEF RollBackTopology, At
<1>8. CASE DeleteSession(r)
  <2>1. req' \in [Requests -> Request] /\ LocalsTyped'
    BY <1>8, GotoEffect, LocalsKept DEF DeleteSession, At, TypeInv, TypeOK
  <2>2. faults' \in FaultCounts
    BY <1>8, FaultBound DEF TypeInv, DeleteSession
  <2>3. RowsTyped' /\ AnnouncedStored' /\ TypeOK'
    BY <1>8, <2>1, <2>2
    DEF DeleteSession, At, TypeInv, TypeOK, RowsTyped, AnnouncedStored, LocalsTyped, usersVars
  <2> QED
    BY <2>1, <2>3 DEF TypeInv
<1> QED
  BY <1>1, <1>2, <1>3, <1>4, <1>5, <1>6, <1>7, <1>8 DEF StartHandler

LEMMA StatusTypeInv ==
    ASSUME TypeInv, NEW r \in Requests, StatusHandler(r)
    PROVE  TypeInv'
<1> USE DEF PCs, UsesUser, UsesSession, StartSteps, StatusSteps, OwnsRow, Replies
<1>1. CASE GetSessionByID(r)
  <2>1. req[r].sid \in Sessions /\ req[r].pc = "getSession"
    BY <1>1 DEF GetSessionByID, At, TypeInv, LocalsTyped
  <2>2. CASE \E pc \in {"notFound", "conflict", "failed"} : Goto(r, pc)
    <3>1. PICK pc \in {"notFound", "conflict", "failed"} : Goto(r, pc)
      BY <2>2
    <3>2. /\ UNCHANGED <<tableVars, broker, announced, confirmed>>
          /\ authorized' = authorized /\ revoked' = revoked
          /\ Success \/ Fault("db")
      BY <1>1 DEF GetSessionByID, usersVars
    <3>3. pc \in PCs /\ pc \notin UsesUser \cup UsesSession
      BY <3>1
    <3>4. authorized' \subseteq Users /\ revoked' \subseteq Tokens
      BY <3>2 DEF TypeInv, TypeOK
    <3> HIDE DEF PCs, UsesUser, UsesSession
    <3> QED
      BY <3>1, <3>2, <3>3, <3>4, MoveTypeInv
  <2>3. CASE /\ status[req[r].sid] = "IN_PROGRESS" /\ Success
             /\ req' = [req EXCEPT ![r] = [@ EXCEPT !.pc = "update",
                            !.user = owner[req[r].sid], !.tok = tokenOf[req[r].sid]]]
    <3>1. /\ owner[req[r].sid] \in Users /\ tokenOf[req[r].sid] \in Tokens
          /\ status[req[r].sid] # "UNUSED"
      BY <2>1, <2>3 DEF TypeInv, RowsTyped
    <3>0. PICK u \in Users, t \in Tokens :
             req' = [req EXCEPT ![r] = [@ EXCEPT !.pc = "update", !.user = u, !.tok = t]]
      BY <2>3, <3>1
    <3>2. /\ req' \in [Requests -> Request]
          /\ \A q \in Requests : q # r => req'[q] = req[q]
          /\ req'[r].pc = "update" /\ req'[r].sid = req[r].sid
          /\ req'[r].user \in Users /\ req'[r].tok \in Tokens
      <4>1. req \in [Requests -> Request]
        BY DEF TypeInv, TypeOK
      <4> HIDE DEF TypeInv, PCs, UsesUser, UsesSession
      <4> QED
        BY <3>0, <4>1, UpdateEffect
    <3>3. UNCHANGED <<tableVars, broker, announced, usersVars, confirmed, faults>>
      BY <1>1, <2>3 DEF GetSessionByID, Success
    <3>4. LocalsTyped'
      BY <2>1, <3>1, <3>2, <3>3 DEF TypeInv, LocalsTyped, tableVars
    <3> QED
      BY <3>2, <3>3, <3>4
      DEF TypeInv, TypeOK, RowsTyped, AnnouncedStored, tableVars, usersVars
  <2> QED
    BY <1>1, <2>2, <2>3 DEF GetSessionByID
<1>2. CASE UpdateSessionStatus(r)
  <2>1. /\ req[r].sid \in Sessions /\ req[r].pc = "update"
        /\ status[req[r].sid] # "UNUSED"
    BY <1>2 DEF UpdateSessionStatus, At, TypeInv, LocalsTyped
  <2>2. /\ status' \in [Sessions -> Stored \cup {"UNUSED", "DELETED"}]
        /\ completedAt' \in [Sessions -> BOOLEAN]
        /\ \A s \in Sessions : status[s] = "UNUSED" <=> status'[s] = "UNUSED"
    <3>1. SetRow(r) \/ UNCHANGED <<status, completedAt>>
      BY <1>2 DEF UpdateSessionStatus
    <3> QED
      BY <2>1, <3>1 DEF SetRow, TypeInv, TypeOK, Stored
  <2>3. req' \in [Requests -> Request] /\ LocalsTyped'
    <3>1. PICK pc \in {"revokeAuth", "tearDown", "notFound", "failed"} :
             Goto(r, pc) \/ Begin(r, pc)
      BY <1>2 DEF UpdateSessionStatus
    <3> QED
      BY <2>1, <2>2, <3>1, GotoEffect, LocalsKept DEF TypeInv, TypeOK
  <2>4. faults' \in FaultCounts
    BY <1>2, FaultBound DEF TypeInv, UpdateSessionStatus
  <2> QED
    BY <1>2, <2>2, <2>3, <2>4
    DEF UpdateSessionStatus, TypeInv, TypeOK, RowsTyped, AnnouncedStored, usersVars
<1>3. CASE RevokeAuthorization(r)
  <2>1. PICK pc \in {"revokeToken", "failed"} : Goto(r, pc)
    BY <1>3 DEF RevokeAuthorization
  <2> QED
    BY <1>3, <2>1, MoveTypeInv DEF RevokeAuthorization, At, TypeInv, TypeOK
<1>4. CASE RevokeToken(r)
  <2>1. PICK pc \in {"tearDown", "failed"} : Goto(r, pc) \/ Begin(r, pc)
    BY <1>4 DEF RevokeToken
  <2>2. req[r].tok \in Tokens
    BY <1>4 DEF RevokeToken, At, TypeInv, LocalsTyped
  <2> QED
    BY <1>4, <2>1, <2>2, MoveTypeInv DEF RevokeToken, At, TypeInv, TypeOK
<1>5. CASE TearDownTopology(r)
  BY <1>5, DeleteResourceTypeInv DEF TearDownTopology, At
<1> QED
  BY <1>1, <1>2, <1>3, <1>4, <1>5 DEF StatusHandler

LEMMA IdleTyped ==
    /\ Idle \in Request /\ Idle.pc = "idle"
    /\ "idle" \in PCs /\ "idle" \notin UsesUser \cup UsesSession
BY StepSets DEF Idle, PCs, Kinds, UsesUser, UsesSession, StartSteps, StatusSteps, OwnsRow

LEMMA ReplyTypeInv ==
    ASSUME TypeInv, NEW r \in Requests, Reply(r)
    PROVE  TypeInv'
<1>1. /\ req' \in [Requests -> Request] /\ req'[r].pc = "idle"
      /\ \A q \in Requests : q # r => req'[q] = req[q]
  BY IdleTyped DEF Reply, TypeInv, TypeOK
<1> QED
  BY <1>1, IdleTyped
  DEF Reply, TypeInv, TypeOK, RowsTyped, AnnouncedStored, LocalsTyped, tableVars, usersVars

LEMMA EnvironmentTypeInv ==
    ASSUME TypeInv, Environment
    PROVE  TypeInv'
<1>1. CASE \E r \in Requests, u \in Users, t \in Tokens : StartRequest(r, u, t)
  <2>1. PICK r \in Requests, u \in Users, t \in Tokens : StartRequest(r, u, t)
    BY <1>1
  <2>2. /\ req' \in [Requests -> Request] /\ req'[r].pc = "fetchUser"
        /\ req'[r].user = u /\ req'[r].tok = t
        /\ \A q \in Requests : q # r => req'[q] = req[q]
    BY <2>1, StepSets
    DEF StartRequest, Idle, TypeInv, TypeOK, PCs, Kinds, StartSteps
  <2> QED
    BY <2>1, <2>2
    DEF StartRequest, TypeInv, TypeOK, RowsTyped, AnnouncedStored, LocalsTyped,
        tableVars, usersVars, UsesSession, OwnsRow, StatusSteps
<1>2. CASE \E r \in Requests, s \in Sessions :
              StatusRequest(r, "completed", s) \/ StatusRequest(r, "timeout", s)
  <2>1. PICK r \in Requests, s \in Sessions, kind \in {"completed", "timeout"} :
           StatusRequest(r, kind, s)
    BY <1>2
  <2>2. /\ req' \in [Requests -> Request] /\ req'[r].pc = "getSession"
        /\ req'[r].sid = s
        /\ \A q \in Requests : q # r => req'[q] = req[q]
    BY <2>1, StepSets
    DEF StatusRequest, Idle, TypeInv, TypeOK, PCs, Kinds, StatusSteps
  <2> QED
    BY <2>1, <2>2
    DEF StatusRequest, TypeInv, TypeOK, RowsTyped, AnnouncedStored, LocalsTyped,
        tableVars, usersVars, UsesUser, StartSteps, StatusSteps
<1>3. CASE \E s \in Sessions : DispatcherJoins(s)
  BY <1>3
  DEF DispatcherJoins, TypeInv, TypeOK, RowsTyped, AnnouncedStored, LocalsTyped,
      tableVars, usersVars, Resources
<1>4. CASE \E u \in Users : Authorize(u)
  BY <1>4
  DEF Authorize, TypeInv, TypeOK, RowsTyped, AnnouncedStored, LocalsTyped, tableVars
<1>5. CASE Crash
  <2>1. faults' \in FaultCounts
    BY <1>5, FaultBound DEF TypeInv, Crash
  <2>2. req' \in [Requests -> Request] /\ LocalsTyped'
    BY <1>5, IdleTyped DEF Crash, LocalsTyped
  <2> QED
    BY <1>5, <2>1, <2>2
    DEF Crash, TypeInv, TypeOK, RowsTyped, AnnouncedStored, tableVars, usersVars
<1>6. CASE \E r \in Requests : Panic(r)
  <2>1. "failed" \in PCs /\ "failed" \notin UsesUser \cup UsesSession
    BY DEF PCs, Replies, UsesUser, UsesSession, OwnsRow, StatusSteps, StartSteps
  <2>2. authorized' \subseteq Users /\ revoked' \subseteq Tokens
    BY <1>6 DEF Panic, usersVars, TypeInv, TypeOK
  <2> QED
    BY <1>6, <2>1, <2>2, MoveTypeInv DEF Panic
<1> QED
  BY <1>1, <1>2, <1>3, <1>4, <1>5, <1>6 DEF Environment

LEMMA NextTypeInv == TypeInv /\ [Next]_vars => TypeInv'
<1> SUFFICES ASSUME TypeInv, [Next]_vars
             PROVE  TypeInv'
  OBVIOUS
<1>1. CASE UNCHANGED vars
  BY <1>1
  DEF vars, tableVars, usersVars, TypeInv, TypeOK, RowsTyped, AnnouncedStored, LocalsTyped
<1> QED
  BY <1>1, StartTypeInv, StatusTypeInv, ReplyTypeInv, EnvironmentTypeInv DEF Next, Handler

LEMMA TypeInvariant == Spec => []TypeInv
BY InitTypeInv, NextTypeInv, PTL DEF Spec

(* Whatever the constants are, the variables keep their types; the rest of *)
(* TypeInv says that a handler never works with an unassigned local.       *)
THEOREM TypeCorrect == Spec => []TypeOK
<1>1. TypeInv => TypeOK
  BY DEF TypeInv
<1> QED
  BY <1>1, TypeInvariant, PTL
=============================================================================
