------------------------ MODULE SessionSafety_proofs ------------------------
(***************************************************************************)
(* Proofs, for every value of the constants, of the safety properties of   *)
(* SessionProperties that hold whatever fails and however requests         *)
(* overlap: DistinctCreators, UpdatedMeansRevoked and the refinement       *)
(* TablePromise.                                                           *)
(***************************************************************************)
EXTENDS SessionTyping_proofs

(* The steps after the row was read, and after its token was revoked.      *)
AfterRead == {"update", "revokeAuth", "revokeToken", "tearDown", "updated"}
AfterRevocation == {"tearDown", "updated"}

(* The effect of a handler's step on the requests: only the slot that      *)
(* takes it changes, and what it looked up earlier stays until it replies. *)
LEMMA HandlerEffect ==
    ASSUME TypeInv, NEW r \in Requests, Handler(r)
    PROVE  /\ \A q \in Requests : q # r => req'[q] = req[q]
           /\ req'[r].kind = req[r].kind \/ Reply(r)
           /\ req'[r].user = req[r].user \/ GetSessionByID(r) \/ Reply(r)
           /\ req'[r].tok = req[r].tok \/ GetSessionByID(r) \/ Reply(r)
           /\ req'[r].sid = req[r].sid \/ CreateSession(r) \/ Reply(r)
           /\ req'[r].pc = "insert" => GetActiveSession(r)
           /\ req'[r].pc \in OwnsRow => req[r].pc \in OwnsRow \/ CreateSession(r)
           /\ req'[r].pc \in AfterRead => req[r].pc \in AfterRead \/ GetSessionByID(r)
           /\ req'[r].pc \in AfterRevocation =>
                 \/ req[r].pc \in AfterRevocation
                 \/ RevokeToken(r)
                 \/ UpdateSessionStatus(r) /\ req[r].kind # "completed"
<1> USE DEF PCs, StartSteps, StatusSteps, Replies, OwnsRow, AfterRead, AfterRevocation, At
<1>0. req \in [Requests -> Request]
  BY DEF TypeInv, TypeOK
<1>1. CASE FetchUser(r)
  BY <1>0, <1>1, GotoEffect DEF FetchUser
<1>2. CASE CheckToken(r)
  BY <1>0, <1>2, GotoEffect DEF CheckToken
<1>3. CASE GetActiveSession(r)
  BY <1>0, <1>3, GotoEffect DEF GetActiveSession
<1>4. CASE CreateSession(r)
  <2>1. CASE Goto(r, "failed")
    BY <1>0, <1>4, <2>1, GotoEffect
  <2>2. CASE \E s \in Sessions :
               req' = [req EXCEPT ![r] = [@ EXCEPT !.pc = "setUp", !.sid = s, !.step = 1]]
    BY <1>0, <1>4, <2>2, InsertEffect
  <2> QED
    BY <1>4, <2>1, <2>2 DEF CreateSession
<1>5. CASE SetUpTopologyFor(r)
  BY <1>0, <1>5, GotoEffect, AdvanceEffect DEF SetUpTopologyFor
<1>6. CASE NotifyNewConnection(r)
  BY <1>0, <1>6, GotoEffect DEF NotifyNewConnection
<1>7. CASE RollBackTopology(r)
  BY <1>0, <1>7, AdvanceEffect DEF RollBackTopology, DeleteResource
<1>8. CASE DeleteSession(r)
  BY <1>0, <1>8, GotoEffect DEF DeleteSession
<1>9. CASE GetSessionByID(r)
  <2>1. CASE \E pc \in {"notFound", "conflict", "failed"} : Goto(r, pc)
    BY <1>0, <1>9, <2>1, GotoEffect
  <2> DEFINE u == owner[req[r].sid]
             t == tokenOf[req[r].sid]
  <2>2. CASE req' = [req EXCEPT ![r] = [@ EXCEPT !.pc = "update", !.user = u, !.tok = t]]
    <3> HIDE DEF u, t
    <3>1. /\ \A q \in Requests : q # r => req'[q] = req[q]
          /\ req'[r] = [req[r] EXCEPT !.pc = "update", !.user = u, !.tok = t]
      BY <1>0, <2>2
    <3>2. /\ req'[r].pc = "update" /\ req'[r].kind = req[r].kind
          /\ req'[r].sid = req[r].sid
      BY <1>0, <3>1 DEF Request
    <3> QED
      BY <1>9, <3>1, <3>2
  <2> QED
    BY <1>9, <2>1, <2>2 DEF GetSessionByID
<1>10. CASE UpdateSessionStatus(r)
  BY <1>0, <1>10, GotoEffect DEF UpdateSessionStatus
<1>11. CASE RevokeAuthorization(r)
  BY <1>0, <1>11, GotoEffect DEF RevokeAuthorization
<1>12. CASE RevokeToken(r)
  BY <1>0, <1>12, GotoEffect DEF RevokeToken
<1>13. CASE TearDownTopology(r)
  BY <1>0, <1>13, AdvanceEffect DEF TearDownTopology, DeleteResource
<1>14. CASE Reply(r)
  BY <1>0, <1>14 DEF Reply, Idle
<1> QED
  BY <1>1, <1>2, <1>3, <1>4, <1>5, <1>6, <1>7, <1>8, <1>9, <1>10, <1>11, <1>12, <1>13, <1>14
  DEF Handler, StartHandler, StatusHandler

(* Reading the row fetches its user and token, or ends the request.        *)
LEMMA ReadEffect ==
    ASSUME TypeInv, NEW r \in Requests, GetSessionByID(r), req'[r].pc \in AfterRead
    PROVE  /\ req'[r].pc = "update" /\ req'[r].sid = req[r].sid
           /\ req'[r].user = owner[req[r].sid] /\ req'[r].tok = tokenOf[req[r].sid]
           /\ UNCHANGED <<owner, tokenOf, status>>
<1>1. req \in [Requests -> Request]
  BY DEF TypeInv, TypeOK
<1>2. \A pc \in {"notFound", "conflict", "failed"} : ~Goto(r, pc)
  BY <1>1, GotoEffect DEF AfterRead, PCs, Replies
<1> DEFINE u == owner[req[r].sid]
           t == tokenOf[req[r].sid]
<1>3. req' = [req EXCEPT ![r] = [@ EXCEPT !.pc = "update", !.user = u, !.tok = t]]
  BY <1>2 DEF GetSessionByID
<1>4. UNCHANGED <<owner, tokenOf, status>>
  BY DEF GetSessionByID, tableVars
<1> HIDE DEF u, t
<1>5. req'[r] = [req[r] EXCEPT !.pc = "update", !.user = u, !.tok = t]
  BY <1>1, <1>3
<1>6. /\ req'[r].pc = "update" /\ req'[r].sid = req[r].sid
      /\ req'[r].user = u /\ req'[r].tok = t
  BY <1>1, <1>5 DEF Request
<1> QED
  BY <1>4, <1>6 DEF t, u

(* The token is revoked before the tear-down begins.                       *)
LEMMA RevokeTokenEffect ==
    ASSUME TypeInv, NEW r \in Requests, RevokeToken(r), req'[r].pc \in AfterRevocation
    PROVE  req'[r].tok \in revoked'
<1>1. ~Goto(r, "failed")
  BY GotoEffect DEF TypeInv, TypeOK, AfterRevocation, PCs, Replies
<1>2. Begin(r, "tearDown") /\ revoked' = revoked \cup {req[r].tok}
  BY <1>1 DEF RevokeToken
<1> QED
  BY <1>2, GotoEffect DEF TypeInv, TypeOK, PCs, StatusSteps

(* What the environment does to the requests: a slot is unchanged, is at   *)
(* the first step of a new request, has failed, or is idle.                *)
LEMMA EnvironmentEffect ==
    ASSUME TypeInv, Environment
    PROVE  /\ UNCHANGED <<tableVars, confirmed>> /\ revoked' = revoked
           /\ \A q \in Requests :
                 req'[q] = req[q] \/ req'[q].pc \in {"fetchUser", "getSession", "failed", "idle"}
<1> USE DEF TypeInv, TypeOK
<1>1. CASE \E r \in Requests, u \in Users, t \in Tokens : StartRequest(r, u, t)
  BY <1>1 DEF StartRequest, Idle, usersVars
<1>2. CASE \E r \in Requests, s \in Sessions :
              StatusRequest(r, "completed", s) \/ StatusRequest(r, "timeout", s)
  BY <1>2 DEF StatusRequest, Idle, usersVars
<1>3. CASE \E s \in Sessions : DispatcherJoins(s)
  BY <1>3 DEF DispatcherJoins, usersVars
<1>4. CASE \E u \in Users : Authorize(u)
  BY <1>4 DEF Authorize
<1>5. CASE Crash
  BY <1>5 DEF Crash, Idle, usersVars
<1>6. CASE \E r \in Requests : Panic(r)
  <2>1. PICK r \in Requests : Panic(r)
    BY <1>6
  <2>2. \A q \in Requests : req'[q] = req[q] \/ req'[q].pc = "failed"
    BY <2>1 DEF Panic, Goto
  <2> QED
    BY <2>1, <2>2 DEF Panic, usersVars
<1> QED
  BY <1>1, <1>2, <1>3, <1>4, <1>5, <1>6 DEF Environment

(* A step of a handler changes the rows only where its name says so.       *)
LEMMA TableEffect ==
    ASSUME NEW r \in Requests, Handler(r)
    PROVE  \/ UNCHANGED <<status, owner, tokenOf, creator, confirmed>>
           \/ CreateSession(r) \/ NotifyNewConnection(r)
           \/ DeleteSession(r) \/ UpdateSessionStatus(r)
BY DEF Handler, StartHandler, StatusHandler, FetchUser, CheckToken, GetActiveSession,
   SetUpTopologyFor, RollBackTopology, DeleteResource, GetSessionByID,
   RevokeAuthorization, RevokeToken, TearDownTopology, Reply, tableVars

-----------------------------------------------------------------------------
(* The check for an active session made by the slot that is about to       *)
(* insert still holds, except for sessions other slots have inserted       *)
(* since.                                                                  *)
CheckedFree ==
    \A r \in Requests, s \in Sessions :
        At(r, "insert") /\ Active(s) /\ owner[s] = req[r].user => creator[s] # r

CreatorInv == DistinctCreators /\ CheckedFree

(* A step that activates no session and sends no slot to its INSERT.       *)
LEMMA QuietCreatorInv ==
    ASSUME CreatorInv, UNCHANGED <<owner, creator>>,
           \A s \in Sessions : Active(s)' => Active(s),
           \A q \in Requests : req'[q].pc = "insert" =>
               req[q].pc = "insert" /\ req'[q].user = req[q].user
    PROVE  CreatorInv'
BY DEF CreatorInv, DistinctCreators, CheckedFree, At

LEMMA HandlerCreatorInv ==
    ASSUME TypeInv, CreatorInv, NEW r \in Requests, Handler(r)
    PROVE  CreatorInv'
<1>1. /\ \A q \in Requests : q # r => req'[q] = req[q]
      /\ req'[r].pc = "insert" => GetActiveSession(r)
  BY HandlerEffect
<1>2. CASE GetActiveSession(r)
  <2>1. UNCHANGED <<status, owner, creator>>
    BY <1>2 DEF GetActiveSession, tableVars
  <2>2. req'[r].pc = "insert" =>
           \A s \in Sessions : Active(s) => owner[s] # req'[r].user
    <3>1. req'[r].user = req[r].user
      BY <1>2, HandlerEffect
      DEF GetActiveSession, GetSessionByID, Reply, At, Replies
    <3>2. req'[r].pc = "insert" => ActiveSessions(req[r].user) = {}
      BY <1>2, GotoEffect
      DEF GetActiveSession, TypeInv, TypeOK, PCs, StartSteps, Replies
    <3> QED
      BY <3>1, <3>2 DEF ActiveSessions, Active
  <2> QED
    BY <1>1, <2>1, <2>2 DEF CreatorInv, DistinctCreators, CheckedFree, Active, At
<1>3. CASE \E s \in Sessions : At(r, "insert") /\ InsertRow(r, s)
  <2>1. PICK s \in Sessions : At(r, "insert") /\ InsertRow(r, s)
    BY <1>3
  <2>2. /\ status[s] = "UNUSED" /\ ~GetActiveSession(r)
        /\ Active(s)' /\ owner'[s] = req[r].user /\ creator'[s] = r
        /\ \A t \in Sessions \ {s} : /\ Active(t)' <=> Active(t)
                                     /\ owner'[t] = owner[t] /\ creator'[t] = creator[t]
    BY <2>1 DEF InsertRow, GetActiveSession, At, Active, TypeInv, TypeOK
  <2>3. \A t \in Sessions \ {s} :
           Active(t) /\ owner[t] = req[r].user => creator[t] # r
    BY <2>1 DEF CreatorInv, CheckedFree
  <2>4. DistinctCreators'
    BY <2>2, <2>3 DEF CreatorInv, DistinctCreators
  <2>5. CheckedFree'
    BY <1>1, <2>2 DEF CreatorInv, CheckedFree, At
  <2> QED
    BY <2>4, <2>5 DEF CreatorInv
<1>4. CASE /\ UNCHANGED <<owner, creator>> /\ ~GetActiveSession(r)
           /\ \A s \in Sessions : Active(s)' => Active(s)
  BY <1>1, <1>4, QuietCreatorInv
<1>5. \/ \E s \in Sessions : At(r, "insert") /\ InsertRow(r, s)
      \/ UNCHANGED <<owner, creator>> /\ \A s \in Sessions : Active(s)' => Active(s)
  <2>1. CASE UNCHANGED <<status, owner, tokenOf, creator, confirmed>>
    BY <2>1 DEF Active
  <2>2. CASE CreateSession(r)
    BY <2>2 DEF CreateSession, tableVars, Active
  <2>3. CASE NotifyNewConnection(r)
    BY <2>3 DEF NotifyNewConnection, tableVars, Active
  <2>4. CASE DeleteSession(r)
    BY <2>4 DEF DeleteSession, Active, TypeInv, TypeOK
  <2>5. CASE UpdateSessionStatus(r)
    BY <2>5 DEF UpdateSessionStatus, SetRow, Active, TypeInv, TypeOK
  <2> QED
    BY <2>1, <2>2, <2>3, <2>4, <2>5, TableEffect
<1> QED
  BY <1>2, <1>3, <1>4, <1>5

LEMMA EnvironmentCreatorInv ==
    ASSUME TypeInv, CreatorInv, Environment
    PROVE  CreatorInv'
BY EnvironmentEffect, QuietCreatorInv DEF tableVars, Active

(* Two active sessions of a user were inserted by different slots: without *)
(* overlap the check in HandleClientConnection is enough, with it nothing  *)
(* else in the code or the schema is.                                      *)
THEOREM CreatorsDiffer == Spec => []DistinctCreators
<1>1. Init => CreatorInv
  BY DEF Init, CreatorInv, DistinctCreators, CheckedFree, Active
<1>2. TypeInv /\ CreatorInv /\ [Next]_vars => CreatorInv'
  <2> SUFFICES ASSUME TypeInv, CreatorInv, [Next]_vars
               PROVE  CreatorInv'
    OBVIOUS
  <2>1. CASE UNCHANGED vars
    BY <2>1, QuietCreatorInv DEF vars, tableVars, Active
  <2> QED
    BY <2>1, HandlerCreatorInv, EnvironmentCreatorInv DEF Next
<1>3. CreatorInv => DistinctCreators
  BY DEF CreatorInv
<1> QED
  BY <1>1, <1>2, <1>3, TypeInvariant, PTL DEF Spec

(* With one slot requests do not overlap, and a user has at most one       *)
(* active session, whatever fails or crashes in between.                   *)
THEOREM SerialAtMostOneActive ==
    ASSUME \A q, r \in Requests : q = r
    PROVE  Spec => []AtMostOneActive
<1>1. TypeInv /\ DistinctCreators => AtMostOneActive
  BY DEF TypeInv, RowsTyped, DistinctCreators, AtMostOneActive, Active
<1> QED
  BY <1>1, TypeInvariant, CreatorsDiffer, PTL

-----------------------------------------------------------------------------
(* A handler that has read the row works with the row's token, and past    *)
(* the revocation that token is revoked.                                   *)
TokenInv ==
    \A r \in Requests :
        req[r].kind = "completed" =>
            /\ req[r].pc \in AfterRead => req[r].tok = tokenOf[req[r].sid]
            /\ req[r].pc \in AfterRevocation => req[r].tok \in revoked

LEMMA AfterReadUsesSession ==
    ASSUME TypeInv, NEW q \in Requests, req[q].pc \in AfterRead
    PROVE  req[q].sid \in Sessions /\ status[req[q].sid] # "UNUSED"
BY DEF TypeInv, LocalsTyped, AfterRead, UsesSession, StatusSteps

(* Rows keep their user and token once they are stored.                    *)
LEMMA TokenKept ==
    ASSUME TypeInv, Next
    PROVE  \A s \in Sessions : status[s] # "UNUSED" =>
               /\ status'[s] # "UNUSED"
               /\ owner'[s] = owner[s] /\ tokenOf'[s] = tokenOf[s] /\ creator'[s] = creator[s]
<1>1. CASE Environment
  BY <1>1, EnvironmentEffect DEF tableVars
<1>2. ASSUME NEW r \in Requests, Handler(r)
      PROVE  \A s \in Sessions : status[s] # "UNUSED" =>
               /\ status'[s] # "UNUSED"
               /\ owner'[s] = owner[s] /\ tokenOf'[s] = tokenOf[s] /\ creator'[s] = creator[s]
  <2>1. CASE UNCHANGED <<status, owner, tokenOf, creator, confirmed>>
    BY <2>1
  <2>2. CASE CreateSession(r)
    BY <2>2 DEF CreateSession, InsertRow, tableVars, TypeInv, TypeOK
  <2>3. CASE NotifyNewConnection(r)
    BY <2>3 DEF NotifyNewConnection, tableVars
  <2>4. CASE DeleteSession(r)
    BY <2>4 DEF DeleteSession, TypeInv, TypeOK
  <2>5. CASE UpdateSessionStatus(r)
    BY <2>5 DEF UpdateSessionStatus, SetRow, TypeInv, TypeOK
  <2> QED
    BY <1>2, <2>1, <2>2, <2>3, <2>4, <2>5, TableEffect
<1> QED
  BY <1>1, <1>2 DEF Next

(* Revocations are not taken back.                                         *)
LEMMA RevokedKept ==
    ASSUME TypeInv, Next
    PROVE  revoked \subseteq revoked'
<1>1. ASSUME NEW r \in Requests, Handler(r) PROVE revoked \subseteq revoked'
  BY <1>1
  DEF Handler, StartHandler, StatusHandler, FetchUser, CheckToken, GetActiveSession,
      CreateSession, SetUpTopologyFor, NotifyNewConnection, DeleteSession,
      RollBackTopology, DeleteResource, GetSessionByID, UpdateSessionStatus,
      RevokeAuthorization, RevokeToken, TearDownTopology, Reply, usersVars
<1> QED
  BY <1>1, EnvironmentEffect DEF Next

LEMMA HandlerTokenInv ==
    ASSUME TypeInv, TokenInv, NEW r \in Requests, Handler(r)
    PROVE  TokenInv'
<1>1. Next
  BY DEF Next
<1>2. ASSUME NEW q \in Requests, q # r
      PROVE  req'[q].kind = "completed" =>
                /\ req'[q].pc \in AfterRead => req'[q].tok = tokenOf'[req'[q].sid]
                /\ req'[q].pc \in AfterRevocation => req'[q].tok \in revoked'
  BY <1>1, <1>2, HandlerEffect, AfterReadUsesSession, TokenKept, RevokedKept DEF TokenInv
<1>3. ASSUME req'[r].kind = "completed", req'[r].pc \in AfterRead
      PROVE  /\ req'[r].tok = tokenOf'[req'[r].sid]
             /\ req'[r].pc \in AfterRevocation => req'[r].tok \in revoked'
  <2>1. CASE GetSessionByID(r)
    <3>1. /\ req'[r].pc = "update" /\ req'[r].sid = req[r].sid
          /\ req'[r].tok = tokenOf[req[r].sid] /\ UNCHANGED tokenOf
      BY <1>3, <2>1, ReadEffect
    <3> QED
      BY <3>1 DEF AfterRevocation
  <2>2. CASE ~GetSessionByID(r)
    <3>1. ~Reply(r)
      BY <1>3 DEF Reply, Idle, AfterRead, TypeInv, TypeOK
    <3>2. /\ req[r].pc \in AfterRead /\ ~CreateSession(r)
          /\ req[r].kind = "completed"
          /\ req'[r].tok = req[r].tok /\ req'[r].sid = req[r].sid
      BY <1>3, <2>2, <3>1, HandlerEffect DEF CreateSession, At, AfterRead
    <3>3. req'[r].tok = tokenOf'[req'[r].sid]
      BY <1>1, <3>2, AfterReadUsesSession, TokenKept DEF TokenInv
    <3>4. CASE RevokeToken(r)
      BY <3>2, <3>3, <3>4, RevokeTokenEffect
    <3>5. CASE ~RevokeToken(r)
      BY <1>1, <3>2, <3>3, <3>5, HandlerEffect, RevokedKept DEF TokenInv
    <3> QED
      BY <3>4, <3>5
  <2> QED
    BY <2>1, <2>2
<1>4. \A q \in Requests : q # r => req'[q] = req[q]
  BY HandlerEffect
<1> QED
  BY <1>2, <1>3 DEF TokenInv, AfterRevocation, AfterRead

LEMMA EnvironmentTokenInv ==
    ASSUME TypeInv, TokenInv, Environment
    PROVE  TokenInv'
BY EnvironmentEffect DEF TokenInv, AfterRead, AfterRevocation, tableVars

(* A request answered "updated" for status "completed" has revoked the     *)
(* token of its session.                                                   *)
THEOREM UpdatedRevokes == Spec => []UpdatedMeansRevoked
<1>1. Init => TokenInv
  BY DEF Init, TokenInv, Idle
<1>2. TypeInv /\ TokenInv /\ [Next]_vars => TokenInv'
  <2> SUFFICES ASSUME TypeInv, TokenInv, [Next]_vars
               PROVE  TokenInv'
    OBVIOUS
  <2>1. CASE UNCHANGED vars
    BY <2>1 DEF vars, tableVars, usersVars, TokenInv
  <2> QED
    BY <2>1, HandlerTokenInv, EnvironmentTokenInv DEF Next
<1>3. TokenInv => UpdatedMeansRevoked
  BY DEF TokenInv, UpdatedMeansRevoked, At, AfterRead, AfterRevocation
<1> QED
  BY <1>1, <1>2, <1>3, TypeInvariant, PTL DEF Spec

-----------------------------------------------------------------------------
(* A start owns the row it inserted until it answers: the row is stored,   *)
(* no other slot's start works on it, and its client has not been told.    *)
OwnRow ==
    \A r \in Requests :
        req[r].pc \in OwnsRow =>
            /\ creator[req[r].sid] = r
            /\ status[req[r].sid] \in Stored
            /\ req[r].sid \notin confirmed

ConfirmedStored == \A s \in confirmed : status[s] \in Stored

TableInv == OwnRow /\ ConfirmedStored

LEMMA OwnsRowUsesSession ==
    ASSUME TypeInv, NEW q \in Requests, req[q].pc \in OwnsRow
    PROVE  req[q].sid \in Sessions /\ status[req[q].sid] # "UNUSED"
BY DEF TypeInv, LocalsTyped, OwnsRow, UsesSession

(* Steps that remove and confirm nothing.                                  *)
LEMMA QuietTableInv ==
    ASSUME TypeInv, TableInv, Next, UNCHANGED confirmed,
           \A s \in Sessions : status[s] \in Stored => status'[s] \in Stored,
           \A q \in Requests : req'[q].pc \in OwnsRow =>
               req[q].pc \in OwnsRow /\ req'[q].sid = req[q].sid
    PROVE  TableInv'
<1>1. confirmed \subseteq Sessions
  BY DEF TypeInv, TypeOK
<1> QED
  BY <1>1, OwnsRowUsesSession, TokenKept DEF TableInv, OwnRow, ConfirmedStored

LEMMA CreateTableInv ==
    ASSUME TypeInv, TableInv, NEW r \in Requests, CreateSession(r)
    PROVE  TableInv' /\ [Table!Next]_<<status, confirmed>>
<1>1. UNCHANGED confirmed
  BY DEF CreateSession
<1>2. Next /\ Handler(r)
  BY DEF Next, Handler, StartHandler
<1>3. CASE UNCHANGED tableVars
  <2>1. Goto(r, "failed")
    BY <1>3 DEF CreateSession, tableVars, InsertRow, TypeInv, TypeOK
  <2>2. /\ req'[r].pc = "failed"
        /\ \A q \in Requests : q # r => req'[q] = req[q]
    BY <2>1, GotoEffect DEF TypeInv, TypeOK, PCs, Replies
  <2>3. TableInv'
    BY <1>1, <1>2, <1>3, <2>2, QuietTableInv DEF tableVars, OwnsRow
  <2> QED
    BY <1>1, <1>3, <2>3 DEF tableVars
<1>4. CASE \E s \in Sessions : InsertRow(r, s)
  <2>1. PICK s \in Sessions : InsertRow(r, s)
    BY <1>4
  <2>2. /\ status[s] = "UNUSED" /\ status' = [status EXCEPT ![s] = "IN_PROGRESS"]
        /\ status'[s] \in Stored /\ creator'[s] = r
        /\ \A t \in Sessions : t # s => status'[t] = status[t] /\ creator'[t] = creator[t]
    BY <2>1 DEF InsertRow, TypeInv, TypeOK, Stored
  <2>3. s \notin confirmed
    BY <2>2 DEF TableInv, ConfirmedStored, Stored
  <2>4. req'[r].pc \in OwnsRow => req'[r].sid = s
    <3>1. PICK t \in Sessions : \/ Goto(r, "failed")
             \/ /\ InsertRow(r, t)
                /\ req' = [req EXCEPT ![r] = [@ EXCEPT !.pc = "setUp", !.sid = t, !.step = 1]]
      BY <2>1 DEF CreateSession
    <3>2. CASE Goto(r, "failed")
      BY <3>2, GotoEffect DEF TypeInv, TypeOK, PCs, Replies, OwnsRow
    <3>3. CASE /\ InsertRow(r, t)
               /\ req' = [req EXCEPT ![r] = [@ EXCEPT !.pc = "setUp", !.sid = t, !.step = 1]]
      <4>1. t = s
        BY <2>2, <3>3 DEF InsertRow, TypeInv, TypeOK
      <4> QED
        BY <3>3, <4>1, InsertEffect DEF TypeInv, TypeOK
    <3> QED
      BY <3>1, <3>2, <3>3
  <2>5. OwnRow'
    <3> SUFFICES ASSUME NEW q \in Requests, req'[q].pc \in OwnsRow
                 PROVE  /\ creator'[req'[q].sid] = q /\ status'[req'[q].sid] \in Stored
                        /\ req'[q].sid \notin confirmed'
      BY DEF OwnRow
    <3>1. CASE q = r
      BY <1>1, <2>2, <2>3, <2>4, <3>1
    <3>2. CASE q # r
      <4>1. req'[q] = req[q]
        BY <1>2, <3>2, HandlerEffect
      <4> QED
        BY <1>1, <2>2, <4>1, OwnsRowUsesSession DEF TableInv, OwnRow
    <3> QED
      BY <3>1, <3>2
  <2>6. ConfirmedStored'
    BY <1>1, <2>2, <2>3 DEF TableInv, ConfirmedStored, TypeInv, TypeOK
  <2>7. Table!Open(s)
    BY <1>1, <2>2 DEF Table!Open
  <2> QED
    BY <2>5, <2>6, <2>7 DEF TableInv, Table!Next
<1> QED
  BY <1>3, <1>4 DEF CreateSession

LEMMA NotifyTableInv ==
    ASSUME TypeInv, TableInv, NEW r \in Requests, NotifyNewConnection(r)
    PROVE  TableInv' /\ [Table!Next]_<<status, confirmed>>
<1> DEFINE s == req[r].sid
<1>1. s \in Sessions /\ creator[s] = r /\ status[s] \in Stored
  BY OwnsRowUsesSession DEF NotifyNewConnection, At, OwnsRow, TableInv, OwnRow
<1>2. UNCHANGED <<status, creator>>
  BY DEF NotifyNewConnection, tableVars
<1>3. Next /\ \A q \in Requests : q # r => req'[q] = req[q]
  BY HandlerEffect DEF Next, Handler, StartHandler
<1>4. CASE UNCHANGED confirmed
  <2>1. req'[r].pc \in OwnsRow => req[r].pc \in OwnsRow /\ req'[r].sid = s
    BY HandlerEffect
    DEF Handler, StartHandler, NotifyNewConnection, CreateSession, Reply, Replies, At, OwnsRow
  <2>2. TableInv'
    BY <1>2, <1>3, <1>4, <2>1, QuietTableInv
  <2> QED
    BY <1>2, <1>4, <2>2
<1>5. CASE Goto(r, "connected") /\ confirmed' = confirmed \cup {s}
  <2>1. req'[r].pc = "connected"
    BY <1>5, GotoEffect DEF TypeInv, TypeOK, PCs, Replies
  <2>2. \A q \in Requests : req'[q].pc \in OwnsRow =>
           req'[q] = req[q] /\ req[q].sid # s
    BY <1>1, <1>3, <2>1 DEF TableInv, OwnRow, OwnsRow
  <2>3. TableInv'
    BY <1>1, <1>2, <1>5, <2>2 DEF TableInv, OwnRow, ConfirmedStored
  <2>4. Table!Confirm(s)
    BY <1>1, <1>2, <1>5 DEF Table!Confirm, Table!Present, Table!Closed, Stored
  <2> QED
    BY <1>1, <2>3, <2>4 DEF Table!Next
<1> QED
  BY <1>4, <1>5 DEF NotifyNewConnection

LEMMA DeleteTableInv ==
    ASSUME TypeInv, TableInv, NEW r \in Requests, DeleteSession(r)
    PROVE  TableInv' /\ [Table!Next]_<<status, confirmed>>
<1> DEFINE s == req[r].sid
<1>1. /\ s \in Sessions /\ creator[s] = r /\ status[s] \in Stored
      /\ s \notin confirmed
  BY OwnsRowUsesSession DEF DeleteSession, At, OwnsRow, TableInv, OwnRow
<1>2. UNCHANGED <<creator, confirmed>>
  BY DEF DeleteSession
<1>3. /\ \A q \in Requests : q # r => req'[q] = req[q]
      /\ req'[r].pc = "failed"
  BY HandlerEffect, GotoEffect
  DEF Handler, StartHandler, DeleteSession, TypeInv, TypeOK, PCs, Replies
<1>4. \A q \in Requests : req'[q].pc \in OwnsRow =>
         req'[q] = req[q] /\ req[q].sid # s
  BY <1>1, <1>3 DEF TableInv, OwnRow, OwnsRow
<1>5. status' = status \/ status' = [status EXCEPT ![s] = "DELETED"]
  BY DEF DeleteSession
<1>6. TableInv'
  BY <1>1, <1>2, <1>4, <1>5, OwnsRowUsesSession
  DEF TableInv, OwnRow, ConfirmedStored, TypeInv, TypeOK
<1>7. UNCHANGED status \/ Table!Remove(s)
  BY <1>1, <1>2, <1>5 DEF Table!Remove, Table!Present, Table!Closed, Stored
<1> QED
  BY <1>1, <1>2, <1>6, <1>7 DEF Table!Next

LEMMA UpdateTableInv ==
    ASSUME TypeInv, TableInv, NEW r \in Requests, UpdateSessionStatus(r)
    PROVE  TableInv' /\ [Table!Next]_<<status, confirmed>>
<1> DEFINE s == req[r].sid
<1>1. s \in Sessions
  BY AfterReadUsesSession DEF UpdateSessionStatus, At, AfterRead
<1>2. UNCHANGED <<creator, confirmed>>
  BY DEF UpdateSessionStatus
<1>3. \/ UNCHANGED status
      \/ /\ status[s] \in Stored
         /\ \E c \in {"COMPLETED", "TIMEOUT"} : status' = [status EXCEPT ![s] = c]
  BY DEF UpdateSessionStatus, SetRow
<1>4. \A q \in Requests : req'[q].pc \in OwnsRow =>
         req[q].pc \in OwnsRow /\ req'[q].sid = req[q].sid
  BY HandlerEffect
  DEF Handler, StatusHandler, UpdateSessionStatus, CreateSession, Reply, Replies, At, OwnsRow
<1>5. \A t \in Sessions : status[t] \in Stored => status'[t] \in Stored
  BY <1>1, <1>3 DEF TypeInv, TypeOK, Stored
<1>6. TableInv'
  BY <1>2, <1>4, <1>5, QuietTableInv DEF Next, Handler, StatusHandler
<1>7. UNCHANGED status \/ Table!Close(s)
  BY <1>1, <1>2, <1>3 DEF Table!Close, Table!Present, Table!Closed, Stored
<1> QED
  BY <1>1, <1>2, <1>6, <1>7 DEF Table!Next

(* Every step of the service is a step of the promise, or leaves it alone. *)
LEMMA StepTable ==
    ASSUME TypeInv, TableInv, [Next]_vars
    PROVE  TableInv' /\ [Table!Next]_<<status, confirmed>>
<1>1. CASE UNCHANGED vars
  BY <1>1 DEF vars, tableVars, TableInv, OwnRow, ConfirmedStored
<1>2. CASE Environment
  <2>1. UNCHANGED <<status, confirmed>>
    BY <1>2, EnvironmentEffect DEF tableVars
  <2>2. TableInv'
    BY <1>2, <2>1, EnvironmentEffect, QuietTableInv DEF Next, OwnsRow
  <2> QED
    BY <2>1, <2>2
<1>3. ASSUME NEW r \in Requests, Handler(r),
             UNCHANGED <<status, owner, tokenOf, creator, confirmed>>
      PROVE  TableInv' /\ [Table!Next]_<<status, confirmed>>
  <2>1. \A q \in Requests : req'[q].pc \in OwnsRow =>
           (req[q].pc \in OwnsRow /\ req'[q].sid = req[q].sid) \/ CreateSession(r)
    BY <1>3, HandlerEffect DEF Reply, Idle, OwnsRow, TypeInv, TypeOK
  <2>2. CASE CreateSession(r)
    BY <2>2, CreateTableInv
  <2>3. CASE ~CreateSession(r)
    BY <1>3, <2>1, <2>3, QuietTableInv DEF Next
  <2> QED
    BY <2>2, <2>3
<1> QED
  BY <1>1, <1>2, <1>3, TableEffect, CreateTableInv, NotifyTableInv, DeleteTableInv,
     UpdateTableInv DEF Next

(* The table keeps the promise of SessionTable for any number of users,    *)
(* sessions, overlapping requests and failures.                            *)
THEOREM KeepsTablePromise == Spec => TablePromise
<1>1. Init => Table!Init /\ TableInv
  BY DEF Init, Table!Init, TableInv, OwnRow, ConfirmedStored, Idle, OwnsRow
<1>2. TypeInv /\ TableInv /\ [Next]_vars
         => TableInv' /\ [Table!Next]_<<status, confirmed>>
  BY StepTable
<1> QED
  BY <1>1, <1>2, TypeInvariant, PTL DEF Spec, TablePromise, Table!Spec
=============================================================================
