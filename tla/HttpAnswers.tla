---------------------------- MODULE HttpAnswers -----------------------------
(***************************************************************************)
(* What the caller of a handler is told.  The steps are those of           *)
(* SessionLifecycle; the step that ends a handler also fixes the HTTP      *)
(* status the controller writes, which depends on how the call that ended  *)
(* it was answered.  Errors of the handlers are values of ErrorResponse,   *)
(* whose Status the controller writes; any other error becomes a 500.      *)
(*                                                                         *)
(* A definition marked "Mutant of" is not part of the specification: it is *)
(* the definition after it as a plausible mistake would have it.           *)
(***************************************************************************)
EXTENDS SessionLifecycle

CONSTANTS
    Codes,   \* statuses with which the users-service answers
    Bodies   \* what the body of such an answer may be

\* A problem document with its status; another JSON object, like the {"detail": ...}
\* that validateConnection expects; text that is not JSON; cut off while it was read.
AllBodies == {"problem", "detail", "text", "cut"}

ASSUME AnswersAssumption ==
    /\ Codes \subseteq 200..599
    /\ Bodies \subseteq AllBodies

VARIABLE http  \* the status a handler that has ended writes, 0 before

answerVars == <<vars, http>>

OK == 200
Forbidden == 403
NotFound == 404
Conflict == 409
InternalError == 500
BadGateway == 502

ClientErrors == 400..499

-----------------------------------------------------------------------------
(* The answers of the users-service; code 0 is a network error.  Each call *)
(* of a handler turns one into OK, and the handler goes on, or into the    *)
(* Status of an error.                                                     *)
Answers == [code : Codes \cup {0}, body : Bodies]

NoAnswer(a) == a.code = 0
Unreadable(a) == NoAnswer(a) \/ a.body = "cut"
Decodes(a) == a.body \in {"problem", "detail"}

\* GET /users/:id, when it does not return the user's record, which goes on and is
\* none of Bodies: any status but 200 is propagated, and another JSON object has no
\* is_authorized, so that the user counts as not authorized.
FetchUserStatus(a) ==
    IF NoAnswer(a) THEN BadGateway
    ELSE IF a.code # 200 THEN a.code
    ELSE IF Decodes(a) THEN Forbidden ELSE InternalError

\* POST /tokens/validate.
CheckTokenStatus(a) ==
    IF Unreadable(a) \/ a.code >= 500 THEN BadGateway
    ELSE IF a.code >= 400 THEN a.code
    ELSE IF Decodes(a) THEN OK ELSE InternalError

\* Mutant of RemoteErrorStatus: a body that cannot be decoded is not replaced.
RemoteErrorStatusOfBody(a) == IF a.body = "problem" THEN a.code ELSE 0

\* A client error's body is decoded into an ErrorResponse, whose Status is 0 if the
\* body has none; what cannot be decoded is replaced.
RemoteErrorStatus(a) == IF a.body = "detail" THEN 0 ELSE a.code

RevokeStatus(a, success) ==
    IF Unreadable(a) THEN BadGateway
    ELSE IF a.code = success THEN OK
    ELSE IF a.code \in ClientErrors THEN RemoteErrorStatus(a)
    ELSE BadGateway

\* PATCH /users/:id/status.
RevokeAuthorizationStatus(a) == RevokeStatus(a, 200)

\* DELETE /tokens/revoke/:id; a network error is returned as it is, not as an
\* ErrorResponse.
RevokeTokenStatus(a) == IF NoAnswer(a) THEN InternalError ELSE RevokeStatus(a, 204)

\* gin keeps its default, 200, when it is given a status that is not positive.
Written(code) == IF code > 0 THEN code ELSE OK

-----------------------------------------------------------------------------
(* What handler r is told, by the call in which it ends.                   *)

\* A client error refuses the request: it has had no effect.
Possible == {a \in Answers : a.code \in ClientErrors => UNCHANGED usersVars}

Errors(statuses) == {Written(code) : code \in statuses \ {OK}}

\* The token is not valid: a client error that validateConnection can read.
RejectedToken == {CheckTokenStatus(a) : a \in {b \in Possible : b.code \in ClientErrors}}

FailedStatus(r) ==
    CASE At(r, "fetchUser")   -> Errors({FetchUserStatus(a) : a \in Possible})
      [] At(r, "checkToken")  -> Errors({CheckTokenStatus(a) : a \in Possible})
      [] At(r, "revokeAuth")  -> Errors({RevokeAuthorizationStatus(a) : a \in Possible})
      [] At(r, "revokeToken") -> Errors({RevokeTokenStatus(a) : a \in Possible})
      [] OTHER                -> {InternalError}

Told(r) ==
    LET pc == req'[r].pc IN
    CASE pc \in {"connected", "reconnected", "updated"} -> {OK}
      [] pc = "rejected" -> IF At(r, "fetchUser") THEN {Forbidden} ELSE RejectedToken
      [] pc = "notFound" -> {NotFound}
      [] pc = "conflict" -> {Conflict}
      [] pc = "failed"   -> FailedStatus(r)
      [] OTHER           -> {0}

Statuses ==
    Codes \cup {0, OK, Forbidden, NotFound, Conflict, InternalError, BadGateway}

Answer ==
    http' \in {h \in [Requests -> Statuses] :
                 \A r \in Requests :
                    h[r] \in IF req'[r] = req[r] THEN {http[r]} ELSE Told(r)}

AnswersInit == Init /\ http = [r \in Requests |-> 0]
AnswersNext == Next /\ Answer
AnswersSpec == AnswersInit /\ [][AnswersNext]_answerVars
=============================================================================
