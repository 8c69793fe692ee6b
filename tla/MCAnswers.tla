----------------------------- MODULE MCAnswers ------------------------------
(* Instances of HttpAnswers for TLC.                                       *)
EXTENDS AnswersProperties, MCSession

\* Success, a client error, a server error.
SomeCodes == {200, 404, 503}

\* Client errors say their status, or are not JSON; every body can be cut off.
StatusInBody == {"problem", "text", "cut"}
DetailBody == {"detail"}
=============================================================================
