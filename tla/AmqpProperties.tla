--------------------------- MODULE AmqpProperties ---------------------------
(* What AmqpMiddleware guarantees, with and without overlapping calls.     *)
EXTENDS AmqpMiddleware

PCs == {"new", "connect", "assignConn", "use", "reply", "await"} \cup Ended

(* The variables hold values of their types.                               *)
TypeOK ==
    /\ conn \in Conns
    /\ channel \in Conns \cup {0}
    /\ confirms \in Seq([msg : Messages, ack : BOOLEAN])
    /\ dialled \in Conns
    /\ openConns \subseteq Conns
    /\ openChannels \subseteq openConns
    /\ pending \in [Conns -> Seq(Messages)]
    /\ requested \in [Conns -> Seq(Operations)]
    /\ replies \in [Conns -> Seq(Operations)]
    /\ copies \in [Calls -> Nat]
    /\ call \in [Calls -> [pc : PCs, attempt : 1..MAX_RETRIES, on : Conns \cup {0}]]
    /\ faults \in [AllFaultKinds -> 0..MaxFaults]

-----------------------------------------------------------------------------
(* Calls that do not overlap.                                              *)

(* PublishWithRouting returns nil only for a message the broker has taken, *)
(* and a queue operation only when it has been executed: no confirmation   *)
(* and no reply is left over from an earlier attempt or call.              *)
OkMeansDone ==
    \A c \in Calls : At(c, "ok") => copies[c] > 0

(* Reconnecting leaves no connection open beside the current one, except   *)
(* one for each time the new connection could not open its channel.        *)
OneConnection == Cardinality(openConns) <= 1 + faults.channel

(* No call uses the nil channel that a failed conn.Channel() leaves behind *)
(* in m.channel.                                                           *)
NoPanic == \A c \in Calls : ~At(c, "panicked")

(* As long as connection and channel hold, a publish fails only when the   *)
(* broker has refused all its attempts, and a queue operation never.       *)
FailureNeedsRefusals ==
    1 \in openChannels =>
        \A c \in Calls : At(c, "failed") => c \in Messages /\ faults.nack >= MAX_RETRIES

-----------------------------------------------------------------------------
(* Overlapping calls.                                                      *)

(* As long as channel 1 is open there are as many confirmations, delivered *)
(* or still to come, as handlers that wait for one: none waits in vain and *)
(* none is left for a later call.                                          *)
ConfirmationsBalance ==
    1 \in openChannels =>
        Len(confirms) + Len(pending[1]) = Cardinality({c \in Calls : At(c, "await")})

(* On every open channel there are as many replies, arrived or to come, as *)
(* operations that wait for one: taking another's reply leaves one for the *)
(* other, and a channel that is replaced takes no reply with it.           *)
RepliesBalance ==
    \A k \in openChannels :
        Len(requested[k]) + Len(replies[k])
            = Cardinality({c \in Calls : At(c, "reply") /\ call[c].on = k})

(* An operation may return nil before it is executed, for the reply to     *)
(* another of its kind, but never have more of a kind returned nil than    *)
(* the broker has executed.                                                *)
NoMoreOkThanDone ==
    \A kind \in {Declarations, Deletions} :
        Cardinality({o \in kind : At(o, "ok")}) <= Cardinality({o \in kind : copies[o] > 0})

(* m.channel is nil only while some handler is still in Connect: it will   *)
(* not stay nil, and only overlap lets a call see it.                      *)
NilMeansConnecting ==
    channel = 0 => \E c \in Calls : At(c, "connect")

(* As long as the first channel is open and the broker refuses nothing, no *)
(* message is published twice, whoever reads its confirmation.             *)
NoDuplicates ==
    1 \in openChannels /\ faults.nack = 0 => \A m \in Messages : copies[m] <= 1

(* The broker never has a message more often than PublishWithRouting has   *)
(* attempted it: what a loss, a refusal or another's confirmation leads to *)
(* is at most MAX_RETRIES notifications for one call.                      *)
OncePerAttempt ==
    \A m \in Messages : copies[m] <= call[m].attempt

(* Callers of Publish get what Notifier promises, if the broker refuses    *)
(* nothing: in particular a publish that succeeds although the broker does *)
(* not have the message overlaps with another publish at that moment.      *)
answered == [m \in Messages |->
                CASE At(m, "new") -> "none"
                  [] At(m, "ok") -> "published"
                  [] At(m, "failed") \/ At(m, "panicked") -> "failed"
                  [] OTHER -> "running"]
Promise == INSTANCE Notifier
    WITH taken <- {m \in Messages : copies[m] > 0}, answer <- answered
NotifierPromise == Promise!Spec

(* Every call returns: no handler waits for ever in line 182 for a         *)
(* confirmation, in a queue operation for its reply, or in Connect once    *)
(* the broker can be reached.  (A call happens once, so that all have      *)
(* returned when none is running.)                                         *)
EveryCallEnds == []<>(Running = {})

-----------------------------------------------------------------------------
(* A call fails only while the connection or the channel is closed: one    *)
(* that ensureConnection has found connected, or has reconnected, and that *)
(* nothing has disturbed, succeeds ("All good", and "Reconnected to        *)
(* RabbitMQ successfully").                                                *)
ConnectedSucceeds ==
    [][\A c \in Calls : ~At(c, "failed") /\ At(c, "failed")' =>
          conn \notin openConns \/ channel \notin openChannels]_vars
=============================================================================
