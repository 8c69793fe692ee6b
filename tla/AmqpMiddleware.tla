--------------------------- MODULE AmqpMiddleware ---------------------------
(***************************************************************************)
(* The one AMQP connection of the service, shared by all handlers: m.conn, *)
(* m.channel and m.confirms_chan of Middleware, their replacement by       *)
(* ensureConnection and Connect, and publishing with confirmations.        *)
(*                                                                         *)
(* Publish and the queue operations are called by handlers; every call is  *)
(* an element of Calls and happens once.  Nothing locks the fields, so     *)
(* each access to them is a step.  Connections are numbered in the order   *)
(* they are dialled, 0 is nil, and a connection carries one channel, which *)
(* has its number.  Only channel 1, that of NewMiddleware, is ever put in  *)
(* confirm mode, and m.confirms_chan listens to it for ever.  A queue      *)
(* operation sends a request on the channel and takes the next reply that  *)
(* arrives on it, which is another call's when operations overlap.         *)
(*                                                                         *)
(* The client library and the broker are external: a connection or channel *)
(* may close at any time, messages of one channel stay in order, and so do *)
(* requests, and when a channel closes its listeners are closed after what *)
(* was delivered.                                                          *)
(*                                                                         *)
(* A definition marked "Mutant of" is not part of the specification: it is *)
(* the definition after it as a plausible mistake would have it.           *)
(***************************************************************************)
EXTENDS Naturals, Sequences, FiniteSets

CONSTANTS
    Messages,   \* calls of Publish, each with a message of its own
    Declarations, \* calls of DeclareQueue
    Deletions,  \* calls of DeleteQueue
    MaxRunning, \* how many calls overlap; 1 is a service without overlap
    MAX_RETRIES,
    FaultKinds, \* what goes wrong in this instance
    MaxFaults   \* bound on how often

Operations == Declarations \cup Deletions
Calls == Messages \cup Operations
AllFaultKinds == {"dial", "channel", "loss", "exception", "nack"}

ASSUME MiddlewareAssumption ==
    /\ IsFiniteSet(Calls)
    /\ Messages \cap Operations = {}
    /\ Declarations \cap Deletions = {}
    /\ MaxRunning \in Nat \ {0}
    /\ MAX_RETRIES \in Nat \ {0}
    /\ FaultKinds \subseteq AllFaultKinds
    /\ MaxFaults \in Nat

\* A call dials successfully at most once; a connection without a channel is a fault.
Conns == 1..(1 + Cardinality(Calls) + MaxFaults)

VARIABLES
    conn,         \* m.conn
    channel,      \* m.channel, 0 when it is nil
    confirms,     \* what m.confirms_chan will deliver
    dialled,      \* the number of connections dialled
    openConns,    \* connections that are not closed
    openChannels, \* channels that are not closed
    pending,      \* messages sent on a channel that the broker has not taken
    requested,    \* operations requested on a channel and not yet executed
    replies,      \* operations whose replies have arrived on a channel
    copies,       \* how often the broker has taken a message or executed an operation
    call,         \* the calls
    faults        \* how often each kind of fault has happened

fields == <<conn, channel>>
network == <<dialled, openConns, openChannels>>
rpc == <<requested, replies>>
traffic == <<confirms, pending, copies, rpc>>
vars == <<fields, network, traffic, call, faults>>

Ended == {"ok", "failed", "panicked"}
Running == {c \in Calls : call[c].pc \notin {"new"} \cup Ended}

At(c, pc) == call[c].pc = pc
Goto(c, pc) == call' = [call EXCEPT ![c].pc = pc]

TotalFaults == faults.dial + faults.channel + faults.loss + faults.exception + faults.nack
Fault(kind) ==
    /\ kind \in FaultKinds
    /\ TotalFaults < MaxFaults
    /\ faults' = [faults EXCEPT ![kind] = @ + 1]

\* NewMiddleware has connected, and put channel 1 in confirm mode; by the time of
\* the first call the connection may have been lost.
Init ==
    /\ conn = 1
    /\ channel = 1
    /\ confirms = <<>>
    /\ dialled = 1
    /\ openConns \in {{1}, {}}
    /\ openChannels = openConns
    /\ pending = [k \in Conns |-> <<>>]
    /\ requested = [k \in Conns |-> <<>>]
    /\ replies = [k \in Conns |-> <<>>]
    /\ copies = [c \in Calls |-> 0]
    /\ call = [c \in Calls |-> [pc |-> "new", attempt |-> 1, on |-> 0]]
    /\ faults = [k \in AllFaultKinds |-> 0]

-----------------------------------------------------------------------------
(* ensureConnection and Connect.                                           *)

\* The call goes on to use m.channel.
Connected(c) == call' = [call EXCEPT ![c].pc = "use", ![c].on = 0]

\* Mutants of AllGood: it always reconnects; it also reconnects when only the
\* channel is closed, without closing the connection.
NeverGood == FALSE
ChannelGood == conn \in openConns /\ channel \in openChannels

\* Whether the connection is closed and whether there is a channel is looked at,
\* not whether the channel is closed.
AllGood == conn \in openConns /\ channel # 0

\* Every call begins with it.
EnsureConnection(c) ==
    /\ At(c, "new")
    /\ Cardinality(Running) < MaxRunning
    /\ \/ AllGood /\ Connected(c)
       \/ ~AllGood /\ Goto(c, "connect")
    /\ UNCHANGED <<fields, network, traffic, faults>>

\* DialConfig and conn.Channel() succeed: m.channel is assigned, m.conn not yet.
Dial(c) ==
    LET k == dialled + 1 IN
    /\ At(c, "connect")
    /\ dialled' = k
    /\ openConns' = openConns \cup {k}
    /\ openChannels' = openChannels \cup {k}
    /\ channel' = k
    /\ call' = [call EXCEPT ![c].pc = "assignConn", ![c].on = k]
    /\ UNCHANGED <<conn, traffic, faults>>

AssignConn(c) ==
    /\ At(c, "assignConn")
    /\ conn' = call[c].on
    /\ Connected(c)
    /\ UNCHANGED <<channel, network, traffic, faults>>

\* Mutant of DialAgain: Connect gives up instead of trying again.
DialNoMore(c) == At(c, "connect") /\ Connected(c)
DialAgain(c) == At(c, "connect") /\ UNCHANGED call

\* DialConfig fails: wait, and try again.
DialFails(c) ==
    /\ Fault("dial") /\ DialAgain(c)
    /\ UNCHANGED <<fields, network, traffic>>

\* DialConfig succeeds and conn.Channel() fails: m.channel is nil now.  The
\* connection, closed or not, is forgotten, and another is dialled.
ChannelFails(c) ==
    /\ At(c, "connect") /\ Fault("channel")
    /\ channel' = 0
    /\ dialled' = dialled + 1
    /\ openConns' \in {openConns, openConns \cup {dialled + 1}}
    /\ DialAgain(c)
    /\ UNCHANGED <<conn, openChannels, traffic>>

-----------------------------------------------------------------------------
(* What the channel is used for.                                           *)

\* A method call on the nil channel; the HTTP framework recovers the handler.
Panic(c) ==
    /\ At(c, "use") /\ channel = 0
    /\ Goto(c, "panicked")
    /\ UNCHANGED <<fields, network, traffic, faults>>

\* Mutant of QueueOperation: with no-wait, which asks for no reply.
QueueOperationNoWait(c) ==
    /\ c \in Operations
    /\ At(c, "use") /\ channel # 0
    /\ requested' = IF channel \in openChannels
                    THEN [requested EXCEPT ![channel] = Append(@, c)] ELSE requested
    /\ Goto(c, "ok")
    /\ UNCHANGED <<fields, network, confirms, pending, copies, replies, faults>>

\* DeclareQueue and DeleteQueue after ensureConnection: the request is sent.
QueueOperation(c) ==
    /\ c \in Operations
    /\ At(c, "use") /\ channel # 0
    /\ \/ /\ channel \in openChannels
          /\ requested' = [requested EXCEPT ![channel] = Append(@, c)]
          /\ call' = [call EXCEPT ![c].pc = "reply", ![c].on = channel]
       \/ /\ channel \notin openChannels
          /\ Goto(c, "failed") /\ UNCHANGED requested
    /\ UNCHANGED <<fields, network, confirms, pending, copies, replies, faults>>

\* The reply to o is of the kind that c expects; whose it is it does not say.
Fits(c, o) == c \in Declarations <=> o \in Declarations

\* Mutant of NoReply: the call stops waiting.
NoReplyInTime(k) == replies[k] = <<>>
NoReply(k) == k \notin openChannels

\* The next reply of the channel, or the error of its closing.
AwaitReply(c) ==
    LET k == call[c].on
        Return(pc) == call' = [call EXCEPT ![c].pc = pc, ![c].on = 0]
    IN
    /\ At(c, "reply")
    /\ \/ /\ replies[k] # <<>>
          /\ replies' = [replies EXCEPT ![k] = Tail(@)]
          /\ Return(IF Fits(c, Head(replies[k])) THEN "ok" ELSE "failed")
       \/ NoReply(k) /\ Return("failed") /\ UNCHANGED replies
    /\ UNCHANGED <<fields, network, confirms, pending, copies, requested, faults>>

\* Mutants of AttemptsLeft: one attempt too few, one too many.
AttemptsLeftButOne(c) == call[c].attempt + 1 < MAX_RETRIES
AttemptsLeftAndOne(c) == call[c].attempt <= MAX_RETRIES
AttemptsLeft(c) == call[c].attempt < MAX_RETRIES

\* Mutant of Retry: attempts are not counted.
RetryUncounted(c) == call' = [call EXCEPT ![c].pc = "use"]

\* The next attempt of PublishWithRouting, which does not ensure the connection.
Retry(c) ==
    IF AttemptsLeft(c)
    THEN call' = [call EXCEPT ![c].pc = "use", ![c].attempt = @ + 1]
    ELSE Goto(c, "failed")

\* channel.Publish hands the message to the connection.
PublishAttempt(c) ==
    /\ c \in Messages
    /\ At(c, "use") /\ channel # 0
    /\ \/ /\ channel \in openChannels
          /\ pending' = [pending EXCEPT ![channel] = Append(@, c)]
          /\ Goto(c, "await")
       \/ /\ channel \notin openChannels
          /\ Retry(c) /\ UNCHANGED pending
    /\ UNCHANGED <<fields, network, confirms, copies, rpc, faults>>

\* The next confirmation is there, and what it says.
Confirmed(ack) == confirms # <<>> /\ Head(confirms).ack = ack /\ confirms' = Tail(confirms)

\* m.confirms_chan is closed: a receive yields the zero value, which says
\* "not acknowledged".
Unconfirmable ==
    confirms = <<>> /\ 1 \notin openChannels /\ UNCHANGED confirms

\* Mutants of Receive: it does not look at Ack; it stops waiting; it insists on
\* the confirmation of its own message.
ReceiveAnything(c) == (Confirmed(TRUE) \/ Confirmed(FALSE) \/ Unconfirmable) /\ Goto(c, "ok")
ReceiveWithTimeout(c) ==
    \/ Confirmed(TRUE) /\ Goto(c, "ok")
    \/ (Confirmed(FALSE) \/ Unconfirmable) /\ Retry(c)
    \/ confirms = <<>> /\ Retry(c) /\ UNCHANGED confirms
ReceiveOwn(c) ==
    \/ Confirmed(TRUE) /\ IF Head(confirms).msg = c THEN Goto(c, "ok") ELSE Retry(c)
    \/ (Confirmed(FALSE) \/ Unconfirmable) /\ Retry(c)

\* Whose message is confirmed is not looked at.
Receive(c) ==
    \/ Confirmed(TRUE) /\ Goto(c, "ok")
    \/ (Confirmed(FALSE) \/ Unconfirmable) /\ Retry(c)

AwaitConfirmation(c) ==
    /\ At(c, "await")
    /\ Receive(c)
    /\ UNCHANGED <<fields, network, pending, copies, rpc, faults>>

-----------------------------------------------------------------------------
(* The broker and the network.                                             *)

\* The confirmation of the first message on channel k, if it is in confirm mode.
Confirm(k, ack) ==
    confirms' = IF k = 1 THEN Append(confirms, [msg |-> Head(pending[k]), ack |-> ack])
                         ELSE confirms

BrokerTakes(k) ==
    /\ k \in openChannels /\ pending[k] # <<>>
    /\ copies' = [copies EXCEPT ![Head(pending[k])] = @ + 1]
    /\ pending' = [pending EXCEPT ![k] = Tail(@)]
    /\ Confirm(k, TRUE)
    /\ UNCHANGED <<fields, network, rpc, call, faults>>

BrokerRefuses(k) ==
    /\ k \in openChannels /\ pending[k] # <<>> /\ Fault("nack")
    /\ pending' = [pending EXCEPT ![k] = Tail(@)]
    /\ Confirm(k, FALSE)
    /\ UNCHANGED <<fields, network, copies, rpc, call>>

BrokerExecutes(k) ==
    LET c == Head(requested[k]) IN
    /\ k \in openChannels /\ requested[k] # <<>>
    /\ copies' = [copies EXCEPT ![c] = @ + 1]
    /\ requested' = [requested EXCEPT ![k] = Tail(@)]
    /\ replies' = [replies EXCEPT ![k] = Append(@, c)]
    /\ UNCHANGED <<fields, network, confirms, pending, call, faults>>

\* How often c is among the first n of what is on its way.
Among(c, way, n) == Cardinality({i \in 1..n : way[i] = c})

\* Of the messages and requests on their way the broker has taken the first ones,
\* whose confirmations and replies are lost, and will never see the others.
Cut(k) ==
    /\ \E n \in 0..Len(pending[k]), e \in 0..Len(requested[k]) :
          copies' = [c \in Calls |-> copies[c] + Among(c, pending[k], n)
                                              + Among(c, requested[k], e)]
    /\ pending' = [pending EXCEPT ![k] = <<>>]
    /\ requested' = [requested EXCEPT ![k] = <<>>]
    /\ openChannels' = openChannels \ {k}
    /\ UNCHANGED <<fields, confirms, replies, dialled, call>>

\* The broker closes a channel (no such exchange, a queue with other arguments).
ChannelException(k) ==
    /\ k \in openChannels /\ Fault("exception")
    /\ Cut(k) /\ UNCHANGED openConns

ConnectionLost(k) ==
    /\ k \in openConns /\ Fault("loss")
    /\ Cut(k) /\ openConns' = openConns \ {k}

-----------------------------------------------------------------------------
Proceed(c) ==
    Dial(c) \/ AssignConn(c) \/ Panic(c)
    \/ QueueOperation(c) \/ AwaitReply(c) \/ PublishAttempt(c) \/ AwaitConfirmation(c)

Handler(c) == EnsureConnection(c) \/ Proceed(c) \/ DialFails(c) \/ ChannelFails(c)

Broker(k) ==
    \/ BrokerTakes(k) \/ BrokerRefuses(k) \/ BrokerExecutes(k)
    \/ ChannelException(k) \/ ConnectionLost(k)

\* All calls have returned; a service without calls is not a deadlock.
Quiet == (\A c \in Calls : call[c].pc \in Ended) /\ UNCHANGED vars

Next == (\E c \in Calls : Handler(c)) \/ (\E k \in Conns : Broker(k)) \/ Quiet

Spec == Init /\ [][Next]_vars

\* A handler takes its next step, Connect reaches a broker in the end, and the
\* broker deals with what it receives.
FairSpec ==
    /\ Spec
    /\ \A c \in Calls : WF_vars(Proceed(c))
    /\ \A k \in Conns : WF_vars(BrokerTakes(k)) /\ WF_vars(BrokerExecutes(k))
=============================================================================
