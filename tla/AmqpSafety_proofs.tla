-------------------------- MODULE AmqpSafety_proofs --------------------------
(* Why the confirmations of overlapping calls balance, and why a nil       *)
(* channel is always about to be replaced.                                 *)
EXTENDS AmqpProperties, FiniteSetTheorems, SequenceTheorems, TLAPS

Waiting == {c \in Calls : At(c, "await")}

(* As much of the types as the arguments need.                             *)
Typed ==
    /\ call \in [Calls -> [pc : PCs, attempt : Nat, on : Nat]]
    /\ conn \in Nat /\ channel \in Nat
    /\ dialled \in Nat /\ dialled >= 1
    /\ openChannels \subseteq openConns
    /\ confirms \in Seq([msg : Messages, ack : BOOLEAN])
    /\ pending \in [Conns -> Seq(Messages)]

(* As long as channel 1 is open, everyone uses it.                         *)
FirstInUse ==
    1 \in openChannels =>
        /\ conn = 1 /\ channel = 1
        /\ \A c \in Calls : call[c].pc \notin {"connect", "assignConn"}

BalanceInv == Typed /\ FirstInUse /\ ConfirmationsBalance

-----------------------------------------------------------------------------
(* What the steps of a call do to the calls.                               *)

LEMMA GotoEffect ==
    ASSUME Typed, NEW c \in Calls, NEW pc \in PCs, Goto(c, pc)
    PROVE  /\ call' \in [Calls -> [pc : PCs, attempt : Nat, on : Nat]]
           /\ call'[c].pc = pc
           /\ \A d \in Calls : d # c => call'[d] = call[d]
BY DEF Typed, Goto

LEMMA RetryEffect ==
    ASSUME Typed, NEW c \in Calls, Retry(c)
    PROVE  /\ call' \in [Calls -> [pc : PCs, attempt : Nat, on : Nat]]
           /\ call'[c].pc \in {"use", "failed"}
           /\ \A d \in Calls : d # c => call'[d] = call[d]
<1>1. "use" \in PCs /\ "failed" \in PCs
  BY DEF PCs, Ended
<1>2. CASE AttemptsLeft(c)
  <2>1. call' = [call EXCEPT ![c].pc = "use", ![c].attempt = call[c].attempt + 1]
    BY <1>2 DEF Retry
  <2>2. call[c].attempt + 1 \in Nat
    BY DEF Typed
  <2> HIDE DEF PCs
  <2> QED
    BY <1>1, <2>1, <2>2 DEF Typed
<1>3. CASE ~AttemptsLeft(c)
  BY <1>1, <1>3, GotoEffect DEF Retry
<1> QED
  BY <1>2, <1>3

LEMMA ConnectedEffect ==
    ASSUME Typed, NEW c \in Calls, Connected(c)
    PROVE  /\ call' \in [Calls -> [pc : PCs, attempt : Nat, on : Nat]]
           /\ call'[c].pc = "use"
           /\ \A d \in Calls : d # c => call'[d] = call[d]
<1>1. "use" \in PCs /\ 0 \in Nat
  BY DEF PCs
<1> QED
  BY <1>1 DEF Typed, Connected

LEMMA DialEffect ==
    ASSUME Typed, NEW c \in Calls, Dial(c)
    PROVE  /\ call' \in [Calls -> [pc : PCs, attempt : Nat, on : Nat]]
           /\ call'[c].pc = "assignConn"
           /\ \A d \in Calls : d # c => call'[d] = call[d]
<1>1. "assignConn" \in PCs /\ dialled + 1 \in Nat
  BY DEF PCs, Typed
<1> QED
  BY <1>1 DEF Typed, Dial

LEMMA QueueOperationEffect ==
    ASSUME Typed, NEW c \in Calls, QueueOperation(c)
    PROVE  /\ call' \in [Calls -> [pc : PCs, attempt : Nat, on : Nat]]
           /\ call'[c].pc \in {"reply", "failed"}
           /\ \A d \in Calls : d # c => call'[d] = call[d]
<1>1. "reply" \in PCs /\ "failed" \in PCs /\ channel \in Nat
  BY DEF PCs, Ended, Typed
<1>2. CASE channel \in openChannels
  <2>1. call' = [call EXCEPT ![c].pc = "reply", ![c].on = channel]
    BY <1>2 DEF QueueOperation
  <2> HIDE DEF PCs
  <2> QED
    BY <1>1, <2>1 DEF Typed
<1>3. CASE channel \notin openChannels
  BY <1>1, <1>3, GotoEffect DEF QueueOperation
<1> QED
  BY <1>2, <1>3

LEMMA AwaitReplyEffect ==
    ASSUME Typed, NEW c \in Calls, AwaitReply(c)
    PROVE  /\ call' \in [Calls -> [pc : PCs, attempt : Nat, on : Nat]]
           /\ call'[c].pc \in {"ok", "failed"}
           /\ \A d \in Calls : d # c => call'[d] = call[d]
<1>1. PICK pc \in {"ok", "failed"} : call' = [call EXCEPT ![c].pc = pc, ![c].on = 0]
  BY DEF AwaitReply
<1>2. pc \in PCs /\ 0 \in Nat
  BY DEF PCs, Ended
<1> HIDE DEF PCs
<1> QED
  BY <1>1, <1>2 DEF Typed

(* The number of waiting calls when one joins, leaves, or neither.         *)
LEMMA WaitingFinite == IsFiniteSet(Waiting) /\ Cardinality(Waiting) \in Nat
<1>1. IsFiniteSet(Waiting)
  BY MiddlewareAssumption, FS_Subset DEF Waiting
<1> QED
  BY <1>1, FS_CardinalityType

LEMMA WaitingJoins ==
    ASSUME NEW c \in Calls, ~At(c, "await"), call'[c].pc = "await",
           \A d \in Calls : d # c => call'[d] = call[d]
    PROVE  Cardinality(Waiting') = Cardinality(Waiting) + 1
<1>1. Waiting' = Waiting \cup {c} /\ c \notin Waiting
  BY DEF Waiting, At
<1> QED
  BY <1>1, WaitingFinite, FS_AddElement

LEMMA WaitingLeaves ==
    ASSUME NEW c \in Calls, At(c, "await"), call'[c].pc # "await",
           \A d \in Calls : d # c => call'[d] = call[d]
    PROVE  Cardinality(Waiting') = Cardinality(Waiting) - 1
<1>1. Waiting' = Waiting \ {c} /\ c \in Waiting
  BY DEF Waiting, At
<1> QED
  BY <1>1, WaitingFinite, FS_RemoveElement

LEMMA WaitingKept ==
    ASSUME NEW c \in Calls, ~At(c, "await"), call'[c].pc # "await",
           \A d \in Calls : d # c => call'[d] = call[d]
    PROVE  Waiting' = Waiting
BY DEF Waiting, At

LEMMA OneIsConnection == 1 \in Conns
<1>1. Cardinality(Calls) \in Nat
  BY MiddlewareAssumption, FS_CardinalityType
<1> QED
  BY <1>1, MiddlewareAssumption DEF Conns

-----------------------------------------------------------------------------
(* The types.                                                              *)

LEMMA InitTyped == Init => Typed
BY OneIsConnection, EmptySeq DEF Init, Typed, PCs

\* The first confirmation is read.
LEMMA ConfirmedEffect ==
    ASSUME Typed, NEW ack, Confirmed(ack)
    PROVE  /\ confirms' \in Seq([msg : Messages, ack : BOOLEAN])
           /\ Len(confirms') = Len(confirms) - 1
BY DEF Typed, Confirmed

\* The messages of one channel are replaced.
LEMMA PendingEffect ==
    ASSUME Typed, NEW k \in Conns, NEW q \in Seq(Messages),
           pending' = [pending EXCEPT ![k] = q]
    PROVE  /\ pending' \in [Conns -> Seq(Messages)]
           /\ pending'[k] = q
           /\ \A j \in Conns : j # k => pending'[j] = pending[j]
BY DEF Typed

LEMMA HandlerTyped ==
    ASSUME Typed, NEW c \in Calls, Handler(c)
    PROVE  Typed'
<1>1. CASE EnsureConnection(c)
  <2>1. "connect" \in PCs BY DEF PCs
  <2> QED
    BY <1>1, <2>1, GotoEffect, ConnectedEffect
    DEF AllGood, EnsureConnection, Typed, fields, network, traffic
<1>2. CASE Dial(c)
  <2>1. call' \in [Calls -> [pc : PCs, attempt : Nat, on : Nat]]
    BY <1>2, DialEffect
  <2>2. dialled' \in Nat /\ dialled' >= 1 /\ channel' \in Nat
    BY <1>2 DEF Dial, Typed
  <2>3. openChannels' \subseteq openConns'
    BY <1>2 DEF Dial, Typed
  <2>4. conn' = conn /\ confirms' = confirms /\ pending' = pending
    BY <1>2 DEF Dial, traffic
  <2> QED
    BY <2>1, <2>2, <2>3, <2>4 DEF Typed
<1>3. CASE AssignConn(c)
  <2>1. call[c].on \in Nat BY DEF Typed
  <2> QED BY <1>3, <2>1, ConnectedEffect DEF AssignConn, Typed, network, traffic
<1>4. CASE Panic(c)
  <2>1. "panicked" \in PCs BY DEF PCs, Ended
  <2> QED BY <1>4, <2>1, GotoEffect DEF Panic, Typed, fields, network, traffic
<1>5. CASE QueueOperation(c) \/ AwaitReply(c)
  <2>1. call' \in [Calls -> [pc : PCs, attempt : Nat, on : Nat]]
    BY <1>5, QueueOperationEffect, AwaitReplyEffect
  <2>2. UNCHANGED <<fields, network, confirms, pending>>
    BY <1>5 DEF QueueOperation, AwaitReply
  <2> QED BY <2>1, <2>2 DEF Typed, fields, network
<1>6. CASE PublishAttempt(c)
  <2>1. "await" \in PCs BY DEF PCs
  <2>2. call' \in [Calls -> [pc : PCs, attempt : Nat, on : Nat]]
    BY <1>6, <2>1, GotoEffect, RetryEffect DEF PublishAttempt
  <2>3. pending' \in [Conns -> Seq(Messages)]
    <3>1. CASE pending' = pending
      BY <3>1 DEF Typed
    <3>2. CASE pending' # pending
      <4>1. channel \in Conns
        BY <1>6, <3>2 DEF PublishAttempt, Typed
      <4>2. Append(pending[channel], c) \in Seq(Messages)
        BY <1>6, <4>1 DEF PublishAttempt, Typed
      <4> QED
        BY <1>6, <3>2, <4>1, <4>2, PendingEffect DEF PublishAttempt
    <3> QED
      BY <3>1, <3>2
  <2> QED BY <1>6, <2>2, <2>3 DEF PublishAttempt, Typed, fields, network
<1>7. CASE AwaitConfirmation(c)
  <2>1. "ok" \in PCs BY DEF PCs, Ended
  <2>2. call' \in [Calls -> [pc : PCs, attempt : Nat, on : Nat]]
    BY <1>7, <2>1, GotoEffect, RetryEffect DEF AwaitConfirmation, Receive
  <2>3. confirms' \in Seq([msg : Messages, ack : BOOLEAN])
    BY <1>7, ConfirmedEffect DEF AwaitConfirmation, Receive, Unconfirmable, Typed
  <2> QED BY <1>7, <2>2, <2>3 DEF AwaitConfirmation, Receive, Typed, fields, network
<1>8. CASE DialFails(c)
  BY <1>8 DEF DialAgain, DialFails, Typed, fields, network, traffic
<1>9. CASE ChannelFails(c)
  BY <1>9 DEF DialAgain, ChannelFails, Typed, traffic
<1> QED
  BY <1>1, <1>2, <1>3, <1>4, <1>5, <1>6, <1>7, <1>8, <1>9 DEF Handler, Proceed

LEMMA BrokerTyped ==
    ASSUME Typed, NEW k \in Conns, Broker(k)
    PROVE  Typed'
<1>1. ASSUME NEW ack \in BOOLEAN, k \in openChannels, pending[k] # <<>>, Confirm(k, ack),
             pending' = [pending EXCEPT ![k] = Tail(@)]
      PROVE  /\ confirms' \in Seq([msg : Messages, ack : BOOLEAN])
             /\ pending' \in [Conns -> Seq(Messages)]
  <2>1. Head(pending[k]) \in Messages /\ Tail(pending[k]) \in Seq(Messages)
    BY <1>1 DEF Typed
  <2> DEFINE Answers == [msg : Messages, ack : BOOLEAN]
             answer == [msg |-> Head(pending[k]), ack |-> ack]
  <2>2. answer \in Answers /\ confirms \in Seq(Answers)
    BY <2>1 DEF Typed
  <2>3. confirms' = Append(confirms, answer) \/ confirms' = confirms
    BY <1>1 DEF Confirm
  <2>4. confirms' \in Seq(Answers)
    <3> HIDE DEF Answers, answer
    <3> QED BY <2>2, <2>3
  <2> QED
    BY <1>1, <2>1, <2>4, PendingEffect
<1>2. CASE BrokerTakes(k)
  BY <1>1, <1>2 DEF BrokerTakes, Typed, fields, network
<1>3. CASE BrokerRefuses(k)
  BY <1>1, <1>3 DEF BrokerRefuses, Typed, fields, network
<1>4. CASE Cut(k) /\ (openConns' = openConns \/ openConns' = openConns \ {k})
  <2>1. pending' \in [Conns -> Seq(Messages)]
    BY <1>4, EmptySeq DEF Cut, Typed
  <2> QED BY <1>4, <2>1 DEF Cut, Typed, fields
<1>5. CASE BrokerExecutes(k)
  BY <1>5 DEF BrokerExecutes, Typed, fields, network
<1> QED
  BY <1>2, <1>3, <1>4, <1>5 DEF Broker, ChannelException, ConnectionLost

LEMMA NextTyped == Typed /\ [Next]_vars => Typed'
<1>1. Typed /\ UNCHANGED vars => Typed'
  BY DEF vars, Typed, fields, network, traffic
<1> QED
  BY <1>1, HandlerTyped, BrokerTyped DEF Next, Quiet

-----------------------------------------------------------------------------
(* The nil channel.                                                        *)

LEMMA NilKept ==
    ASSUME Typed, NilMeansConnecting, [Next]_vars
    PROVE  NilMeansConnecting'
<1> USE DEF NilMeansConnecting, At
<1>1. ASSUME NEW c \in Calls, Handler(c)
      PROVE  NilMeansConnecting'
  <2>1. CASE channel' = channel /\ call[c].pc # "connect"
            /\ \A d \in Calls : d # c => call'[d] = call[d]
    BY <2>1
  <2>2. CASE Dial(c)
    BY <2>2 DEF Dial, Typed
  <2>3. CASE DialFails(c) \/ ChannelFails(c)
    BY <2>3 DEF DialAgain, DialFails, ChannelFails, fields
  <2>4. CASE EnsureConnection(c) \/ AssignConn(c) \/ Panic(c)
             \/ QueueOperation(c) \/ AwaitReply(c) \/ PublishAttempt(c) \/ AwaitConfirmation(c)
    <3>1. channel' = channel /\ call[c].pc # "connect"
      BY <2>4 DEF AllGood, EnsureConnection, AssignConn, Panic, QueueOperation, AwaitReply,
                  PublishAttempt, AwaitConfirmation, Receive, fields
    <3>2. \A d \in Calls : d # c => call'[d] = call[d]
      BY <2>4 DEF AllGood, EnsureConnection, AssignConn, Panic, QueueOperation, AwaitReply, Connected,
                  PublishAttempt, AwaitConfirmation, Receive, Goto, Retry, Typed
    <3> QED BY <2>1, <3>1, <3>2
  <2> QED BY <1>1, <2>2, <2>3, <2>4 DEF Handler, Proceed
<1>2. ASSUME NEW k \in Conns, Broker(k)
      PROVE  NilMeansConnecting'
  BY <1>2 DEF Broker, BrokerTakes, BrokerRefuses, BrokerExecutes, ChannelException, ConnectionLost,
              Cut, fields
<1>3. CASE UNCHANGED vars
  BY <1>3 DEF vars, fields
<1> QED BY <1>1, <1>2, <1>3 DEF Next, Quiet

(* Whatever the calls and the faults: m.channel is nil only while a        *)
(* handler is in Connect that will replace it.                             *)
THEOREM NilIsReplaced == Spec => []NilMeansConnecting
<1>1. Init => NilMeansConnecting
  BY DEF Init, NilMeansConnecting
<1>2. Typed /\ NilMeansConnecting /\ [Next]_vars => NilMeansConnecting'
  BY NilKept
<1> QED
  BY <1>1, <1>2, InitTyped, NextTyped, PTL DEF Spec

(* Calls that do not overlap: the only running call cannot find the        *)
(* channel nil, since it would be the one that is in Connect.              *)
AloneRunning == \A c, d \in Running : c = d

LEMMA AloneKept ==
    ASSUME MaxRunning = 1, Typed, AloneRunning, [Next]_vars
    PROVE  AloneRunning'
<1> USE DEF AloneRunning
<1>1. CASE Running' \subseteq Running
  BY <1>1
<1>2. ASSUME NEW c \in Calls, EnsureConnection(c)
      PROVE  AloneRunning'
  <2>1. Running = {}
    <3>1. IsFiniteSet(Running)
      BY MiddlewareAssumption, FS_Subset DEF Running
    <3>2. Cardinality(Running) \in Nat /\ Cardinality(Running) < 1
      BY <1>2, <3>1, FS_CardinalityType DEF EnsureConnection
    <3> QED
      BY <3>1, <3>2, FS_EmptySet
  <2>2. \A d \in Calls : d # c => call'[d] = call[d]
    BY <1>2 DEF EnsureConnection, Connected, Goto, Typed
  <2> QED
    BY <2>1, <2>2 DEF Running
<1>3. ASSUME NEW c \in Calls, Handler(c), ~EnsureConnection(c)
      PROVE  Running' \subseteq Running
  <2>1. \A d \in Calls : d # c => call'[d] = call[d]
    BY <1>3 DEF Handler, Proceed, AllGood, EnsureConnection, Dial, AssignConn, Panic, QueueOperation, AwaitReply,
                Connected, PublishAttempt, AwaitConfirmation, Receive, DialAgain, DialFails, ChannelFails,
                Goto, Retry, Typed
  <2>2. call' = call \/ c \in Running
    BY <1>3 DEF Handler, Proceed, AllGood, EnsureConnection, Dial, AssignConn, Panic, QueueOperation, AwaitReply,
                PublishAttempt, AwaitConfirmation, Receive, DialAgain, DialFails, ChannelFails, At, Running, Ended
  <2> QED
    BY <2>1, <2>2 DEF Running
<1>4. ASSUME NEW k \in Conns, Broker(k)
      PROVE  Running' \subseteq Running
  BY <1>4 DEF Broker, BrokerTakes, BrokerRefuses, BrokerExecutes, ChannelException, ConnectionLost, Cut, Running
<1>5. CASE UNCHANGED vars
  BY <1>5 DEF vars, Running
<1> QED
  BY <1>1, <1>2, <1>3, <1>4, <1>5 DEF Next, Quiet

LEMMA PanicNeedsOverlap ==
    ASSUME Typed, NilMeansConnecting, AloneRunning, NoPanic, [Next]_vars
    PROVE  NoPanic'
<1> USE DEF NoPanic, At
<1>1. ASSUME NEW c \in Calls, Handler(c)
      PROVE  NoPanic'
  <2>1. ~Panic(c)
    <3> SUFFICES ASSUME Panic(c)
                 PROVE  FALSE
      OBVIOUS
    <3>1. PICK d \in Calls : call[d].pc = "connect"
      BY DEF Panic, NilMeansConnecting
    <3>2. c \in Running /\ d \in Running /\ c # d
      BY <3>1 DEF Panic, Running, Ended
    <3> QED
      BY <3>2 DEF AloneRunning
  <2>2. CASE call' = call
    BY <2>2
  <2>3. CASE \E pc \in {"connect", "await", "ok", "failed"} : Goto(c, pc)
    <3>1. PICK pc \in {"connect", "await", "ok", "failed"} : Goto(c, pc)
      BY <2>3
    <3>2. pc \in PCs /\ pc # "panicked"
      BY DEF PCs, Ended
    <3> QED
      BY <3>1, <3>2, GotoEffect
  <2>4. CASE Retry(c) \/ Connected(c) \/ Dial(c) \/ QueueOperation(c) \/ AwaitReply(c)
    BY <2>4, RetryEffect, ConnectedEffect, DialEffect, QueueOperationEffect, AwaitReplyEffect
  <2> QED
    BY <1>1, <2>1, <2>2, <2>3, <2>4
    DEF Handler, Proceed, AllGood, EnsureConnection, AssignConn,
        PublishAttempt, AwaitConfirmation, Receive, DialAgain, DialFails, ChannelFails
<1>2. ASSUME NEW k \in Conns, Broker(k)
      PROVE  NoPanic'
  BY <1>2 DEF Broker, BrokerTakes, BrokerRefuses, BrokerExecutes, ChannelException, ConnectionLost, Cut
<1>3. CASE UNCHANGED vars
  BY <1>3 DEF vars
<1> QED
  BY <1>1, <1>2, <1>3 DEF Next, Quiet

(* No call panics on the nil channel if calls do not overlap.              *)
THEOREM SerialNoPanic == MaxRunning = 1 /\ Spec => []NoPanic
<1> DEFINE Inv == Typed /\ NilMeansConnecting /\ AloneRunning /\ NoPanic
<1>1. Init => Inv
  BY InitTyped DEF Init, NilMeansConnecting, AloneRunning, Running, NoPanic, At
<1>2. MaxRunning = 1 /\ Inv /\ [Next]_vars => Inv'
  BY NextTyped, NilKept, AloneKept, PanicNeedsOverlap
<1>3. Inv => NoPanic
  OBVIOUS
<1>4. MaxRunning = 1 /\ Spec => []Inv
  <2> SUFFICES ASSUME MaxRunning = 1
               PROVE  Spec => []Inv
    OBVIOUS
  <2>1. Inv /\ [Next]_vars => Inv'
    BY <1>2
  <2> QED
    BY <1>1, <2>1, PTL DEF Spec
<1> QED
  BY <1>3, <1>4, PTL

-----------------------------------------------------------------------------
(* Confirmations and waiting calls.                                        *)

LEMMA FirstKept ==
    ASSUME Typed, FirstInUse, [Next]_vars
    PROVE  FirstInUse'
<1> SUFFICES ASSUME 1 \in openChannels'
             PROVE  /\ conn' = 1 /\ channel' = 1
                    /\ \A c \in Calls : call'[c].pc \notin {"connect", "assignConn"}
  BY DEF FirstInUse
<1>1. CASE UNCHANGED vars
  BY <1>1 DEF vars, fields, network, FirstInUse
<1>2. ASSUME NEW k \in Conns, Broker(k)
      PROVE  /\ conn' = 1 /\ channel' = 1
             /\ \A c \in Calls : call'[c].pc \notin {"connect", "assignConn"}
  BY <1>2 DEF Broker, BrokerTakes, BrokerRefuses, BrokerExecutes, ChannelException, ConnectionLost, Cut,
              fields, network, FirstInUse
<1>3. ASSUME NEW c \in Calls, Handler(c)
      PROVE  /\ conn' = 1 /\ channel' = 1
             /\ \A d \in Calls : call'[d].pc \notin {"connect", "assignConn"}
  <2>1. 1 \in openChannels
    <3>1. CASE Dial(c)
      <4>1. openChannels' = openChannels \cup {dialled + 1} /\ dialled + 1 # 1
        BY <3>1 DEF Dial, Typed
      <4> QED
        BY <4>1
    <3>2. CASE openChannels' = openChannels
      BY <3>2
    <3> QED
      BY <1>3, <3>1, <3>2
      DEF Handler, Proceed, AllGood, EnsureConnection, AssignConn, Panic, QueueOperation, AwaitReply,
          PublishAttempt, AwaitConfirmation, Receive, DialAgain, DialFails, ChannelFails, network
  <2>2. conn = 1 /\ channel = 1 /\ 1 \in openConns
        /\ call[c].pc \notin {"connect", "assignConn"}
    BY <2>1 DEF FirstInUse, Typed
  <2>3. conn' = 1 /\ channel' = 1
    BY <1>3, <2>2 DEF Handler, Proceed, AllGood, EnsureConnection, Dial, AssignConn, Panic,
                QueueOperation, AwaitReply, PublishAttempt, AwaitConfirmation, Receive, DialAgain,
                DialFails, ChannelFails, fields, At
  <2>4. /\ call'[c].pc \notin {"connect", "assignConn"}
        /\ \A d \in Calls : d # c => call'[d] = call[d]
    <3>1. CASE \E pc \in {"await", "ok", "failed", "panicked"} : Goto(c, pc)
      <4>1. PICK pc \in {"await", "ok", "failed", "panicked"} : Goto(c, pc)
        BY <3>1
      <4>2. pc \in PCs /\ pc \notin {"connect", "assignConn"}
        BY DEF PCs, Ended
      <4> QED
        BY <4>1, <4>2, GotoEffect
    <3>2. CASE Retry(c) \/ Connected(c) \/ QueueOperation(c) \/ AwaitReply(c)
      BY <3>2, RetryEffect, ConnectedEffect, QueueOperationEffect, AwaitReplyEffect
    <3>3. ~Dial(c) /\ ~AssignConn(c) /\ ~DialFails(c) /\ ~ChannelFails(c)
      BY <2>2 DEF Dial, AssignConn, DialAgain, DialFails, ChannelFails, At
    <3>4. CASE EnsureConnection(c)
      BY <2>2, <3>2, <3>4 DEF AllGood, EnsureConnection
    <3> QED
      BY <1>3, <3>1, <3>2, <3>3, <3>4
      DEF Handler, Proceed, Panic, PublishAttempt, AwaitConfirmation, Receive
  <2> QED
    BY <2>1, <2>3, <2>4 DEF FirstInUse
<1> QED
  BY <1>1, <1>2, <1>3 DEF Next, Quiet

\* A step of a call that neither publishes nor reads a confirmation.
LEMMA QuietBalance ==
    ASSUME ConfirmationsBalance, Waiting' = Waiting,
           1 \in openChannels' => 1 \in openChannels,
           confirms' = confirms, pending'[1] = pending[1]
    PROVE  ConfirmationsBalance'
BY DEF ConfirmationsBalance, Waiting

LEMMA HandlerBalance ==
    ASSUME BalanceInv, NEW c \in Calls, Handler(c)
    PROVE  ConfirmationsBalance'
<1> USE DEF BalanceInv
<1>1. CASE PublishAttempt(c)
  <2>1. CASE channel \in openChannels
    <3> SUFFICES ASSUME 1 \in openChannels
                 PROVE  ConfirmationsBalance'
      BY <1>1 DEF ConfirmationsBalance, PublishAttempt, network
    <3>1. channel = 1 /\ pending' = [pending EXCEPT ![1] = Append(pending[1], c)]
      BY <1>1, <2>1 DEF FirstInUse, PublishAttempt
    <3>2. Len(pending'[1]) = Len(pending[1]) + 1 /\ Len(pending[1]) \in Nat
      <4>1. pending[1] \in Seq(Messages) /\ c \in Messages
        BY <1>1, OneIsConnection DEF Typed, PublishAttempt
      <4>2. /\ Append(pending[1], c) \in Seq(Messages)
            /\ Len(Append(pending[1], c)) = Len(pending[1]) + 1 /\ Len(pending[1]) \in Nat
        BY <4>1
      <4>3. pending'[1] = Append(pending[1], c)
        BY <3>1, <4>2, OneIsConnection, PendingEffect
      <4> QED
        BY <4>2, <4>3
    <3>3. Cardinality(Waiting') = Cardinality(Waiting) + 1
      <4>1. "await" \in PCs /\ Goto(c, "await") /\ ~At(c, "await")
        BY <1>1, <2>1 DEF PCs, PublishAttempt, At
      <4> QED
        BY <4>1, GotoEffect, WaitingJoins
    <3>4. confirms' = confirms /\ Len(confirms) \in Nat /\ openChannels' = openChannels
      BY <1>1 DEF PublishAttempt, network, Typed
    <3> QED
      BY <3>2, <3>3, <3>4, WaitingFinite DEF ConfirmationsBalance, Waiting
  <2>2. CASE channel \notin openChannels
    <3>1. Retry(c) /\ ~At(c, "await")
      BY <1>1, <2>2 DEF PublishAttempt, At
    <3>2. Waiting' = Waiting
      BY <3>1, RetryEffect, WaitingKept
    <3> QED
      BY <1>1, <2>2, <3>2, QuietBalance DEF PublishAttempt, network
  <2> QED
    BY <2>1, <2>2
<1>2. CASE AwaitConfirmation(c)
  <2> SUFFICES ASSUME 1 \in openChannels
               PROVE  ConfirmationsBalance'
    BY <1>2 DEF ConfirmationsBalance, AwaitConfirmation, Receive, network
  <2>1. PICK ack \in BOOLEAN : Confirmed(ack) /\ (Goto(c, "ok") \/ Retry(c))
    BY <1>2 DEF AwaitConfirmation, Receive, Unconfirmable
  <2>2. Cardinality(Waiting') = Cardinality(Waiting) - 1
    <3>1. "ok" \in PCs /\ At(c, "await")
      BY <1>2 DEF PCs, Ended, AwaitConfirmation, Receive
    <3> QED
      BY <2>1, <3>1, GotoEffect, RetryEffect, WaitingLeaves
  <2>3. Len(confirms') = Len(confirms) - 1 /\ Len(confirms) \in Nat
    BY <2>1, ConfirmedEffect DEF Typed
  <2>4. pending' = pending /\ openChannels' = openChannels /\ Len(pending[1]) \in Nat
    BY <1>2, OneIsConnection DEF AwaitConfirmation, Receive, network, Typed
  <2> QED
    BY <2>2, <2>3, <2>4, WaitingFinite DEF ConfirmationsBalance, Waiting
<1>3. CASE EnsureConnection(c) \/ Dial(c) \/ AssignConn(c) \/ Panic(c)
           \/ QueueOperation(c) \/ AwaitReply(c) \/ DialFails(c) \/ ChannelFails(c)
  <2>1. Waiting' = Waiting
    <3>1. CASE \E pc \in PCs \ {"await"} : Goto(c, pc) /\ ~At(c, "await")
      BY <3>1, GotoEffect, WaitingKept
    <3>2. CASE Connected(c) /\ ~At(c, "await")
      BY <3>2, ConnectedEffect, WaitingKept
    <3>3. CASE Dial(c) \/ QueueOperation(c) \/ AwaitReply(c)
      BY <3>3, DialEffect, QueueOperationEffect, AwaitReplyEffect, WaitingKept
      DEF Dial, QueueOperation, AwaitReply, At
    <3>4. CASE call' = call
      BY <3>4 DEF Waiting, At
    <3> QED
      BY <1>3, <3>1, <3>2, <3>3, <3>4
      DEF AllGood, EnsureConnection, AssignConn, Panic, DialAgain, DialFails,
          ChannelFails, At, PCs, Ended
  <2>2. 1 \in openChannels' => 1 \in openChannels
    BY <1>3 DEF AllGood, EnsureConnection, Dial, AssignConn, Panic, QueueOperation, AwaitReply,
                DialAgain, DialFails, ChannelFails, network, Typed
  <2>3. confirms' = confirms /\ pending' = pending
    BY <1>3 DEF AllGood, EnsureConnection, Dial, AssignConn, Panic, QueueOperation, AwaitReply,
                DialAgain, DialFails, ChannelFails, traffic
  <2> QED
    BY <2>1, <2>2, <2>3, QuietBalance
<1> QED
  BY <1>1, <1>2, <1>3 DEF Handler, Proceed

LEMMA BrokerBalance ==
    ASSUME BalanceInv, NEW k \in Conns, Broker(k)
    PROVE  ConfirmationsBalance'
<1> USE DEF BalanceInv
<1>1. Waiting' = Waiting
  BY DEF Broker, BrokerTakes, BrokerRefuses, BrokerExecutes, ChannelException, ConnectionLost, Cut,
         Waiting, At
<1>2. ASSUME NEW ack \in BOOLEAN, pending[k] # <<>>, Confirm(k, ack),
             pending' = [pending EXCEPT ![k] = Tail(@)], openChannels' = openChannels
      PROVE  ConfirmationsBalance'
  <2>1. /\ pending[k] \in Seq(Messages) /\ Tail(pending[k]) \in Seq(Messages)
        /\ Len(Tail(pending[k])) = Len(pending[k]) - 1 /\ Len(pending[k]) \in Nat
    BY <1>2 DEF Typed
  <2>2. CASE k = 1
    <3>1. Len(pending'[1]) = Len(pending[1]) - 1
      BY <1>2, <2>1, <2>2, PendingEffect
    <3>2. Len(confirms') = Len(confirms) + 1 /\ Len(confirms) \in Nat
      BY <1>2, <2>2 DEF Confirm, Typed
    <3>3. openChannels' = openChannels /\ Len(pending[1]) \in Nat
      BY <1>2, <2>1, <2>2
    <3>4. Len(confirms') + Len(pending'[1]) = Len(confirms) + Len(pending[1])
      <4> DEFINE before == Len(confirms)
                 after == Len(confirms')
                 sent == Len(pending[1])
                 left == Len(pending'[1])
      <4>1. /\ before \in Int /\ sent \in Int
            /\ after = before + 1 /\ left = sent - 1
        BY <3>1, <3>2, <3>3
      <4> HIDE DEF before, after, sent, left
      <4>2. after + left = before + sent
        BY <4>1
      <4> QED
        BY <4>2 DEF before, after, sent, left
    <3> QED
      BY <1>1, <3>3, <3>4 DEF ConfirmationsBalance, Waiting
  <2>3. CASE k # 1
    BY <1>1, <1>2, <2>1, <2>3, OneIsConnection, PendingEffect, QuietBalance DEF Confirm
  <2> QED
    BY <2>2, <2>3
<1>3. CASE BrokerTakes(k)
  BY <1>2, <1>3 DEF BrokerTakes, network
<1>4. CASE BrokerRefuses(k)
  BY <1>2, <1>4 DEF BrokerRefuses, network
<1>5. CASE Cut(k)
  <2>1. CASE k = 1
    BY <1>5, <2>1 DEF Cut, ConfirmationsBalance
  <2>2. CASE k # 1
    <3>1. pending'[1] = pending[1]
      BY <1>5, <2>2, OneIsConnection DEF Cut, Typed
    <3> QED
      BY <1>1, <1>5, <3>1, QuietBalance DEF Cut
  <2> QED
    BY <2>1, <2>2
<1>6. CASE BrokerExecutes(k)
  BY <1>1, <1>6, QuietBalance DEF BrokerExecutes, network
<1> QED
  BY <1>3, <1>4, <1>5, <1>6 DEF Broker, ChannelException, ConnectionLost

LEMMA InitBalance == Init => BalanceInv
<1> SUFFICES ASSUME Init
             PROVE  BalanceInv
  OBVIOUS
<1>1. Waiting = {} /\ FirstInUse
  BY DEF Init, Waiting, At, FirstInUse
<1>2. Len(confirms) + Len(pending[1]) = 0
  BY OneIsConnection DEF Init
<1> QED
  BY <1>1, <1>2, InitTyped, FS_EmptySet DEF BalanceInv, ConfirmationsBalance, Waiting

LEMMA BalanceKept == BalanceInv /\ [Next]_vars => BalanceInv'
<1> SUFFICES ASSUME BalanceInv, [Next]_vars
             PROVE  BalanceInv'
  OBVIOUS
<1>1. Typed' /\ FirstInUse'
  BY NextTyped, FirstKept DEF BalanceInv
<1>2. CASE UNCHANGED vars
  BY <1>1, <1>2 DEF BalanceInv, ConfirmationsBalance, At, vars, network, traffic
<1> QED
  BY <1>1, <1>2, HandlerBalance, BrokerBalance DEF BalanceInv, Next, Quiet

(* As long as the first channel is open, every handler that waits for a    *)
(* confirmation will get one, though perhaps another's, and none is left   *)
(* over: for any number of calls, overlapping at will.                     *)
THEOREM ConfirmationsMatch == Spec => []ConfirmationsBalance
<1>1. BalanceInv => ConfirmationsBalance
  BY DEF BalanceInv
<1> QED
  BY <1>1, InitBalance, BalanceKept, PTL DEF Spec
=============================================================================
