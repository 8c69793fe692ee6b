-------------------------- MODULE AmqpSerial_proofs --------------------------
(***************************************************************************)
(* What holds of AmqpMiddleware when its calls do not overlap: a call that *)
(* returns nil was carried out, reconnecting leaves no connection open,    *)
(* and a call fails for the broker's refusals alone while the first        *)
(* channel is open.                                                        *)
(***************************************************************************)
EXTENDS AmqpOverlap_proofs

(* A call that is running is the one that takes the next step.             *)
LEMMA OnlyOneMoves ==
    ASSUME MaxRunning = 1, AloneRunning, NEW c \in Calls, Handler(c), NEW d \in Running
    PROVE  c = d
<1>1. CASE EnsureConnection(c)
  <2>1. Cardinality(Running) < 1
    BY <1>1 DEF EnsureConnection
  <2>2. IsFiniteSet(Running)
    BY CallsFinite, FS_Subset DEF Running
  <2>3. Running = {}
    BY <2>1, <2>2, FS_CardinalityType, FS_EmptySet
  <2> QED
    BY <2>3
<1>2. CASE ~EnsureConnection(c)
  <2>1. c \in Running
    BY <1>2 DEF Handler, Proceed, Dial, AssignConn, Panic, QueueOperation, AwaitReply,
                PublishAttempt, AwaitConfirmation, DialAgain, DialFails, ChannelFails,
                At, Running, Ended
  <2> QED
    BY <2>1 DEF AloneRunning
<1> QED
  BY <1>1, <1>2

\* The calls that are underway are running.
LEMMA UnderwayRuns == \A c \in Calls : call[c].pc \in Underway => c \in Running
BY DEF Underway, Running, Ended

(* The only publisher that can wait is the call that is running.           *)
LEMMA WaitingAlone ==
    ASSUME AloneRunning, NEW c \in Running
    PROVE  /\ At(c, "await") => Waiting = {c} /\ Cardinality(Waiting) = 1
           /\ ~At(c, "await") => Waiting = {} /\ Cardinality(Waiting) = 0
<1>1. Waiting \subseteq {c}
  BY UnderwayRuns DEF Waiting, At, AloneRunning, Underway
<1>2. c \in Calls
  BY DEF Running
<1>3. ASSUME At(c, "await")
      PROVE  Waiting = {c}
  BY <1>1, <1>2, <1>3 DEF Waiting
<1>4. ASSUME ~At(c, "await")
      PROVE  Waiting = {}
  BY <1>1, <1>4 DEF Waiting
<1> QED
  BY <1>3, <1>4, FS_Singleton, FS_EmptySet

\* What is on the way on one channel, one by one.
LEMMA SentPoints ==
    ASSUME NEW S, NEW way, NEW new, NEW k, NEW x, Sent(S, way, new, k, x)
    PROVE  /\ Len(way[k]) \in Nat /\ Len(new[k]) = Len(way[k]) + 1
           /\ new[k][Len(way[k]) + 1] = x
           /\ \A i \in 1..Len(way[k]) : new[k][i] = way[k][i]
<1>1. way[k] \in Seq(S) /\ x \in S /\ new[k] = Append(way[k], x)
  BY DEF Sent
<1> QED
  BY <1>1

LEMMA TakenPoints ==
    ASSUME NEW S, NEW way, NEW new, NEW k, Taken(S, way, new, k)
    PROVE  /\ Len(way[k]) \in Nat \ {0} /\ Len(new[k]) = Len(way[k]) - 1
           /\ way[k][1] = Head(way[k]) /\ 1 \in 1..Len(way[k])
           /\ \A i \in 1..Len(new[k]) : new[k][i] = way[k][i + 1] /\ i + 1 \in 1..Len(way[k])
<1>1. way[k] \in Seq(S) /\ way[k] # <<>> /\ new[k] = Tail(way[k])
  BY DEF Taken
<1> QED
  BY <1>1

LEMMA DroppedPoints ==
    ASSUME NEW S, NEW way, NEW new, NEW k, Dropped(S, way, new, k)
    PROVE  Len(new[k]) = 0
BY DEF Dropped

\* What a channel that is cut carried is gone.
LEMMA CutDrops ==
    ASSUME TypeInv, NEW k \in Conns, Cut(k)
    PROVE  /\ Dropped(Messages, pending, pending', k)
           /\ Dropped(Operations, requested, requested', k)
           /\ UNCHANGED <<confirms, replies, call>> /\ openChannels' = openChannels \ {k}
<1>1. pending \in [Conns -> Seq(Messages)] /\ requested \in [Conns -> Seq(Operations)]
  BY DEF TypeInv, TypeOK
<1>2. /\ pending' = [pending EXCEPT ![k] = <<>>] /\ requested' = [requested EXCEPT ![k] = <<>>]
      /\ UNCHANGED <<confirms, replies, call>> /\ openChannels' = openChannels \ {k}
  BY DEF Cut
<1>3. Dropped(Messages, pending, pending', k)
  BY <1>1, <1>2, WayChanges
<1>4. Dropped(Operations, requested, requested', k)
  BY <1>1, <1>2, WayChanges
<1> QED
  BY <1>2, <1>3, <1>4

-----------------------------------------------------------------------------
(* Confirmations.  There are never more, delivered or to come, than        *)
(* publishers that wait, and each is for one that waits.                   *)
PromptInv ==
    /\ Len(confirms) + Len(pending[1]) <= Cardinality(Waiting)
    /\ \A i \in 1..Len(pending[1]) : At(pending[1][i], "await")
    /\ \A i \in 1..Len(confirms) :
          /\ At(confirms[i].msg, "await")
          /\ confirms[i].ack => copies[confirms[i].msg] > 0

LEMMA LengthsNat ==
    ASSUME TypeInv
    PROVE  Len(confirms) \in Nat /\ Len(pending[1]) \in Nat /\ pending[1] \in Seq(Messages)
<1>1. confirms \in Seq([msg : Messages, ack : BOOLEAN]) /\ pending[1] \in Seq(Messages)
  BY OneIsConnection DEF TypeInv, TypeOK
<1> QED
  BY <1>1, LenProperties

LEMMA PublishPrompt ==
    ASSUME TypeInv, FirstInUse, AloneRunning, PromptInv, NEW c \in Calls, PublishAttempt(c)
    PROVE  PromptInv'
<1>1. /\ call' \in [Calls -> CallType] /\ Others(c) /\ call[c].pc = "use"
      /\ UNCHANGED <<conn, channel, network, confirms, copies, faults>>
      /\ \/ /\ channel \in openChannels /\ call'[c].pc = "await"
            /\ Sent(Messages, pending, pending', channel, c)
         \/ channel \notin openChannels /\ Retry(c) /\ UNCHANGED pending
  BY MessageSent
<1>2. Cardinality(Waiting) = 0
  BY <1>1, UnderwayRuns, WaitingAlone DEF Underway, At
<1>3. Len(confirms) = 0 /\ Len(pending[1]) = 0
  BY <1>2, LengthsNat DEF PromptInv
<1>4. CASE call'[c].pc = "await" /\ Sent(Messages, pending, pending', channel, c)
  <2>1. Cardinality(Waiting') = 1
    BY <1>1, <1>2, <1>4, WaitingJoins DEF At, Others
  <2>2. Len(pending'[1]) <= 1 /\ \A i \in 1..Len(pending'[1]) : pending'[1][i] = c
    <3>1. CASE channel = 1
      <4>1. Sent(Messages, pending, pending', 1, c)
        BY <1>4, <3>1
      <4>2. /\ Len(pending'[1]) = Len(pending[1]) + 1
            /\ pending'[1][Len(pending[1]) + 1] = c
        BY <4>1, SentPoints
      <4> QED
        BY <1>3, <4>2
    <3>2. CASE channel # 1
      <4>1. pending'[1] = pending[1]
        BY <1>4, <3>2, OneIsConnection DEF Sent
      <4> QED
        BY <1>3, <4>1
    <3> QED
      BY <3>1, <3>2
  <2>3. Len(pending'[1]) \in Nat
    BY <1>4, OneIsConnection, LenProperties DEF Sent
  <2> QED
    BY <1>1, <1>3, <1>4, <2>1, <2>2, <2>3 DEF PromptInv, At
<1>5. CASE Retry(c) /\ UNCHANGED pending
  <2>1. 1..Len(pending'[1]) = {} /\ 1..Len(confirms') = {} /\ Len(confirms') + Len(pending'[1]) = 0
    BY <1>1, <1>3, <1>5
  <2>2. call'[c].pc # "await"
    BY <1>5, CallTyped, RetryMoves
  <2>3. Waiting' = Waiting
    BY <1>1, <2>2, WaitingKept DEF Others, At
  <2> QED
    BY <1>2, <2>1, <2>3 DEF PromptInv
<1> QED
  BY <1>1, <1>4, <1>5

LEMMA ReadPrompt ==
    ASSUME TypeInv, AloneRunning, PromptInv, NEW c \in Calls, AwaitConfirmation(c)
    PROVE  PromptInv'
<1>1. /\ call' \in [Calls -> CallType] /\ Others(c) /\ call[c].pc = "await"
      /\ UNCHANGED <<pending, copies>>
      /\ \/ confirms # <<>> /\ confirms' = Tail(confirms) /\ (call'[c].pc = "ok" \/ Retry(c))
         \/ confirms = <<>> /\ 1 \notin openChannels /\ UNCHANGED confirms /\ Retry(c)
  BY ConfirmationRead
<1>2. call'[c].pc # "await"
  BY <1>1, CallTyped, RetryMoves
<1>3. Cardinality(Waiting) = 1 /\ Cardinality(Waiting') = 0
  BY <1>1, <1>2, UnderwayRuns, WaitingAlone, WaitingLeaves DEF Underway, At, Others
<1>4. Len(confirms') = 0 /\ Len(pending[1]) = 0
  <2>1. CASE confirms # <<>> /\ confirms' = Tail(confirms)
    <3>1. Len(confirms') = Len(confirms) - 1 /\ Len(confirms) \in Nat \ {0}
      BY <2>1, RestOfConfirms
    <3> QED
      BY <1>3, <3>1, LengthsNat DEF PromptInv
  <2>2. CASE confirms = <<>> /\ 1 \notin openChannels /\ UNCHANGED confirms
    BY <2>2, OneIsConnection DEF TypeInv, ClosedEmpty
  <2> QED
    BY <1>1, <2>1, <2>2
<1>5. 1..Len(confirms') = {} /\ 1..Len(pending'[1]) = {}
  BY <1>1, <1>4
<1> QED
  BY <1>1, <1>3, <1>4, <1>5 DEF PromptInv

LEMMA AsidePrompt ==
    ASSUME TypeInv, PromptInv, NEW c \in Calls, Handler(c),
           ~PublishAttempt(c), ~AwaitConfirmation(c)
    PROVE  PromptInv'
<1>1. /\ Others(c) /\ call[c].pc # "await" /\ call'[c].pc # "await"
      /\ UNCHANGED <<confirms, pending, copies>>
  BY NoConfirmationMoves
<1>2. Waiting' = Waiting
  BY <1>1, WaitingKept DEF Others, At
<1>3. \A m \in Messages : At(m, "await") => At(m, "await")'
  BY <1>1, KindsOfCalls DEF Others, At
<1>4. /\ \A i \in 1..Len(pending[1]) : pending[1][i] \in Messages
      /\ \A i \in 1..Len(confirms) : confirms[i].msg \in Messages
  <2>1. confirms \in Seq([msg : Messages, ack : BOOLEAN])
    BY DEF TypeInv, TypeOK
  <2>2. \A i \in 1..Len(confirms) : confirms[i] \in [msg : Messages, ack : BOOLEAN]
    BY <2>1, ElementOfSeq
  <2> QED
    BY <2>2, LengthsNat, ElementOfSeq
<1> QED
  BY <1>1, <1>2, <1>3, <1>4 DEF PromptInv

LEMMA BrokerPrompt ==
    ASSUME TypeInv, PromptInv, NEW k \in Conns, Broker(k)
    PROVE  PromptInv'
<1>1. call' = call /\ Waiting' = Waiting
  BY BrokerFrame DEF Waiting, At
<1>2. \A c \in Calls : copies[c] \in Nat /\ copies'[c] \in Nat /\ copies'[c] >= copies[c]
  BY CopiesGrow DEF Next
<1>3. \A i \in 1..Len(confirms) : confirms[i].msg \in Calls
  <2>1. confirms \in Seq([msg : Messages, ack : BOOLEAN])
    BY DEF TypeInv, TypeOK
  <2>2. \A i \in 1..Len(confirms) : confirms[i] \in [msg : Messages, ack : BOOLEAN]
    BY <2>1, ElementOfSeq
  <2> QED
    BY <2>2, KindsOfCalls
<1>4. CASE UNCHANGED confirms /\ pending'[1] = pending[1]
  BY <1>1, <1>2, <1>3, <1>4 DEF PromptInv, At
<1>5. CASE BrokerTakes(k) \/ BrokerRefuses(k)
  <2> DEFINE m == Head(pending[k])
  <2>1. m \in Messages /\ Taken(Messages, pending, pending', k)
    BY <1>5, MessageDealtWith
  <2>2. CASE k # 1
    <3>1. confirms' = confirms
      BY <1>5, <2>2, MessageDealtWith
    <3>2. pending'[1] = pending[1]
      BY <2>1, <2>2, OneIsConnection DEF Taken
    <3> QED
      BY <1>4, <3>1, <3>2
  <2>3. CASE k = 1
    <3>1. PICK answer \in [msg : Messages, ack : BOOLEAN] :
             /\ confirms' = Append(confirms, answer) /\ answer.msg = m
             /\ answer.ack => copies'[m] > 0
      <4>1. CASE BrokerTakes(k)
        <5> DEFINE answer == [msg |-> m, ack |-> TRUE]
        <5>1. copies'[m] = copies[m] + 1 /\ confirms' = Append(confirms, answer)
          BY <2>3, <4>1, MessageDealtWith
        <5>2. copies'[m] > 0
          BY <1>2, <2>1, <5>1, KindsOfCalls
        <5>3. answer \in [msg : Messages, ack : BOOLEAN] /\ answer.msg = m
          BY <2>1
        <5> HIDE DEF answer
        <5> QED
          BY <5>1, <5>2, <5>3
      <4>2. CASE BrokerRefuses(k)
        <5> DEFINE answer == [msg |-> m, ack |-> FALSE]
        <5>1. confirms' = Append(confirms, answer)
          BY <2>3, <4>2, MessageDealtWith
        <5>2. answer \in [msg : Messages, ack : BOOLEAN] /\ answer.msg = m /\ ~answer.ack
          BY <2>1
        <5> HIDE DEF answer
        <5> QED
          BY <5>1, <5>2
      <4> QED
        BY <1>5, <4>1, <4>2
    <3>2. /\ Len(confirms') = Len(confirms) + 1 /\ Len(confirms) \in Nat
          /\ confirms'[Len(confirms) + 1] = answer
          /\ \A i \in 1..Len(confirms) : confirms'[i] = confirms[i]
      BY <3>1, MoreConfirms
    <3>3. /\ Len(pending[1]) \in Nat \ {0} /\ Len(pending'[1]) = Len(pending[1]) - 1
          /\ pending[1][1] = m /\ 1 \in 1..Len(pending[1])
          /\ \A i \in 1..Len(pending'[1]) : /\ pending'[1][i] = pending[1][i + 1]
                                            /\ i + 1 \in 1..Len(pending[1])
      BY <2>1, <2>3, TakenPoints
    <3> HIDE DEF m
    <3>4. At(m, "await")
      BY <3>3 DEF PromptInv
    <3>5. Len(confirms') + Len(pending'[1]) <= Cardinality(Waiting')
      <4>1. Len(confirms) + Len(pending[1]) <= Cardinality(Waiting)
        BY DEF PromptInv
      <4> DEFINE read == Len(confirms)
                 sent == Len(pending[1])
      <4>2. /\ Len(confirms') = read + 1 /\ Len(pending'[1]) = sent - 1
            /\ read \in Nat /\ sent \in Nat
        BY <3>2, <3>3
      <4> HIDE DEF read, sent
      <4>3. Len(confirms') + Len(pending'[1]) = read + sent
        BY <4>2
      <4> QED
        BY <1>1, <4>1, <4>3 DEF read, sent
    <3>6. \A i \in 1..Len(pending'[1]) : call'[pending'[1][i]].pc = "await"
      BY <1>1, <3>3 DEF PromptInv, At
    <3>7. \A i \in 1..Len(confirms') : i \in 1..Len(confirms) \/ i = Len(confirms) + 1
      BY <3>2
    <3>8. \A i \in 1..Len(confirms') : /\ call'[confirms'[i].msg].pc = "await"
                                       /\ confirms'[i].ack => copies'[confirms'[i].msg] > 0
      BY <1>1, <1>2, <1>3, <3>1, <3>2, <3>4, <3>7 DEF PromptInv, At
    <3> QED
      BY <3>5, <3>6, <3>8 DEF PromptInv, At
  <2> QED
    BY <2>2, <2>3
<1>6. CASE BrokerExecutes(k)
  BY <1>4, <1>6 DEF BrokerExecutes
<1>7. CASE Cut(k)
  <2>1. Dropped(Messages, pending, pending', k) /\ UNCHANGED confirms
    BY <1>7, CutDrops
  <2>2. CASE k = 1
    <3>1. Len(pending'[1]) = 0 /\ 1..Len(pending'[1]) = {}
      BY <2>1, <2>2, DroppedPoints
    <3>2. Cardinality(Waiting) \in Nat
      BY WaitingFinite
    <3> QED
      BY <1>1, <1>2, <1>3, <2>1, <3>1, <3>2, LengthsNat DEF PromptInv, At
  <2>3. CASE k # 1
    <3>1. pending'[1] = pending[1]
      BY <2>1, <2>3, OneIsConnection DEF Dropped
    <3> QED
      BY <1>4, <2>1, <3>1
  <2> QED
    BY <2>2, <2>3
<1> QED
  BY <1>5, <1>6, <1>7 DEF Broker, ChannelException, ConnectionLost

LEMMA PromptKept ==
    ASSUME TypeInv, FirstInUse, AloneRunning, PromptInv, [Next]_vars
    PROVE  PromptInv'
<1>1. CASE UNCHANGED vars
  BY <1>1 DEF vars, traffic, PromptInv, Waiting, At
<1> QED
  BY <1>1, PublishPrompt, ReadPrompt, AsidePrompt, BrokerPrompt DEF Next, Quiet

-----------------------------------------------------------------------------
(* Replies.  What is requested and answered on the channel of an operation *)
(* that waits is that operation.                                           *)
OwnReplies ==
    \A c \in Calls : At(c, "reply") =>
        /\ \A i \in 1..Len(requested[call[c].on]) : requested[call[c].on][i] = c
        /\ \A i \in 1..Len(replies[call[c].on]) : replies[call[c].on][i] = c

LEMMA RequestOwn ==
    ASSUME MaxRunning = 1, TypeInv, RepliesBalance, AloneRunning, OwnReplies,
           NEW c \in Calls, QueueOperation(c)
    PROVE  OwnReplies'
<1>1. /\ Others(c) /\ call[c].pc = "use" /\ UNCHANGED replies
      /\ \/ /\ channel \in openChannels /\ call'[c].pc = "reply" /\ call'[c].on = channel
            /\ Sent(Operations, requested, requested', channel, c)
         \/ call'[c].pc = "failed"
  BY RequestSent
<1>2. \A d \in Calls : d # c => call'[d].pc # "reply"
  BY <1>1, UnderwayRuns DEF Others, AloneRunning, Underway
<1>3. CASE call'[c].pc = "failed"
  BY <1>2, <1>3 DEF OwnReplies, At
<1>4. CASE /\ channel \in openChannels /\ call'[c].pc = "reply" /\ call'[c].on = channel
           /\ Sent(Operations, requested, requested', channel, c)
  <2>1. Expecting(channel) = {}
    BY <1>1, UnderwayRuns DEF Expecting, AloneRunning, Underway, At
  <2>2. channel \in Conns
    BY <1>4 DEF Sent
  <2>3. Due(channel) = 0
    BY <1>4, <2>1, BalanceMeansDue, FS_EmptySet
  <2>4. Len(requested[channel]) = 0 /\ Len(replies[channel]) = 0
    <3> DEFINE sent == Len(requested[channel])
               back == Len(replies[channel])
    <3>1. sent \in Nat /\ back \in Nat
      BY <2>2, WayLengths
    <3>2. sent + back = 0
      BY <2>3 DEF Due
    <3> HIDE DEF sent, back
    <3>3. sent = 0 /\ back = 0
      BY <3>1, <3>2
    <3> QED
      BY <3>3 DEF sent, back
  <2>5. /\ Len(requested'[channel]) = Len(requested[channel]) + 1
        /\ requested'[channel][Len(requested[channel]) + 1] = c
    BY <1>4, SentPoints
  <2>6. \A i \in 1..Len(requested'[channel]) : requested'[channel][i] = c
    BY <2>4, <2>5
  <2>7. \A i \in 1..Len(replies'[channel]) : replies'[channel][i] = c
    BY <1>1, <2>4
  <2> QED
    BY <1>2, <1>4, <2>6, <2>7 DEF OwnReplies, At
<1> QED
  BY <1>1, <1>3, <1>4

LEMMA HandlerOwn ==
    ASSUME MaxRunning = 1, TypeInv, RepliesBalance, AloneRunning, OwnReplies,
           NEW c \in Calls, Handler(c)
    PROVE  OwnReplies'
<1>1. CASE QueueOperation(c)
  BY <1>1, RequestOwn
<1>2. CASE ~QueueOperation(c)
  <2>1. Others(c) /\ call'[c].pc # "reply"
    <3>1. CASE AwaitReply(c)
      BY <3>1, CallTyped, AwaitReplyMoves
    <3>2. CASE ~AwaitReply(c)
      BY <1>2, <3>2, AsideMoves
    <3> QED
      BY <3>1, <3>2
  <2>2. \A d \in Calls : call'[d].pc # "reply"
    <3> SUFFICES ASSUME NEW d \in Calls, call'[d].pc = "reply"
                 PROVE  FALSE
      OBVIOUS
    <3>1. call[d].pc = "reply" /\ d # c
      BY <2>1 DEF Others
    <3>2. d \in Running
      BY <3>1, UnderwayRuns DEF Underway
    <3> QED
      BY <3>1, <3>2, OnlyOneMoves
  <2> QED
    BY <2>2 DEF OwnReplies, At
<1> QED
  BY <1>1, <1>2

LEMMA BrokerOwn ==
    ASSUME TypeInv, OwnReplies, NEW k \in Conns, Broker(k)
    PROVE  OwnReplies'
<1>1. call' = call
  BY BrokerFrame
<1> SUFFICES ASSUME NEW c \in Calls, call[c].pc = "reply"
             PROVE  LET j == call[c].on IN
                    /\ \A i \in 1..Len(requested'[j]) : requested'[j][i] = c
                    /\ \A i \in 1..Len(replies'[j]) : replies'[j][i] = c
  BY <1>1 DEF OwnReplies, At
<1> DEFINE j == call[c].on
<1>2. j \in Conns
  BY CallTyped
<1>3. /\ \A i \in 1..Len(requested[j]) : requested[j][i] = c
      /\ \A i \in 1..Len(replies[j]) : replies[j][i] = c
  BY DEF OwnReplies, At
<1> HIDE DEF j
<1>4. CASE UNCHANGED replies /\ (requested'[j] = requested[j] \/ Len(requested'[j]) = 0)
  <2>1. 1..0 = {}
    OBVIOUS
  <2> QED
    BY <1>3, <1>4, <2>1 DEF j
<1>5. CASE BrokerTakes(k) \/ BrokerRefuses(k)
  BY <1>4, <1>5 DEF BrokerTakes, BrokerRefuses, rpc
<1>6. CASE BrokerExecutes(k)
  <2> DEFINE d == Head(requested[k])
  <2>1. /\ Taken(Operations, requested, requested', k)
        /\ Sent(Operations, replies, replies', k, d)
    BY <1>6, RequestExecuted
  <2>2. CASE j # k
    <3>1. requested'[j] = requested[j] /\ replies'[j] = replies[j]
      BY <1>2, <2>1, <2>2 DEF Taken, Sent
    <3> QED
      BY <1>3, <3>1 DEF j
  <2>3. CASE j = k
    <3>1. /\ requested[k][1] = d /\ 1 \in 1..Len(requested[k])
          /\ \A i \in 1..Len(requested'[k]) : /\ requested'[k][i] = requested[k][i + 1]
                                              /\ i + 1 \in 1..Len(requested[k])
      BY <2>1, TakenPoints
    <3> HIDE DEF d
    <3>2. /\ Len(replies[k]) \in Nat /\ Len(replies'[k]) = Len(replies[k]) + 1
          /\ replies'[k][Len(replies[k]) + 1] = d
          /\ \A i \in 1..Len(replies[k]) : replies'[k][i] = replies[k][i]
      BY <2>1, SentPoints
    <3>3. \A i \in 1..Len(requested'[k]) : requested'[k][i] = c
      BY <1>3, <2>3, <3>1
    <3>4. d = c
      BY <1>3, <2>3, <3>1
    <3>5. \A i \in 1..Len(replies'[k]) : i \in 1..Len(replies[k]) \/ i = Len(replies[k]) + 1
      BY <3>2
    <3>6. \A i \in 1..Len(replies'[k]) : replies'[k][i] = c
      BY <1>3, <2>3, <3>2, <3>4, <3>5
    <3> QED
      BY <2>3, <3>3, <3>6 DEF j
  <2> QED
    BY <2>2, <2>3
<1>7. CASE Cut(k)
  <2>1. Dropped(Operations, requested, requested', k) /\ UNCHANGED replies
    BY <1>7, CutDrops
  <2>2. requested'[j] = requested[j] \/ Len(requested'[j]) = 0
    BY <1>2, <2>1, DroppedPoints DEF Dropped
  <2> QED
    BY <1>4, <2>1, <2>2
<1> QED
  BY <1>5, <1>6, <1>7 DEF Broker, ChannelException, ConnectionLost

LEMMA OwnKept ==
    ASSUME MaxRunning = 1, TypeInv, RepliesBalance, AloneRunning, OwnReplies, [Next]_vars
    PROVE  OwnReplies'
<1>1. CASE UNCHANGED vars
  BY <1>1 DEF vars, traffic, rpc, OwnReplies, At
<1> QED
  BY <1>1, HandlerOwn, BrokerOwn DEF Next, Quiet

-----------------------------------------------------------------------------
(* Success.                                                                *)

LEMMA DoneKept ==
    ASSUME TypeInv, AloneRunning, PromptInv, OnceInv, OwnReplies, OkMeansDone, [Next]_vars
    PROVE  OkMeansDone'
<1>1. \A c \in Calls : copies[c] \in Nat /\ copies'[c] \in Nat /\ copies'[c] >= copies[c]
  BY CopiesGrow
<1>2. ASSUME call' = call
      PROVE  OkMeansDone'
  BY <1>1, <1>2 DEF OkMeansDone, At
<1>3. ASSUME NEW c \in Calls, Handler(c)
      PROVE  OkMeansDone'
  <2> SUFFICES ASSUME call'[c].pc = "ok"
               PROVE  copies[c] > 0
    <3>1. Others(c) /\ UNCHANGED copies
      BY <1>3, WhereTo
    <3> QED
      BY <3>1 DEF OkMeansDone, At, Others
  <2>1. /\ AwaitConfirmation(c) \/ AwaitReply(c)
        /\ c \in Running
    BY <1>3, WhereTo, UnderwayRuns DEF Underway
  <2>2. CASE AwaitConfirmation(c)
    <3>1. confirms # <<>> /\ confirms' = Tail(confirms) /\ Head(confirms).ack
      BY <2>2, ConfirmationRead, CallTyped, RetryMoves
    <3>2. confirms[1] = Head(confirms) /\ 1 \in 1..Len(confirms)
      BY <3>1, RestOfConfirms
    <3>3. At(confirms[1].msg, "await") /\ copies[confirms[1].msg] > 0
      BY <3>1, <3>2 DEF PromptInv
    <3>4. confirms[1].msg \in Calls
      <4>1. confirms \in Seq([msg : Messages, ack : BOOLEAN])
        BY DEF TypeInv, TypeOK
      <4>2. confirms[1] \in [msg : Messages, ack : BOOLEAN]
        BY <3>2, <4>1, ElementOfSeq
      <4> QED
        BY <4>2, KindsOfCalls
    <3>5. confirms[1].msg \in Running
      BY <3>3, <3>4, UnderwayRuns DEF At, Underway
    <3> QED
      BY <2>1, <3>3, <3>5 DEF AloneRunning
  <2>3. CASE AwaitReply(c)
    <3> DEFINE k == call[c].on
    <3>1. k \in Conns /\ call[c].pc = "reply" /\ Taken(Operations, replies, replies', k)
      BY <2>3, ReplyTaken
    <3>2. 1 \in 1..Len(replies[k])
      BY <3>1, TakenPoints
    <3>3. replies[k][1] = c
      BY <3>1, <3>2 DEF OwnReplies, At
    <3>4. Place(replies, k, 1, c)
      BY <3>1, <3>2, <3>3 DEF Place
    <3>5. c \in OnWay(replies)
      BY <3>1, <3>4, OnWayPlaces DEF Taken
    <3> QED
      BY <3>5 DEF OnceInv
  <2> QED
    BY <2>1, <2>2, <2>3
<1> QED
  BY <1>2, <1>3, BrokerFrame DEF Next, Quiet, vars

(* What holds of calls that do not overlap.                                *)
AloneInv ==
    /\ TypeInv /\ BalanceInv /\ AloneRunning
    /\ PromptInv /\ RepliesBalance /\ OwnReplies

LEMMA InitAlone == Init => AloneInv
<1> SUFFICES ASSUME Init
             PROVE  AloneInv
  OBVIOUS
<1>1. TypeInv /\ BalanceInv
  BY InitTypeInv, InitBalance
<1>2. Running = {} /\ Waiting = {} /\ \A c \in Calls : ~At(c, "reply")
  BY DEF Init, Running, Waiting, At
<1>3. Len(confirms) = 0 /\ Len(pending[1]) = 0 /\ 1..0 = {}
  BY OneIsConnection DEF Init
<1>4. PromptInv
  BY <1>2, <1>3, FS_EmptySet DEF PromptInv
<1>5. RepliesBalance
  <2> SUFFICES ASSUME NEW k \in openChannels
               PROVE  Due(k) = Cardinality(Expecting(k))
    BY BalanceMeansDue
  <2>1. Expecting(k) = {} /\ k \in Conns
    BY <1>1, <1>2 DEF Expecting, TypeInv, TypeOK
  <2>2. Due(k) = 0
    BY <2>1 DEF Due, Init
  <2> QED
    BY <2>1, <2>2, FS_EmptySet
<1> QED
  BY <1>1, <1>2, <1>4, <1>5 DEF AloneInv, AloneRunning, OwnReplies

LEMMA StaysAlone == MaxRunning = 1 /\ AloneInv /\ [Next]_vars => AloneInv'
BY NextTypeInv, BalanceKept, AloneKept, PromptKept, RepliesKept, OwnKept
   DEF AloneInv, BalanceInv

(* Without overlap a publish returns nil only for a message the broker has *)
(* taken, and a queue operation only when it was executed, whatever        *)
(* connections, channels and confirmations are lost.                       *)
THEOREM SerialOkMeansDone == MaxRunning = 1 /\ Spec => []OkMeansDone
<1> DEFINE Inv == AloneInv /\ OnceInv /\ OkMeansDone
<1>1. Init => Inv
  BY InitAlone, InitOnce DEF Init, OkMeansDone, At
<1>2. MaxRunning = 1 /\ Inv /\ [Next]_vars => Inv'
  BY StaysAlone, OnceKept, DoneKept DEF AloneInv
<1>3. MaxRunning = 1 /\ Spec => []Inv
  <2> SUFFICES ASSUME MaxRunning = 1
               PROVE  Spec => []Inv
    OBVIOUS
  <2>1. Inv /\ [Next]_vars => Inv'
    BY <1>2
  <2> QED
    BY <1>1, <2>1, PTL DEF Spec
<1> QED
  BY <1>3, PTL

-----------------------------------------------------------------------------
(* Connections.  Besides the one in use no connection is open that was     *)
(* not left without a channel: while a call is in Connect none is in use,  *)
(* and until m.conn is assigned it is the new one.                         *)
Reconnecting(pc) == \E c \in Calls : At(c, pc)

SpareInv ==
    /\ \A c \in Calls : At(c, "connect") => Cardinality(openConns) <= faults.channel
    /\ \A c \in Calls :
          At(c, "assignConn") => Cardinality(openConns \ {call[c].on}) <= faults.channel
    /\ ~Reconnecting("connect") /\ ~Reconnecting("assignConn") =>
          Cardinality(openConns \ {conn}) <= faults.channel

LEMMA ConnsFinite ==
    /\ \A S : S \subseteq Conns => IsFiniteSet(S) /\ Cardinality(S) \in Nat
    /\ \A S, T : T \subseteq Conns /\ S \subseteq T => Cardinality(S) <= Cardinality(T)
    /\ \A S, x : S \subseteq Conns => Cardinality(S) <= Cardinality(S \ {x}) + 1
<1>1. IsFiniteSet(Conns)
  BY CallsFinite, MiddlewareAssumption, FS_Interval DEF Conns
<1>2. \A S : S \subseteq Conns => IsFiniteSet(S)
  BY <1>1, FS_Subset
<1>3. \A S : S \subseteq Conns => Cardinality(S) \in Nat
  BY <1>2, FS_CardinalityType
<1>4. \A S, T : T \subseteq Conns /\ S \subseteq T => Cardinality(S) <= Cardinality(T)
  BY <1>2, FS_Subset
<1>5. ASSUME NEW S, NEW x, S \subseteq Conns
      PROVE  Cardinality(S) <= Cardinality(S \ {x}) + 1
  <2>1. CASE x \in S
    <3>1. Cardinality(S \ {x}) = Cardinality(S) - 1
      BY <1>2, <1>5, <2>1, FS_RemoveElement
    <3> QED
      BY <1>3, <1>5, <3>1
  <2>2. CASE x \notin S
    <3>1. S \ {x} = S
      BY <2>2
    <3> QED
      BY <1>3, <1>5, <3>1
  <2> QED
    BY <2>1, <2>2
<1> QED
  BY <1>2, <1>3, <1>4, <1>5

\* A step of the only running call that reconnects neither before nor after it.
LEMMA SpareFrame ==
    ASSUME TypeInv, SpareInv, NEW c \in Calls, Others(c),
           \A d \in Calls : call[d].pc \in {"connect", "assignConn"} => d = c,
           call[c].pc \notin {"connect", "assignConn"},
           call'[c].pc \notin {"connect", "assignConn"},
           UNCHANGED <<conn, openConns, faults>>
    PROVE  SpareInv'
<1>1. \A d \in Calls : call[d].pc \notin {"connect", "assignConn"}
  OBVIOUS
<1>2. \A d \in Calls : call'[d].pc \notin {"connect", "assignConn"}
  BY <1>1 DEF Others
<1>3. Cardinality(openConns \ {conn}) <= faults.channel
  BY <1>1 DEF SpareInv, Reconnecting, At
<1> QED
  BY <1>2, <1>3 DEF SpareInv, Reconnecting, At

LEMMA SpareHandler ==
    ASSUME MaxRunning = 1, TypeInv, AloneRunning, NilMeansConnecting, SpareInv,
           NEW c \in Calls, Handler(c)
    PROVE  SpareInv'
<1>1. \A d \in Calls : call[d].pc \in {"connect", "assignConn"} => d = c
  BY OnlyOneMoves, UnderwayRuns DEF Underway
<1>2. /\ call' \in [Calls -> CallType] /\ Others(c)
      /\ call \in [Calls -> CallType] /\ "connect" \in PCs
  BY WhereTo, CallTyped DEF PCs
<1>3. \A d \in Calls : d # c => call'[d].pc \notin {"connect", "assignConn"}
  BY <1>1, <1>2 DEF Others
<1>4. openConns \subseteq Conns /\ faults.channel \in Nat
  BY MiddlewareAssumption DEF TypeInv, TypeOK, AllFaultKinds
<1>5. CASE EnsureConnection(c)
  <2>1. /\ call[c].pc = "new" /\ UNCHANGED <<conn, openConns, faults>>
        /\ \/ AllGood /\ Connected(c)
           \/ ~AllGood /\ Goto(c, "connect")
    BY <1>5 DEF EnsureConnection, At, fields, network
  <2>2. CASE AllGood /\ Connected(c)
    BY <1>1, <1>2, <2>1, <2>2, ConnectedMoves, SpareFrame
  <2>3. CASE ~AllGood /\ Goto(c, "connect")
    <3>1. \A d \in Calls : call[d].pc \notin {"connect", "assignConn"}
      BY <1>1, <2>1
    <3>2. channel # 0
      BY <3>1 DEF NilMeansConnecting, At
    <3>3. openConns \ {conn} = openConns
      BY <2>3, <3>2 DEF AllGood
    <3>4. Cardinality(openConns) <= faults.channel
      BY <3>1, <3>3 DEF SpareInv, Reconnecting, At
    <3>5. call'[c].pc = "connect"
      BY <1>2, <2>3, GotoMoves
    <3> QED
      BY <1>3, <2>1, <3>4, <3>5 DEF SpareInv, Reconnecting, At
  <2> QED
    BY <2>1, <2>2, <2>3
<1>6. CASE Dial(c)
  <2>1. /\ call[c].pc = "connect" /\ openConns' = openConns \cup {dialled + 1}
        /\ UNCHANGED <<conn, faults>>
    BY <1>6 DEF Dial, At
  <2>2. call'[c].pc = "assignConn" /\ call'[c].on = dialled + 1
    BY <1>2, <1>6, <2>1, DialIsBounded, DialMoves DEF At
  <2>3. Cardinality(openConns' \ {dialled + 1}) <= Cardinality(openConns)
    BY <1>4, <2>1, ConnsFinite
  <2>4. Cardinality(openConns) <= faults.channel
    BY <2>1 DEF SpareInv, At
  <2>5. Cardinality(openConns' \ {dialled + 1}) <= faults.channel
    <3>1. openConns' \ {dialled + 1} \subseteq Conns
      BY <1>4, <2>1
    <3> QED
      BY <1>4, <2>3, <2>4, <3>1, ConnsFinite
  <2> QED
    BY <1>3, <2>1, <2>2, <2>5 DEF SpareInv, Reconnecting, At
<1>7. CASE AssignConn(c)
  <2>1. /\ call[c].pc = "assignConn" /\ conn' = call[c].on /\ call'[c].pc = "use"
        /\ UNCHANGED <<openConns, faults>>
    BY <1>2, <1>7, ConnectedMoves DEF AssignConn, At, network
  <2>2. Cardinality(openConns \ {call[c].on}) <= faults.channel
    BY <2>1 DEF SpareInv, At
  <2> QED
    BY <1>3, <2>1, <2>2 DEF SpareInv, Reconnecting, At
<1>8. CASE DialFails(c) \/ ChannelFails(c)
  <2>1. call' = call /\ call[c].pc = "connect"
    BY <1>8 DEF DialFails, ChannelFails, DialAgain, At
  <2>2. Cardinality(openConns) <= faults.channel
    BY <2>1 DEF SpareInv, At
  <2>3. Cardinality(openConns') <= faults'.channel
    <3>1. CASE DialFails(c)
      <4>1. openConns' = openConns /\ Fault("dial")
        BY <3>1 DEF DialFails, network
      <4>2. faults'["channel"] = faults["channel"]
        BY <4>1, FaultCounts DEF TypeInv, TypeOK, DialInv, AllFaultKinds
      <4> QED
        BY <2>2, <4>1, <4>2
    <3>2. CASE ChannelFails(c)
      <4>1. openConns' \in {openConns, openConns \cup {dialled + 1}} /\ Fault("channel")
        BY <3>2 DEF ChannelFails
      <4>2. faults'["channel"] = faults["channel"] + 1
        BY <4>1, FaultCounts DEF TypeInv, TypeOK, DialInv
      <4>3. Cardinality(openConns') <= Cardinality(openConns) + 1
        <5>1. IsFiniteSet(openConns) /\ Cardinality(openConns) \in Nat
          BY <1>4, ConnsFinite
        <5>2. Cardinality(openConns \cup {dialled + 1}) <= Cardinality(openConns) + 1
          <6>1. CASE dialled + 1 \in openConns
            <7>1. openConns \cup {dialled + 1} = openConns
              BY <6>1
            <7> QED
              BY <5>1, <7>1
          <6>2. CASE dialled + 1 \notin openConns
            <7>1. Cardinality(openConns \cup {dialled + 1}) = Cardinality(openConns) + 1
              BY <5>1, <6>2, FS_AddElement
            <7> QED
              BY <5>1, <7>1
          <6> QED
            BY <6>1, <6>2
        <5> QED
          BY <4>1, <5>1, <5>2
      <4>4. /\ Cardinality(openConns) \in Nat /\ Cardinality(openConns') \in Nat
        <5>1. IsFiniteSet(openConns) /\ Cardinality(openConns) \in Nat
          BY <1>4, ConnsFinite
        <5>2. IsFiniteSet(openConns \cup {dialled + 1})
          BY <5>1, FS_AddElement
        <5> QED
          BY <4>1, <5>1, <5>2, FS_CardinalityType
      <4> QED
        BY <1>4, <2>2, <4>2, <4>3, <4>4
    <3> QED
      BY <1>8, <3>1, <3>2
  <2> QED
    BY <1>1, <2>1, <2>3 DEF SpareInv, Reconnecting, At
<1>9. CASE Panic(c) \/ QueueOperation(c) \/ AwaitReply(c) \/ PublishAttempt(c)
           \/ AwaitConfirmation(c)
  <2>1. /\ call[c].pc \in {"use", "reply", "await"} /\ UNCHANGED <<conn, openConns, faults>>
    BY <1>9 DEF Panic, QueueOperation, AwaitReply, PublishAttempt, AwaitConfirmation, At,
                fields, network
  <2>2. call'[c].pc \notin {"connect", "assignConn"}
    <3>1. CASE Panic(c)
      <4>1. "panicked" \in PCs
        BY DEF PCs, Ended
      <4> QED
        BY <1>2, <3>1, <4>1, GotoMoves DEF Panic
    <3>2. CASE QueueOperation(c) \/ AwaitReply(c)
      BY <1>2, <3>2, QueueOperationMoves, AwaitReplyMoves DEF TypeInv, TypeOK
    <3>3. CASE PublishAttempt(c)
      BY <1>2, <3>3, MessageSent, RetryMoves
    <3>4. CASE AwaitConfirmation(c)
      BY <1>2, <3>4, ConfirmationRead, RetryMoves
    <3> QED
      BY <1>9, <3>1, <3>2, <3>3, <3>4
  <2> QED
    BY <1>1, <1>2, <2>1, <2>2, SpareFrame
<1> QED
  BY <1>5, <1>6, <1>7, <1>8, <1>9 DEF Handler, Proceed

LEMMA SpareBroker ==
    ASSUME TypeInv, SpareInv, NEW k \in Conns, Broker(k)
    PROVE  SpareInv'
<1>1. UNCHANGED <<call, conn>> /\ openConns' \subseteq openConns
  BY BrokerFrame
<1>2. /\ faults.channel \in Nat /\ faults'.channel \in Nat
      /\ faults.channel <= faults'.channel
  <2>1. "channel" \in AllFaultKinds
    BY DEF AllFaultKinds
  <2> QED
    BY <2>1, FaultsGrow DEF Next
<1>3. \A x : /\ Cardinality(openConns' \ {x}) <= Cardinality(openConns \ {x})
             /\ Cardinality(openConns' \ {x}) \in Nat /\ Cardinality(openConns \ {x}) \in Nat
  <2>1. openConns \subseteq Conns
    BY DEF TypeInv, TypeOK
  <2>2. \A x : openConns \ {x} \subseteq Conns /\ openConns' \ {x} \subseteq openConns \ {x}
    BY <1>1, <2>1
  <2> QED
    BY <1>1, <2>2, ConnsFinite
<1>4. /\ Cardinality(openConns') <= Cardinality(openConns)
      /\ Cardinality(openConns') \in Nat /\ Cardinality(openConns) \in Nat
  <2>1. openConns \subseteq Conns
    BY DEF TypeInv, TypeOK
  <2> QED
    BY <1>1, <2>1, ConnsFinite
<1>5. ASSUME NEW c \in Calls, call[c].pc = "connect"
      PROVE  Cardinality(openConns') <= faults'.channel
  BY <1>2, <1>4, <1>5 DEF SpareInv, At
<1>6. ASSUME NEW c \in Calls, call[c].pc = "assignConn"
      PROVE  Cardinality(openConns' \ {call[c].on}) <= faults'.channel
  <2> DEFINE before == Cardinality(openConns \ {call[c].on})
             after == Cardinality(openConns' \ {call[c].on})
  <2>1. before <= faults.channel
    BY <1>6 DEF SpareInv, At
  <2>2. before \in Nat /\ after \in Nat /\ after <= before
    BY <1>3
  <2> HIDE DEF before, after
  <2>3. after <= faults'.channel
    BY <1>2, <2>1, <2>2
  <2> QED
    BY <2>3 DEF after
<1>7. ASSUME ~Reconnecting("connect") /\ ~Reconnecting("assignConn")
      PROVE  Cardinality(openConns' \ {conn}) <= faults'.channel
  <2> DEFINE before == Cardinality(openConns \ {conn})
             after == Cardinality(openConns' \ {conn})
  <2>1. before <= faults.channel
    BY <1>7 DEF SpareInv
  <2>2. before \in Nat /\ after \in Nat /\ after <= before
    BY <1>3
  <2> HIDE DEF before, after
  <2>3. after <= faults'.channel
    BY <1>2, <2>1, <2>2
  <2> QED
    BY <2>3 DEF after
<1> QED
  BY <1>1, <1>5, <1>6, <1>7 DEF SpareInv, Reconnecting, At

LEMMA SpareMeansOne == TypeInv /\ SpareInv => OneConnection
<1> SUFFICES ASSUME TypeInv, SpareInv
             PROVE  Cardinality(openConns) <= 1 + faults.channel
  BY DEF OneConnection
<1>1. /\ openConns \subseteq Conns /\ faults.channel \in Nat
      /\ Cardinality(openConns) \in Nat
  BY ConnsFinite, MiddlewareAssumption DEF TypeInv, TypeOK, AllFaultKinds
<1>2. Cardinality(openConns) <= faults.channel
      \/ \E x : Cardinality(openConns \ {x}) <= faults.channel
  BY DEF SpareInv, Reconnecting
<1>3. CASE Cardinality(openConns) <= faults.channel
  BY <1>1, <1>3
<1>4. ASSUME NEW x, Cardinality(openConns \ {x}) <= faults.channel
      PROVE  Cardinality(openConns) <= 1 + faults.channel
  <2>1. Cardinality(openConns \ {x}) \in Nat
    <3>1. openConns \ {x} \subseteq Conns
      BY <1>1
    <3> QED
      BY <3>1, ConnsFinite
  <2>2. Cardinality(openConns) <= Cardinality(openConns \ {x}) + 1
    BY <1>1, ConnsFinite
  <2> QED
    BY <1>1, <1>4, <2>1, <2>2
<1> QED
  BY <1>2, <1>3, <1>4

(* Without overlap reconnecting leaves no connection open beside the one   *)
(* in use, except one for each conn.Channel() that failed, however often   *)
(* connections and channels are lost and dialled again.                    *)
THEOREM SerialOneConnection == MaxRunning = 1 /\ Spec => []OneConnection
<1> DEFINE Inv == TypeInv /\ AloneRunning /\ Typed /\ NilMeansConnecting /\ SpareInv
<1>1. Init => Inv
  <2> SUFFICES ASSUME Init
               PROVE  SpareInv
    BY InitTypeInv, InitTyped DEF Init, NilMeansConnecting, AloneRunning, Running, At
  <2>1. \A c \in Calls : call[c].pc = "new"
    BY DEF Init
  <2>2. openConns \ {conn} = {} /\ faults.channel = 0
    BY DEF Init, AllFaultKinds
  <2> QED
    BY <2>1, <2>2, FS_EmptySet DEF SpareInv, At
<1>2. MaxRunning = 1 /\ Inv /\ [Next]_vars => Inv'
  <2> SUFFICES ASSUME MaxRunning = 1, Inv, [Next]_vars
               PROVE  SpareInv'
    BY NextTypeInv, NextTyped, NilKept, AloneKept
  <2>1. CASE UNCHANGED vars
    BY <2>1 DEF vars, fields, network, SpareInv, Reconnecting, At
  <2> QED
    BY <2>1, SpareHandler, SpareBroker DEF Next, Quiet
<1>3. MaxRunning = 1 /\ Spec => []Inv
  <2> SUFFICES ASSUME MaxRunning = 1
               PROVE  Spec => []Inv
    OBVIOUS
  <2>1. Inv /\ [Next]_vars => Inv'
    BY <1>2
  <2> QED
    BY <1>1, <2>1, PTL DEF Spec
<1>4. Inv => OneConnection
  BY SpareMeansOne
<1> QED
  BY <1>3, <1>4, PTL

-----------------------------------------------------------------------------
(* Failure.  While the first channel is open, every attempt but the first  *)
(* of a publish, and the end of the last one, follows a refusal.           *)
Refused(c) ==
    /\ call[c].attempt <= faults.nack + 1
    /\ At(c, "await") /\ confirms # <<>> /\ ~confirms[1].ack =>
          call[c].attempt <= faults.nack
    /\ At(c, "reply") => call[c].on = 1
    /\ At(c, "failed") => c \in Messages /\ faults.nack >= MAX_RETRIES

RefusalInv == 1 \in openChannels => \A c \in Calls : Refused(c)

LEMMA CallNumbers ==
    ASSUME TypeInv, NEW c \in Calls
    PROVE  /\ call[c].attempt \in Nat /\ call[c].attempt <= MAX_RETRIES
           /\ MAX_RETRIES \in Nat /\ faults.nack \in Nat
<1>1. call[c] \in CallType
  BY CallTyped
<1> QED
  BY <1>1, MiddlewareAssumption DEF CallType, TypeInv, TypeOK, AllFaultKinds

(* The other calls, when c takes a step.                                   *)
LEMMA OthersRefused ==
    ASSUME MaxRunning = 1, AloneRunning, NEW c \in Calls, Handler(c), Others(c),
           faults'.nack = faults.nack, NEW d \in Calls, d # c, Refused(d)
    PROVE  Refused(d)'
<1>1. call'[d] = call[d]
  BY DEF Others
<1>2. call[d].pc # "await"
  BY OnlyOneMoves, UnderwayRuns DEF Underway
<1> QED
  BY <1>1, <1>2 DEF Refused, At

LEMMA PublishRefused ==
    ASSUME TypeInv, FirstInUse, AloneRunning, PromptInv, 1 \in openChannels,
           NEW c \in Calls, PublishAttempt(c), Refused(c)
    PROVE  Refused(c)'
<1>1. /\ call[c].pc = "use" /\ call'[c].pc = "await" /\ call'[c].attempt = call[c].attempt
      /\ UNCHANGED <<confirms, faults>>
  BY MessageSent DEF FirstInUse
<1>2. Len(confirms) = 0
  <2>1. Cardinality(Waiting) = 0
    BY <1>1, UnderwayRuns, WaitingAlone DEF Underway, At
  <2> QED
    BY <2>1, LengthsNat DEF PromptInv
<1>3. confirms = <<>>
  BY <1>2, EmptySeq DEF TypeInv, TypeOK
<1> QED
  BY <1>1, <1>3 DEF Refused, At

LEMMA ReadRefused ==
    ASSUME TypeInv, AloneRunning, PromptInv, 1 \in openChannels,
           NEW c \in Calls, AwaitConfirmation(c), Refused(c)
    PROVE  Refused(c)'
<1>1. /\ c \in Messages /\ call[c].pc = "await" /\ faults' = faults /\ confirms # <<>>
      /\ confirms' = Tail(confirms)
      /\ \/ call'[c].pc = "ok" /\ Goto(c, "ok")
         \/ Head(confirms).ack = FALSE /\ Retry(c)
  BY ConfirmationRead DEF AwaitConfirmation, Receive, Confirmed, Unconfirmable
<1>2. CASE call'[c].pc = "ok" /\ Goto(c, "ok")
  <2>1. call'[c].attempt = call[c].attempt
    BY <1>2, CallTyped, GotoMoves DEF PCs, Ended
  <2> QED
    BY <1>1, <1>2, <2>1 DEF Refused, At
<1>3. CASE Head(confirms).ack = FALSE /\ Retry(c)
  <2>1. call[c].attempt <= faults.nack
    BY <1>1, <1>3, RestOfConfirms DEF Refused, At
  <2>2. \/ /\ call'[c].pc = "use" /\ call'[c].attempt = call[c].attempt + 1
        \/ /\ call[c].attempt = MAX_RETRIES /\ call'[c].pc = "failed"
           /\ call'[c].attempt = call[c].attempt
    BY <1>3, CallTyped, RetryMoves
  <2> QED
    BY <1>1, <2>1, <2>2, CallNumbers DEF Refused, At
<1> QED
  BY <1>1, <1>2, <1>3

LEMMA ReplyRefused ==
    ASSUME TypeInv, OwnReplies, 1 \in openChannels,
           NEW c \in Calls, AwaitReply(c), Refused(c)
    PROVE  Refused(c)'
<1> DEFINE k == call[c].on
<1>1. /\ c \in Operations /\ call[c].pc = "reply" /\ k \in Conns
      /\ \/ /\ call'[c].pc = IF Fits(c, Head(replies[k])) THEN "ok" ELSE "failed"
            /\ Taken(Operations, replies, replies', k)
         \/ k \notin openChannels
  BY ReplyTaken
<1>2. k = 1
  BY <1>1 DEF Refused, At
<1>3. Taken(Operations, replies, replies', k)
  BY <1>1, <1>2
<1>4. replies[k][1] = Head(replies[k]) /\ 1 \in 1..Len(replies[k])
  BY <1>3, TakenPoints
<1>5. Head(replies[k]) = c
  BY <1>1, <1>4 DEF OwnReplies, At
<1>6. call'[c].pc = "ok"
  BY <1>1, <1>2, <1>5 DEF Fits
<1>7. call'[c].attempt = call[c].attempt /\ faults' = faults
  BY CallTyped, AwaitReplyMoves DEF AwaitReply
<1> QED
  BY <1>6, <1>7 DEF Refused, At

LEMMA RequestRefused ==
    ASSUME TypeInv, FirstInUse, 1 \in openChannels,
           NEW c \in Calls, QueueOperation(c), Refused(c)
    PROVE  Refused(c)'
<1>1. channel = 1 /\ faults' = faults
  BY DEF FirstInUse, QueueOperation
<1>2. call'[c].pc = "reply" /\ call'[c].on = 1 /\ call'[c].attempt = call[c].attempt
  BY <1>1, CallTyped, QueueOperationMoves DEF TypeInv, TypeOK
<1> QED
  BY <1>1, <1>2 DEF Refused, At

LEMMA HandlerRefused ==
    ASSUME MaxRunning = 1, AloneInv, 1 \in openChannels, RefusalInv,
           NEW c \in Calls, Handler(c)
    PROVE  RefusalInv'
<1> USE DEF AloneInv, BalanceInv
<1>1. \A d \in Calls : Refused(d)
  BY DEF RefusalInv
<1>2. Others(c) /\ call \in [Calls -> CallType]
  BY WhereTo, CallTyped
<1>3. call[c].pc \notin {"connect", "assignConn"}
  BY DEF FirstInUse
<1>4. ~Dial(c) /\ ~AssignConn(c) /\ ~DialFails(c) /\ ~ChannelFails(c) /\ ~Panic(c)
  BY <1>3 DEF Dial, AssignConn, Panic, DialFails, ChannelFails, DialAgain, At, FirstInUse
<1>5. faults' = faults
  BY <1>4 DEF Handler, Proceed, EnsureConnection, QueueOperation, AwaitReply,
              PublishAttempt, AwaitConfirmation
<1>6. Refused(c)'
  <2>1. CASE EnsureConnection(c)
    <3>1. Connected(c) \/ Goto(c, "connect")
      BY <2>1 DEF EnsureConnection
    <3>2. call'[c].pc \in {"use", "connect"} /\ call'[c].attempt = call[c].attempt
      BY <1>2, <3>1, ConnectedMoves, GotoMoves DEF PCs
    <3> QED
      BY <1>1, <1>5, <3>2 DEF Refused, At
  <2>2. CASE PublishAttempt(c)
    BY <1>1, <2>2, PublishRefused
  <2>3. CASE AwaitConfirmation(c)
    BY <1>1, <2>3, ReadRefused
  <2>4. CASE AwaitReply(c)
    BY <1>1, <2>4, ReplyRefused
  <2>5. CASE QueueOperation(c)
    BY <1>1, <2>5, RequestRefused
  <2> QED
    BY <1>4, <2>1, <2>2, <2>3, <2>4, <2>5 DEF Handler, Proceed
<1>7. \A d \in Calls : Refused(d)'
  BY <1>1, <1>2, <1>5, <1>6, OthersRefused
<1> QED
  BY <1>7 DEF RefusalInv

LEMMA BrokerRefused ==
    ASSUME TypeInv, 1 \in openChannels', RefusalInv, 1 \in openChannels,
           NEW k \in Conns, Broker(k)
    PROVE  RefusalInv'
<1>1. call' = call
  BY BrokerFrame
<1>2. faults.nack \in Nat /\ faults'.nack \in Nat /\ faults.nack <= faults'.nack
  <2>1. "nack" \in AllFaultKinds
    BY DEF AllFaultKinds
  <2> QED
    BY <2>1, FaultsGrow DEF Next
<1> SUFFICES ASSUME NEW c \in Calls
             PROVE  Refused(c)'
  BY DEF RefusalInv
<1>3. Refused(c)
  BY DEF RefusalInv
<1>4. ASSUME confirms' # <<>>, ~confirms'[1].ack, call[c].pc = "await"
      PROVE  call[c].attempt <= faults'.nack
  <2>1. CASE confirms # <<>> /\ ~confirms[1].ack
    BY <1>2, <1>3, <1>4, <2>1, CallNumbers DEF Refused, At
  <2>2. CASE BrokerRefuses(k)
    <3>1. faults'["nack"] = faults["nack"] + 1
      BY <2>2, FaultCounts DEF BrokerRefuses, TypeInv, TypeOK, DialInv
    <3> QED
      BY <1>3, <3>1, CallNumbers DEF Refused
  <2>3. CASE BrokerTakes(k) /\ k = 1
    <3> DEFINE answer == [msg |-> Head(pending[k]), ack |-> TRUE]
    <3>1. answer \in [msg : Messages, ack : BOOLEAN] /\ confirms' = Append(confirms, answer)
      BY <2>3, MessageDealtWith
    <3>2. answer.ack
      OBVIOUS
    <3> HIDE DEF answer
    <3>3. /\ Len(confirms) \in Nat /\ confirms'[Len(confirms) + 1] = answer
          /\ \A i \in 1..Len(confirms) : confirms'[i] = confirms[i]
      BY <3>1, MoreConfirms
    <3>4. CASE Len(confirms) = 0
      BY <1>4, <3>2, <3>3, <3>4
    <3>5. CASE Len(confirms) # 0
      <4>1. confirms'[1] = confirms[1] /\ confirms # <<>>
        BY <3>3, <3>5
      <4> QED
        BY <1>4, <2>1, <4>1
    <3> QED
      BY <3>4, <3>5
  <2>4. CASE confirms' = confirms
    BY <1>4, <2>1, <2>4
  <2>5. CASE BrokerTakes(k) /\ k # 1
    BY <2>4, <2>5, MessageDealtWith
  <2> QED
    BY <2>2, <2>3, <2>4, <2>5
    DEF Broker, BrokerExecutes, ChannelException, ConnectionLost, Cut
<1>5. call[c].attempt <= faults'.nack + 1
  BY <1>2, <1>3, CallNumbers DEF Refused
<1>6. call[c].pc = "failed" => c \in Messages /\ faults'.nack >= MAX_RETRIES
  BY <1>2, <1>3, CallNumbers DEF Refused, At
<1> QED
  BY <1>1, <1>3, <1>4, <1>5, <1>6 DEF Refused, At

(* Without overlap, as long as connection and channel hold a publish fails *)
(* only when the broker refused every attempt, and a queue operation never *)
(* fails, for any number of calls and attempts.                            *)
THEOREM SerialFailures == MaxRunning = 1 /\ Spec => []FailureNeedsRefusals
<1> DEFINE Inv == AloneInv /\ RefusalInv
<1>1. Init => Inv
  <2> SUFFICES ASSUME Init
               PROVE  RefusalInv
    BY InitAlone
  <2>1. \A c \in Calls : call[c].pc = "new" /\ call[c].attempt = 1 /\ faults.nack = 0
    BY DEF Init, AllFaultKinds
  <2> QED
    BY <2>1 DEF RefusalInv, Refused, At
<1>2. MaxRunning = 1 /\ Inv /\ [Next]_vars => Inv'
  <2> SUFFICES ASSUME MaxRunning = 1, Inv, [Next]_vars, 1 \in openChannels'
               PROVE  RefusalInv'
    BY StaysAlone DEF RefusalInv
  <2>1. 1 \in openChannels
    BY OpenBefore DEF AloneInv
  <2>2. CASE UNCHANGED vars
    BY <2>2 DEF vars, network, traffic, RefusalInv, Refused, At
  <2> QED
    BY <2>1, <2>2, HandlerRefused, BrokerRefused DEF Next, Quiet, AloneInv
<1>3. MaxRunning = 1 /\ Spec => []Inv
  <2> SUFFICES ASSUME MaxRunning = 1
               PROVE  Spec => []Inv
    OBVIOUS
  <2>1. Inv /\ [Next]_vars => Inv'
    BY <1>2
  <2> QED
    BY <1>1, <2>1, PTL DEF Spec
<1>4. Inv => FailureNeedsRefusals
  BY DEF RefusalInv, Refused, FailureNeedsRefusals
<1> QED
  BY <1>3, <1>4, PTL
=============================================================================
