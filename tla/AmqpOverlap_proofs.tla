-------------------------- MODULE AmqpOverlap_proofs --------------------------
(***************************************************************************)
(* What holds of AmqpMiddleware however its calls overlap: replies and     *)
(* waiting operations balance, no more operations succeed than were        *)
(* executed, nothing is published twice while nothing goes wrong, and      *)
(* publishing keeps the promise of Notifier.                               *)
(***************************************************************************)
EXTENDS AmqpTyping_proofs

\* A call that has sent nothing yet, or a publisher between two attempts.
Early == {"new", "connect", "assignConn", "use"}

LEMMA KindsOfCalls ==
    /\ Calls = Messages \cup Operations /\ Operations = Declarations \cup Deletions
    /\ Messages \cap Operations = {} /\ Declarations \cap Deletions = {}
    /\ IsFiniteSet(Calls)
BY MiddlewareAssumption DEF Calls, Operations

(* The steps of a call that are not about a queue operation.               *)
LEMMA AsideMoves ==
    ASSUME TypeInv, NEW c \in Calls, Handler(c), ~QueueOperation(c), ~AwaitReply(c)
    PROVE  /\ call' \in [Calls -> CallType] /\ Others(c)
           /\ call[c].pc # "reply" /\ call'[c].pc # "reply"
           /\ c \in Operations => /\ call'[c].pc \in Early => call[c].pc \in Early
                                  /\ call'[c].pc # "ok"
           /\ UNCHANGED <<requested, replies, copies>>
           /\ Dial(c) \/ openChannels' = openChannels
<1> USE DEF At, Early
<1>1. call \in [Calls -> CallType]
  BY CallTyped
<1>2. CASE EnsureConnection(c)
  <2>1. "connect" \in PCs
    BY DEF PCs
  <2>2. call' \in [Calls -> CallType] /\ Others(c) /\ call'[c].pc \in {"use", "connect"}
    BY <1>1, <1>2, <2>1, ConnectedMoves, GotoMoves DEF EnsureConnection
  <2> QED
    BY <1>2, <2>2 DEF EnsureConnection, traffic, network, rpc
<1>3. CASE Dial(c)
  <2>1. /\ call' \in [Calls -> CallType] /\ Others(c) /\ call'[c].pc = "assignConn"
    BY <1>1, <1>3, DialIsBounded, DialMoves DEF Dial
  <2> QED
    BY <1>3, <2>1 DEF Dial, traffic, rpc
<1>4. CASE AssignConn(c)
  BY <1>1, <1>4, ConnectedMoves DEF AssignConn, traffic, network, rpc
<1>5. CASE Panic(c)
  <2>1. "panicked" \in PCs
    BY DEF PCs, Ended
  <2> QED
    BY <1>1, <1>5, <2>1, GotoMoves DEF Panic, traffic, network, rpc
<1>6. CASE PublishAttempt(c)
  <2>1. "await" \in PCs /\ c \notin Operations
    BY <1>6, KindsOfCalls DEF PCs, PublishAttempt
  <2>2. /\ call' \in [Calls -> CallType] /\ Others(c)
        /\ call'[c].pc \in {"await", "use", "failed"}
    BY <1>1, <1>6, <2>1, GotoMoves, RetryMoves DEF PublishAttempt
  <2> QED
    BY <1>6, <2>1, <2>2 DEF PublishAttempt, network, rpc
<1>7. CASE AwaitConfirmation(c)
  <2>1. "ok" \in PCs /\ c \notin Operations
    BY <1>7, KindsOfCalls, CallTyped DEF PCs, Ended, AwaitConfirmation
  <2>2. /\ call' \in [Calls -> CallType] /\ Others(c)
        /\ call'[c].pc \in {"ok", "use", "failed"}
    BY <1>1, <1>7, <2>1, GotoMoves, RetryMoves DEF AwaitConfirmation, Receive
  <2> QED
    BY <1>7, <2>1, <2>2 DEF AwaitConfirmation, network, rpc
<1>8. CASE DialFails(c) \/ ChannelFails(c)
  <2>1. /\ call' = call /\ call[c].pc = "connect"
        /\ UNCHANGED <<requested, replies, copies, openChannels>>
    BY <1>8 DEF DialFails, ChannelFails, DialAgain, traffic, network, rpc
  <2> QED
    BY <1>1, <2>1 DEF Others
<1> QED
  BY <1>2, <1>3, <1>4, <1>5, <1>6, <1>7, <1>8 DEF Handler, Proceed

-----------------------------------------------------------------------------
(* Replies and the operations that wait for them.                          *)

Expecting(k) == {c \in Calls : At(c, "reply") /\ call[c].on = k}

LEMMA ExpectingFinite ==
    ASSUME NEW k
    PROVE  IsFiniteSet(Expecting(k)) /\ Cardinality(Expecting(k)) \in Nat
<1>1. IsFiniteSet(Calls) /\ Expecting(k) \in SUBSET Calls
  BY KindsOfCalls DEF Expecting
<1> QED
  BY <1>1, FS_Subset, FS_CardinalityType

(* The number of replies of a channel, arrived or to come.                 *)
Due(k) == Len(requested[k]) + Len(replies[k])

LEMMA BalanceMeansDue ==
    RepliesBalance <=> \A k \in openChannels : Due(k) = Cardinality(Expecting(k))
BY DEF RepliesBalance, Due, Expecting

LEMMA WayLengths ==
    ASSUME TypeInv, NEW k \in Conns
    PROVE  /\ requested[k] \in Seq(Operations) /\ replies[k] \in Seq(Operations)
           /\ Len(requested[k]) \in Nat /\ Len(replies[k]) \in Nat
BY DEF TypeInv, TypeOK

LEMMA OperationReplies ==
    ASSUME TypeInv, RepliesBalance, NEW c \in Calls, QueueOperation(c),
           NEW k \in openChannels'
    PROVE  Due(k)' = Cardinality(Expecting(k)')
<1>1. /\ k \in openChannels /\ k \in Conns
      /\ Due(k) = Cardinality(Expecting(k)) /\ replies' = replies
      /\ channel \in Conns /\ call[c].pc = "use" /\ c \in Operations
  BY BalanceMeansDue DEF QueueOperation, network, TypeInv, TypeOK, At
<1>2. /\ Others(c)
      /\ \/ channel \in openChannels /\ call'[c].pc = "reply" /\ call'[c].on = channel
         \/ channel \notin openChannels /\ call'[c].pc = "failed"
  BY <1>1, CallTyped, QueueOperationMoves
<1>3. CASE k = channel
  <2>1. Expecting(k)' = Expecting(k) \cup {c} /\ c \notin Expecting(k)
    BY <1>1, <1>2, <1>3 DEF Expecting, Others, At
  <2>2. requested'[k] = Append(requested[k], c)
    BY <1>1, <1>3 DEF QueueOperation, TypeInv, TypeOK
  <2>3. Len(requested'[k]) = Len(requested[k]) + 1
    BY <1>1, <2>2, WayLengths
  <2>4. Cardinality(Expecting(k)') = Cardinality(Expecting(k)) + 1
    BY <2>1, ExpectingFinite, FS_AddElement
  <2> DEFINE sent == Len(requested[k])  sentNow == Len(requested'[k])
             back == Len(replies[k])
             waiting == Cardinality(Expecting(k))
             waitingNow == Cardinality(Expecting(k)')
  <2>5. /\ sent \in Int /\ back \in Int /\ waiting \in Int /\ sent + back = waiting
        /\ sentNow = sent + 1 /\ waitingNow = waiting + 1
    <3>1. sent \in Int /\ back \in Int
      BY <1>1, WayLengths
    <3>2. waiting \in Int
      BY ExpectingFinite
    <3>3. sent + back = waiting
      BY <1>1 DEF Due
    <3> QED
      BY <2>3, <2>4, <3>1, <3>2, <3>3
  <2> HIDE DEF sent, sentNow, back, waiting, waitingNow
  <2>6. sentNow + back = waitingNow
    BY <2>5
  <2> QED
    BY <1>1, <2>6 DEF sentNow, back, waitingNow, Due
<1>4. CASE k # channel
  <2>1. Expecting(k)' = Expecting(k)
    BY <1>1, <1>2, <1>4 DEF Expecting, Others, At
  <2>2. requested'[k] = requested[k]
    BY <1>1, <1>4 DEF QueueOperation, TypeInv, TypeOK
  <2> QED
    BY <1>1, <2>1, <2>2 DEF Due
<1> QED
  BY <1>3, <1>4

LEMMA AnswerReplies ==
    ASSUME TypeInv, RepliesBalance, NEW c \in Calls, AwaitReply(c),
           NEW k \in openChannels'
    PROVE  Due(k)' = Cardinality(Expecting(k)')
<1>1. /\ k \in openChannels /\ k \in Conns
      /\ Due(k) = Cardinality(Expecting(k)) /\ requested' = requested
      /\ call[c].pc = "reply" /\ call[c].on \in Conns
  BY BalanceMeansDue, CallTyped DEF AwaitReply, network, TypeInv, TypeOK, At
<1>2. Others(c) /\ call'[c].pc # "reply"
  BY CallTyped, AwaitReplyMoves
<1>3. CASE k = call[c].on
  <2>1. Expecting(k)' = Expecting(k) \ {c} /\ c \in Expecting(k)
    BY <1>1, <1>2, <1>3 DEF Expecting, Others, At
  <2>2. replies[k] # <<>> /\ replies' = [replies EXCEPT ![k] = Tail(replies[k])]
    BY <1>1, <1>3 DEF AwaitReply, NoReply
  <2>3. Len(replies'[k]) = Len(replies[k]) - 1
    BY <1>1, <2>2, WayLengths DEF TypeInv, TypeOK
  <2>4. Cardinality(Expecting(k)') = Cardinality(Expecting(k)) - 1
    BY <2>1, ExpectingFinite, FS_RemoveElement
  <2> DEFINE sent == Len(requested[k])
             back == Len(replies[k])  backNow == Len(replies'[k])
             waiting == Cardinality(Expecting(k))
             waitingNow == Cardinality(Expecting(k)')
  <2>5. /\ sent \in Int /\ back \in Int /\ waiting \in Int /\ sent + back = waiting
        /\ backNow = back - 1 /\ waitingNow = waiting - 1
    <3>1. sent \in Int /\ back \in Int
      BY <1>1, WayLengths
    <3>2. waiting \in Int
      BY ExpectingFinite
    <3>3. sent + back = waiting
      BY <1>1 DEF Due
    <3> QED
      BY <2>3, <2>4, <3>1, <3>2, <3>3
  <2> HIDE DEF sent, back, backNow, waiting, waitingNow
  <2>6. sent + backNow = waitingNow
    BY <2>5
  <2> QED
    BY <1>1, <2>6 DEF sent, backNow, waitingNow, Due
<1>4. CASE k # call[c].on
  <2>1. Expecting(k)' = Expecting(k)
    BY <1>1, <1>2, <1>4 DEF Expecting, Others, At
  <2>2. replies'[k] = replies[k]
    BY <1>1, <1>4 DEF AwaitReply, TypeInv, TypeOK
  <2> QED
    BY <1>1, <2>1, <2>2 DEF Due
<1> QED
  BY <1>3, <1>4

LEMMA AsideReplies ==
    ASSUME TypeInv, RepliesBalance, NEW c \in Calls, Handler(c),
           ~QueueOperation(c), ~AwaitReply(c), NEW k \in openChannels'
    PROVE  Due(k)' = Cardinality(Expecting(k)')
<1>1. /\ Others(c) /\ call[c].pc # "reply" /\ call'[c].pc # "reply"
      /\ UNCHANGED <<requested, replies>>
      /\ Dial(c) \/ openChannels' = openChannels
  BY AsideMoves
<1>2. Expecting(k)' = Expecting(k) /\ Due(k)' = Due(k)
  BY <1>1 DEF Expecting, Others, At, Due
<1>3. CASE k \in openChannels
  BY <1>2, <1>3, BalanceMeansDue
<1>4. CASE k \notin openChannels
  <2>1. k = dialled + 1 /\ dialled \in Nat /\ k \in Conns
    <3>1. Dial(c)
      BY <1>1, <1>4
    <3>2. k = dialled + 1
      BY <1>4, <3>1 DEF Dial
    <3>3. dialled + 1 \in Conns
      BY <3>1, DialIsBounded DEF Dial
    <3>4. dialled \in Nat
      BY DEF TypeInv, TypeOK, Conns
    <3> QED
      BY <3>2, <3>3, <3>4
  <2>2. requested[k] = <<>> /\ replies[k] = <<>>
    BY <1>4, <2>1 DEF TypeInv, ClosedEmpty, NumbersInv
  <2>3. Expecting(k) = {}
    BY <2>1, CallTyped DEF Expecting
  <2> QED
    <3>1. Due(k) = 0 /\ Cardinality(Expecting(k)) = 0
      BY <2>2, <2>3, FS_EmptySet DEF Due
    <3>2. Due(k)' = 0
      BY <1>2, <3>1
    <3>3. Cardinality(Expecting(k)') = 0
      BY <1>2, <3>1
    <3> QED
      BY <3>2, <3>3
<1> QED
  BY <1>3, <1>4

LEMMA BrokerReplies ==
    ASSUME TypeInv, RepliesBalance, NEW j \in Conns, Broker(j), NEW k \in openChannels'
    PROVE  Due(k)' = Cardinality(Expecting(k)')
<1>1. /\ k \in openChannels /\ k \in Conns /\ call' = call
      /\ Due(k) = Cardinality(Expecting(k)) /\ Expecting(k)' = Expecting(k)
  BY BrokerFrame, BalanceMeansDue DEF TypeInv, TypeOK, Expecting, At
<1>2. CASE BrokerTakes(j) \/ BrokerRefuses(j)
  BY <1>1, <1>2 DEF BrokerTakes, BrokerRefuses, rpc, Due
<1>3. CASE BrokerExecutes(j)
  <2> DEFINE c == Head(requested[j])
  <2>1. CASE j = k
    <3>1. /\ requested[k] # <<>> /\ requested[k] \in Seq(Operations)
          /\ replies[k] \in Seq(Operations) /\ c \in Operations
      BY <1>1, <1>3, <2>1, WayLengths DEF BrokerExecutes
    <3>2. requested'[k] = Tail(requested[k]) /\ replies'[k] = Append(replies[k], c)
      BY <1>1, <1>3, <2>1 DEF BrokerExecutes, TypeInv, TypeOK
    <3>3. /\ Len(requested'[k]) = Len(requested[k]) - 1
          /\ Len(replies'[k]) = Len(replies[k]) + 1
      BY <3>1, <3>2
    <3> DEFINE sent == Len(requested[k])  sentNow == Len(requested'[k])
               back == Len(replies[k])  backNow == Len(replies'[k])
    <3>4. sent \in Int /\ back \in Int /\ sentNow = sent - 1 /\ backNow = back + 1
      BY <1>1, <3>3, WayLengths
    <3> HIDE DEF sent, sentNow, back, backNow
    <3>5. sentNow + backNow = sent + back
      BY <3>4
    <3>6. Due(k)' = Due(k)
      BY <3>5 DEF sent, sentNow, back, backNow, Due
    <3> QED
      BY <1>1, <3>6
  <2>2. CASE j # k
    BY <1>1, <1>3, <2>2 DEF BrokerExecutes, TypeInv, TypeOK, Due
  <2> QED
    BY <2>1, <2>2
<1>4. CASE Cut(j)
  BY <1>1, <1>4 DEF Cut, TypeInv, TypeOK, Due
<1> QED
  BY <1>2, <1>3, <1>4 DEF Broker, ChannelException, ConnectionLost

LEMMA RepliesKept == TypeInv /\ RepliesBalance /\ [Next]_vars => RepliesBalance'
<1> SUFFICES ASSUME TypeInv, RepliesBalance, [Next]_vars, NEW k \in openChannels'
             PROVE  Due(k)' = Cardinality(Expecting(k)')
  BY BalanceMeansDue DEF RepliesBalance, Due, Expecting
<1>1. CASE UNCHANGED vars
  BY <1>1, BalanceMeansDue DEF vars, network, traffic, rpc, Due, Expecting, At
<1>2. ASSUME NEW c \in Calls, Handler(c)
      PROVE  Due(k)' = Cardinality(Expecting(k)')
  BY <1>2, OperationReplies, AnswerReplies, AsideReplies
<1> QED
  BY <1>1, <1>2, BrokerReplies DEF Next, Quiet

(* However queue operations overlap, on an open channel there is one reply *)
(* for each that waits: none waits for ever, and none is left behind for   *)
(* an operation that comes later.                                          *)
THEOREM RepliesMatch == Spec => []RepliesBalance
<1>1. Init => RepliesBalance
  <2> SUFFICES ASSUME Init, NEW k \in openChannels
               PROVE  Due(k) = Cardinality(Expecting(k))
    BY BalanceMeansDue
  <2>1. k \in Conns
    BY OneIsConnection DEF Init
  <2>2. Due(k) = 0 /\ Expecting(k) = {}
    BY <2>1 DEF Init, Due, Expecting, At
  <2> QED
    BY <2>2, FS_EmptySet
<1> QED
  BY <1>1, InitTypeInv, NextTypeInv, RepliesKept, PTL DEF Spec

-----------------------------------------------------------------------------
(* Messages, requests and replies on their way.                            *)

OnWay(way) == UNION {Range(way[k]) : k \in Conns}

\* o is the i-th on the way on channel k.
Place(way, k, i, o) == k \in Conns /\ i \in 1..Len(way[k]) /\ way[k][i] = o

\* No call is on the way twice.
Once(way) ==
    \A o, k, l, i, j : Place(way, k, i, o) /\ Place(way, l, j, o) => k = l /\ i = j

LEMMA OnWayPlaces ==
    ASSUME NEW S, NEW way \in [Conns -> Seq(S)]
    PROVE  \A o : /\ o \in OnWay(way) <=> \E k, i : Place(way, k, i, o)
                  /\ o \in OnWay(way) => o \in S
<1>1. \A k \in Conns : way[k] \in Seq(S) /\ DOMAIN way[k] = 1..Len(way[k])
  OBVIOUS
<1>2. \A k \in Conns : \A i \in 1..Len(way[k]) : way[k][i] \in S
  BY <1>1
<1> HIDE DEF Conns
<1> QED
  BY <1>1, <1>2 DEF OnWay, Range, Place

\* x is sent on channel k; the first of channel k is taken; channel k is cut.
Sent(S, way, new, k, x) ==
    /\ way \in [Conns -> Seq(S)] /\ new \in [Conns -> Seq(S)] /\ k \in Conns /\ x \in S
    /\ new[k] = Append(way[k], x)
    /\ \A j \in Conns \ {k} : new[j] = way[j]

Taken(S, way, new, k) ==
    /\ way \in [Conns -> Seq(S)] /\ new \in [Conns -> Seq(S)] /\ k \in Conns
    /\ way[k] # <<>> /\ new[k] = Tail(way[k])
    /\ \A j \in Conns \ {k} : new[j] = way[j]

Dropped(S, way, new, k) ==
    /\ way \in [Conns -> Seq(S)] /\ new \in [Conns -> Seq(S)] /\ k \in Conns
    /\ new[k] = <<>>
    /\ \A j \in Conns \ {k} : new[j] = way[j]

LEMMA WayChanges ==
    ASSUME NEW S, NEW way \in [Conns -> Seq(S)], NEW k \in Conns
    PROVE  /\ \A x \in S : Sent(S, way, [way EXCEPT ![k] = Append(@, x)], k, x)
           /\ way[k] # <<>> => Taken(S, way, [way EXCEPT ![k] = Tail(@)], k)
           /\ Dropped(S, way, [way EXCEPT ![k] = <<>>], k)
<1>1. way[k] \in Seq(S)
  OBVIOUS
<1>2. ASSUME NEW x \in S
      PROVE  Sent(S, way, [way EXCEPT ![k] = Append(@, x)], k, x)
  <2>1. Append(way[k], x) \in Seq(S)
    BY <1>1
  <2> QED
    BY <2>1, WayUpdate DEF Sent
<1>3. ASSUME way[k] # <<>>
      PROVE  Taken(S, way, [way EXCEPT ![k] = Tail(@)], k)
  <2>1. Tail(way[k]) \in Seq(S)
    BY <1>1, <1>3
  <2> QED
    BY <1>3, <2>1, WayUpdate DEF Taken
<1>4. Dropped(S, way, [way EXCEPT ![k] = <<>>], k)
  BY EmptySeq, WayUpdate DEF Dropped
<1> QED
  BY <1>2, <1>3, <1>4

LEMMA FirstOnWay ==
    ASSUME NEW S, NEW way \in [Conns -> Seq(S)], NEW k \in Conns, way[k] # <<>>
    PROVE  Head(way[k]) \in OnWay(way) /\ Head(way[k]) \in S
<1>1. way[k] \in Seq(S)
  OBVIOUS
<1>2. Place(way, k, 1, Head(way[k])) /\ Head(way[k]) \in S
  BY <1>1 DEF Place
<1>3. \A o : o \in OnWay(way) <=> \E l, i : Place(way, l, i, o)
  BY OnWayPlaces
<1> QED
  BY <1>2, <1>3

LEMMA OnceAppend ==
    ASSUME NEW S, NEW way, NEW new, NEW k, NEW x, Sent(S, way, new, k, x)
    PROVE  /\ OnWay(new) = OnWay(way) \cup {x}
           /\ Once(way) /\ x \notin OnWay(way) => Once(new)
<1> USE DEF Sent
<1> DEFINE n == Len(way[k])
<1>1. /\ way[k] \in Seq(S) /\ n \in Nat
      /\ Append(way[k], x) \in Seq(S) /\ Len(Append(way[k], x)) = n + 1
      /\ \A i \in 1..n : Append(way[k], x)[i] = way[k][i]
      /\ Append(way[k], x)[n + 1] = x
  OBVIOUS
<1>3. 1..(n + 1) = 1..n \cup {n + 1} /\ n + 1 \notin 1..n
  BY <1>1
<1>4. \A j, i, o : Place(new, j, i, o)
                      <=> Place(way, j, i, o) \/ (j = k /\ i = n + 1 /\ o = x)
  <2> HIDE DEF Conns
  <2>1. \A i, o : Place(new, k, i, o) <=> Place(way, k, i, o) \/ (i = n + 1 /\ o = x)
    <3> HIDE DEF n
    <3> QED
      BY <1>1, <1>3 DEF Place, n
  <2>2. \A j, i, o : j # k => (Place(new, j, i, o) <=> Place(way, j, i, o))
    BY DEF Place
  <2> QED
    BY <2>1, <2>2
<1>5. ~\E o : Place(way, k, n + 1, o)
  BY <1>3 DEF Place
<1>6. /\ \A o : o \in OnWay(way) <=> \E j, i : Place(way, j, i, o)
      /\ \A o : o \in OnWay(new) <=> \E j, i : Place(new, j, i, o)
  BY OnWayPlaces
<1> HIDE DEF n
<1>7. OnWay(new) = OnWay(way) \cup {x}
  BY <1>4, <1>6
<1>8. ASSUME Once(way), x \notin OnWay(way)
      PROVE  Once(new)
  <2>1. \A j, i : ~Place(way, j, i, x)
    BY <1>6, <1>8
  <2> SUFFICES ASSUME NEW o, NEW j, NEW l, NEW i, NEW h,
                      Place(new, j, i, o), Place(new, l, h, o)
               PROVE  j = l /\ i = h
    BY DEF Once
  <2>2. CASE o = x
    BY <1>4, <2>1, <2>2
  <2>3. CASE o # x
    BY <1>4, <1>8, <2>3 DEF Once
  <2> QED
    BY <2>2, <2>3
<1> QED
  BY <1>7, <1>8

LEMMA OnceTail ==
    ASSUME NEW S, NEW way, NEW new, NEW k, Taken(S, way, new, k)
    PROVE  /\ OnWay(new) \subseteq OnWay(way)
           /\ Once(way) => Once(new) /\ OnWay(new) = OnWay(way) \ {Head(way[k])}
<1> USE DEF Taken
<1>1. /\ way[k] \in Seq(S) /\ Tail(way[k]) \in Seq(S)
      /\ Len(way[k]) \in Nat \ {0} /\ Len(Tail(way[k])) = Len(way[k]) - 1
      /\ \A i \in 1..Len(Tail(way[k])) : Tail(way[k])[i] = way[k][i + 1]
      /\ Head(way[k]) = way[k][1]
  OBVIOUS
<1>3. \A j, i, o : j # k => (Place(new, j, i, o) <=> Place(way, j, i, o))
  <2> HIDE DEF Conns
  <2> QED
    BY DEF Place
<1>4. \A i, o : Place(new, k, i, o) => i \in Nat \ {0} /\ Place(way, k, i + 1, o)
  <2> SUFFICES ASSUME NEW i \in 1..Len(Tail(way[k]))
               PROVE  i \in Nat \ {0} /\ i + 1 \in 1..Len(way[k])
                      /\ way[k][i + 1] = Tail(way[k])[i]
    BY DEF Place
  <2> QED
    BY <1>1
<1>5. \A i, o : Place(way, k, i, o) =>
                \/ i = 1 /\ o = Head(way[k])
                \/ i - 1 \in Nat \ {0} /\ Place(new, k, i - 1, o)
  <2> SUFFICES ASSUME NEW i, NEW o, Place(way, k, i, o)
               PROVE  \/ i = 1 /\ o = Head(way[k])
                      \/ i - 1 \in Nat \ {0} /\ Place(new, k, i - 1, o)
    OBVIOUS
  <2>1. i \in 1..Len(way[k]) /\ way[k][i] = o
    BY DEF Place
  <2>2. CASE i = 1
    BY <1>1, <2>1, <2>2
  <2>3. CASE i # 1
    <3>1. i - 1 \in Nat \ {0} /\ i - 1 \in 1..Len(Tail(way[k])) /\ (i - 1) + 1 = i
      BY <1>1, <2>1, <2>3
    <3>2. Tail(way[k])[i - 1] = o
      BY <1>1, <2>1, <3>1
    <3> QED
      BY <3>1, <3>2 DEF Place
  <2> QED
    BY <2>2, <2>3
<1>6. Place(way, k, 1, Head(way[k]))
  BY <1>1 DEF Place
<1>7. /\ \A o : o \in OnWay(way) <=> \E j, i : Place(way, j, i, o)
      /\ \A o : o \in OnWay(new) <=> \E j, i : Place(new, j, i, o)
  BY OnWayPlaces
<1>8. OnWay(new) \subseteq OnWay(way)
  BY <1>3, <1>4, <1>7
<1>9. ASSUME Once(way)
      PROVE  Once(new) /\ OnWay(new) = OnWay(way) \ {Head(way[k])}
  <2>1. Once(new)
    <3> SUFFICES ASSUME NEW o, NEW j, NEW l, NEW i, NEW h,
                        Place(new, j, i, o), Place(new, l, h, o)
                 PROVE  j = l /\ i = h
      BY DEF Once
    <3>1. CASE j = k /\ l = k
      <4>1. i \in Nat /\ h \in Nat /\ i + 1 = h + 1
        BY <1>4, <1>9, <3>1 DEF Once
      <4> QED
        BY <3>1, <4>1
    <3>2. CASE j # k \/ l # k
      <4>1. \E g : Place(way, j, g, o) /\ (j # k => g = i)
        BY <1>3, <1>4
      <4>2. \E g : Place(way, l, g, o) /\ (l # k => g = h)
        BY <1>3, <1>4
      <4> QED
        BY <1>9, <3>2, <4>1, <4>2 DEF Once
    <3> QED
      BY <3>1, <3>2
  <2>2. Head(way[k]) \notin OnWay(new)
    <3> SUFFICES ASSUME NEW j, NEW i, Place(new, j, i, Head(way[k]))
                 PROVE  FALSE
      BY <1>7
    <3>1. CASE j = k
      <4>1. i \in Nat \ {0} /\ i + 1 = 1
        BY <1>4, <1>6, <1>9, <3>1 DEF Once
      <4> QED
        BY <4>1
    <3>2. CASE j # k
      BY <1>3, <1>6, <1>9, <3>2 DEF Once
    <3> QED
      BY <3>1, <3>2
  <2>3. \A o \in OnWay(way) : o # Head(way[k]) => o \in OnWay(new)
    BY <1>3, <1>5, <1>7
  <2> QED
    BY <1>8, <2>1, <2>2, <2>3
<1> QED
  BY <1>8, <1>9

LEMMA OnceCut ==
    ASSUME NEW S, NEW way, NEW new, NEW k, Dropped(S, way, new, k)
    PROVE  /\ OnWay(new) \subseteq OnWay(way)
           /\ Once(way) => Once(new)
           /\ Once(way) => \A o \in OnWay(new) : \A i \in 1..Len(way[k]) : way[k][i] # o
<1> USE DEF Dropped
<1>2. \A j, i, o : Place(new, j, i, o) => j # k /\ Place(way, j, i, o)
  <2>1. 1..Len(new[k]) = {}
    OBVIOUS
  <2> HIDE DEF Conns
  <2> QED
    BY <2>1 DEF Place
<1>3. /\ \A o : o \in OnWay(way) <=> \E j, i : Place(way, j, i, o)
      /\ \A o : o \in OnWay(new) <=> \E j, i : Place(new, j, i, o)
  BY OnWayPlaces
<1>4. OnWay(new) \subseteq OnWay(way)
  BY <1>2, <1>3
<1>6. ASSUME Once(way)
      PROVE  Once(new)
  <2> SUFFICES ASSUME NEW o, NEW j, NEW l, NEW i, NEW h,
                      Place(new, j, i, o), Place(new, l, h, o)
               PROVE  j = l /\ i = h
    BY DEF Once
  <2> QED
    BY <1>2, <1>6 DEF Once
<1>5. ASSUME Once(way), NEW o \in OnWay(new), NEW i \in 1..Len(way[k]), way[k][i] = o
      PROVE  FALSE
  <2>1. Place(way, k, i, o)
    BY <1>5 DEF Place
  <2>2. PICK j, h : Place(new, j, h, o)
    BY <1>3, <1>5
  <2> QED
    BY <1>2, <1>5, <2>1, <2>2 DEF Once
<1> QED
  BY <1>4, <1>6, <1>5

(* What is not among the messages of a channel is not among its first ones. *)
LEMMA AmongNone ==
    ASSUME NEW c, NEW S, NEW way \in Seq(S), NEW n \in 0..Len(way),
           \A i \in 1..Len(way) : way[i] # c
    PROVE  Among(c, way, n) = 0
<1>1. {i \in 1..n : way[i] = c} = {}
  OBVIOUS
<1> QED
  BY <1>1, FS_EmptySet DEF Among

(* Operations are not messages, and what is not on its way on a channel is *)
(* not affected when the channel is cut.                                   *)
LEMMA OnWayKinds ==
    ASSUME TypeInv
    PROVE  /\ OnWay(pending) \subseteq Messages
           /\ OnWay(requested) \subseteq Operations /\ OnWay(replies) \subseteq Operations
           /\ \A k \in Conns : /\ \A i \in 1..Len(pending[k]) : pending[k][i] \in OnWay(pending)
                               /\ \A i \in 1..Len(requested[k]) :
                                     requested[k][i] \in OnWay(requested)
<1>1. /\ pending \in [Conns -> Seq(Messages)] /\ requested \in [Conns -> Seq(Operations)]
      /\ replies \in [Conns -> Seq(Operations)]
  BY DEF TypeInv, TypeOK
<1>2. /\ \A o : o \in OnWay(pending) => o \in Messages
      /\ \A o : o \in OnWay(pending) <=> \E k, i : Place(pending, k, i, o)
  BY <1>1, OnWayPlaces
<1>3. /\ \A o : o \in OnWay(requested) => o \in Operations
      /\ \A o : o \in OnWay(requested) <=> \E k, i : Place(requested, k, i, o)
  BY <1>1, OnWayPlaces
<1>4. \A o : o \in OnWay(replies) => o \in Operations
  BY <1>1, OnWayPlaces
<1>5. /\ \A k \in Conns : \A i \in 1..Len(pending[k]) : Place(pending, k, i, pending[k][i])
      /\ \A k \in Conns : \A i \in 1..Len(requested[k]) : Place(requested, k, i, requested[k][i])
  BY DEF Place
<1> QED
  BY <1>2, <1>3, <1>4, <1>5

LEMMA CutSpares ==
    ASSUME TypeInv, NEW k \in Conns, Cut(k), NEW c \in Calls,
           \A i \in 1..Len(pending[k]) : pending[k][i] # c,
           \A i \in 1..Len(requested[k]) : requested[k][i] # c
    PROVE  copies'[c] = copies[c]
<1>1. /\ pending[k] \in Seq(Messages) /\ requested[k] \in Seq(Operations)
      /\ copies \in [Calls -> Nat] /\ copies[c] \in Nat
  BY DEF TypeInv, TypeOK
<1>2. PICK n \in 0..Len(pending[k]), e \in 0..Len(requested[k]) :
         copies'[c] = copies[c] + Among(c, pending[k], n) + Among(c, requested[k], e)
  BY <1>1, CutCopies
<1>3. Among(c, pending[k], n) = 0 /\ Among(c, requested[k], e) = 0
  BY <1>1, AmongNone
<1> QED
  BY <1>1, <1>2, <1>3

(* A handler takes nothing and a broker forgets nothing it has taken.      *)
LEMMA CopiesGrow ==
    ASSUME TypeInv, [Next]_vars
    PROVE  \A c \in Calls : copies[c] \in Nat /\ copies'[c] \in Nat /\ copies'[c] >= copies[c]
<1>1. copies \in [Calls -> Nat] /\ pending \in [Conns -> Seq(Messages)]
      /\ requested \in [Conns -> Seq(Operations)]
  BY DEF TypeInv, TypeOK
<1>2. CASE copies' = copies
  BY <1>1, <1>2
<1>3. ASSUME NEW m \in Calls, copies' = [copies EXCEPT ![m] = @ + 1]
      PROVE  \A c \in Calls : copies[c] \in Nat /\ copies'[c] \in Nat /\ copies'[c] >= copies[c]
  <2>1. /\ copies' \in [Calls -> Nat] /\ copies'[m] = copies[m] + 1
        /\ \A c \in Calls \ {m} : copies'[c] = copies[c]
    BY <1>1, <1>3, OneMoreCopy
  <2>2. ASSUME NEW c \in Calls
        PROVE  copies[c] \in Nat /\ copies'[c] \in Nat /\ copies'[c] >= copies[c]
    <3>1. copies[c] \in Nat /\ (copies'[c] = copies[c] \/ copies'[c] = copies[c] + 1)
      BY <1>1, <2>1
    <3> QED
      BY <3>1
  <2> QED
    BY <2>2
<1>4. ASSUME NEW k \in Conns, Cut(k)
      PROVE  \A c \in Calls : copies[c] \in Nat /\ copies'[c] \in Nat /\ copies'[c] >= copies[c]
  BY <1>1, <1>4, CutCopies
<1>5. ASSUME NEW k \in Conns, Broker(k)
      PROVE  \A c \in Calls : copies[c] \in Nat /\ copies'[c] \in Nat /\ copies'[c] >= copies[c]
  <2>1. CASE BrokerTakes(k)
    BY <1>1, <1>3, <2>1, HeadTyped DEF BrokerTakes, Calls
  <2>2. CASE BrokerExecutes(k)
    BY <1>1, <1>3, <2>2, HeadTyped DEF BrokerExecutes, Calls
  <2>3. CASE BrokerRefuses(k)
    BY <1>2, <2>3 DEF BrokerRefuses
  <2> QED
    BY <1>4, <1>5, <2>1, <2>2, <2>3 DEF Broker, ChannelException, ConnectionLost
<1>6. ASSUME NEW c \in Calls, Handler(c)
      PROVE  copies' = copies
  BY <1>6, AsideMoves DEF QueueOperation, AwaitReply
<1> QED
  BY <1>2, <1>5, <1>6 DEF Next, Quiet, vars, traffic

-----------------------------------------------------------------------------
(* Every operation is requested, executed and answered at most once.       *)

OnceInv ==
    /\ Once(requested) /\ Once(replies)
    /\ \A o \in OnWay(requested) : copies[o] = 0 /\ call[o].pc \notin Early
    /\ \A o \in OnWay(replies) : copies[o] > 0
    /\ \A o \in Operations : call[o].pc \in Early => copies[o] = 0

(* The request of a queue operation is sent, and nothing else.             *)
LEMMA RequestSent ==
    ASSUME TypeInv, NEW c \in Calls, QueueOperation(c)
    PROVE  /\ Others(c) /\ c \in Operations /\ call[c].pc = "use"
           /\ UNCHANGED <<replies, copies>>
           /\ \/ /\ channel \in openChannels /\ call'[c].pc = "reply" /\ call'[c].on = channel
                 /\ Sent(Operations, requested, requested', channel, c)
              \/ channel \notin openChannels /\ call'[c].pc = "failed" /\ UNCHANGED requested
<1>1. /\ Others(c)
      /\ \/ channel \in openChannels /\ call'[c].pc = "reply" /\ call'[c].on = channel
         \/ channel \notin openChannels /\ call'[c].pc = "failed"
  BY CallTyped, QueueOperationMoves DEF TypeInv, TypeOK
<1>2. /\ c \in Operations /\ call[c].pc = "use" /\ UNCHANGED <<replies, copies>>
  BY DEF QueueOperation, At
<1>3. CASE channel \in openChannels
  <2>1. channel \in Conns /\ requested \in [Conns -> Seq(Operations)]
    BY <1>3 DEF TypeInv, TypeOK
  <2>2. requested' = [requested EXCEPT ![channel] = Append(@, c)]
    BY <1>3 DEF QueueOperation
  <2>3. Sent(Operations, requested, requested', channel, c)
    BY <1>2, <2>1, <2>2, WayChanges
  <2> QED
    BY <1>1, <1>2, <1>3, <2>3
<1>4. CASE channel \notin openChannels
  BY <1>1, <1>2, <1>4 DEF QueueOperation
<1> QED
  BY <1>3, <1>4

(* A reply is taken, or the channel is closed.                             *)
LEMMA ReplyTaken ==
    ASSUME TypeInv, NEW c \in Calls, AwaitReply(c)
    PROVE  LET k == call[c].on IN
           /\ Others(c) /\ c \in Operations /\ call[c].pc = "reply" /\ k \in Conns
           /\ UNCHANGED <<requested, copies>>
           /\ \/ /\ call'[c].pc = IF Fits(c, Head(replies[k])) THEN "ok" ELSE "failed"
                 /\ Taken(Operations, replies, replies', k)
              \/ k \notin openChannels /\ call'[c].pc = "failed" /\ UNCHANGED replies
<1> DEFINE k == call[c].on
<1>1. /\ Others(c) /\ c \in Operations /\ call[c].pc = "reply" /\ k \in Conns
      /\ UNCHANGED <<requested, copies>>
  BY CallTyped, AwaitReplyMoves DEF AwaitReply, At
<1>2. CASE replies[k] # <<>> /\ replies' = [replies EXCEPT ![k] = Tail(@)]
           /\ call' = [call EXCEPT ![c].pc = IF Fits(c, Head(replies[k])) THEN "ok" ELSE "failed",
                                   ![c].on = 0]
  <2>1. replies \in [Conns -> Seq(Operations)]
    BY DEF TypeInv, TypeOK
  <2>2. Taken(Operations, replies, replies', k)
    BY <1>1, <1>2, <2>1, WayChanges
  <2>3. call'[c].pc = IF Fits(c, Head(replies[k])) THEN "ok" ELSE "failed"
    BY <1>2, CallTyped DEF CallType
  <2> QED
    BY <1>1, <1>2, <2>2, <2>3
<1>3. CASE k \notin openChannels /\ call' = [call EXCEPT ![c].pc = "failed", ![c].on = 0]
           /\ UNCHANGED replies
  BY <1>1, <1>3, CallTyped DEF CallType
<1> QED
  BY <1>2, <1>3 DEF AwaitReply, NoReply

(* A request is executed: its reply follows it.                            *)
LEMMA RequestExecuted ==
    ASSUME TypeInv, NEW k \in Conns, BrokerExecutes(k)
    PROVE  LET c == Head(requested[k]) IN
           /\ call' = call /\ c \in Operations /\ c \in OnWay(requested)
           /\ copies' \in [Calls -> Nat] /\ copies'[c] = copies[c] + 1
           /\ \A d \in Calls \ {c} : copies'[d] = copies[d]
           /\ Taken(Operations, requested, requested', k)
           /\ Sent(Operations, replies, replies', k, c)
<1> DEFINE c == Head(requested[k])
<1>1. /\ requested \in [Conns -> Seq(Operations)] /\ replies \in [Conns -> Seq(Operations)]
      /\ copies \in [Calls -> Nat] /\ requested[k] # <<>> /\ call' = call
      /\ copies' = [copies EXCEPT ![c] = @ + 1]
      /\ requested' = [requested EXCEPT ![k] = Tail(@)]
      /\ replies' = [replies EXCEPT ![k] = Append(@, c)]
  BY DEF BrokerExecutes, TypeInv, TypeOK
<1>2. c \in Operations /\ c \in OnWay(requested) /\ c \in Calls
  BY <1>1, FirstOnWay DEF Calls
<1>3. /\ copies' \in [Calls -> Nat] /\ copies'[c] = copies[c] + 1
      /\ \A d \in Calls \ {c} : copies'[d] = copies[d]
  BY <1>1, <1>2, OneMoreCopy
<1>4. Taken(Operations, requested, requested', k)
  BY <1>1, WayChanges
<1>5. Sent(Operations, replies, replies', k, c)
  BY <1>1, <1>2, WayChanges
<1> QED
  BY <1>1, <1>2, <1>3, <1>4, <1>5

LEMMA OnceKept == TypeInv /\ OnceInv /\ [Next]_vars => OnceInv'
<1> SUFFICES ASSUME TypeInv, OnceInv, [Next]_vars
             PROVE  OnceInv'
  OBVIOUS
<1> USE DEF OnceInv
<1>1. /\ requested \in [Conns -> Seq(Operations)] /\ replies \in [Conns -> Seq(Operations)]
      /\ OnWay(requested) \subseteq Operations /\ Operations \subseteq Calls
  BY OnWayKinds, KindsOfCalls DEF TypeInv, TypeOK
<1>2. CASE UNCHANGED vars
  BY <1>2 DEF vars, traffic, rpc
<1>3. ASSUME NEW c \in Calls, QueueOperation(c)
      PROVE  OnceInv'
  <2>1. /\ Others(c) /\ c \in Operations /\ call[c].pc = "use"
        /\ UNCHANGED <<replies, copies>> /\ call'[c].pc \notin Early
    BY <1>3, RequestSent DEF Early
  <2>2. c \notin OnWay(requested) /\ copies[c] = 0
    BY <2>1 DEF Early
  <2>3. Once(requested') /\ OnWay(requested') \subseteq OnWay(requested) \cup {c}
    <3>1. CASE requested' = requested
      BY <3>1
    <3>2. CASE requested' # requested
      <4>1. Sent(Operations, requested, requested', channel, c)
        BY <1>3, <3>2, RequestSent
      <4> QED
        BY <2>2, <4>1, OnceAppend
    <3> QED
      BY <3>1, <3>2
  <2>4. \A o \in Operations : call'[o].pc \in Early => copies'[o] = 0
    BY <1>1, <2>1 DEF Others
  <2>5. \A o \in OnWay(requested') : copies'[o] = 0 /\ call'[o].pc \notin Early
    BY <1>1, <2>1, <2>2, <2>3 DEF Others
  <2> QED
    BY <2>1, <2>3, <2>4, <2>5
<1>4. ASSUME NEW c \in Calls, AwaitReply(c)
      PROVE  OnceInv'
  <2> DEFINE k == call[c].on
  <2>1. /\ Others(c) /\ UNCHANGED <<requested, copies>> /\ k \in Conns
        /\ call'[c].pc \notin Early
    BY <1>4, ReplyTaken DEF Early
  <2>2. Once(replies') /\ OnWay(replies') \subseteq OnWay(replies)
    <3>1. CASE replies' = replies
      BY <3>1
    <3>2. CASE replies' # replies
      <4>1. Taken(Operations, replies, replies', k)
        BY <1>4, <3>2, ReplyTaken
      <4> QED
        BY <4>1, OnceTail
    <3> QED
      BY <3>1, <3>2
  <2>3. /\ \A o \in OnWay(requested') : copies'[o] = 0 /\ call'[o].pc \notin Early
        /\ \A o \in Operations : call'[o].pc \in Early => copies'[o] = 0
    BY <1>1, <2>1 DEF Others
  <2> QED
    BY <2>1, <2>2, <2>3
<1>5. ASSUME NEW c \in Calls, Handler(c), ~QueueOperation(c), ~AwaitReply(c)
      PROVE  OnceInv'
  <2>1. /\ Others(c) /\ UNCHANGED <<requested, replies, copies>>
        /\ c \in Operations => (call'[c].pc \in Early => call[c].pc \in Early)
    BY <1>5, AsideMoves
  <2>2. \A o \in Operations : call'[o].pc \in Early => call[o].pc \in Early
    BY <1>1, <2>1 DEF Others
  <2> QED
    BY <1>1, <2>1, <2>2
<1>6. ASSUME NEW k \in Conns, BrokerExecutes(k)
      PROVE  OnceInv'
  <2> DEFINE c == Head(requested[k])
  <2>1. /\ call' = call /\ c \in Operations /\ c \in OnWay(requested)
        /\ copies'[c] = copies[c] + 1
        /\ \A d \in Calls \ {c} : copies'[d] = copies[d]
    BY <1>6, RequestExecuted
  <2>2. copies[c] = 0 /\ copies'[c] > 0 /\ call[c].pc \notin Early
    BY <2>1
  <2>3. c \notin OnWay(replies)
    BY <2>2
  <2>4. Once(requested') /\ OnWay(requested') = OnWay(requested) \ {c}
    BY <1>6, RequestExecuted, OnceTail
  <2>5. Once(replies') /\ OnWay(replies') = OnWay(replies) \cup {c}
    BY <1>6, <2>3, RequestExecuted, OnceAppend
  <2>6. \A o \in OnWay(replies') : copies'[o] > 0
    BY <1>1, <2>1, <2>2, <2>5, OnWayKinds
  <2>7. /\ \A o \in OnWay(requested') : copies'[o] = 0 /\ call'[o].pc \notin Early
        /\ \A o \in Operations : call'[o].pc \in Early => copies'[o] = 0
    BY <1>1, <2>1, <2>2, <2>4
  <2> QED
    BY <2>4, <2>5, <2>6, <2>7
<1>7. ASSUME NEW k \in Conns, BrokerTakes(k) \/ BrokerRefuses(k)
      PROVE  OnceInv'
  <2>1. /\ UNCHANGED <<call, requested, replies>>
        /\ \A o \in Operations : copies'[o] = copies[o]
    <3>1. CASE BrokerRefuses(k)
      BY <3>1 DEF BrokerRefuses, rpc
    <3>2. CASE BrokerTakes(k)
      <4>1. Head(pending[k]) \in Messages
        BY <3>2, HeadTyped DEF BrokerTakes, TypeInv, TypeOK
      <4> QED
        BY <3>2, <4>1, KindsOfCalls, OneMoreCopy DEF BrokerTakes, rpc, TypeInv, TypeOK
    <3> QED
      BY <1>7, <3>1, <3>2
  <2>2. OnWay(replies) \subseteq Operations
    BY OnWayKinds
  <2> QED
    BY <1>1, <2>1, <2>2
<1>8. ASSUME NEW k \in Conns, Cut(k)
      PROVE  OnceInv'
  <2>1. UNCHANGED <<call, replies>> /\ requested' = [requested EXCEPT ![k] = <<>>]
    BY <1>8 DEF Cut
  <2>2. Dropped(Operations, requested, requested', k)
    BY <1>1, <2>1, WayChanges
  <2>3. /\ OnWay(requested') \subseteq OnWay(requested) /\ Once(requested')
        /\ \A o \in OnWay(requested') : \A i \in 1..Len(requested[k]) : requested[k][i] # o
    BY <2>2, OnceCut
  <2>4. ASSUME NEW o \in Operations, \A i \in 1..Len(requested[k]) : requested[k][i] # o
        PROVE  copies'[o] = copies[o]
    <3>1. o \notin Messages /\ o \in Calls
      BY KindsOfCalls
    <3>2. \A i \in 1..Len(pending[k]) : pending[k][i] # o
      BY <3>1, OnWayKinds
    <3> QED
      BY <1>8, <2>4, <3>1, <3>2, CutSpares
  <2>5. \A o \in OnWay(requested') : copies'[o] = 0 /\ call'[o].pc \notin Early
    BY <1>1, <2>1, <2>3, <2>4
  <2>6. ASSUME NEW o \in Operations, call'[o].pc \in Early
        PROVE  copies'[o] = 0
    <3>1. o \notin OnWay(requested) /\ copies[o] = 0
      BY <2>1, <2>6
    <3>2. \A i \in 1..Len(requested[k]) : requested[k][i] # o
      BY <3>1, OnWayKinds
    <3> QED
      BY <2>4, <3>1, <3>2
  <2>7. \A o \in OnWay(replies') : copies'[o] > 0
    <3>1. \A o \in OnWay(replies) : o \in Calls
      BY <1>1, OnWayKinds
    <3> QED
      BY <2>1, <3>1, CopiesGrow
  <2> QED
    BY <2>1, <2>3, <2>5, <2>6, <2>7
<1> QED
  BY <1>2, <1>3, <1>4, <1>5, <1>6, <1>7, <1>8
  DEF Next, Quiet, Broker, ChannelException, ConnectionLost

LEMMA InitOnce == Init => OnceInv
<1> SUFFICES ASSUME Init
             PROVE  OnceInv
  OBVIOUS
<1> DEFINE none == [k \in Conns |-> <<>>]
<1>1. none \in [Conns -> Seq(Operations)] /\ ~\E k, i, o : Place(none, k, i, o)
  <2>1. \A k \in Conns : none[k] = <<>> /\ 1..Len(none[k]) = {}
    OBVIOUS
  <2> QED
    BY <2>1, EmptySeq DEF Place
<1>2. OnWay(none) = {} /\ Once(none)
  <2> HIDE DEF none
  <2>1. \A o : o \in OnWay(none) <=> \E k, i : Place(none, k, i, o)
    BY <1>1, OnWayPlaces
  <2> QED
    BY <1>1, <2>1 DEF Once
<1>3. requested = none /\ replies = none /\ copies = [c \in Calls |-> 0]
  BY DEF Init
<1> QED
  BY <1>2, <1>3, KindsOfCalls DEF OnceInv

-----------------------------------------------------------------------------
(* Every success of an operation uses up the reply to one of its kind.     *)

Succeeded(kind) == {o \in kind : At(o, "ok")}
Executed(kind) == {o \in kind : copies[o] > 0}
Unclaimed(kind) == OnWay(replies) \cap kind
Kinds == {Declarations, Deletions}

ClaimInv ==
    \A kind \in Kinds :
        Cardinality(Succeeded(kind)) + Cardinality(Unclaimed(kind))
            <= Cardinality(Executed(kind))

LEMMA ClaimSets ==
    ASSUME NEW kind \in Kinds
    PROVE  /\ kind \subseteq Operations /\ kind \subseteq Calls
           /\ IsFiniteSet(Succeeded(kind)) /\ Cardinality(Succeeded(kind)) \in Nat
           /\ IsFiniteSet(Unclaimed(kind)) /\ Cardinality(Unclaimed(kind)) \in Nat
           /\ IsFiniteSet(Executed(kind)) /\ Cardinality(Executed(kind)) \in Nat
           /\ IsFiniteSet(Succeeded(kind)') /\ Cardinality(Succeeded(kind)') \in Nat
           /\ IsFiniteSet(Unclaimed(kind)') /\ Cardinality(Unclaimed(kind)') \in Nat
           /\ IsFiniteSet(Executed(kind)') /\ Cardinality(Executed(kind)') \in Nat
<1>1. kind \subseteq Operations /\ kind \subseteq Calls /\ IsFiniteSet(Calls)
  BY KindsOfCalls DEF Kinds
<1>2. IsFiniteSet(kind)
  BY <1>1, FS_Subset
<1>3. /\ Succeeded(kind) \subseteq kind /\ Unclaimed(kind) \subseteq kind
      /\ Executed(kind) \subseteq kind /\ Succeeded(kind)' \subseteq kind
      /\ Unclaimed(kind)' \subseteq kind /\ Executed(kind)' \subseteq kind
  BY DEF Succeeded, Unclaimed, Executed
<1>4. \A part \in SUBSET kind : IsFiniteSet(part) /\ Cardinality(part) \in Nat
  BY <1>2, FS_Subset, FS_CardinalityType
<1> QED
  BY <1>1, <1>3, <1>4

\* Nothing succeeds, and no reply arrives.
LEMMA ClaimFrame ==
    ASSUME NEW kind \in Kinds,
           Cardinality(Succeeded(kind)) + Cardinality(Unclaimed(kind))
               <= Cardinality(Executed(kind)),
           Succeeded(kind)' \subseteq Succeeded(kind),
           Unclaimed(kind)' \subseteq Unclaimed(kind),
           Executed(kind) \subseteq Executed(kind)'
    PROVE  Cardinality(Succeeded(kind)') + Cardinality(Unclaimed(kind)')
               <= Cardinality(Executed(kind)')
<1>1. /\ Cardinality(Succeeded(kind)') <= Cardinality(Succeeded(kind))
      /\ Cardinality(Unclaimed(kind)') <= Cardinality(Unclaimed(kind))
      /\ Cardinality(Executed(kind)) <= Cardinality(Executed(kind)')
  BY ClaimSets, FS_Subset
<1> QED
  BY <1>1, ClaimSets

LEMMA ClaimKept ==
    ASSUME TypeInv, OnceInv, ClaimInv, [Next]_vars
    PROVE  ClaimInv'
<1> SUFFICES ASSUME NEW kind \in Kinds
             PROVE  Cardinality(Succeeded(kind)') + Cardinality(Unclaimed(kind)')
                        <= Cardinality(Executed(kind)')
  BY DEF ClaimInv, Kinds
<1>1. Cardinality(Succeeded(kind)) + Cardinality(Unclaimed(kind))
          <= Cardinality(Executed(kind))
  BY DEF ClaimInv
<1>2. Executed(kind) \subseteq Executed(kind)'
  <2>1. \A o \in kind : copies[o] \in Nat /\ copies'[o] \in Nat /\ copies'[o] >= copies[o]
    BY ClaimSets, CopiesGrow
  <2> QED
    BY <2>1 DEF Executed
<1>3. ASSUME Succeeded(kind)' \subseteq Succeeded(kind), OnWay(replies') \subseteq OnWay(replies)
      PROVE  Cardinality(Succeeded(kind)') + Cardinality(Unclaimed(kind)')
                 <= Cardinality(Executed(kind)')
  BY <1>1, <1>2, <1>3, ClaimFrame DEF Unclaimed
<1>4. CASE UNCHANGED vars
  BY <1>3, <1>4 DEF vars, traffic, rpc, Succeeded, At
<1>5. ASSUME NEW c \in Calls, Handler(c), ~AwaitReply(c)
      PROVE  Succeeded(kind)' \subseteq Succeeded(kind) /\ replies' = replies
  <2>1. /\ Others(c) /\ replies' = replies
        /\ c \in Operations => call'[c].pc # "ok"
    BY <1>5, AsideMoves, RequestSent
  <2> QED
    BY <2>1, ClaimSets DEF Succeeded, At, Others
<1>6. ASSUME NEW c \in Calls, AwaitReply(c)
      PROVE  Cardinality(Succeeded(kind)') + Cardinality(Unclaimed(kind)')
                 <= Cardinality(Executed(kind)')
  <2> DEFINE k == call[c].on
             h == Head(replies[k])
  <2>1. Others(c) /\ c \in Operations /\ call[c].pc = "reply"
    BY <1>6, ReplyTaken
  <2>2. CASE call'[c].pc = "failed" /\ OnWay(replies') \subseteq OnWay(replies)
    <3>1. Succeeded(kind)' \subseteq Succeeded(kind)
      BY <2>1, <2>2, ClaimSets DEF Succeeded, At, Others
    <3> QED
      BY <1>3, <2>2, <3>1
  <2>3. CASE call'[c].pc = "ok" /\ Fits(c, h) /\ Taken(Operations, replies, replies', k)
    <3>1. h \in OnWay(replies) /\ h \in Operations /\ OnWay(replies') = OnWay(replies) \ {h}
      <4>1. h \in OnWay(replies) /\ h \in Operations
        BY <2>3, FirstOnWay DEF Taken
      <4>2. Once(replies)
        BY DEF OnceInv
      <4> QED
        BY <2>3, <4>1, <4>2, OnceTail
    <3>2. c \in kind <=> h \in kind
      BY <2>1, <2>3, <3>1, KindsOfCalls DEF Fits, Kinds
    <3>3. CASE c \notin kind
      <4>1. Succeeded(kind)' \subseteq Succeeded(kind)
        BY <2>1, <3>3, ClaimSets DEF Succeeded, At, Others
      <4> QED
        BY <1>3, <3>1, <4>1
    <3>4. CASE c \in kind
      <4>1. Succeeded(kind)' = Succeeded(kind) \cup {c} /\ c \notin Succeeded(kind)
        BY <2>1, <2>3, <3>4, ClaimSets DEF Succeeded, At, Others
      <4>2. Unclaimed(kind)' = Unclaimed(kind) \ {h} /\ h \in Unclaimed(kind)
        BY <3>1, <3>2, <3>4 DEF Unclaimed
      <4>3. Cardinality(Succeeded(kind)') = Cardinality(Succeeded(kind)) + 1
        BY <4>1, ClaimSets, FS_AddElement
      <4>4. Cardinality(Unclaimed(kind)') = Cardinality(Unclaimed(kind)) - 1
        <5>1. IsFiniteSet(Unclaimed(kind))
          BY ClaimSets
        <5> HIDE DEF h
        <5> QED
          BY <4>2, <5>1, FS_RemoveElement
      <4>5. Cardinality(Executed(kind)) <= Cardinality(Executed(kind)')
        BY <1>2, ClaimSets, FS_Subset
      <4> QED
        BY <1>1, <4>3, <4>4, <4>5, ClaimSets
    <3> QED
      BY <3>3, <3>4
  <2>4. \/ call'[c].pc = "failed" /\ UNCHANGED replies
        \/ /\ call'[c].pc = IF Fits(c, h) THEN "ok" ELSE "failed"
           /\ Taken(Operations, replies, replies', k)
    BY <1>6, ReplyTaken
  <2>5. Taken(Operations, replies, replies', k) => OnWay(replies') \subseteq OnWay(replies)
    BY OnceTail
  <2> QED
    BY <2>2, <2>3, <2>4, <2>5
<1>7. ASSUME NEW k \in Conns, BrokerExecutes(k)
      PROVE  Cardinality(Succeeded(kind)') + Cardinality(Unclaimed(kind)')
                 <= Cardinality(Executed(kind)')
  <2> DEFINE c == Head(requested[k])
  <2>1. /\ call' = call /\ c \in Operations /\ c \in OnWay(requested)
        /\ copies'[c] = copies[c] + 1
    BY <1>7, RequestExecuted
  <2>2. OnWay(replies') = OnWay(replies) \cup {c}
    BY <1>7, RequestExecuted, OnceAppend
  <2>3. Succeeded(kind)' = Succeeded(kind)
    BY <2>1 DEF Succeeded, At
  <2>4. CASE c \in kind
    <3>1. c \notin Executed(kind) /\ c \in Executed(kind)'
      BY <2>1, <2>4 DEF OnceInv, Executed
    <3>2. c \notin Unclaimed(kind) /\ Unclaimed(kind)' = Unclaimed(kind) \cup {c}
      BY <2>1, <2>2, <2>4 DEF OnceInv, Unclaimed
    <3>3. Cardinality(Unclaimed(kind)') = Cardinality(Unclaimed(kind)) + 1
      BY <3>2, ClaimSets, FS_AddElement
    <3>4. Cardinality(Executed(kind) \cup {c}) = Cardinality(Executed(kind)) + 1
      BY <3>1, ClaimSets, FS_AddElement
    <3>5. Cardinality(Executed(kind) \cup {c}) <= Cardinality(Executed(kind)')
      BY <1>2, <3>1, ClaimSets, FS_Subset
    <3> QED
      BY <1>1, <2>3, <3>3, <3>4, <3>5, ClaimSets
  <2>5. CASE c \notin kind
    <3>1. Unclaimed(kind)' \subseteq Unclaimed(kind)
      BY <2>2, <2>5 DEF Unclaimed
    <3> QED
      BY <1>1, <1>2, <2>3, <3>1, ClaimFrame
  <2> QED
    BY <2>4, <2>5
<1>8. ASSUME NEW k \in Conns, Broker(k), ~BrokerExecutes(k)
      PROVE  Succeeded(kind)' \subseteq Succeeded(kind) /\ replies' = replies
  BY <1>8 DEF Broker, BrokerTakes, BrokerRefuses, ChannelException, ConnectionLost, Cut, rpc,
              Succeeded, At
<1> QED
  BY <1>3, <1>4, <1>5, <1>6, <1>7, <1>8 DEF Next, Quiet

(* A declaration may succeed before its queue exists, and a deletion       *)
(* before its queue is gone, for the reply of another; but of each kind no *)
(* more succeed than the broker has executed.                              *)
THEOREM NoUnearnedSuccess == Spec => []NoMoreOkThanDone
<1>1. Init => ClaimInv
  <2> SUFFICES ASSUME Init, NEW kind \in Kinds
               PROVE  Cardinality(Succeeded(kind)) + Cardinality(Unclaimed(kind))
                          <= Cardinality(Executed(kind))
    BY DEF ClaimInv
  <2>1. Succeeded(kind) = {}
    BY ClaimSets DEF Init, Succeeded, At
  <2>2. Unclaimed(kind) = {}
    <3>1. \A o : o \in OnWay(replies) <=> \E k, i : Place(replies, k, i, o)
      BY InitTypeInv, OnWayPlaces DEF TypeInv, TypeOK
    <3>2. \A k \in Conns : 1..Len(replies[k]) = {}
      BY DEF Init
    <3> QED
      BY <3>1, <3>2 DEF Place, Unclaimed
  <2> QED
    BY <2>1, <2>2, ClaimSets, FS_EmptySet
<1>2. TypeInv /\ ClaimInv => NoMoreOkThanDone
  <2> SUFFICES ASSUME ClaimInv, NEW kind \in Kinds
               PROVE  Cardinality(Succeeded(kind)) <= Cardinality(Executed(kind))
    BY DEF NoMoreOkThanDone, Kinds, Succeeded, Executed
  <2> QED
    BY ClaimSets DEF ClaimInv
<1> QED
  BY <1>1, <1>2, InitTypeInv, NextTypeInv, InitOnce, OnceKept, ClaimKept, PTL DEF Spec

-----------------------------------------------------------------------------
(* Messages while the first channel is open.                               *)

LEMMA FaultsGrow ==
    ASSUME TypeInv, [Next]_vars
    PROVE  \A kind \in AllFaultKinds : /\ faults[kind] \in Nat /\ faults'[kind] \in Nat
                                       /\ faults[kind] <= faults'[kind]
<1>1. MaxFaults \in Nat /\ faults \in [AllFaultKinds -> 0..MaxFaults] /\ TotalFaults <= MaxFaults
  BY MiddlewareAssumption DEF TypeInv, TypeOK, DialInv
<1>2. CASE faults' = faults
  BY <1>1, <1>2
<1>3. ASSUME NEW kind, Fault(kind)
      PROVE  \A k \in AllFaultKinds : /\ faults[k] \in Nat /\ faults'[k] \in Nat
                                      /\ faults[k] <= faults'[k]
  <2>1. /\ faults' \in [AllFaultKinds -> 0..MaxFaults]
        /\ kind \in AllFaultKinds /\ faults'[kind] = faults[kind] + 1
        /\ \A k \in AllFaultKinds \ {kind} : faults'[k] = faults[k]
    BY <1>1, <1>3, FaultCounts
  <2> HIDE DEF AllFaultKinds
  <2>2. ASSUME NEW k \in AllFaultKinds
        PROVE  faults[k] \in Nat /\ faults'[k] \in Nat /\ faults[k] <= faults'[k]
    <3>1. faults[k] \in Nat /\ (faults'[k] = faults[k] \/ faults'[k] = faults[k] + 1)
      BY <1>1, <2>1
    <3> QED
      BY <3>1
  <2> QED
    BY <2>2
<1>4. ASSUME NEW c \in Calls, Handler(c)
      PROVE  faults' = faults \/ \E kind : Fault(kind)
  BY <1>4 DEF Handler, Proceed, EnsureConnection, Dial, AssignConn, Panic, QueueOperation,
              AwaitReply, PublishAttempt, AwaitConfirmation, DialFails, ChannelFails
<1>5. faults' = faults \/ \E kind : Fault(kind)
  BY <1>4, BrokerFrame DEF Next, Quiet, vars
<1> QED
  BY <1>2, <1>3, <1>5

LEMMA OpenBefore ==
    ASSUME TypeInv, [Next]_vars, 1 \in openChannels'
    PROVE  1 \in openChannels
<1>1. dialled \in Nat /\ dialled >= 1
  BY DEF TypeInv, TypeOK, Conns
<1>2. ASSUME NEW c \in Calls, Dial(c)
      PROVE  1 \in openChannels
  <2>1. openChannels' = openChannels \cup {dialled + 1} /\ dialled + 1 # 1
    BY <1>1, <1>2 DEF Dial
  <2> QED
    BY <2>1
<1>3. ASSUME NEW c \in Calls, Handler(c)
      PROVE  1 \in openChannels
  BY <1>2, <1>3, AsideMoves DEF QueueOperation, AwaitReply, network
<1>4. ASSUME NEW k \in Conns, Broker(k)
      PROVE  1 \in openChannels
  BY <1>4, BrokerFrame
<1> QED
  BY <1>3, <1>4 DEF Next, Quiet, vars, network

(* A message is sent, or the attempt has failed.                           *)
LEMMA MessageSent ==
    ASSUME TypeInv, NEW c \in Calls, PublishAttempt(c)
    PROVE  /\ call' \in [Calls -> CallType] /\ Others(c) /\ c \in Messages /\ call[c].pc = "use"
           /\ UNCHANGED <<conn, channel, network, confirms, copies, faults>>
           /\ \/ /\ channel \in openChannels /\ call'[c].pc = "await"
                 /\ call'[c].attempt = call[c].attempt
                 /\ Sent(Messages, pending, pending', channel, c)
              \/ channel \notin openChannels /\ Retry(c) /\ UNCHANGED pending
<1>1. /\ c \in Messages /\ call[c].pc = "use" /\ "await" \in PCs
      /\ UNCHANGED <<conn, channel, network, confirms, copies, faults>>
  BY DEF PublishAttempt, At, fields, PCs
<1>2. CASE channel \in openChannels
  <2>1. Goto(c, "await") /\ pending' = [pending EXCEPT ![channel] = Append(@, c)]
    BY <1>2 DEF PublishAttempt
  <2>2. /\ call' \in [Calls -> CallType] /\ Others(c) /\ call'[c].pc = "await"
        /\ call'[c].attempt = call[c].attempt
    BY <1>1, <2>1, CallTyped, GotoMoves
  <2>3. channel \in Conns /\ pending \in [Conns -> Seq(Messages)]
    BY <1>2 DEF TypeInv, TypeOK
  <2>4. Sent(Messages, pending, pending', channel, c)
    BY <1>1, <2>1, <2>3, WayChanges
  <2> QED
    BY <1>1, <1>2, <2>2, <2>4
<1>3. CASE channel \notin openChannels
  <2>1. Retry(c) /\ UNCHANGED pending
    BY <1>3 DEF PublishAttempt
  <2>2. call' \in [Calls -> CallType] /\ Others(c)
    BY <2>1, CallTyped, RetryMoves
  <2> QED
    BY <1>1, <1>3, <2>1, <2>2
<1> QED
  BY <1>2, <1>3

(* A confirmation is read, or the listener is closed.                      *)
LEMMA ConfirmationRead ==
    ASSUME TypeInv, NEW c \in Calls, AwaitConfirmation(c)
    PROVE  /\ call' \in [Calls -> CallType] /\ Others(c) /\ c \in Messages /\ call[c].pc = "await"
           /\ UNCHANGED <<conn, channel, network, pending, copies, faults>>
           /\ \/ /\ confirms # <<>> /\ confirms' = Tail(confirms)
                 /\ \/ Head(confirms).ack = TRUE /\ call'[c].pc = "ok"
                    \/ Head(confirms).ack = FALSE /\ Retry(c)
              \/ confirms = <<>> /\ 1 \notin openChannels /\ UNCHANGED confirms /\ Retry(c)
<1>1. /\ c \in Messages /\ call[c].pc = "await" /\ "ok" \in PCs
      /\ UNCHANGED <<conn, channel, network, pending, copies, faults>>
  BY CallTyped DEF AwaitConfirmation, At, fields, PCs, Ended
<1>2. CASE Confirmed(TRUE) /\ Goto(c, "ok")
  BY <1>1, <1>2, CallTyped, GotoMoves DEF Confirmed
<1>3. CASE (Confirmed(FALSE) \/ Unconfirmable) /\ Retry(c)
  BY <1>1, <1>3, CallTyped, RetryMoves DEF Confirmed, Unconfirmable
<1> QED
  BY <1>2, <1>3 DEF AwaitConfirmation, Receive

\* Reading the confirmations keeps what is true of them all.
LEMMA RestOfConfirms ==
    ASSUME TypeInv, confirms # <<>>, confirms' = Tail(confirms)
    PROVE  /\ Len(confirms') = Len(confirms) - 1 /\ Len(confirms) \in Nat \ {0}
           /\ confirms[1] = Head(confirms) /\ 1 \in 1..Len(confirms)
           /\ \A i \in 1..Len(confirms') : confirms'[i] = confirms[i + 1]
                                           /\ i + 1 \in 1..Len(confirms)
<1> DEFINE Answers == [msg : Messages, ack : BOOLEAN]
<1>1. confirms \in Seq(Answers)
  BY DEF TypeInv, TypeOK
<1> HIDE DEF Answers
<1> QED
  BY <1>1

(* A confirmation arrives.                                                 *)
LEMMA MessageDealtWith ==
    ASSUME TypeInv, NEW k \in Conns, BrokerTakes(k) \/ BrokerRefuses(k)
    PROVE  LET m == Head(pending[k]) IN
           /\ UNCHANGED <<call, fields, network>> /\ k \in openChannels
           /\ m \in Messages /\ m \in OnWay(pending) /\ Taken(Messages, pending, pending', k)
           /\ BrokerTakes(k) =>
                 /\ copies' \in [Calls -> Nat] /\ copies'[m] = copies[m] + 1
                 /\ \A d \in Calls \ {m} : copies'[d] = copies[d]
                 /\ k = 1 => confirms' = Append(confirms, [msg |-> m, ack |-> TRUE])
                 /\ UNCHANGED faults
           /\ BrokerRefuses(k) =>
                 /\ UNCHANGED copies /\ Fault("nack")
                 /\ k = 1 => confirms' = Append(confirms, [msg |-> m, ack |-> FALSE])
           /\ k # 1 => confirms' = confirms
<1> DEFINE m == Head(pending[k])
<1>1. /\ pending \in [Conns -> Seq(Messages)] /\ copies \in [Calls -> Nat]
      /\ pending[k] # <<>> /\ pending' = [pending EXCEPT ![k] = Tail(@)]
      /\ UNCHANGED <<call, fields, network>> /\ k \in openChannels
  BY DEF TypeInv, TypeOK, BrokerTakes, BrokerRefuses
<1>2. /\ m \in Messages /\ m \in OnWay(pending) /\ m \in Calls
      /\ Taken(Messages, pending, pending', k)
  BY <1>1, FirstOnWay, WayChanges DEF Calls
<1>3. ASSUME BrokerTakes(k)
      PROVE  /\ copies' \in [Calls -> Nat] /\ copies'[m] = copies[m] + 1
             /\ \A d \in Calls \ {m} : copies'[d] = copies[d]
             /\ k = 1 => confirms' = Append(confirms, [msg |-> m, ack |-> TRUE])
             /\ UNCHANGED faults /\ (k # 1 => confirms' = confirms)
  <2>1. /\ copies' \in [Calls -> Nat] /\ copies'[m] = copies[m] + 1
        /\ \A d \in Calls \ {m} : copies'[d] = copies[d]
    BY <1>1, <1>2, <1>3, OneMoreCopy DEF BrokerTakes
  <2> QED
    BY <1>3, <2>1 DEF BrokerTakes, Confirm
<1>4. ASSUME BrokerRefuses(k)
      PROVE  /\ UNCHANGED copies /\ Fault("nack")
             /\ k = 1 => confirms' = Append(confirms, [msg |-> m, ack |-> FALSE])
             /\ k # 1 => confirms' = confirms
  BY <1>4 DEF BrokerRefuses, Confirm
<1> QED
  BY <1>1, <1>2, <1>3, <1>4

\* One more confirmation.
LEMMA MoreConfirms ==
    ASSUME TypeInv, NEW answer \in [msg : Messages, ack : BOOLEAN],
           confirms' = Append(confirms, answer)
    PROVE  /\ Len(confirms') = Len(confirms) + 1 /\ Len(confirms) \in Nat
           /\ confirms'[Len(confirms) + 1] = answer
           /\ \A i \in 1..Len(confirms) : confirms'[i] = confirms[i]
<1> DEFINE Answers == [msg : Messages, ack : BOOLEAN]
<1>1. confirms \in Seq(Answers) /\ answer \in Answers
  BY DEF TypeInv, TypeOK
<1> HIDE DEF Answers
<1> QED
  BY <1>1

(* What keeps a message from being published twice.                        *)
OnceTaken ==
    1 \in openChannels /\ faults.nack = 0 =>
        /\ \A k \in Conns \ {1} : pending[k] = <<>>
        /\ Once(pending)
        /\ \A m \in OnWay(pending) : copies[m] = 0 /\ call[m].pc \notin Early
        /\ \A i \in 1..Len(confirms) : confirms[i].ack
        /\ \A m \in Messages : /\ copies[m] <= 1
                               /\ call[m].pc \in Early => copies[m] = 0

LEMMA PublishTakesOnce ==
    ASSUME TypeInv, FirstInUse, 1 \in openChannels, faults.nack = 0, OnceTaken,
           NEW c \in Calls, PublishAttempt(c)
    PROVE  OnceTaken'
<1>1. /\ channel = 1 /\ UNCHANGED <<confirms, copies, faults, openChannels>> /\ Others(c)
      /\ c \in Messages /\ call[c].pc = "use" /\ call'[c].pc = "await"
      /\ Sent(Messages, pending, pending', 1, c)
  BY MessageSent DEF FirstInUse, network
<1>2. /\ \A k \in Conns \ {1} : pending[k] = <<>>
      /\ Once(pending)
      /\ \A m \in OnWay(pending) : copies[m] = 0 /\ call[m].pc \notin Early
      /\ \A i \in 1..Len(confirms) : confirms[i].ack
      /\ \A m \in Messages : /\ copies[m] <= 1
                             /\ call[m].pc \in Early => copies[m] = 0
  BY DEF OnceTaken
<1>3. copies[c] = 0 /\ c \notin OnWay(pending)
  BY <1>1, <1>2 DEF Early
<1>4. Once(pending') /\ OnWay(pending') = OnWay(pending) \cup {c}
  BY <1>1, <1>2, <1>3, OnceAppend
<1>5. \A k \in Conns \ {1} : pending'[k] = <<>>
  BY <1>1, <1>2 DEF Sent
<1>6. \A m \in Calls : call'[m].pc \in Early => call[m].pc \in Early
  BY <1>1 DEF Others, Early
<1>7. OnWay(pending') \subseteq Calls
  BY <1>1, <1>4, OnWayKinds, KindsOfCalls
<1>8. \A m \in Messages : copies[m] <= 1 /\ (call'[m].pc \in Early => copies[m] = 0)
  BY <1>2, <1>6, KindsOfCalls
<1>9. \A m \in OnWay(pending') : copies[m] = 0 /\ call'[m].pc \notin Early
  <2>1. call'[c].pc \notin Early
    BY <1>1 DEF Early
  <2> QED
    BY <1>2, <1>3, <1>4, <1>6, <1>7, <2>1
<1> QED
  BY <1>1, <1>2, <1>4, <1>5, <1>8, <1>9 DEF OnceTaken

LEMMA ConfirmationTakesOnce ==
    ASSUME TypeInv, 1 \in openChannels, faults.nack = 0, OnceTaken,
           NEW c \in Calls, AwaitConfirmation(c)
    PROVE  OnceTaken'
<1>1. /\ \A k \in Conns \ {1} : pending[k] = <<>>
      /\ Once(pending)
      /\ \A m \in OnWay(pending) : copies[m] = 0 /\ call[m].pc \notin Early
      /\ \A i \in 1..Len(confirms) : confirms[i].ack
      /\ \A m \in Messages : /\ copies[m] <= 1
                             /\ call[m].pc \in Early => copies[m] = 0
  BY DEF OnceTaken
<1>2. /\ UNCHANGED <<pending, copies>> /\ Others(c) /\ confirms # <<>>
      /\ confirms' = Tail(confirms)
      /\ \/ Head(confirms).ack = TRUE /\ call'[c].pc = "ok"
         \/ Head(confirms).ack = FALSE /\ Retry(c)
  BY ConfirmationRead
<1>3. call'[c].pc = "ok"
  BY <1>1, <1>2, RestOfConfirms
<1>4. \A i \in 1..Len(confirms') : confirms'[i].ack
  BY <1>1, <1>2, RestOfConfirms
<1>5. \A m \in Calls : call'[m].pc \in Early => call[m].pc \in Early
  BY <1>2, <1>3 DEF Others, Early
<1>6. OnWay(pending) \subseteq Calls
  BY OnWayKinds, KindsOfCalls
<1> QED
  BY <1>1, <1>2, <1>4, <1>5, <1>6, KindsOfCalls DEF OnceTaken

(* A step of a call that neither publishes nor reads a confirmation.       *)
LEMMA ElsewhereMoves ==
    ASSUME TypeInv, FirstInUse, 1 \in openChannels,
           NEW c \in Calls, Handler(c), ~PublishAttempt(c), ~AwaitConfirmation(c)
    PROVE  /\ call' \in [Calls -> CallType] /\ Others(c)
           /\ call'[c].pc \in Early => call[c].pc \in Early
           /\ call[c].pc # "await" /\ call'[c].pc # "await"
           /\ call'[c].attempt = call[c].attempt
           /\ UNCHANGED <<confirms, pending, copies>>
<1>0. call \in [Calls -> CallType] /\ channel = 1 /\ call[c].pc \notin {"connect", "assignConn"}
  BY CallTyped DEF FirstInUse
<1>1. CASE EnsureConnection(c)
  <2>1. "connect" \in PCs /\ call[c].pc = "new"
    BY <1>1 DEF PCs, EnsureConnection, At
  <2>2. /\ call' \in [Calls -> CallType] /\ Others(c) /\ call'[c].pc \in {"use", "connect"}
        /\ call'[c].attempt = call[c].attempt
    BY <1>0, <1>1, <2>1, ConnectedMoves, GotoMoves DEF EnsureConnection
  <2> QED
    BY <1>1, <2>1, <2>2 DEF EnsureConnection, traffic, Early
<1>2. CASE QueueOperation(c)
  <2>1. /\ call' \in [Calls -> CallType] /\ Others(c) /\ call'[c].pc \in {"reply", "failed"}
        /\ call'[c].attempt = call[c].attempt
    BY <1>0, <1>2, QueueOperationMoves DEF TypeInv, TypeOK
  <2> QED
    BY <1>2, <2>1 DEF QueueOperation, At, Early
<1>3. CASE AwaitReply(c)
  <2>1. /\ call' \in [Calls -> CallType] /\ Others(c) /\ call'[c].pc \in {"ok", "failed"}
        /\ call'[c].attempt = call[c].attempt
    BY <1>0, <1>3, AwaitReplyMoves
  <2> QED
    BY <1>3, <2>1 DEF AwaitReply, At, Early
<1>4. ~Dial(c) /\ ~AssignConn(c) /\ ~Panic(c) /\ ~DialFails(c) /\ ~ChannelFails(c)
  BY <1>0 DEF Dial, AssignConn, Panic, DialFails, ChannelFails, DialAgain, At
<1> QED
  BY <1>1, <1>2, <1>3, <1>4 DEF Handler, Proceed

LEMMA BrokerTakesOnce ==
    ASSUME TypeInv, 1 \in openChannels, faults.nack = 0, OnceTaken,
           NEW k \in Conns, Broker(k), 1 \in openChannels', faults'.nack = 0
    PROVE  OnceTaken'
<1>1. /\ \A j \in Conns \ {1} : pending[j] = <<>>
      /\ Once(pending)
      /\ \A m \in OnWay(pending) : copies[m] = 0 /\ call[m].pc \notin Early
      /\ \A i \in 1..Len(confirms) : confirms[i].ack
      /\ \A m \in Messages : /\ copies[m] <= 1
                             /\ call[m].pc \in Early => copies[m] = 0
  BY DEF OnceTaken
<1>2. call' = call /\ OnWay(pending) \subseteq Messages
      /\ Messages \subseteq Calls /\ \A o \in Operations : o \notin Messages
  BY BrokerFrame, OnWayKinds, KindsOfCalls
<1>3. CASE BrokerTakes(k)
  <2> DEFINE m == Head(pending[k])
             answer == [msg |-> m, ack |-> TRUE]
  <2>1. /\ m \in Messages /\ m \in OnWay(pending) /\ Taken(Messages, pending, pending', k)
        /\ copies'[m] = copies[m] + 1 /\ \A d \in Calls \ {m} : copies'[d] = copies[d]
        /\ k = 1 => confirms' = Append(confirms, answer)
        /\ k # 1 => confirms' = confirms
    BY <1>3, MessageDealtWith
  <2>2. k = 1
    BY <1>1, <2>1 DEF Taken
  <2>3. Once(pending') /\ OnWay(pending') = OnWay(pending) \ {m}
    BY <1>1, <2>1, OnceTail
  <2>4. \A j \in Conns \ {1} : pending'[j] = <<>>
    BY <1>1, <2>1, <2>2 DEF Taken
  <2>5. \A i \in 1..Len(confirms') : confirms'[i].ack
    <3>1. answer \in [msg : Messages, ack : BOOLEAN] /\ answer.ack
      BY <2>1
    <3>2. /\ Len(confirms') = Len(confirms) + 1 /\ Len(confirms) \in Nat
          /\ confirms'[Len(confirms) + 1] = answer
          /\ \A i \in 1..Len(confirms) : confirms'[i] = confirms[i]
      BY <2>1, <2>2, <3>1, MoreConfirms
    <3> HIDE DEF answer
    <3>3. \A i \in 1..Len(confirms') : i \in 1..Len(confirms) \/ i = Len(confirms) + 1
      BY <3>2
    <3> QED
      BY <1>1, <3>1, <3>2, <3>3
  <2>6. copies[m] = 0 /\ copies'[m] = 1 /\ call[m].pc \notin Early
    BY <1>1, <2>1
  <2> HIDE DEF m
  <2>7. \A d \in Messages : copies'[d] <= 1 /\ (call'[d].pc \in Early => copies'[d] = 0)
    BY <1>1, <1>2, <2>1, <2>6
  <2>8. \A d \in OnWay(pending') : copies'[d] = 0 /\ call'[d].pc \notin Early
    BY <1>1, <1>2, <2>1, <2>3
  <2> QED
    BY <2>3, <2>4, <2>5, <2>7, <2>8 DEF OnceTaken
<1>4. CASE BrokerRefuses(k)
  <2>1. Fault("nack")
    BY <1>4 DEF BrokerRefuses
  <2>2. faults'["nack"] = faults["nack"] + 1
    BY <2>1, FaultCounts DEF TypeInv, TypeOK, DialInv
  <2> QED
    BY <2>2
<1>5. CASE BrokerExecutes(k)
  <2>1. /\ UNCHANGED <<confirms, pending>>
        /\ \A d \in Calls \ {Head(requested[k])} : copies'[d] = copies[d]
        /\ Head(requested[k]) \in Operations
    BY <1>5, RequestExecuted DEF BrokerExecutes
  <2>2. \A d \in Messages : copies'[d] = copies[d]
    BY <1>2, <2>1
  <2> QED
    BY <1>1, <1>2, <2>1, <2>2 DEF OnceTaken
<1>6. CASE Cut(k)
  <2>1. k # 1 /\ UNCHANGED confirms
    BY <1>6 DEF Cut
  <2>2. pending[k] = <<>> /\ pending \in [Conns -> Seq(Messages)]
    BY <1>1, <2>1 DEF TypeInv, TypeOK
  <2>3. pending' = pending
    BY <1>6, <2>2 DEF Cut
  <2>4. \A d \in Messages : copies'[d] = copies[d]
    <3> SUFFICES ASSUME NEW d \in Messages
                 PROVE  copies'[d] = copies[d]
      OBVIOUS
    <3>1. 1..Len(pending[k]) = {}
      BY <2>2
    <3>2. \A i \in 1..Len(requested[k]) : requested[k][i] # d
      BY <1>2, OnWayKinds
    <3> QED
      BY <1>2, <1>6, <3>1, <3>2, CutSpares
  <2> QED
    BY <1>1, <1>2, <2>1, <2>3, <2>4 DEF OnceTaken
<1> QED
  BY <1>3, <1>4, <1>5, <1>6 DEF Broker, ChannelException, ConnectionLost

LEMMA TakenOnceKept ==
    ASSUME TypeInv, Typed, FirstInUse, OnceTaken, [Next]_vars
    PROVE  OnceTaken'
<1> SUFFICES ASSUME 1 \in openChannels', faults'.nack = 0
             PROVE  OnceTaken'
  BY DEF OnceTaken
<1>1. 1 \in openChannels /\ faults.nack = 0
  <2>1. "nack" \in AllFaultKinds
    BY DEF AllFaultKinds
  <2>2. faults["nack"] \in Nat /\ faults["nack"] <= faults'["nack"]
    BY <2>1, FaultsGrow
  <2> QED
    BY <2>2, OpenBefore
<1>2. ASSUME NEW c \in Calls, Handler(c), ~PublishAttempt(c), ~AwaitConfirmation(c)
      PROVE  OnceTaken'
  <2>1. /\ Others(c) /\ (call'[c].pc \in Early => call[c].pc \in Early)
        /\ UNCHANGED <<confirms, pending, copies>>
    BY <1>1, <1>2, ElsewhereMoves
  <2>2. \A m \in Calls : call'[m].pc \in Early => call[m].pc \in Early
    BY <2>1 DEF Others
  <2>3. OnWay(pending) \subseteq Calls
    BY OnWayKinds, KindsOfCalls
  <2> QED
    BY <1>1, <2>1, <2>2, <2>3, KindsOfCalls DEF OnceTaken
<1>3. CASE UNCHANGED vars
  BY <1>3 DEF vars, network, traffic, OnceTaken
<1> QED
  BY <1>1, <1>2, <1>3, PublishTakesOnce, ConfirmationTakesOnce, BrokerTakesOnce DEF Next, Quiet

(* While the first channel is open and the broker has refused nothing, no  *)
(* message is published twice, however the publishers read one another's   *)
(* confirmations.                                                          *)
THEOREM NothingTwice == Spec => []NoDuplicates
<1>1. Init => OnceTaken
  <2> SUFFICES ASSUME Init
               PROVE  OnceTaken
    OBVIOUS
  <2>1. /\ \A o : o \in OnWay(pending) <=> \E k, i : Place(pending, k, i, o)
    BY InitTypeInv, OnWayPlaces DEF TypeInv, TypeOK
  <2>2. \A k \in Conns : pending[k] = <<>> /\ 1..Len(pending[k]) = {}
    BY DEF Init
  <2>3. OnWay(pending) = {} /\ Once(pending)
    BY <2>1, <2>2 DEF Place, Once
  <2>4. confirms = <<>> /\ copies = [c \in Calls |-> 0]
    BY DEF Init
  <2> QED
    BY <2>2, <2>3, <2>4, KindsOfCalls DEF OnceTaken
<1>2. Init => FirstInUse
  BY DEF Init, FirstInUse
<1>3. OnceTaken => NoDuplicates
  BY DEF OnceTaken, NoDuplicates
<1> QED
  BY <1>1, <1>2, <1>3, InitTyped, NextTyped, InitTypeInv, NextTypeInv, FirstKept, TakenOnceKept,
     PTL DEF Spec

-----------------------------------------------------------------------------
(* The promise of Notifier.                                                *)

Underway == {"connect", "assignConn", "use", "reply", "await"}

(* Where a step takes a call.                                              *)
LEMMA WhereTo ==
    ASSUME TypeInv, NEW c \in Calls, Handler(c)
    PROVE  /\ call' \in [Calls -> CallType] /\ Others(c) /\ UNCHANGED copies
           /\ \/ call[c].pc = "new" /\ call'[c].pc \in {"use", "connect"}
              \/ call[c].pc \in Underway /\ call'[c].pc \in Underway \cup {"failed", "panicked"}
              \/ /\ call[c].pc \in {"await", "reply"} /\ call'[c].pc = "ok"
                 /\ AwaitConfirmation(c) \/ AwaitReply(c)
<1> USE DEF At, Underway
<1>1. call \in [Calls -> CallType]
  BY CallTyped
<1>2. CASE EnsureConnection(c)
  <2>1. "connect" \in PCs
    BY DEF PCs
  <2>2. call' \in [Calls -> CallType] /\ Others(c) /\ call'[c].pc \in {"use", "connect"}
    BY <1>1, <1>2, <2>1, ConnectedMoves, GotoMoves DEF EnsureConnection
  <2> QED
    BY <1>2, <2>2 DEF EnsureConnection, traffic
<1>3. CASE Dial(c)
  <2>1. /\ call' \in [Calls -> CallType] /\ Others(c) /\ call'[c].pc = "assignConn"
    BY <1>1, <1>3, DialIsBounded, DialMoves DEF Dial
  <2> QED
    BY <1>3, <2>1 DEF Dial, traffic
<1>4. CASE AssignConn(c)
  BY <1>1, <1>4, ConnectedMoves DEF AssignConn, traffic
<1>5. CASE Panic(c)
  <2>1. "panicked" \in PCs
    BY DEF PCs, Ended
  <2> QED
    BY <1>1, <1>5, <2>1, GotoMoves DEF Panic, traffic
<1>6. CASE QueueOperation(c)
  <2>1. call' \in [Calls -> CallType] /\ Others(c) /\ call'[c].pc \in {"reply", "failed"}
    BY <1>1, <1>6, QueueOperationMoves DEF TypeInv, TypeOK
  <2> QED
    BY <1>6, <2>1 DEF QueueOperation
<1>7. CASE AwaitReply(c)
  <2>1. call' \in [Calls -> CallType] /\ Others(c) /\ call'[c].pc \in {"ok", "failed"}
    BY <1>1, <1>7, AwaitReplyMoves
  <2> QED
    BY <1>7, <2>1 DEF AwaitReply
<1>8. CASE PublishAttempt(c)
  <2>1. /\ call' \in [Calls -> CallType] /\ Others(c) /\ call[c].pc = "use" /\ UNCHANGED copies
        /\ call'[c].pc = "await" \/ Retry(c)
    BY <1>8, MessageSent
  <2>2. call'[c].pc \in {"await", "use", "failed"}
    BY <1>1, <2>1, RetryMoves
  <2> QED
    BY <2>1, <2>2
<1>9. CASE AwaitConfirmation(c)
  <2>1. /\ call' \in [Calls -> CallType] /\ Others(c) /\ call[c].pc = "await" /\ UNCHANGED copies
        /\ call'[c].pc = "ok" \/ Retry(c)
    BY <1>9, ConfirmationRead
  <2>2. call'[c].pc \in {"ok", "use", "failed"}
    BY <1>1, <2>1, RetryMoves
  <2> QED
    BY <1>9, <2>1, <2>2
<1>10. CASE DialFails(c) \/ ChannelFails(c)
  <2>1. call' = call /\ call[c].pc = "connect" /\ UNCHANGED copies
    BY <1>10 DEF DialFails, ChannelFails, DialAgain, traffic
  <2> QED
    BY <1>1, <2>1 DEF Others
<1> QED
  BY <1>2, <1>3, <1>4, <1>5, <1>6, <1>7, <1>8, <1>9, <1>10 DEF Handler, Proceed

LEMMA NoConfirmationMoves ==
    ASSUME TypeInv, NEW c \in Calls, Handler(c), ~PublishAttempt(c), ~AwaitConfirmation(c)
    PROVE  /\ Others(c) /\ call[c].pc # "await" /\ call'[c].pc # "await"
           /\ UNCHANGED <<confirms, pending, copies>>
<1>1. UNCHANGED <<confirms, pending, copies>> /\ call[c].pc # "await"
  BY DEF Handler, Proceed, EnsureConnection, Dial, AssignConn, Panic, QueueOperation, AwaitReply,
         DialFails, ChannelFails, DialAgain, traffic, At
<1>2. Others(c)
  BY WhereTo
<1>3. CASE QueueOperation(c) \/ AwaitReply(c)
  <2>1. call \in [Calls -> CallType] /\ channel \in Conns \cup {0}
    BY CallTyped DEF TypeInv, TypeOK
  <2>2. call'[c].pc # "await"
    BY <1>3, <2>1, QueueOperationMoves, AwaitReplyMoves
  <2> QED
    BY <1>1, <1>2, <2>2
<1>4. CASE EnsureConnection(c) \/ AssignConn(c) \/ Panic(c)
  <2>1. Connected(c) \/ Goto(c, "connect") \/ Goto(c, "panicked")
    BY <1>4 DEF EnsureConnection, AssignConn, Panic
  <2>2. "connect" \in PCs /\ "panicked" \in PCs /\ call \in [Calls -> CallType]
    BY CallTyped DEF PCs, Ended
  <2>3. call'[c].pc # "await"
    BY <2>1, <2>2, ConnectedMoves, GotoMoves
  <2> QED
    BY <1>1, <1>2, <2>3
<1>5. CASE Dial(c)
  BY <1>1, <1>2, <1>5, CallTyped, DialIsBounded, DialMoves DEF Dial
<1>6. CASE DialFails(c) \/ ChannelFails(c)
  BY <1>1, <1>2, <1>6 DEF DialFails, ChannelFails, DialAgain
<1> QED
  BY <1>3, <1>4, <1>5, <1>6 DEF Handler, Proceed

(* Only what was sent is on its way.                                       *)
StartedInv == \A m \in OnWay(pending) : ~At(m, "new")

(* Of the publishers that wait, those whose messages the broker does not   *)
(* have, have them on the first channel, and there are no more             *)
(* confirmations than publishers whose messages it has.                    *)
Served == {m \in Waiting : copies[m] > 0}

EntitledInv ==
    /\ 1 \in openChannels =>
          \A m \in Waiting : copies[m] = 0 => \E i \in 1..Len(pending[1]) : pending[1][i] = m
    /\ Len(confirms) <= Cardinality(Served)

LEMMA StartedKept ==
    ASSUME TypeInv, StartedInv, [Next]_vars
    PROVE  StartedInv'
<1>0. OnWay(pending) \subseteq Calls /\ pending \in [Conns -> Seq(Messages)]
  BY OnWayKinds, KindsOfCalls DEF TypeInv, TypeOK
<1>1. CASE OnWay(pending') \subseteq OnWay(pending) /\ \A m \in Calls : call'[m].pc = "new"
                                                                   => call[m].pc = "new"
  BY <1>0, <1>1 DEF StartedInv, At
<1>2. ASSUME NEW c \in Calls, Handler(c)
      PROVE  StartedInv'
  <2>1. /\ Others(c) /\ call'[c].pc # "new"
    BY <1>2, WhereTo DEF Underway
  <2>2. \A m \in Calls : call'[m].pc = "new" => call[m].pc = "new"
    BY <2>1 DEF Others
  <2>3. CASE pending' = pending
    BY <1>1, <2>2, <2>3
  <2>4. CASE PublishAttempt(c) /\ Sent(Messages, pending, pending', channel, c)
    <3>1. OnWay(pending') = OnWay(pending) \cup {c}
      BY <2>4, OnceAppend
    <3> QED
      BY <1>0, <2>1, <2>2, <3>1 DEF StartedInv, At
  <2> QED
    BY <1>2, <2>3, <2>4, MessageSent, ConfirmationRead, NoConfirmationMoves
<1>3. ASSUME NEW k \in Conns, Broker(k)
      PROVE  StartedInv'
  <2>1. call' = call
    BY <1>3, BrokerFrame
  <2>2. CASE BrokerTakes(k) \/ BrokerRefuses(k)
    <3>1. OnWay(pending') \subseteq OnWay(pending)
      BY <2>2, MessageDealtWith, OnceTail
    <3> QED
      BY <1>1, <2>1, <3>1
  <2>3. CASE Cut(k)
    <3>1. Dropped(Messages, pending, pending', k)
      BY <1>0, <2>3, WayChanges DEF Cut
    <3>2. OnWay(pending') \subseteq OnWay(pending)
      BY <3>1, OnceCut
    <3> QED
      BY <1>1, <2>1, <3>2
  <2>4. CASE BrokerExecutes(k)
    BY <1>1, <2>1, <2>4 DEF BrokerExecutes
  <2> QED
    BY <1>3, <2>2, <2>3, <2>4 DEF Broker, ChannelException, ConnectionLost
<1>4. CASE UNCHANGED vars
  BY <1>1, <1>4 DEF vars, traffic
<1> QED
  BY <1>2, <1>3, <1>4 DEF Next, Quiet

LEMMA ServedFinite ==
    /\ IsFiniteSet(Served) /\ Cardinality(Served) \in Nat
    /\ IsFiniteSet(Served') /\ Cardinality(Served') \in Nat
<1>1. IsFiniteSet(Calls) /\ Served \in SUBSET Calls /\ Served' \in SUBSET Calls
  BY KindsOfCalls DEF Served, Waiting
<1> QED
  BY <1>1, FS_Subset, FS_CardinalityType

\* A channel holds no more messages than its length.
LEMMA HeldMessages ==
    ASSUME NEW way \in Seq(Messages), NEW held, held \subseteq Messages,
           \A m \in held : \E i \in 1..Len(way) : way[i] = m
    PROVE  Cardinality(held) <= Len(way) /\ IsFiniteSet(held)
<1> DEFINE T == {way[i] : i \in 1..Len(way)}
<1>1. Len(way) \in Nat /\ way \in [1..Len(way) -> T] /\ held \subseteq T
  OBVIOUS
<1>2. way \in Surjection(1..Len(way), T)
  BY <1>1 DEF Surjection
<1> HIDE DEF T
<1>3. IsFiniteSet(1..Len(way)) /\ Cardinality(1..Len(way)) = Len(way)
  BY <1>1, FS_Interval
<1>4. IsFiniteSet(T) /\ Cardinality(T) <= Len(way)
  BY <1>2, <1>3, FS_Surjection
<1>5. IsFiniteSet(held) /\ Cardinality(held) <= Cardinality(T)
  BY <1>1, <1>4, FS_Subset
<1>6. Cardinality(T) \in Nat /\ Cardinality(held) \in Nat
  BY <1>4, <1>5, FS_CardinalityType
<1> QED
  BY <1>1, <1>4, <1>5, <1>6

(* While the first channel is open, the confirmations are counted.         *)
LEMMA OpenMeansServed ==
    ASSUME TypeInv, ConfirmationsBalance, 1 \in openChannels,
           \A m \in Waiting : copies[m] = 0 => \E i \in 1..Len(pending[1]) : pending[1][i] = m
    PROVE  Len(confirms) <= Cardinality(Served)
<1> DEFINE Unserved == Waiting \ Served
<1>1. /\ pending[1] \in Seq(Messages) /\ Len(pending[1]) \in Nat /\ Len(confirms) \in Nat
      /\ Waiting \subseteq Messages /\ \A m \in Waiting : copies[m] \in Nat
  BY OneIsConnection DEF TypeInv, TypeOK, KindInv, Waiting
<1>2. Unserved \subseteq Messages
      /\ \A m \in Unserved : \E i \in 1..Len(pending[1]) : pending[1][i] = m
  BY <1>1 DEF Served
<1>3. Cardinality(Unserved) <= Len(pending[1])
  BY <1>1, <1>2, HeldMessages
<1>4. Cardinality(Unserved) = Cardinality(Waiting) - Cardinality(Served)
  <2>1. Served \subseteq Waiting /\ Waiting \cap Served = Served
    BY DEF Served
  <2> QED
    BY <2>1, WaitingFinite, FS_Difference
<1>5. Len(confirms) + Len(pending[1]) = Cardinality(Waiting)
  BY DEF ConfirmationsBalance, Waiting
<1> QED
  BY <1>1, <1>3, <1>4, <1>5, ServedFinite, WaitingFinite

\* What is held on the first channel while it stays open.
LEMMA HeldKept ==
    ASSUME TypeInv, BalanceInv, EntitledInv, [Next]_vars, "nack" \notin FaultKinds,
           1 \in openChannels', NEW m \in Waiting', copies'[m] = 0
    PROVE  \E i \in 1..Len(pending'[1]) : pending'[1][i] = m
<1>1. /\ 1 \in openChannels /\ channel = 1 /\ m \in Calls /\ copies[m] = 0
      /\ pending \in [Conns -> Seq(Messages)] /\ 1 \in Conns
  <2>1. 1 \in openChannels /\ m \in Calls
    BY OpenBefore DEF Waiting
  <2>2. copies[m] = 0
    BY <2>1, CopiesGrow
  <2> QED
    BY <2>1, <2>2, OneIsConnection DEF BalanceInv, FirstInUse, TypeInv, TypeOK
<1>2. m \in Waiting => \E i \in 1..Len(pending[1]) : pending[1][i] = m
  BY <1>1 DEF EntitledInv
<1>3. CASE m \in Waiting /\ pending'[1] = pending[1]
  BY <1>2, <1>3
<1>4. ASSUME NEW c \in Calls, Handler(c)
      PROVE  \E i \in 1..Len(pending'[1]) : pending'[1][i] = m
  <2>1. CASE PublishAttempt(c)
    <3>1. Sent(Messages, pending, pending', 1, c) /\ Others(c)
      BY <1>1, <2>1, MessageSent
    <3>2. /\ pending[1] \in Seq(Messages) /\ c \in Messages
          /\ pending'[1] = Append(pending[1], c)
      BY <3>1 DEF Sent
    <3>3. /\ Len(pending'[1]) = Len(pending[1]) + 1 /\ Len(pending[1]) \in Nat
          /\ pending'[1][Len(pending[1]) + 1] = c
          /\ \A i \in 1..Len(pending[1]) : pending'[1][i] = pending[1][i]
      BY <3>2
    <3>4. CASE m = c
      <4>1. Len(pending[1]) + 1 \in 1..Len(pending'[1])
        BY <3>3
      <4> QED
        BY <3>3, <3>4, <4>1
    <3>5. CASE m # c
      <4>1. m \in Waiting
        BY <1>1, <3>1, <3>5 DEF Waiting, Others, At
      <4>2. PICK i \in 1..Len(pending[1]) : pending[1][i] = m
        BY <1>2, <4>1
      <4>3. i \in 1..Len(pending'[1]) /\ pending'[1][i] = m
        BY <3>3, <4>2
      <4> QED
        BY <4>3
    <3> QED
      BY <3>4, <3>5
  <2>2. CASE AwaitConfirmation(c)
    <3>1. pending' = pending /\ Others(c) /\ call[c].pc = "await"
      BY <2>2, ConfirmationRead
    <3>2. m \in Waiting
      BY <1>1, <3>1 DEF Waiting, Others, At
    <3> QED
      BY <1>3, <3>1, <3>2
  <2>3. CASE ~PublishAttempt(c) /\ ~AwaitConfirmation(c)
    <3>1. pending' = pending /\ Others(c) /\ call'[c].pc # "await"
      BY <1>4, <2>3, NoConfirmationMoves
    <3>2. m \in Waiting
      BY <1>1, <3>1 DEF Waiting, Others, At
    <3> QED
      BY <1>3, <3>1, <3>2
  <2> QED
    BY <2>1, <2>2, <2>3
<1>5. ASSUME NEW k \in Conns, Broker(k)
      PROVE  \E i \in 1..Len(pending'[1]) : pending'[1][i] = m
  <2>1. m \in Waiting
    BY <1>5, BrokerFrame DEF Waiting, At
  <2>2. CASE BrokerTakes(k)
    <3> DEFINE h == Head(pending[k])
    <3>1. Taken(Messages, pending, pending', k) /\ copies'[h] = copies[h] + 1 /\ h \in Messages
      BY <2>2, MessageDealtWith
    <3>2. CASE k # 1
      BY <1>1, <1>3, <2>1, <3>1, <3>2 DEF Taken
    <3>3. CASE k = 1
      <4>1. /\ pending[1] \in Seq(Messages) /\ pending[1] # <<>> /\ pending'[1] = Tail(pending[1])
            /\ copies[h] \in Nat
        BY <3>1, <3>3, KindsOfCalls DEF Taken, TypeInv, TypeOK
      <4>2. m # pending[1][1]
        BY <3>1, <3>3, <4>1
      <4>3. PICK i \in 1..Len(pending[1]) : pending[1][i] = m
        BY <1>2, <2>1
      <4>4. i # 1
        BY <4>2, <4>3
      <4>5. i - 1 \in 1..Len(pending'[1])
        BY <4>1, <4>3, <4>4
      <4>6. pending'[1][i - 1] = m
        BY <4>1, <4>3, <4>4, <4>5
      <4> QED
        BY <4>5, <4>6
    <3> QED
      BY <3>2, <3>3
  <2>3. CASE BrokerRefuses(k)
    BY <2>3 DEF BrokerRefuses, Fault
  <2>4. CASE BrokerExecutes(k)
    BY <1>3, <2>1, <2>4 DEF BrokerExecutes
  <2>5. CASE Cut(k)
    <3>1. k # 1
      BY <2>5 DEF Cut
    <3>2. pending'[1] = pending[1]
      BY <1>1, <2>5, <3>1 DEF Cut
    <3> QED
      BY <1>3, <2>1, <3>2
  <2> QED
    BY <1>5, <2>2, <2>3, <2>4, <2>5 DEF Broker, ChannelException, ConnectionLost
<1>6. CASE UNCHANGED vars
  BY <1>3, <1>6 DEF vars, traffic, Waiting, At
<1> QED
  BY <1>4, <1>5, <1>6 DEF Next, Quiet

\* Confirmations when the first channel is not open after the step.
LEMMA ClosedMeansServed ==
    ASSUME TypeInv, EntitledInv, [Next]_vars, "nack" \notin FaultKinds, 1 \notin openChannels'
    PROVE  Len(confirms') <= Cardinality(Served')
<1>1. Len(confirms) <= Cardinality(Served) /\ Len(confirms) \in Nat
  BY DEF EntitledInv, TypeInv, TypeOK
<1>2. \A m \in Calls : copies[m] \in Nat /\ copies'[m] \in Nat /\ copies'[m] >= copies[m]
  BY CopiesGrow
<1>3. CASE Waiting \subseteq Waiting' /\ confirms' = confirms
  <2>1. Served \subseteq Served'
    BY <1>2, <1>3 DEF Served, Waiting
  <2>2. Cardinality(Served) <= Cardinality(Served')
    BY <2>1, ServedFinite, FS_Subset
  <2> QED
    BY <1>1, <1>3, <2>2, ServedFinite
<1>4. ASSUME NEW c \in Calls, AwaitConfirmation(c)
      PROVE  Len(confirms') <= Cardinality(Served')
  <2>1. /\ Others(c) /\ copies' = copies
        /\ \/ confirms # <<>> /\ confirms' = Tail(confirms)
           \/ confirms = <<>> /\ confirms' = confirms
    BY <1>4, ConfirmationRead
  <2>2. CASE confirms = <<>> /\ confirms' = confirms
    BY <2>2, ServedFinite
  <2>3. CASE confirms # <<>> /\ confirms' = Tail(confirms)
    <3>1. Len(confirms') = Len(confirms) - 1
      BY <2>3, RestOfConfirms
    <3>2. Served \ {c} \subseteq Served'
      BY <2>1 DEF Served, Waiting, Others, At
    <3>3. Cardinality(Served \ {c}) <= Cardinality(Served')
      BY <3>2, ServedFinite, FS_Subset
    <3>4. /\ Cardinality(Served \ {c}) >= Cardinality(Served) - 1
          /\ Cardinality(Served \ {c}) \in Nat
      <4>1. CASE c \in Served
        <5>1. Cardinality(Served \ {c}) = Cardinality(Served) - 1
          BY <4>1, ServedFinite, FS_RemoveElement
        <5>2. Cardinality(Served \ {c}) \in Nat
          BY ServedFinite, FS_Subset, FS_CardinalityType
        <5> QED
          BY <5>1, <5>2, ServedFinite
      <4>2. CASE c \notin Served
        <5>1. Served \ {c} = Served
          BY <4>2
        <5> QED
          BY <5>1, ServedFinite
      <4> QED
        BY <4>1, <4>2
    <3> QED
      BY <1>1, <3>1, <3>3, <3>4, ServedFinite
  <2> QED
    BY <2>1, <2>2, <2>3
<1>5. ASSUME NEW c \in Calls, Handler(c), ~AwaitConfirmation(c)
      PROVE  Waiting \subseteq Waiting' /\ confirms' = confirms
  <2>1. /\ Others(c) /\ confirms' = confirms /\ call[c].pc # "await"
    BY <1>5, NoConfirmationMoves, MessageSent
  <2> QED
    BY <2>1 DEF Waiting, Others, At
<1>6. ASSUME NEW k \in Conns, Broker(k)
      PROVE  Waiting \subseteq Waiting' /\ confirms' = confirms
  <2>1. Waiting' = Waiting
    BY <1>6, BrokerFrame DEF Waiting, At
  <2>2. CASE BrokerTakes(k)
    BY <2>1, <2>2, MessageDealtWith DEF network
  <2>3. CASE BrokerRefuses(k)
    BY <2>3 DEF BrokerRefuses, Fault
  <2>4. CASE BrokerExecutes(k) \/ Cut(k)
    BY <2>1, <2>4 DEF BrokerExecutes, Cut
  <2> QED
    BY <1>6, <2>2, <2>3, <2>4 DEF Broker, ChannelException, ConnectionLost
<1>7. CASE UNCHANGED vars
  BY <1>3, <1>7 DEF vars, traffic, Waiting, At
<1> QED
  BY <1>3, <1>4, <1>5, <1>6, <1>7 DEF Next, Quiet

LEMMA EntitledKept ==
    ASSUME TypeInv, TypeInv', BalanceInv, BalanceInv', EntitledInv, [Next]_vars,
           "nack" \notin FaultKinds
    PROVE  EntitledInv'
<1>1. 1 \in openChannels' =>
          \A m \in Waiting' : copies'[m] = 0 => \E i \in 1..Len(pending'[1]) : pending'[1][i] = m
  BY HeldKept
<1>2. CASE 1 \in openChannels'
  <2>1. TypeInv' /\ ConfirmationsBalance'
    BY DEF BalanceInv
  <2>2. (TypeInv /\ ConfirmationsBalance /\ 1 \in openChannels
         /\ (\A m \in Waiting : copies[m] = 0 => \E i \in 1..Len(pending[1]) : pending[1][i] = m)
         => Len(confirms) <= Cardinality(Served))'
    BY OpenMeansServed, PTL
  <2>3. Len(confirms') <= Cardinality(Served')
    BY <1>1, <1>2, <2>1, <2>2
  <2> QED
    BY <1>1, <2>3 DEF EntitledInv
<1>3. CASE 1 \notin openChannels'
  BY <1>3, ClosedMeansServed DEF EntitledInv
<1> QED
  BY <1>2, <1>3

(* The refinement: what Notifier sees of a call.                           *)
AnswerTo(pc) ==
    CASE pc = "new" -> "none"
      [] pc = "ok" -> "published"
      [] pc \in {"failed", "panicked"} -> "failed"
      [] OTHER -> "running"

HasTaken == {m \in Messages : copies[m] > 0}

LEMMA AnswersSeen ==
    /\ answered = [m \in Messages |-> AnswerTo(call[m].pc)]
    /\ answered' = [m \in Messages |-> AnswerTo(call'[m].pc)]
BY DEF answered, AnswerTo, At

LEMMA AnswerValues ==
    /\ AnswerTo("new") = "none" /\ AnswerTo("ok") = "published"
    /\ AnswerTo("failed") = "failed" /\ AnswerTo("panicked") = "failed"
    /\ \A pc \in Underway : AnswerTo(pc) = "running"
BY DEF AnswerTo, Underway

LEMMA OneAnswerChanges ==
    ASSUME NEW c \in Calls, Others(c)
    PROVE  /\ c \notin Messages => answered' = answered
           /\ c \in Messages => answered' = [answered EXCEPT ![c] = AnswerTo(call'[c].pc)]
<1>1. \A m \in Messages : m # c => AnswerTo(call'[m].pc) = AnswerTo(call[m].pc)
  BY KindsOfCalls DEF Others
<1> HIDE DEF AnswerTo
<1>2. CASE c \notin Messages
  BY <1>1, <1>2, AnswersSeen
<1>3. CASE c \in Messages
  BY <1>1, <1>3, AnswersSeen
<1> QED
  BY <1>2, <1>3

LEMMA CallKeepsPromise ==
    ASSUME TypeInv, EntitledInv, NEW c \in Calls, Handler(c)
    PROVE  [Promise!Next]_<<HasTaken, answered>>
<1>1. /\ Others(c) /\ HasTaken' = HasTaken
      /\ \/ call[c].pc = "new" /\ call'[c].pc \in {"use", "connect"}
         \/ call[c].pc \in Underway /\ call'[c].pc \in Underway \cup {"failed", "panicked"}
         \/ /\ call[c].pc \in {"await", "reply"} /\ call'[c].pc = "ok"
            /\ AwaitConfirmation(c) \/ AwaitReply(c)
  BY WhereTo DEF HasTaken
<1>2. CASE c \notin Messages
  BY <1>1, <1>2, OneAnswerChanges
<1>3. CASE c \in Messages
  <2> DEFINE to == AnswerTo(call'[c].pc)
  <2>1. /\ answered' = [answered EXCEPT ![c] = to]
        /\ answered[c] = AnswerTo(call[c].pc)
    BY <1>1, <1>3, OneAnswerChanges, AnswersSeen
  <2>2. CASE call[c].pc = "new" /\ call'[c].pc \in {"use", "connect"}
    <3>1. answered[c] = "none" /\ to = "running"
      BY <2>1, <2>2, AnswerValues DEF Underway
    <3>2. Promise!Call(c)
      BY <1>1, <2>1, <3>1 DEF Promise!Call, Promise!Answer, HasTaken
    <3> QED
      BY <1>3, <3>2 DEF Promise!Next, HasTaken
  <2>3. CASE call[c].pc \in Underway /\ call'[c].pc \in Underway
    <3>1. answered[c] = "running" /\ to = "running"
      BY <2>1, <2>3, AnswerValues
    <3>2. answered' = answered
      BY <2>1, <3>1, AnswersSeen
    <3> QED
      BY <1>1, <3>2
  <2>4. CASE call[c].pc \in Underway /\ call'[c].pc \in {"failed", "panicked"}
    <3>1. answered[c] = "running" /\ to = "failed"
      BY <2>1, <2>4, AnswerValues
    <3>2. Promise!Fail(c)
      BY <1>1, <2>1, <3>1 DEF Promise!Fail, Promise!Answer, HasTaken
    <3> QED
      BY <1>3, <3>2 DEF Promise!Next, HasTaken
  <2>5. CASE call'[c].pc = "ok" /\ (AwaitConfirmation(c) \/ AwaitReply(c))
    <3>1. AwaitConfirmation(c)
      BY <1>3, <2>5, ReplyTaken, KindsOfCalls
    <3>2. call[c].pc = "await" /\ answered[c] = "running" /\ to = "published"
      BY <2>1, <2>5, <3>1, ConfirmationRead, AnswerValues DEF Underway
    <3>3. confirms # <<>>
      <4>1. ~Retry(c)
        BY <2>5, CallTyped, RetryMoves
      <4> QED
        BY <3>1, <4>1, ConfirmationRead
    <3>4. c \in HasTaken \/ \E q \in Messages \ {c} : answered[q] = "running"
      <4>1. Len(confirms) \in Nat \ {0}
        BY <3>3 DEF TypeInv, TypeOK
      <4>2. Served # {}
        BY <4>1, ServedFinite, FS_EmptySet DEF EntitledInv
      <4>3. PICK q \in Calls : call[q].pc = "await" /\ copies[q] > 0
        BY <4>2 DEF Served, Waiting, At
      <4>4. q \in Messages
        BY <4>3, CallTyped
      <4>5. answered[q] = "running"
        BY <4>3, <4>4, AnswersSeen, AnswerValues DEF Underway
      <4> QED
        BY <4>3, <4>4, <4>5 DEF HasTaken
    <3>5. Promise!Succeed(c)
      BY <1>1, <2>1, <3>2, <3>4 DEF Promise!Succeed, Promise!Answer, HasTaken
    <3> QED
      BY <1>3, <3>5 DEF Promise!Next, HasTaken
  <2> QED
    BY <1>1, <2>2, <2>3, <2>4, <2>5
<1> QED
  BY <1>2, <1>3

LEMMA BrokerKeepsPromise ==
    ASSUME TypeInv, StartedInv, NEW k \in Conns, Broker(k)
    PROVE  [Promise!Next]_<<HasTaken, answered>>
<1> DEFINE ms == HasTaken' \ HasTaken
<1>1. answered' = answered
  BY BrokerFrame DEF answered, At
<1>2. HasTaken \subseteq HasTaken' /\ ms \subseteq Messages
  <2>1. \A m \in Calls : copies[m] \in Nat /\ copies'[m] \in Nat /\ copies'[m] >= copies[m]
    BY CopiesGrow DEF Next
  <2> QED
    BY <2>1, KindsOfCalls DEF HasTaken
<1>3. ms \subseteq OnWay(pending)
  <2> SUFFICES ASSUME NEW m \in Messages, copies'[m] # copies[m]
               PROVE  m \in OnWay(pending)
    BY DEF HasTaken
  <2>1. m \in Calls /\ m \notin Operations
    BY KindsOfCalls
  <2>2. CASE BrokerTakes(k)
    BY <2>1, <2>2, MessageDealtWith
  <2>3. CASE BrokerRefuses(k)
    BY <2>3 DEF BrokerRefuses
  <2>4. CASE BrokerExecutes(k)
    BY <2>1, <2>4, RequestExecuted
  <2>5. CASE Cut(k)
    <3>1. \A i \in 1..Len(requested[k]) : requested[k][i] # m
      BY <2>1, OnWayKinds
    <3>2. ~\A i \in 1..Len(pending[k]) : pending[k][i] # m
      BY <2>1, <2>5, <3>1, CutSpares
    <3> QED
      BY <3>2, OnWayKinds
  <2> QED
    BY <2>2, <2>3, <2>4, <2>5 DEF Broker, ChannelException, ConnectionLost
<1>4. \A m \in ms : answered[m] # "none"
  <2> SUFFICES ASSUME NEW m \in ms
               PROVE  answered[m] # "none"
    OBVIOUS
  <2>1. call[m].pc # "new" /\ m \in Messages
    BY <1>2, <1>3 DEF StartedInv, At
  <2> QED
    BY <2>1, AnswersSeen DEF AnswerTo
<1>5. PICK xs \in SUBSET Messages : xs = ms
  BY <1>2
<1>6. Promise!Take(xs)
  BY <1>1, <1>2, <1>4, <1>5 DEF Promise!Take, HasTaken
<1> QED
  BY <1>6 DEF Promise!Next, HasTaken

(* If the broker refuses nothing, callers of Publish get what Notifier     *)
(* promises, which is what the model of the sessions relies on: a publish  *)
(* that succeeds without its message overlaps with another, and the broker *)
(* gets no message before its call.                                        *)
THEOREM PromiseKept == "nack" \notin FaultKinds /\ Spec => NotifierPromise
<1> DEFINE Inv == TypeInv /\ BalanceInv /\ StartedInv /\ EntitledInv
<1>1. Init => Inv
  <2> SUFFICES ASSUME Init
               PROVE  Inv
    OBVIOUS
  <2>1. TypeInv /\ BalanceInv
    BY InitTypeInv, InitBalance
  <2>2. Waiting = {}
    BY DEF Init, Waiting, At
  <2>3. Len(confirms) = 0
    BY DEF Init
  <2>5. StartedInv
    <3>1. \A o : o \in OnWay(pending) <=> \E k, i : Place(pending, k, i, o)
      BY <2>1, OnWayPlaces DEF TypeInv, TypeOK
    <3>2. \A k \in Conns : 1..Len(pending[k]) = {}
      BY DEF Init
    <3> QED
      BY <3>1, <3>2 DEF Place, StartedInv
  <2>6. EntitledInv
    BY <2>2, <2>3, ServedFinite DEF EntitledInv
  <2> QED
    BY <2>1, <2>5, <2>6
<1>2. "nack" \notin FaultKinds /\ Inv /\ [Next]_vars => Inv'
  <2> SUFFICES ASSUME "nack" \notin FaultKinds, Inv, [Next]_vars
               PROVE  Inv'
    OBVIOUS
  <2>1. TypeInv' /\ StartedInv'
    BY NextTypeInv, StartedKept
  <2>2. BalanceInv'
    BY BalanceKept
  <2> QED
    BY <2>1, <2>2, EntitledKept
<1>3. Init => Promise!Init
  <2> SUFFICES ASSUME Init
               PROVE  Promise!Init
    OBVIOUS
  <2>1. HasTaken = {}
    BY KindsOfCalls DEF Init, HasTaken
  <2>2. \A m \in Messages : call[m].pc = "new"
    BY KindsOfCalls DEF Init
  <2>3. answered = [m \in Messages |-> "none"]
    BY <2>2, AnswersSeen, AnswerValues
  <2> QED
    BY <2>1, <2>3 DEF Promise!Init, HasTaken
<1>4. Inv /\ [Next]_vars => [Promise!Next]_<<HasTaken, answered>>
  <2> SUFFICES ASSUME Inv, [Next]_vars
               PROVE  [Promise!Next]_<<HasTaken, answered>>
    OBVIOUS
  <2>1. CASE UNCHANGED vars
    BY <2>1 DEF vars, traffic, HasTaken, answered, At
  <2> QED
    BY <2>1, CallKeepsPromise, BrokerKeepsPromise DEF Next, Quiet
<1>5. "nack" \notin FaultKinds /\ Spec => []Inv
  <2> SUFFICES ASSUME "nack" \notin FaultKinds
               PROVE  Spec => []Inv
    OBVIOUS
  <2>1. Inv /\ [Next]_vars => Inv'
    BY <1>2
  <2> QED
    BY <1>1, <2>1, PTL DEF Spec
<1>6. "nack" \notin FaultKinds /\ Spec => Promise!Spec
  <2>1. "nack" \notin FaultKinds /\ Spec => Init /\ [][Next]_vars /\ []Inv
    BY <1>5, PTL DEF Spec
  <2>2. Init /\ [][Next]_vars /\ []Inv
            => Promise!Init /\ [][Promise!Next]_<<HasTaken, answered>>
    BY <1>3, <1>4, PTL
  <2> QED
    BY <2>1, <2>2, PTL DEF Promise!Spec, HasTaken
<1> QED
  BY <1>6 DEF NotifierPromise
=============================================================================
