-------------------------- MODULE AmqpTyping_proofs --------------------------
(***************************************************************************)
(* Type correctness of AmqpMiddleware for every value of its constants,    *)
(* what each kind of step does to the calls, and what is known of          *)
(* connections by their numbers.                                           *)
(***************************************************************************)
EXTENDS AmqpSafety_proofs

CallType == [pc : PCs, attempt : 1..MAX_RETRIES, on : Conns \cup {0}]

(* A call dials successfully at most once, and otherwise a connection is   *)
(* dialled only when its channel cannot be opened.                         *)
NotDialled == {c \in Calls : call[c].pc \in {"new", "connect"}}

DialInv ==
    /\ dialled + Cardinality(NotDialled) <= 1 + Cardinality(Calls) + faults.channel
    /\ TotalFaults <= MaxFaults

(* Everything in use was dialled before.                                   *)
NumbersInv ==
    /\ conn <= dialled /\ channel <= dialled /\ openConns \subseteq 1..dialled
    /\ \A k \in Conns : k > dialled => replies[k] = <<>>
    /\ \A c \in Calls :
          /\ call[c].on <= dialled
          /\ call[c].pc \in {"assignConn", "reply"} => call[c].on # 0

(* Publishers wait for confirmations, queue operations for replies.        *)
KindInv ==
    \A c \in Calls :
        /\ At(c, "await") => c \in Messages
        /\ At(c, "reply") => c \in Operations

(* Nothing is on its way on a channel that is closed or not yet open.      *)
ClosedEmpty ==
    \A k \in Conns \ openChannels : pending[k] = <<>> /\ requested[k] = <<>>

TypeInv == TypeOK /\ DialInv /\ NumbersInv /\ KindInv /\ ClosedEmpty

-----------------------------------------------------------------------------
(* What the steps of a call do to the calls.                               *)

Others(c) == \A d \in Calls : d # c => call'[d] = call[d]

LEMMA GotoMoves ==
    ASSUME call \in [Calls -> CallType], NEW c \in Calls, NEW pc \in PCs, Goto(c, pc)
    PROVE  /\ call' \in [Calls -> CallType] /\ Others(c)
           /\ call'[c].pc = pc /\ call'[c].attempt = call[c].attempt
           /\ call'[c].on = call[c].on
BY DEF Goto, CallType, Others

LEMMA ConnectedMoves ==
    ASSUME call \in [Calls -> CallType], NEW c \in Calls, Connected(c)
    PROVE  /\ call' \in [Calls -> CallType] /\ Others(c)
           /\ call'[c].pc = "use" /\ call'[c].attempt = call[c].attempt
           /\ call'[c].on = 0
<1>1. "use" \in PCs
  BY DEF PCs
<1> QED
  BY <1>1 DEF Connected, CallType, Others

LEMMA RetryMoves ==
    ASSUME call \in [Calls -> CallType], NEW c \in Calls, Retry(c)
    PROVE  /\ call' \in [Calls -> CallType] /\ Others(c)
           /\ call'[c].on = call[c].on
           /\ \/ /\ call[c].attempt < MAX_RETRIES /\ call'[c].pc = "use"
                 /\ call'[c].attempt = call[c].attempt + 1
              \/ /\ call[c].attempt = MAX_RETRIES /\ call'[c].pc = "failed"
                 /\ call'[c].attempt = call[c].attempt
<1>1. "use" \in PCs /\ "failed" \in PCs /\ MAX_RETRIES \in Nat
  BY MiddlewareAssumption DEF PCs, Ended
<1>2. call[c].attempt \in 1..MAX_RETRIES
  BY DEF CallType
<1>3. CASE AttemptsLeft(c)
  <2>1. call' = [call EXCEPT ![c].pc = "use", ![c].attempt = call[c].attempt + 1]
    BY <1>3 DEF Retry
  <2>2. call[c].attempt < MAX_RETRIES /\ call[c].attempt + 1 \in 1..MAX_RETRIES
    BY <1>1, <1>2, <1>3 DEF AttemptsLeft
  <2> HIDE DEF PCs
  <2> QED
    BY <1>1, <2>1, <2>2 DEF CallType, Others
<1>4. CASE ~AttemptsLeft(c)
  <2>1. call[c].attempt = MAX_RETRIES
    BY <1>1, <1>2, <1>4 DEF AttemptsLeft
  <2> QED
    BY <1>1, <1>4, <2>1, GotoMoves DEF Retry
<1> QED
  BY <1>3, <1>4

LEMMA DialMoves ==
    ASSUME call \in [Calls -> CallType], NEW c \in Calls, Dial(c), dialled + 1 \in Conns
    PROVE  /\ call' \in [Calls -> CallType] /\ Others(c)
           /\ call'[c].pc = "assignConn" /\ call'[c].attempt = call[c].attempt
           /\ call'[c].on = dialled + 1
<1>1. "assignConn" \in PCs
  BY DEF PCs
<1> HIDE DEF Conns
<1> QED
  BY <1>1 DEF Dial, CallType, Others

LEMMA QueueOperationMoves ==
    ASSUME call \in [Calls -> CallType], NEW c \in Calls, QueueOperation(c),
           channel \in Conns \cup {0}
    PROVE  /\ call' \in [Calls -> CallType] /\ Others(c)
           /\ call'[c].attempt = call[c].attempt
           /\ \/ /\ channel \in openChannels
                 /\ call'[c].pc = "reply" /\ call'[c].on = channel
              \/ /\ channel \notin openChannels
                 /\ call'[c].pc = "failed" /\ call'[c].on = call[c].on
<1>1. "reply" \in PCs /\ "failed" \in PCs
  BY DEF PCs, Ended
<1>2. CASE channel \in openChannels
  <2>1. call' = [call EXCEPT ![c].pc = "reply", ![c].on = channel]
    BY <1>2 DEF QueueOperation
  <2> HIDE DEF PCs, Conns
  <2> QED
    BY <1>1, <1>2, <2>1 DEF CallType, Others
<1>3. CASE channel \notin openChannels
  BY <1>1, <1>3, GotoMoves DEF QueueOperation
<1> QED
  BY <1>2, <1>3

LEMMA AwaitReplyMoves ==
    ASSUME call \in [Calls -> CallType], NEW c \in Calls, AwaitReply(c)
    PROVE  /\ call' \in [Calls -> CallType] /\ Others(c)
           /\ call'[c].pc \in {"ok", "failed"} /\ call'[c].attempt = call[c].attempt
           /\ call'[c].on = 0
<1>1. PICK pc \in {"ok", "failed"} : call' = [call EXCEPT ![c].pc = pc, ![c].on = 0]
  BY DEF AwaitReply
<1>2. pc \in PCs
  BY DEF PCs, Ended
<1> HIDE DEF PCs
<1> QED
  BY <1>1, <1>2 DEF CallType, Others

(* The counts of faults.                                                   *)
LEMMA FaultCounts ==
    ASSUME faults \in [AllFaultKinds -> 0..MaxFaults], TotalFaults <= MaxFaults,
           NEW kind, Fault(kind)
    PROVE  /\ faults' \in [AllFaultKinds -> 0..MaxFaults]
           /\ TotalFaults' <= MaxFaults
           /\ kind \in AllFaultKinds /\ faults'[kind] = faults[kind] + 1
           /\ \A k \in AllFaultKinds \ {kind} : faults'[k] = faults[k]
<1>1. kind \in AllFaultKinds /\ MaxFaults \in Nat
  BY MiddlewareAssumption DEF Fault
<1>2. /\ faults.dial \in 0..MaxFaults /\ faults.channel \in 0..MaxFaults
      /\ faults.loss \in 0..MaxFaults /\ faults.exception \in 0..MaxFaults
      /\ faults.nack \in 0..MaxFaults
  BY DEF AllFaultKinds
<1>3. faults[kind] + 1 \in 0..MaxFaults
  BY <1>1, <1>2 DEF Fault, TotalFaults, AllFaultKinds
<1>4. faults' = [faults EXCEPT ![kind] = faults[kind] + 1]
  BY DEF Fault
<1>5. /\ faults' \in [AllFaultKinds -> 0..MaxFaults]
      /\ faults'[kind] = faults[kind] + 1
      /\ \A k \in AllFaultKinds \ {kind} : faults'[k] = faults[k]
  BY <1>1, <1>3, <1>4
<1>6. TotalFaults' = TotalFaults + 1
  <2>1. \A k \in AllFaultKinds : faults'[k] = IF k = kind THEN faults[k] + 1 ELSE faults[k]
    BY <1>5
  <2> QED
    BY <1>1, <1>2, <2>1 DEF TotalFaults, AllFaultKinds
<1>7. TotalFaults < MaxFaults /\ TotalFaults \in Nat
  BY <1>1, <1>2 DEF Fault, TotalFaults
<1> QED
  BY <1>1, <1>5, <1>6, <1>7

LEMMA CallsFinite ==
    /\ IsFiniteSet(Calls) /\ Cardinality(Calls) \in Nat
    /\ IsFiniteSet(NotDialled) /\ Cardinality(NotDialled) \in Nat
<1>1. IsFiniteSet(Calls) /\ NotDialled \in SUBSET Calls
  BY MiddlewareAssumption DEF NotDialled
<1>2. IsFiniteSet(NotDialled)
  BY <1>1, FS_Subset
<1> QED
  BY <1>1, <1>2, FS_CardinalityType

(* A connection that is dialled is one of Conns.                           *)
LEMMA DialIsBounded ==
    ASSUME TypeInv, NEW c \in Calls, At(c, "connect")
    PROVE  dialled + 1 \in Conns
<1>1. c \in NotDialled
  BY DEF NotDialled, At
<1>2. NotDialled # {} /\ Cardinality(NotDialled) \in Nat
  BY <1>1, CallsFinite
<1>3. Cardinality(NotDialled) >= 1
  BY <1>2, CallsFinite, FS_EmptySet
<1>4. dialled \in Nat /\ dialled >= 1 /\ faults.channel \in 0..MaxFaults
  BY DEF TypeInv, TypeOK, Conns, AllFaultKinds
<1>5. dialled <= Cardinality(Calls) + faults.channel
  BY <1>2, <1>3, <1>4, CallsFinite DEF TypeInv, DialInv
<1> QED
  BY <1>4, <1>5, CallsFinite, MiddlewareAssumption DEF Conns

(* What a step of call c needs to show of the calls.                       *)
LEMMA CallsKept ==
    ASSUME TypeInv, NEW c \in Calls, Others(c), call' \in [Calls -> CallType],
           dialled' \in Nat, dialled <= dialled',
           call'[c].on <= dialled',
           call'[c].pc \in {"assignConn", "reply"} => call'[c].on # 0,
           call'[c].pc = "await" => c \in Messages,
           call'[c].pc = "reply" => c \in Operations
    PROVE  /\ KindInv'
           /\ \A d \in Calls : /\ call'[d].on <= dialled'
                               /\ call'[d].pc \in {"assignConn", "reply"} => call'[d].on # 0
<1>1. /\ dialled \in Nat
      /\ \A d \in Calls : call[d].on \in Nat /\ call'[d].on \in Nat
  BY DEF TypeInv, TypeOK, CallType, Conns
<1>2. ASSUME NEW d \in Calls, d # c
      PROVE  /\ call'[d].on <= dialled'
             /\ call'[d].pc \in {"assignConn", "reply"} => call'[d].on # 0
             /\ call'[d].pc = "await" => d \in Messages
             /\ call'[d].pc = "reply" => d \in Operations
  BY <1>1, <1>2 DEF TypeInv, NumbersInv, KindInv, Others, At
<1> QED
  BY <1>2 DEF KindInv, At

LEMMA DialKept ==
    ASSUME TypeInv, dialled' = dialled, NotDialled' \subseteq NotDialled,
           UNCHANGED faults \/ \E kind : Fault(kind)
    PROVE  /\ DialInv' /\ faults' \in [AllFaultKinds -> 0..MaxFaults]
<1>1. /\ faults' \in [AllFaultKinds -> 0..MaxFaults] /\ TotalFaults' <= MaxFaults
      /\ faults.channel \in Nat /\ faults'.channel \in Nat
      /\ faults.channel <= faults'.channel
  <2>1. CASE UNCHANGED faults
    BY <2>1, MiddlewareAssumption DEF TypeInv, TypeOK, DialInv, TotalFaults, AllFaultKinds
  <2>2. ASSUME NEW kind, Fault(kind)
        PROVE  /\ faults' \in [AllFaultKinds -> 0..MaxFaults] /\ TotalFaults' <= MaxFaults
               /\ faults.channel \in Nat /\ faults'.channel \in Nat
               /\ faults.channel <= faults'.channel
    <3>1. faults \in [AllFaultKinds -> 0..MaxFaults] /\ TotalFaults <= MaxFaults
      BY DEF TypeInv, TypeOK, DialInv
    <3>2. /\ faults' \in [AllFaultKinds -> 0..MaxFaults] /\ TotalFaults' <= MaxFaults
          /\ kind \in AllFaultKinds /\ faults'[kind] = faults[kind] + 1
          /\ \A k \in AllFaultKinds \ {kind} : faults'[k] = faults[k]
      BY <2>2, <3>1, FaultCounts
    <3> QED
      BY <3>1, <3>2, MiddlewareAssumption DEF AllFaultKinds
  <2> QED
    BY <2>1, <2>2
<1>2. /\ Cardinality(NotDialled') <= Cardinality(NotDialled)
      /\ Cardinality(NotDialled') \in Nat
  BY CallsFinite, FS_Subset, FS_CardinalityType
<1>3. dialled \in Nat
  BY DEF TypeInv, TypeOK, Conns
<1> QED
  BY <1>1, <1>2, <1>3, CallsFinite DEF TypeInv, DialInv

(* Steps of a call that touch neither the network nor what is on its way.  *)
LEMMA QuietTypeInv ==
    ASSUME TypeInv, NEW c \in Calls, Others(c), call' \in [Calls -> CallType],
           call'[c].on <= dialled,
           call'[c].pc \in {"assignConn", "reply"} => call'[c].on # 0,
           call'[c].pc = "await" => c \in Messages,
           call'[c].pc = "reply" => c \in Operations,
           call'[c].pc \in {"new", "connect"} => call[c].pc \in {"new", "connect"},
           UNCHANGED faults \/ \E kind : Fault(kind),
           UNCHANGED <<fields, network, traffic>>
    PROVE  TypeInv'
<1>1. NotDialled' \subseteq NotDialled
  BY DEF NotDialled, Others
<1>2. DialInv' /\ faults' \in [AllFaultKinds -> 0..MaxFaults]
  BY <1>1, DialKept DEF network
<1>3. dialled \in Nat /\ dialled' = dialled
  BY DEF TypeInv, TypeOK, Conns, network
<1>4. /\ KindInv'
      /\ \A d \in Calls : /\ call'[d].on <= dialled'
                          /\ call'[d].pc \in {"assignConn", "reply"} => call'[d].on # 0
  BY <1>3, CallsKept
<1>5. TypeOK'
  BY <1>2 DEF TypeInv, TypeOK, CallType, fields, network, traffic, rpc
<1> QED
  BY <1>2, <1>4, <1>5
  DEF TypeInv, NumbersInv, ClosedEmpty, fields, network, traffic, rpc

(* What TypeInv says of one call.                                          *)
LEMMA CallTyped ==
    ASSUME TypeInv, NEW c \in Calls
    PROVE  /\ call \in [Calls -> CallType]
           /\ call[c].on \in Conns \cup {0} /\ call[c].on \in Nat /\ call[c].on <= dialled
           /\ call[c].pc \in {"assignConn", "reply"} => call[c].on \in Conns
           /\ call[c].pc = "await" => c \in Messages
           /\ call[c].pc = "reply" => c \in Operations
BY DEF TypeInv, TypeOK, CallType, NumbersInv, KindInv, Conns, At

LEMMA EnsureTypeInv ==
    ASSUME TypeInv, NEW c \in Calls, EnsureConnection(c)
    PROVE  TypeInv'
<1>1. "connect" \in PCs
  BY DEF PCs
<1>2. call \in [Calls -> CallType] /\ call[c].on <= dialled /\ dialled \in Nat
  BY CallTyped DEF TypeInv, TypeOK, Conns
<1>3. Connected(c) \/ Goto(c, "connect")
  BY DEF EnsureConnection
<1>4. /\ call' \in [Calls -> CallType] /\ Others(c)
      /\ call'[c].pc \in {"use", "connect"} /\ call'[c].on \in {0, call[c].on}
  BY <1>1, <1>2, <1>3, ConnectedMoves, GotoMoves
<1>5. call[c].pc = "new" /\ UNCHANGED <<fields, network, traffic, faults>>
  BY DEF EnsureConnection, At
<1> QED
  BY <1>2, <1>4, <1>5, QuietTypeInv

LEMMA DialTypeInv ==
    ASSUME TypeInv, NEW c \in Calls, Dial(c)
    PROVE  TypeInv'
<1> DEFINE k == dialled + 1
<1>1. k \in Conns
  BY DialIsBounded DEF Dial
<1>2. /\ call' \in [Calls -> CallType] /\ Others(c)
      /\ call'[c].pc = "assignConn" /\ call'[c].on = k
  BY <1>1, CallTyped, DialMoves
<1>3. /\ dialled \in Nat /\ dialled' = k
      /\ UNCHANGED <<conn, confirms, pending, copies, requested, replies, faults>>
      /\ openConns' = openConns \cup {k} /\ openChannels' = openChannels \cup {k}
      /\ channel' = k
  BY DEF Dial, traffic, rpc, TypeInv, TypeOK, Conns
<1>4. TypeOK'
  BY <1>1, <1>2, <1>3 DEF TypeInv, TypeOK, CallType
<1>5. DialInv'
  <2>1. c \in NotDialled /\ NotDialled' = NotDialled \ {c}
    BY <1>2 DEF NotDialled, Others, Dial, At
  <2>2. Cardinality(NotDialled') = Cardinality(NotDialled) - 1
    BY <2>1, CallsFinite, FS_RemoveElement
  <2>3. faults.channel \in Nat
    BY MiddlewareAssumption DEF TypeInv, TypeOK, AllFaultKinds
  <2> QED
    BY <1>3, <2>2, <2>3, CallsFinite DEF TypeInv, DialInv, TotalFaults
<1>6. /\ KindInv'
      /\ \A d \in Calls : /\ call'[d].on <= dialled'
                          /\ call'[d].pc \in {"assignConn", "reply"} => call'[d].on # 0
  BY <1>2, <1>3, CallsKept
<1>7. NumbersInv'
  BY <1>3, <1>6 DEF TypeInv, TypeOK, NumbersInv, Conns
<1>8. ClosedEmpty'
  BY <1>3 DEF TypeInv, ClosedEmpty
<1> QED
  BY <1>4, <1>5, <1>6, <1>7, <1>8 DEF TypeInv

LEMMA AssignTypeInv ==
    ASSUME TypeInv, NEW c \in Calls, AssignConn(c)
    PROVE  TypeInv'
<1>1. call[c].on \in Conns /\ call[c].on <= dialled /\ dialled \in Nat
  BY CallTyped DEF AssignConn, At, TypeInv, TypeOK, Conns
<1>2. /\ call' \in [Calls -> CallType] /\ Others(c)
      /\ call'[c].pc = "use" /\ call'[c].on = 0
  BY CallTyped, ConnectedMoves DEF AssignConn
<1>3. /\ conn' = call[c].on
      /\ UNCHANGED <<channel, dialled, openConns, openChannels, confirms, pending, copies,
                     requested, replies, faults>>
  BY DEF AssignConn, network, traffic, rpc
<1>4. TypeOK'
  BY <1>1, <1>2, <1>3 DEF TypeInv, TypeOK, CallType
<1>5. DialInv'
  BY <1>2, <1>3, DialKept DEF NotDialled, Others
<1>6. /\ KindInv'
      /\ \A d \in Calls : /\ call'[d].on <= dialled'
                          /\ call'[d].pc \in {"assignConn", "reply"} => call'[d].on # 0
  BY <1>1, <1>2, <1>3, CallsKept
<1>7. NumbersInv' /\ ClosedEmpty'
  BY <1>1, <1>3, <1>6 DEF TypeInv, NumbersInv, ClosedEmpty
<1> QED
  BY <1>4, <1>5, <1>6, <1>7 DEF TypeInv

LEMMA ChannelFailsTypeInv ==
    ASSUME TypeInv, NEW c \in Calls, ChannelFails(c)
    PROVE  TypeInv'
<1> DEFINE k == dialled + 1
<1>1. k \in Conns
  BY DialIsBounded DEF ChannelFails
<1>2. /\ call' = call /\ channel' = 0 /\ dialled \in Nat /\ dialled' = k
      /\ UNCHANGED <<conn, openChannels, confirms, pending, copies, requested, replies>>
      /\ openConns \subseteq openConns' /\ openConns' \subseteq openConns \cup {k}
  BY DEF ChannelFails, DialAgain, traffic, rpc, TypeInv, TypeOK, Conns
<1>3. /\ faults' \in [AllFaultKinds -> 0..MaxFaults] /\ TotalFaults' <= MaxFaults
      /\ faults'["channel"] = faults["channel"] + 1
  BY FaultCounts DEF ChannelFails, TypeInv, TypeOK, DialInv
<1>4. TypeOK'
  BY <1>1, <1>2, <1>3 DEF TypeInv, TypeOK
<1>5. DialInv'
  <2>1. NotDialled' = NotDialled
    BY <1>2 DEF NotDialled
  <2>2. faults.channel \in Nat /\ faults'.channel = faults.channel + 1
    BY <1>3, MiddlewareAssumption DEF TypeInv, TypeOK, AllFaultKinds
  <2> QED
    BY <1>2, <1>3, <2>1, <2>2, CallsFinite DEF TypeInv, DialInv
<1>6. \A d \in Calls : call[d].on \in Nat
  BY CallTyped
<1>7. NumbersInv' /\ KindInv' /\ ClosedEmpty'
  BY <1>2, <1>6 DEF TypeInv, TypeOK, NumbersInv, KindInv, ClosedEmpty, At, Conns
<1> QED
  BY <1>4, <1>5, <1>7 DEF TypeInv

(* What is on its way on one channel is replaced.                          *)
LEMMA WayUpdate ==
    ASSUME NEW S, NEW way \in [Conns -> Seq(S)], NEW k \in Conns, NEW q \in Seq(S)
    PROVE  LET new == [way EXCEPT ![k] = q] IN
           /\ new \in [Conns -> Seq(S)] /\ new[k] = q
           /\ \A j \in Conns \ {k} : new[j] = way[j]
<1> HIDE DEF Conns
<1> QED
  OBVIOUS

LEMMA QueueOperationTypeInv ==
    ASSUME TypeInv, NEW c \in Calls, QueueOperation(c)
    PROVE  TypeInv'
<1>1. call \in [Calls -> CallType] /\ call[c].on <= dialled /\ channel \in Conns \cup {0}
  BY CallTyped DEF TypeInv, TypeOK
<1>2. /\ c \in Operations /\ channel # 0 /\ call[c].pc = "use"
      /\ UNCHANGED <<conn, channel, dialled, openConns, openChannels, confirms, pending,
                     copies, replies, faults>>
  BY DEF QueueOperation, At, fields, network
<1>3. /\ call' \in [Calls -> CallType] /\ Others(c)
      /\ \/ channel \in openChannels /\ call'[c].pc = "reply" /\ call'[c].on = channel
         \/ channel \notin openChannels /\ call'[c].pc = "failed" /\ call'[c].on = call[c].on
  BY <1>1, QueueOperationMoves
<1>4. /\ requested' \in [Conns -> Seq(Operations)]
      /\ \A k \in Conns \ openChannels : requested'[k] = requested[k]
  <2>1. CASE channel \in openChannels
    <3>1. requested \in [Conns -> Seq(Operations)] /\ channel \in Conns
      BY <1>1, <1>2 DEF TypeInv, TypeOK
    <3>2. Append(requested[channel], c) \in Seq(Operations)
      BY <1>2, <3>1
    <3>3. requested' = [requested EXCEPT ![channel] = Append(requested[channel], c)]
      BY <2>1 DEF QueueOperation
    <3> QED
      BY <2>1, <3>1, <3>2, <3>3, WayUpdate
  <2>2. CASE channel \notin openChannels
    BY <2>2 DEF QueueOperation, TypeInv, TypeOK
  <2> QED
    BY <2>1, <2>2
<1>5. TypeOK'
  BY <1>2, <1>3, <1>4 DEF TypeInv, TypeOK, CallType
<1>6. DialInv'
  BY <1>2, <1>3, DialKept DEF NotDialled, Others
<1>7. dialled \in Nat /\ channel <= dialled
  BY DEF TypeInv, TypeOK, NumbersInv, Conns
<1>8. /\ KindInv'
      /\ \A d \in Calls : /\ call'[d].on <= dialled'
                          /\ call'[d].pc \in {"assignConn", "reply"} => call'[d].on # 0
  BY <1>1, <1>2, <1>3, <1>7, CallsKept
<1>9. NumbersInv' /\ ClosedEmpty'
  BY <1>2, <1>4, <1>8 DEF TypeInv, NumbersInv, ClosedEmpty
<1> QED
  BY <1>5, <1>6, <1>8, <1>9 DEF TypeInv

LEMMA AwaitReplyTypeInv ==
    ASSUME TypeInv, NEW c \in Calls, AwaitReply(c)
    PROVE  TypeInv'
<1> DEFINE k == call[c].on
<1>1. k \in Conns /\ k <= dialled /\ dialled \in Nat
  <2>1. call[c].pc = "reply"
    BY DEF AwaitReply, At
  <2>2. dialled \in Nat
    BY DEF TypeInv, TypeOK, Conns
  <2> QED
    BY <2>1, <2>2, CallTyped
<1>2. /\ call[c].pc = "reply"
      /\ UNCHANGED <<conn, channel, dialled, openConns, openChannels, confirms, pending,
                     copies, requested, faults>>
  BY DEF AwaitReply, At, fields, network
<1>3. /\ call' \in [Calls -> CallType] /\ Others(c)
      /\ call'[c].pc \in {"ok", "failed"} /\ call'[c].on = 0
  BY CallTyped, AwaitReplyMoves
<1>4. /\ replies' \in [Conns -> Seq(Operations)]
      /\ \A j \in Conns : replies[j] = <<>> => replies'[j] = <<>>
  <2>1. replies \in [Conns -> Seq(Operations)]
    BY DEF TypeInv, TypeOK
  <2>2. CASE replies[k] # <<>> /\ replies' = [replies EXCEPT ![k] = Tail(replies[k])]
    <3>1. Tail(replies[k]) \in Seq(Operations)
      BY <1>1, <2>1, <2>2
    <3> QED
      BY <1>1, <2>1, <2>2, <3>1, WayUpdate
  <2>3. CASE UNCHANGED replies
    BY <2>1, <2>3
  <2> QED
    BY <2>2, <2>3 DEF AwaitReply
<1>5. TypeOK'
  BY <1>2, <1>3, <1>4 DEF TypeInv, TypeOK, CallType
<1>6. DialInv'
  BY <1>2, <1>3, DialKept DEF NotDialled, Others
<1>7. /\ KindInv'
      /\ \A d \in Calls : /\ call'[d].on <= dialled'
                          /\ call'[d].pc \in {"assignConn", "reply"} => call'[d].on # 0
  BY <1>1, <1>2, <1>3, CallsKept
<1>8. NumbersInv' /\ ClosedEmpty'
  BY <1>2, <1>4, <1>7 DEF TypeInv, NumbersInv, ClosedEmpty
<1> QED
  BY <1>5, <1>6, <1>7, <1>8 DEF TypeInv

LEMMA PublishTypeInv ==
    ASSUME TypeInv, NEW c \in Calls, PublishAttempt(c)
    PROVE  TypeInv'
<1>1. call \in [Calls -> CallType] /\ call[c].on <= dialled /\ dialled \in Nat
  BY CallTyped DEF TypeInv, TypeOK, Conns
<1>2. /\ c \in Messages /\ channel # 0 /\ call[c].pc = "use"
      /\ UNCHANGED <<conn, channel, dialled, openConns, openChannels, confirms, requested,
                     copies, replies, faults>>
  BY DEF PublishAttempt, At, fields, network, rpc
<1>3. /\ call' \in [Calls -> CallType] /\ Others(c)
      /\ call'[c].pc \in {"await", "use", "failed"} /\ call'[c].on = call[c].on
  <2>1. "await" \in PCs
    BY DEF PCs
  <2> QED
    BY <1>1, <2>1, GotoMoves, RetryMoves DEF PublishAttempt
<1>4. /\ pending' \in [Conns -> Seq(Messages)]
      /\ \A k \in Conns \ openChannels : pending'[k] = pending[k]
  <2>1. CASE channel \in openChannels
    <3>1. pending \in [Conns -> Seq(Messages)] /\ channel \in Conns
      BY <1>2 DEF TypeInv, TypeOK
    <3>2. Append(pending[channel], c) \in Seq(Messages)
      BY <1>2, <3>1
    <3>3. pending' = [pending EXCEPT ![channel] = Append(pending[channel], c)]
      BY <2>1 DEF PublishAttempt
    <3> QED
      BY <2>1, <3>1, <3>2, <3>3, WayUpdate
  <2>2. CASE channel \notin openChannels
    BY <2>2 DEF PublishAttempt, TypeInv, TypeOK
  <2> QED
    BY <2>1, <2>2
<1>5. TypeOK'
  BY <1>2, <1>3, <1>4 DEF TypeInv, TypeOK, CallType
<1>6. DialInv'
  BY <1>2, <1>3, DialKept DEF NotDialled, Others
<1>7. /\ KindInv'
      /\ \A d \in Calls : /\ call'[d].on <= dialled'
                          /\ call'[d].pc \in {"assignConn", "reply"} => call'[d].on # 0
  BY <1>1, <1>2, <1>3, CallsKept
<1>8. NumbersInv' /\ ClosedEmpty'
  BY <1>2, <1>4, <1>7 DEF TypeInv, NumbersInv, ClosedEmpty
<1> QED
  BY <1>5, <1>6, <1>7, <1>8 DEF TypeInv

LEMMA AwaitConfirmationTypeInv ==
    ASSUME TypeInv, NEW c \in Calls, AwaitConfirmation(c)
    PROVE  TypeInv'
<1>1. call \in [Calls -> CallType] /\ call[c].on <= dialled /\ dialled \in Nat
  BY CallTyped DEF TypeInv, TypeOK, Conns
<1>2. /\ call[c].pc = "await"
      /\ UNCHANGED <<conn, channel, dialled, openConns, openChannels, pending, requested,
                     copies, replies, faults>>
  BY DEF AwaitConfirmation, At, fields, network, rpc
<1>3. /\ call' \in [Calls -> CallType] /\ Others(c)
      /\ call'[c].pc \in {"ok", "use", "failed"} /\ call'[c].on = call[c].on
  <2>1. "ok" \in PCs
    BY DEF PCs, Ended
  <2> QED
    BY <1>1, <2>1, GotoMoves, RetryMoves DEF AwaitConfirmation, Receive
<1>4. confirms' \in Seq([msg : Messages, ack : BOOLEAN])
  <2> DEFINE Answers == [msg : Messages, ack : BOOLEAN]
  <2>1. confirms \in Seq(Answers)
    BY DEF TypeInv, TypeOK
  <2>2. \/ confirms # <<>> /\ confirms' = Tail(confirms)
        \/ confirms' = confirms
    BY DEF AwaitConfirmation, Receive, Confirmed, Unconfirmable
  <2> HIDE DEF Answers
  <2>3. confirms' \in Seq(Answers)
    BY <2>1, <2>2
  <2> QED
    BY <2>3 DEF Answers
<1>5. TypeOK'
  BY <1>2, <1>3, <1>4 DEF TypeInv, TypeOK, CallType
<1>6. DialInv'
  BY <1>2, <1>3, DialKept DEF NotDialled, Others
<1>7. /\ KindInv'
      /\ \A d \in Calls : /\ call'[d].on <= dialled'
                          /\ call'[d].pc \in {"assignConn", "reply"} => call'[d].on # 0
  BY <1>1, <1>2, <1>3, CallsKept
<1>8. NumbersInv' /\ ClosedEmpty'
  BY <1>2, <1>7 DEF TypeInv, NumbersInv, ClosedEmpty
<1> QED
  BY <1>5, <1>6, <1>7, <1>8 DEF TypeInv

LEMMA HandlerTypeInv ==
    ASSUME TypeInv, NEW c \in Calls, Handler(c)
    PROVE  TypeInv'
<1>1. CASE Panic(c)
  <2>1. "panicked" \in PCs
    BY DEF PCs, Ended
  <2>2. /\ call' \in [Calls -> CallType] /\ Others(c)
        /\ call'[c].pc = "panicked" /\ call'[c].on = call[c].on
    BY <1>1, <2>1, CallTyped, GotoMoves DEF Panic
  <2>3. UNCHANGED <<fields, network, traffic, faults>>
    BY <1>1 DEF Panic
  <2> QED
    BY <2>2, <2>3, CallTyped, QuietTypeInv
<1>2. CASE DialFails(c)
  <2>1. call' = call /\ Fault("dial") /\ UNCHANGED <<fields, network, traffic>>
    BY <1>2 DEF DialFails, DialAgain
  <2>2. \E kind : Fault(kind)
    BY <2>1
  <2>3. /\ call \in [Calls -> CallType] /\ call[c].on <= dialled
        /\ call[c].pc \in {"assignConn", "reply"} => call[c].on # 0
        /\ call[c].pc = "await" => c \in Messages
        /\ call[c].pc = "reply" => c \in Operations
    BY CallTyped DEF Conns
  <2>4. Others(c)
    BY <2>1 DEF Others
  <2> QED
    BY <2>1, <2>2, <2>3, <2>4, QuietTypeInv
<1> QED
  BY <1>1, <1>2, EnsureTypeInv, DialTypeInv, AssignTypeInv, ChannelFailsTypeInv,
     QueueOperationTypeInv, AwaitReplyTypeInv, PublishTypeInv, AwaitConfirmationTypeInv
  DEF Handler, Proceed

-----------------------------------------------------------------------------
(* The broker and the network.                                             *)

(* A step of the broker does nothing to the calls and the fields.          *)
LEMMA BrokerFrame ==
    ASSUME NEW k \in Conns, Broker(k)
    PROVE  /\ UNCHANGED <<call, conn, channel, dialled>>
           /\ openConns' \subseteq openConns /\ openChannels' \subseteq openChannels
           /\ UNCHANGED faults \/ \E kind : Fault(kind)
BY DEF Broker, BrokerTakes, BrokerRefuses, BrokerExecutes, ChannelException,
       ConnectionLost, Cut, fields, network

LEMMA AmongNat ==
    ASSUME NEW c, NEW way, NEW n \in Nat
    PROVE  Among(c, way, n) \in Nat
<1> DEFINE At_c == {i \in 1..n : way[i] = c}
<1>1. IsFiniteSet(1..n) /\ At_c \in SUBSET (1..n)
  BY FS_Interval
<1>2. Cardinality(At_c) \in Nat
  BY <1>1, FS_Subset, FS_CardinalityType
<1> QED
  BY <1>2 DEF Among

(* The first message, or request, of an open channel is dealt with.        *)
LEMMA HeadTyped ==
    ASSUME NEW S, NEW way \in [Conns -> Seq(S)], NEW k \in Conns, way[k] # <<>>
    PROVE  /\ Head(way[k]) \in S /\ Tail(way[k]) \in Seq(S)
           /\ [way EXCEPT ![k] = Tail(@)] \in [Conns -> Seq(S)]
           /\ \A j \in Conns \ {k} : [way EXCEPT ![k] = Tail(@)][j] = way[j]
<1>1. Head(way[k]) \in S /\ Tail(way[k]) \in Seq(S)
  OBVIOUS
<1> QED
  BY <1>1, WayUpdate

(* The broker takes one more copy.                                         *)
LEMMA OneMoreCopy ==
    ASSUME copies \in [Calls -> Nat], NEW m \in Calls,
           copies' = [copies EXCEPT ![m] = @ + 1]
    PROVE  /\ copies' \in [Calls -> Nat] /\ copies'[m] = copies[m] + 1
           /\ \A c \in Calls \ {m} : copies'[c] = copies[c]
<1>1. copies[m] \in Nat /\ copies[m] + 1 \in Nat
  OBVIOUS
<1> DEFINE n == copies[m] + 1
<1>2. copies' = [copies EXCEPT ![m] = n]
  OBVIOUS
<1>3. n \in Nat
  BY <1>1
<1> HIDE DEF n
<1>4. /\ copies' \in [Calls -> Nat] /\ copies'[m] = n
      /\ \A c \in Calls \ {m} : copies'[c] = copies[c]
  BY <1>2, <1>3
<1> QED
  BY <1>4 DEF n

(* What was on its way on a channel that is cut may have been taken.       *)
LEMMA CutCopies ==
    ASSUME copies \in [Calls -> Nat], NEW k \in Conns, Cut(k)
    PROVE  \E n \in 0..Len(pending[k]), e \in 0..Len(requested[k]) :
              /\ copies' \in [Calls -> Nat]
              /\ \A c \in Calls :
                    /\ copies'[c] = copies[c] + Among(c, pending[k], n)
                                              + Among(c, requested[k], e)
                    /\ copies'[c] >= copies[c]
<1>1. PICK n \in 0..Len(pending[k]), e \in 0..Len(requested[k]) :
         copies' = [c \in Calls |-> copies[c] + Among(c, pending[k], n)
                                             + Among(c, requested[k], e)]
  BY DEF Cut
<1> DEFINE After(c) == copies[c] + Among(c, pending[k], n) + Among(c, requested[k], e)
<1>2. ASSUME NEW c \in Calls
      PROVE  After(c) \in Nat /\ After(c) >= copies[c]
  <2>1. n \in Nat /\ e \in Nat
    OBVIOUS
  <2>2. Among(c, pending[k], n) \in Nat /\ Among(c, requested[k], e) \in Nat
    BY <2>1, AmongNat
  <2>3. copies[c] \in Nat
    OBVIOUS
  <2> QED
    BY <2>2, <2>3
<1>3. copies' = [c \in Calls |-> After(c)]
  BY <1>1
<1> HIDE DEF After
<1>4. copies' \in [Calls -> Nat] /\ \A c \in Calls : copies'[c] = After(c)
  BY <1>2, <1>3
<1>5. \A c \in Calls :
         /\ copies'[c] = copies[c] + Among(c, pending[k], n) + Among(c, requested[k], e)
         /\ copies'[c] >= copies[c]
  BY <1>2, <1>4 DEF After
<1> QED
  BY <1>4, <1>5

LEMMA BrokerTypeOK ==
    ASSUME TypeInv, NEW k \in Conns, Broker(k), faults' \in [AllFaultKinds -> 0..MaxFaults]
    PROVE  /\ TypeOK' /\ ClosedEmpty'
           /\ \A j \in Conns \ openChannels : replies'[j] = replies[j]
<1> USE DEF TypeInv
<1>0. /\ UNCHANGED <<call, conn, channel, dialled>>
      /\ openConns' \subseteq openConns /\ openChannels' \subseteq openChannels
  BY BrokerFrame
<1>1. ASSUME NEW ack \in BOOLEAN, k \in openChannels, pending[k] # <<>>, Confirm(k, ack),
             pending' = [pending EXCEPT ![k] = Tail(@)],
             UNCHANGED <<network, requested, replies>>,
             copies' \in [Calls -> Nat]
      PROVE  TypeOK' /\ ClosedEmpty'
  <2>1. /\ Head(pending[k]) \in Messages
        /\ pending' \in [Conns -> Seq(Messages)]
        /\ \A j \in Conns \ {k} : pending'[j] = pending[j]
    BY <1>1, HeadTyped DEF TypeOK
  <2>2. confirms' \in Seq([msg : Messages, ack : BOOLEAN])
    <3> DEFINE Answers == [msg : Messages, ack : BOOLEAN]
               answer == [msg |-> Head(pending[k]), ack |-> ack]
    <3>1. answer \in Answers /\ confirms \in Seq(Answers)
      BY <2>1 DEF TypeOK
    <3>2. confirms' = Append(confirms, answer) \/ confirms' = confirms
      BY <1>1 DEF Confirm
    <3> HIDE DEF Answers, answer
    <3>3. confirms' \in Seq(Answers)
      BY <3>1, <3>2
    <3> QED
      BY <3>3 DEF Answers
  <2> QED
    BY <1>0, <1>1, <2>1, <2>2 DEF TypeOK, ClosedEmpty, network
<1>2. CASE BrokerTakes(k)
  <2>1. Head(pending[k]) \in Messages
    BY <1>2, HeadTyped DEF BrokerTakes, TypeOK
  <2>2. copies' \in [Calls -> Nat]
    <3>1. Head(pending[k]) \in Calls
      BY <2>1 DEF Calls
    <3> QED
      BY <1>2, <3>1, OneMoreCopy DEF BrokerTakes, TypeOK
  <2> QED
    BY <1>1, <1>2, <2>2 DEF BrokerTakes, rpc
<1>3. CASE BrokerRefuses(k)
  BY <1>1, <1>3 DEF BrokerRefuses, rpc, TypeOK
<1>4. CASE BrokerExecutes(k)
  <2> DEFINE c == Head(requested[k])
  <2>1. /\ k \in openChannels /\ requested[k] # <<>>
        /\ copies' = [copies EXCEPT ![c] = @ + 1]
        /\ requested' = [requested EXCEPT ![k] = Tail(@)]
        /\ replies' = [replies EXCEPT ![k] = Append(replies[k], c)]
        /\ UNCHANGED <<network, confirms, pending>>
    BY <1>4 DEF BrokerExecutes
  <2>2. /\ c \in Operations
        /\ requested' \in [Conns -> Seq(Operations)]
        /\ \A j \in Conns \ {k} : requested'[j] = requested[j]
    BY <2>1, HeadTyped DEF TypeOK
  <2>3. /\ replies' \in [Conns -> Seq(Operations)]
        /\ \A j \in Conns \ {k} : replies'[j] = replies[j]
    <3>1. replies \in [Conns -> Seq(Operations)] /\ Append(replies[k], c) \in Seq(Operations)
      BY <2>2 DEF TypeOK
    <3> QED
      BY <2>1, <3>1, WayUpdate
  <2>4. copies' \in [Calls -> Nat]
    <3>1. c \in Calls
      BY <2>2 DEF Calls
    <3> QED
      BY <2>1, <3>1, OneMoreCopy DEF TypeOK
  <2> QED
    BY <1>0, <2>1, <2>2, <2>3, <2>4 DEF TypeOK, ClosedEmpty, network
<1>5. CASE Cut(k) /\ (openConns' = openConns \/ openConns' = openConns \ {k})
           /\ (k \in openConns => k \notin openChannels')
  <2>3. copies' \in [Calls -> Nat]
    BY <1>5, CutCopies DEF TypeOK
  <2>4. /\ pending' \in [Conns -> Seq(Messages)] /\ requested' \in [Conns -> Seq(Operations)]
        /\ pending'[k] = <<>> /\ requested'[k] = <<>>
        /\ \A j \in Conns \ {k} : pending'[j] = pending[j] /\ requested'[j] = requested[j]
    BY <1>5, EmptySeq, WayUpdate DEF Cut, TypeOK
  <2> QED
    BY <1>0, <1>5, <2>3, <2>4 DEF TypeOK, ClosedEmpty, Cut
<1> QED
  BY <1>2, <1>3, <1>4, <1>5 DEF Broker, ChannelException, ConnectionLost, Cut,
     BrokerTakes, BrokerRefuses, BrokerExecutes, rpc

LEMMA BrokerTypeInv ==
    ASSUME TypeInv, NEW k \in Conns, Broker(k)
    PROVE  TypeInv'
<1>1. /\ UNCHANGED <<call, conn, channel, dialled>>
      /\ openConns' \subseteq openConns /\ openChannels' \subseteq openChannels
      /\ UNCHANGED faults \/ \E kind : Fault(kind)
  BY BrokerFrame
<1>2. DialInv' /\ faults' \in [AllFaultKinds -> 0..MaxFaults]
  BY <1>1, DialKept DEF NotDialled
<1>3. /\ TypeOK' /\ ClosedEmpty'
      /\ \A j \in Conns \ openChannels : replies'[j] = replies[j]
  BY <1>2, BrokerTypeOK
<1>4. \A j \in Conns : j > dialled => j \notin openChannels
  BY DEF TypeInv, TypeOK, NumbersInv, Conns
<1>5. NumbersInv' /\ KindInv'
  BY <1>1, <1>3, <1>4 DEF TypeInv, NumbersInv, KindInv, At
<1> QED
  BY <1>2, <1>3, <1>5 DEF TypeInv

LEMMA InitTypeInv == Init => TypeInv
<1> SUFFICES ASSUME Init
             PROVE  TypeInv
  OBVIOUS
<1>1. 1 \in Conns /\ MAX_RETRIES \in Nat \ {0} /\ MaxFaults \in Nat
  BY OneIsConnection, MiddlewareAssumption
<1>2. faults \in [AllFaultKinds -> 0..MaxFaults] /\ TotalFaults = 0 /\ faults.channel = 0
  BY <1>1 DEF Init, TotalFaults, AllFaultKinds
<1>3. call \in [Calls -> CallType]
  BY <1>1 DEF Init, CallType, PCs
<1>4. TypeOK
  BY <1>1, <1>2, <1>3, EmptySeq DEF Init, TypeOK, CallType
<1>5. DialInv
  <2>1. NotDialled = Calls
    BY DEF Init, NotDialled
  <2> QED
    BY <1>1, <1>2, <2>1, CallsFinite DEF Init, DialInv
<1> QED
  BY <1>4, <1>5 DEF Init, TypeInv, NumbersInv, KindInv, ClosedEmpty, At

LEMMA NextTypeInv == TypeInv /\ [Next]_vars => TypeInv'
<1> SUFFICES ASSUME TypeInv, UNCHANGED vars
             PROVE  TypeInv'
  BY HandlerTypeInv, BrokerTypeInv DEF Next, Quiet
<1>1. UNCHANGED <<conn, channel, dialled, openConns, openChannels, confirms, pending,
                  requested, replies, copies, call, faults>>
  BY DEF vars, fields, network, traffic, rpc
<1> QED
  BY <1>1
  DEF TypeInv, TypeOK, DialInv, NotDialled, TotalFaults, NumbersInv, KindInv, ClosedEmpty, At

LEMMA TypeInvariant == Spec => []TypeInv
BY InitTypeInv, NextTypeInv, PTL DEF Spec

(* The variables keep their types; in particular the number of connections *)
(* ever dialled is bounded by the calls and the faults.                    *)
THEOREM AmqpTypeCorrect == Spec => []TypeOK
<1>1. TypeInv => TypeOK
  BY DEF TypeInv
<1> QED
  BY <1>1, TypeInvariant, PTL
=============================================================================
