----------------------------- MODULE CallsProofs -----------------------------
(***************************************************************************)
(* Theorems about the remote operations (Calls), for all participants,     *)
(* threads, interfaces, operations and bounds.                             *)
(***************************************************************************)
EXTENDS Calls, FiniteSetTheorems, SequenceLemmas, TLAPS

-----------------------------------------------------------------------------
(***************************************************************************)
(* The threads of p that have sent a call and not yet registered its       *)
(* callback.  Each of them will take a call id, so p has issued at least   *)
(* as many calls as it has used ids and has such threads: that is why an   *)
(* id never exceeds the number of calls.                                   *)
(***************************************************************************)
Sending(p) == {a \in App : a[1] = p /\ thread[a].pc = "sent"}

CallsCounted ==
  \A p \in Participant :
    /\ Len(issued[p]) <= MaxCall
    /\ IsFiniteSet(Sending(p))
    /\ nextCallId[p] + Cardinality(Sending(p)) <= Len(issued[p]) + 1
    /\ \A a \in Sending(p) : thread[a].n \in 1 .. Len(issued[p])

(* A thread in handleRequests() is at an operation of the queue, or past it. *)
Handling(a) == thread[a].pc = "handling"

HandlersStarted == \A a \in App : Handling(a) => thread[a].next # 0

TypeInv == TypeOK /\ CallsCounted /\ HandlersStarted

(***************************************************************************)
(* A message carries a call that was issued, with its method.  Requests    *)
(* travel on the channels of their issuer; answers, and what is queued, on *)
(* those of the others.                                                    *)
(***************************************************************************)
Genuine(m) ==
  LET p == m.request[1]
      i == m.request[2]
  IN  i <= Len(issued[p]) /\ m.method = issued[p][i]

Routed(ch, m) == IF IsAnswer(m) THEN m.request[1] # ch[1]
                                ELSE m.request[1] = ch[1]

MessagesGenuine ==
  /\ \A ch \in Channel : \A m \in FramesIn(ch) : Genuine(m) /\ Routed(ch, m)
  /\ \A q \in Participant : \A m \in Queued(q) :
       Genuine(m) /\ ~ IsAnswer(m) /\ m.request[1] # q

(***************************************************************************)
(* handleRequests() is a synchronized block: one thread of a participant   *)
(* at a time is in it.                                                     *)
(***************************************************************************)
OneHandler ==
  \A a, b \in App : a[1] = b[1] /\ Handling(a) /\ Handling(b) => a = b

(* What a thread in handleRequests() has passed by was executed, or is not *)
(* an operation that the participant has.                                  *)
Due(q, m) == m.method \in Implemented[q] /\ m.method[1] # Crud

PassedAreExecuted ==
  \A a \in App : Handling(a) =>
    /\ thread[a].next <= Len(queue[a[1]]) + 1
    /\ \A i \in 1 .. Len(queue[a[1]]) :
         /\ i < thread[a].next
         /\ Due(a[1], queue[a[1]][i])
         => queue[a[1]][i].request \in Executed(a[1])

(***************************************************************************)
(* The callback of a call whose messages are about is registered, under    *)
(* the call's id, or its caller is about to register it under that id.     *)
(***************************************************************************)
IdOf(m) == IF m.callId < 0 THEN -m.callId ELSE m.callId

CallbackKnown(m) ==
  LET p == m.request[1] IN
  \/ <<IdOf(m), m.request>> \in callbacks[p]
  \/ /\ IdOf(m) = nextCallId[p]
     /\ \E a \in Sending(p) : thread[a].n = m.request[2]

CallbacksKept ==
  /\ \A ch \in Channel : \A m \in FramesIn(ch) : m.callId # 0 => CallbackKnown(m)
  /\ \A q \in Participant : \A m \in Queued(q) : m.callId # 0 => CallbackKnown(m)
  /\ \A p \in Participant : \A b \in callbacks[p] : b[1] < nextCallId[p]
  /\ \A p \in Participant : \A b, c \in callbacks[p] : b[1] = c[1] => b = c

(***************************************************************************)
(* What a peer has executed, then what it has still to execute, then what  *)
(* is in flight to it: the requests of one issuer are in the order it      *)
(* issued them.                                                            *)
(***************************************************************************)
Before(r, s) == r[1] = s[1] => r[2] < s[2]

Remaining(q) ==
  {j \in 1 .. Len(queue[q]) :
     \A a \in App : a[1] = q /\ Handling(a) => thread[a].next <= j}

ExecutedWereIssued ==
  \A q \in Participant : \A r \in Executed(q) : r[2] <= Len(issued[r[1]])

QueueFollowsExecuted ==
  \A q \in Participant : \A j \in Remaining(q) : \A r \in Executed(q) :
    Before(r, queue[q][j].request)

QueueOrdered ==
  \A q \in Participant : \A i, j \in 1 .. Len(queue[q]) :
    i < j => Before(queue[q][i].request, queue[q][j].request)

ChannelFollows ==
  \A ch \in Channel : \A m \in FramesIn(ch) : ~ IsAnswer(m) =>
    /\ \A r \in Executed(ch[2]) : Before(r, m.request)
    /\ \A n \in Queued(ch[2]) : Before(n.request, m.request)

ChannelOrdered ==
  \A ch \in Channel : \A i, j \in 1 .. Len(net[ch]) :
    i < j /\ ~ IsAnswer(net[ch][i]) /\ ~ IsAnswer(net[ch][j])
      => Before(net[ch][i].request, net[ch][j].request)

OrderInv ==
  /\ MessagesGenuine
  /\ OneHandler
  /\ ExecutedWereIssued
  /\ QueueFollowsExecuted
  /\ QueueOrdered
  /\ ChannelFollows
  /\ ChannelOrdered
  /\ ExecutedOnceInOrder

-----------------------------------------------------------------------------
(* The participant of an application thread. *)
LEMMA AppParticipant == \A a \in App : a[1] \in Participant
BY DEF App

(* The ends of a channel are two different participants. *)
LEMMA ChannelEnds ==
  \A ch \in Channel : ch[1] \in Participant /\ ch[2] \in Participant /\ ch[1] # ch[2]
BY DEF Channel

(* The fields of a message. *)
LEMMA MessageFields ==
  \A m \in Message :
    /\ m.method \in Method
    /\ m.callId \in Int /\ -MaxCall <= m.callId /\ m.callId <= MaxCall
    /\ m.request \in Request
    /\ m.request[1] \in Participant
    /\ m.request[2] \in 1 .. MaxCall
BY CallsAssumption DEF Message, CallId, Request

(* What is in a channel and in a queue is a message. *)
LEMMA FramesAreMessages ==
  ASSUME TypeOK
  PROVE  /\ \A ch \in Channel : FramesIn(ch) \subseteq Message
         /\ \A q \in Participant : Queued(q) \subseteq Message
         /\ \A q \in Participant : Executed(q) \subseteq Request
BY ElementsInSet DEF TypeOK, FramesIn, Queued, Executed

(* A message that is sent is added, where there is room, to the channels   *)
(* of its sender.                                                          *)
LEMMA SendFrames ==
  ASSUME TypeOK, NEW p \in Participant, NEW m \in Message, Send(p, m)
  PROVE  /\ net' \in [Channel -> Seq(Message)]
         /\ \A ch \in Channel :
              FramesIn(ch)' = IF ch[1] = p /\ Room(ch)
                              THEN FramesIn(ch) \cup {m} ELSE FramesIn(ch)
<1>1. net \in [Channel -> Seq(Message)]
  BY DEF TypeOK
<1>2. ASSUME NEW ch \in Channel
      PROVE  /\ net'[ch] \in Seq(Message)
             /\ FramesIn(ch)' = IF ch[1] = p /\ Room(ch)
                                THEN FramesIn(ch) \cup {m} ELSE FramesIn(ch)
  <2>1. CASE ch[1] = p /\ Room(ch)
    <3>1. net'[ch] = Append(net[ch], m)
      BY <2>1 DEF Send
    <3> QED
      BY <1>1, <2>1, <3>1, AppendElements, AppendIndex DEF FramesIn
  <2>2. CASE ~ (ch[1] = p /\ Room(ch))
    <3>1. net'[ch] = net[ch]
      BY <2>2 DEF Send
    <3> QED
      BY <1>1, <2>2, <3>1 DEF FramesIn
  <2> QED
    BY <2>1, <2>2
<1>3. net' = [ch \in Channel |-> net'[ch]]
  BY DEF Send
<1> QED
  BY <1>2, <1>3

(* A datagram that arrives was the first of its channel. *)
LEMMA ArrivedFrames ==
  ASSUME TypeOK, NEW ch \in Channel, Arrived(ch)
  PROVE  /\ net' \in [Channel -> Seq(Message)]
         /\ Head(net[ch]) \in Message
         /\ FramesIn(ch) = FramesIn(ch)' \cup {Head(net[ch])}
         /\ \A c \in Channel \ {ch} : FramesIn(c)' = FramesIn(c)
<1>1. net \in [Channel -> Seq(Message)] /\ net[ch] \in Seq(Message)
  BY DEF TypeOK
<1>2. net[ch] # <<>> /\ net' = [net EXCEPT ![ch] = Tail(net[ch])]
  BY DEF Arrived
<1>3. Tail(net[ch]) \in Seq(Message) /\ Head(net[ch]) \in Message
  BY <1>1, <1>2, TailIndex
<1>4. net'[ch] = Tail(net[ch])
  BY <1>1, <1>2
<1>5. FramesIn(ch) = FramesIn(ch)' \cup {Head(net[ch])}
  BY <1>1, <1>2, <1>4, TailElements DEF FramesIn
<1>6. \A c \in Channel \ {ch} : FramesIn(c)' = FramesIn(c)
  BY <1>1, <1>2 DEF FramesIn
<1> QED
  BY <1>1, <1>2, <1>3, <1>5, <1>6

(* The network adds nothing of its own, and takes something only where it  *)
(* may lose.                                                               *)
LEMMA FaultFrames ==
  ASSUME TypeOK, NEW ch \in Channel, NetworkFault(ch)
  PROVE  /\ net' \in [Channel -> Seq(Message)]
         /\ \A c \in Channel : FramesIn(c)' \subseteq FramesIn(c)
         /\ "lose" \notin Faults => \A c \in Channel : FramesIn(c)' = FramesIn(c)
<1>1. net \in [Channel -> Seq(Message)] /\ net[ch] \in Seq(Message)
  BY DEF TypeOK
<1>2. net[ch] # <<>>
  BY DEF NetworkFault
<1> DEFINE t == Tail(net[ch])
           h == Head(net[ch])
<1>3. t \in Seq(Message) /\ h \in Message
  BY <1>1, <1>2, TailIndex
<1>4. FramesIn(ch) = {t[i] : i \in 1 .. Len(t)} \cup {h}
  BY <1>1, <1>2, TailElements DEF FramesIn
<1>5. PICK s \in {t, Append(net[ch], h), Append(t, h)} :
        /\ net' = [net EXCEPT ![ch] = s]
        /\ s = t => "lose" \in Faults
  BY DEF NetworkFault
<1> HIDE DEF t, h
<1>6. /\ s \in Seq(Message)
      /\ {s[i] : i \in 1 .. Len(s)} \subseteq FramesIn(ch)
      /\ s # t => {s[i] : i \in 1 .. Len(s)} = FramesIn(ch)
  <2>1. CASE s = t
    BY <2>1, <1>3, <1>4
  <2>2. CASE s = Append(net[ch], h)
    <3>1. {s[i] : i \in 1 .. Len(s)} = FramesIn(ch) \cup {h}
      BY <2>2, <1>1, <1>3, AppendElements DEF FramesIn
    <3>2. h \in FramesIn(ch)
      BY <1>4
    <3>3. s \in Seq(Message)
      BY <2>2, <1>1, <1>3, AppendIndex
    <3>4. Len(s) # Len(t)
      <4>1. Len(net[ch]) \in Nat /\ Len(t) = Len(net[ch]) - 1
        BY <1>1, <1>2, TailIndex DEF t
      <4> QED
        BY <4>1, <2>2, <1>1, <1>3, AppendIndex
    <3> QED
      BY <3>1, <3>2, <3>3, <3>4
  <2>3. CASE s = Append(t, h)
    BY <2>3, <1>3, <1>4, AppendIndex, AppendElements
  <2> QED
    BY <1>5, <2>1, <2>2, <2>3
<1>7. net'[ch] = s /\ \A c \in Channel \ {ch} : net'[c] = net[c]
  BY <1>1, <1>5
<1>8. /\ FramesIn(ch)' \subseteq FramesIn(ch)
      /\ "lose" \notin Faults => FramesIn(ch)' = FramesIn(ch)
  BY <1>5, <1>6, <1>7, ZenonT(40) DEF FramesIn
<1>9. \A c \in Channel \ {ch} : FramesIn(c)' = FramesIn(c)
  BY <1>7 DEF FramesIn
<1>10. net' \in [Channel -> Seq(Message)]
  BY <1>1, <1>5, <1>6
<1> QED
  BY <1>8, <1>9, <1>10

-----------------------------------------------------------------------------
(* Who is sending, after the step of thread a. *)
LEMMA SendingAfter ==
  ASSUME TypeOK, NEW a \in App, NEW s,
         thread' = [thread EXCEPT ![a] = s]
  PROVE  \A p \in Participant :
           Sending(p)' = IF a[1] = p /\ s.pc = "sent" THEN Sending(p) \cup {a}
                                                      ELSE Sending(p) \ {a}
BY DEF Sending, TypeOK

(* A step of a thread that neither sends nor registers. *)
LEMMA CountKept ==
  ASSUME TypeInv, NEW a \in App, NEW s, s.pc # "sent", thread[a].pc # "sent",
         thread' = [thread EXCEPT ![a] = s], UNCHANGED <<issued, nextCallId>>
  PROVE  CallsCounted'
<1>1. \A p \in Participant : Sending(p)' = Sending(p)
  BY SendingAfter DEF TypeInv, Sending
<1>2. \A p \in Participant : \A b \in Sending(p) : thread'[b] = thread[b]
  BY DEF Sending, TypeInv, TypeOK
<1> QED
  BY <1>1, <1>2 DEF TypeInv, CallsCounted

(* A step of the receiver or of the network. *)
LEMMA CountUnchanged ==
  ASSUME TypeInv, UNCHANGED <<issued, nextCallId, thread>>
  PROVE  CallsCounted'
BY DEF TypeInv, CallsCounted, Sending

(* The message of a new call. *)
CallMessage(a, method, withCallback) ==
  [method  |-> method,
   callId  |-> IF withCallback THEN nextCallId[a[1]] ELSE 0,
   request |-> <<a[1], Len(issued[a[1]]) + 1>>]

LEMMA CallTyped ==
  ASSUME TypeInv, NEW a \in App, NEW method \in Required, NEW withCallback,
         Len(issued[a[1]]) + 1 <= MaxCall
  PROVE  CallMessage(a, method, withCallback) \in Message
<1>1. a[1] \in Participant
  BY AppParticipant
<1>2. nextCallId[a[1]] \in 1 .. MaxCall + 1 /\ issued[a[1]] \in Seq(Method)
  BY <1>1 DEF TypeInv, TypeOK
<1>3. Cardinality(Sending(a[1])) \in Nat
  BY <1>1, FS_CardinalityType DEF TypeInv, CallsCounted
<1>4. nextCallId[a[1]] <= MaxCall
  BY <1>1, <1>2, <1>3, CallsAssumption DEF TypeInv, CallsCounted
<1>5. (IF withCallback THEN nextCallId[a[1]] ELSE 0) \in CallId
  BY <1>2, <1>4, CallsAssumption DEF CallId
<1>6. <<a[1], Len(issued[a[1]]) + 1>> \in Request
  BY <1>1, <1>2 DEF Request
<1> QED
  BY <1>5, <1>6, CallsAssumption DEF CallMessage, Message

LEMMA IssueTyping ==
  ASSUME TypeInv, NEW a \in Caller, NEW method \in Required,
         NEW withCallback \in BOOLEAN, IssueCall(a, method, withCallback)
  PROVE  TypeInv'
<1> DEFINE p == a[1]
           i == Len(issued[p]) + 1
           m == CallMessage(a, method, withCallback)
<1>1. a \in App /\ p \in Participant /\ method \in Method
  BY CallsAssumption, AppParticipant DEF App
<1>2. /\ thread[a].pc = "idle"
      /\ i <= MaxCall
      /\ Send(p, m)
      /\ issued' = [issued EXCEPT ![p] = Append(@, method)]
      /\ thread' = IF withCallback
                   THEN [thread EXCEPT ![a] = [pc |-> "sent", n |-> i, next |-> 0]]
                   ELSE thread
      /\ UNCHANGED <<nextCallId, callbacks, queue, log, delivered>>
  BY DEF IssueCall, CallMessage
<1>3. m \in Message
  BY <1>1, <1>2, CallTyped
<1>4. net' \in [Channel -> Seq(Message)]
  BY <1>1, <1>2, <1>3, SendFrames DEF TypeInv
<1>5. issued[p] \in Seq(Method) /\ i \in 1 .. MaxCall
  BY <1>1, <1>2, CallsAssumption DEF TypeInv, TypeOK
<1>6. /\ issued' \in [Participant -> Seq(Method)]
      /\ Len(issued'[p]) = i
      /\ \A q \in Participant \ {p} : issued'[q] = issued[q]
  BY <1>1, <1>2, <1>5, AppendIndex DEF TypeInv, TypeOK
<1>7. thread' \in [App -> ThreadState]
  BY <1>1, <1>2, <1>5 DEF TypeInv, TypeOK, ThreadState
<1>8. TypeOK'
  BY <1>2, <1>4, <1>6, <1>7 DEF TypeInv, TypeOK
<1>9. CallsCounted'
  <2>1. CASE ~ withCallback
    <3>1. \A q \in Participant : Sending(q)' = Sending(q)
      BY <2>1, <1>2 DEF Sending
    <3>2. \A q \in Participant :
            Cardinality(Sending(q)) \in Nat /\ Len(issued[q]) \in Nat
      BY FS_CardinalityType DEF TypeInv, CallsCounted, TypeOK
    <3>3. \A q \in Participant : Len(issued[q]) <= Len(issued'[q])
      BY <1>6, <1>5, <3>2
    <3>4. \A q \in Participant : Len(issued'[q]) <= MaxCall
      BY <1>6, <1>5 DEF TypeInv, CallsCounted
    <3>5. \A q \in Participant : Len(issued'[q]) \in Nat
      BY <1>6
    <3> QED
      BY <2>1, <1>2, <3>1, <3>2, <3>3, <3>4, <3>5
      DEF TypeInv, CallsCounted, TypeOK
  <2>2. CASE withCallback
    <3> DEFINE s == [pc |-> "sent", n |-> i, next |-> 0]
    <3>1. thread' = [thread EXCEPT ![a] = s]
      BY <2>2, <1>2
    <3>2. /\ Sending(p)' = Sending(p) \cup {a}
          /\ \A q \in Participant \ {p} : Sending(q)' = Sending(q) \ {a}
      <4>1. s.pc = "sent"
        OBVIOUS
      <4> HIDE DEF s
      <4>2. a \in App
        BY <1>1
      <4>3. \A q \in Participant : Sending(q)' =
              IF a[1] = q /\ s.pc = "sent" THEN Sending(q) \cup {a} ELSE Sending(q) \ {a}
        BY <3>1, <4>2, SendingAfter DEF TypeInv
      <4> QED
        BY <4>1, <4>3, <1>1
    <3>3. \A q \in Participant : a \notin Sending(q)
      BY <1>2 DEF Sending
    <3>4. \A q \in Participant \ {p} : Sending(q)' = Sending(q)
      BY <3>2, <3>3
    <3>5. /\ IsFiniteSet(Sending(p)')
          /\ Cardinality(Sending(p)') = Cardinality(Sending(p)) + 1
      BY <1>1, <3>2, <3>3, FS_AddElement DEF TypeInv, CallsCounted
    <3>6. \A q \in Participant : \A b \in Sending(q) : thread'[b] = thread[b]
      BY <3>1, <3>3 DEF TypeInv, TypeOK, Sending
    <3>7. thread'[a].n = i
      BY <3>1, <1>1 DEF TypeInv, TypeOK
    <3>8. ASSUME NEW q \in Participant \ {p}
          PROVE  CallsCounted!(q)'
      BY <3>4, <3>6, <1>6, <1>2 DEF TypeInv, CallsCounted
    <3>9. CallsCounted!(p)'
      <4>1. Cardinality(Sending(p)) \in Nat /\ nextCallId[p] \in Nat
        BY <1>1, FS_CardinalityType DEF TypeInv, CallsCounted, TypeOK
      <4>2. nextCallId'[p] + Cardinality(Sending(p)') <= Len(issued'[p]) + 1
        BY <4>1, <3>5, <1>1, <1>2, <1>6, <1>5 DEF TypeInv, CallsCounted
      <4>3. \A b \in Sending(p)' : thread'[b].n \in 1 .. Len(issued'[p])
        BY <3>2, <3>6, <3>7, <1>1, <1>5, <1>6 DEF TypeInv, CallsCounted
      <4> QED
        BY <4>2, <4>3, <3>5, <1>5, <1>6
    <3> QED
      BY <3>8, <3>9 DEF CallsCounted
  <2> QED
    BY <2>1, <2>2
<1>10. HandlersStarted'
  BY <1>2 DEF TypeInv, TypeOK, HandlersStarted, Handling
<1> QED
  BY <1>8, <1>9, <1>10 DEF TypeInv

LEMMA RegisterTyping ==
  ASSUME TypeInv, NEW a \in App, RegisterCallback(a)
  PROVE  TypeInv'
<1> DEFINE p  == a[1]
           id == nextCallId[p]
           n  == thread[a].n
<1>1. /\ thread[a].pc = "sent"
      /\ callbacks' = [callbacks EXCEPT ![p] = {b \in @ : b[1] # id} \cup {<<id, <<p, n>>>>}]
      /\ nextCallId' = [nextCallId EXCEPT ![p] = id + 1]
      /\ thread' = [thread EXCEPT ![a] = Idle]
      /\ UNCHANGED <<issued, queue, net, log, delivered>>
  BY DEF RegisterCallback, NextId
<1>2. p \in Participant /\ a \in Sending(p)
  BY <1>1, AppParticipant DEF Sending
<1>3. n \in 1 .. MaxCall
  BY <1>2, CallsAssumption DEF TypeInv, TypeOK, CallsCounted
<1>4. Cardinality(Sending(p)) \in Nat \ {0}
  BY <1>2, FS_EmptySet, FS_CardinalityType DEF TypeInv, CallsCounted
<1>5. id \in 1 .. MaxCall
  BY <1>2, <1>4, CallsAssumption DEF TypeInv, TypeOK, CallsCounted
<1>6. Idle \in ThreadState /\ Idle.pc = "idle"
  BY CallsAssumption DEF Idle, ThreadState
<1>6a. /\ nextCallId' \in [Participant -> 1 .. MaxCall + 1]
      /\ nextCallId'[p] = id + 1
      /\ \A q \in Participant \ {p} : nextCallId'[q] = nextCallId[q]
  <2>1. nextCallId \in [Participant -> 1 .. MaxCall + 1] /\ MaxCall \in Nat
    BY CallsAssumption DEF TypeInv, TypeOK
  <2>2. nextCallId' = [nextCallId EXCEPT ![p] = id + 1]
    BY <1>1
  <2> QED
    BY <1>2, <1>5, <2>1, <2>2
<1>7. TypeOK'
  <2>1. thread' \in [App -> ThreadState]
    BY <1>1, <1>6 DEF TypeInv, TypeOK
  <2>3. callbacks' \in [Participant -> SUBSET ((1 .. MaxCall) \X Request)]
    BY <1>1, <1>2, <1>3, <1>5 DEF TypeInv, TypeOK, Request
  <2> QED
    BY <1>1, <1>6a, <2>1, <2>3 DEF TypeInv, TypeOK
<1>8. \A q \in Participant : Sending(q)' = Sending(q) \ {a}
  BY <1>1, <1>6, SendingAfter DEF TypeInv
<1>9. \A q \in Participant \ {p} : a \notin Sending(q)
  BY DEF Sending
<1>10. \A q \in Participant : \A b \in Sending(q)' : thread'[b] = thread[b]
  BY <1>1, <1>8 DEF TypeInv, TypeOK, Sending
<1>11. /\ IsFiniteSet(Sending(p)')
       /\ Cardinality(Sending(p)') = Cardinality(Sending(p)) - 1
  BY <1>2, <1>8, FS_RemoveElement DEF TypeInv, CallsCounted
<1>12. CallsCounted!(p)'
  <2>1. Len(issued[p]) \in Nat
    BY <1>2 DEF TypeInv, TypeOK
  <2> QED
    BY <1>1, <1>2, <1>4, <1>5, <1>6a, <1>8, <1>10, <1>11, <2>1
    DEF TypeInv, CallsCounted
<1>13. ASSUME NEW q \in Participant \ {p}
       PROVE  CallsCounted!(q)'
  <2>1. Sending(q)' = Sending(q)
    BY <1>8, <1>9
  <2> QED
    BY <1>1, <1>6a, <1>10, <2>1 DEF TypeInv, CallsCounted
<1>14. HandlersStarted'
  BY <1>1, <1>6 DEF TypeInv, TypeOK, HandlersStarted, Handling
<1> QED
  BY <1>7, <1>12, <1>13, <1>14 DEF TypeInv, CallsCounted

(* The operation a thread is at, in handleRequests(). *)
LEMMA CurrentTyped ==
  ASSUME TypeInv, NEW a \in App, HasCurrent(a)
  PROVE  /\ a[1] \in Participant
         /\ thread[a].next \in 1 .. Len(queue[a[1]])
         /\ Current(a) \in Message
         /\ Current(a) \in Queued(a[1])
BY AppParticipant, ElementsInSet
DEF TypeInv, TypeOK, HandlersStarted, Handling, HasCurrent, Current, ThreadState, Queued

LEMMA HandlerTyping ==
  ASSUME TypeInv, NEW a \in App,
         \/ HandleBegin(a)
         \/ Execute(a)
         \/ PassOver(a)
         \/ ExecuteFails(a)
         \/ HandleEnd(a)
  PROVE  TypeInv'
<1> DEFINE p == a[1]
           onward == [thread[a] EXCEPT !.next = @ + 1]
<1>0. p \in Participant
  BY AppParticipant
<1>1. PICK s \in {Idle, [pc |-> "handling", n |-> 0, next |-> 1], onward} :
        /\ thread' = [thread EXCEPT ![a] = s]
        /\ thread[a].pc # "sent"
        /\ s = onward => HasCurrent(a)
  <2>1. thread[a].pc # "sent"
    BY DEF HandleBegin, Execute, PassOver, ExecuteFails, HandleEnd, HasCurrent
  <2>2. CASE HandleBegin(a)
    BY <2>1, <2>2 DEF HandleBegin, Idle
  <2>3. CASE Execute(a) \/ PassOver(a)
    <3>1. thread' = [thread EXCEPT ![a] = onward] /\ HasCurrent(a)
      BY <2>3 DEF Execute, PassOver
    <3> HIDE DEF onward
    <3> QED
      BY <2>1, <3>1
  <2>4. CASE ExecuteFails(a) \/ HandleEnd(a)
    <3>1. thread' = [thread EXCEPT ![a] = Idle]
      BY <2>4 DEF ExecuteFails, HandleEnd
    <3>2. Idle = onward => HasCurrent(a)
      BY <2>1, <2>4 DEF ExecuteFails, HandleEnd, Idle, TypeInv, TypeOK, ThreadState
    <3> HIDE DEF onward
    <3> QED
      BY <2>1, <3>1, <3>2
  <2> QED
    BY <2>2, <2>3, <2>4
<1>2. UNCHANGED <<issued, nextCallId>>
  BY DEF HandleBegin, Execute, PassOver, ExecuteFails, HandleEnd
<1>3. /\ s \in ThreadState
      /\ s.pc # "sent"
      /\ s.pc = "handling" => s.next # 0
  <2>1. thread[a] \in ThreadState
    BY DEF TypeInv, TypeOK
  <2>2. CASE s = Idle
    BY <2>2, CallsAssumption DEF Idle, ThreadState
  <2>3. CASE s = [pc |-> "handling", n |-> 0, next |-> 1]
    BY <2>3, CallsAssumption DEF ThreadState
  <2>4. CASE s = onward
    <3>1. /\ s.pc = thread[a].pc
          /\ s.n = thread[a].n
          /\ s.next = thread[a].next + 1
          /\ s \in ThreadState
      BY <2>1, <2>4 DEF ThreadState
    <3> QED
      BY <2>1, <3>1, <1>1 DEF ThreadState
  <2> QED
    BY <1>1, <2>2, <2>3, <2>4
<1> HIDE DEF onward
<1>4. thread' \in [App -> ThreadState]
  BY <1>1, <1>3 DEF TypeInv, TypeOK
<1>5. CallsCounted'
  BY <1>1, <1>2, <1>3, CountKept
<1>6. HandlersStarted'
  BY <1>1, <1>3 DEF TypeInv, TypeOK, HandlersStarted, Handling
<1>7. net' \in [Channel -> Seq(Message)]
  <2>1. CASE UNCHANGED net
    BY <2>1 DEF TypeInv, TypeOK
  <2>2. CASE Execute(a) /\ Current(a).callId > 0
    <3> DEFINE m == [Current(a) EXCEPT !.callId = -Current(a).callId]
    <3>1. m \in Message
      BY <2>2, CurrentTyped, CallsAssumption DEF Execute, Message, CallId
    <3>2. Send(p, m)
      BY <2>2 DEF Execute
    <3> QED
      BY <1>0, <3>1, <3>2, SendFrames DEF TypeInv
  <2> QED
    BY <2>1, <2>2 DEF HandleBegin, Execute, PassOver, ExecuteFails, HandleEnd
<1>8. log' \in [Participant -> Seq(Request)]
  <2>1. CASE UNCHANGED log
    BY <2>1 DEF TypeInv, TypeOK
  <2>2. CASE HasCurrent(a) /\ log' = [log EXCEPT ![p] = Append(@, Current(a).request)]
    <3>1. Current(a).request \in Request
      BY <2>2, CurrentTyped, MessageFields
    <3>2. Append(log[p], Current(a).request) \in Seq(Request)
      BY <3>1, <1>0, AppendIndex DEF TypeInv, TypeOK
    <3> QED
      BY <2>2, <3>2, <1>0 DEF TypeInv, TypeOK
  <2> QED
    BY <2>1, <2>2 DEF HandleBegin, Execute, PassOver, ExecuteFails, HandleEnd
<1>9. queue' \in [Participant -> Seq(Message)]
  <2>1. CASE ExecuteFails(a) \/ HandleEnd(a)
    <3>1. PICK s0 \in {queue[p], <<>>} : queue' = [queue EXCEPT ![p] = s0]
      BY <2>1 DEF ExecuteFails, HandleEnd, AfterException, Cleared
    <3>2. queue \in [Participant -> Seq(Message)]
      BY DEF TypeInv, TypeOK
    <3>3. queue[p] \in Seq(Message) /\ <<>> \in Seq(Message)
      BY <1>0, <3>2
    <3>4. s0 \in Seq(Message)
      BY <3>1, <3>3
    <3> QED
      BY <3>1, <3>2, <3>4
  <2>2. CASE UNCHANGED queue
    BY <2>2 DEF TypeInv, TypeOK
  <2> QED
    BY <2>1, <2>2 DEF HandleBegin, Execute, PassOver
<1>10. UNCHANGED <<issued, nextCallId, callbacks, delivered>>
  BY DEF HandleBegin, Execute, PassOver, ExecuteFails, HandleEnd
<1> QED
  BY <1>4, <1>5, <1>6, <1>7, <1>8, <1>9, <1>10 DEF TypeInv, TypeOK

LEMMA NetworkTyping ==
  ASSUME TypeInv, NEW ch \in Channel, Receive(ch) \/ NetworkFault(ch)
  PROVE  TypeInv'
<1> DEFINE q == ch[2]
           m == Head(net[ch])
<1>1. UNCHANGED <<issued, nextCallId, callbacks, thread, log>>
  BY DEF Receive, Enqueue, Ignore, Answer, NetworkFault
<1>2. q \in Participant /\ ch[1] \in Participant
  BY ChannelEnds
<1>3. net' \in [Channel -> Seq(Message)]
  BY ArrivedFrames, FaultFrames DEF TypeInv, Receive, Enqueue, Ignore, Answer
<1>4. Arrived(ch) => m \in Message
  BY ArrivedFrames DEF TypeInv
<1>5. queue' \in [Participant -> Seq(Message)]
  <2>1. CASE Enqueue(ch)
    <3>1. Append(queue[q], m) \in Seq(Message)
      BY <2>1, <1>2, <1>4, AppendIndex DEF Enqueue, TypeInv, TypeOK
    <3> QED
      BY <2>1, <3>1, <1>2 DEF Enqueue, TypeInv, TypeOK
  <2>2. CASE UNCHANGED queue
    BY <2>2 DEF TypeInv, TypeOK
  <2> QED
    BY <2>1, <2>2 DEF Receive, Ignore, Answer, NetworkFault
<1>6. delivered' \in [Participant -> SUBSET Invocation]
  <2>1. CASE Answer(ch)
    <3>1. CallbackOf(q, m) \subseteq Request
      BY <1>2 DEF CallbackOf, TypeInv, TypeOK
    <3>2. m.request \in Request
      BY <2>1, <1>4, MessageFields DEF Answer
    <3>3. {[callback |-> r, answer |-> m.request, by |-> ch[1]] : r \in CallbackOf(q, m)}
            \subseteq Invocation
      BY <3>1, <3>2, <1>2 DEF Invocation
    <3> QED
      BY <2>1, <3>3, <1>2 DEF Answer, TypeInv, TypeOK
  <2>2. CASE UNCHANGED delivered
    BY <2>2 DEF TypeInv, TypeOK
  <2> QED
    BY <2>1, <2>2 DEF Receive, Enqueue, Ignore, NetworkFault
<1>7. HandlersStarted'
  BY <1>1 DEF TypeInv, HandlersStarted, Handling
<1> QED
  BY <1>1, <1>3, <1>5, <1>6, <1>7, CountUnchanged DEF TypeInv, TypeOK

(* The actions, in the groups that the proofs go through. *)
LEMMA Steps ==
  ASSUME Next
  PROVE  \/ \E a \in App : \/ RegisterCallback(a)
                           \/ HandleBegin(a)
                           \/ Execute(a)
                           \/ PassOver(a)
                           \/ ExecuteFails(a)
                           \/ HandleEnd(a)
         \/ \E a \in Caller, method \in Required, withCallback \in BOOLEAN :
              IssueCall(a, method, withCallback)
         \/ \E ch \in Channel : Receive(ch) \/ NetworkFault(ch)
BY CallsAssumption DEF Next, Proceed, App

LEMMA TypeInit == Init => TypeInv
<1> SUFFICES ASSUME Init PROVE TypeInv
  OBVIOUS
<1>1. TypeOK
  BY CallsAssumption DEF Init, TypeOK, Idle, ThreadState, FirstCallId
<1>2. \A p \in Participant : Sending(p) = {}
  BY DEF Init, Sending, Idle
<1>3. CallsCounted
  <2>1. \A p \in Participant : Len(issued[p]) = 0 /\ nextCallId[p] = 1
    BY DEF Init, FirstCallId
  <2>2. ASSUME NEW p \in Participant
        PROVE  CallsCounted!(p)
    <3>1. IsFiniteSet(Sending(p)) /\ Cardinality(Sending(p)) = 0
      BY <1>2, FS_EmptySet
    <3> QED
      BY <1>2, <2>1, <3>1, CallsAssumption
  <2> QED
    BY <2>2 DEF CallsCounted
<1>4. HandlersStarted
  BY DEF Init, HandlersStarted, Handling, Idle
<1> QED
  BY <1>1, <1>3, <1>4 DEF TypeInv

LEMMA TypeStep == TypeInv /\ [Next]_vars => TypeInv'
<1> SUFFICES ASSUME TypeInv, [Next]_vars PROVE TypeInv'
  OBVIOUS
<1>1. CASE Next
  BY <1>1, Steps, IssueTyping, RegisterTyping, HandlerTyping, NetworkTyping
<1>2. CASE UNCHANGED vars
  <2>1. TypeOK'
    BY <1>2 DEF vars, TypeInv, TypeOK
  <2>2. CallsCounted'
    BY <1>2, CountUnchanged DEF vars
  <2>3. HandlersStarted'
    BY <1>2 DEF vars, TypeInv, HandlersStarted, Handling
  <2> QED
    BY <2>1, <2>2, <2>3 DEF TypeInv
<1> QED
  BY <1>1, <1>2

LEMMA TypesKept == Spec => []TypeInv
BY TypeInit, TypeStep, PTL DEF Spec

(***************************************************************************)
(* All the variables keep their types.  What has to be argued is that call *)
(* ids stay within the number of calls.                                    *)
(***************************************************************************)
THEOREM TypesHold == Spec => []TypeOK
<1>1. TypeInv => TypeOK
  BY DEF TypeInv
<1> QED
  BY <1>1, TypesKept, PTL

-----------------------------------------------------------------------------
(* What is executed at p after p has executed one more operation. *)
LEMMA ExecutedAfter ==
  ASSUME TypeOK, NEW p \in Participant, NEW r \in Request,
         log' = [log EXCEPT ![p] = Append(@, r)]
  PROVE  /\ Executed(p)' = Executed(p) \cup {r}
         /\ \A q \in Participant \ {p} : Executed(q)' = Executed(q)
<1>1. log \in [Participant -> Seq(Request)]
  BY DEF TypeOK
<1>2. log'[p] = Append(log[p], r) /\ \A q \in Participant \ {p} : log'[q] = log[q]
  BY <1>1
<1> QED
  BY <1>1, <1>2, AppendElements DEF Executed

(* What a thread executes in handleRequests(). *)
LEMMA ExecuteRecords ==
  ASSUME TypeInv, NEW a \in App, Execute(a) \/ ExecuteFails(a)
  PROVE  /\ Executed(a[1])' = Executed(a[1]) \cup {Current(a).request}
         /\ \A q \in Participant \ {a[1]} : Executed(q)' = Executed(q)
<1>1. HasCurrent(a)
  BY DEF Execute, ExecuteFails
<1>2. a[1] \in Participant /\ Current(a).request \in Request
  BY <1>1, CurrentTyped, MessageFields
<1>3. log' = [log EXCEPT ![a[1]] = Append(@, Current(a).request)]
  BY DEF Execute, ExecuteFails
<1> QED
  BY <1>2, <1>3, ExecutedAfter DEF TypeInv

(* Nothing that was executed is ever undone. *)
LEMMA ExecutedGrows ==
  ASSUME TypeInv, [Next]_vars
  PROVE  \A q \in Participant : Executed(q) \subseteq Executed(q)'
<1>1. CASE UNCHANGED log
  BY <1>1 DEF Executed
<1>2. ASSUME NEW a \in App, Execute(a) \/ ExecuteFails(a)
      PROVE  \A q \in Participant : Executed(q) \subseteq Executed(q)'
  BY <1>2, ExecuteRecords
<1>3. \/ UNCHANGED log
      \/ \E a \in App : Execute(a) \/ ExecuteFails(a)
  BY Steps DEF RegisterCallback, HandleBegin, PassOver, HandleEnd, IssueCall, Receive,
               Enqueue, Ignore, Answer, NetworkFault, vars
<1> QED
  BY <1>1, <1>2, <1>3

(* The message that carries the results. *)
AnswerTo(m) == [m EXCEPT !.callId = -m.callId]

LEMMA AnswerTyped ==
  ASSUME NEW m \in Message, m.callId > 0
  PROVE  /\ AnswerTo(m) \in Message
         /\ AnswerTo(m).callId = -m.callId
         /\ AnswerTo(m).callId < 0
         /\ AnswerTo(m).request = m.request
         /\ AnswerTo(m).method = m.method
BY CallsAssumption DEF AnswerTo, Message, CallId

(* What is in the channels after an operation ran. *)
LEMMA ExecuteSends ==
  ASSUME TypeInv, NEW a \in App, Execute(a),
         NEW ch \in Channel, NEW m \in FramesIn(ch)'
  PROVE  \/ m \in FramesIn(ch)
         \/ /\ ch[1] = a[1]
            /\ m = AnswerTo(Current(a))
            /\ Current(a).callId > 0
<1>1. a[1] \in Participant /\ Current(a) \in Message
  BY CurrentTyped DEF Execute
<1>2. CASE Current(a).callId > 0
  <2>1. Send(a[1], AnswerTo(Current(a)))
    BY <1>2 DEF Execute, AnswerTo
  <2> QED
    BY <1>1, <1>2, <2>1, AnswerTyped, SendFrames DEF TypeInv
<1>3. CASE ~ (Current(a).callId > 0)
  BY <1>3 DEF Execute, FramesIn
<1> QED
  BY <1>2, <1>3

(* What is in the channels after a call. *)
LEMMA IssueSends ==
  ASSUME TypeInv, NEW a \in Caller, NEW method \in Required,
         NEW withCallback \in BOOLEAN, IssueCall(a, method, withCallback),
         NEW ch \in Channel, NEW m \in FramesIn(ch)'
  PROVE  \/ m \in FramesIn(ch)
         \/ ch[1] = a[1] /\ m = CallMessage(a, method, withCallback)
<1>1. a \in App /\ a[1] \in Participant
  BY CallsAssumption, AppParticipant DEF App
<1>2. /\ Len(issued[a[1]]) + 1 <= MaxCall
      /\ Send(a[1], CallMessage(a, method, withCallback))
  BY DEF IssueCall, CallMessage
<1>3. CallMessage(a, method, withCallback) \in Message
  BY <1>1, <1>2, CallTyped
<1> QED
  BY <1>1, <1>2, <1>3, SendFrames DEF TypeInv

(* What is in the channels after anything else. *)
LEMMA OthersSendNothing ==
  ASSUME TypeInv, NEW ch \in Channel, NEW m \in FramesIn(ch)',
         \/ \E a \in App : \/ RegisterCallback(a)
                           \/ HandleBegin(a)
                           \/ PassOver(a)
                           \/ ExecuteFails(a)
                           \/ HandleEnd(a)
         \/ \E c \in Channel : Receive(c) \/ NetworkFault(c)
         \/ UNCHANGED vars
  PROVE  m \in FramesIn(ch)
<1>1. CASE UNCHANGED net
  BY <1>1 DEF FramesIn
<1>2. ASSUME NEW c \in Channel, Arrived(c)
      PROVE  m \in FramesIn(ch)
  BY <1>2, ArrivedFrames DEF TypeInv
<1>3. ASSUME NEW c \in Channel, NetworkFault(c)
      PROVE  m \in FramesIn(ch)
  BY <1>3, FaultFrames DEF TypeInv
<1> QED
  BY <1>1, <1>2, <1>3
  DEF RegisterCallback, HandleBegin, PassOver, ExecuteFails, HandleEnd, Receive,
      Enqueue, Ignore, Answer, vars

(* A message sent by a call expects an answer, or none; it is not one. *)
LEMMA CallIsNoAnswer ==
  ASSUME TypeInv, NEW a \in App, NEW method, NEW withCallback
  PROVE  ~ IsAnswer(CallMessage(a, method, withCallback))
<1>1. nextCallId[a[1]] \in 1 .. MaxCall + 1
  BY AppParticipant DEF TypeInv, TypeOK
<1> QED
  BY <1>1 DEF CallMessage, IsAnswer

-----------------------------------------------------------------------------
(***************************************************************************)
(* Answers come from executions: an answer is sent after the operation was *)
(* executed, the network invents none, and what is handed to a callback    *)
(* was received.                                                           *)
(***************************************************************************)
LEMMA AnswersStep ==
  ASSUME TypeInv, AnswersComeFromExecutions, [Next]_vars
  PROVE  AnswersComeFromExecutions'
<1>0. \A q \in Participant : Executed(q) \subseteq Executed(q)'
  BY ExecutedGrows
<1>1. ASSUME NEW ch \in Channel, NEW m \in FramesIn(ch)', m.callId < 0
      PROVE  m.request \in Executed(ch[1])'
  <2>1. CASE m \in FramesIn(ch)
    BY <2>1, <1>0, <1>1, ChannelEnds DEF AnswersComeFromExecutions
  <2>2. ASSUME NEW a \in App, Execute(a), m \notin FramesIn(ch)
        PROVE  m.request \in Executed(ch[1])'
    <3>1. ch[1] = a[1] /\ m = AnswerTo(Current(a)) /\ Current(a).callId > 0
      BY <2>2, ExecuteSends
    <3>2. m.request = Current(a).request
      BY <2>2, <3>1, CurrentTyped, AnswerTyped DEF Execute
    <3> QED
      BY <2>2, <3>1, <3>2, ExecuteRecords
  <2>3. ASSUME NEW a \in Caller, NEW method \in Required, NEW withCallback \in BOOLEAN,
               IssueCall(a, method, withCallback)
        PROVE  m \in FramesIn(ch)
    <3>1. a \in App
      BY CallsAssumption DEF App
    <3> QED
      BY <2>3, <3>1, <1>1, IssueSends, CallIsNoAnswer DEF IsAnswer
  <2> QED
    BY <2>1, <2>2, <2>3, Steps, OthersSendNothing
<1>2. ASSUME NEW q \in Participant, NEW d \in delivered'[q]
      PROVE  d.answer \in Executed(d.by)'
  <2>0. \A e \in delivered[q] : e.by \in Participant
    BY DEF TypeInv, TypeOK, Invocation
  <2>1. CASE d \in delivered[q]
    BY <2>0, <2>1, <1>0, <1>2 DEF AnswersComeFromExecutions
  <2>2. ASSUME NEW ch \in Channel, Answer(ch), d \notin delivered[q]
        PROVE  d.answer \in Executed(d.by)'
    <3> DEFINE m == Head(net[ch])
    <3>1. /\ m \in FramesIn(ch)
          /\ m.callId < 0
      BY <2>2, ArrivedFrames DEF Answer, IsAnswer, TypeInv
    <3>2. ch[1] \in Participant /\ ch[2] \in Participant
      BY ChannelEnds
    <3>3. d.answer = m.request /\ d.by = ch[1]
      BY <2>2, <3>2, <1>2 DEF Answer, TypeInv, TypeOK
    <3> QED
      BY <3>1, <3>2, <3>3, <1>0 DEF AnswersComeFromExecutions
  <2>3. \/ UNCHANGED delivered
        \/ \E ch \in Channel : Answer(ch)
    BY Steps DEF RegisterCallback, HandleBegin, Execute, PassOver, ExecuteFails, HandleEnd,
                 IssueCall, Receive, Enqueue, Ignore, NetworkFault, vars
  <2> QED
    BY <2>1, <2>2, <2>3, <1>2
<1> QED
  BY <1>1, <1>2 DEF AnswersComeFromExecutions

(***************************************************************************)
(* Whatever the network does and the operations throw, an answer in flight *)
(* or handed to a callback comes from a participant that has executed the  *)
(* request.                                                                *)
(***************************************************************************)
THEOREM AnswersAreReal == Spec => []AnswersComeFromExecutions
<1>1. Init => AnswersComeFromExecutions
  BY DEF Init, AnswersComeFromExecutions, FramesIn
<1> QED
  BY <1>1, TypesKept, AnswersStep, PTL DEF Spec

-----------------------------------------------------------------------------
(* The calls issued are kept, and one of them may be added. *)
LEMMA IssuedGrows ==
  ASSUME TypeInv, [Next]_vars, NEW p \in Participant
  PROVE  /\ Len(issued[p]) \in Nat
         /\ Len(issued'[p]) \in Nat
         /\ Len(issued[p]) <= Len(issued'[p])
         /\ \A i \in 1 .. Len(issued[p]) : issued'[p][i] = issued[p][i]
<1>1. issued \in [Participant -> Seq(Method)]
  BY DEF TypeInv, TypeOK
<1>2. CASE UNCHANGED issued
  BY <1>1, <1>2
<1>3. ASSUME NEW a \in Caller, NEW method \in Required, NEW withCallback \in BOOLEAN,
             IssueCall(a, method, withCallback)
      PROVE  issued' = [issued EXCEPT ![a[1]] = Append(@, method)] /\ method \in Method
  BY <1>3, CallsAssumption DEF IssueCall
<1>4. \/ UNCHANGED issued
      \/ \E q \in Participant, method \in Method :
           issued' = [issued EXCEPT ![q] = Append(@, method)]
  <2>1. \A a \in Caller : a[1] \in Participant
    BY CallsAssumption
  <2>2. \/ UNCHANGED issued
        \/ \E a \in Caller, method \in Required, withCallback \in BOOLEAN :
             IssueCall(a, method, withCallback)
    BY Steps DEF RegisterCallback, HandleBegin, Execute, PassOver, ExecuteFails,
                 HandleEnd, Receive, Enqueue, Ignore, Answer, NetworkFault, vars
  <2> QED
    BY <1>3, <2>1, <2>2
<1>5. ASSUME NEW q \in Participant, NEW method \in Method,
             issued' = [issued EXCEPT ![q] = Append(@, method)]
      PROVE  issued'[p] = IF p = q THEN Append(issued[p], method) ELSE issued[p]
  BY <1>1, <1>5
<1> QED
  BY <1>1, <1>2, <1>4, <1>5, AppendIndex

(* So what carries an issued call always will. *)
LEMMA GenuineKept ==
  ASSUME TypeInv, [Next]_vars, NEW m \in Message, Genuine(m)
  PROVE  Genuine(m)'
BY MessageFields, IssuedGrows DEF Genuine

(* A call carries itself. *)
LEMMA CallIsGenuine ==
  ASSUME TypeInv, NEW a \in Caller, NEW method \in Required,
         NEW withCallback \in BOOLEAN, IssueCall(a, method, withCallback),
         NEW m, m = CallMessage(a, method, withCallback)
  PROVE  Genuine(m)'
<1>1. a[1] \in Participant
  BY CallsAssumption
<1>2. /\ issued[a[1]] \in Seq(Method) /\ method \in Method
      /\ issued'[a[1]] = Append(issued[a[1]], method)
  BY <1>1, CallsAssumption DEF IssueCall, TypeInv, TypeOK
<1>3. /\ Len(issued'[a[1]]) = Len(issued[a[1]]) + 1
      /\ issued'[a[1]][Len(issued[a[1]]) + 1] = method
      /\ Len(issued[a[1]]) \in Nat
  BY <1>2, AppendIndex
<1>4. /\ m.method = method
      /\ m.request[1] = a[1]
      /\ m.request[2] = Len(issued[a[1]]) + 1
  BY DEF CallMessage
<1> QED
  BY <1>3, <1>4 DEF Genuine

(* What is queued after a step: what was, or the message that arrived. *)
LEMMA QueuedAfter ==
  ASSUME TypeInv, [Next]_vars, NEW q \in Participant, NEW m \in Queued(q)'
  PROVE  \/ m \in Queued(q)
         \/ \E ch \in Channel : /\ ch[2] = q
                                /\ m \in FramesIn(ch)
                                /\ Enqueue(ch)
                                /\ m = Head(net[ch])
<1>1. queue \in [Participant -> Seq(Message)]
  BY DEF TypeInv, TypeOK
<1>2. CASE UNCHANGED queue
  BY <1>2 DEF Queued
<1>3. ASSUME NEW a \in App, ExecuteFails(a) \/ HandleEnd(a)
      PROVE  m \in Queued(q)
  <2>1. queue'[q] = queue[q] \/ queue'[q] = <<>>
    <3>1. PICK s \in {queue[a[1]], <<>>} : queue' = [queue EXCEPT ![a[1]] = s]
      BY <1>3 DEF ExecuteFails, HandleEnd, AfterException, Cleared
    <3> QED
      BY <3>1, <1>1
  <2> QED
    BY <2>1 DEF Queued
<1>4. ASSUME NEW ch \in Channel, Enqueue(ch), m \notin Queued(q)
      PROVE  ch[2] = q /\ m \in FramesIn(ch) /\ m = Head(net[ch])
  <2> DEFINE h == Head(net[ch])
  <2>1. h \in Message /\ h \in FramesIn(ch)
    BY <1>4, ArrivedFrames DEF TypeInv, Enqueue
  <2>2. ch[2] \in Participant
    BY ChannelEnds
  <2>3. queue'[q] = IF q = ch[2] THEN Append(queue[q], h) ELSE queue[q]
    BY <1>1, <1>4, <2>2 DEF Enqueue
  <2>4. q = ch[2]
    BY <1>4, <2>3 DEF Queued
  <2> HIDE DEF h
  <2>5. Queued(q)' = Queued(q) \cup {h}
    BY <1>1, <2>1, <2>3, <2>4, AppendElements DEF Queued
  <2> QED
    BY <1>4, <2>1, <2>4, <2>5 DEF h
<1>5. \/ UNCHANGED queue
      \/ \E a \in App : ExecuteFails(a) \/ HandleEnd(a)
      \/ \E ch \in Channel : Enqueue(ch)
  BY Steps DEF RegisterCallback, HandleBegin, Execute, PassOver, IssueCall, Receive,
               Ignore, Answer, NetworkFault, vars
<1> QED
  BY <1>2, <1>3, <1>4, <1>5

(* Messages carry issued calls, on the channels and in the queues where    *)
(* they belong.                                                            *)
LEMMA GenuineStep ==
  ASSUME TypeInv, MessagesGenuine, [Next]_vars
  PROVE  MessagesGenuine'
<1>1. ASSUME NEW ch \in Channel, NEW m \in FramesIn(ch)'
      PROVE  Genuine(m)' /\ Routed(ch, m)
  <2>1. CASE m \in FramesIn(ch)
    <3>1. m \in Message
      BY <2>1, FramesAreMessages DEF TypeInv
    <3> QED
      BY <2>1, <3>1, GenuineKept DEF MessagesGenuine
  <2>2. ASSUME NEW a \in App, Execute(a), m \notin FramesIn(ch)
        PROVE  Genuine(m)' /\ Routed(ch, m)
    <3>1. ch[1] = a[1] /\ m = AnswerTo(Current(a)) /\ Current(a).callId > 0
      BY <2>2, ExecuteSends
    <3>2. a[1] \in Participant /\ Current(a) \in Queued(a[1]) /\ Current(a) \in Message
      BY <2>2, CurrentTyped DEF Execute
    <3>3. /\ m \in Message /\ IsAnswer(m)
          /\ m.request = Current(a).request /\ m.method = Current(a).method
      BY <3>1, <3>2, AnswerTyped DEF IsAnswer
    <3>4. Genuine(m) /\ m.request[1] # ch[1]
      BY <3>1, <3>2, <3>3 DEF MessagesGenuine, Genuine
    <3> QED
      BY <3>3, <3>4, GenuineKept DEF Routed
  <2>3. ASSUME NEW a \in Caller, NEW method \in Required, NEW withCallback \in BOOLEAN,
               IssueCall(a, method, withCallback), m \notin FramesIn(ch)
        PROVE  Genuine(m)' /\ Routed(ch, m)
    <3>1. a \in App
      BY CallsAssumption DEF App
    <3>2. ch[1] = a[1] /\ m = CallMessage(a, method, withCallback)
      BY <2>3, IssueSends
    <3>3. ~ IsAnswer(m) /\ m.request[1] = ch[1]
      BY <3>1, <3>2, CallIsNoAnswer DEF CallMessage
    <3> QED
      BY <2>3, <3>2, <3>3, CallIsGenuine DEF Routed
  <2> QED
    BY <2>1, <2>2, <2>3, Steps, OthersSendNothing
<1>2. ASSUME NEW q \in Participant, NEW m \in Queued(q)'
      PROVE  Genuine(m)' /\ ~ IsAnswer(m) /\ m.request[1] # q
  <2>1. CASE m \in Queued(q)
    <3>1. m \in Message
      BY <2>1, FramesAreMessages DEF TypeInv
    <3> QED
      BY <2>1, <3>1, GenuineKept DEF MessagesGenuine
  <2>2. ASSUME NEW ch \in Channel, ch[2] = q, m \in FramesIn(ch), Enqueue(ch),
               m = Head(net[ch])
        PROVE  Genuine(m)' /\ ~ IsAnswer(m) /\ m.request[1] # q
    <3>1. m \in Message
      BY <2>2, FramesAreMessages DEF TypeInv
    <3>2. ~ IsAnswer(m) /\ ch[1] # ch[2]
      BY <2>2, ChannelEnds DEF Enqueue
    <3> QED
      BY <2>2, <3>1, <3>2, GenuineKept DEF MessagesGenuine, Routed
  <2> QED
    BY <2>1, <2>2, QueuedAfter
<1> QED
  BY <1>1, <1>2 DEF MessagesGenuine, Routed, IsAnswer

(* The monitor of the queues admits one thread. *)
LEMMA OneHandlerStep ==
  ASSUME TypeInv, OneHandler, [Next]_vars
  PROVE  OneHandler'
<1>1. thread \in [App -> ThreadState]
  BY DEF TypeInv, TypeOK
<1>2. ASSUME NEW a \in App, thread' # thread, ~ HandleBegin(a),
             \/ RegisterCallback(a)
             \/ Execute(a)
             \/ PassOver(a)
             \/ ExecuteFails(a)
             \/ HandleEnd(a)
      PROVE  \A b \in App : Handling(b)' => Handling(b)
  BY <1>1, <1>2 DEF RegisterCallback, Execute, PassOver, ExecuteFails, HandleEnd,
                    Idle, Handling, HasCurrent
<1>3. ASSUME NEW a \in Caller, NEW method \in Required, NEW withCallback \in BOOLEAN,
             IssueCall(a, method, withCallback)
      PROVE  \A b \in App : Handling(b)' => Handling(b)
  BY <1>1, <1>3 DEF IssueCall, Handling
<1>4. ASSUME NEW a \in App, HandleBegin(a)
      PROVE  OneHandler'
  <2>1. \A b \in App : b[1] = a[1] => ~ Handling(b)
    BY <1>4 DEF HandleBegin, QueuesLocked, Handling
  <2>2. \A b \in App \ {a} : Handling(b)' <=> Handling(b)
    BY <1>1, <1>4 DEF HandleBegin, Handling
  <2> QED
    BY <2>1, <2>2 DEF OneHandler
<1>5. \/ thread' = thread
      \/ \E a \in App : \/ RegisterCallback(a)
                        \/ HandleBegin(a)
                        \/ Execute(a)
                        \/ PassOver(a)
                        \/ ExecuteFails(a)
                        \/ HandleEnd(a)
      \/ \E a \in Caller, method \in Required, withCallback \in BOOLEAN :
           IssueCall(a, method, withCallback)
  BY Steps DEF Receive, Enqueue, Ignore, Answer, NetworkFault, vars
<1>6. (\A b \in App : Handling(b)' => Handling(b)) => OneHandler'
  BY DEF OneHandler
<1>7. thread' = thread => OneHandler'
  BY DEF OneHandler, Handling
<1> QED
  BY <1>2, <1>3, <1>4, <1>5, <1>6, <1>7

-----------------------------------------------------------------------------
(* A queue is disturbed by its own handler, or by a receiver that holds    *)
(* its monitor.                                                            *)
LEMMA QueueKept ==
  ASSUME TypeInv, [Next]_vars, NEW q \in Participant
  PROVE  \/ queue'[q] = queue[q]
         \/ \E a \in App : a[1] = q /\ HandleEnd(a) /\ queue'[q] = <<>>
         \/ \E ch \in Channel : /\ ch[2] = q /\ Enqueue(ch) /\ ~ QueuesLocked(q)
                                /\ Head(net[ch]) \in Message
                                /\ queue'[q] = Append(queue[q], Head(net[ch]))
<1>1. queue \in [Participant -> Seq(Message)]
  BY DEF TypeInv, TypeOK
<1>2. ASSUME NEW a \in App, HandleEnd(a)
      PROVE  queue'[q] = IF a[1] = q THEN <<>> ELSE queue[q]
  BY <1>1, <1>2 DEF HandleEnd, Cleared
<1>3. ASSUME NEW a \in App, ExecuteFails(a)
      PROVE  queue'[q] = queue[q]
  BY <1>1, <1>3 DEF ExecuteFails, AfterException
<1>4. ASSUME NEW ch \in Channel, Enqueue(ch)
      PROVE  /\ queue'[q] = IF ch[2] = q THEN Append(queue[q], Head(net[ch])) ELSE queue[q]
             /\ Head(net[ch]) \in Message
             /\ ~ QueuesLocked(ch[2])
  BY <1>1, <1>4, ArrivedFrames DEF Enqueue, TypeInv
<1>5. \/ UNCHANGED queue
      \/ \E a \in App : ExecuteFails(a) \/ HandleEnd(a)
      \/ \E ch \in Channel : Enqueue(ch)
  BY Steps DEF RegisterCallback, HandleBegin, Execute, PassOver, IssueCall, Receive,
               Ignore, Answer, NetworkFault, vars
<1> QED
  BY <1>2, <1>3, <1>4, <1>5

(* A handler moves on over an operation that it has executed or that it    *)
(* cannot execute.                                                         *)
LEMMA HandlerMoves ==
  ASSUME TypeInv, [Next]_vars, NEW a \in App, Handling(a)'
  PROVE  \/ thread'[a] = thread[a]
         \/ thread'[a].next = 1
         \/ /\ HasCurrent(a)
            /\ thread'[a].next = thread[a].next + 1
            /\ Execute(a) \/ (PassOver(a) /\ ~ Due(a[1], Current(a)))
<1>1. thread \in [App -> ThreadState]
  BY DEF TypeInv, TypeOK
<1>2. ASSUME NEW b \in App, RegisterCallback(b) \/ HandleBegin(b) \/ ExecuteFails(b) \/ HandleEnd(b)
      PROVE  thread'[a] = thread[a] \/ thread'[a].next = 1
  <2>1. PICK s \in {Idle, [pc |-> "handling", n |-> 0, next |-> 1]} :
          thread' = [thread EXCEPT ![b] = s]
    BY <1>2 DEF RegisterCallback, HandleBegin, ExecuteFails, HandleEnd
  <2> QED
    BY <1>1, <2>1 DEF Handling, Idle
<1>3. ASSUME NEW b \in App, Execute(b) \/ PassOver(b), b # a
      PROVE  thread'[a] = thread[a]
  BY <1>1, <1>3 DEF Execute, PassOver
<1>4. ASSUME Execute(a) \/ PassOver(a)
      PROVE  /\ HasCurrent(a)
             /\ thread'[a].next = thread[a].next + 1
             /\ Execute(a) \/ (PassOver(a) /\ ~ Due(a[1], Current(a)))
  BY <1>1, <1>4 DEF Execute, PassOver, ThreadState, Due
<1>5. ASSUME NEW b \in Caller, NEW method \in Required, NEW withCallback \in BOOLEAN,
             IssueCall(b, method, withCallback)
      PROVE  thread'[a] = thread[a]
  BY <1>1, <1>5 DEF IssueCall, Handling
<1>6. thread' = thread => thread'[a] = thread[a]
  OBVIOUS
<1>7. \/ thread' = thread
      \/ \E b \in App : \/ RegisterCallback(b)
                        \/ HandleBegin(b)
                        \/ Execute(b)
                        \/ PassOver(b)
                        \/ ExecuteFails(b)
                        \/ HandleEnd(b)
      \/ \E b \in Caller, method \in Required, withCallback \in BOOLEAN :
           IssueCall(b, method, withCallback)
  BY Steps DEF Receive, Enqueue, Ignore, Answer, NetworkFault, vars
<1> QED
  BY <1>2, <1>3, <1>4, <1>5, <1>6, <1>7

(* What the handler of a queue has passed was executed, if it could be.    *)
LEMMA PassedStep ==
  ASSUME TypeInv, OneHandler, PassedAreExecuted, [Next]_vars
  PROVE  PassedAreExecuted'
<1> SUFFICES ASSUME NEW a \in App, Handling(a)'
             PROVE  PassedAreExecuted!(a)!2'
  BY DEF PassedAreExecuted
<1> DEFINE q == a[1]
<1>1. q \in Participant /\ thread[a] \in ThreadState /\ queue[q] \in Seq(Message)
  BY AppParticipant DEF TypeInv, TypeOK
<1>2. Executed(q) \subseteq Executed(q)'
  BY <1>1, ExecutedGrows
<1>3. CASE thread'[a].next = 1
  <2>1. queue'[q] \in Seq(Message)
    BY <1>1, TypeStep DEF TypeInv, TypeOK
  <2> QED
    BY <1>3, <2>1
<1>4. CASE Handling(a) /\ thread'[a].next # 1
  <2>1. \A b \in App : b[1] = q /\ Handling(b) => b = a
    BY <1>4 DEF OneHandler
  <2>2. ~ HandleEnd(a)
    <3>1. HandleEnd(a) => thread'[a] = Idle
      BY DEF HandleEnd, TypeInv, TypeOK
    <3> QED
      BY <3>1 DEF Handling, Idle
  <2>3. queue'[q] = queue[q]
    <3>1. QueuesLocked(q)
      BY <1>4 DEF QueuesLocked, Handling
    <3>2. \A b \in App : HandleEnd(b) => Handling(b)
      BY DEF HandleEnd, Handling
    <3> QED
      BY <1>1, <2>1, <2>2, <3>1, <3>2, QueueKept
  <2>4. CASE thread'[a] = thread[a]
    BY <1>2, <1>4, <2>3, <2>4 DEF PassedAreExecuted
  <2>5. CASE /\ HasCurrent(a)
             /\ thread'[a].next = thread[a].next + 1
             /\ Execute(a) \/ (PassOver(a) /\ ~ Due(q, Current(a)))
    <3>1. Due(q, Current(a)) => Current(a).request \in Executed(q)'
      BY <2>5, ExecuteRecords
    <3>2. thread[a].next \in 1 .. Len(queue[q])
      BY <2>5, CurrentTyped
    <3>3. \A i \in 1 .. Len(queue[q]) :
            i < thread'[a].next /\ Due(q, queue[q][i]) => queue[q][i].request \in Executed(q)'
      BY <1>2, <1>4, <2>5, <3>1, <3>2 DEF PassedAreExecuted, Current
    <3> QED
      BY <1>1, <2>3, <2>5, <3>2, <3>3 DEF Due
  <2> QED
    BY <1>4, <2>4, <2>5, HandlerMoves
<1>5. CASE ~ Handling(a) /\ thread'[a].next # 1
  BY <1>5, HandlerMoves DEF HasCurrent, Handling
<1> QED
  BY <1>3, <1>4, <1>5

(***************************************************************************)
(* Where the network loses nothing, what is in a channel stays there until *)
(* it arrives at the other end.                                            *)
(***************************************************************************)
LEMMA FramesStay ==
  ASSUME TypeInv, "lose" \notin Faults, [Next]_vars,
         NEW ch \in Channel, NEW m \in FramesIn(ch)
  PROVE  \/ m \in FramesIn(ch)'
         \/ m = Head(net[ch]) /\ (Enqueue(ch) \/ Ignore(ch) \/ Answer(ch))
<1>1. CASE UNCHANGED net
  BY <1>1 DEF FramesIn
<1>2. ASSUME NEW p \in Participant, NEW n \in Message, Send(p, n)
      PROVE  m \in FramesIn(ch)'
  BY <1>2, SendFrames DEF TypeInv
<1>3. ASSUME NEW c \in Channel, NetworkFault(c)
      PROVE  m \in FramesIn(ch)'
  BY <1>3, FaultFrames DEF TypeInv
<1>4. ASSUME NEW c \in Channel, Receive(c)
      PROVE  \/ m \in FramesIn(ch)'
             \/ m = Head(net[ch]) /\ (Enqueue(ch) \/ Ignore(ch) \/ Answer(ch))
  BY <1>4, ArrivedFrames DEF TypeInv, Receive, Enqueue, Ignore, Answer
<1>5. ASSUME NEW a \in App, Execute(a), ~ UNCHANGED net
      PROVE  \E p \in Participant, n \in Message : Send(p, n)
  <2>1. Current(a) \in Message /\ a[1] \in Participant
    BY <1>5, CurrentTyped DEF Execute
  <2>2. Current(a).callId > 0 /\ Send(a[1], AnswerTo(Current(a)))
    BY <1>5 DEF Execute, AnswerTo
  <2> QED
    BY <2>1, <2>2, AnswerTyped
<1>6. ASSUME NEW a \in Caller, NEW method \in Required, NEW withCallback \in BOOLEAN,
             IssueCall(a, method, withCallback)
      PROVE  \E p \in Participant, n \in Message : Send(p, n)
  <2>1. a \in App /\ a[1] \in Participant
    BY CallsAssumption, AppParticipant DEF App
  <2>2. /\ Len(issued[a[1]]) + 1 <= MaxCall
        /\ Send(a[1], CallMessage(a, method, withCallback))
    BY <1>6 DEF IssueCall, CallMessage
  <2> QED
    BY <2>1, <2>2, CallTyped
<1>7. \/ UNCHANGED net
      \/ \E a \in App : Execute(a)
      \/ \E a \in Caller, method \in Required, withCallback \in BOOLEAN :
           IssueCall(a, method, withCallback)
      \/ \E c \in Channel : Receive(c) \/ NetworkFault(c)
  BY Steps DEF RegisterCallback, HandleBegin, PassOver, ExecuteFails, HandleEnd, vars
<1> QED
  BY <1>1, <1>2, <1>3, <1>4, <1>5, <1>6, <1>7

(* And a call goes to every peer. *)
LEMMA IssueReaches ==
  ASSUME TypeInv, "lose" \notin Faults, NEW a \in Caller, NEW method \in Required,
         NEW withCallback \in BOOLEAN, IssueCall(a, method, withCallback),
         NEW ch \in Channel, ch[1] = a[1]
  PROVE  CallMessage(a, method, withCallback) \in FramesIn(ch)'
<1>1. a \in App /\ a[1] \in Participant
  BY CallsAssumption, AppParticipant DEF App
<1>2. /\ Len(issued[a[1]]) + 1 <= MaxCall
      /\ Send(a[1], CallMessage(a, method, withCallback))
      /\ CanSend(a[1])
  BY DEF IssueCall, CallMessage
<1>3. CallMessage(a, method, withCallback) \in Message
  BY <1>1, <1>2, CallTyped
<1>4. Room(ch)
  BY <1>2 DEF CanSend
<1> QED
  BY <1>1, <1>2, <1>3, <1>4, SendFrames DEF TypeInv

(* A call that a peer can execute is accepted there, and is then due. *)
LEMMA WantedIsDue ==
  ASSUME NEW q \in Participant, NEW m \in Message,
         m.method \in Implemented[q] \cap (Provided[q] \X Operation)
  PROVE  Due(q, m) /\ Accepted(q, m)
BY CallsAssumption DEF Due, Accepted

ForgetInv == MessagesGenuine /\ OneHandler /\ PassedAreExecuted /\ CallNeverForgotten

(***************************************************************************)
(* A call leaves a channel for the queue at its end, and the queue when it *)
(* was executed.                                                           *)
(***************************************************************************)
LEMMA ForgottenStep ==
  ASSUME TypeInv, ForgetInv, "lose" \notin Faults, [Next]_vars
  PROVE  CallNeverForgotten'
<1> SUFFICES ASSUME NEW p \in Participant, NEW q \in Participant,
                    NEW i \in 1 .. Len(issued'[p]), p # q,
                    issued'[p][i] \in Implemented[q] \cap (Provided[q] \X Operation)
             PROVE  <<p, i>> \in Pending(p, q)' \cup Executed(q)'
  BY DEF CallNeverForgotten
<1> DEFINE ch == <<p, q>>
<1>1. ch \in Channel /\ ch[1] = p /\ ch[2] = q
  BY DEF Channel
<1>2. Executed(q) \subseteq Executed(q)'
  BY ExecutedGrows
<1>3. /\ Len(issued[p]) \in Nat
      /\ \A j \in 1 .. Len(issued[p]) : issued'[p][j] = issued[p][j]
  BY IssuedGrows
<1>4. CASE i > Len(issued[p])
  <2>1. PICK a \in Caller, method \in Required, withCallback \in BOOLEAN :
          IssueCall(a, method, withCallback)
    <3>1. issued' # issued
      BY <1>3, <1>4
    <3> QED
      BY <3>1, Steps DEF RegisterCallback, HandleBegin, Execute, PassOver, ExecuteFails,
         HandleEnd, Receive, Enqueue, Ignore, Answer, NetworkFault, vars
  <2> DEFINE m == CallMessage(a, method, withCallback)
  <2>2. a[1] = p /\ i = Len(issued[p]) + 1
    <3>1. a[1] \in Participant /\ method \in Method
      BY CallsAssumption
    <3>2. issued' = [issued EXCEPT ![a[1]] = Append(@, method)]
      BY <2>1 DEF IssueCall
    <3>3. issued \in [Participant -> Seq(Method)]
      BY DEF TypeInv, TypeOK
    <3>4. a[1] = p
      BY <1>4, <3>2, <3>3
    <3>5. Len(issued'[p]) = Len(issued[p]) + 1
      BY <3>1, <3>2, <3>3, <3>4, AppendIndex
    <3> QED
      BY <1>3, <1>4, <3>4, <3>5
  <2>3. m.request = <<p, i>>
    BY <2>2 DEF CallMessage
  <2>4. m \in FramesIn(ch)'
    BY <1>1, <2>1, <2>2, IssueReaches
  <2> HIDE DEF m
  <2> QED
    BY <2>3, <2>4 DEF Pending
<1>5. CASE <<p, i>> \in Executed(q)
  BY <1>2, <1>5
<1>6. ASSUME NEW m \in FramesIn(ch), m.request = <<p, i>>, i \in 1 .. Len(issued[p])
      PROVE  <<p, i>> \in Pending(p, q)' \cup Executed(q)'
  <2>1. m \in Message /\ Genuine(m) /\ Routed(ch, m)
    BY <1>1, FramesAreMessages DEF TypeInv, ForgetInv, MessagesGenuine
  <2>2. m.method \in Implemented[q] \cap (Provided[q] \X Operation) /\ ~ IsAnswer(m)
    BY <1>1, <1>3, <1>6, <2>1 DEF Genuine, Routed
  <2>3. Accepted(q, m)
    BY <2>1, <2>2, WantedIsDue
  <2>4. CASE m \in FramesIn(ch)'
    BY <1>6, <2>4 DEF Pending
  <2>5. CASE m = Head(net[ch]) /\ Enqueue(ch)
    <3>1. queue[q] \in Seq(Message) /\ queue'[q] = Append(queue[q], m)
      BY <1>1, <2>5 DEF Enqueue, TypeInv, TypeOK
    <3>2. m \in Queued(q)'
      BY <2>1, <3>1, AppendElements DEF Queued
    <3> QED
      BY <1>6, <3>2 DEF Pending
  <2>6. ~ (m = Head(net[ch]) /\ (Ignore(ch) \/ Answer(ch)))
    BY <1>1, <2>2, <2>3 DEF Ignore, Answer
  <2> QED
    BY <1>1, <2>4, <2>5, <2>6, FramesStay
<1>7. ASSUME NEW m \in Queued(q), m.request = <<p, i>>, i \in 1 .. Len(issued[p])
      PROVE  <<p, i>> \in Pending(p, q)' \cup Executed(q)'
  <2>1. m \in Message /\ Genuine(m)
    BY FramesAreMessages DEF TypeInv, ForgetInv, MessagesGenuine
  <2>2. Due(q, m)
    BY <1>3, <1>7, <2>1, WantedIsDue DEF Genuine
  <2>3. queue[q] \in Seq(Message)
    BY DEF TypeInv, TypeOK
  <2>4. CASE queue'[q] = queue[q]
    BY <1>7, <2>4 DEF Pending, Queued
  <2>5. ASSUME NEW c \in Channel, Head(net[c]) \in Message,
               queue'[q] = Append(queue[q], Head(net[c]))
        PROVE  <<p, i>> \in Pending(p, q)' \cup Executed(q)'
    <3>1. m \in Queued(q)'
      BY <2>3, <2>5, AppendElements DEF Queued
    <3> QED
      BY <1>7, <3>1 DEF Pending
  <2>6. ASSUME NEW a \in App, a[1] = q, HandleEnd(a)
        PROVE  <<p, i>> \in Executed(q)
    <3>1. PICK j \in 1 .. Len(queue[q]) : m = queue[q][j]
      BY DEF Queued
    <3>2. Handling(a) /\ j < thread[a].next
      <4>1. thread[a].next \in Nat /\ thread[a].next > Len(queue[q])
        BY <2>6 DEF HandleEnd, TypeInv, TypeOK, ThreadState
      <4> QED
        BY <2>3, <2>6, <3>1, <4>1 DEF HandleEnd, Handling
    <3> QED
      BY <1>7, <2>2, <2>6, <3>1, <3>2 DEF ForgetInv, PassedAreExecuted
  <2> QED
    BY <1>2, <2>4, <2>5, <2>6, QueueKept
<1>8. i <= Len(issued[p]) => <<p, i>> \in Pending(p, q) \cup Executed(q)
  BY <1>3 DEF ForgetInv, CallNeverForgotten
<1> QED
  BY <1>3, <1>4, <1>5, <1>6, <1>7, <1>8 DEF Pending

LEMMA ForgetInit == Init => ForgetInv
<1> SUFFICES ASSUME Init PROVE ForgetInv
  OBVIOUS
<1>1. \A a \in App : ~ Handling(a)
  BY DEF Init, Idle, Handling
<1>2. /\ \A ch \in Channel : FramesIn(ch) = {}
      /\ \A q \in Participant : Queued(q) = {}
      /\ \A p \in Participant : Len(issued[p]) = 0
  BY DEF Init, FramesIn, Queued
<1> QED
  BY <1>1, <1>2
  DEF ForgetInv, MessagesGenuine, OneHandler, PassedAreExecuted, CallNeverForgotten

(***************************************************************************)
(* Where the network loses nothing, whatever else it does and the          *)
(* operations throw, every call of an operation that a peer provides is in *)
(* flight to it, in its queue, or executed.                                *)
(***************************************************************************)
THEOREM NoCallIsForgotten ==
  ASSUME "lose" \notin Faults
  PROVE  Spec => []CallNeverForgotten
<1>1. TypeInv /\ ForgetInv /\ [Next]_vars => ForgetInv'
  BY ForgottenStep, GenuineStep, OneHandlerStep, PassedStep DEF ForgetInv
<1>2. ForgetInv => CallNeverForgotten
  BY DEF ForgetInv
<1> QED
  BY <1>1, <1>2, ForgetInit, TypesKept, PTL DEF Spec

-----------------------------------------------------------------------------
(***************************************************************************)
(* The code looks a callback up by the call id, which is only unique among *)
(* the calls of one participant, and takes the id in two steps.  So that   *)
(* the callback found is the right one, there must be no third participant *)
(* to see the answer, and no second thread to take the same id.            *)
(***************************************************************************)
TwoAtMost == \A p, q, r \in Participant : p = q \/ q = r \/ p = r

OneCaller == \A a, b \in Caller : a[1] = b[1] => a = b

SendersAreCallers == \A a \in App : thread[a].pc = "sent" => a \in Caller

CallbackInv ==
  MessagesGenuine /\ SendersAreCallers /\ CallbacksKept /\ CallbackGetsOwnAnswer

(* A caller that has sent its message is there until it registers.         *)
LEMMA SendersStay ==
  ASSUME TypeInv, [Next]_vars, NEW b \in App, thread[b].pc = "sent",
         ~ RegisterCallback(b)
  PROVE  thread'[b] = thread[b]
<1>1. thread \in [App -> ThreadState]
  BY DEF TypeInv, TypeOK
<1>2. ASSUME NEW a \in App,
             \/ RegisterCallback(a)
             \/ HandleBegin(a)
             \/ Execute(a)
             \/ PassOver(a)
             \/ ExecuteFails(a)
             \/ HandleEnd(a)
      PROVE  thread'[b] = thread[b]
  BY <1>1, <1>2 DEF RegisterCallback, HandleBegin, Execute, PassOver, ExecuteFails,
                    HandleEnd, HasCurrent
<1>3. ASSUME NEW a \in Caller, NEW method \in Required, NEW withCallback \in BOOLEAN,
             IssueCall(a, method, withCallback)
      PROVE  thread'[b] = thread[b]
  BY <1>1, <1>3 DEF IssueCall
<1>4. \/ thread' = thread
      \/ \E a \in App : \/ RegisterCallback(a)
                        \/ HandleBegin(a)
                        \/ Execute(a)
                        \/ PassOver(a)
                        \/ ExecuteFails(a)
                        \/ HandleEnd(a)
      \/ \E a \in Caller, method \in Required, withCallback \in BOOLEAN :
           IssueCall(a, method, withCallback)
  BY Steps DEF Receive, Enqueue, Ignore, Answer, NetworkFault, vars
<1> QED
  BY <1>2, <1>3, <1>4

(* Only a caller's own thread takes ids and registers callbacks.           *)
LEMMA IdsTaken ==
  ASSUME TypeInv, [Next]_vars, NEW p \in Participant
  PROVE  \/ callbacks'[p] = callbacks[p] /\ nextCallId'[p] = nextCallId[p]
         \/ \E a \in Sending(p) :
              /\ RegisterCallback(a)
              /\ nextCallId'[p] = nextCallId[p] + 1
              /\ callbacks'[p] = {b \in callbacks[p] : b[1] # nextCallId[p]}
                                   \cup {<<nextCallId[p], <<p, thread[a].n>>>>}
<1>1. CASE UNCHANGED <<callbacks, nextCallId>>
  BY <1>1
<1>2. ASSUME NEW a \in App, RegisterCallback(a), a[1] = p
      PROVE  /\ a \in Sending(p)
             /\ nextCallId'[p] = nextCallId[p] + 1
             /\ callbacks'[p] = {b \in callbacks[p] : b[1] # nextCallId[p]}
                                  \cup {<<nextCallId[p], <<p, thread[a].n>>>>}
  BY <1>2 DEF RegisterCallback, NextId, Sending, TypeInv, TypeOK
<1>3. ASSUME NEW a \in App, RegisterCallback(a), a[1] # p
      PROVE  callbacks'[p] = callbacks[p] /\ nextCallId'[p] = nextCallId[p]
  BY <1>3 DEF RegisterCallback, TypeInv, TypeOK
<1>4. \/ UNCHANGED <<callbacks, nextCallId>>
      \/ \E a \in App : RegisterCallback(a)
  BY Steps DEF HandleBegin, Execute, PassOver, ExecuteFails, HandleEnd, IssueCall,
               Receive, Enqueue, Ignore, Answer, NetworkFault, vars
<1> QED
  BY <1>1, <1>2, <1>3, <1>4

(* The callback of a call that was sent is registered, sooner or later,    *)
(* under the id that its message carries.                                  *)
LEMMA KnownStays ==
  ASSUME TypeInv, OneCaller, SendersAreCallers, CallbacksKept, [Next]_vars,
         NEW m \in Message, CallbackKnown(m)
  PROVE  CallbackKnown(m)'
<1> DEFINE p == m.request[1]
<1>1. p \in Participant /\ m.request = <<p, m.request[2]>>
  BY MessageFields DEF Request
<1>2. IdOf(m) \in Int
  BY MessageFields DEF IdOf
<1>3. CASE callbacks'[p] = callbacks[p] /\ nextCallId'[p] = nextCallId[p]
  <2>1. CASE <<IdOf(m), m.request>> \in callbacks[p]
    BY <1>3, <2>1 DEF CallbackKnown, IdOf
  <2>2. ASSUME IdOf(m) = nextCallId[p], NEW a \in Sending(p), thread[a].n = m.request[2]
        PROVE  CallbackKnown(m)'
    <3>1. ~ RegisterCallback(a)
      <4>1. nextCallId[p] \in 1 .. MaxCall + 1
        BY <1>1 DEF TypeInv, TypeOK
      <4>2. RegisterCallback(a) => nextCallId'[p] = nextCallId[p] + 1
        BY <1>1 DEF RegisterCallback, NextId, Sending, TypeInv, TypeOK
      <4> QED
        BY <1>3, <4>1, <4>2
    <3>2. thread'[a] = thread[a]
      BY <3>1, SendersStay DEF Sending
    <3>3. a \in Sending(p)'
      BY <3>2 DEF Sending
    <3> QED
      BY <1>3, <2>2, <3>2, <3>3 DEF CallbackKnown, IdOf
  <2> QED
    BY <2>1, <2>2 DEF CallbackKnown
<1>4. ASSUME NEW a \in Sending(p),
             callbacks'[p] = {b \in callbacks[p] : b[1] # nextCallId[p]}
                               \cup {<<nextCallId[p], <<p, thread[a].n>>>>}
      PROVE  CallbackKnown(m)'
  <2>1. CASE <<IdOf(m), m.request>> \in callbacks[p]
    <3>1. IdOf(m) < nextCallId[p] /\ nextCallId[p] \in Int
      BY <1>1, <2>1 DEF CallbacksKept, TypeInv, TypeOK
    <3>2. <<IdOf(m), m.request>> \in callbacks'[p]
      BY <1>2, <1>4, <2>1, <3>1
    <3> QED
      BY <3>2 DEF CallbackKnown, IdOf
  <2>2. ASSUME IdOf(m) = nextCallId[p], NEW b \in Sending(p), thread[b].n = m.request[2]
        PROVE  CallbackKnown(m)'
    <3>1. a = b
      BY DEF OneCaller, SendersAreCallers, Sending
    <3>2. <<IdOf(m), m.request>> \in callbacks'[p]
      BY <1>1, <1>4, <2>2, <3>1
    <3> QED
      BY <3>2 DEF CallbackKnown, IdOf
  <2> QED
    BY <2>1, <2>2 DEF CallbackKnown
<1> QED
  BY <1>1, <1>3, <1>4, IdsTaken

(* It is so for every message, from the call to the answer. *)
LEMMA CallbacksStep ==
  ASSUME TypeInv, OneCaller, SendersAreCallers, CallbacksKept, [Next]_vars
  PROVE  CallbacksKept'
<1>1. ASSUME NEW ch \in Channel, NEW m \in FramesIn(ch)', m.callId # 0
      PROVE  CallbackKnown(m)'
  <2>1. CASE m \in FramesIn(ch)
    <3>1. m \in Message
      BY <2>1, FramesAreMessages DEF TypeInv
    <3> QED
      BY <1>1, <2>1, <3>1, KnownStays DEF CallbacksKept
  <2>2. ASSUME NEW a \in App, Execute(a), m \notin FramesIn(ch)
        PROVE  CallbackKnown(m)'
    <3>1. m = AnswerTo(Current(a)) /\ Current(a).callId > 0
      BY <2>2, ExecuteSends
    <3>2. a[1] \in Participant /\ Current(a) \in Message /\ Current(a) \in Queued(a[1])
      BY <2>2, CurrentTyped DEF Execute
    <3>3. m \in Message /\ m.callId = - Current(a).callId /\ m.request = Current(a).request
      BY <3>1, <3>2, AnswerTyped
    <3>4. IdOf(m) = IdOf(Current(a)) /\ Current(a).callId # 0
      BY <3>1, <3>2, <3>3, MessageFields DEF IdOf
    <3>5. CallbackKnown(Current(a))
      BY <3>2, <3>4 DEF CallbacksKept
    <3>6. CallbackKnown(m)
      BY <3>3, <3>4, <3>5 DEF CallbackKnown
    <3> QED
      BY <3>3, <3>6, KnownStays
  <2>3. ASSUME NEW a \in Caller, NEW method \in Required, NEW withCallback \in BOOLEAN,
               IssueCall(a, method, withCallback), m \notin FramesIn(ch)
        PROVE  CallbackKnown(m)'
    <3> DEFINE p == a[1]
               i == Len(issued[p]) + 1
    <3>1. a \in App /\ p \in Participant
      BY CallsAssumption, AppParticipant DEF App
    <3>2. m = CallMessage(a, method, withCallback)
      BY <2>3, IssueSends
    <3>3. withCallback /\ m.callId = nextCallId[p] /\ m.request = <<p, i>>
      BY <1>1, <3>2 DEF CallMessage
    <3>4. thread' = [thread EXCEPT ![a] = [pc |-> "sent", n |-> i, next |-> 0]]
      BY <2>3, <3>3 DEF IssueCall
    <3>5. a \in Sending(p)' /\ thread'[a].n = i
      BY <3>1, <3>4 DEF Sending, TypeInv, TypeOK
    <3>6. nextCallId'[p] = nextCallId[p]
      BY <2>3 DEF IssueCall
    <3>7. IdOf(m) = nextCallId[p]
      BY <3>1, <3>3 DEF IdOf, TypeInv, TypeOK
    <3>8. m.request[1] = p /\ m.request[2] = i
      BY <3>3
    <3> HIDE DEF p, i
    <3> QED
      BY <3>5, <3>6, <3>7, <3>8 DEF CallbackKnown, IdOf
  <2> QED
    BY <2>1, <2>2, <2>3, Steps, OthersSendNothing
<1>2. ASSUME NEW q \in Participant, NEW m \in Queued(q)', m.callId # 0
      PROVE  CallbackKnown(m)'
  <2>1. m \in Message /\ CallbackKnown(m)
    BY <1>2, QueuedAfter, FramesAreMessages DEF CallbacksKept, TypeInv
  <2> QED
    BY <2>1, KnownStays
<1>3. ASSUME NEW p \in Participant
      PROVE  /\ \A b \in callbacks'[p] : b[1] < nextCallId'[p]
             /\ \A b, c \in callbacks'[p] : b[1] = c[1] => b = c
  <2>1. /\ nextCallId[p] \in Int
        /\ \A b \in callbacks[p] : b[1] \in Int
    BY DEF TypeInv, TypeOK
  <2>2. CASE callbacks'[p] = callbacks[p] /\ nextCallId'[p] = nextCallId[p]
    BY <2>2 DEF CallbacksKept
  <2>3. ASSUME NEW a \in Sending(p),
               nextCallId'[p] = nextCallId[p] + 1,
               callbacks'[p] = {b \in callbacks[p] : b[1] # nextCallId[p]}
                                 \cup {<<nextCallId[p], <<p, thread[a].n>>>>}
        PROVE  /\ \A b \in callbacks'[p] : b[1] < nextCallId'[p]
               /\ \A b, c \in callbacks'[p] : b[1] = c[1] => b = c
    BY <2>1, <2>3 DEF CallbacksKept
  <2> QED
    BY <2>2, <2>3, IdsTaken
<1> QED
  BY <1>1, <1>2, <1>3 DEF CallbacksKept, FramesIn, Queued

(* Only IssueCall sends, on behalf of a caller. *)
LEMMA SendersStep ==
  ASSUME TypeInv, SendersAreCallers, [Next]_vars
  PROVE  SendersAreCallers'
<1>1. thread \in [App -> ThreadState]
  BY DEF TypeInv, TypeOK
<1>2. ASSUME NEW a \in App,
             \/ RegisterCallback(a)
             \/ HandleBegin(a)
             \/ Execute(a)
             \/ PassOver(a)
             \/ ExecuteFails(a)
             \/ HandleEnd(a)
      PROVE  SendersAreCallers'
  <2>1. thread'[a].pc # "sent"
    <3>1. CASE Execute(a) \/ PassOver(a)
      BY <1>1, <3>1 DEF Execute, PassOver, HasCurrent, ThreadState
    <3>2. CASE RegisterCallback(a) \/ ExecuteFails(a) \/ HandleEnd(a)
      BY <1>1, <3>2 DEF RegisterCallback, ExecuteFails, HandleEnd, Idle
    <3>3. CASE HandleBegin(a)
      BY <1>1, <3>3 DEF HandleBegin
    <3> QED
      BY <1>2, <3>1, <3>2, <3>3
  <2>2. \A b \in App \ {a} : thread'[b] = thread[b]
    BY <1>1, <1>2 DEF RegisterCallback, HandleBegin, Execute, PassOver, ExecuteFails,
                      HandleEnd
  <2> QED
    BY <2>1, <2>2 DEF SendersAreCallers
<1>3. ASSUME NEW a \in Caller, NEW method \in Required, NEW withCallback \in BOOLEAN,
             IssueCall(a, method, withCallback)
      PROVE  SendersAreCallers'
  <2>1. \A b \in App \ {a} : thread'[b] = thread[b]
    BY <1>1, <1>3 DEF IssueCall
  <2> QED
    BY <2>1 DEF SendersAreCallers
<1>4. thread' = thread => SendersAreCallers'
  BY DEF SendersAreCallers
<1>5. \/ thread' = thread
      \/ \E a \in App : \/ RegisterCallback(a)
                        \/ HandleBegin(a)
                        \/ Execute(a)
                        \/ PassOver(a)
                        \/ ExecuteFails(a)
                        \/ HandleEnd(a)
      \/ \E a \in Caller, method \in Required, withCallback \in BOOLEAN :
           IssueCall(a, method, withCallback)
  BY Steps DEF Receive, Enqueue, Ignore, Answer, NetworkFault, vars
<1> QED
  BY <1>2, <1>3, <1>4, <1>5

(* So the callback that an answer finds is that of its call, or none is    *)
(* found because it is not registered yet.                                 *)
LEMMA OwnAnswerStep ==
  ASSUME TypeInv, TwoAtMost, CallbackInv, [Next]_vars
  PROVE  CallbackGetsOwnAnswer'
<1>1. ASSUME NEW ch \in Channel, Answer(ch)
      PROVE  CallbackGetsOwnAnswer'
  <2> DEFINE p == ch[2]
             m == Head(net[ch])
  <2>1. m \in Message /\ m \in FramesIn(ch) /\ m.callId < 0
    BY <1>1, ArrivedFrames DEF Answer, IsAnswer, TypeInv
  <2>2. p \in Participant /\ m.request[1] \in Participant /\ m.callId \in Int
    BY <2>1, ChannelEnds, MessageFields
  <2>3. m.request[1] = p
    <3>1. m.request[1] # ch[1]
      BY <2>1 DEF CallbackInv, MessagesGenuine, Routed, IsAnswer
    <3> QED
      BY <2>2, <3>1, ChannelEnds DEF TwoAtMost
  <2>4. CallbackKnown(m) /\ IdOf(m) = -m.callId
    BY <2>1, <2>2 DEF CallbackInv, CallbacksKept, IdOf
  <2>5. nextCallId[p] \in Int
    BY <2>2 DEF TypeInv, TypeOK
  <2> HIDE DEF m
  <2>6. ASSUME NEW r \in CallbackOf(p, m)
        PROVE  r = m.request
    <3>1. PICK c \in callbacks[p] : c[1] = IdOf(m) /\ c[2] = r
      BY <2>4 DEF CallbackOf
    <3>2. c[1] < nextCallId[p]
      BY <2>2 DEF CallbackInv, CallbacksKept
    <3>3. <<IdOf(m), m.request>> \in callbacks[p]
      BY <2>3, <2>4, <2>5, <3>1, <3>2 DEF CallbackKnown
    <3>4. c = <<IdOf(m), m.request>>
      BY <2>2, <3>1, <3>3 DEF CallbackInv, CallbacksKept
    <3> QED
      BY <3>1, <3>4
  <2>7. delivered' = [delivered EXCEPT ![p] = @ \cup
          {[callback |-> r, answer |-> m.request, by |-> ch[1]] : r \in CallbackOf(p, m)}]
    BY <1>1 DEF Answer, m
  <2> QED
    BY <2>2, <2>6, <2>7 DEF CallbackInv, CallbackGetsOwnAnswer, TypeInv, TypeOK
<1>2. UNCHANGED delivered => CallbackGetsOwnAnswer'
  BY DEF CallbackInv, CallbackGetsOwnAnswer
<1>3. \/ UNCHANGED delivered
      \/ \E ch \in Channel : Answer(ch)
  BY Steps DEF RegisterCallback, HandleBegin, Execute, PassOver, ExecuteFails, HandleEnd,
               IssueCall, Receive, Enqueue, Ignore, NetworkFault, vars
<1> QED
  BY <1>1, <1>2, <1>3

LEMMA CallbackInit == Init => CallbackInv
<1> SUFFICES ASSUME Init PROVE CallbackInv
  OBVIOUS
<1>1. MessagesGenuine
  BY ForgetInit DEF ForgetInv
<1>2. /\ \A ch \in Channel : FramesIn(ch) = {}
      /\ \A q \in Participant : Queued(q) = {}
      /\ \A p \in Participant : callbacks[p] = {} /\ delivered[p] = {}
      /\ \A a \in App : thread[a].pc = "idle"
  BY DEF Init, FramesIn, Queued, Idle
<1> QED
  BY <1>1, <1>2 DEF CallbackInv, SendersAreCallers, CallbacksKept, CallbackGetsOwnAnswer

(***************************************************************************)
(* With two participants and one thread in each that issues calls, a       *)
(* callback is invoked with the results of its own call only, whatever the *)
(* network loses, duplicates or reorders and the operations throw.         *)
(***************************************************************************)
THEOREM CallbacksAreMatched ==
  ASSUME TwoAtMost, OneCaller
  PROVE  Spec => []CallbackGetsOwnAnswer
<1>1. TypeInv /\ CallbackInv /\ [Next]_vars => CallbackInv'
  BY GenuineStep, SendersStep, CallbacksStep, OwnAnswerStep DEF CallbackInv
<1>2. CallbackInv => CallbackGetsOwnAnswer
  BY DEF CallbackInv
<1> QED
  BY <1>1, <1>2, CallbackInit, TypesKept, PTL DEF Spec

-----------------------------------------------------------------------------
(* What a step does to a channel that neither duplicates nor reorders.     *)
LEMMA ChannelAfter ==
  ASSUME TypeInv, Faults \subseteq {"lose"}, [Next]_vars, NEW ch \in Channel
  PROVE  \/ net'[ch] = net[ch]
         \/ /\ net[ch] # <<>> /\ net'[ch] = Tail(net[ch])
            /\ ~ Enqueue(ch) => \A c \in Channel : ~ Enqueue(c)
         \/ \E a \in App : /\ Execute(a) /\ Current(a).callId > 0
                           /\ net'[ch] = Append(net[ch], AnswerTo(Current(a)))
         \/ \E a \in Caller, method \in Required, withCallback \in BOOLEAN :
              /\ IssueCall(a, method, withCallback)
              /\ ch[1] = a[1]
              /\ net'[ch] = Append(net[ch], CallMessage(a, method, withCallback))
<1>1. net \in [Channel -> Seq(Message)]
  BY DEF TypeInv, TypeOK
<1>2. CASE UNCHANGED net
  BY <1>2
<1>3. ASSUME NEW p, NEW m, Send(p, m)
      PROVE  net'[ch] = IF ch[1] = p /\ Room(ch) THEN Append(net[ch], m) ELSE net[ch]
  BY <1>3 DEF Send
<1>4. ASSUME NEW c \in Channel, Arrived(c)
      PROVE  net'[ch] = IF ch = c THEN Tail(net[ch]) ELSE net[ch]
  BY <1>1, <1>4 DEF Arrived
<1>5. ASSUME NEW c \in Channel, NetworkFault(c)
      PROVE  /\ net'[ch] = IF ch = c THEN Tail(net[ch]) ELSE net[ch]
             /\ UNCHANGED queue
  BY <1>1, <1>5 DEF NetworkFault
<1>6. ASSUME NEW a \in App, Execute(a)
      PROVE  \/ UNCHANGED net
             \/ Current(a).callId > 0 /\ Send(a[1], AnswerTo(Current(a)))
  BY <1>6 DEF Execute, AnswerTo
<1>7. ASSUME NEW a \in Caller, NEW method \in Required, NEW withCallback \in BOOLEAN,
             IssueCall(a, method, withCallback)
      PROVE  Send(a[1], CallMessage(a, method, withCallback))
  BY <1>7 DEF IssueCall, CallMessage
<1>8. \A c \in Channel : Enqueue(c) => ~ UNCHANGED queue
  <2> SUFFICES ASSUME NEW c \in Channel, Enqueue(c) PROVE ~ UNCHANGED queue
    OBVIOUS
  <2>1. queue[c[2]] \in Seq(Message) /\ Head(net[c]) \in Message
    BY ChannelEnds, ArrivedFrames DEF TypeInv, TypeOK, Enqueue
  <2>2. queue'[c[2]] = Append(queue[c[2]], Head(net[c]))
    BY ChannelEnds DEF TypeInv, TypeOK, Enqueue
  <2>3. Len(queue'[c[2]]) # Len(queue[c[2]])
    BY <2>1, <2>2, AppendIndex
  <2> QED
    BY <2>3
<1>9. ASSUME NEW c \in Channel, Receive(c)
      PROVE  \/ net'[ch] = net[ch]
             \/ /\ net[ch] # <<>> /\ net'[ch] = Tail(net[ch])
                /\ ~ Enqueue(ch) => \A d \in Channel : ~ Enqueue(d)
  <2>1. Arrived(c)
    BY <1>9 DEF Receive, Enqueue, Ignore, Answer
  <2>2. CASE ch # c
    BY <1>4, <2>1, <2>2
  <2>3. CASE ch = c
    <3>1. net'[ch] = Tail(net[ch]) /\ net[ch] # <<>>
      BY <1>4, <2>1, <2>3 DEF Arrived
    <3>2. ~ Enqueue(ch) => UNCHANGED queue
      BY <1>9, <2>3 DEF Receive, Ignore, Answer
    <3> QED
      BY <1>8, <3>1, <3>2
  <2> QED
    BY <2>2, <2>3
<1>10. ASSUME NEW c \in Channel, NetworkFault(c)
       PROVE  \/ net'[ch] = net[ch]
              \/ /\ net[ch] # <<>> /\ net'[ch] = Tail(net[ch])
                 /\ \A d \in Channel : ~ Enqueue(d)
  <2>1. net[c] # <<>>
    BY <1>10 DEF NetworkFault
  <2> QED
    BY <1>5, <1>8, <1>10, <2>1
<1>11. \/ UNCHANGED net
       \/ \E a \in App : Execute(a)
       \/ \E a \in Caller, method \in Required, withCallback \in BOOLEAN :
            IssueCall(a, method, withCallback)
       \/ \E c \in Channel : Receive(c) \/ NetworkFault(c)
  BY Steps DEF RegisterCallback, HandleBegin, PassOver, ExecuteFails, HandleEnd, vars
<1> QED
  BY <1>2, <1>3, <1>6, <1>7, <1>9, <1>10, <1>11

(* An operation is executed by the handler of its queue. *)
LEMMA ExecutedStep ==
  ASSUME TypeInv, Faults \subseteq {"lose"}, [Next]_vars, NEW q \in Participant
  PROVE  \/ log'[q] = log[q]
         \/ \E a \in App : /\ a[1] = q /\ Execute(a)
                           /\ Current(a) \in Queued(q)
                           /\ Current(a).request \in Request
                           /\ log'[q] = Append(log[q], Current(a).request)
                           /\ Executed(q)' = Executed(q) \cup {Current(a).request}
<1>1. log \in [Participant -> Seq(Request)]
  BY DEF TypeInv, TypeOK
<1>2. ASSUME NEW a \in App, Execute(a)
      PROVE  /\ log'[q] = IF a[1] = q THEN Append(log[q], Current(a).request) ELSE log[q]
             /\ Current(a) \in Queued(a[1])
             /\ Current(a).request \in Request
             /\ Executed(a[1])' = Executed(a[1]) \cup {Current(a).request}
  BY <1>1, <1>2, ExecuteRecords, CurrentTyped, MessageFields DEF Execute
<1>3. \A a \in App : ~ ExecuteFails(a)
  BY DEF ExecuteFails
<1>4. UNCHANGED log \/ \E a \in App : Execute(a)
  BY <1>3, Steps DEF RegisterCallback, HandleBegin, PassOver, HandleEnd, IssueCall,
                     Receive, Enqueue, Ignore, Answer, NetworkFault, vars
<1> QED
  BY <1>2, <1>4

LEMMA IssuedStep ==
  ASSUME TypeInv, OrderInv, Faults \subseteq {"lose"}, [Next]_vars
  PROVE  ExecutedWereIssued'
<1> SUFFICES ASSUME NEW q \in Participant, NEW r \in Executed(q)'
             PROVE  r[2] <= Len(issued'[r[1]])
  BY DEF ExecutedWereIssued
<1>1. ASSUME r \in Request, r[2] <= Len(issued[r[1]])
      PROVE  r[2] <= Len(issued'[r[1]])
  BY <1>1, IssuedGrows, CallsAssumption DEF Request
<1>2. CASE r \in Executed(q)
  BY <1>1, <1>2, FramesAreMessages DEF TypeInv, OrderInv, ExecutedWereIssued
<1>3. ASSUME NEW m \in Queued(q), r = m.request, r \in Request
      PROVE  r[2] <= Len(issued'[r[1]])
  BY <1>1, <1>3 DEF OrderInv, MessagesGenuine, Genuine
<1>4. log'[q] = log[q] => r \in Executed(q)
  BY DEF Executed
<1> QED
  BY <1>2, <1>3, <1>4, ExecutedStep

(* What is added to a queue comes after what was executed and after what   *)
(* was there.                                                              *)
LEMMA QueueOrderStep ==
  ASSUME TypeInv, OrderInv, Faults \subseteq {"lose"}, [Next]_vars
  PROVE  QueueOrdered'
<1> SUFFICES ASSUME NEW q \in Participant,
                    NEW i \in 1 .. Len(queue'[q]), NEW j \in 1 .. Len(queue'[q]), i < j
             PROVE  Before(queue'[q][i].request, queue'[q][j].request)
  BY DEF QueueOrdered
<1>1. queue[q] \in Seq(Message)
  BY DEF TypeInv, TypeOK
<1>2. CASE queue'[q] = queue[q]
  BY <1>2 DEF OrderInv, QueueOrdered
<1>3. CASE queue'[q] = <<>>
  BY <1>3
<1>4. ASSUME NEW ch \in Channel, ch[2] = q, Enqueue(ch), Head(net[ch]) \in Message,
             queue'[q] = Append(queue[q], Head(net[ch]))
      PROVE  Before(queue'[q][i].request, queue'[q][j].request)
  <2> DEFINE m == Head(net[ch])
  <2>1. m \in FramesIn(ch) /\ ~ IsAnswer(m)
    BY <1>4, ArrivedFrames DEF TypeInv, Enqueue
  <2>2. \A n \in Queued(q) : Before(n.request, m.request)
    BY <1>4, <2>1 DEF OrderInv, ChannelFollows
  <2> HIDE DEF m
  <2>3. /\ Len(queue'[q]) = Len(queue[q]) + 1
        /\ \A k \in 1 .. Len(queue[q]) : queue'[q][k] = queue[q][k]
        /\ queue'[q][Len(queue[q]) + 1] = m
        /\ Len(queue[q]) \in Nat
    BY <1>1, <1>4, AppendIndex DEF m
  <2>4. i \in 1 .. Len(queue[q])
    BY <2>3
  <2>5. CASE j \in 1 .. Len(queue[q])
    BY <2>3, <2>4, <2>5 DEF OrderInv, QueueOrdered
  <2>6. CASE j = Len(queue[q]) + 1
    <3>1. queue[q][i] \in Queued(q)
      BY <2>4 DEF Queued
    <3> QED
      BY <2>2, <2>3, <2>4, <2>6, <3>1
  <2> QED
    BY <2>3, <2>5, <2>6
<1> QED
  BY <1>2, <1>3, <1>4, QueueKept

(* A handler goes forward until the end of its queue. *)
LEMMA HandlerGoesForward ==
  ASSUME TypeInv, Faults \subseteq {"lose"}, [Next]_vars, NEW a \in App, Handling(a)
  PROVE  \/ HandleEnd(a)
         \/ Handling(a)' /\ thread'[a] = thread[a]
         \/ Handling(a)' /\ thread'[a].next = thread[a].next + 1
<1>1. thread \in [App -> ThreadState]
  BY DEF TypeInv, TypeOK
<1>2. ASSUME NEW b \in App, RegisterCallback(b) \/ HandleBegin(b) \/ HandleEnd(b), b # a
      PROVE  thread'[a] = thread[a]
  BY <1>1, <1>2 DEF RegisterCallback, HandleBegin, HandleEnd
<1>3. ~ RegisterCallback(a) /\ ~ HandleBegin(a)
  BY DEF RegisterCallback, HandleBegin, Handling
<1>4. ASSUME NEW b \in App, Execute(b) \/ PassOver(b)
      PROVE  \/ thread'[a] = thread[a]
             \/ Handling(a)' /\ thread'[a].next = thread[a].next + 1
  BY <1>1, <1>4 DEF Execute, PassOver, Handling, ThreadState
<1>5. ASSUME NEW b \in Caller, NEW method \in Required, NEW withCallback \in BOOLEAN,
             IssueCall(b, method, withCallback)
      PROVE  thread'[a] = thread[a]
  BY <1>1, <1>5 DEF IssueCall, Handling
<1>6. \A b \in App : ~ ExecuteFails(b)
  BY DEF ExecuteFails
<1>7. \/ thread' = thread
      \/ \E b \in App : \/ RegisterCallback(b)
                        \/ HandleBegin(b)
                        \/ Execute(b)
                        \/ PassOver(b)
                        \/ HandleEnd(b)
      \/ \E b \in Caller, method \in Required, withCallback \in BOOLEAN :
           IssueCall(b, method, withCallback)
  BY <1>6, Steps DEF Receive, Enqueue, Ignore, Answer, NetworkFault, vars
<1>8. thread'[a] = thread[a] => Handling(a)'
  BY DEF Handling
<1> QED
  BY <1>2, <1>3, <1>4, <1>5, <1>7, <1>8

(* What is executed comes before what remains to be. *)
LEMMA RemainingStep ==
  ASSUME TypeInv, OrderInv, Faults \subseteq {"lose"}, [Next]_vars
  PROVE  QueueFollowsExecuted'
<1> SUFFICES ASSUME NEW q \in Participant, NEW j \in Remaining(q)', NEW r \in Executed(q)'
             PROVE  Before(r, queue'[q][j].request)
  BY DEF QueueFollowsExecuted
<1>1. queue[q] \in Seq(Message)
  BY DEF TypeInv, TypeOK
<1>2. j \in 1 .. Len(queue'[q])
  BY DEF Remaining
<1>3. CASE queue'[q] = <<>>
  BY <1>2, <1>3
<1>4. CASE queue'[q] = queue[q] /\ queue[q] # <<>>
  <2>1. ASSUME NEW a \in App, a[1] = q, Handling(a)
        PROVE  Handling(a)' /\ thread[a].next <= j
               /\ (thread'[a] # thread[a] => thread[a].next < j)
    <3>1. ~ HandleEnd(a)
      BY <1>4, <2>1 DEF HandleEnd, Cleared, TypeInv, TypeOK
    <3>2. thread[a].next \in Nat /\ j \in Nat
      BY <1>1, <1>2, <1>4 DEF TypeInv, TypeOK, ThreadState
    <3>3. Handling(a)' => thread'[a].next <= j
      BY <2>1 DEF Remaining
    <3> QED
      BY <2>1, <3>1, <3>2, <3>3, HandlerGoesForward
  <2>2. j \in Remaining(q)
    BY <1>2, <1>4, <2>1 DEF Remaining
  <2>3. CASE r \in Executed(q)
    BY <1>4, <2>2, <2>3 DEF OrderInv, QueueFollowsExecuted
  <2>4. ASSUME NEW a \in App, a[1] = q, Execute(a), r = Current(a).request
        PROVE  Before(r, queue'[q][j].request)
    <3>1. HasCurrent(a) /\ Handling(a) /\ thread'[a] # thread[a]
      BY <2>4 DEF Execute, HasCurrent, Handling, TypeInv, TypeOK, ThreadState
    <3>2. thread[a].next \in 1 .. Len(queue[q]) /\ thread[a].next < j
      BY <2>1, <2>4, <3>1, CurrentTyped
    <3> QED
      BY <1>2, <1>4, <2>4, <3>2 DEF OrderInv, QueueOrdered, Current
  <2> QED
    BY <2>3, <2>4, ExecutedStep DEF Executed
<1>5. ASSUME NEW ch \in Channel, ch[2] = q, Enqueue(ch), ~ QueuesLocked(q),
             Head(net[ch]) \in Message, queue'[q] = Append(queue[q], Head(net[ch]))
      PROVE  Before(r, queue'[q][j].request)
  <2> DEFINE m == Head(net[ch])
  <2>1. r \in Executed(q)
    BY <1>5 DEF Enqueue, Executed
  <2>2. m \in FramesIn(ch) /\ ~ IsAnswer(m)
    BY <1>5, ArrivedFrames DEF TypeInv, Enqueue
  <2>3. Before(r, m.request)
    BY <1>5, <2>1, <2>2 DEF OrderInv, ChannelFollows
  <2> HIDE DEF m
  <2>4. /\ Len(queue'[q]) = Len(queue[q]) + 1
        /\ \A k \in 1 .. Len(queue[q]) : queue'[q][k] = queue[q][k]
        /\ queue'[q][Len(queue[q]) + 1] = m
        /\ Len(queue[q]) \in Nat
    BY <1>1, <1>5, AppendIndex DEF m
  <2>5. j \in 1 .. Len(queue[q]) => j \in Remaining(q)
    BY <1>5 DEF Remaining, QueuesLocked, Handling
  <2> QED
    BY <1>2, <2>1, <2>3, <2>4, <2>5 DEF OrderInv, QueueFollowsExecuted
<1> QED
  BY <1>3, <1>4, <1>5, QueueKept

(* What is executed next comes after what was. *)
LEMMA LogOrderStep ==
  ASSUME TypeInv, OrderInv, Faults \subseteq {"lose"}, [Next]_vars
  PROVE  ExecutedOnceInOrder'
<1> SUFFICES ASSUME NEW q \in Participant,
                    NEW i \in 1 .. Len(log'[q]), NEW j \in 1 .. Len(log'[q]), i < j
             PROVE  Before(log'[q][i], log'[q][j])
  BY DEF ExecutedOnceInOrder, Before
<1>1. log[q] \in Seq(Request) /\ Len(log[q]) \in Nat
  BY DEF TypeInv, TypeOK
<1>2. CASE log'[q] = log[q]
  BY <1>2 DEF OrderInv, ExecutedOnceInOrder, Before
<1>3. ASSUME NEW a \in App, a[1] = q, Execute(a), Current(a).request \in Request,
             log'[q] = Append(log[q], Current(a).request)
      PROVE  Before(log'[q][i], log'[q][j])
  <2> DEFINE r == Current(a).request
             k == thread[a].next
  <2>1. /\ Len(log'[q]) = Len(log[q]) + 1
        /\ \A l \in 1 .. Len(log[q]) : log'[q][l] = log[q][l]
        /\ log'[q][Len(log[q]) + 1] = r
    BY <1>1, <1>3, AppendIndex
  <2>2. k \in 1 .. Len(queue[q]) /\ Handling(a)
    BY <1>3, CurrentTyped DEF Execute, HasCurrent, Handling
  <2>3. k \in Remaining(q)
    BY <1>3, <2>2 DEF Remaining, OrderInv, OneHandler
  <2>4. \A x \in Executed(q) : Before(x, r)
    BY <1>3, <2>3 DEF OrderInv, QueueFollowsExecuted, Current
  <2> HIDE DEF r
  <2>5. CASE j \in 1 .. Len(log[q])
    <3>1. i \in 1 .. Len(log[q])
      BY <1>1, <2>5
    <3>2. ExecutedOnceInOrder
      BY DEF OrderInv
    <3>3. Before(log[q][i], log[q][j])
      BY <2>5, <3>1, <3>2 DEF ExecutedOnceInOrder, Before
    <3>4. log'[q][i] = log[q][i] /\ log'[q][j] = log[q][j]
      BY <2>1, <2>5, <3>1
    <3> QED
      BY <3>3, <3>4
  <2>6. CASE j = Len(log[q]) + 1
    <3>1. i \in 1 .. Len(log[q]) /\ log[q][i] \in Executed(q)
      BY <1>1, <2>6 DEF Executed
    <3> QED
      BY <2>1, <2>4, <2>6, <3>1
  <2> QED
    BY <1>1, <2>1, <2>5, <2>6
<1> QED
  BY <1>2, <1>3, ExecutedStep

(* A new call comes after all that its issuer has sent before. *)
LEMMA CallIsLast ==
  ASSUME TypeInv, NEW a \in Caller, NEW method \in Required,
         NEW withCallback \in BOOLEAN, IssueCall(a, method, withCallback),
         NEW r \in Request, r[2] <= Len(issued[r[1]])
  PROVE  Before(r, CallMessage(a, method, withCallback).request)
<1>1. a[1] \in Participant
  BY CallsAssumption
<1>2. r[2] \in Int /\ Len(issued[a[1]]) \in Nat
  BY <1>1, CallsAssumption DEF Request, TypeInv, TypeOK
<1> QED
  BY <1>2 DEF Before, CallMessage

(* What was first in a channel comes before the rest. *)
LEMMA HeadIsFirst ==
  ASSUME TypeInv, ChannelOrdered, NEW ch \in Channel, net[ch] # <<>>,
         net'[ch] = Tail(net[ch]), NEW m \in FramesIn(ch)',
         ~ IsAnswer(m), ~ IsAnswer(Head(net[ch]))
  PROVE  Before(Head(net[ch]).request, m.request)
<1>1. net[ch] \in Seq(Message)
  BY DEF TypeInv, TypeOK
<1>2. /\ Head(net[ch]) = net[ch][1]
      /\ Len(net[ch]) \in Nat \ {0}
      /\ Len(net'[ch]) = Len(net[ch]) - 1
      /\ \A i \in 1 .. Len(net[ch]) - 1 : net'[ch][i] = net[ch][i + 1]
  BY <1>1, TailIndex
<1>3. PICK i \in 1 .. Len(net[ch]) - 1 : m = net[ch][i + 1]
  BY <1>2 DEF FramesIn
<1>4. 1 \in 1 .. Len(net[ch]) /\ i + 1 \in 1 .. Len(net[ch]) /\ 1 < i + 1
  BY <1>2
<1> QED
  BY <1>2, <1>3, <1>4 DEF ChannelOrdered

(* What is in flight to a peer comes after what is there. *)
LEMMA FollowsStep ==
  ASSUME TypeInv, OrderInv, Faults \subseteq {"lose"}, [Next]_vars
  PROVE  ChannelFollows'
<1> SUFFICES ASSUME NEW ch \in Channel, NEW m \in FramesIn(ch)', ~ IsAnswer(m)
             PROVE  /\ \A r \in Executed(ch[2])' : Before(r, m.request)
                    /\ \A n \in Queued(ch[2])' : Before(n.request, m.request)
  BY DEF ChannelFollows, IsAnswer
<1> DEFINE q == ch[2]
<1>1. q \in Participant
  BY ChannelEnds
<1>2. CASE m \in FramesIn(ch)
  <2>1. ASSUME NEW r \in Executed(q)'
        PROVE  Before(r, m.request)
    <3>1. CASE r \in Executed(q)
      BY <1>2, <3>1 DEF OrderInv, ChannelFollows
    <3>2. ASSUME NEW n \in Queued(q), r = n.request
          PROVE  Before(r, m.request)
      BY <1>2, <3>2 DEF OrderInv, ChannelFollows
    <3> QED
      BY <1>1, <3>1, <3>2, ExecutedStep DEF Executed
  <2>2. ASSUME NEW n \in Queued(q)'
        PROVE  Before(n.request, m.request)
    <3>1. CASE n \in Queued(q)
      BY <1>2, <3>1 DEF OrderInv, ChannelFollows
    <3>2. ASSUME NEW c \in Channel, c[2] = q, n \in FramesIn(c), Enqueue(c), n = Head(net[c])
          PROVE  Before(n.request, m.request)
      <4>1. ~ IsAnswer(n) /\ n.request[1] = c[1] /\ m.request[1] = ch[1]
        BY <1>2, <3>2 DEF Enqueue, OrderInv, MessagesGenuine, Routed
      <4>2. CASE c = ch
        <5>1. net[ch] # <<>> /\ net'[ch] = Tail(net[ch])
          BY <3>2, <4>2 DEF Enqueue, Arrived, TypeInv, TypeOK
        <5> QED
          BY <3>2, <4>1, <4>2, <5>1, HeadIsFirst DEF OrderInv
      <4>3. CASE c # ch
        <5>1. c[1] # ch[1]
          BY <3>2, <4>3 DEF Channel
        <5> QED
          BY <4>1, <5>1 DEF Before
      <4> QED
        BY <4>2, <4>3
    <3> QED
      BY <1>1, <3>1, <3>2, QueuedAfter
  <2> QED
    BY <2>1, <2>2
<1>3. ASSUME NEW a \in Caller, NEW method \in Required, NEW withCallback \in BOOLEAN,
             IssueCall(a, method, withCallback), m \notin FramesIn(ch)
      PROVE  /\ \A r \in Executed(q)' : Before(r, m.request)
             /\ \A n \in Queued(q)' : Before(n.request, m.request)
  <2>1. m = CallMessage(a, method, withCallback)
    BY <1>3, IssueSends
  <2>2. Executed(q)' = Executed(q) /\ Queued(q)' = Queued(q)
    BY <1>3 DEF IssueCall, Executed, Queued
  <2>3. \A r \in Executed(q) : r \in Request /\ r[2] <= Len(issued[r[1]])
    BY <1>1, FramesAreMessages DEF TypeInv, OrderInv, ExecutedWereIssued
  <2>4. \A n \in Queued(q) : n.request \in Request /\ n.request[2] <= Len(issued[n.request[1]])
    BY <1>1, FramesAreMessages, MessageFields DEF TypeInv, OrderInv, MessagesGenuine, Genuine
  <2> QED
    BY <1>3, <2>1, <2>2, <2>3, <2>4, CallIsLast
<1>4. ASSUME NEW a \in App, Execute(a)
      PROVE  m \in FramesIn(ch)
  BY <1>4, ExecuteSends, AnswerTyped, CurrentTyped DEF Execute, IsAnswer
<1> QED
  BY <1>2, <1>3, <1>4, Steps, OthersSendNothing

(* What is sent comes after what is in flight. *)
LEMMA ChannelStep ==
  ASSUME TypeInv, OrderInv, Faults \subseteq {"lose"}, [Next]_vars
  PROVE  ChannelOrdered'
<1> SUFFICES ASSUME NEW ch \in Channel,
                    NEW i \in 1 .. Len(net'[ch]), NEW j \in 1 .. Len(net'[ch]), i < j,
                    ~ IsAnswer(net'[ch][i]), ~ IsAnswer(net'[ch][j])
             PROVE  Before(net'[ch][i].request, net'[ch][j].request)
  BY DEF ChannelOrdered, IsAnswer
<1>1. net[ch] \in Seq(Message)
  BY DEF TypeInv, TypeOK
<1>2. CASE net'[ch] = net[ch]
  BY <1>2 DEF OrderInv, ChannelOrdered
<1>3. CASE net[ch] # <<>> /\ net'[ch] = Tail(net[ch])
  <2>1. /\ Len(net[ch]) \in Nat
        /\ Len(net'[ch]) = Len(net[ch]) - 1
        /\ \A k \in 1 .. Len(net[ch]) - 1 : net'[ch][k] = net[ch][k + 1]
    BY <1>1, <1>3, TailIndex
  <2>2. i + 1 \in 1 .. Len(net[ch]) /\ j + 1 \in 1 .. Len(net[ch]) /\ i + 1 < j + 1
    BY <2>1
  <2> QED
    BY <2>1, <2>2 DEF OrderInv, ChannelOrdered
<1>4. ASSUME NEW m \in Message, net'[ch] = Append(net[ch], m),
             ~ IsAnswer(m) => \A n \in FramesIn(ch) : ~ IsAnswer(n) => Before(n.request, m.request)
      PROVE  Before(net'[ch][i].request, net'[ch][j].request)
  <2>1. /\ Len(net[ch]) \in Nat
        /\ Len(net'[ch]) = Len(net[ch]) + 1
        /\ \A k \in 1 .. Len(net[ch]) : net'[ch][k] = net[ch][k]
        /\ net'[ch][Len(net[ch]) + 1] = m
    BY <1>1, <1>4, AppendIndex
  <2>2. i \in 1 .. Len(net[ch]) /\ net[ch][i] \in FramesIn(ch)
    BY <2>1 DEF FramesIn
  <2>3. CASE j \in 1 .. Len(net[ch])
    BY <2>1, <2>2, <2>3 DEF OrderInv, ChannelOrdered
  <2>4. CASE j = Len(net[ch]) + 1
    BY <1>4, <2>1, <2>2, <2>4
  <2> QED
    BY <2>1, <2>3, <2>4
<1>5. ASSUME NEW a \in App, Execute(a), Current(a).callId > 0
      PROVE  AnswerTo(Current(a)) \in Message /\ IsAnswer(AnswerTo(Current(a)))
  BY <1>5, CurrentTyped, AnswerTyped DEF Execute, IsAnswer
<1>6. ASSUME NEW a \in Caller, NEW method \in Required, NEW withCallback \in BOOLEAN,
             IssueCall(a, method, withCallback)
      PROVE  /\ CallMessage(a, method, withCallback) \in Message
             /\ \A n \in FramesIn(ch) :
                  Before(n.request, CallMessage(a, method, withCallback).request)
  <2>1. a \in App /\ Len(issued[a[1]]) + 1 <= MaxCall
    BY <1>6, CallsAssumption DEF App, IssueCall
  <2>2. \A n \in FramesIn(ch) :
          n.request \in Request /\ n.request[2] <= Len(issued[n.request[1]])
    BY FramesAreMessages, MessageFields DEF TypeInv, OrderInv, MessagesGenuine, Genuine
  <2> QED
    BY <1>6, <2>1, <2>2, CallTyped, CallIsLast
<1> QED
  BY <1>2, <1>3, <1>4, <1>5, <1>6, ChannelAfter

LEMMA OrderInit == Init => OrderInv
<1> SUFFICES ASSUME Init PROVE OrderInv
  OBVIOUS
<1>1. MessagesGenuine /\ OneHandler
  BY ForgetInit DEF ForgetInv
<1>2. /\ \A ch \in Channel : FramesIn(ch) = {} /\ Len(net[ch]) = 0
      /\ \A q \in Participant : /\ Queued(q) = {} /\ Len(queue[q]) = 0
                                /\ Executed(q) = {} /\ Len(log[q]) = 0
  BY DEF Init, FramesIn, Queued, Executed
<1>3. ASSUME NEW q \in Participant, NEW j \in Remaining(q)
      PROVE  FALSE
  <2>1. j \in 1 .. Len(queue[q]) /\ Len(queue[q]) = 0
    BY <1>2 DEF Remaining
  <2> QED
    BY <2>1
<1> QED
  BY <1>1, <1>2, <1>3
  DEF OrderInv, ExecutedWereIssued, QueueFollowsExecuted, QueueOrdered, ChannelFollows,
      ChannelOrdered, ExecutedOnceInOrder

LEMMA OrdersKept ==
  ASSUME Faults \subseteq {"lose"}
  PROVE  Spec => []OrderInv
<1>1. TypeInv /\ OrderInv /\ [Next]_vars => OrderInv'
  BY GenuineStep, OneHandlerStep, IssuedStep, RemainingStep, QueueOrderStep,
     FollowsStep, ChannelStep, LogOrderStep DEF OrderInv
<1> QED
  BY <1>1, OrderInit, TypesKept, PTL DEF Spec

(***************************************************************************)
(* Where the network may lose datagrams and does nothing else, and the     *)
(* operations return, a participant executes the requests of a peer in the *)
(* order the peer issued them, and none of them twice.                     *)
(***************************************************************************)
THEOREM OrderIsKept ==
  ASSUME Faults \subseteq {"lose"}
  PROVE  Spec => []ExecutedOnceInOrder
<1>1. OrderInv => ExecutedOnceInOrder
  BY DEF OrderInv
<1> QED
  BY <1>1, OrdersKept, PTL

-----------------------------------------------------------------------------
(***************************************************************************)
(* The promise of RemoteOperations.  All the calls share one lane.         *)
(***************************************************************************)
Lanes    == [p \in Participant |-> [i \in 1 .. Len(issued[p]) |-> DefaultLane]]
Answered == [p \in Participant |-> {d.answer : d \in delivered[p]}]

(* A call takes the lane. *)
LEMMA IssueImplemented ==
  ASSUME TypeInv, NEW a \in Caller, NEW method \in Required,
         NEW withCallback \in BOOLEAN, IssueCall(a, method, withCallback)
  PROVE  Abstract!Next
<1> DEFINE p == a[1]
           n == Len(issued[p])
<1>1. p \in Participant /\ method \in Method
  BY CallsAssumption
<1>2. issued \in [Participant -> Seq(Method)] /\ issued[p] \in Seq(Method) /\ n \in Nat
  BY <1>1 DEF TypeInv, TypeOK
<1>3. issued' = [issued EXCEPT ![p] = Append(@, method)] /\ UNCHANGED <<log, delivered>>
  BY DEF IssueCall
<1>4. Len(issued'[p]) = n + 1
  BY <1>1, <1>2, <1>3, AppendIndex
<1>5. Lanes[p] \in Seq({DefaultLane}) /\ Len(Lanes[p]) = n
  BY <1>1, <1>2 DEF Lanes
<1>6. Append(Lanes[p], DefaultLane)
        = [i \in 1 .. n + 1 |-> IF i \in 1 .. n THEN Lanes[p][i] ELSE DefaultLane]
  <2>1. \A l \in Seq({DefaultLane}) : Len(l) = n =>
          Append(l, DefaultLane) = [i \in 1 .. n + 1 |-> IF i \in 1 .. n THEN l[i] ELSE DefaultLane]
    BY <1>2, AppendIsFunction
  <2> QED
    BY <1>5, <2>1
<1>7. Lanes'[p] = [i \in 1 .. n + 1 |-> DefaultLane]
  BY <1>1, <1>4 DEF Lanes
<1>8. Append(Lanes[p], DefaultLane) = Lanes'[p]
  BY <1>1, <1>6, <1>7 DEF Lanes
<1>9. \A q \in Participant \ {p} : Lanes'[q] = Lanes[q]
  BY <1>2, <1>3 DEF Lanes
<1>10. Lanes' = [Lanes EXCEPT ![p] = Append(@, DefaultLane)]
  BY <1>1, <1>8, <1>9 DEF Lanes
<1>11. Abstract!Issue(p, DefaultLane)
  BY <1>3, <1>10 DEF Abstract!Issue, Lanes
<1> QED
  BY <1>1, <1>11 DEF Abstract!Next

(* What is executed is the next of its issuer. *)
LEMMA ExecuteImplemented ==
  ASSUME TypeInv, OrderInv, Faults \subseteq {"lose"}, NEW a \in App, Execute(a)
  PROVE  Abstract!Next
<1> DEFINE q == a[1]
           r == Current(a).request
           k == thread[a].next
<1>1. /\ q \in Participant
      /\ k \in 1 .. Len(queue[q]) /\ Handling(a)
      /\ Current(a) \in Queued(q) /\ r \in Request
      /\ log[q] \in Seq(Request) /\ Len(log[q]) \in Nat
  BY AppParticipant, CurrentTyped, MessageFields
  DEF Execute, HasCurrent, Handling, TypeInv, TypeOK
<1>2. k \in Remaining(q)
  BY <1>1 DEF Remaining, OrderInv, OneHandler
<1>3. \A s \in Executed(q) : Before(s, r)
  BY <1>1, <1>2 DEF OrderInv, QueueFollowsExecuted, Current
<1>4. Genuine(Current(a)) /\ r[1] # q
  BY <1>1 DEF OrderInv, MessagesGenuine
<1>5. log' = [log EXCEPT ![q] = Append(@, r)] /\ UNCHANGED <<issued, delivered>>
  BY DEF Execute
<1> HIDE DEF r, k
<1>6. r \in Participant \X (1 .. MaxCall) /\ r = <<r[1], r[2]>> /\ r[1] \in Participant
      /\ r[2] \in Nat \ {0} /\ r[2] <= Len(issued[r[1]]) /\ Len(issued[r[1]]) \in Nat
  BY <1>1, <1>4, CallsAssumption DEF Request, Genuine, r, TypeInv, TypeOK
<1>7. r \notin Executed(q)
  BY <1>3, <1>6 DEF Before
<1>8. \A s \in Executed(q) : s[1] = r[1] => s[2] < r[2]
  BY <1>3 DEF Before
<1>9. Abstract!DoneBy(q) = Executed(q)
  BY DEF Abstract!DoneBy, Executed
<1>10. Abstract!Execute(q, r)
  BY <1>5, <1>7, <1>8, <1>9 DEF Abstract!Execute, Abstract!SameLane
<1>11. \E i \in 1 .. Len(Lanes[r[1]]) : Abstract!Execute(q, <<r[1], i>>)
  <2>1. Len(Lanes[r[1]]) = Len(issued[r[1]])
    BY <1>6 DEF Lanes
  <2>2. r[2] \in 1 .. Len(Lanes[r[1]])
    BY <1>6, <2>1
  <2> QED
    BY <1>6, <1>10, <2>2
<1> QED
  BY <1>1, <1>4, <1>6, <1>11 DEF Abstract!Next, Lanes, r

(* What a callback is called with was executed, and not by its caller. *)
LEMMA AnswerImplemented ==
  ASSUME TypeInv, AnswersComeFromExecutions, NEW ch \in Channel, Answer(ch)
  PROVE  Abstract!Next \/ UNCHANGED <<Lanes, log, Answered>>
<1> DEFINE p == ch[2]
           m == Head(net[ch])
           found == CallbackOf(p, m)
<1>1. /\ p \in Participant /\ ch[1] \in Participant \ {p}
      /\ UNCHANGED <<issued, log>>
      /\ delivered' = [delivered EXCEPT ![p] = @ \cup
           {[callback |-> r, answer |-> m.request, by |-> ch[1]] : r \in found}]
  BY ChannelEnds DEF Answer
<1>2. m.request \in Executed(ch[1])
  BY ArrivedFrames DEF Answer, IsAnswer, TypeInv, AnswersComeFromExecutions
<1>3. UNCHANGED Lanes
  BY <1>1 DEF Lanes
<1>4. delivered \in [Participant -> SUBSET Invocation]
  BY DEF TypeInv, TypeOK
<1> HIDE DEF m, found
<1>5. ASSUME found = {}
      PROVE  Answered' = Answered
  BY <1>1, <1>4, <1>5 DEF Answered
<1>6. ASSUME found # {}
      PROVE  Answered' = [Answered EXCEPT ![p] = @ \cup {m.request}]
  <2>1. delivered'[p] = delivered[p] \cup
          {[callback |-> r, answer |-> m.request, by |-> ch[1]] : r \in found}
    BY <1>1, <1>4
  <2>2. {d.answer : d \in delivered'[p]} = {d.answer : d \in delivered[p]} \cup {m.request}
    <3> DEFINE new == {[callback |-> r, answer |-> m.request, by |-> ch[1]] : r \in found}
    <3>1. \A d \in new : d.answer = m.request
      OBVIOUS
    <3>2. \E d \in new : TRUE
      BY <1>6
    <3>3. delivered'[p] = delivered[p] \cup new
      BY <2>1
    <3> HIDE DEF new
    <3> QED
      BY <3>1, <3>2, <3>3
  <2>3. \A q \in Participant \ {p} : delivered'[q] = delivered[q]
    BY <1>1, <1>4
  <2> QED
    BY <1>1, <2>2, <2>3 DEF Answered
<1>7. CASE found = {}
  BY <1>1, <1>3, <1>5, <1>7
<1>8. CASE found # {}
  <2>1. PICK r \in Abstract!DoneBy(ch[1]) : r = m.request
    BY <1>2 DEF Abstract!DoneBy, Executed
  <2>2. Answered' = [Answered EXCEPT ![p] = @ \cup {r}]
    BY <1>6, <1>8, <2>1
  <2>3. Abstract!HandOver(p, r)
    BY <1>1, <1>3, <2>2 DEF Abstract!HandOver, Lanes, Answered
  <2> QED
    BY <1>1, <2>1, <2>3 DEF Abstract!Next
<1> QED
  BY <1>7, <1>8

(***************************************************************************)
(* Where the network may lose datagrams and does nothing else, and the     *)
(* operations return, the Java dispatchers implement RemoteOperations.     *)
(***************************************************************************)
THEOREM OperationsAreImplemented ==
  ASSUME Faults \subseteq {"lose"}
  PROVE  Spec => OperationsImplemented
<1>1. Init => Abstract!Init
  <2> SUFFICES ASSUME Init PROVE Abstract!Init
    OBVIOUS
  <2>1. \A p \in Participant : [i \in 1 .. Len(issued[p]) |-> DefaultLane] = <<>>
    <3> TAKE p \in Participant
    <3>1. 1 .. Len(issued[p]) = {}
      BY DEF Init
    <3> QED
      BY <3>1
  <2>2. \A p \in Participant : {d.answer : d \in delivered[p]} = {}
    BY DEF Init
  <2> QED
    BY <2>1, <2>2 DEF Init, Abstract!Init
<1>2. TypeInv /\ OrderInv /\ AnswersComeFromExecutions /\ [Next]_vars
        => [Abstract!Next]_<<Lanes, log, Answered>>
  <2> SUFFICES ASSUME TypeInv, OrderInv, AnswersComeFromExecutions, [Next]_vars
               PROVE  Abstract!Next \/ UNCHANGED <<Lanes, log, Answered>>
    OBVIOUS
  <2>1. CASE UNCHANGED <<issued, log, delivered>>
    BY <2>1 DEF Lanes, Answered
  <2>2. \A a \in App : ~ ExecuteFails(a)
    BY DEF ExecuteFails
  <2>3. \/ UNCHANGED <<issued, log, delivered>>
        \/ \E a \in App : Execute(a)
        \/ \E a \in Caller, method \in Required, withCallback \in BOOLEAN :
             IssueCall(a, method, withCallback)
        \/ \E ch \in Channel : Answer(ch)
    BY <2>2, Steps DEF RegisterCallback, HandleBegin, PassOver, HandleEnd, Receive,
                       Enqueue, Ignore, NetworkFault, vars
  <2> QED
    BY <2>1, <2>3, IssueImplemented, ExecuteImplemented, AnswerImplemented
<1> QED
  BY <1>1, <1>2, TypesKept, OrdersKept, AnswersAreReal, PTL
  DEF Spec, OperationsImplemented, Abstract!Spec, Abstract!ops, Lanes, Answered
=============================================================================
