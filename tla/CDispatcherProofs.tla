-------------------------- MODULE CDispatcherProofs --------------------------
(***************************************************************************)
(* Theorems about the remote operations of the C implementation            *)
(* (CDispatcher), for all participants, threads, interfaces, operations,   *)
(* queues, failures and bounds.                                            *)
(***************************************************************************)
EXTENDS CDispatcher, FiniteSetTheorems, SequenceLemmas, TLAPS

-----------------------------------------------------------------------------
(***************************************************************************)
(* The threads of p that have sent a call and not yet registered its       *)
(* callback: each will increment callId, which therefore stays within the  *)
(* number of calls.                                                        *)
(***************************************************************************)
Sending(p) == {a \in App : a[1] = p /\ worker[a].pc = "sent"}

CallsCounted ==
  \A p \in Participant :
    /\ Len(issued[p]) <= MaxCall
    /\ IsFiniteSet(Sending(p))
    /\ callId[p] + Cardinality(Sending(p)) <= Len(issued[p])
    /\ \A a \in Sending(p) : worker[a].n \in 1 .. Len(issued[p])

(* A thread in handleRequests is at a call of one of the queues.           *)
Busy(w) == worker[w].pc = "handling"

HandlersPlaced ==
  \A w \in Worker : Busy(w) => worker[w].q \in Queue /\ worker[w].i # 0

TypeInv == CDispatcherTypeOK /\ CallsCounted /\ HandlersPlaced

(* operationQueuesMutex keeps the others out of handleRequests.            *)
OneHandler ==
  \A v, w \in Worker : v[1] = w[1] /\ Busy(v) /\ Busy(w) => v = w

(***************************************************************************)
(* What was issued, and what carries it: a message is the call as it was   *)
(* issued, or its answer.                                                  *)
(***************************************************************************)
Numbered ==
  \A p \in Participant : \A i \in 1 .. Len(issued[p]) :
    /\ issued[p][i].request = <<p, i>>
    /\ issued[p][i].callId >= 0
    /\ IsCrud(issued[p][i]) => issued[p][i].callId = 0

Genuine(m) ==
  /\ m.request \in AllIssued
  /\ Issued(m.request) = IF IsAnswer(m) THEN Answer(m) ELSE m

Frames(w) == {net[w][i] : i \in 1 .. Len(net[w])}

FramesGenuine ==
  \A w \in Receiver : \A m \in Frames(w) :
    Genuine(m) /\ (~ IsAnswer(m) => m.request[1] = w[2])

(* What is in queue q of p: calls of others that chose that queue, and     *)
(* that p can execute.                                                     *)
Entries(p, q) == {queues[p][q][i] : i \in 1 .. Len(queues[p][q])} \ {NullCall}

Queueable(p, q, m) ==
  /\ Genuine(m)
  /\ ~ IsAnswer(m)
  /\ m.request[1] # p
  /\ QueueOf(m) = q
  /\ IsCrud(m) \/ m.mode # "synchronous"
  /\ Addressed(p, m)

EntriesGenuine ==
  \A p \in Participant : \A q \in Queue : \A m \in Entries(p, q) : Queueable(p, q, m)

RecordsIssued ==
  \A p \in Participant :
    /\ Elements(log[p]) \subseteq AllIssued
    /\ failed[p] \subseteq AllIssued
    /\ \A m \in live[p] : m.request \in AllIssued

(***************************************************************************)
(* What was executed, what is queued and what is in flight are in the      *)
(* order of issue.                                                         *)
(***************************************************************************)
Before(r, s) == r[1] = s[1] => r[2] < s[2]

EntriesOrdered ==
  \A p \in Participant : \A q \in Queue : \A i, j \in 1 .. Len(queues[p][q]) :
    i < j /\ queues[p][q][i] # NullCall /\ queues[p][q][j] # NullCall
      => Before(queues[p][q][i].request, queues[p][q][j].request)

ExecutedBeforeWaiting ==
  \A p \in Participant : \A r \in Elements(log[p]) : \A m \in WaitingCalls(p) :
    SameQueue(r, m.request) => Before(r, m.request)

SeenBeforeFrames ==
  \A w \in Receiver : \A m \in Frames(w) : ~ IsAnswer(m) =>
    /\ \A r \in Elements(log[w[1]]) : Before(r, m.request)
    /\ \A q \in Queue : \A n \in Entries(w[1], q) : Before(n.request, m.request)

FramesOrdered ==
  \A w \in Receiver : \A i, j \in 1 .. Len(net[w]) :
    i < j /\ ~ IsAnswer(net[w][i]) /\ ~ IsAnswer(net[w][j])
      => Before(net[w][i].request, net[w][j].request)

-----------------------------------------------------------------------------
(* The participant of a thread. *)
LEMMA WorkerParticipant ==
  /\ \A w \in Worker : w[1] \in Participant
  /\ \A w \in Receiver : w \in Worker /\ w[2] \in Participant /\ w[1] # w[2]
  /\ \A a \in App : a \in Worker
  /\ \A a \in Caller : a \in App
BY CDispatcherAssumption DEF Worker, App, Receiver

(* The fields of a call, which is none of the null pointers. *)
LEMMA CallFields ==
  \A m \in Call :
    /\ m.method \in Method
    /\ m.mode \in Mode
    /\ m.queue \in Queue
    /\ m.callId \in Int /\ -MaxCall <= m.callId /\ m.callId <= MaxCall
    /\ m.request \in Request
    /\ m.request[1] \in Participant
    /\ m.request[2] \in 1 .. MaxCall
    /\ m # NullCall
<1> SUFFICES ASSUME NEW m \in Call
             PROVE  /\ m.method \in Method
                    /\ m.mode \in Mode
                    /\ m.queue \in Queue
                    /\ m.callId \in Int /\ -MaxCall <= m.callId /\ m.callId <= MaxCall
                    /\ m.request \in Request
                    /\ m.request[1] \in Participant
                    /\ m.request[2] \in 1 .. MaxCall
                    /\ m # NullCall
  OBVIOUS
<1>1. /\ m.method \in Method
      /\ m.mode \in Mode
      /\ m.queue \in Queue
      /\ m.callId \in -MaxCall .. MaxCall
      /\ m.request \in Participant \X (1 .. MaxCall)
  BY DEF Call, Request
<1>2. DOMAIN m = {"method", "mode", "queue", "callId", "request"}
  BY DEF Call
<1>3. DOMAIN NullCall = {"method"}
  BY DEF NullCall
<1>4. m # NullCall
  BY <1>2, <1>3
<1> QED
  BY <1>1, <1>4, CDispatcherAssumption DEF Request

(* The answer to a call. *)
LEMMA AnswerFields ==
  ASSUME NEW m \in Call
  PROVE  /\ Answer(m) \in Call
         /\ Answer(m).callId = - m.callId
         /\ Answer(m).method = m.method
         /\ Answer(m).mode = m.mode
         /\ Answer(m).queue = m.queue
         /\ Answer(m).request = m.request
         /\ Answer(Answer(m)) = m
<1>1. m.callId \in -MaxCall .. MaxCall /\ MaxCall \in Nat
  BY CDispatcherAssumption DEF Call
<1>2. - m.callId \in -MaxCall .. MaxCall /\ -(- m.callId) = m.callId
  BY <1>1
<1> QED
  BY <1>2 DEF Answer, Call

(* The types of the containers, and of what is in them. *)
LEMMA Containers ==
  ASSUME CDispatcherTypeOK
  PROVE  /\ \A w \in Receiver : net[w] \in Seq(Call) /\ Frames(w) \subseteq Call
         /\ \A p \in Participant : \A q \in Queue :
              /\ queues[p][q] \in Seq(Call \cup {NullCall})
              /\ Entries(p, q) \subseteq Call
         /\ \A p \in Participant : /\ log[p] \in Seq(Request)
                                   /\ Elements(log[p]) \subseteq Request
                                   /\ issued[p] \in Seq(Call)
<1>1. \A w \in Receiver : net[w] \in Seq(Call)
  BY DEF CDispatcherTypeOK
<1>2. \A p \in Participant : \A q \in Queue : queues[p][q] \in Seq(Call \cup {NullCall})
  BY DEF CDispatcherTypeOK
<1>3. \A p \in Participant : log[p] \in Seq(Request) /\ issued[p] \in Seq(Call)
  BY DEF CDispatcherTypeOK
<1>4. \A w \in Receiver : Frames(w) \subseteq Call
  BY <1>1, ElementsInSet DEF Frames
<1>5. \A p \in Participant : \A q \in Queue : Entries(p, q) \subseteq Call
  BY <1>2, ElementsInSet DEF Entries
<1>6. \A p \in Participant : Elements(log[p]) \subseteq Request
  <2> SUFFICES ASSUME NEW p \in Participant PROVE Elements(log[p]) \subseteq Request
    OBVIOUS
  <2>1. DOMAIN log[p] = 1 .. Len(log[p])
    BY <1>3
  <2> QED
    BY <1>3, <2>1, ElementsInSet DEF Elements
<1> QED
  BY <1>1, <1>2, <1>3, <1>4, <1>5, <1>6

(***************************************************************************)
(* What a step does to a channel: it takes the first frame, adds one, or   *)
(* both.                                                                   *)
(***************************************************************************)
LEMMA TakenFrames ==
  ASSUME CDispatcherTypeOK, NEW w \in Receiver, net[w] # <<>>
  PROVE  /\ Taken(w) \in [Receiver -> Seq(Call)]
         /\ Frame(w) \in Call
         /\ Frame(w) \in Frames(w)
         /\ Taken(w)[w] = Tail(net[w])
         /\ \A v \in Receiver \ {w} : Taken(w)[v] = net[v]
<1>1. net \in [Receiver -> Seq(Call)] /\ net[w] \in Seq(Call)
  BY DEF CDispatcherTypeOK
<1>2. Tail(net[w]) \in Seq(Call) /\ Head(net[w]) \in Call
  BY <1>1, TailIndex
<1>3. Frame(w) \in Frames(w)
  BY <1>1, TailElements DEF Frame, Frames
<1> QED
  BY <1>1, <1>2, <1>3 DEF Taken, Frame

LEMMA SentFrames ==
  ASSUME NEW n \in [Receiver -> Seq(Call)], NEW p, NEW m \in Call
  PROVE  /\ Sent(n, p, m) \in [Receiver -> Seq(Call)]
         /\ \A v \in Receiver :
              Sent(n, p, m)[v] = IF v[2] = p THEN Append(n[v], m) ELSE n[v]
<1>1. \A v \in Receiver : Append(n[v], m) \in Seq(Call)
  BY AppendIndex
<1> QED
  BY <1>1 DEF Sent

-----------------------------------------------------------------------------
(* Who is sending, after the step of thread w. *)
LEMMA SendingAfter ==
  ASSUME CDispatcherTypeOK, NEW w \in Worker, NEW s,
         worker' = [worker EXCEPT ![w] = s]
  PROVE  \A p \in Participant :
           Sending(p)' = IF w \in App /\ w[1] = p /\ s.pc = "sent"
                         THEN Sending(p) \cup {w} ELSE Sending(p) \ {w}
BY WorkerParticipant DEF Sending, CDispatcherTypeOK

(* A step of a thread that neither sends nor registers. *)
LEMMA CountKept ==
  ASSUME TypeInv, NEW w \in Worker, NEW s, s.pc # "sent", worker[w].pc # "sent",
         worker' = [worker EXCEPT ![w] = s], UNCHANGED <<issued, callId>>
  PROVE  CallsCounted'
<1>1. \A p \in Participant : Sending(p)' = Sending(p)
  BY SendingAfter DEF TypeInv, Sending
<1>2. \A p \in Participant : \A b \in Sending(p) : worker'[b] = worker[b]
  BY WorkerParticipant DEF Sending, TypeInv, CDispatcherTypeOK
<1> QED
  BY <1>1, <1>2 DEF TypeInv, CallsCounted

(* A step that moves no thread. *)
LEMMA CountUnchanged ==
  ASSUME TypeInv, UNCHANGED <<issued, callId, worker>>
  PROVE  CallsCounted' /\ HandlersPlaced'
BY DEF TypeInv, CallsCounted, Sending, HandlersPlaced, Busy

(* The states that a thread gets into are states; so is that of a caller. *)
LEMMA StatesTyped ==
  /\ Idle \in WorkerState /\ Idle.pc = "idle"
  /\ Immediate \in WorkerState /\ Immediate.pc = "immediate"
  /\ Ended \in WorkerState /\ Ended.pc = "ended"
  /\ \A q \in Queue : /\ Handling(q) \in WorkerState
                      /\ Handling(q).pc = "handling"
                      /\ Handling(q).q = q
                      /\ Handling(q).i = 1
BY CDispatcherAssumption DEF Idle, Immediate, Ended, Handling, WorkerState, Queue

LEMMA CallingTyped ==
  ASSUME NEW n \in 0 .. MaxCall
  PROVE  Calling(n) \in WorkerState /\ Calling(n).pc = "sent" /\ Calling(n).n = n
BY CDispatcherAssumption DEF Calling, WorkerState

(* Where a thread in handleRequests goes on. *)
LEMMA NextQueueTyped ==
  ASSUME TypeInv, NEW w \in Worker, Busy(w)
  PROVE  /\ NextQueue(w) \in WorkerState
         /\ NextQueue(w).pc = "handling" => /\ NextQueue(w).q \in Queue
                                            /\ NextQueue(w).q # worker[w].q
                                            /\ NextQueue(w).i = 1
         /\ NextQueue(w).pc # "sent"
<1>1. worker[w].q \in Queue
  BY DEF TypeInv, HandlersPlaced
<1>2. CASE alive[w[1]] /\ worker[w].q < QueueCount
  <2>1. worker[w].q + 1 \in Queue /\ worker[w].q + 1 # worker[w].q
    BY <1>1, <1>2, CDispatcherAssumption DEF Queue
  <2> QED
    BY <1>2, <2>1, StatesTyped DEF NextQueue
<1>3. CASE ~ (alive[w[1]] /\ worker[w].q < QueueCount)
  BY <1>3, StatesTyped DEF NextQueue
<1> QED
  BY <1>2, <1>3

(* The call that a thread in handleRequests is at. *)
LEMMA CurrentTyped ==
  ASSUME TypeInv, NEW w \in Worker, Executing(w)
  PROVE  /\ Busy(w)
         /\ w[1] \in Participant
         /\ worker[w].q \in Queue
         /\ worker[w].i \in 1 .. Len(queues[w[1]][worker[w].q])
         /\ Current(w) = queues[w[1]][worker[w].q][worker[w].i]
         /\ Current(w) \in Call
         /\ Current(w) \in Entries(w[1], worker[w].q)
<1>1. Busy(w) /\ w[1] \in Participant /\ worker[w].q \in Queue /\ worker[w].i # 0
  BY WorkerParticipant DEF Executing, At, Busy, TypeInv, HandlersPlaced
<1>2. worker[w].i \in Nat
  BY DEF TypeInv, CDispatcherTypeOK, WorkerState
<1>3. worker[w].i \in 1 .. Len(queues[w[1]][worker[w].q])
  BY <1>1, <1>2, Containers DEF Executing, HasCurrent, Pending, TypeInv
<1>4. Current(w) = queues[w[1]][worker[w].q][worker[w].i]
  BY DEF Current, Pending
<1>5. Current(w) \in Entries(w[1], worker[w].q)
  BY <1>3, <1>4 DEF Entries, Executing
<1> QED
  BY <1>1, <1>3, <1>4, <1>5, Containers DEF TypeInv

(* The message of a new call. *)
CallMessage(p, c) ==
  [method |-> c[1], mode |-> c[2], queue |-> c[3],
   callId |-> IF c[4] THEN callId[p] ELSE 0,
   request |-> <<p, Len(issued[p]) + 1>>]

LEMMA CallTyped ==
  ASSUME TypeInv, NEW p \in Participant, NEW c \in Callable, Len(issued[p]) < MaxCall
  PROVE  CallMessage(p, c) \in Call
<1>1. c[1] \in Method /\ c[2] \in Mode /\ c[3] \in Queue
  BY CDispatcherAssumption
<1>2. /\ callId[p] \in 0 .. MaxCall
      /\ Len(issued[p]) \in Nat
      /\ MaxCall \in Nat
  BY CDispatcherAssumption DEF TypeInv, CDispatcherTypeOK
<1>3. (IF c[4] THEN callId[p] ELSE 0) \in -MaxCall .. MaxCall
  BY <1>2
<1>4. <<p, Len(issued[p]) + 1>> \in Request
  BY <1>2 DEF Request
<1> QED
  BY <1>1, <1>3, <1>4 DEF CallMessage, Call

(* What IssueCall does. *)
LEMMA IssueEffect ==
  ASSUME NEW a \in Caller, NEW c \in Callable, IssueCall(a, c[1], c[2], c[3], c[4])
  PROVE  /\ a[1] \in Participant
         /\ Len(issued[a[1]]) < MaxCall
         /\ worker[a].pc = "idle"
         /\ issued' = [issued EXCEPT ![a[1]] = Append(@, CallMessage(a[1], c))]
         /\ net' = Sent(net, a[1], CallMessage(a[1], c))
         /\ IsCrud(CallMessage(a[1], c)) => CallMessage(a[1], c).callId = 0
         /\ worker' = IF c[4]
                      THEN [worker EXCEPT ![a] = Calling(Len(issued[a[1]]) + 1)]
                      ELSE worker
         /\ UNCHANGED <<callId, callbacks, queues, live, alive, crashed, log, failed,
                        delivered, unknown>>
BY CDispatcherAssumption DEF IssueCall, CallMessage, At, IsCrud

LEMMA IssueTyping ==
  ASSUME TypeInv, NEW a \in Caller, NEW c \in Callable,
         IssueCall(a, c[1], c[2], c[3], c[4])
  PROVE  TypeInv'
<1> DEFINE p == a[1]
           i == Len(issued[p]) + 1
           m == CallMessage(p, c)
           s == Calling(i)
<1>1. a \in App /\ a \in Worker /\ p \in Participant
  BY WorkerParticipant
<1>2. /\ Len(issued[p]) < MaxCall
      /\ worker[a].pc = "idle"
      /\ issued' = [issued EXCEPT ![p] = Append(@, m)]
      /\ net' = Sent(net, p, m)
      /\ UNCHANGED <<callId, callbacks, queues, live, alive, crashed, log, failed,
                     delivered, unknown>>
  BY IssueEffect
<1>3. worker' = IF c[4] THEN [worker EXCEPT ![a] = s] ELSE worker
  BY IssueEffect
<1>4. m \in Call
  BY <1>1, <1>2, CallTyped
<1>5. net' \in [Receiver -> Seq(Call)]
  BY <1>2, <1>4, SentFrames DEF TypeInv, CDispatcherTypeOK
<1>6. issued[p] \in Seq(Call) /\ i \in 1 .. MaxCall
  BY <1>1, <1>2, CDispatcherAssumption DEF TypeInv, CDispatcherTypeOK
<1>7. /\ issued' \in [Participant -> Seq(Call)]
      /\ Len(issued'[p]) = i
      /\ \A q \in Participant \ {p} : issued'[q] = issued[q]
  <2> HIDE DEF m
  <2> QED
    BY <1>1, <1>2, <1>4, <1>6, AppendIndex DEF TypeInv, CDispatcherTypeOK
<1>8. /\ s \in WorkerState /\ s.pc = "sent" /\ s.n = i
  <2>1. i \in 0 .. MaxCall
    BY <1>6, CDispatcherAssumption
  <2> QED
    BY <2>1, CallingTyped
<1> HIDE DEF s, m
<1>9. worker' \in [Worker -> WorkerState]
  BY <1>1, <1>3, <1>8 DEF TypeInv, CDispatcherTypeOK
<1>10. CDispatcherTypeOK'
  BY <1>2, <1>5, <1>7, <1>9 DEF TypeInv, CDispatcherTypeOK
<1>11. HandlersPlaced'
  BY <1>1, <1>3, <1>8 DEF TypeInv, CDispatcherTypeOK, HandlersPlaced, Busy
<1>12. \A q \in Participant :
         /\ Cardinality(Sending(q)) \in Nat
         /\ Len(issued[q]) \in Nat
         /\ Len(issued'[q]) \in Nat
         /\ Len(issued[q]) <= Len(issued'[q])
         /\ Len(issued'[q]) <= MaxCall
         /\ callId[q] \in Nat
  <2>1. \A q \in Participant :
          Cardinality(Sending(q)) \in Nat /\ Len(issued[q]) \in Nat /\ callId[q] \in Nat
    BY FS_CardinalityType DEF TypeInv, CallsCounted, CDispatcherTypeOK
  <2>2. ASSUME NEW q \in Participant
        PROVE  /\ Len(issued'[q]) \in Nat
               /\ Len(issued[q]) <= Len(issued'[q])
               /\ Len(issued'[q]) <= MaxCall
    <3>1. CASE q = p
      BY <1>6, <1>7, <2>1, <3>1
    <3>2. CASE q # p
      BY <1>7, <2>1, <3>2 DEF TypeInv, CallsCounted
    <3> QED
      BY <3>1, <3>2
  <2> QED
    BY <2>1, <2>2
<1>13. CASE ~ c[4]
  <2>1. \A q \in Participant : Sending(q)' = Sending(q)
    BY <1>3, <1>13 DEF Sending
  <2>2. CallsCounted'
    BY <1>2, <1>3, <1>12, <1>13, <2>1 DEF TypeInv, CallsCounted
  <2> QED
    BY <1>10, <1>11, <2>2 DEF TypeInv
<1>14. CASE c[4]
  <2>1. \A q \in Participant : Sending(q)' = IF p = q THEN Sending(q) \cup {a}
                                                      ELSE Sending(q) \ {a}
    BY <1>1, <1>3, <1>8, <1>14, SendingAfter DEF TypeInv
  <2>2. \A q \in Participant : a \notin Sending(q)
    BY <1>2 DEF Sending
  <2>3. /\ Sending(p)' = Sending(p) \cup {a}
        /\ \A q \in Participant \ {p} : Sending(q)' = Sending(q)
    BY <1>1, <2>1, <2>2
  <2>4. /\ IsFiniteSet(Sending(p)')
        /\ Cardinality(Sending(p)') = Cardinality(Sending(p)) + 1
    BY <1>1, <2>2, <2>3, FS_AddElement DEF TypeInv, CallsCounted
  <2>5. \A q \in Participant : \A b \in Sending(q) : worker'[b] = worker[b]
    BY <1>3, <1>14, <2>2, WorkerParticipant DEF TypeInv, CDispatcherTypeOK, Sending
  <2>6. worker'[a].n = i
    BY <1>1, <1>3, <1>8, <1>14 DEF TypeInv, CDispatcherTypeOK
  <2>7. ASSUME NEW q \in Participant \ {p}
        PROVE  CallsCounted!(q)'
    BY <1>2, <1>7, <2>3, <2>5, SMTT(30) DEF TypeInv, CallsCounted
  <2>8. CallsCounted!(p)'
    <3>1. callId'[p] + Cardinality(Sending(p)') <= Len(issued'[p])
      BY <1>1, <1>2, <1>7, <1>12, <2>4 DEF TypeInv, CallsCounted
    <3>2. \A b \in Sending(p)' : worker'[b].n \in 1 .. Len(issued'[p])
      BY <1>1, <1>6, <1>7, <2>3, <2>5, <2>6 DEF TypeInv, CallsCounted
    <3> QED
      BY <1>1, <1>12, <2>4, <3>1, <3>2
  <2> QED
    BY <1>10, <1>11, <2>7, <2>8 DEF TypeInv, CallsCounted
<1> QED
  BY <1>13, <1>14

LEMMA RegisterTyping ==
  ASSUME TypeInv, NEW a \in Caller, RegisterCallback(a)
  PROVE  TypeInv'
<1> DEFINE p == a[1]
           n == worker[a].n
<1>1. /\ worker[a].pc = "sent"
      /\ callbacks' = [callbacks EXCEPT ![p] = {b \in @ : b[1] # Field(p)}
                                                 \cup {<<Field(p), <<p, n>>>>}]
      /\ callId' = [callId EXCEPT ![p] = @ + 1]
      /\ worker' = [worker EXCEPT ![a] = Idle]
      /\ UNCHANGED <<issued, queues, net, live, alive, crashed, log, failed, delivered,
                     unknown>>
  BY DEF RegisterCallback, At
<1>2. p \in Participant /\ a \in App /\ a \in Worker /\ a \in Sending(p)
  BY <1>1, WorkerParticipant DEF Sending
<1>3. n \in 1 .. MaxCall
  BY <1>2, CDispatcherAssumption DEF TypeInv, CDispatcherTypeOK, CallsCounted
<1>4. Cardinality(Sending(p)) \in Nat \ {0}
  BY <1>2, FS_EmptySet, FS_CardinalityType DEF TypeInv, CallsCounted
<1>5. callId[p] \in Nat /\ Len(issued[p]) \in Nat /\ callId[p] + 1 <= Len(issued[p])
      /\ callId[p] + 1 \in 0 .. MaxCall
  BY <1>2, <1>4, CDispatcherAssumption DEF TypeInv, CDispatcherTypeOK, CallsCounted
<1>6. /\ callId' \in [Participant -> 0 .. MaxCall]
      /\ callId'[p] = callId[p] + 1
      /\ \A q \in Participant \ {p} : callId'[q] = callId[q]
  BY <1>1, <1>2, <1>5 DEF TypeInv, CDispatcherTypeOK
<1>7. CDispatcherTypeOK'
  <2>1. worker' \in [Worker -> WorkerState]
    BY <1>1, StatesTyped DEF TypeInv, CDispatcherTypeOK
  <2>2. callbacks' \in [Participant -> SUBSET ({Field(q) : q \in Participant} \X Request)]
    BY <1>1, <1>2, <1>3 DEF TypeInv, CDispatcherTypeOK, Request
  <2> QED
    BY <1>1, <1>6, <2>1, <2>2 DEF TypeInv, CDispatcherTypeOK
<1>8. \A q \in Participant : Sending(q)' = Sending(q) \ {a}
  BY <1>1, <1>2, StatesTyped, SendingAfter DEF TypeInv
<1>9. \A q \in Participant \ {p} : Sending(q)' = Sending(q)
  BY <1>8 DEF Sending
<1>10. \A q \in Participant : \A b \in Sending(q)' : worker'[b] = worker[b]
  BY <1>1, <1>8, WorkerParticipant DEF TypeInv, CDispatcherTypeOK, Sending
<1>11. /\ IsFiniteSet(Sending(p)')
       /\ Cardinality(Sending(p)') = Cardinality(Sending(p)) - 1
  BY <1>2, <1>8, FS_RemoveElement DEF TypeInv, CallsCounted
<1>12. CallsCounted!(p)'
  BY <1>1, <1>2, <1>4, <1>5, <1>6, <1>8, <1>10, <1>11 DEF TypeInv, CallsCounted
<1>13. ASSUME NEW q \in Participant \ {p}
       PROVE  CallsCounted!(q)'
  BY <1>1, <1>6, <1>9, <1>10 DEF TypeInv, CallsCounted
<1>14. HandlersPlaced'
  BY <1>1, StatesTyped DEF TypeInv, CDispatcherTypeOK, HandlersPlaced, Busy
<1> QED
  BY <1>7, <1>12, <1>13, <1>14 DEF TypeInv, CallsCounted

(* A queue that takes one more entry keeps the others. *)
LEMMA AppendTyped ==
  ASSUME CDispatcherTypeOK, NEW p \in Participant, NEW q \in Queue,
         NEW c \in Call \cup {NullCall}, queues' = Queued(p, q, c)
  PROVE  /\ queues' \in [Participant -> [Queue -> Seq(Call \cup {NullCall})]]
         /\ queues'[p][q] = Append(queues[p][q], c)
         /\ \A r \in Participant, t \in Queue :
              r # p \/ t # q => queues'[r][t] = queues[r][t]
<1>1. queues \in [Participant -> [Queue -> Seq(Call \cup {NullCall})]]
  BY DEF CDispatcherTypeOK
<1>2. Append(queues[p][q], c) \in Seq(Call \cup {NullCall})
  BY <1>1, AppendIndex
<1>3. queues' = [queues EXCEPT ![p][q] = Append(@, c)]
  BY DEF Queued
<1> QED
  BY <1>1, <1>2, <1>3

(* One that is cleared too. *)
LEMMA ClearedTyped ==
  ASSUME TypeInv, NEW w \in Worker, Busy(w), queues' = Cleared(w)
  PROVE  /\ queues' \in [Participant -> [Queue -> Seq(Call \cup {NullCall})]]
         /\ queues'[w[1]][worker[w].q] = <<>>
         /\ \A r \in Participant, t \in Queue :
              r # w[1] \/ t # worker[w].q => queues'[r][t] = queues[r][t]
<1>1. queues \in [Participant -> [Queue -> Seq(Call \cup {NullCall})]]
  BY DEF TypeInv, CDispatcherTypeOK
<1>2. w[1] \in Participant /\ worker[w].q \in Queue
  BY WorkerParticipant DEF TypeInv, HandlersPlaced
<1>3. queues' = [queues EXCEPT ![w[1]][worker[w].q] = <<>>]
  BY DEF Cleared
<1> QED
  BY <1>1, <1>2, <1>3

(* What the receiver of a participant finds, and does with it. *)
LEMMA ReceivingTyped ==
  ASSUME TypeInv, NEW w \in Receiver, Receiving(w)
  PROVE  /\ w \in Worker /\ w[1] \in Participant
         /\ worker[w].pc = "idle"
         /\ net[w] # <<>>
         /\ Frame(w) \in Call
         /\ Frame(w) \in Frames(w)
         /\ QueueOf(Frame(w)) \in Queue
<1>1. Frame(w) \in Call /\ Frame(w) \in Frames(w)
  BY TakenFrames DEF Receiving, TypeInv
<1>2. DefaultQueue \in Queue
  BY CDispatcherAssumption DEF DefaultQueue, Queue
<1> QED
  BY <1>1, <1>2, WorkerParticipant, CallFields DEF Receiving, At, QueueOf

(* A frame that arrives is queued, or something else happens to it.        *)
LEMMA ReceiveNet ==
  ASSUME TypeInv, NEW w \in Receiver, Receive(w)
  PROVE  /\ Receiving(w)
         /\ \/ net' = Taken(w)
            \/ /\ RunSynchronously(w)
               /\ Frame(w).callId # 0
               /\ net' = Sent(Taken(w), w[1], Answer(Frame(w)))
         /\ net' \in [Receiver -> Seq(Call)]
<1>1. Receiving(w)
  BY DEF Receive, Discard, NoArguments, Enqueue, Queueing, QueueFull, NoCrudCall, NoCall,
         Ignore, UnknownOperation, RunSynchronously, ReceiveAnswer
<1>2. RunSynchronously(w) =>
        \/ net' = Taken(w)
        \/ Frame(w).callId # 0 /\ net' = Sent(Taken(w), w[1], Answer(Frame(w)))
  BY DEF RunSynchronously
<1>3. \/ net' = Taken(w)
      \/ /\ RunSynchronously(w)
         /\ Frame(w).callId # 0
         /\ net' = Sent(Taken(w), w[1], Answer(Frame(w)))
  BY <1>2 DEF Receive, Discard, NoArguments, Enqueue, QueueFull, NoCrudCall, NoCall,
              Ignore, UnknownOperation, ReceiveAnswer
<1>4. /\ Taken(w) \in [Receiver -> Seq(Call)]
      /\ Answer(Frame(w)) \in Call
  BY <1>1, TakenFrames, AnswerFields DEF Receiving, TypeInv
<1>5. Sent(Taken(w), w[1], Answer(Frame(w))) \in [Receiver -> Seq(Call)]
  BY <1>4, SentFrames
<1> QED
  BY <1>1, <1>3, <1>4, <1>5

LEMMA ReceiveTyping ==
  ASSUME TypeInv, NEW w \in Receiver, Receive(w)
  PROVE  TypeInv'
<1> DEFINE p == w[1]
           m == Frame(w)
<1>1. /\ Receiving(w)
      /\ net' \in [Receiver -> Seq(Call)]
  BY ReceiveNet
<1>2. /\ w \in Worker /\ p \in Participant
      /\ worker[w].pc = "idle"
      /\ m \in Call
      /\ QueueOf(m) \in Queue
  BY <1>1, ReceivingTyped
<1>3. m.request \in Request /\ m.queue \in Queue
  BY <1>2, CallFields
<1>4. UNCHANGED <<issued, callId, callbacks, alive, crashed>>
  BY DEF Receive, Discard, NoArguments, Enqueue, QueueFull, NoCrudCall, NoCall, Ignore,
         UnknownOperation, RunSynchronously, ReceiveAnswer, Fails
<1>5. PICK s \in {Idle, Immediate, Ended, worker[w]} : worker' = [worker EXCEPT ![w] = s]
  <2>1. UNCHANGED worker => worker' = [worker EXCEPT ![w] = worker[w]]
    BY DEF TypeInv, CDispatcherTypeOK
  <2> QED
    BY <2>1 DEF Receive, Discard, NoArguments, Enqueue, QueueFull, NoCrudCall, NoCall,
       Ignore, UnknownOperation, RunSynchronously, ReceiveAnswer, AfterQueueing
<1>6. s \in WorkerState /\ s.pc \notin {"sent", "handling"}
  BY <1>2, <1>5, StatesTyped DEF TypeInv, CDispatcherTypeOK
<1>7. /\ worker' \in [Worker -> WorkerState]
      /\ CallsCounted'
      /\ HandlersPlaced'
  <2>1. worker' \in [Worker -> WorkerState]
    BY <1>5, <1>6 DEF TypeInv, CDispatcherTypeOK
  <2>2. CallsCounted'
    BY <1>2, <1>4, <1>5, <1>6, CountKept
  <2>3. HandlersPlaced'
    BY <1>2, <1>5, <1>6 DEF TypeInv, CDispatcherTypeOK, HandlersPlaced, Busy
  <2> QED
    BY <2>1, <2>2, <2>3
<1>8. queues' \in [Participant -> [Queue -> Seq(Call \cup {NullCall})]]
  <2>1. Enqueue(w) => queues' = Queued(p, QueueOf(m), m)
    BY DEF Enqueue
  <2>2. NoCall(w) => queues' = Queued(p, m.queue, NullCall)
    BY DEF NoCall
  <2>3. UNCHANGED queues \/ Enqueue(w) \/ NoCall(w)
    BY DEF Receive, Discard, NoArguments, QueueFull, NoCrudCall, Ignore, UnknownOperation,
           RunSynchronously, ReceiveAnswer
  <2>4. UNCHANGED queues => queues' \in [Participant -> [Queue -> Seq(Call \cup {NullCall})]]
    BY DEF TypeInv, CDispatcherTypeOK
  <2> QED
    BY <1>2, <1>3, <2>1, <2>2, <2>3, <2>4, AppendTyped DEF TypeInv
<1>9. live' \in [Participant -> SUBSET Call]
  <2>1. \E L \in SUBSET Call : live' = [live EXCEPT ![p] = L]
    <3>1. live[p] \in SUBSET Call /\ live[p] \cup {m} \in SUBSET Call
          /\ live = [live EXCEPT ![p] = live[p]]
      BY <1>2 DEF TypeInv, CDispatcherTypeOK
    <3> QED
      BY <3>1 DEF Receive, Discard, NoArguments, Enqueue, QueueFull, NoCrudCall, NoCall,
         Ignore, UnknownOperation, RunSynchronously, ReceiveAnswer, Fails
  <2> QED
    BY <2>1, <1>2 DEF TypeInv, CDispatcherTypeOK
<1>10. failed' \in [Participant -> SUBSET Request]
  <2>1. failed[p] \in SUBSET Request /\ failed[p] \cup {m.request} \in SUBSET Request
        /\ failed = [failed EXCEPT ![p] = failed[p]]
    BY <1>2, <1>3 DEF TypeInv, CDispatcherTypeOK
  <2>2. \E F \in SUBSET Request : failed' = [failed EXCEPT ![p] = F]
    BY <2>1 DEF Receive, Discard, NoArguments, Enqueue, QueueFull, NoCrudCall, NoCall,
       Ignore, UnknownOperation, RunSynchronously, ReceiveAnswer, Fails
  <2> QED
    BY <2>2, <1>2 DEF TypeInv, CDispatcherTypeOK
<1>11. log' \in [Participant -> Seq(Request)]
  <2>1. Append(log[p], m.request) \in Seq(Request)
    BY <1>2, <1>3, AppendIndex DEF TypeInv, CDispatcherTypeOK
  <2>2. UNCHANGED log \/ log' = [log EXCEPT ![p] = Append(@, m.request)]
    BY DEF Receive, Discard, NoArguments, Enqueue, QueueFull, NoCrudCall, NoCall, Ignore,
           UnknownOperation, RunSynchronously, ReceiveAnswer, Fails
  <2> QED
    BY <1>2, <2>1, <2>2 DEF TypeInv, CDispatcherTypeOK
<1>12. /\ delivered' \in [Participant -> SUBSET Request]
       /\ unknown' \in [Participant -> SUBSET Request]
  <2>1. CASE ReceiveAnswer(w)
    <3>1. {b[2] : b \in CallbackFound(w)} \subseteq Request
      BY <1>2 DEF CallbackFound, TypeInv, CDispatcherTypeOK
    <3> QED
      BY <1>2, <1>3, <2>1, <3>1 DEF ReceiveAnswer, TypeInv, CDispatcherTypeOK
  <2>2. CASE UNCHANGED <<delivered, unknown>>
    BY <2>2 DEF TypeInv, CDispatcherTypeOK
  <2> QED
    BY <2>1, <2>2 DEF Receive, Discard, NoArguments, Enqueue, QueueFull, NoCrudCall, NoCall,
       Ignore, UnknownOperation, RunSynchronously, Fails
<1> QED
  BY <1>1, <1>4, <1>7, <1>8, <1>9, <1>10, <1>11, <1>12 DEF TypeInv, CDispatcherTypeOK

(* A thread in handleRequests moves on by a call, or to the next queue.    *)
LEMMA HandleMoves ==
  ASSUME TypeInv, NEW w \in Worker, Handle(w)
  PROVE  /\ w[1] \in Participant
         /\ worker[w].pc # "sent"
         /\ \E s \in WorkerState :
              /\ worker' = [worker EXCEPT ![w] = s]
              /\ s.pc # "sent"
              /\ s.pc = "handling" => s.q \in Queue /\ s.i # 0
         /\ UNCHANGED <<issued, callId, callbacks, alive, delivered, unknown>>
<1>1. w[1] \in Participant /\ worker[w] \in WorkerState
      /\ worker = [worker EXCEPT ![w] = worker[w]]
  BY WorkerParticipant DEF TypeInv, CDispatcherTypeOK
<1>2. worker[w].pc # "sent"
  BY WorkerParticipant, CDispatcherAssumption
  DEF Handle, HandleBegin, Run, RunFails, RunNull, ClearQueue, Executing, At
<1>3. UNCHANGED <<issued, callId, callbacks, alive, delivered, unknown>>
  BY DEF Handle, HandleBegin, Run, RunFails, RunNull, ClearQueue
<1>4. CASE HandleBegin(w)
  <2>1. 1 \in Queue
    BY CDispatcherAssumption DEF Queue
  <2> DEFINE s == Handling(1)
  <2>2. s \in WorkerState /\ s.pc # "sent" /\ s.q \in Queue /\ s.i # 0
    BY <2>1, StatesTyped
  <2>3. worker' = [worker EXCEPT ![w] = s]
    BY <1>4 DEF HandleBegin
  <2> HIDE DEF s
  <2> QED
    BY <1>1, <1>2, <1>3, <2>2, <2>3
<1>5. CASE Run(w)
  <2> DEFINE s == [worker[w] EXCEPT !.i = @ + 1]
  <2>1. worker' = [worker EXCEPT ![w] = s]
    BY <1>5 DEF Run
  <2>2. Executing(w)
    BY <1>5 DEF Run
  <2>3. worker[w].q \in Queue /\ worker[w].i \in Nat \ {0} /\ Busy(w)
    BY <2>2, CurrentTyped
  <2>4. s \in WorkerState /\ s.pc = "handling" /\ s.q = worker[w].q /\ s.i # 0
    BY <1>1, <2>3 DEF WorkerState, Busy
  <2> HIDE DEF s
  <2> QED
    BY <1>1, <1>2, <1>3, <2>1, <2>3, <2>4
<1>6. CASE RunFails(w) \/ ClearQueue(w)
  <2>1. Busy(w) /\ worker' = [worker EXCEPT ![w] = NextQueue(w)]
    BY <1>6 DEF RunFails, ClearQueue, Executing, At, Busy
  <2>2. /\ NextQueue(w) \in WorkerState
        /\ NextQueue(w).pc # "sent"
        /\ NextQueue(w).pc = "handling" => NextQueue(w).q \in Queue /\ NextQueue(w).i # 0
    BY <2>1, NextQueueTyped
  <2> QED
    BY <1>1, <1>2, <1>3, <2>1, <2>2
<1>7. CASE RunNull(w)
  <2>1. worker' = worker /\ Busy(w)
    BY <1>7 DEF RunNull, At, Busy
  <2> QED
    BY <1>1, <1>2, <1>3, <2>1 DEF TypeInv, HandlersPlaced
<1> QED
  BY <1>4, <1>5, <1>6, <1>7 DEF Handle

LEMMA HandleTyping ==
  ASSUME TypeInv, NEW w \in Worker, Handle(w)
  PROVE  TypeInv'
<1> DEFINE p == w[1]
<1>1. p \in Participant /\ worker[w].pc # "sent"
      /\ UNCHANGED <<issued, callId, callbacks, alive, delivered, unknown>>
  BY HandleMoves
<1>2. PICK s \in WorkerState : /\ worker' = [worker EXCEPT ![w] = s]
                               /\ s.pc # "sent"
                               /\ s.pc = "handling" => s.q \in Queue /\ s.i # 0
  BY HandleMoves
<1>3. /\ worker' \in [Worker -> WorkerState]
      /\ CallsCounted'
      /\ HandlersPlaced'
  <2>1. worker' \in [Worker -> WorkerState]
    BY <1>2 DEF TypeInv, CDispatcherTypeOK
  <2>2. CallsCounted'
    BY <1>1, <1>2, CountKept
  <2>3. HandlersPlaced'
    BY <1>2 DEF TypeInv, CDispatcherTypeOK, HandlersPlaced, Busy
  <2> QED
    BY <2>1, <2>2, <2>3
<1>4. queues' \in [Participant -> [Queue -> Seq(Call \cup {NullCall})]]
  <2>1. CASE UNCHANGED queues
    BY <2>1 DEF TypeInv, CDispatcherTypeOK
  <2>2. CASE RunFails(w) \/ ClearQueue(w)
    <3>1. Busy(w) /\ queues' = Cleared(w)
      BY <2>2 DEF RunFails, ClearQueue, Executing, At, Busy
    <3> QED
      BY <3>1, ClearedTyped
  <2> QED
    BY <2>1, <2>2 DEF Handle, HandleBegin, Run, RunNull
<1>5. Executing(w) => /\ Current(w) \in Call /\ Current(w).request \in Request
                      /\ Append(log[p], Current(w).request) \in Seq(Request)
  BY <1>1, CurrentTyped, CallFields, AppendIndex DEF TypeInv, CDispatcherTypeOK
<1>6. CASE Run(w)
  <2>1. net' \in [Receiver -> Seq(Call)]
    <3>1. Answer(Current(w)) \in Call
      BY <1>5, <1>6, AnswerFields DEF Run
    <3>2. net' = net \/ net' = Sent(net, p, Answer(Current(w)))
      BY <1>6 DEF Run
    <3>3. net \in [Receiver -> Seq(Call)]
      BY DEF TypeInv, CDispatcherTypeOK
    <3>4. Sent(net, p, Answer(Current(w))) \in [Receiver -> Seq(Call)]
      BY <3>1, <3>3, SentFrames
    <3> QED
      BY <3>2, <3>3, <3>4
  <2>2. log' \in [Participant -> Seq(Request)]
    BY <1>1, <1>5, <1>6 DEF Run, TypeInv, CDispatcherTypeOK
  <2>3. live' \in [Participant -> SUBSET Call]
    BY <1>6 DEF Run, Released, TypeInv, CDispatcherTypeOK
  <2> QED
    BY <1>1, <1>3, <1>4, <1>6, <2>1, <2>2, <2>3 DEF Run, TypeInv, CDispatcherTypeOK
<1>7. CASE RunFails(w)
  <2>1. log' \in [Participant -> Seq(Request)]
    BY <1>1, <1>5, <1>7 DEF RunFails, TypeInv, CDispatcherTypeOK
  <2>2. failed' \in [Participant -> SUBSET Request]
    BY <1>1, <1>5, <1>7 DEF RunFails, TypeInv, CDispatcherTypeOK
  <2> QED
    BY <1>1, <1>3, <1>4, <1>7, <2>1, <2>2 DEF RunFails, TypeInv, CDispatcherTypeOK
<1>8. CASE HandleBegin(w) \/ RunNull(w) \/ ClearQueue(w)
  <2>1. UNCHANGED <<net, live, log, failed>>
    BY <1>8 DEF HandleBegin, RunNull, ClearQueue
  <2>2. crashed' \subseteq Participant
    BY <1>1, <1>8 DEF HandleBegin, RunNull, ClearQueue, TypeInv, CDispatcherTypeOK
  <2> QED
    BY <1>1, <1>3, <1>4, <2>1, <2>2 DEF TypeInv, CDispatcherTypeOK
<1> QED
  BY <1>6, <1>7, <1>8 DEF Handle

LEMMA TypeInit == Init => TypeInv
<1> SUFFICES ASSUME Init PROVE TypeInv
  OBVIOUS
<1>1. CDispatcherTypeOK
  <2>1. worker \in [Worker -> WorkerState]
    BY StatesTyped DEF Init
  <2>2. callId \in [Participant -> 0 .. MaxCall]
    BY CDispatcherAssumption DEF Init
  <2> QED
    BY <2>1, <2>2 DEF Init, CDispatcherTypeOK
<1>2. \A p \in Participant : Sending(p) = {}
  BY WorkerParticipant DEF Init, Sending, Idle
<1>3. ASSUME NEW p \in Participant
      PROVE  CallsCounted!(p)
  <2>1. IsFiniteSet(Sending(p)) /\ Cardinality(Sending(p)) = 0
    BY <1>2, FS_EmptySet
  <2>2. Len(issued[p]) = 0 /\ callId[p] = 0
    BY DEF Init
  <2> QED
    BY <1>2, <2>1, <2>2, CDispatcherAssumption
<1>4. HandlersPlaced
  BY DEF Init, HandlersPlaced, Busy, Idle
<1> QED
  BY <1>1, <1>3, <1>4 DEF TypeInv, CallsCounted

LEMMA TypeStep == TypeInv /\ [Next]_vars => TypeInv'
<1> SUFFICES ASSUME TypeInv, [Next]_vars PROVE TypeInv'
  OBVIOUS
<1>1. ASSUME NEW a \in App, Leave(a)
      PROVE  TypeInv'
  <2>1. UNCHANGED <<issued, callId, callbacks, queues, worker, net, live, crashed, log,
                    failed, delivered, unknown>>
    BY <1>1 DEF Leave
  <2>2. alive' \in [Participant -> BOOLEAN]
    BY <1>1 DEF Leave, TypeInv, CDispatcherTypeOK
  <2>3. CallsCounted' /\ HandlersPlaced'
    BY <2>1, CountUnchanged
  <2> QED
    BY <2>1, <2>2, <2>3 DEF TypeInv, CDispatcherTypeOK
<1>2. CASE UNCHANGED vars
  <2>1. CallsCounted' /\ HandlersPlaced'
    BY <1>2, CountUnchanged DEF vars
  <2> QED
    BY <1>2, <2>1 DEF vars, TypeInv, CDispatcherTypeOK
<1> QED
  BY <1>1, <1>2, IssueTyping, RegisterTyping, ReceiveTyping, HandleTyping DEF Next

LEMMA TypesKept == Spec => []TypeInv
BY TypeInit, TypeStep, PTL DEF Spec

(***************************************************************************)
(* All the variables keep their types.                                     *)
(***************************************************************************)
THEOREM CDispatcherTyped == Spec => []CDispatcherTypeOK
<1>1. TypeInv => CDispatcherTypeOK
  BY DEF TypeInv
<1> QED
  BY <1>1, TypesKept, PTL

-----------------------------------------------------------------------------
(* No step puts two threads of a participant into handleRequests.          *)
LEMMA OneHandlerStep == TypeInv /\ OneHandler /\ [Next]_vars => OneHandler'
<1> SUFFICES ASSUME TypeInv, OneHandler, [Next]_vars PROVE OneHandler'
  OBVIOUS
<1>1. ASSUME NEW w \in Worker, NEW s \in WorkerState,
             worker' = [worker EXCEPT ![w] = s],
             s.pc = "handling" => Busy(w) \/ ~ QueuesLocked(w[1])
      PROVE  OneHandler'
  <2>1. worker'[w] = s /\ \A v \in Worker \ {w} : worker'[v] = worker[v]
    BY <1>1 DEF TypeInv, CDispatcherTypeOK
  <2>2. \A v \in Worker \ {w} : v[1] = w[1] /\ s.pc = "handling" => ~ Busy(v)
    BY <1>1 DEF OneHandler, QueuesLocked, Busy
  <2> QED
    BY <2>1, <2>2 DEF OneHandler, Busy
<1>2. CASE UNCHANGED worker
  BY <1>2 DEF OneHandler, Busy
<1>3. ASSUME NEW a \in Caller, NEW c \in Callable, IssueCall(a, c[1], c[2], c[3], c[4])
      PROVE  OneHandler'
  <2>1. Calling(Len(issued[a[1]]) + 1) \in WorkerState
        /\ Calling(Len(issued[a[1]]) + 1).pc = "sent"
    <3>1. Len(issued[a[1]]) + 1 \in 0 .. MaxCall
      BY <1>3, IssueEffect, CDispatcherAssumption DEF TypeInv, CDispatcherTypeOK
    <3> QED
      BY <3>1, CallingTyped
  <2> QED
    BY <1>1, <1>2, <1>3, <2>1, IssueEffect, WorkerParticipant
<1>4. ASSUME NEW a \in Caller, RegisterCallback(a)
      PROVE  OneHandler'
  BY <1>1, <1>4, StatesTyped, WorkerParticipant DEF RegisterCallback
<1>5. ASSUME NEW w \in Receiver, Receive(w)
      PROVE  OneHandler'
  <2>1. UNCHANGED worker \/ \E s \in {Idle, Immediate, Ended} : worker' = [worker EXCEPT ![w] = s]
    BY <1>5 DEF Receive, Discard, NoArguments, Enqueue, QueueFull, NoCrudCall, NoCall,
       Ignore, UnknownOperation, RunSynchronously, ReceiveAnswer, AfterQueueing
  <2> QED
    BY <1>1, <1>2, <2>1, StatesTyped, WorkerParticipant
<1>6. ASSUME NEW w \in Worker, Handle(w)
      PROVE  OneHandler'
  <2>1. PICK s \in WorkerState : worker' = [worker EXCEPT ![w] = s]
    BY <1>6, HandleMoves
  <2>2. Busy(w) \/ ~ QueuesLocked(w[1])
    BY <1>6 DEF Handle, HandleBegin, Run, RunFails, RunNull, ClearQueue, Executing, At, Busy
  <2> QED
    BY <1>1, <2>1, <2>2
<1>7. ASSUME NEW a \in App, Leave(a)
      PROVE  OneHandler'
  BY <1>2, <1>7 DEF Leave
<1> QED
  BY <1>2, <1>3, <1>4, <1>5, <1>6, <1>7 DEF Next, vars

(***************************************************************************)
(* The entry of a queue at which handleRequests is, or will begin.         *)
(***************************************************************************)
Positions ==
  /\ \A p, q : ~ QueuesLocked(p) => NextOf(p, q) = 1
  /\ OneHandler => \A w \in Worker : \A q : Busy(w) =>
       NextOf(w[1], q) = IF q = worker[w].q THEN worker[w].i ELSE 1

LEMMA PositionsHold == Positions
<1>1. \A p, q : ~ QueuesLocked(p) => NextOf(p, q) = 1
  BY DEF QueuesLocked, NextOf
<1>2. ASSUME OneHandler, NEW w \in Worker, NEW q, Busy(w)
      PROVE  NextOf(w[1], q) = IF q = worker[w].q THEN worker[w].i ELSE 1
  <2> DEFINE busy == {v \in Worker : v[1] = w[1] /\ worker[v].pc = "handling"
                                                  /\ worker[v].q = q}
  <2>1. busy = IF q = worker[w].q THEN {w} ELSE {}
    BY <1>2 DEF OneHandler, Busy
  <2>2. (CHOOSE v \in {w} : TRUE) = w
    OBVIOUS
  <2>3. NextOf(w[1], q) = IF busy = {} THEN 1 ELSE worker[CHOOSE v \in busy : TRUE].i
    BY DEF NextOf
  <2> HIDE DEF busy
  <2> QED
    BY <2>1, <2>2, <2>3
<1> QED
  BY <1>1, <1>2 DEF Positions

LEMMA PositionsAfter == Positions'
BY PositionsHold, PTL

(* A thread that is not in handleRequests, before or after, moves none.    *)
LEMMA PositionKept ==
  ASSUME NEW p,
         \A v \in Worker : v[1] = p => worker'[v] = worker[v] \/ (~ Busy(v) /\ ~ Busy(v)')
  PROVE  \A q : NextOf(p, q)' = NextOf(p, q)
<1> SUFFICES ASSUME NEW q PROVE NextOf(p, q)' = NextOf(p, q)
  OBVIOUS
<1> DEFINE busy(wk) == {v \in Worker : v[1] = p /\ wk[v].pc = "handling" /\ wk[v].q = q}
           b == busy(worker)
           v0 == CHOOSE v \in b : TRUE
<1>1. busy(worker') = b
  BY DEF Busy
<1>2. b # {} => v0 \in Worker /\ v0[1] = p /\ worker[v0].pc = "handling"
  <2>1. b # {} => v0 \in b
    <3> HIDE DEF b
    <3> QED
      OBVIOUS
  <2> QED
    BY <2>1
<1>3. b # {} => worker'[v0] = worker[v0]
  BY <1>2 DEF Busy
<1>4. NextOf(p, q) = IF b = {} THEN 1 ELSE worker[v0].i
  BY DEF NextOf
<1>5. NextOf(p, q)' = IF busy(worker') = {} THEN 1
                      ELSE worker'[CHOOSE v \in busy(worker') : TRUE].i
  BY DEF NextOf
<1> HIDE DEF b, busy
<1> QED
  BY <1>1, <1>3, <1>4, <1>5

-----------------------------------------------------------------------------
(* Calls are issued one at a time, and what was issued stays.              *)
LEMMA IssuedGrows ==
  ASSUME TypeInv, [Next]_vars
  PROVE  \/ UNCHANGED issued
         \/ \E p \in Participant : \E m \in Call :
              /\ issued' = [issued EXCEPT ![p] = Append(@, m)]
              /\ m.request = <<p, Len(issued[p]) + 1>>
              /\ m.callId >= 0
              /\ IsCrud(m) => m.callId = 0
<1>1. ASSUME NEW a \in Caller, NEW c \in Callable, IssueCall(a, c[1], c[2], c[3], c[4])
      PROVE  \E p \in Participant : \E m \in Call :
               /\ issued' = [issued EXCEPT ![p] = Append(@, m)]
               /\ m.request = <<p, Len(issued[p]) + 1>>
               /\ m.callId >= 0
               /\ IsCrud(m) => m.callId = 0
  <2> DEFINE m == CallMessage(a[1], c)
  <2>1. /\ a[1] \in Participant
        /\ m \in Call
        /\ issued' = [issued EXCEPT ![a[1]] = Append(@, m)]
        /\ IsCrud(m) => m.callId = 0
    BY <1>1, IssueEffect, CallTyped
  <2>2. m.request = <<a[1], Len(issued[a[1]]) + 1>> /\ m.callId >= 0
    BY <2>1 DEF CallMessage, TypeInv, CDispatcherTypeOK
  <2> HIDE DEF m
  <2> QED
    BY <2>1, <2>2
<1>2. \/ \E a \in Caller, c \in Callable : IssueCall(a, c[1], c[2], c[3], c[4])
      \/ UNCHANGED issued
  BY DEF Next, vars, RegisterCallback, Leave, Receive, Discard, NoArguments, Enqueue,
         QueueFull, NoCrudCall, NoCall, Ignore, UnknownOperation, RunSynchronously,
         ReceiveAnswer, Fails, Handle, HandleBegin, Run, RunFails, RunNull, ClearQueue
<1> QED
  BY <1>1, <1>2

LEMMA IssuedKept ==
  ASSUME TypeInv, [Next]_vars
  PROVE  \A r \in AllIssued : r \in AllIssued' /\ Issued(r)' = Issued(r)
<1> SUFFICES ASSUME NEW r \in AllIssued PROVE r \in AllIssued' /\ Issued(r)' = Issued(r)
  OBVIOUS
<1>1. /\ r \in Request /\ r[1] \in Participant /\ r[2] \in Nat \ {0}
      /\ r[2] <= Len(issued[r[1]])
      /\ issued[r[1]] \in Seq(Call) /\ issued \in [Participant -> Seq(Call)]
  BY CDispatcherAssumption DEF AllIssued, Request, TypeInv, CDispatcherTypeOK
<1>2. CASE UNCHANGED issued
  BY <1>2 DEF AllIssued, Issued
<1>3. ASSUME NEW p \in Participant, NEW m \in Call,
             issued' = [issued EXCEPT ![p] = Append(@, m)]
      PROVE  r \in AllIssued' /\ Issued(r)' = Issued(r)
  <2>1. CASE p = r[1]
    <3>1. issued'[p] = Append(issued[p], m)
      BY <1>1, <1>3, <2>1
    <3>2. Len(issued'[p]) = Len(issued[p]) + 1 /\ issued'[p][r[2]] = issued[p][r[2]]
      BY <1>1, <2>1, <3>1, AppendIndex
    <3> QED
      BY <1>1, <2>1, <3>2 DEF AllIssued, Issued
  <2>2. CASE p # r[1]
    <3>1. issued'[r[1]] = issued[r[1]]
      BY <1>1, <1>3, <2>2
    <3> QED
      BY <1>1, <3>1 DEF AllIssued, Issued
  <2> QED
    BY <2>1, <2>2
<1> QED
  BY <1>2, <1>3, IssuedGrows

LEMMA NumberedStep == TypeInv /\ Numbered /\ [Next]_vars => Numbered'
<1> SUFFICES ASSUME TypeInv, Numbered, [Next]_vars PROVE Numbered'
  OBVIOUS
<1>1. CASE UNCHANGED issued
  BY <1>1 DEF Numbered
<1>2. ASSUME NEW p \in Participant, NEW m \in Call,
             issued' = [issued EXCEPT ![p] = Append(@, m)],
             m.request = <<p, Len(issued[p]) + 1>>,
             m.callId >= 0,
             IsCrud(m) => m.callId = 0
      PROVE  Numbered'
  <2>1. issued[p] \in Seq(Call) /\ issued'[p] = Append(issued[p], m)
        /\ \A q \in Participant \ {p} : issued'[q] = issued[q]
    BY <1>2 DEF TypeInv, CDispatcherTypeOK
  <2>2. ASSUME NEW i \in 1 .. Len(issued'[p])
        PROVE  /\ issued'[p][i].request = <<p, i>>
               /\ issued'[p][i].callId >= 0
               /\ IsCrud(issued'[p][i]) => issued'[p][i].callId = 0
    <3>1. \/ i \in 1 .. Len(issued[p]) /\ issued'[p][i] = issued[p][i]
          \/ i = Len(issued[p]) + 1 /\ issued'[p][i] = m
      BY <2>1, AppendIndex
    <3> QED
      BY <1>2, <3>1 DEF Numbered
  <2>3. ASSUME NEW q \in Participant, q # p, NEW i \in 1 .. Len(issued'[q])
        PROVE  /\ issued'[q][i].request = <<q, i>>
               /\ issued'[q][i].callId >= 0
               /\ IsCrud(issued'[q][i]) => issued'[q][i].callId = 0
    <3>1. issued'[q] = issued[q]
      BY <2>1, <2>3
    <3>2. i \in 1 .. Len(issued[q])
      BY <3>1
    <3> QED
      BY <3>1, <3>2 DEF Numbered
  <2>4. ASSUME NEW q \in Participant, NEW i \in 1 .. Len(issued'[q])
        PROVE  /\ issued'[q][i].request = <<q, i>>
               /\ issued'[q][i].callId >= 0
               /\ IsCrud(issued'[q][i]) => issued'[q][i].callId = 0
    BY <2>2, <2>3
  <2> QED
    BY <2>4 DEF Numbered, IsCrud
<1> QED
  BY <1>1, <1>2, IssuedGrows

(* What is genuine stays so; and so does what can be queued.               *)
LEMMA GenuineKept ==
  ASSUME TypeInv, [Next]_vars
  PROVE  \A m : Genuine(m) => Genuine(m)'
BY IssuedKept DEF Genuine, IsAnswer, IsCrud, Answer

LEMMA QueueableKept ==
  ASSUME TypeInv, [Next]_vars
  PROVE  \A p, q, m : Queueable(p, q, m) => Queueable(p, q, m)'
BY GenuineKept DEF Queueable, IsAnswer, IsCrud, QueueOf, Addressed, Implements, Provides

(* The answer to a genuine call is a genuine answer.                       *)
LEMMA AnswerGenuine ==
  ASSUME TypeInv, Numbered, NEW m \in Call, Genuine(m), ~ IsAnswer(m), m.callId # 0
  PROVE  Answer(m) \in Call /\ IsAnswer(Answer(m)) /\ Genuine(Answer(m))
<1>1. m.request \in AllIssued /\ Issued(m.request) = m
  BY DEF Genuine
<1>2. m.callId >= 0 /\ ~ IsCrud(m)
  BY <1>1, CDispatcherAssumption DEF Numbered, Issued, AllIssued, Request
<1>3. m.callId \in Int /\ Answer(m).callId = - m.callId /\ Answer(m).method = m.method
      /\ Answer(m).request = m.request /\ Answer(Answer(m)) = m /\ Answer(m) \in Call
  BY AnswerFields, CallFields
<1>4. IsAnswer(Answer(m))
  BY <1>2, <1>3 DEF IsAnswer, IsCrud
<1> QED
  BY <1>1, <1>3, <1>4 DEF Genuine

-----------------------------------------------------------------------------
(***************************************************************************)
(* What a step does to a channel: nothing, or its receiver takes the first *)
(* frame, or the peer sends an answer or the call it issues.               *)
(***************************************************************************)
ChannelTaken(v) == Receive(v) /\ net[v] # <<>> /\ net'[v] = Tail(net[v])

ChannelAnswered(v) ==
  \E m \in Call : IsAnswer(m) /\ Genuine(m) /\ net'[v] = Append(net[v], m)

ChannelCalled(v) ==
  \E m \in Call :
    /\ ~ IsAnswer(m)
    /\ m.request = <<v[2], Len(issued[v[2]]) + 1>>
    /\ issued' = [issued EXCEPT ![v[2]] = Append(@, m)]
    /\ net'[v] = Append(net[v], m)
    /\ UNCHANGED <<queues, log>>

GenuineInv == TypeInv /\ Numbered /\ FramesGenuine /\ EntriesGenuine /\ RecordsIssued

LEMMA ChannelStep ==
  ASSUME GenuineInv, [Next]_vars, NEW v \in Receiver
  PROVE  net'[v] = net[v] \/ ChannelTaken(v) \/ ChannelAnswered(v) \/ ChannelCalled(v)
<1>1. /\ net \in [Receiver -> Seq(Call)] /\ TypeInv /\ Numbered
      /\ v[1] # v[2] /\ v[2] \in Participant
  BY WorkerParticipant DEF GenuineInv, TypeInv, CDispatcherTypeOK
<1>2. ASSUME NEW a \in Caller, NEW c \in Callable, IssueCall(a, c[1], c[2], c[3], c[4])
      PROVE  net'[v] = net[v] \/ ChannelCalled(v)
  <2> DEFINE m == CallMessage(a[1], c)
  <2>1. /\ a[1] \in Participant
        /\ m \in Call
        /\ issued' = [issued EXCEPT ![a[1]] = Append(@, m)]
        /\ net' = Sent(net, a[1], m)
        /\ UNCHANGED <<queues, log>>
    BY <1>1, <1>2, IssueEffect, CallTyped
  <2>2. m.request = <<a[1], Len(issued[a[1]]) + 1>> /\ ~ IsAnswer(m)
    BY <1>1, <2>1 DEF CallMessage, TypeInv, CDispatcherTypeOK, IsAnswer
  <2> HIDE DEF m
  <2>3. net'[v] = IF v[2] = a[1] THEN Append(net[v], m) ELSE net[v]
    BY <1>1, <2>1, SentFrames
  <2> QED
    BY <2>1, <2>2, <2>3 DEF ChannelCalled
<1>3. ASSUME NEW w \in Receiver, Receive(w)
      PROVE  net'[v] = net[v] \/ ChannelTaken(v) \/ ChannelAnswered(v)
  <2> DEFINE m == Frame(w)
  <2>1. /\ Receiving(w) /\ net[w] # <<>>
        /\ m \in Call /\ m \in Frames(w)
        /\ Taken(w) \in [Receiver -> Seq(Call)]
        /\ Taken(w)[w] = Tail(net[w])
        /\ \A u \in Receiver \ {w} : Taken(w)[u] = net[u]
    BY <1>1, <1>3, ReceiveNet, TakenFrames DEF Receiving, TypeInv
  <2>2. CASE net' = Taken(w)
    BY <1>3, <2>1, <2>2 DEF ChannelTaken
  <2>3. CASE RunSynchronously(w) /\ m.callId # 0 /\ net' = Sent(Taken(w), w[1], Answer(m))
    <3>1. Genuine(m) /\ ~ IsAnswer(m)
      BY <2>1, <2>3, CallFields DEF GenuineInv, FramesGenuine, RunSynchronously, IsAnswer
    <3>2. Answer(m) \in Call /\ IsAnswer(Answer(m)) /\ Genuine(Answer(m))
      BY <1>1, <2>1, <2>3, <3>1, AnswerGenuine
    <3> DEFINE n == Answer(m)
    <3>3. net'[v] = IF v[2] = w[1] THEN Append(Taken(w)[v], n) ELSE Taken(w)[v]
      BY <2>1, <2>3, <3>2, SentFrames
    <3>4. w[1] # w[2]
      BY WorkerParticipant
    <3> HIDE DEF n
    <3>5. CASE v = w
      BY <1>3, <2>1, <3>3, <3>4, <3>5 DEF ChannelTaken
    <3>6. CASE v # w
      BY <2>1, <3>2, <3>3, <3>6 DEF ChannelAnswered, n
    <3> QED
      BY <3>5, <3>6
  <2> QED
    BY <1>1, <1>3, <2>2, <2>3, ReceiveNet
<1>4. ASSUME NEW w \in Worker, Run(w)
      PROVE  net'[v] = net[v] \/ ChannelAnswered(v)
  <2> DEFINE m == Current(w)
             n == Answer(m)
  <2>1. m \in Call /\ Genuine(m) /\ ~ IsAnswer(m)
    BY <1>1, <1>4, CurrentTyped DEF Run, GenuineInv, EntriesGenuine, Queueable
  <2>2. m.callId # 0 => n \in Call /\ IsAnswer(n) /\ Genuine(n)
    BY <1>1, <2>1, AnswerGenuine
  <2>3. net' = IF m.callId # 0 THEN Sent(net, w[1], n) ELSE net
    BY <1>4 DEF Run
  <2>4. CASE m.callId # 0
    <3> HIDE DEF n
    <3>1. net'[v] = IF v[2] = w[1] THEN Append(net[v], n) ELSE net[v]
      BY <1>1, <2>2, <2>3, <2>4, SentFrames
    <3> QED
      BY <2>2, <2>4, <3>1 DEF ChannelAnswered
  <2>5. CASE m.callId = 0
    BY <2>3, <2>5
  <2> QED
    BY <2>4, <2>5
<1>5. CASE UNCHANGED net
  BY <1>5
<1> QED
  BY <1>2, <1>3, <1>4, <1>5
  DEF Next, vars, RegisterCallback, Leave, Handle, HandleBegin, RunFails, RunNull, ClearQueue

LEMMA FramesGenuineStep == GenuineInv /\ [Next]_vars => FramesGenuine'
<1> SUFFICES ASSUME GenuineInv, [Next]_vars, NEW v \in Receiver, NEW m \in Frames(v)'
             PROVE  Genuine(m)' /\ (~ IsAnswer(m) => m.request[1] = v[2])
  BY DEF FramesGenuine, IsAnswer, IsCrud
<1>1. net[v] \in Seq(Call) /\ v[2] \in Participant /\ TypeInv
  BY WorkerParticipant DEF GenuineInv, TypeInv, CDispatcherTypeOK
<1>2. CASE m \in Frames(v)
  BY <1>1, <1>2, GenuineKept DEF GenuineInv, FramesGenuine
<1>3. CASE m \notin Frames(v)
  <2>1. ChannelAnswered(v) \/ ChannelCalled(v)
    <3>1. CASE net'[v] = net[v]
      BY <1>3, <3>1 DEF Frames
    <3>2. CASE ChannelTaken(v)
      BY <1>1, <1>3, <3>2, TailElements DEF Frames, ChannelTaken
    <3> QED
      BY <3>1, <3>2, ChannelStep
  <2>2. CASE ChannelAnswered(v)
    <3>1. PICK n \in Call : IsAnswer(n) /\ Genuine(n) /\ net'[v] = Append(net[v], n)
      BY <2>2 DEF ChannelAnswered
    <3>2. m = n
      BY <1>1, <1>3, <3>1, AppendElements DEF Frames
    <3> QED
      BY <1>1, <3>1, <3>2, GenuineKept
  <2>3. CASE ChannelCalled(v)
    <3>1. PICK n \in Call : /\ ~ IsAnswer(n)
                            /\ n.request = <<v[2], Len(issued[v[2]]) + 1>>
                            /\ issued' = [issued EXCEPT ![v[2]] = Append(@, n)]
                            /\ net'[v] = Append(net[v], n)
      BY <2>3 DEF ChannelCalled
    <3>2. m = n
      BY <1>1, <1>3, <3>1, AppendElements DEF Frames
    <3>3. issued[v[2]] \in Seq(Call) /\ issued'[v[2]] = Append(issued[v[2]], n)
      BY <1>1, <3>1 DEF TypeInv, CDispatcherTypeOK
    <3>4. Len(issued'[v[2]]) = Len(issued[v[2]]) + 1
          /\ issued'[v[2]][Len(issued[v[2]]) + 1] = n
      BY <3>3, AppendIndex
    <3>5. n.request \in Request
      BY CallFields
    <3> QED
      BY <3>1, <3>2, <3>4, <3>5, SMTT(30) DEF Genuine, AllIssued, Issued, IsAnswer
  <2> QED
    BY <2>1, <2>2, <2>3
<1> QED
  BY <1>2, <1>3

-----------------------------------------------------------------------------
(***************************************************************************)
(* What a step does to a queue, and to the entry it is at: nothing, or the *)
(* receiver adds an entry while nobody handles the queues, or a call is    *)
(* executed, or the queue is cleared.                                      *)
(***************************************************************************)
QueueKept(p, q) == queues'[p][q] = queues[p][q] /\ NextOf(p, q)' = NextOf(p, q)

QueueGrows(p, q) ==
  \E w \in Receiver :
    /\ w[1] = p
    /\ NextOf(p, q) = 1
    /\ NextOf(p, q)' = 1
    /\ \/ /\ Enqueue(w)
          /\ Queueable(p, q, Frame(w))
          /\ queues'[p][q] = Append(queues[p][q], Frame(w))
       \/ /\ NoCall(w)
          /\ queues'[p][q] = Append(queues[p][q], NullCall)

QueueMoves(p, q) ==
  \E w \in Worker :
    /\ Run(w)
    /\ w[1] = p
    /\ worker[w].q = q
    /\ NextOf(p, q) = worker[w].i
    /\ NextOf(p, q)' = worker[w].i + 1
    /\ queues'[p][q] = queues[p][q]

QueueCleared(p, q) ==
  \E w \in Worker :
    /\ w[1] = p
    /\ worker[w].q = q
    /\ NextOf(p, q) = worker[w].i
    /\ RunFails(w) \/ (ClearQueue(w) /\ NextOf(p, q) > Len(queues[p][q]))
    /\ queues'[p][q] = <<>>

(* The steps of a receiver. *)
LEMMA QueueReceives ==
  ASSUME GenuineInv, NEW w \in Receiver, Receive(w),
         NEW p \in Participant, NEW q \in Queue
  PROVE  QueueKept(p, q) \/ QueueGrows(p, q)
<1> DEFINE m == Frame(w)
<1>1. /\ TypeInv /\ CDispatcherTypeOK
      /\ w \in Worker /\ w[1] \in Participant /\ w[1] # w[2]
      /\ worker[w].pc = "idle"
      /\ m \in Call /\ m \in Frames(w)
      /\ m.queue \in Queue /\ QueueOf(m) \in Queue
  BY ReceiveNet, ReceivingTyped, WorkerParticipant, CallFields DEF GenuineInv, TypeInv
<1>2. \A u \in Worker : worker'[u] = worker[u] \/ (~ Busy(u) /\ ~ Busy(u)')
  <2>1. UNCHANGED worker \/ \E s \in {Idle, Immediate, Ended} : worker' = [worker EXCEPT ![w] = s]
    BY DEF Receive, Discard, NoArguments, Enqueue, QueueFull, NoCrudCall, NoCall,
       Ignore, UnknownOperation, RunSynchronously, ReceiveAnswer, AfterQueueing
  <2> QED
    BY <1>1, <2>1, StatesTyped DEF Busy, CDispatcherTypeOK
<1>3. NextOf(p, q)' = NextOf(p, q)
  BY <1>2, PositionKept
<1>4. CASE Enqueue(w)
  <2>1. queues' = Queued(w[1], QueueOf(m), m) /\ Queueing(w)
    BY <1>4 DEF Enqueue
  <2>2. /\ queues'[w[1]][QueueOf(m)] = Append(queues[w[1]][QueueOf(m)], m)
        /\ \A r \in Participant, t \in Queue :
             r # w[1] \/ t # QueueOf(m) => queues'[r][t] = queues[r][t]
    <3> HIDE DEF m
    <3> QED
      BY <1>1, <2>1, AppendTyped
  <2>3. CASE p = w[1] /\ q = QueueOf(m)
    <3>1. NextOf(p, q) = 1
      BY <2>1, <2>3, PositionsHold DEF Positions, Queueing
    <3>2. Genuine(m) /\ m.request[1] # p /\ ~ IsAnswer(m)
      BY <1>1, <2>1, <2>3 DEF GenuineInv, FramesGenuine, Queueing
    <3>3. Queueable(p, q, m)
      BY <2>1, <2>3, <3>2 DEF Queueing, Queueable, Addressed
    <3> QED
      BY <1>3, <1>4, <2>2, <2>3, <3>1, <3>3 DEF QueueGrows
  <2>4. CASE ~ (p = w[1] /\ q = QueueOf(m))
    BY <1>3, <2>2, <2>4 DEF QueueKept
  <2> QED
    BY <2>3, <2>4
<1>5. CASE NoCall(w)
  <2>1. queues' = Queued(w[1], m.queue, NullCall) /\ Queueing(w)
    BY <1>5 DEF NoCall
  <2>2. /\ queues'[w[1]][m.queue] = Append(queues[w[1]][m.queue], NullCall)
        /\ \A r \in Participant, t \in Queue :
             r # w[1] \/ t # m.queue => queues'[r][t] = queues[r][t]
    <3> DEFINE t0 == m.queue
               p0 == w[1]
               c0 == NullCall
    <3>1. /\ p0 \in Participant /\ t0 \in Queue /\ c0 \in Call \cup {NullCall}
          /\ queues' = Queued(p0, t0, c0)
      BY <1>1, <2>1
    <3> HIDE DEF t0, p0, c0
    <3>2. /\ queues'[p0][t0] = Append(queues[p0][t0], c0)
          /\ \A r \in Participant, t \in Queue :
               r # p0 \/ t # t0 => queues'[r][t] = queues[r][t]
      BY <1>1, <3>1, AppendTyped
    <3> QED
      BY <3>2 DEF t0, p0, c0
  <2>3. CASE p = w[1] /\ q = m.queue
    <3>1. NextOf(p, q) = 1
      BY <2>1, <2>3, PositionsHold DEF Positions, Queueing
    <3> QED
      BY <1>3, <1>5, <2>2, <2>3, <3>1 DEF QueueGrows
  <2>4. CASE ~ (p = w[1] /\ q = m.queue)
    BY <1>3, <2>2, <2>4 DEF QueueKept
  <2> QED
    BY <2>3, <2>4
<1>6. CASE UNCHANGED queues
  BY <1>3, <1>6 DEF QueueKept
<1> QED
  BY <1>4, <1>5, <1>6 DEF Receive, Discard, NoArguments, QueueFull, NoCrudCall, Ignore,
                          UnknownOperation, RunSynchronously, ReceiveAnswer

(* The steps of handleRequests. *)
LEMMA QueueHandled ==
  ASSUME TypeInv, OneHandler, OneHandler', NEW w \in Worker, Handle(w),
         NEW p \in Participant, NEW q \in Queue
  PROVE  QueueKept(p, q) \/ QueueMoves(p, q) \/ QueueCleared(p, q)
<1>1. w[1] \in Participant /\ worker \in [Worker -> WorkerState]
  BY WorkerParticipant DEF TypeInv, CDispatcherTypeOK
<1>2. PICK s \in WorkerState : worker' = [worker EXCEPT ![w] = s]
  BY HandleMoves
<1>3. worker'[w] = s /\ \A u \in Worker \ {w} : worker'[u] = worker[u]
  BY <1>1, <1>2
<1>4. CASE HandleBegin(w)
  <2>1. UNCHANGED queues
    BY <1>4 DEF HandleBegin
  <2>2. NextOf(p, q)' = NextOf(p, q)
    <3>1. CASE p = w[1]
      <4>1. NextOf(p, q) = 1
        BY <1>4, <3>1, PositionsHold DEF Positions, HandleBegin
      <4>2. Busy(w)' /\ worker'[w].i = 1
        <5>1. 1 \in Queue
          BY CDispatcherAssumption DEF Queue
        <5>2. Handling(1).pc = "handling" /\ Handling(1).i = 1
          BY <5>1, StatesTyped
        <5>3. worker'[w] = Handling(1)
          BY <1>1, <1>4 DEF HandleBegin
        <5> QED
          BY <5>2, <5>3 DEF Busy
      <4> QED
        BY <3>1, <4>1, <4>2, PositionsAfter DEF Positions
    <3>2. CASE p # w[1]
      BY <1>3, <3>2, PositionKept
    <3> QED
      BY <3>1, <3>2
  <2> QED
    BY <2>1, <2>2 DEF QueueKept
<1>5. CASE Run(w)
  <2>1. /\ queues' = queues /\ Executing(w)
        /\ worker' = [worker EXCEPT ![w].i = @ + 1]
    BY <1>5 DEF Run
  <2>2. /\ worker'[w].pc = worker[w].pc
        /\ worker'[w].q = worker[w].q
        /\ worker'[w].i = worker[w].i + 1
    BY <1>1, <2>1 DEF WorkerState
  <2>3. Busy(w) /\ Busy(w)'
    BY <2>1, <2>2, CurrentTyped DEF Busy
  <2>4. CASE p = w[1]
    <3>1. /\ NextOf(p, q) = IF q = worker[w].q THEN worker[w].i ELSE 1
          /\ NextOf(p, q)' = IF q = worker[w].q THEN worker[w].i + 1 ELSE 1
      BY <2>2, <2>3, <2>4, PositionsHold, PositionsAfter DEF Positions
    <3> QED
      BY <1>5, <2>1, <2>4, <3>1 DEF QueueKept, QueueMoves
  <2>5. CASE p # w[1]
    BY <1>3, <2>1, <2>5, PositionKept DEF QueueKept
  <2> QED
    BY <2>4, <2>5
<1>6. CASE RunFails(w) \/ ClearQueue(w)
  <2>1. Busy(w) /\ worker' = [worker EXCEPT ![w] = NextQueue(w)] /\ queues' = Cleared(w)
    BY <1>6 DEF RunFails, ClearQueue, Executing, At, Busy
  <2>2. /\ worker'[w] = NextQueue(w)
        /\ NextQueue(w).pc = "handling" => NextQueue(w).i = 1
    BY <1>1, <2>1, NextQueueTyped
  <2>3. /\ queues'[w[1]][worker[w].q] = <<>>
        /\ \A r \in Participant, t \in Queue :
             r # w[1] \/ t # worker[w].q => queues'[r][t] = queues[r][t]
    BY <2>1, ClearedTyped
  <2>4. CASE p # w[1]
    BY <1>3, <2>3, <2>4, PositionKept DEF QueueKept
  <2>5. CASE p = w[1] /\ q = worker[w].q
    <3>1. NextOf(p, q) = worker[w].i
      BY <2>1, <2>5, PositionsHold DEF Positions
    <3>2. ClearQueue(w) => NextOf(p, q) > Len(queues[p][q])
      <4>1. worker[w].i \in Nat /\ Len(queues[p][q]) \in Nat
        BY <1>1, Containers DEF WorkerState, TypeInv
      <4> QED
        BY <2>5, <3>1, <4>1 DEF ClearQueue, HasCurrent, Pending
    <3> QED
      BY <1>6, <2>3, <2>5, <3>1, <3>2 DEF QueueCleared
  <2>6. CASE p = w[1] /\ q # worker[w].q
    <3>1. NextOf(p, q) = 1
      BY <2>1, <2>6, PositionsHold DEF Positions
    <3>2. CASE Busy(w)'
      <4>1. worker'[w].i = 1
        BY <2>2, <3>2 DEF Busy
      <4>2. NextOf(p, q)' = 1
        BY <2>6, <3>2, <4>1, PositionsAfter DEF Positions
      <4> QED
        BY <2>3, <2>6, <3>1, <4>2 DEF QueueKept
    <3>3. CASE ~ Busy(w)'
      <4>1. ~ QueuesLocked(p)'
        BY <1>3, <2>1, <2>6, <3>3 DEF QueuesLocked, Busy, OneHandler
      <4> QED
        BY <2>3, <2>6, <3>1, <4>1, PositionsAfter DEF Positions, QueueKept
    <3> QED
      BY <3>2, <3>3
  <2> QED
    BY <2>4, <2>5, <2>6
<1>7. CASE RunNull(w)
  <2>1. UNCHANGED <<queues, worker>>
    BY <1>7 DEF RunNull
  <2>2. NextOf(p, q)' = NextOf(p, q)
    BY <2>1, PositionKept
  <2> QED
    BY <2>1, <2>2 DEF QueueKept
<1> QED
  BY <1>4, <1>5, <1>6, <1>7 DEF Handle

LEMMA QueueStep ==
  ASSUME GenuineInv, OneHandler, [Next]_vars, NEW p \in Participant, NEW q \in Queue
  PROVE  \/ QueueKept(p, q)
         \/ QueueGrows(p, q)
         \/ QueueMoves(p, q)
         \/ QueueCleared(p, q)
<1>1. TypeInv /\ OneHandler' /\ worker \in [Worker -> WorkerState]
  BY OneHandlerStep DEF GenuineInv, TypeInv, CDispatcherTypeOK
<1>2. ASSUME UNCHANGED queues,
             \A u \in Worker : worker'[u] = worker[u] \/ (~ Busy(u) /\ ~ Busy(u)')
      PROVE  QueueKept(p, q)
  BY <1>2, PositionKept DEF QueueKept
<1>3. ASSUME NEW a \in Caller, NEW c \in Callable, IssueCall(a, c[1], c[2], c[3], c[4])
      PROVE  QueueKept(p, q)
  <2>1. Calling(Len(issued[a[1]]) + 1).pc = "sent"
    BY DEF Calling
  <2>2. \A u \in Worker : worker'[u] = worker[u] \/ (~ Busy(u) /\ ~ Busy(u)')
    BY <1>1, <1>3, <2>1, IssueEffect, WorkerParticipant DEF Busy
  <2> QED
    BY <1>2, <1>3, <2>2, IssueEffect
<1>4. ASSUME NEW a \in Caller, RegisterCallback(a)
      PROVE  QueueKept(p, q)
  BY <1>1, <1>2, <1>4, StatesTyped, WorkerParticipant DEF RegisterCallback, At, Busy
<1>5. CASE UNCHANGED <<queues, worker>>
  BY <1>2, <1>5
<1> QED
  BY <1>1, <1>3, <1>4, <1>5, QueueReceives, QueueHandled DEF Next, vars, Leave

-----------------------------------------------------------------------------
(* The entries of a queue, and of the log, when one is added.              *)
LEMMA EntriesAppended ==
  ASSUME NEW s \in Seq(Call \cup {NullCall}), NEW c \in Call \cup {NullCall}
  PROVE  LET t == Append(s, c) IN
         {t[i] : i \in 1 .. Len(t)} \ {NullCall}
           = ({s[i] : i \in 1 .. Len(s)} \ {NullCall}) \cup ({c} \ {NullCall})
BY AppendElements

LEMMA LogAppended ==
  ASSUME NEW s \in Seq(Request), NEW r \in Request
  PROVE  Elements(Append(s, r)) = Elements(s) \cup {r}
<1> DEFINE t == Append(s, r)
<1>1. DOMAIN s = 1 .. Len(s) /\ DOMAIN t = 1 .. Len(t)
  OBVIOUS
<1>2. {t[i] : i \in 1 .. Len(t)} = {s[i] : i \in 1 .. Len(s)} \cup {r}
  BY AppendElements
<1> HIDE DEF t
<1>3. Elements(t) = Elements(s) \cup {r}
  BY <1>1, <1>2 DEF Elements
<1> QED
  BY <1>3 DEF t

LEMMA EntriesGenuineStep == GenuineInv /\ OneHandler /\ [Next]_vars => EntriesGenuine'
<1> SUFFICES ASSUME GenuineInv, OneHandler, [Next]_vars,
                    NEW p \in Participant, NEW q \in Queue, NEW m \in Entries(p, q)'
             PROVE  Queueable(p, q, m)'
  BY DEF EntriesGenuine
<1>1. TypeInv /\ queues[p][q] \in Seq(Call \cup {NullCall})
  BY Containers DEF GenuineInv, TypeInv
<1>2. Queueable(p, q, m) \/ m \in Entries(p, q)
  <2>1. CASE QueueKept(p, q) \/ QueueMoves(p, q)
    BY <2>1 DEF QueueKept, QueueMoves, Entries
  <2>2. CASE QueueCleared(p, q)
    <3>1. queues'[p][q] = <<>>
      BY <2>2 DEF QueueCleared
    <3>2. Entries(p, q)' = {}
      BY <3>1 DEF Entries
    <3> QED
      BY <3>2
  <2>3. CASE QueueGrows(p, q)
    <3>1. PICK c : /\ queues'[p][q] = Append(queues[p][q], c)
                   /\ c = NullCall \/ (c \in Call /\ Queueable(p, q, c))
      <4>1. \A w \in Receiver : Enqueue(w) => Frame(w) \in Call
        BY <1>1, ReceivingTyped DEF Enqueue, Queueing
      <4> QED
        BY <2>3, <4>1 DEF QueueGrows
    <3>2. Entries(p, q)' = Entries(p, q) \cup ({c} \ {NullCall})
      BY <1>1, <3>1, EntriesAppended, SMTT(30) DEF Entries
    <3> QED
      BY <3>1, <3>2
  <2> QED
    BY <1>1, <2>1, <2>2, <2>3, QueueStep
<1>3. Queueable(p, q, m)
  BY <1>2 DEF GenuineInv, EntriesGenuine
<1> QED
  BY <1>1, <1>3, QueueableKept

(***************************************************************************)
(* What a step adds to the log of a participant: nothing, or the call that *)
(* handleRequests is at, or the one that its receiver executes.            *)
(***************************************************************************)
LogHandled(p) ==
  \E w \in Worker : /\ w[1] = p
                    /\ Executing(w)
                    /\ Run(w) \/ RunFails(w)
                    /\ log'[p] = Append(log[p], Current(w).request)

LogSynchronous(p) ==
  \E w \in Receiver : /\ w[1] = p
                      /\ RunSynchronously(w)
                      /\ log'[p] = Append(log[p], Frame(w).request)

LEMMA LogStep ==
  ASSUME TypeInv, [Next]_vars, NEW p \in Participant
  PROVE  log'[p] = log[p] \/ LogHandled(p) \/ LogSynchronous(p)
<1>1. log \in [Participant -> Seq(Request)]
  BY DEF TypeInv, CDispatcherTypeOK
<1>2. CASE UNCHANGED log
  BY <1>2
<1>3. ASSUME NEW w \in Receiver, RunSynchronously(w)
      PROVE  log'[p] = log[p] \/ LogSynchronous(p)
  <2>1. log' = [log EXCEPT ![w[1]] = Append(@, Frame(w).request)]
    BY <1>3 DEF RunSynchronously
  <2> QED
    BY <1>1, <1>3, <2>1 DEF LogSynchronous
<1>4. ASSUME NEW w \in Worker, Run(w) \/ RunFails(w)
      PROVE  log'[p] = log[p] \/ LogHandled(p)
  <2>1. log' = log \/ log' = [log EXCEPT ![w[1]] = Append(@, Current(w).request)]
    BY <1>4 DEF Run, RunFails
  <2>2. Executing(w)
    BY <1>4 DEF Run, RunFails
  <2> QED
    BY <1>1, <1>4, <2>1, <2>2 DEF LogHandled
<1>5. UNCHANGED log \/ (\E w \in Receiver : RunSynchronously(w))
        \/ (\E w \in Worker : Run(w) \/ RunFails(w))
  BY DEF Next, vars, IssueCall, RegisterCallback, Leave, Receive, Discard, NoArguments,
         Enqueue, QueueFull, NoCrudCall, NoCall, Ignore, UnknownOperation, ReceiveAnswer,
         Fails, Handle, HandleBegin, RunNull, ClearQueue
<1> QED
  BY <1>2, <1>3, <1>4, <1>5

(* The call at hand is genuine, whichever thread executes it.              *)
LEMMA CurrentGenuine ==
  ASSUME GenuineInv, NEW w \in Worker, Executing(w)
  PROVE  /\ w[1] \in Participant /\ worker[w].q \in Queue
         /\ Current(w) \in Call
         /\ Queueable(w[1], worker[w].q, Current(w))
         /\ Current(w).request \in AllIssued
         /\ Issued(Current(w).request) = Current(w)
BY CurrentTyped DEF GenuineInv, EntriesGenuine, Queueable, Genuine

LEMMA FrameGenuine ==
  ASSUME GenuineInv, NEW w \in Receiver, Receiving(w)
  PROVE  /\ w[1] \in Participant /\ w[1] # w[2]
         /\ Frame(w) \in Call /\ Frame(w) \in Frames(w)
         /\ Genuine(Frame(w))
         /\ Frame(w).request \in AllIssued
         /\ ~ IsAnswer(Frame(w)) => /\ Issued(Frame(w).request) = Frame(w)
                                    /\ Frame(w).request[1] = w[2]
         /\ Frame(w).callId >= 0 => ~ IsAnswer(Frame(w))
<1>1. TypeInv
  BY DEF GenuineInv
<1>2. /\ w[1] \in Participant /\ w[1] # w[2]
      /\ Frame(w) \in Call /\ Frame(w) \in Frames(w)
  BY <1>1, ReceivingTyped, WorkerParticipant
<1>3. Frame(w).callId >= 0 => ~ IsAnswer(Frame(w))
  BY <1>2, CallFields DEF IsAnswer
<1> QED
  BY <1>2, <1>3 DEF GenuineInv, FramesGenuine, Genuine

LEMMA RecordsIssuedStep == GenuineInv /\ [Next]_vars => RecordsIssued'
<1> SUFFICES ASSUME GenuineInv, [Next]_vars, NEW p \in Participant
             PROVE  /\ Elements(log'[p]) \subseteq AllIssued'
                    /\ failed'[p] \subseteq AllIssued'
                    /\ \A m \in live'[p] : m.request \in AllIssued'
  BY DEF RecordsIssued, Elements
<1>1. TypeInv /\ AllIssued \subseteq AllIssued' /\ log[p] \in Seq(Request)
  BY IssuedKept DEF GenuineInv, TypeInv, CDispatcherTypeOK
<1>2. AllIssued \subseteq Request
  BY DEF AllIssued
<1>3. Elements(log'[p]) \subseteq AllIssued
  <2>1. CASE log'[p] = log[p]
    BY <2>1 DEF GenuineInv, RecordsIssued
  <2>2. CASE LogHandled(p) \/ LogSynchronous(p)
    <3>1. PICK r \in AllIssued : log'[p] = Append(log[p], r)
      BY <2>2, CurrentGenuine, FrameGenuine DEF LogHandled, LogSynchronous, RunSynchronously
    <3>2. Elements(log'[p]) = Elements(log[p]) \cup {r}
      BY <1>1, <1>2, <3>1, LogAppended
    <3> QED
      BY <3>1, <3>2 DEF GenuineInv, RecordsIssued
  <2> QED
    BY <1>1, <2>1, <2>2, LogStep
<1>4. /\ failed'[p] \subseteq AllIssued
      /\ \A m \in live'[p] : m.request \in AllIssued
  <2>1. ASSUME NEW w \in Receiver, Receive(w)
        PROVE  /\ failed'[p] \subseteq failed[p] \cup {Frame(w).request}
               /\ live'[p] \subseteq live[p] \cup {Frame(w)}
    BY <1>1, <2>1 DEF TypeInv, CDispatcherTypeOK, Receive, Discard, NoArguments, Enqueue, QueueFull,
       NoCrudCall, NoCall, Ignore, UnknownOperation, RunSynchronously, ReceiveAnswer, Fails
  <2>2. ASSUME NEW w \in Receiver, Receive(w)
        PROVE  Frame(w).request \in AllIssued
    BY <1>1, <2>2, ReceiveNet, FrameGenuine
  <2>3. ASSUME NEW w \in Worker, Handle(w)
        PROVE  /\ failed'[p] \subseteq AllIssued
               /\ live'[p] \subseteq live[p]
    BY <1>1, <2>3, CurrentGenuine, SMTT(30) DEF TypeInv, CDispatcherTypeOK, Handle, HandleBegin, Run,
       Released, RunFails, RunNull, ClearQueue, GenuineInv, RecordsIssued
  <2>4. CASE UNCHANGED <<live, failed>>
    BY <2>4 DEF GenuineInv, RecordsIssued
  <2> QED
    BY <2>1, <2>2, <2>3, <2>4 DEF Next, vars, IssueCall, RegisterCallback, Leave,
       GenuineInv, RecordsIssued
<1> QED
  BY <1>1, <1>3, <1>4

LEMMA GenuineInit == Init => GenuineInv /\ OneHandler
<1> SUFFICES ASSUME Init PROVE GenuineInv /\ OneHandler
  OBVIOUS
<1>1. TypeInv
  BY TypeInit
<1>2. Numbered
  BY DEF Init, Numbered
<1>3. FramesGenuine
  BY DEF Init, FramesGenuine, Frames
<1>4. EntriesGenuine
  BY DEF Init, EntriesGenuine, Entries
<1>5. RecordsIssued
  <2>1. \A p \in Participant : log[p] = <<>> /\ failed[p] = {} /\ live[p] = {}
    BY DEF Init
  <2>2. Elements(<<>>) = {}
    BY DEF Elements
  <2> QED
    BY <2>1, <2>2 DEF RecordsIssued
<1>6. OneHandler
  BY DEF Init, OneHandler, Busy, Idle
<1> QED
  BY <1>1, <1>2, <1>3, <1>4, <1>5, <1>6 DEF GenuineInv

LEMMA GenuineStep ==
  GenuineInv /\ OneHandler /\ [Next]_vars => GenuineInv' /\ OneHandler'
<1> SUFFICES ASSUME GenuineInv, OneHandler, [Next]_vars
             PROVE  GenuineInv' /\ OneHandler'
  OBVIOUS
<1> QED
  BY TypeStep, OneHandlerStep, NumberedStep, FramesGenuineStep, EntriesGenuineStep,
     RecordsIssuedStep DEF GenuineInv

-----------------------------------------------------------------------------
(* What waits in a queue is in it, and so is the call at hand.             *)
LEMMA PositionTyped ==
  ASSUME TypeInv, OneHandler, NEW p \in Participant, NEW q \in Queue
  PROVE  NextOf(p, q) \in Nat \ {0} /\ Waiting(p, q) \subseteq Entries(p, q)
<1>1. NextOf(p, q) \in Nat \ {0}
  <2>1. CASE ~ QueuesLocked(p)
    BY <2>1, PositionsHold DEF Positions
  <2>2. CASE QueuesLocked(p)
    <3>1. PICK w \in Worker : w[1] = p /\ Busy(w)
      BY <2>2 DEF QueuesLocked, Busy
    <3>2. worker[w].i \in Nat \ {0}
      BY <3>1 DEF TypeInv, HandlersPlaced, CDispatcherTypeOK, WorkerState
    <3>3. NextOf(w[1], q) = IF q = worker[w].q THEN worker[w].i ELSE 1
      BY <3>1, PositionsHold DEF Positions
    <3> QED
      BY <3>1, <3>2, <3>3
  <2> QED
    BY <2>1, <2>2
<1>2. Len(queues[p][q]) \in Nat
  BY Containers DEF TypeInv
<1> QED
  BY <1>1, <1>2 DEF Waiting, Entries

LEMMA CurrentWaits ==
  ASSUME TypeInv, OneHandler, NEW w \in Worker, Executing(w)
  PROVE  Current(w) \in Waiting(w[1], worker[w].q) /\ Current(w) \in WaitingCalls(w[1])
<1>1. /\ Busy(w)
      /\ w[1] \in Participant
      /\ worker[w].q \in Queue
      /\ worker[w].i \in 1 .. Len(queues[w[1]][worker[w].q])
      /\ Current(w) = queues[w[1]][worker[w].q][worker[w].i]
      /\ Current(w) # NullCall
  BY CurrentTyped DEF Executing
<1>2. NextOf(w[1], worker[w].q) = worker[w].i
  BY <1>1, PositionsHold DEF Positions
<1>3. Len(queues[w[1]][worker[w].q]) \in Nat
  BY <1>1, Containers DEF TypeInv
<1>4. worker[w].i \in NextOf(w[1], worker[w].q) .. Len(queues[w[1]][worker[w].q])
  BY <1>1, <1>2, <1>3
<1>5. Current(w) \in Waiting(w[1], worker[w].q)
  <2>1. PICK i \in NextOf(w[1], worker[w].q) .. Len(queues[w[1]][worker[w].q]) :
          Current(w) = queues[w[1]][worker[w].q][i]
    BY <1>1, <1>4
  <2> QED
    BY <1>1, <2>1 DEF Waiting
<1> QED
  BY <1>1, <1>5 DEF WaitingCalls

(* Nothing waits in a queue that was cleared.                              *)
PositionsTyped ==
  TypeInv /\ OneHandler =>
    \A p \in Participant : \A q \in Queue : NextOf(p, q) \in Nat \ {0}

LEMMA PositionsAreTyped == PositionsTyped
BY PositionTyped DEF PositionsTyped

LEMMA NothingWaits ==
  ASSUME TypeInv', OneHandler', NEW p \in Participant, NEW q \in Queue,
         queues'[p][q] = <<>>
  PROVE  Waiting(p, q)' = {}
<1>1. PositionsTyped'
  BY PositionsAreTyped, PTL
<1>2. NextOf(p, q)' \in Nat \ {0}
  BY <1>1 DEF PositionsTyped
<1> QED
  BY <1>2 DEF Waiting

(* What the execution of a call leaves in its queue.                       *)
LEMMA RunPosition ==
  ASSUME TypeInv, OneHandler, OneHandler', NEW w \in Worker, Run(w),
         NEW q, q = worker[w].q
  PROVE  /\ NextOf(w[1], q) = worker[w].i
         /\ NextOf(w[1], q)' = worker[w].i + 1
         /\ queues' = queues
<1>1. /\ queues' = queues /\ Executing(w)
      /\ worker' = [worker EXCEPT ![w].i = @ + 1]
  BY DEF Run
<1>2. Busy(w) /\ worker[w] \in WorkerState
  BY <1>1, CurrentTyped DEF TypeInv, CDispatcherTypeOK
<1>3. /\ worker'[w].pc = worker[w].pc
      /\ worker'[w].q = worker[w].q
      /\ worker'[w].i = worker[w].i + 1
  BY <1>1, <1>2 DEF WorkerState, TypeInv, CDispatcherTypeOK
<1>4. Busy(w)'
  BY <1>2, <1>3 DEF Busy
<1>5. NextOf(w[1], q) = worker[w].i
  BY <1>2, PositionsHold DEF Positions
<1>6. \A t : NextOf(w[1], t)' = IF t = worker'[w].q THEN worker'[w].i ELSE 1
  BY <1>4, PositionsAfter DEF Positions
<1> QED
  BY <1>1, <1>3, <1>5, <1>6

LEMMA FailureClears ==
  ASSUME TypeInv, TypeInv', OneHandler', NEW w \in Worker, RunFails(w),
         NEW q, q = worker[w].q
  PROVE  Waiting(w[1], q)' = {}
<1>1. Busy(w) /\ queues' = Cleared(w)
  BY CurrentTyped DEF RunFails
<1>2. queues'[w[1]][worker[w].q] = <<>>
  BY <1>1, ClearedTyped
<1>3. w[1] \in Participant /\ q \in Queue /\ queues'[w[1]][q] = <<>>
  BY <1>1, <1>2, WorkerParticipant DEF TypeInv, HandlersPlaced
<1> QED
  BY <1>3, NothingWaits

(* What waits after a step waited before it, or has just been queued.      *)
LEMMA WaitingAfter ==
  ASSUME GenuineInv, OneHandler, [Next]_vars,
         NEW p \in Participant, NEW q \in Queue, NEW m \in Waiting(p, q)'
  PROVE  \/ m \in Waiting(p, q)
         \/ \E w \in Receiver : Enqueue(w) /\ w[1] = p /\ m = Frame(w)
                                  /\ Queueable(p, q, m)
<1>1. /\ TypeInv
      /\ queues[p][q] \in Seq(Call \cup {NullCall})
      /\ NextOf(p, q) \in Nat \ {0}
  BY PositionTyped, Containers DEF GenuineInv, TypeInv
<1>2. PICK i \in NextOf(p, q)' .. Len(queues'[p][q]) : m = queues'[p][q][i]
  BY DEF Waiting
<1>3. m # NullCall
  BY DEF Waiting
<1>4. CASE QueueKept(p, q)
  BY <1>4 DEF QueueKept, Waiting
<1>5. CASE QueueMoves(p, q)
  <2>1. queues'[p][q] = queues[p][q] /\ NextOf(p, q)' = NextOf(p, q) + 1
    BY <1>5 DEF QueueMoves
  <2>2. i \in NextOf(p, q) .. Len(queues[p][q]) /\ m = queues[p][q][i]
    BY <1>1, <1>2, <2>1
  <2> QED
    BY <1>3, <2>2 DEF Waiting
<1>6. CASE QueueCleared(p, q)
  <2>1. queues'[p][q] = <<>>
    BY <1>6 DEF QueueCleared
  <2>2. Waiting(p, q)' = {}
    <3>1. TypeInv' /\ OneHandler'
      BY GenuineStep DEF GenuineInv
    <3> QED
      BY <2>1, <3>1, NothingWaits
  <2> QED
    BY <2>2
<1>7. CASE QueueGrows(p, q)
  <2>1. PICK w \in Receiver, c \in Call \cup {NullCall} :
          /\ w[1] = p
          /\ NextOf(p, q) = 1 /\ NextOf(p, q)' = 1
          /\ queues'[p][q] = Append(queues[p][q], c)
          /\ c # NullCall => Enqueue(w) /\ c = Frame(w) /\ Queueable(p, q, c)
    <3>1. \A w \in Receiver : Enqueue(w) => Frame(w) \in Call
      BY <1>1, ReceivingTyped DEF Enqueue, Queueing
    <3> QED
      BY <1>7, <3>1 DEF QueueGrows
  <2>2. \/ i \in 1 .. Len(queues[p][q]) /\ m = queues[p][q][i]
        \/ m = c
    BY <1>1, <1>2, <2>1, AppendIndex
  <2> QED
    BY <1>3, <2>1, <2>2 DEF Waiting
<1> QED
  BY <1>4, <1>5, <1>6, <1>7, QueueStep

-----------------------------------------------------------------------------
(***************************************************************************)
(* The order of execution.  Two requests of different participants are in  *)
(* any order; a call that is in a queue or in flight is not of the queue   *)
(* of a synchronous one, nor of another queue.                             *)
(***************************************************************************)
OrderInv ==
  /\ GenuineInv
  /\ OneHandler
  /\ EntriesOrdered
  /\ ExecutedBeforeWaiting
  /\ SeenBeforeFrames
  /\ FramesOrdered
  /\ QueueOrder
  /\ ExecutedOnce

LEMMA SameQueueKept ==
  ASSUME TypeInv, [Next]_vars, NEW r \in AllIssued, NEW s \in AllIssued
  PROVE  SameQueue(r, s)' <=> SameQueue(r, s)
BY IssuedKept DEF SameQueue, QueueOf, IsCrud

(* A receiver takes the first frame of its channel.                        *)
LEMMA FrameTaken ==
  ASSUME TypeInv, NEW w \in Receiver, Receive(w)
  PROVE  net'[w] = Tail(net[w])
<1> DEFINE t == Taken(w)
           n == Answer(Frame(w))
<1>1. /\ t \in [Receiver -> Seq(Call)] /\ t[w] = Tail(net[w])
      /\ n \in Call /\ w[2] # w[1]
  BY ReceiveNet, TakenFrames, AnswerFields, WorkerParticipant DEF Receiving, TypeInv
<1>2. net' = t \/ net' = Sent(t, w[1], n)
  BY ReceiveNet
<1> HIDE DEF t, n
<1>3. Sent(t, w[1], n)[w] = IF w[2] = w[1] THEN Append(t[w], n) ELSE t[w]
  BY DEF Sent
<1> QED
  BY <1>1, <1>2, <1>3

(* The first frame of a channel comes before what is then in the channels. *)
LEMMA FrameFirst ==
  ASSUME OrderInv, NEW w \in Receiver, Receive(w), ~ IsAnswer(Frame(w)),
         NEW v \in Receiver, v[1] = w[1], NEW m \in Frames(v), m \in Frames(v)',
         ~ IsAnswer(m)
  PROVE  Before(Frame(w).request, m.request)
<1>1. TypeInv /\ GenuineInv /\ FramesOrdered
  BY DEF OrderInv, GenuineInv
<1>2. Receiving(w) /\ Frame(w).request[1] = w[2] /\ m.request[1] = v[2]
  BY <1>1, ReceiveNet, FrameGenuine DEF GenuineInv, FramesGenuine
<1>3. CASE v # w
  <2>1. v[2] # w[2]
    BY <1>3 DEF Receiver
  <2> QED
    BY <1>2, <2>1 DEF Before
<1>4. CASE v = w
  <2>1. /\ net[w] \in Seq(Call) /\ net[w] # <<>>
        /\ Taken(w) \in [Receiver -> Seq(Call)] /\ Taken(w)[w] = Tail(net[w])
        /\ Frame(w) \in Call /\ w[1] # w[2]
    BY <1>1, <1>2, TakenFrames, Containers, WorkerParticipant DEF Receiving, TypeInv
  <2>2. net'[w] = Tail(net[w])
    BY <1>1, FrameTaken
  <2>3. PICK i \in 1 .. Len(net[w]) - 1 : m = net[w][i + 1]
    BY <1>4, <2>1, <2>2, TailIndex DEF Frames
  <2>4. /\ 1 \in 1 .. Len(net[w]) /\ i + 1 \in 1 .. Len(net[w]) /\ 1 < i + 1
        /\ net[w][1] = Frame(w)
    BY <2>1, <2>3, TailIndex DEF Frame
  <2> QED
    BY <1>1, <2>3, <2>4 DEF FramesOrdered
<1> QED
  BY <1>3, <1>4

(* A call that is issued now comes after those that were issued.           *)
LEMMA NewerThanIssued ==
  ASSUME NEW p \in Participant, NEW r \in AllIssued, NEW s, s = <<p, Len(issued[p]) + 1>>,
         TypeInv
  PROVE  Before(r, s)
BY DEF AllIssued, Request, Before, TypeInv, CDispatcherTypeOK

LEMMA FramesOrderedStep == OrderInv /\ [Next]_vars => FramesOrdered'
<1> SUFFICES ASSUME OrderInv, [Next]_vars, NEW v \in Receiver,
                    NEW i \in 1 .. Len(net'[v]), NEW j \in 1 .. Len(net'[v]), i < j,
                    ~ IsAnswer(net'[v][i]), ~ IsAnswer(net'[v][j])
             PROVE  Before(net'[v][i].request, net'[v][j].request)
  BY DEF FramesOrdered, Before, IsAnswer, IsCrud
<1>1. /\ TypeInv /\ GenuineInv /\ FramesOrdered
      /\ net[v] \in Seq(Call) /\ v[2] \in Participant
  BY Containers, WorkerParticipant DEF OrderInv, GenuineInv, TypeInv
<1>2. CASE net'[v] = net[v]
  BY <1>1, <1>2 DEF FramesOrdered
<1>3. CASE ChannelTaken(v)
  <2>1. net[v] # <<>> /\ net'[v] = Tail(net[v])
    BY <1>3 DEF ChannelTaken
  <2>2. /\ i + 1 \in 1 .. Len(net[v]) /\ j + 1 \in 1 .. Len(net[v]) /\ i + 1 < j + 1
        /\ net'[v][i] = net[v][i + 1] /\ net'[v][j] = net[v][j + 1]
    BY <1>1, <2>1, TailIndex
  <2> QED
    BY <1>1, <2>2 DEF FramesOrdered
<1>4. ASSUME NEW n \in Call, net'[v] = Append(net[v], n)
      PROVE  /\ i \in 1 .. Len(net[v]) /\ net'[v][i] = net[v][i]
             /\ \/ j \in 1 .. Len(net[v]) /\ net'[v][j] = net[v][j]
                \/ net'[v][j] = n
  BY <1>1, <1>4, AppendIndex
<1>5. CASE ChannelAnswered(v)
  BY <1>1, <1>4, <1>5 DEF ChannelAnswered, FramesOrdered
<1>6. CASE ChannelCalled(v)
  <2>1. PICK n \in Call : /\ n.request = <<v[2], Len(issued[v[2]]) + 1>>
                          /\ net'[v] = Append(net[v], n)
    BY <1>6 DEF ChannelCalled
  <2>2. CASE net'[v][j] = n
    <3>1. net[v][i] \in Frames(v) /\ net'[v][i] = net[v][i]
      BY <1>4, <2>1 DEF Frames
    <3>2. net[v][i].request \in AllIssued
      BY <1>1, <3>1 DEF GenuineInv, FramesGenuine, Genuine
    <3> QED
      BY <1>1, <2>1, <2>2, <3>1, <3>2, NewerThanIssued
  <2> QED
    BY <1>1, <1>4, <2>1, <2>2 DEF FramesOrdered
<1> QED
  BY <1>1, <1>2, <1>3, <1>5, <1>6, ChannelStep

LEMMA EntriesOrderedStep == OrderInv /\ [Next]_vars => EntriesOrdered'
<1> SUFFICES ASSUME OrderInv, [Next]_vars, NEW p \in Participant, NEW q \in Queue,
                    NEW i \in 1 .. Len(queues'[p][q]), NEW j \in 1 .. Len(queues'[p][q]),
                    i < j, queues'[p][q][i] # NullCall, queues'[p][q][j] # NullCall
             PROVE  Before(queues'[p][q][i].request, queues'[p][q][j].request)
  BY DEF EntriesOrdered, Before, NullCall
<1>1. /\ TypeInv /\ GenuineInv /\ OneHandler /\ EntriesOrdered /\ SeenBeforeFrames
      /\ queues[p][q] \in Seq(Call \cup {NullCall})
  BY Containers DEF OrderInv, GenuineInv, TypeInv
<1>2. CASE QueueKept(p, q) \/ QueueMoves(p, q)
  BY <1>1, <1>2 DEF QueueKept, QueueMoves, EntriesOrdered
<1>3. CASE QueueCleared(p, q)
  BY <1>3 DEF QueueCleared
<1>4. CASE QueueGrows(p, q)
  <2>1. PICK w \in Receiver, c \in Call \cup {NullCall} :
          /\ w[1] = p
          /\ queues'[p][q] = Append(queues[p][q], c)
          /\ c # NullCall => Enqueue(w) /\ c = Frame(w) /\ Queueable(p, q, c)
    <3>1. \A w \in Receiver : Enqueue(w) => Frame(w) \in Call
      BY <1>1, ReceivingTyped DEF Enqueue, Queueing
    <3> QED
      BY <1>4, <3>1 DEF QueueGrows
  <2>2. /\ i \in 1 .. Len(queues[p][q]) /\ queues'[p][q][i] = queues[p][q][i]
        /\ \/ j \in 1 .. Len(queues[p][q]) /\ queues'[p][q][j] = queues[p][q][j]
           \/ queues'[p][q][j] = c
    BY <1>1, <2>1, AppendIndex
  <2>3. CASE queues'[p][q][j] = c
    <3>1. queues[p][q][i] \in Entries(p, q)
      BY <2>2 DEF Entries
    <3>2. c \in Frames(w) /\ ~ IsAnswer(c)
      BY <1>1, <2>1, <2>3, ReceivingTyped DEF Enqueue, Queueing
    <3> QED
      BY <1>1, <2>1, <2>2, <2>3, <3>1, <3>2 DEF SeenBeforeFrames
  <2> QED
    BY <1>1, <2>2, <2>3 DEF EntriesOrdered
<1> QED
  BY <1>1, <1>2, <1>3, <1>4, QueueStep

(* What is executed or queued in this step was in flight or in a queue.    *)
LEMMA SeenBeforeFramesStep == OrderInv /\ [Next]_vars => SeenBeforeFrames'
<1> SUFFICES ASSUME OrderInv, [Next]_vars, NEW v \in Receiver, NEW m \in Frames(v)',
                    ~ IsAnswer(m)
             PROVE  /\ \A r \in Elements(log'[v[1]]) : Before(r, m.request)
                    /\ \A q \in Queue : \A n \in Entries(v[1], q)' :
                         Before(n.request, m.request)
  BY DEF SeenBeforeFrames, Before, IsAnswer, IsCrud, Elements
<1> DEFINE p == v[1]
<1>1. /\ TypeInv /\ GenuineInv /\ OneHandler /\ SeenBeforeFrames /\ RecordsIssued
      /\ net[v] \in Seq(Call) /\ p \in Participant /\ v[2] \in Participant
      /\ log[p] \in Seq(Request)
  BY Containers, WorkerParticipant DEF OrderInv, GenuineInv, TypeInv
<1>2. CASE m \in Frames(v)
  <2>1. ASSUME NEW r \in Elements(log'[p])
        PROVE  Before(r, m.request)
    <3>1. CASE r \in Elements(log[p])
      BY <1>1, <1>2, <3>1 DEF SeenBeforeFrames
    <3>2. CASE LogHandled(p)
      <4>1. PICK w \in Worker : /\ w[1] = p
                                /\ Executing(w)
                                /\ log'[p] = Append(log[p], Current(w).request)
        BY <3>2 DEF LogHandled
      <4>2. /\ worker[w].q \in Queue /\ Current(w) \in Entries(p, worker[w].q)
            /\ Current(w).request \in Request
        BY <1>1, <4>1, CurrentTyped, CallFields
      <4>3. r \in Elements(log[p]) \cup {Current(w).request}
        BY <1>1, <4>1, <4>2, LogAppended
      <4> QED
        BY <1>1, <1>2, <3>1, <4>2, <4>3 DEF SeenBeforeFrames
    <3>3. CASE LogSynchronous(p)
      <4>1. PICK w \in Receiver : /\ w[1] = p
                                  /\ RunSynchronously(w)
                                  /\ log'[p] = Append(log[p], Frame(w).request)
        BY <3>3 DEF LogSynchronous
      <4>2. Receive(w) /\ Receiving(w) /\ Frame(w).callId >= 0
        BY <4>1 DEF Receive, RunSynchronously
      <4>3. ~ IsAnswer(Frame(w)) /\ Frame(w).request \in Request
        BY <1>1, <4>2, FrameGenuine, CallFields
      <4>4. r \in Elements(log[p]) \cup {Frame(w).request}
        BY <1>1, <4>1, <4>3, LogAppended
      <4>5. Before(Frame(w).request, m.request)
        BY <1>2, <4>1, <4>2, <4>3, FrameFirst
      <4> QED
        BY <3>1, <4>4, <4>5
    <3> QED
      BY <1>1, <3>1, <3>2, <3>3, LogStep
  <2>2. ASSUME NEW q \in Queue, NEW n \in Entries(p, q)'
        PROVE  Before(n.request, m.request)
    <3>1. CASE n \in Entries(p, q)
      BY <1>1, <1>2, <3>1 DEF SeenBeforeFrames
    <3>2. CASE n \notin Entries(p, q)
      <4>1. ~ QueueKept(p, q) /\ ~ QueueMoves(p, q) /\ ~ QueueCleared(p, q)
        BY <3>2 DEF QueueKept, QueueMoves, QueueCleared, Entries
      <4>2. QueueGrows(p, q)
        BY <1>1, <4>1, QueueStep
      <4>3. PICK w \in Receiver, c \in Call \cup {NullCall} :
              /\ w[1] = p
              /\ queues'[p][q] = Append(queues[p][q], c)
              /\ c # NullCall => Enqueue(w) /\ c = Frame(w)
        <5>1. \A w \in Receiver : Enqueue(w) => Frame(w) \in Call
          BY <1>1, ReceivingTyped DEF Enqueue, Queueing
        <5> QED
          BY <4>2, <5>1 DEF QueueGrows
      <4>4. queues[p][q] \in Seq(Call \cup {NullCall})
        BY <1>1, Containers DEF TypeInv
      <4>5. Entries(p, q)' = Entries(p, q) \cup ({c} \ {NullCall})
        <5> DEFINE s == queues[p][q]
                   t == queues'[p][q]
        <5>1. s \in Seq(Call \cup {NullCall}) /\ t = Append(s, c)
          BY <4>3, <4>4
        <5> HIDE DEF s, t
        <5>2. {t[i] : i \in 1 .. Len(t)} \ {NullCall}
                = ({s[i] : i \in 1 .. Len(s)} \ {NullCall}) \cup ({c} \ {NullCall})
          BY <5>1, EntriesAppended
        <5> QED
          BY <5>2 DEF Entries, s, t
      <4>6. n = c /\ c # NullCall
        BY <3>2, <4>5
      <4>7. Receive(w) /\ ~ IsAnswer(Frame(w)) /\ n = Frame(w)
        BY <4>3, <4>6 DEF Receive, Enqueue, Queueing
      <4> QED
        BY <1>2, <4>3, <4>7, FrameFirst
    <3> QED
      BY <3>1, <3>2
  <2> QED
    BY <2>1, <2>2
<1>3. CASE m \notin Frames(v)
  <2>1. ChannelAnswered(v) \/ ChannelCalled(v)
    <3>1. CASE net'[v] = net[v]
      BY <1>3, <3>1 DEF Frames
    <3>2. CASE ChannelTaken(v)
      BY <1>1, <1>3, <3>2, TailElements DEF Frames, ChannelTaken
    <3> QED
      BY <1>1, <3>1, <3>2, ChannelStep
  <2>2. ~ ChannelAnswered(v)
    <3>1. ASSUME NEW n \in Call, net'[v] = Append(net[v], n)
          PROVE  m = n
      BY <1>1, <1>3, <3>1, AppendElements DEF Frames
    <3> QED
      BY <3>1 DEF ChannelAnswered
  <2>3. PICK n \in Call : /\ n.request = <<v[2], Len(issued[v[2]]) + 1>>
                          /\ net'[v] = Append(net[v], n)
                          /\ UNCHANGED <<queues, log>>
    BY <2>1, <2>2 DEF ChannelCalled
  <2>4. m = n
    BY <1>1, <1>3, <2>3, AppendElements DEF Frames
  <2>5. \A r \in Elements(log'[p]) : r \in AllIssued
    BY <1>1, <2>3 DEF RecordsIssued
  <2>6. \A q \in Queue : \A k \in Entries(p, q)' : k.request \in AllIssued
    BY <1>1, <2>3 DEF Entries, GenuineInv, EntriesGenuine, Queueable, Genuine
  <2> QED
    BY <1>1, <2>3, <2>4, <2>5, <2>6, NewerThanIssued
<1> QED
  BY <1>2, <1>3

(***************************************************************************)
(* A call that is executed is the first that waits in its queue.           *)
(***************************************************************************)
LEMMA CurrentFirst ==
  ASSUME OrderInv, [Next]_vars, NEW w \in Worker, Executing(w), Run(w) \/ RunFails(w),
         NEW m \in WaitingCalls(w[1])', SameQueue(Current(w).request, m.request)
  PROVE  Before(Current(w).request, m.request)
<1> DEFINE p == w[1]
           c == Current(w)
           q0 == worker[w].q
<1>1. /\ TypeInv /\ GenuineInv /\ OneHandler /\ TypeInv' /\ OneHandler' /\ EntriesOrdered
      /\ p \in Participant /\ q0 \in Queue
      /\ Queueable(p, q0, c) /\ Issued(c.request) = c
      /\ worker[w].i \in 1 .. Len(queues[p][q0]) /\ c = queues[p][q0][worker[w].i]
      /\ c # NullCall
  BY GenuineStep, CurrentGenuine, CurrentTyped DEF OrderInv, GenuineInv, Executing
<1>2. PICK q \in Queue : m \in Waiting(p, q)'
  BY DEF WaitingCalls
<1>3. Queueable(p, q, m)
  <2>1. Waiting(p, q) \subseteq Entries(p, q)
    BY <1>1, PositionTyped
  <2> QED
    BY <1>1, <1>2, <2>1, WaitingAfter DEF GenuineInv, EntriesGenuine
<1>4. q = q0
  BY <1>1, <1>3 DEF SameQueue, Queueable, Genuine
<1>5. Run(w)
  BY <1>1, <1>2, <1>4, FailureClears
<1>6. /\ NextOf(p, q)' = worker[w].i + 1
      /\ queues' = queues
  BY <1>1, <1>4, <1>5, RunPosition
<1>7. PICK j \in worker[w].i + 1 .. Len(queues[p][q]) : m = queues[p][q][j]
  BY <1>2, <1>6 DEF Waiting
<1>8. m # NullCall
  BY <1>2 DEF Waiting
<1>9. j \in 1 .. Len(queues[p][q]) /\ worker[w].i < j
  <2>1. worker[w].i \in 1 .. Len(queues[p][q])
    BY <1>1, <1>4
  <2>2. queues[p][q] \in Seq(Call \cup {NullCall})
    BY <1>1, Containers DEF TypeInv
  <2>3. Len(queues[p][q]) \in Nat
    BY <2>2
  <2> QED
    BY <1>7, <2>1, <2>3
<1> QED
  BY <1>1, <1>4, <1>7, <1>8, <1>9 DEF EntriesOrdered

(* A synchronous call has no queue.                                        *)
LEMMA SynchronousApart ==
  ASSUME GenuineInv, NEW w \in Receiver, RunSynchronously(w), NEW r, NEW s,
         Frame(w).request \in {r, s}
  PROVE  ~ SameQueue(r, s)
<1>1. Receiving(w) /\ Frame(w).callId >= 0 /\ Frame(w).mode = "synchronous"
      /\ Implements(w[1], Frame(w))
  BY DEF RunSynchronously
<1>2. Issued(Frame(w).request) = Frame(w) /\ w[1] \in Participant
  BY <1>1, FrameGenuine
<1>3. ~ IsCrud(Frame(w))
  BY <1>1, <1>2, CDispatcherAssumption DEF Implements, Provides, IsCrud
<1> QED
  BY <1>1, <1>2, <1>3 DEF SameQueue

LEMMA ExecutedBeforeWaitingStep == OrderInv /\ [Next]_vars => ExecutedBeforeWaiting'
<1> SUFFICES ASSUME OrderInv, [Next]_vars, NEW p \in Participant,
                    NEW r \in Elements(log'[p]), NEW m \in WaitingCalls(p)',
                    SameQueue(r, m.request)'
             PROVE  Before(r, m.request)
  BY DEF ExecutedBeforeWaiting, Before, Elements
<1>1. /\ TypeInv /\ GenuineInv /\ OneHandler /\ SeenBeforeFrames /\ ExecutedBeforeWaiting
      /\ RecordsIssued /\ log[p] \in Seq(Request)
  BY Containers DEF OrderInv, GenuineInv, TypeInv
<1>2. PICK q \in Queue : m \in Waiting(p, q)'
  BY DEF WaitingCalls
<1>3. \/ m \in Waiting(p, q)
      \/ \E w \in Receiver : Enqueue(w) /\ w[1] = p /\ m = Frame(w)
  BY <1>1, <1>2, WaitingAfter
<1>4. m.request \in AllIssued
  <2>1. Waiting(p, q) \subseteq Entries(p, q)
    BY <1>1, PositionTyped
  <2>2. Queueable(p, q, m)
    BY <1>1, <1>2, <2>1, WaitingAfter DEF GenuineInv, EntriesGenuine
  <2> QED
    BY <2>2 DEF Queueable, Genuine
<1>5. CASE r \in Elements(log[p])
  <2>1. SameQueue(r, m.request)
    BY <1>1, <1>4, <1>5, SameQueueKept DEF RecordsIssued
  <2>2. CASE m \in Waiting(p, q)
    BY <1>1, <1>5, <2>1, <2>2 DEF ExecutedBeforeWaiting, WaitingCalls
  <2>3. ASSUME NEW w \in Receiver, Enqueue(w), w[1] = p, m = Frame(w)
        PROVE  Before(r, m.request)
    <3>1. m \in Frames(w) /\ ~ IsAnswer(m)
      BY <1>1, <2>3, ReceivingTyped DEF Enqueue, Queueing
    <3> QED
      BY <1>1, <1>5, <2>3, <3>1 DEF SeenBeforeFrames
  <2> QED
    BY <1>3, <2>2, <2>3
<1>6. CASE LogHandled(p)
  <2>1. PICK w \in Worker : /\ w[1] = p
                            /\ Executing(w)
                            /\ Run(w) \/ RunFails(w)
                            /\ log'[p] = Append(log[p], Current(w).request)
    BY <1>6 DEF LogHandled
  <2>2. Current(w).request \in AllIssued /\ Current(w).request \in Request
    BY <1>1, <2>1, CurrentGenuine DEF AllIssued
  <2>3. r \in Elements(log[p]) \cup {Current(w).request}
    BY <1>1, <2>1, <2>2, LogAppended
  <2>4. CASE r = Current(w).request
    <3>1. SameQueue(r, m.request)
      BY <1>1, <1>4, <2>2, <2>4, SameQueueKept
    <3> QED
      BY <2>1, <2>4, <3>1, CurrentFirst
  <2> QED
    BY <1>5, <2>3, <2>4
<1>7. CASE LogSynchronous(p)
  <2>1. PICK w \in Receiver : /\ w[1] = p
                              /\ RunSynchronously(w)
                              /\ log'[p] = Append(log[p], Frame(w).request)
    BY <1>7 DEF LogSynchronous
  <2>2. Frame(w).request \in AllIssued /\ Frame(w).request \in Request
    BY <1>1, <2>1, FrameGenuine DEF AllIssued, RunSynchronously
  <2>3. r \in Elements(log[p]) \cup {Frame(w).request}
    BY <1>1, <2>1, <2>2, LogAppended
  <2>4. CASE r = Frame(w).request
    <3>1. SameQueue(r, m.request)
      BY <1>1, <1>4, <2>2, <2>4, SameQueueKept
    <3> QED
      BY <1>1, <2>1, <2>4, <3>1, SynchronousApart
  <2> QED
    BY <1>5, <2>3, <2>4
<1> QED
  BY <1>1, <1>5, <1>6, <1>7, LogStep

LEMMA ExecutionOrderStep == OrderInv /\ [Next]_vars => QueueOrder' /\ ExecutedOnce'
<1> SUFFICES ASSUME OrderInv, [Next]_vars
             PROVE  QueueOrder' /\ ExecutedOnce'
  OBVIOUS
<1>1. /\ TypeInv /\ GenuineInv /\ OneHandler /\ SeenBeforeFrames /\ ExecutedBeforeWaiting
      /\ RecordsIssued /\ QueueOrder /\ ExecutedOnce /\ TypeInv'
  BY GenuineStep DEF OrderInv, GenuineInv
<1>2. \A p \in Participant :
        /\ log[p] \in Seq(Request) /\ DOMAIN log[p] = 1 .. Len(log[p])
        /\ log'[p] \in Seq(Request) /\ DOMAIN log'[p] = 1 .. Len(log'[p])
  BY <1>1 DEF TypeInv, CDispatcherTypeOK
<1>3. ASSUME NEW p \in Participant,
             NEW i \in 1 .. Len(log[p]), NEW j \in 1 .. Len(log[p]), i < j,
             NEW r, NEW s, r = log[p][i], s = log[p][j]
      PROVE  r # s /\ (SameQueue(r, s)' => Before(r, s))
  <2>1. r \in AllIssued /\ s \in AllIssued
    BY <1>1, <1>2, <1>3 DEF RecordsIssued, Elements
  <2>2. SameQueue(r, s)' <=> SameQueue(r, s)
    BY <1>1, <2>1, SameQueueKept
  <2>3. r # s
    BY <1>1, <1>2, <1>3 DEF ExecutedOnce
  <2> QED
    BY <1>1, <1>2, <1>3, <2>2, <2>3 DEF QueueOrder, Before
<1>4. ASSUME NEW p \in Participant, NEW r \in Elements(log[p]), NEW s,
             \/ LogHandled(p) /\ log'[p] = Append(log[p], s)
             \/ LogSynchronous(p) /\ log'[p] = Append(log[p], s)
      PROVE  r # s /\ (SameQueue(r, s)' => Before(r, s))
  <2>1. CASE LogHandled(p)
    <3>1. PICK w \in Worker : /\ w[1] = p
                              /\ Executing(w)
                              /\ log'[p] = Append(log[p], Current(w).request)
      BY <2>1 DEF LogHandled
    <3>2. Current(w) \in WaitingCalls(p) /\ Queueable(p, worker[w].q, Current(w))
          /\ Current(w).request \in AllIssued /\ Issued(Current(w).request) = Current(w)
          /\ Current(w).request \in Request
      BY <1>1, <3>1, CurrentWaits, CurrentGenuine DEF AllIssued
    <3>3. s = Current(w).request
      <4>1. /\ log'[p][Len(log[p]) + 1] = s
            /\ log'[p][Len(log[p]) + 1] = Current(w).request
        BY <1>2, <1>4, <3>1
      <4> QED
        BY <4>1
    <3>4. SameQueue(r, s)' <=> SameQueue(r, s)
      BY <1>1, <1>4, <3>2, <3>3, SameQueueKept DEF RecordsIssued
    <3>5. SameQueue(r, s) => Before(r, s)
      BY <1>1, <1>4, <3>2, <3>3 DEF ExecutedBeforeWaiting
    <3>6. SameQueue(s, s)
      BY <3>2, <3>3 DEF SameQueue, Queueable
    <3>7. ~ Before(s, s)
      BY <3>2, <3>3, CDispatcherAssumption DEF Before, Request
    <3> QED
      BY <3>4, <3>5, <3>6, <3>7
  <2>2. CASE LogSynchronous(p)
    <3>1. PICK w \in Receiver : /\ w[1] = p
                                /\ RunSynchronously(w)
                                /\ log'[p] = Append(log[p], Frame(w).request)
      BY <2>2 DEF LogSynchronous
    <3>2. /\ Frame(w) \in Frames(w) /\ ~ IsAnswer(Frame(w))
          /\ Frame(w).request \in Request
      BY <1>1, <3>1, FrameGenuine DEF AllIssued, RunSynchronously
    <3>3. s = Frame(w).request
      <4>1. /\ log'[p][Len(log[p]) + 1] = s
            /\ log'[p][Len(log[p]) + 1] = Frame(w).request
        BY <1>2, <1>4, <3>1
      <4> QED
        BY <4>1
    <3>4. Before(r, s)
      BY <1>1, <1>4, <3>1, <3>2, <3>3 DEF SeenBeforeFrames
    <3>5. ~ Before(s, s)
      BY <3>2, <3>3, CDispatcherAssumption DEF Before, Request
    <3> QED
      BY <3>4, <3>5
  <2> QED
    BY <1>4, <2>1, <2>2
<1>5. ASSUME NEW p \in Participant,
             NEW i \in 1 .. Len(log'[p]), NEW j \in 1 .. Len(log'[p]), i < j,
             NEW r, NEW s, r = log'[p][i], s = log'[p][j]
      PROVE  r # s /\ (SameQueue(r, s)' => Before(r, s))
  <2>1. CASE log'[p] = log[p]
    BY <1>3, <1>5, <2>1
  <2>2. ASSUME NEW t \in Request, log'[p] = Append(log[p], t)
        PROVE  /\ i \in 1 .. Len(log[p]) /\ log'[p][i] = log[p][i]
               /\ \/ j \in 1 .. Len(log[p]) /\ log'[p][j] = log[p][j]
                  \/ log'[p][j] = t
    BY <1>2, <1>5, <2>2, AppendIndex
  <2>3. CASE LogHandled(p) \/ LogSynchronous(p)
    <3>1. PICK t \in Request : log'[p] = Append(log[p], t)
      BY <1>1, <2>3, CurrentGenuine, FrameGenuine
      DEF LogHandled, LogSynchronous, RunSynchronously, AllIssued
    <3>2. CASE j \in 1 .. Len(log[p]) /\ log'[p][j] = log[p][j]
      BY <1>3, <1>5, <2>2, <3>1, <3>2
    <3>3. CASE log'[p][j] = t
      <4>1. s = t /\ r \in Elements(log[p])
        BY <1>2, <1>5, <2>2, <3>1, <3>3 DEF Elements
      <4> QED
        BY <1>4, <2>3, <3>1, <4>1
    <3> QED
      BY <2>2, <3>1, <3>2, <3>3
  <2> QED
    BY <1>1, <2>1, <2>3, LogStep
<1>6. QueueOrder'
  <2> SUFFICES ASSUME NEW p \in Participant, NEW i \in DOMAIN log'[p], NEW j \in DOMAIN log'[p]
               PROVE  LET r == log'[p][i]
                          s == log'[p][j]
                      IN  i < j /\ r[1] = s[1] /\ SameQueue(log[p][i], log[p][j])' => r[2] < s[2]
    BY DEF QueueOrder
  <2> QED
    BY <1>2, <1>5 DEF Before
<1>7. ExecutedOnce'
  <2> SUFFICES ASSUME NEW p \in Participant, NEW i \in DOMAIN log'[p], NEW j \in DOMAIN log'[p],
                      i < j
               PROVE  log'[p][i] # log'[p][j]
    BY <1>2 DEF ExecutedOnce
  <2> QED
    BY <1>2, <1>5
<1> QED
  BY <1>6, <1>7

LEMMA OrderInit == Init => OrderInv
<1> SUFFICES ASSUME Init PROVE OrderInv
  OBVIOUS
<1>1. GenuineInv /\ OneHandler
  BY GenuineInit
<1>2. Elements(<<>>) = {} /\ \A p \in Participant : log[p] = <<>>
  BY DEF Init, Elements
<1>3. EntriesOrdered /\ FramesOrdered
  BY DEF Init, EntriesOrdered, FramesOrdered
<1>4. ExecutedBeforeWaiting
  BY <1>2 DEF ExecutedBeforeWaiting
<1>5. SeenBeforeFrames
  BY DEF Init, SeenBeforeFrames, Frames
<1>6. QueueOrder /\ ExecutedOnce
  BY <1>2 DEF QueueOrder, ExecutedOnce
<1> QED
  BY <1>1, <1>3, <1>4, <1>5, <1>6 DEF OrderInv

LEMMA OrderStep == OrderInv /\ [Next]_vars => OrderInv'
<1> SUFFICES ASSUME OrderInv, [Next]_vars PROVE OrderInv'
  OBVIOUS
<1>1. GenuineInv' /\ OneHandler'
  BY GenuineStep DEF OrderInv
<1> QED
  BY <1>1, EntriesOrderedStep, ExecutedBeforeWaitingStep, SeenBeforeFramesStep,
     FramesOrderedStep, ExecutionOrderStep DEF OrderInv

LEMMA OrdersKept == Spec => []OrderInv
BY OrderInit, OrderStep, PTL DEF Spec

(***************************************************************************)
(* A request is executed at most once by a participant, whichever thread   *)
(* handles its queues, and whatever fails.                                 *)
(***************************************************************************)
THEOREM CExecutesOnce == Spec => []ExecutedOnce
<1>1. OrderInv => ExecutedOnce
  BY DEF OrderInv
<1> QED
  BY <1>1, OrdersKept, PTL

(***************************************************************************)
(* Two calls of a participant that went through the same queue of another  *)
(* are executed in the order of their issue.                               *)
(***************************************************************************)
THEOREM CKeepsQueueOrder == Spec => []QueueOrder
<1>1. OrderInv => QueueOrder
  BY DEF OrderInv
<1> QED
  BY <1>1, OrdersKept, PTL

-----------------------------------------------------------------------------
(***************************************************************************)
(* The promise of RemoteOperations.  The lane of a call is its queue.      *)
(***************************************************************************)
Lanes == [p \in Participant |-> [i \in 1 .. Len(issued[p]) |-> ViaQueue(issued[p][i])]]

LEMMA ViaQueueTyped ==
  \A m \in Call : /\ ViaQueue(m) \in Queue \cup {0}
                  /\ ViaQueue(m) # 0 => ViaQueue(m) = QueueOf(m) /\ (IsCrud(m) \/ m.mode # "synchronous")
BY CDispatcherAssumption, CallFields DEF ViaQueue, QueueOf, DefaultQueue, Queue

LEMMA SameLaneIsSameQueue ==
  ASSUME TypeInv, NEW r \in AllIssued, NEW s \in AllIssued, Abstract!SameLane(r, s)
  PROVE  r[1] = s[1] /\ SameQueue(r, s)
<1>1. \A t \in AllIssued : Issued(t) \in Call /\ Abstract!LaneOf(t) = ViaQueue(Issued(t))
  <2> SUFFICES ASSUME NEW t \in AllIssued
               PROVE  Issued(t) \in Call /\ Abstract!LaneOf(t) = ViaQueue(Issued(t))
    OBVIOUS
  <2>1. t[1] \in Participant /\ t[2] \in Nat \ {0} /\ t[2] <= Len(issued[t[1]])
        /\ issued[t[1]] \in Seq(Call)
    BY CDispatcherAssumption DEF AllIssued, Request, TypeInv, CDispatcherTypeOK
  <2>2. t[2] \in 1 .. Len(issued[t[1]])
    BY <2>1
  <2> QED
    BY <2>1, <2>2 DEF Issued, Abstract!LaneOf
<1>2. /\ r[1] = s[1] /\ ViaQueue(Issued(r)) = ViaQueue(Issued(s))
      /\ ViaQueue(Issued(r)) # 0
  BY <1>1 DEF Abstract!SameLane, Abstract!Unordered
<1> QED
  BY <1>1, <1>2, ViaQueueTyped DEF SameQueue

(* A call takes the lane of its queue. *)
LEMMA IssueImplemented ==
  ASSUME TypeInv, NEW p \in Participant, NEW m \in Call,
         issued' = [issued EXCEPT ![p] = Append(@, m)], UNCHANGED <<log, delivered>>
  PROVE  Abstract!Next
<1> DEFINE n == Len(issued[p])
           lane == ViaQueue(m)
<1>1. issued \in [Participant -> Seq(Call)] /\ issued[p] \in Seq(Call) /\ n \in Nat
  BY DEF TypeInv, CDispatcherTypeOK
<1>2. /\ issued'[p] = Append(issued[p], m) /\ Len(issued'[p]) = n + 1
      /\ \A i \in 1 .. n : issued'[p][i] = issued[p][i]
      /\ issued'[p][n + 1] = m
  BY <1>1, AppendIndex
<1>3. /\ Lanes[p] = [i \in 1 .. n |-> ViaQueue(issued[p][i])]
      /\ Lanes'[p] = [i \in 1 .. n + 1 |-> ViaQueue(issued'[p][i])]
  BY <1>2 DEF Lanes, ViaQueue, QueueOf, IsCrud
<1>4. Lanes[p] \in Seq(Queue \cup {0}) /\ Len(Lanes[p]) = n /\ lane \in Queue \cup {0}
  <2>1. \A i \in 1 .. n : issued[p][i] \in Call
    BY <1>1
  <2> QED
    BY <1>1, <1>3, <2>1, ViaQueueTyped
<1>5. Append(Lanes[p], lane) = [i \in 1 .. n + 1 |-> IF i \in 1 .. n THEN Lanes[p][i] ELSE lane]
  <2>1. \A l \in Seq(Queue \cup {0}) : \A x \in Queue \cup {0} : Len(l) = n =>
          Append(l, x) = [i \in 1 .. n + 1 |-> IF i \in 1 .. n THEN l[i] ELSE x]
    BY <1>1, AppendIsFunction
  <2> HIDE DEF lane
  <2> QED
    BY <1>4, <2>1
<1>6. \A i \in 1 .. n + 1 :
        ViaQueue(issued'[p][i]) = IF i \in 1 .. n THEN ViaQueue(issued[p][i]) ELSE lane
  BY <1>1, <1>2
<1>7. Append(Lanes[p], lane) = Lanes'[p]
  BY <1>3, <1>5, <1>6
<1>8. \A q \in Participant \ {p} : Lanes'[q] = Lanes[q]
  BY <1>1 DEF Lanes, ViaQueue, QueueOf, IsCrud
<1>9. Lanes' = [Lanes EXCEPT ![p] = Append(@, lane)]
  BY <1>7, <1>8 DEF Lanes
<1>10. Abstract!Issue(p, lane)
  BY <1>9 DEF Abstract!Issue, Lanes
<1> QED
  BY <1>4, <1>10 DEF Abstract!Next, Abstract!Unordered

(* What is executed was not yet, and is in order with its queue. *)
LEMMA ExecuteImplemented ==
  ASSUME TypeInv, RecordsIssued, NEW p \in Participant, NEW r \in AllIssued, r[1] # p,
         r \notin Elements(log[p]),
         \A s \in Elements(log[p]) : SameQueue(s, r) => Before(s, r),
         log' = [log EXCEPT ![p] = Append(@, r)], UNCHANGED <<issued, delivered>>
  PROVE  Abstract!Next
<1>1. log[p] \in Seq(Request) /\ Elements(log[p]) \subseteq AllIssued
  BY DEF TypeInv, CDispatcherTypeOK, RecordsIssued
<1>2. Abstract!DoneBy(p) = Elements(log[p])
  BY <1>1 DEF Abstract!DoneBy, Elements
<1>3. \A s \in Elements(log[p]) : Abstract!SameLane(s, r) => s[2] < r[2]
  BY <1>1, SameLaneIsSameQueue DEF Before
<1>4. UNCHANGED Lanes
  BY DEF Lanes, ViaQueue, QueueOf, IsCrud
<1>5. Abstract!Execute(p, r)
  BY <1>2, <1>3, <1>4 DEF Abstract!Execute, Lanes
<1>6. /\ r = <<r[1], r[2]>> /\ r[1] \in Participant \ {p}
      /\ r[2] \in 1 .. Len(Lanes[r[1]])
  <2>1. r \in Participant \X (1 .. MaxCall) /\ r[2] <= Len(issued[r[1]])
    BY DEF AllIssued, Request
  <2>2. r = <<r[1], r[2]>> /\ r[1] \in Participant \ {p} /\ r[2] \in Nat \ {0}
    BY <2>1, CDispatcherAssumption
  <2>3. issued[r[1]] \in Seq(Call)
    BY <2>2 DEF TypeInv, CDispatcherTypeOK
  <2>4. Len(Lanes[r[1]]) = Len(issued[r[1]])
    BY <2>2, <2>3 DEF Lanes
  <2> QED
    BY <2>1, <2>2, <2>3, <2>4
<1>7. Abstract!Execute(p, <<r[1], r[2]>>)
  BY <1>5, <1>6
<1> QED
  BY <1>6, <1>7 DEF Abstract!Next, Lanes

(* The call that a thread is at in its queue. *)
LEMMA HandledImplemented ==
  ASSUME OrderInv, NEW w \in Worker, Run(w) \/ RunFails(w)
  PROVE  Abstract!Next \/ UNCHANGED <<Lanes, log, delivered>>
<1> DEFINE p == w[1]
           r == Current(w).request
<1>1. /\ TypeInv /\ GenuineInv /\ ExecutedBeforeWaiting /\ RecordsIssued
      /\ Executing(w) /\ UNCHANGED <<issued, delivered>>
      /\ log' = log \/ log' = [log EXCEPT ![p] = Append(@, r)]
  BY DEF OrderInv, GenuineInv, Run, RunFails
<1>2. /\ p \in Participant /\ r \in AllIssued /\ r \in Request /\ Issued(r) = Current(w)
      /\ Current(w) \in WaitingCalls(p) /\ Queueable(p, worker[w].q, Current(w))
  BY <1>1, CurrentWaits, CurrentGenuine DEF AllIssued, OrderInv
<1>3. SameQueue(r, r) /\ r[1] # p
  BY <1>2 DEF SameQueue, Queueable
<1>4. \A s \in Elements(log[p]) : SameQueue(s, r) => Before(s, r)
  BY <1>1, <1>2 DEF ExecutedBeforeWaiting
<1>5. ~ Before(r, r)
  BY <1>2, CDispatcherAssumption DEF Before, Request
<1>6. r \notin Elements(log[p])
  BY <1>3, <1>4, <1>5
<1>7. CASE log' = log
  BY <1>1, <1>7 DEF Lanes, ViaQueue, QueueOf, IsCrud
<1>8. CASE log' = [log EXCEPT ![p] = Append(@, r)]
  <2> HIDE DEF r
  <2>1. PICK x \in AllIssued : x = r
    BY <1>2
  <2> QED
    BY <1>1, <1>2, <1>3, <1>4, <1>6, <1>8, <2>1, ExecuteImplemented
<1> QED
  BY <1>1, <1>7, <1>8

(* The call that a receiver executes itself. *)
LEMMA SynchronousImplemented ==
  ASSUME OrderInv, NEW w \in Receiver, RunSynchronously(w)
  PROVE  Abstract!Next
<1> DEFINE p == w[1]
           r == Frame(w).request
<1>1. /\ TypeInv /\ GenuineInv /\ SeenBeforeFrames /\ RecordsIssued
      /\ Receiving(w) /\ Frame(w).callId >= 0 /\ UNCHANGED <<issued, delivered>>
      /\ log' = [log EXCEPT ![p] = Append(@, r)]
  BY DEF OrderInv, GenuineInv, RunSynchronously
<1>2. /\ p \in Participant /\ r \in AllIssued /\ r \in Request /\ r[1] # p
      /\ Frame(w) \in Frames(w) /\ ~ IsAnswer(Frame(w))
  BY <1>1, FrameGenuine DEF AllIssued
<1>3. \A s \in Elements(log[p]) : Before(s, r)
  BY <1>1, <1>2 DEF SeenBeforeFrames
<1>4. ~ Before(r, r)
  BY <1>2, CDispatcherAssumption DEF Before, Request
<1>5. r \notin Elements(log[p])
  BY <1>3, <1>4
<1> HIDE DEF r
<1>6. PICK x \in AllIssued : x = r
  BY <1>2
<1> QED
  BY <1>1, <1>2, <1>3, <1>5, <1>6, ExecuteImplemented

(* No answer finds a callback: the keys are compared by their addresses. *)
LEMMA NoCallbackFound ==
  ASSUME TypeInv, NEW w \in Receiver, ReceiveAnswer(w)
  PROVE  UNCHANGED <<Lanes, log, delivered>>
<1>1. w[1] \in Participant /\ callbacks[w[1]] \subseteq {Field(p) : p \in Participant} \X Request
  BY WorkerParticipant DEF TypeInv, CDispatcherTypeOK
<1>2. \A b \in callbacks[w[1]] : b[1] # Key(w)
  BY <1>1 DEF Field, Key, Stack
<1>3. CallbackFound(w) = {}
  BY <1>2 DEF CallbackFound
<1>4. delivered' = delivered
  BY <1>1, <1>3 DEF ReceiveAnswer, TypeInv, CDispatcherTypeOK
<1> QED
  BY <1>4 DEF ReceiveAnswer, Lanes, ViaQueue, QueueOf, IsCrud

(***************************************************************************)
(* Whatever fails and whoever leaves or crashes, the C dispatchers         *)
(* implement RemoteOperations, with their queues as lanes.                 *)
(***************************************************************************)
THEOREM COperationsAreImplemented == Spec => OperationsImplemented
<1>1. Init => Abstract!Init
  <2> SUFFICES ASSUME Init PROVE Abstract!Init
    OBVIOUS
  <2>1. \A p \in Participant : [i \in 1 .. Len(issued[p]) |-> ViaQueue(issued[p][i])] = <<>>
    <3> TAKE p \in Participant
    <3>1. 1 .. Len(issued[p]) = {}
      BY DEF Init
    <3> QED
      BY <3>1
  <2> QED
    BY <2>1 DEF Init, Abstract!Init
<1>2. OrderInv /\ [Next]_vars => [Abstract!Next]_<<Lanes, log, delivered>>
  <2> SUFFICES ASSUME OrderInv, [Next]_vars
               PROVE  Abstract!Next \/ UNCHANGED <<Lanes, log, delivered>>
    OBVIOUS
  <2>1. TypeInv
    BY DEF OrderInv, GenuineInv
  <2>2. CASE UNCHANGED <<issued, log, delivered>>
    BY <2>2 DEF Lanes, ViaQueue, QueueOf, IsCrud
  <2>3. ASSUME NEW a \in Caller, NEW c \in Callable, IssueCall(a, c[1], c[2], c[3], c[4])
        PROVE  Abstract!Next \/ UNCHANGED <<Lanes, log, delivered>>
    <3>1. UNCHANGED <<log, delivered>>
      BY <2>3, IssueEffect
    <3> QED
      BY <2>1, <2>2, <3>1, IssuedGrows, IssueImplemented
  <2>4. \/ UNCHANGED <<issued, log, delivered>>
        \/ \E a \in Caller, c \in Callable : IssueCall(a, c[1], c[2], c[3], c[4])
        \/ \E w \in Worker : Run(w) \/ RunFails(w)
        \/ \E w \in Receiver : RunSynchronously(w) \/ ReceiveAnswer(w)
    BY DEF Next, vars, RegisterCallback, Leave, Receive, Discard, NoArguments, Enqueue,
           QueueFull, NoCrudCall, NoCall, Ignore, UnknownOperation, Fails, Handle,
           HandleBegin, RunNull, ClearQueue
  <2> QED
    BY <2>1, <2>2, <2>3, <2>4, HandledImplemented, SynchronousImplemented, NoCallbackFound
<1> QED
  BY <1>1, <1>2, OrdersKept, PTL
  DEF Spec, OperationsImplemented, Abstract!Spec, Abstract!ops, Lanes

-----------------------------------------------------------------------------
(***************************************************************************)
(* What becomes of the calls: what waits goes on waiting, is executed, or  *)
(* is lost with its queue; what is lost is behind a failure.               *)
(***************************************************************************)
LEMMA WaitingLost ==
  ASSUME GenuineInv, OneHandler, [Next]_vars,
         NEW p \in Participant, NEW q \in Queue, NEW m \in Waiting(p, q)
  PROVE  \/ m \in Waiting(p, q)'
         \/ \E w \in Worker : w[1] = p /\ Run(w) /\ m = Current(w)
         \/ \E w \in Worker : w[1] = p /\ RunFails(w) /\ worker[w].q = q
<1>1. /\ TypeInv
      /\ queues[p][q] \in Seq(Call \cup {NullCall}) /\ Len(queues[p][q]) \in Nat
      /\ NextOf(p, q) \in Nat \ {0}
  BY PositionTyped, Containers DEF GenuineInv, TypeInv
<1>2. PICK i \in NextOf(p, q) .. Len(queues[p][q]) : m = queues[p][q][i]
  BY DEF Waiting
<1>3. m # NullCall
  BY DEF Waiting
<1>4. CASE QueueKept(p, q)
  BY <1>4 DEF QueueKept, Waiting
<1>5. CASE QueueMoves(p, q)
  <2>1. PICK w \in Worker : /\ Run(w)
                            /\ w[1] = p
                            /\ worker[w].q = q
                            /\ NextOf(p, q) = worker[w].i
                            /\ NextOf(p, q)' = worker[w].i + 1
                            /\ queues'[p][q] = queues[p][q]
    BY <1>5 DEF QueueMoves
  <2>2. CASE i = worker[w].i
    BY <1>2, <2>1, <2>2 DEF Current, Pending
  <2>3. CASE i # worker[w].i
    <3>1. i \in NextOf(p, q)' .. Len(queues'[p][q])
      BY <1>1, <1>2, <2>1, <2>3
    <3> QED
      BY <1>2, <1>3, <2>1, <3>1 DEF Waiting
  <2> QED
    BY <2>2, <2>3
<1>6. CASE QueueCleared(p, q)
  <2>1. NextOf(p, q) <= Len(queues[p][q])
    BY <1>1, <1>2
  <2> QED
    BY <1>1, <1>6, <2>1 DEF QueueCleared
<1>7. CASE QueueGrows(p, q)
  <2>1. PICK c \in Call \cup {NullCall} :
          /\ NextOf(p, q) = 1 /\ NextOf(p, q)' = 1
          /\ queues'[p][q] = Append(queues[p][q], c)
    <3>1. \A w \in Receiver : Enqueue(w) => Frame(w) \in Call
      BY <1>1, ReceivingTyped DEF Enqueue, Queueing
    <3> QED
      BY <1>7, <3>1 DEF QueueGrows
  <2>2. Len(queues'[p][q]) = Len(queues[p][q]) + 1 /\ queues'[p][q][i] = queues[p][q][i]
    BY <1>1, <1>2, <2>1, AppendIndex
  <2>3. i \in NextOf(p, q)' .. Len(queues'[p][q])
    BY <1>1, <1>2, <2>1, <2>2
  <2> QED
    BY <1>2, <1>3, <2>2, <2>3 DEF Waiting
<1> QED
  BY <1>4, <1>5, <1>6, <1>7, QueueStep

LEMMA EnqueueWaits ==
  ASSUME GenuineInv, NEW w \in Receiver, Enqueue(w)
  PROVE  \A m : m = Frame(w) => m \in WaitingCalls(w[1])'
<1> SUFFICES ASSUME NEW m, m = Frame(w), NEW q, q = QueueOf(m)
             PROVE  m \in WaitingCalls(w[1])'
  OBVIOUS
<1> DEFINE p == w[1]
<1>1. /\ Queueing(w) /\ Receiving(w)
      /\ queues' = Queued(p, q, m)
      /\ worker' = [worker EXCEPT ![w] = AfterQueueing(m)]
  BY DEF Enqueue, Queueing
<1>2. /\ TypeInv /\ CDispatcherTypeOK
      /\ w \in Worker /\ p \in Participant /\ m \in Call /\ q \in Queue /\ m # NullCall
  BY <1>1, ReceivingTyped, CallFields DEF GenuineInv, TypeInv
<1>3. queues'[p][q] = Append(queues[p][q], m)
  BY <1>1, <1>2, AppendTyped
<1>4. queues[p][q] \in Seq(Call \cup {NullCall})
  BY <1>2 DEF CDispatcherTypeOK
<1>5. Len(queues'[p][q]) = Len(queues[p][q]) + 1 /\ queues'[p][q][Len(queues[p][q]) + 1] = m
      /\ Len(queues[p][q]) \in Nat
  BY <1>2, <1>3, <1>4, AppendIndex
<1>6. ~ QueuesLocked(p)'
  <2>1. AfterQueueing(m).pc # "handling"
    BY StatesTyped DEF AfterQueueing
  <2>2. ~ QueuesLocked(p)
    BY <1>1 DEF Queueing
  <2> QED
    BY <1>1, <1>2, <2>1, <2>2 DEF QueuesLocked, CDispatcherTypeOK
<1>7. NextOf(p, q)' = 1
  BY <1>6, PositionsAfter DEF Positions
<1>8. Len(queues[p][q]) + 1 \in NextOf(p, q)' .. Len(queues'[p][q])
  BY <1>5, <1>7
<1>9. m \in Waiting(p, q)'
  BY <1>2, <1>5, <1>8 DEF Waiting
<1> QED
  BY <1>2, <1>9 DEF WaitingCalls

(* What a step does to the arguments and to the failures.                  *)
LiveAfter(p) ==
  /\ failed[p] \subseteq failed'[p]
  /\ \A n \in live[p] : n \in live'[p] \/ \E w \in Worker : /\ w[1] = p
                                                         /\ Run(w)
                                                         /\ n = Current(w)
  /\ \A n \in live'[p] : \/ n \in live[p]
                         \/ IsAnswer(n)
                         \/ n.request \in failed'[p]
                         \/ \E w \in Receiver : w[1] = p /\ Enqueue(w) /\ n = Frame(w)

LEMMA LiveStep ==
  ASSUME TypeInv, [Next]_vars, NEW p \in Participant
  PROVE  LiveAfter(p)
<1>1. /\ live \in [Participant -> SUBSET Call]
      /\ failed \in [Participant -> SUBSET Request]
  BY DEF TypeInv, CDispatcherTypeOK
<1>2. ASSUME NEW w \in Receiver, NEW b \in BOOLEAN, Fails(w[1], Frame(w), b)
      PROVE  /\ failed[p] \subseteq failed'[p]
             /\ live[p] \subseteq live'[p]
             /\ \A n \in live'[p] : \/ n \in live[p]
                                    \/ IsAnswer(n)
                                    \/ n.request \in failed'[p]
  BY <1>1, <1>2 DEF Fails
<1>3. ASSUME NEW w \in Receiver, ReceiveAnswer(w)
      PROVE  /\ failed' = failed
             /\ live[p] \subseteq live'[p]
             /\ \A n \in live'[p] : n \in live[p] \/ IsAnswer(n)
  BY <1>1, <1>3 DEF ReceiveAnswer
<1>4. ASSUME NEW w \in Receiver, Enqueue(w)
      PROVE  /\ failed' = failed
             /\ live[p] \subseteq live'[p]
             /\ \A n \in live'[p] : n \in live[p] \/ (w[1] = p /\ n = Frame(w))
  BY <1>1, <1>4 DEF Enqueue
<1>5. ASSUME NEW w \in Receiver, Receive(w)
      PROVE  \/ UNCHANGED <<live, failed>>
             \/ Enqueue(w)
             \/ ReceiveAnswer(w)
             \/ \E b \in BOOLEAN : Fails(w[1], Frame(w), b)
  BY <1>5 DEF Receive, Discard, NoArguments, QueueFull, NoCrudCall, NoCall, Ignore,
              UnknownOperation, RunSynchronously
<1>6. ASSUME NEW w \in Worker, Handle(w)
      PROVE  /\ failed[p] \subseteq failed'[p]
             /\ live'[p] \subseteq live[p]
             /\ \A n \in live[p] : n \in live'[p] \/ (w[1] = p /\ Run(w) /\ n = Current(w))
  BY <1>1, <1>6 DEF Handle, HandleBegin, Run, Released, RunFails, RunNull, ClearQueue
<1>7. CASE UNCHANGED <<live, failed>>
  BY <1>7 DEF LiveAfter
<1>8. ASSUME NEW w \in Receiver, Receive(w)
      PROVE  LiveAfter(p)
  BY <1>2, <1>3, <1>4, <1>5, <1>7, <1>8 DEF LiveAfter
<1>9. ASSUME NEW w \in Worker, Handle(w)
      PROVE  LiveAfter(p)
  BY <1>6, <1>9 DEF LiveAfter
<1> QED
  BY <1>7, <1>8, <1>9 DEF Next, vars, IssueCall, RegisterCallback, Leave

(***************************************************************************)
(* A failure is remembered; a call that fails takes those of its queue     *)
(* with it.                                                                *)
(***************************************************************************)
LEMMA BehindKept ==
  ASSUME GenuineInv, [Next]_vars, NEW p \in Participant, NEW r \in AllIssued,
         BehindFailure(p, r)
  PROVE  BehindFailure(p, r)'
<1>1. TypeInv /\ failed[p] \subseteq AllIssued /\ failed[p] \subseteq failed'[p]
  BY LiveStep DEF GenuineInv, RecordsIssued, LiveAfter
<1>2. CASE r \in failed[p]
  BY <1>1, <1>2 DEF BehindFailure
<1>3. ASSUME NEW s \in failed[p], SameQueue(r, s), Addressed(p, Issued(s))
      PROVE  BehindFailure(p, r)'
  <2>1. SameQueue(r, s)' /\ s \in failed'[p]
    BY <1>1, <1>3, SameQueueKept
  <2>2. Issued(s)' = Issued(s)
    BY <1>1, IssuedKept
  <2>3. Addressed(p, Issued(s))'
    BY <1>3, <2>2 DEF Addressed, IsCrud, Implements, Provides
  <2> QED
    BY <2>1, <2>3 DEF BehindFailure
<1> QED
  BY <1>2, <1>3 DEF BehindFailure

LEMMA FailureTakesQueue ==
  ASSUME GenuineInv, [Next]_vars, NEW w \in Worker, RunFails(w),
         NEW m, Queueable(w[1], worker[w].q, m)
  PROVE  BehindFailure(w[1], m.request)'
<1> DEFINE p == w[1]
           c == Current(w)
<1>1. /\ TypeInv /\ Executing(w) /\ failed' = [failed EXCEPT ![p] = @ \cup {c.request}]
      /\ p \in Participant
      /\ Queueable(p, worker[w].q, c) /\ c.request \in AllIssued /\ Issued(c.request) = c
  BY CurrentGenuine DEF RunFails, GenuineInv
<1>2. m.request \in AllIssued /\ Issued(m.request) = m
  BY DEF Queueable, Genuine
<1>3. SameQueue(m.request, c.request) /\ Addressed(p, Issued(c.request))
  BY <1>1, <1>2 DEF SameQueue, Queueable
<1> SUFFICES ASSUME NEW s, s = c.request
             PROVE  BehindFailure(p, m.request)'
  OBVIOUS
<1>4. SameQueue(m.request, s)'
  BY <1>1, <1>2, <1>3, SameQueueKept
<1>5. s \in failed'[p]
  BY <1>1 DEF TypeInv, CDispatcherTypeOK
<1>6. Issued(s)' = Issued(s)
  BY <1>1, IssuedKept
<1>7. Addressed(p, Issued(s))'
  BY <1>3, <1>6 DEF Addressed, IsCrud, Implements, Provides
<1> QED
  BY <1>4, <1>5, <1>7 DEF BehindFailure

LEMMA ArgumentsOwnedStep ==
  OrderInv /\ ArgumentsOwned /\ [Next]_vars => ArgumentsOwned'
<1> SUFFICES ASSUME OrderInv, ArgumentsOwned, [Next]_vars, NEW p \in Participant
             PROVE  /\ WaitingCalls(p)' \subseteq live'[p]
                    /\ \A m \in live'[p] \ WaitingCalls(p)' :
                         IsAnswer(m) \/ BehindFailure(p, m.request)'
  BY DEF ArgumentsOwned, IsAnswer, IsCrud
<1>1. /\ TypeInv /\ GenuineInv /\ OneHandler /\ LiveAfter(p)
      /\ live[p] \in SUBSET Call /\ live' \in [Participant -> SUBSET Call]
  <2>1. TypeInv' /\ TypeInv /\ GenuineInv /\ OneHandler
    BY GenuineStep DEF OrderInv, GenuineInv
  <2> QED
    BY <2>1, LiveStep DEF TypeInv, CDispatcherTypeOK
<1>2. ASSUME NEW m \in WaitingCalls(p)'
      PROVE  m \in live'[p]
  <2>1. PICK q \in Queue : m \in Waiting(p, q)'
    BY DEF WaitingCalls
  <2>2. CASE m \in Waiting(p, q)
    <3>1. m \in live[p]
      BY <2>2 DEF ArgumentsOwned, WaitingCalls
    <3>2. ASSUME NEW w \in Worker, w[1] = p, Run(w), m = Current(w)
          PROVE  FALSE
      <4>1. Executing(w)
        BY <3>2 DEF Run
      <4>2. /\ Issued(m.request) = m /\ Queueable(p, worker[w].q, m)
            /\ m.request[2] \in Int
        BY <1>1, <3>2, <4>1, CurrentGenuine, CallFields, CDispatcherAssumption
      <4>3. SameQueue(m.request, m.request)
        BY <4>2 DEF SameQueue, Queueable
      <4>4. Before(m.request, m.request)
        BY <3>2, <4>1, <4>3, CurrentFirst
      <4> QED
        BY <4>2, <4>4 DEF Before
    <3> QED
      BY <1>1, <3>1, <3>2 DEF LiveAfter
  <2>3. ASSUME NEW w \in Receiver, Enqueue(w), w[1] = p, m = Frame(w)
        PROVE  m \in live'[p]
    BY <1>1, <2>3 DEF Enqueue, TypeInv, CDispatcherTypeOK
  <2> QED
    BY <1>1, <2>1, <2>2, <2>3, WaitingAfter
<1>3. ASSUME NEW m \in live'[p], m \notin WaitingCalls(p)', ~ IsAnswer(m)
      PROVE  BehindFailure(p, m.request)'
  <2>1. CASE m \in live[p] /\ m \notin WaitingCalls(p)
    <3>1. BehindFailure(p, m.request) /\ m.request \in AllIssued
      BY <1>1, <1>3, <2>1 DEF ArgumentsOwned, GenuineInv, RecordsIssued
    <3> QED
      BY <1>1, <3>1, BehindKept
  <2>2. CASE m \in WaitingCalls(p)
    <3>1. PICK q \in Queue : m \in Waiting(p, q)
      BY <2>2 DEF WaitingCalls
    <3>2. m \notin Waiting(p, q)'
      BY <1>3 DEF WaitingCalls
    <3>3. Queueable(p, q, m)
      BY <1>1, <3>1, PositionTyped DEF GenuineInv, EntriesGenuine
    <3>4. ~ \E w \in Worker : w[1] = p /\ Run(w) /\ m = Current(w)
      BY <1>1, <1>3 DEF Run, Released, TypeInv, CDispatcherTypeOK
    <3>5. PICK w \in Worker : w[1] = p /\ RunFails(w) /\ worker[w].q = q
      BY <1>1, <3>1, <3>2, <3>4, WaitingLost
    <3> QED
      BY <1>1, <3>3, <3>5, FailureTakesQueue
  <2>3. CASE m.request \in failed'[p]
    BY <2>3 DEF BehindFailure
  <2>4. ASSUME NEW w \in Receiver, w[1] = p, Enqueue(w), m = Frame(w)
        PROVE  FALSE
    BY <1>1, <1>3, <2>4, EnqueueWaits
  <2> QED
    BY <1>1, <1>3, <2>1, <2>2, <2>3, <2>4 DEF LiveAfter
<1> QED
  BY <1>2, <1>3

(***************************************************************************)
(* Where the request r is, on its way to p.                                *)
(***************************************************************************)
InFlight(p, r) ==
  \E i \in DOMAIN net[<<p, r[1]>>] :
     net[<<p, r[1]>>][i].request = r /\ ~ IsAnswer(net[<<p, r[1]>>][i])

Located(p, r) ==
  InFlight(p, r) \/ r \in WaitingRequests(p) \/ r \in Elements(log[p]) \/ BehindFailure(p, r)

LEMMA InFlightIs ==
  ASSUME CDispatcherTypeOK, NEW p \in Participant, NEW r \in Request, p # r[1]
  PROVE  InFlight(p, r) <=> \E m \in Frames(<<p, r[1]>>) : m.request = r /\ ~ IsAnswer(m)
<1>1. <<p, r[1]>> \in Receiver
  BY DEF Receiver, Request
<1>2. net[<<p, r[1]>>] \in Seq(Call)
  BY <1>1, Containers
<1>3. DOMAIN net[<<p, r[1]>>] = 1 .. Len(net[<<p, r[1]>>])
  BY <1>2
<1> QED
  BY <1>3 DEF InFlight, Frames

(* The frame that a receiver takes is queued, executed, or has failed.     *)
LEMMA FrameLocated ==
  ASSUME GenuineInv, [Next]_vars, NEW w \in Receiver, Receive(w), ~ IsAnswer(Frame(w)),
         alive[w[1]], Addressed(w[1], Frame(w))
  PROVE  \A p, r : p = w[1] /\ r = Frame(w).request => Located(p, r)'
<1> SUFFICES ASSUME NEW p, p = w[1], NEW r, r = Frame(w).request
             PROVE  Located(p, r)'
  OBVIOUS
<1> DEFINE m == Frame(w)
<1>1. /\ TypeInv /\ Receiving(w) /\ p \in Participant /\ m \in Call /\ r \in Request
      /\ failed \in [Participant -> SUBSET Request]
      /\ log \in [Participant -> Seq(Request)]
  BY ReceiveNet, ReceivingTyped, CallFields DEF GenuineInv, TypeInv, CDispatcherTypeOK
<1>2. CASE Enqueue(w)
  <2>1. \A n : n = Frame(w) => n \in WaitingCalls(p)'
    BY <1>2, EnqueueWaits
  <2>2. \A n : n = Frame(w) /\ n \in WaitingCalls(p)' => r \in WaitingRequests(p)'
    BY DEF WaitingRequests
  <2> QED
    BY <2>1, <2>2 DEF Located
<1>3. CASE RunSynchronously(w)
  <2>1. log'[p] = Append(log[p], r)
    BY <1>1, <1>3 DEF RunSynchronously
  <2>2. r \in Elements(log'[p])
    BY <1>1, <2>1, LogAppended
  <2> QED
    BY <2>2 DEF Located, Elements
<1>4. CASE \E b \in BOOLEAN : Fails(p, m, b)
  <2>1. r \in failed'[p]
    BY <1>1, <1>4 DEF Fails
  <2> QED
    BY <2>1 DEF Located, BehindFailure
<1>5. ~ Discard(w) /\ ~ Ignore(w) /\ ~ ReceiveAnswer(w)
  BY <1>1 DEF Discard, Ignore, ReceiveAnswer, Addressed, Implements
<1> QED
  BY <1>2, <1>3, <1>4, <1>5 DEF Receive, NoArguments, QueueFull, NoCrudCall, NoCall,
                               UnknownOperation

(* A frame leaves its channel only when the receiver takes it.             *)
LEMMA FrameGone ==
  ASSUME GenuineInv, [Next]_vars, NEW v \in Receiver, NEW m \in Frames(v), m \notin Frames(v)'
  PROVE  Receive(v) /\ m = Frame(v)
<1>1. TypeInv /\ net[v] \in Seq(Call)
  BY Containers DEF GenuineInv, TypeInv
<1>2. net'[v] # net[v]
  BY DEF Frames
<1>3. ASSUME NEW n \in Call, net'[v] = Append(net[v], n)
      PROVE  FALSE
  BY <1>1, <1>3, AppendElements DEF Frames
<1>4. Receive(v) /\ net[v] # <<>> /\ net'[v] = Tail(net[v])
  BY <1>2, <1>3, ChannelStep DEF ChannelAnswered, ChannelCalled, ChannelTaken
<1>5. m = Frame(v)
  BY <1>1, <1>4, TailElements DEF Frames, Frame
<1> QED
  BY <1>4, <1>5

(* A call that is issued is sent to every peer.                            *)
LEMMA CallSent ==
  ASSUME TypeInv, NEW a \in Caller, NEW c \in Callable, IssueCall(a, c[1], c[2], c[3], c[4]),
         NEW v \in Receiver, v[2] = a[1], NEW m, m = CallMessage(a[1], c)
  PROVE  m \in Frames(v)'
<1>1. m \in Call /\ net' = Sent(net, a[1], m)
  BY IssueEffect, CallTyped
<1>2. net[v] \in Seq(Call)
  BY Containers DEF TypeInv
<1>3. net'[v] = Append(net[v], m)
  BY <1>1 DEF Sent
<1>4. m = net'[v][Len(net[v]) + 1] /\ Len(net'[v]) = Len(net[v]) + 1
  BY <1>1, <1>2, <1>3, AppendIndex
<1>5. Len(net[v]) + 1 \in 1 .. Len(net'[v])
  BY <1>2, <1>4
<1> QED
  BY <1>4, <1>5 DEF Frames

LEMMA CallAccountedForStep ==
  OrderInv /\ CallAccountedFor /\ [Next]_vars => CallAccountedFor'
<1> SUFFICES ASSUME OrderInv, CallAccountedFor, [Next]_vars,
                    NEW r \in AllIssued', NEW p \in Participant \ {r[1]},
                    alive'[p], Addressed(p, Issued(r))',
                    NEW v, v = <<p, r[1]>>
             PROVE  Located(p, r)'
  BY DEF CallAccountedFor, Located, InFlight
<1>1. /\ TypeInv /\ GenuineInv /\ OneHandler /\ TypeInv' /\ LiveAfter(p)
      /\ r \in Request /\ v \in Receiver /\ v[1] = p /\ v[2] = r[1]
      /\ CDispatcherTypeOK /\ CDispatcherTypeOK'
      /\ net[v] \in Seq(Call) /\ log[p] \in Seq(Request)
  <2>1. TypeInv /\ GenuineInv /\ OneHandler /\ TypeInv'
    BY GenuineStep DEF OrderInv, GenuineInv
  <2>2. r \in Request /\ v \in Receiver
    BY DEF AllIssued, Receiver, Request
  <2> QED
    BY <2>1, <2>2, LiveStep, Containers DEF TypeInv
<1>2. InFlight(p, r)' <=> \E m \in Frames(v)' : m.request = r /\ ~ IsAnswer(m)
  <2>1. net'[v] \in Seq(Call) /\ DOMAIN net'[v] = 1 .. Len(net'[v])
    BY <1>1 DEF CDispatcherTypeOK
  <2> QED
    BY <2>1 DEF InFlight, Frames, IsAnswer, IsCrud
<1>3. CASE r \notin AllIssued
  <2>1. ~ UNCHANGED issued
    BY <1>3 DEF AllIssued
  <2>2. PICK a \in Caller, c \in Callable : IssueCall(a, c[1], c[2], c[3], c[4])
    BY <2>1 DEF Next, vars, RegisterCallback, Leave, Receive, Discard, NoArguments, Enqueue,
       QueueFull, NoCrudCall, NoCall, Ignore, UnknownOperation, RunSynchronously,
       ReceiveAnswer, Fails, Handle, HandleBegin, Run, RunFails, RunNull, ClearQueue
  <2> DEFINE m == CallMessage(a[1], c)
             b == a[1]
  <2>3. /\ b \in Participant /\ m \in Call
        /\ issued' = [issued EXCEPT ![b] = Append(@, m)]
        /\ net' = Sent(net, b, m)
    BY <1>1, <2>2, IssueEffect, CallTyped
  <2>4. m.request = <<b, Len(issued[b]) + 1>> /\ ~ IsAnswer(m)
    BY <1>1, <2>3 DEF CallMessage, TypeInv, CDispatcherTypeOK, IsAnswer
  <2> HIDE DEF m, b
  <2>5. r = m.request
    <3>1. issued[b] \in Seq(Call) /\ issued'[b] = Append(issued[b], m)
          /\ \A q \in Participant \ {b} : issued'[q] = issued[q]
      BY <1>1, <2>3 DEF CDispatcherTypeOK
    <3>2. Len(issued'[b]) = Len(issued[b]) + 1
      BY <2>3, <3>1, AppendIndex
    <3>3. r[1] \in Participant /\ r[2] \in Int /\ r = <<r[1], r[2]>>
          /\ r[2] <= Len(issued'[r[1]]) /\ ~ (r[2] <= Len(issued[r[1]]))
      BY <1>1, <1>3, CDispatcherAssumption DEF AllIssued, Request
    <3>4. r[1] = b
      BY <3>1, <3>3
    <3> QED
      BY <2>4, <3>1, <3>2, <3>3, <3>4
  <2>6. \A n : n = m => n \in Frames(v)'
    BY <1>1, <2>2, <2>4, <2>5, CallSent DEF b, m
  <2> QED
    BY <1>2, <2>4, <2>5, <2>6 DEF Located, IsAnswer, IsCrud
<1>4. CASE r \in AllIssued
  <2>1. Issued(r)' = Issued(r) /\ Addressed(p, Issued(r)) /\ alive[p]
    <3>1. Issued(r)' = Issued(r)
      BY <1>1, <1>4, IssuedKept
    <3>2. alive'[p] => alive[p]
      <4>1. alive \in [Participant -> BOOLEAN]
        BY <1>1 DEF CDispatcherTypeOK
      <4> QED
        BY <4>1 DEF Next, vars, IssueCall, RegisterCallback, Leave, Receive, Discard, NoArguments,
           Enqueue, QueueFull, NoCrudCall, NoCall, Ignore, UnknownOperation, RunSynchronously,
           ReceiveAnswer, Fails, Handle, HandleBegin, Run, RunFails, RunNull, ClearQueue
    <3> QED
      BY <3>1, <3>2 DEF Addressed, IsCrud, Implements, Provides
  <2>2. Located(p, r)
    BY <1>4, <2>1 DEF CallAccountedFor, Located, InFlight
  <2>3. CASE InFlight(p, r)
    <3>1. PICK m \in Frames(v) : m.request = r /\ ~ IsAnswer(m)
      BY <1>1, <2>3, InFlightIs
    <3>2. Issued(r) = m
      BY <1>1, <3>1 DEF GenuineInv, FramesGenuine, Genuine
    <3>3. CASE m \in Frames(v)'
      BY <1>2, <3>1, <3>3 DEF Located
    <3>4. CASE m \notin Frames(v)'
      <4>1. m = Frame(v) /\ Receive(v)
        BY <1>1, <3>1, <3>4, FrameGone
      <4> QED
        BY <1>1, <2>1, <3>1, <3>2, <4>1, FrameLocated
    <3> QED
      BY <3>3, <3>4
  <2>4. CASE r \in WaitingRequests(p)
    <3>1. PICK q \in Queue : \E m \in Waiting(p, q) : m.request = r
      BY <2>4 DEF WaitingRequests, WaitingCalls
    <3> PICK m \in Waiting(p, q) : m.request = r
      BY <3>1
    <3>2. CASE m \in Waiting(p, q)'
      BY <3>1, <3>2 DEF Located, WaitingRequests, WaitingCalls
    <3>3. ASSUME NEW w \in Worker, w[1] = p, Run(w), m = Current(w)
          PROVE  Located(p, r)'
      <4>1. log'[p] = Append(log[p], r)
        BY <1>1, <3>1, <3>3 DEF Run, CDispatcherTypeOK
      <4>2. r \in Elements(log'[p])
        BY <1>1, <4>1, LogAppended
      <4> QED
        BY <4>2 DEF Located, Elements
    <3>4. ASSUME NEW w \in Worker, w[1] = p, RunFails(w), worker[w].q = q
          PROVE  Located(p, r)'
      <4>1. Queueable(p, q, m)
        BY <1>1, <3>1, PositionTyped DEF GenuineInv, EntriesGenuine
      <4> QED
        BY <1>1, <3>1, <3>4, <4>1, FailureTakesQueue DEF Located
    <3> QED
      BY <1>1, <3>1, <3>2, <3>3, <3>4, WaitingLost
  <2>5. CASE r \in Elements(log[p])
    <3>1. Elements(log[p]) \subseteq Elements(log'[p])
      <4>1. ASSUME NEW s \in Request, log'[p] = Append(log[p], s)
            PROVE  Elements(log[p]) \subseteq Elements(log'[p])
        BY <1>1, <4>1, LogAppended
      <4>2. LogHandled(p) \/ LogSynchronous(p) =>
              \E s \in Request : log'[p] = Append(log[p], s)
        BY <1>1, CurrentGenuine, FrameGenuine
        DEF LogHandled, LogSynchronous, RunSynchronously, AllIssued
      <4> QED
        BY <1>1, <4>1, <4>2, LogStep
    <3> QED
      BY <2>5, <3>1 DEF Located, Elements
  <2>6. CASE BehindFailure(p, r)
    BY <1>1, <1>4, <2>6, BehindKept DEF Located
  <2> QED
    BY <2>2, <2>3, <2>4, <2>5, <2>6 DEF Located
<1> QED
  BY <1>3, <1>4

AccountInv == OrderInv /\ ArgumentsOwned /\ CallAccountedFor

LEMMA AccountInit == Init => AccountInv
<1> SUFFICES ASSUME Init PROVE AccountInv
  OBVIOUS
<1>1. OrderInv
  BY OrderInit
<1>2. ArgumentsOwned
  <2>1. \A p \in Participant : live[p] = {} /\ \A q \in Queue : queues[p][q] = <<>>
    BY DEF Init
  <2>2. \A p \in Participant : \A q \in Queue : Waiting(p, q) = {}
    <3>1. \A p \in Participant : \A q \in Queue :
            Waiting(p, q) \subseteq Entries(p, q) /\ Entries(p, q) = {}
      BY <1>1, <2>1, PositionTyped DEF OrderInv, GenuineInv, Entries
    <3> QED
      BY <3>1
  <2> QED
    BY <2>1, <2>2 DEF ArgumentsOwned, WaitingCalls
<1>3. AllIssued = {}
  BY CDispatcherAssumption DEF Init, AllIssued, Request
<1>4. CallAccountedFor
  BY <1>3 DEF CallAccountedFor
<1> QED
  BY <1>1, <1>2, <1>4 DEF AccountInv

LEMMA AccountStep == AccountInv /\ [Next]_vars => AccountInv'
<1> SUFFICES ASSUME AccountInv, [Next]_vars PROVE AccountInv'
  OBVIOUS
<1> QED
  BY OrderStep, ArgumentsOwnedStep, CallAccountedForStep DEF AccountInv

LEMMA AccountKept == Spec => []AccountInv
BY AccountInit, AccountStep, PTL DEF Spec

(***************************************************************************)
(* The arguments of every call that waits are allocated, and those that no *)
(* queue will release belong to a failure, to the queue behind one, or to  *)
(* an answer.                                                              *)
(***************************************************************************)
THEOREM CArgumentsAreOwned == Spec => []ArgumentsOwned
<1>1. AccountInv => ArgumentsOwned
  BY DEF AccountInv
<1> QED
  BY <1>1, AccountKept, PTL

(***************************************************************************)
(* A call of an operation that a participant implements is on its way,     *)
(* waits, has been executed, or was lost with a call of its queue that     *)
(* failed, unless the participant has left.                                *)
(***************************************************************************)
THEOREM CCallsAreAccountedFor == Spec => []CallAccountedFor
<1>1. AccountInv => CallAccountedFor
  BY DEF AccountInv
<1> QED
  BY <1>1, AccountKept, PTL
=============================================================================
