------------------------------- MODULE Calls -------------------------------
(***************************************************************************)
(* Remote operations of org.hpms.mw.dcrud (Java implementation).           *)
(*                                                                         *)
(* A call is sent to every other participant; the receiver thread of each  *)
(* one queues it in the Dispatcher if the interface is provided there; an  *)
(* application thread executes the queue in handleRequests() and sends the *)
(* results back, to every participant again, under the negated call id;    *)
(* the receiver thread of the caller looks the callback up by that id.     *)
(*                                                                         *)
(* A Request <<p, i>> is the i-th call that participant p issues.  It is   *)
(* the model's name for a call: the program only has the call id.          *)
(***************************************************************************)
EXTENDS Integers, Sequences

CONSTANTS
  Participant,  \* the processes that joined the multicast group
  Thread,       \* application threads of each participant
  Caller,       \* application threads that issue calls
  Handler,      \* application threads that call handleRequests
  Interface,    \* interface names
  Operation,    \* operation names
  Crud,         \* ICRUD_INTERFACE_NAME, the interface of remote CRUD requests
  Provided,     \* interfaces each participant has provide()d
  Implemented,  \* operations added to them, and classes with an ICRUD publisher
  Required,     \* the operations and CRUD requests that the callers call
  Faults,       \* what the network, the socket and the operations may do wrong
  MaxCall,      \* bound: calls each participant issues
  MaxInFlight,  \* bound: datagrams in flight from one peer to another
  MaxWork       \* bound: operations a participant queues, and executes

Method == Interface \X Operation

FaultKinds == {"lose", "duplicate", "reorder", "exception"}

(***************************************************************************)
(* provide(), addOperation() and registerRemoteFactory() are called before *)
(* the first message is exchanged.                                         *)
(***************************************************************************)
ASSUME CallsAssumption ==
  /\ Caller \cup Handler \subseteq Participant \X Thread
  /\ Crud \in Interface
  /\ Provided \in [Participant -> SUBSET (Interface \ {Crud})]
  /\ Implemented \in [Participant -> SUBSET Method]
  /\ Required \subseteq Method
  /\ Faults \subseteq FaultKinds
  /\ MaxCall \in Nat
  /\ MaxInFlight \in Nat
  /\ MaxWork \in Nat

VARIABLES
  issued,      \* history: the methods each participant has called, in order
  nextCallId,  \* AbstractParticipant._callId
  callbacks,   \* AbstractParticipant._callbacks, as pairs <<call id, request>>
  queue,       \* Dispatcher._operationQueues[DEFAULT_QUEUE]
  thread,      \* what each application thread is doing
  net,         \* datagrams sent and not yet received, per channel
  log,         \* history: the operations each participant executed, in order
  delivered    \* history: callback invocations

vars == <<issued, nextCallId, callbacks, queue, thread, net, log, delivered>>

-----------------------------------------------------------------------------
App     == Participant \X Thread
Channel == {ch \in Participant \X Participant : ch[1] # ch[2]}
Request == Participant \X (1 .. MaxCall)
CallId  == -MaxCall .. MaxCall

Message == [method : Method, callId : CallId, request : Request]

(* The callback given for one request, invoked with the answer to another. *)
Invocation == [callback : Request, answer : Request, by : Participant]

ThreadState == [pc : {"idle", "sent", "handling"}, n : 0 .. MaxCall,
                next : Nat]

Idle == [pc |-> "idle", n |-> 0, next |-> 0]

(***************************************************************************)
(* Types of all the variables.                                             *)
(***************************************************************************)
TypeOK ==
  /\ issued \in [Participant -> Seq(Method)]
  /\ nextCallId \in [Participant -> 1 .. MaxCall + 1]
  /\ callbacks \in [Participant -> SUBSET ((1 .. MaxCall) \X Request)]
  /\ queue \in [Participant -> Seq(Message)]
  /\ thread \in [App -> ThreadState]
  /\ net \in [Channel -> Seq(Message)]
  /\ log \in [Participant -> Seq(Request)]
  /\ delivered \in [Participant -> SUBSET Invocation]

(***************************************************************************)
(* The first call id: 0 means that no answer is expected.  (A definition   *)
(* marked as a defect is a variant of the one below it, used only to show  *)
(* that the properties notice it: see the README.)                         *)
(***************************************************************************)
\* Defect: call ids start from 0, as they do in the C implementation.
FirstCallIdZero == 0

FirstCallId == 1

Init ==
  /\ issued = [p \in Participant |-> <<>>]
  /\ nextCallId = [p \in Participant |-> FirstCallId]
  /\ callbacks = [p \in Participant |-> {}]
  /\ queue = [p \in Participant |-> <<>>]
  /\ thread = [a \in App |-> Idle]
  /\ net = [ch \in Channel |-> <<>>]
  /\ log = [p \in Participant |-> <<>>]
  /\ delivered = [p \in Participant |-> {}]

-----------------------------------------------------------------------------
(* The monitor of _operationQueues: held by handleRequests() to its end. *)
QueuesLocked(p) == \E a \in App : a[1] = p /\ thread[a].pc = "handling"

(***************************************************************************)
(* A message goes to every other participant of the multicast group.  A    *)
(* send never waits for a receiver: what finds the socket buffer of a peer *)
(* full is lost to it.  Where no loss is assumed, sends stop at the bound. *)
(***************************************************************************)
Room(ch) == Len(net[ch]) < MaxInFlight

CanSend(p) == "lose" \in Faults \/ \A ch \in Channel : ch[1] = p => Room(ch)

Send(p, m) ==
  net' = [ch \in Channel |->
            IF ch[1] = p /\ Room(ch) THEN Append(net[ch], m) ELSE net[ch]]

(***************************************************************************)
(* IRequired.call and ICRUD.create / update / delete: without a callback,  *)
(* which a CRUD request never has, the call id is 0; with one, the message *)
(* is sent under the current value of _callId, and the callback is put     *)
(* into the map, under the value _callId has by then, in a later step.     *)
(***************************************************************************)
IssueCall(a, method, withCallback) ==
  LET p == a[1]
      i == Len(issued[p]) + 1
  IN
  /\ thread[a].pc = "idle"
  /\ i <= MaxCall
  /\ CanSend(p)
  /\ withCallback => method[1] # Crud
  /\ Send(p, [method  |-> method,
              callId  |-> IF withCallback THEN nextCallId[p] ELSE 0,
              request |-> <<p, i>>])
  /\ issued' = [issued EXCEPT ![p] = Append(@, method)]
  /\ thread' = IF withCallback
               THEN [thread EXCEPT ![a] = [pc |-> "sent", n |-> i, next |-> 0]]
               ELSE thread
  /\ UNCHANGED <<nextCallId, callbacks, queue, log, delivered>>

\* Defect: the increment of _callId is missing.
SameId(id) == id

NextId(id) == id + 1

RegisterCallback(a) ==
  LET p  == a[1]
      id == nextCallId[p]
  IN
  /\ thread[a].pc = "sent"
  /\ callbacks' = [callbacks EXCEPT ![p] = {b \in @ : b[1] # id}
                                             \cup {<<id, <<p, thread[a].n>>>>}]
  /\ nextCallId' = [nextCallId EXCEPT ![p] = NextId(id)]
  /\ thread' = [thread EXCEPT ![a] = Idle]
  /\ UNCHANGED <<issued, queue, net, log, delivered>>

-----------------------------------------------------------------------------
(***************************************************************************)
(* Dispatcher.handleRequests: every queued operation is executed, in order *)
(* and under the monitor of the queues, then the queue is cleared.         *)
(***************************************************************************)
HandleBegin(a) ==
  /\ thread[a].pc = "idle"
  /\ ~ QueuesLocked(a[1])
  /\ thread' = [thread EXCEPT ![a] = [pc |-> "handling", n |-> 0, next |-> 1]]
  /\ UNCHANGED <<issued, nextCallId, callbacks, queue, net, log, delivered>>

Current(a) == queue[a[1]][thread[a].next]

\* Defect: the last operation of the queue is left out.
HasCurrentButLast(a) ==
  thread[a].pc = "handling" /\ thread[a].next < Len(queue[a[1]])

HasCurrent(a) ==
  thread[a].pc = "handling" /\ thread[a].next <= Len(queue[a[1]])

(***************************************************************************)
(* The operation runs and, if the caller expects it, its results go out.   *)
(***************************************************************************)
Execute(a) ==
  LET p == a[1]
      m == Current(a)
  IN
  /\ HasCurrent(a)
  /\ m.method \in Implemented[p]
  /\ Len(log[p]) < MaxWork
  /\ log' = [log EXCEPT ![p] = Append(@, m.request)]
  /\ IF m.callId > 0
     THEN CanSend(p) /\ Send(p, [m EXCEPT !.callId = -m.callId])
     ELSE UNCHANGED net
  /\ thread' = [thread EXCEPT ![a].next = @ + 1]
  /\ UNCHANGED <<issued, nextCallId, callbacks, queue, delivered>>

(***************************************************************************)
(* An unknown operation of a known interface is reported and passed over,  *)
(* as is a CRUD request of a class nobody publishes or of an item that is  *)
(* in no cache.                                                            *)
(***************************************************************************)
\* Defect: an operation that did not run is answered all the same.
PassOverAnswering(a) ==
  LET m == Current(a) IN
  /\ HasCurrent(a)
  /\ m.method \in Implemented[a[1]] => m.method[1] = Crud
  /\ CanSend(a[1])
  /\ Send(a[1], [m EXCEPT !.callId = -m.callId])
  /\ thread' = [thread EXCEPT ![a].next = @ + 1]
  /\ UNCHANGED <<issued, nextCallId, callbacks, queue, log, delivered>>

PassOver(a) ==
  LET m == Current(a) IN
  /\ HasCurrent(a)
  /\ m.method \in Implemented[a[1]] => m.method[1] = Crud
  /\ thread' = [thread EXCEPT ![a].next = @ + 1]
  /\ UNCHANGED <<issued, nextCallId, callbacks, queue, net, log, delivered>>

\* Defect: the queue is not cleared once it is executed.
LeftAsIs(q) == q

Cleared(q) == <<>>

AfterException(q) == q

(***************************************************************************)
(* The operation throws, or sending its results does: handleRequests() is  *)
(* left with the whole queue as it was.                                    *)
(***************************************************************************)
ExecuteFails(a) ==
  /\ "exception" \in Faults
  /\ HasCurrent(a)
  /\ Current(a).method \in Implemented[a[1]]
  /\ Len(log[a[1]]) < MaxWork
  /\ log' = [log EXCEPT ![a[1]] = Append(@, Current(a).request)]
  /\ queue' = [queue EXCEPT ![a[1]] = AfterException(@)]
  /\ thread' = [thread EXCEPT ![a] = Idle]
  /\ UNCHANGED <<issued, nextCallId, callbacks, net, delivered>>

HandleEnd(a) ==
  /\ thread[a].pc = "handling"
  /\ thread[a].next > Len(queue[a[1]])
  /\ queue' = [queue EXCEPT ![a[1]] = Cleared(@)]
  /\ thread' = [thread EXCEPT ![a] = Idle]
  /\ UNCHANGED <<issued, nextCallId, callbacks, net, log, delivered>>

-----------------------------------------------------------------------------
(***************************************************************************)
(* AbstractNetworkReceiver.operation, on the receiver thread of channel    *)
(* ch.  The call mode and the queue that the message names are read and    *)
(* then ignored: every operation is deferred, in the default queue.        *)
(***************************************************************************)
\* Defect: the buffer is not cleared, and its datagram may be read again.
ArrivedAgain(ch) == net[ch] # <<>> /\ net' \in {net, [net EXCEPT ![ch] = Tail(@)]}

Arrived(ch) == net[ch] # <<>> /\ net' = [net EXCEPT ![ch] = Tail(@)]

IsAnswer(m) == m.callId < 0

Accepted(p, m) == m.method[1] = Crud \/ m.method[1] \in Provided[p]

Enqueue(ch) ==
  LET m == Head(net[ch]) IN
  /\ Arrived(ch)
  /\ ~ IsAnswer(m)
  /\ Accepted(ch[2], m)
  /\ ~ QueuesLocked(ch[2])
  /\ Len(queue[ch[2]]) < MaxWork
  /\ queue' = [queue EXCEPT ![ch[2]] = Append(@, m)]
  /\ UNCHANGED <<issued, nextCallId, callbacks, thread, log, delivered>>

(* "Interface '%s' isn't registered yet, call ignored" *)
Ignore(ch) ==
  LET m == Head(net[ch]) IN
  /\ Arrived(ch)
  /\ ~ IsAnswer(m)
  /\ ~ Accepted(ch[2], m)
  /\ UNCHANGED <<issued, nextCallId, callbacks, queue, thread, log, delivered>>

(* The callback registered under an answer's call id: it is never removed. *)
CallbackOf(p, m) == {b[2] : b \in {c \in callbacks[p] : c[1] = -m.callId}}

Answer(ch) ==
  LET p == ch[2]
      m == Head(net[ch])
      found == CallbackOf(p, m)
  IN
  /\ Arrived(ch)
  /\ IsAnswer(m)
  /\ delivered' = [delivered EXCEPT ![p] = @ \cup
       {[callback |-> r, answer |-> m.request, by |-> ch[1]] : r \in found}]
  /\ UNCHANGED <<issued, nextCallId, callbacks, queue, thread, log>>

(* What UDP multicast may do to the datagrams of a channel. *)
NetworkFault(ch) ==
  /\ net[ch] # <<>>
  /\ \/ /\ "lose" \in Faults
        /\ net' = [net EXCEPT ![ch] = Tail(@)]
     \/ /\ "duplicate" \in Faults
        /\ Len(net[ch]) < MaxInFlight
        /\ net' = [net EXCEPT ![ch] = Append(@, Head(@))]
     \/ /\ "reorder" \in Faults
        /\ net' = [net EXCEPT ![ch] = Append(Tail(@), Head(@))]
  /\ UNCHANGED <<issued, nextCallId, callbacks, queue, thread, log, delivered>>

-----------------------------------------------------------------------------
(* The steps of a thread inside a method of the library. *)
Proceed(a) ==
  \/ RegisterCallback(a)
  \/ Execute(a)
  \/ PassOver(a)
  \/ HandleEnd(a)

Receive(ch) == Enqueue(ch) \/ Ignore(ch) \/ Answer(ch)

Next ==
  \/ \E a \in App : Proceed(a) \/ ExecuteFails(a)
  \/ \E a \in Handler : HandleBegin(a)
  \/ \E a \in Caller, method \in Required, withCallback \in BOOLEAN :
       IssueCall(a, method, withCallback)
  \/ \E ch \in Channel : Receive(ch) \/ NetworkFault(ch)

Spec == Init /\ [][Next]_vars

(***************************************************************************)
(* Fairness: threads inside a method go on; a receiver thread waiting for  *)
(* the monitor gets it between two handleRequests(); the application calls *)
(* handleRequests() in a loop (Publisher, Subscriber), though it may be    *)
(* busy issuing calls in between.                                          *)
(***************************************************************************)
Fairness ==
  /\ \A a \in App : WF_vars(Proceed(a))
  /\ \A ch \in Channel : SF_vars(Receive(ch))
  /\ \A a \in Handler : SF_vars(HandleBegin(a))

FairSpec == Spec /\ Fairness

-----------------------------------------------------------------------------
FramesIn(ch) == {net[ch][i] : i \in 1 .. Len(net[ch])}
Executed(p)  == {log[p][i] : i \in 1 .. Len(log[p])}
Queued(p)    == {queue[p][i] : i \in 1 .. Len(queue[p])}

(***************************************************************************)
(* An answer, in flight or handed to a callback, is the answer of a        *)
(* participant that has executed the request, whatever the network does    *)
(* and the operations throw.                                               *)
(***************************************************************************)
AnswersComeFromExecutions ==
  /\ \A ch \in Channel : \A m \in FramesIn(ch) :
       m.callId < 0 => m.request \in Executed(ch[1])
  /\ \A p \in Participant : \A d \in delivered[p] :
       d.answer \in Executed(d.by)

(***************************************************************************)
(* A callback is invoked with the results of the call it was given for.    *)
(* The code relies on the call id for this, which each participant counts  *)
(* for itself and which the answer, sent to all, is looked up by.          *)
(***************************************************************************)
CallbackGetsOwnAnswer ==
  \A p \in Participant : \A d \in delivered[p] : d.callback = d.answer

(***************************************************************************)
(* On a FIFO network without duplication and with operations that return,  *)
(* a participant executes the requests of a peer in the order the peer     *)
(* issued them, and none of them twice: handleRequests() clears what it    *)
(* has executed, and nothing else.                                         *)
(***************************************************************************)
ExecutedOnceInOrder ==
  \A p \in Participant : \A i, j \in 1 .. Len(log[p]) :
    i < j /\ log[p][i][1] = log[p][j][1] => log[p][i][2] < log[p][j][2]

(* The calls from p that q has still to receive or to execute. *)
Pending(p, q) ==
  {m.request : m \in FramesIn(<<p, q>>) \cup Queued(q)}

(***************************************************************************)
(* On a network without loss, a call of an operation that a peer provides  *)
(* is in flight to it, in its queue or executed: no interleaving of the    *)
(* receiver threads that fill the queue with the handleRequests() that     *)
(* clears it, or leaves it on an exception, forgets one.                   *)
(***************************************************************************)
CallNeverForgotten ==
  \A p, q \in Participant : \A i \in 1 .. Len(issued[p]) :
    /\ p # q
    /\ issued[p][i] \in Implemented[q] \cap (Provided[q] \X Operation)
    => <<p, i>> \in Pending(p, q) \cup Executed(q)

(***************************************************************************)
(* Where the network only loses and the operations return, the dispatchers *)
(* keep the promise that is stated in RemoteOperations, with one lane for  *)
(* all the calls: the receivers that fill the queue, the thread that runs  *)
(* through it and clears it, and the callers that register their callback  *)
(* after their call, change nothing else in what it speaks of.             *)
(***************************************************************************)
DefaultLane == 1

Abstract == INSTANCE RemoteOperations WITH
  Lane <- {DefaultLane},
  lanes <- [p \in Participant |-> [i \in 1 .. Len(issued[p]) |-> DefaultLane]],
  done <- log,
  answered <- [p \in Participant |-> {d.answer : d \in delivered[p]}]

OperationsImplemented == Abstract!Spec

(***************************************************************************)
(* Under fairness a queued call of an implemented operation is executed.   *)
(***************************************************************************)
QueuedIsExecuted ==
  \A q \in Participant, r \in Request :
    (\E m \in Queued(q) : /\ m.request = r
                          /\ m.method \in Implemented[q]
                          /\ m.method[1] # Crud)
      ~> r \in Executed(q)
=============================================================================
