---------------------------- MODULE CDispatcher ----------------------------
(***************************************************************************)
(* Remote operations of the C implementation: ParticipantImpl.c (call,     *)
(* callback, CRUD requests), NetworkReceiver.c (operation), Dispatcher.c.  *)
(*                                                                         *)
(* Unlike the Java one, this dispatcher honours the call mode and the      *)
(* queue that the caller chose; the receiver thread itself may execute a   *)
(* call; a call that fails takes the rest of its queue with it; objects    *)
(* are allocated and freed by hand; and callbacks are kept in a map that   *)
(* compares the addresses of its keys.                                     *)
(*                                                                         *)
(* A Request <<p, i>> is the i-th call that participant p issues.          *)
(***************************************************************************)
EXTENDS Integers, Sequences

CONSTANTS
  Participant,  \* the processes that joined the multicast group
  Thread,       \* application threads of each participant
  Caller,       \* application threads that issue calls
  Handler,      \* application threads that call handleRequests
  Interface,    \* interface names
  Operation,    \* operation names
  Crud,         \* ICRUD_INTERFACE_NAME
  Provided,     \* interfaces each participant provides
  Implemented,  \* operations added to them
  Callable,     \* what callers call: <<method, mode, queue, with callback>>
  Faults,       \* what may fail: "allocation", "send"
  QueueCount,   \* OPERATION_QUEUE_COUNT
  QueueLimit,   \* COLL_STATIC_MAX_ITEMS: the calls a queue can hold
  MaxCall,      \* bound: calls each participant issues
  MaxInFlight   \* bound: datagrams in flight from one peer to another

Method == Interface \X Operation
Mode   == {"synchronous", "deferred", "immediate"}
Queue  == 1 .. QueueCount

DefaultQueue == 1

(***************************************************************************)
(* dcrudIDispatcher_provide and dcrudIProvided_addOperation are called     *)
(* before the first message is exchanged.                                  *)
(***************************************************************************)
ASSUME CDispatcherAssumption ==
  /\ Participant \cap Thread = {}
  /\ Caller \cup Handler \subseteq Participant \X Thread
  /\ Crud \in Interface
  /\ Provided \in [Participant -> SUBSET (Interface \ {Crud})]
  /\ Implemented \in [Participant -> SUBSET Method]
  /\ QueueCount \in Nat \ {0}
  /\ QueueLimit \in Nat \ {0}
  /\ Callable \subseteq Method \X Mode \X Queue \X BOOLEAN
  /\ Faults \subseteq {"allocation", "send"}
  /\ MaxCall \in Nat
  /\ MaxInFlight \in Nat

VARIABLES
  issued,     \* history: the calls each participant has sent, in order
  callId,     \* dcrudIParticipantImpl.callId
  callbacks,  \* dcrudIParticipantImpl.callbacks: pairs <<address, request>>
  queues,     \* dcrudIDispatcherImpl.operationQueues
  worker,     \* what each application and receiver thread is doing
  net,        \* datagrams, per receiver
  live,       \* the calls and answers whose dcrudArguments are allocated
  alive,      \* dcrudIParticipantImpl.isAlive
  crashed,    \* participants that have dereferenced NULL
  log,        \* history: the requests each participant executed, in order
  failed,     \* history: requests whose call failed at each participant
  delivered,  \* history: requests whose answer reached a callback
  unknown     \* history: requests whose answer found no callback

vars == <<issued, callId, callbacks, queues, worker, net, live, alive, crashed,
          log, failed, delivered, unknown>>

-----------------------------------------------------------------------------
App      == Participant \X Thread
Receiver == {w \in Participant \X Participant : w[1] # w[2]}
Worker   == App \cup Receiver
Request  == Participant \X (1 .. MaxCall)

Call == [method : Method, mode : Mode, queue : Queue,
         callId : -MaxCall .. MaxCall, request : Request]

(* What dcrudIDispatcher_execute queues when it could not allocate a call. *)
NullCall == [method |-> <<Crud, "null">>]

WorkerState == [pc : {"idle", "sent", "immediate", "handling", "ended"},
                n : 0 .. MaxCall, q : 0 .. QueueCount, i : Nat]

Idle      == [pc |-> "idle", n |-> 0, q |-> 0, i |-> 0]
Immediate == [Idle EXCEPT !.pc = "immediate"]
Ended     == [Idle EXCEPT !.pc = "ended"]
Calling(n)  == [pc |-> "sent", n |-> n, q |-> 0, i |-> 0]
Handling(q) == [pc |-> "handling", n |-> 0, q |-> q, i |-> 1]

(***************************************************************************)
(* The keys of the map of callbacks: the address of the field callId when  *)
(* a callback is put, the address of a parameter on the stack of the       *)
(* receiver thread when one is looked up.  collIntCompare compares these   *)
(* addresses, not what is stored there.                                    *)
(***************************************************************************)
Field(p) == <<p, "&This->callId">>
Stack(w) == <<w, "&callId">>

(***************************************************************************)
(* Types of all the variables.                                             *)
(***************************************************************************)
CDispatcherTypeOK ==
  /\ issued \in [Participant -> Seq(Call)]
  /\ callId \in [Participant -> 0 .. MaxCall]
  /\ callbacks \in [Participant ->
                      SUBSET ({Field(p) : p \in Participant} \X Request)]
  /\ queues \in [Participant -> [Queue -> Seq(Call \cup {NullCall})]]
  /\ worker \in [Worker -> WorkerState]
  /\ net \in [Receiver -> Seq(Call)]
  /\ live \in [Participant -> SUBSET Call]
  /\ alive \in [Participant -> BOOLEAN]
  /\ crashed \subseteq Participant
  /\ log \in [Participant -> Seq(Request)]
  /\ failed \in [Participant -> SUBSET Request]
  /\ delivered \in [Participant -> SUBSET Request]
  /\ unknown \in [Participant -> SUBSET Request]

Init ==
  /\ issued = [p \in Participant |-> <<>>]
  /\ callId = [p \in Participant |-> 0]
  /\ callbacks = [p \in Participant |-> {}]
  /\ queues = [p \in Participant |-> [q \in Queue |-> <<>>]]
  /\ worker = [w \in Worker |-> Idle]
  /\ net = [w \in Receiver |-> <<>>]
  /\ live = [p \in Participant |-> {}]
  /\ alive = [p \in Participant |-> TRUE]
  /\ crashed = {}
  /\ log = [p \in Participant |-> <<>>]
  /\ failed = [p \in Participant |-> {}]
  /\ delivered = [p \in Participant |-> {}]
  /\ unknown = [p \in Participant |-> {}]

-----------------------------------------------------------------------------
(* The thread w can take a step from program counter pc. *)
At(w, pc) == worker[w].pc = pc /\ w[1] \notin crashed

(* operationQueuesMutex, which handleRequests holds from beginning to end. *)
QueuesLocked(p) == \E w \in Worker : w[1] = p /\ worker[w].pc = "handling"

CanSend(p) == \A w \in Receiver : w[2] = p => Len(net[w]) < MaxInFlight

(* A message goes to every other participant of the multicast group. *)
Sent(n, p, m) == [w \in Receiver |-> IF w[2] = p THEN Append(n[w], m) ELSE n[w]]

(***************************************************************************)
(* dcrudIRequired_call, dcrudICRUD_*, dcrudIParticipantImpl_call: the      *)
(* message goes out under the current callId, or 0 without a callback; the *)
(* callback is put into the map, and callId incremented, in a later step.  *)
(***************************************************************************)
IssueCall(a, method, mode, queue, withCallback) ==
  LET p == a[1]
      m == [method |-> method, mode |-> mode, queue |-> queue,
            callId |-> IF withCallback THEN callId[p] ELSE 0,
            request |-> <<p, Len(issued[p]) + 1>>]
  IN
  /\ At(a, "idle")
  /\ Len(issued[p]) < MaxCall
  /\ CanSend(p)
  /\ method[1] = Crud => ~ withCallback
  /\ issued' = [issued EXCEPT ![p] = Append(@, m)]
  /\ net' = Sent(net, p, m)
  /\ worker' = IF withCallback
               THEN [worker EXCEPT ![a] = Calling(m.request[2])]
               ELSE worker
  /\ UNCHANGED <<callId, callbacks, queues, live, alive, crashed, log, failed,
                 delivered, unknown>>

RegisterCallback(a) ==
  LET p == a[1] IN
  /\ At(a, "sent")
  /\ callbacks' = [callbacks EXCEPT ![p] =
                     {b \in @ : b[1] # Field(p)}
                       \cup {<<Field(p), <<p, worker[a].n>>>>}]
  /\ callId' = [callId EXCEPT ![p] = @ + 1]
  /\ worker' = [worker EXCEPT ![a] = Idle]
  /\ UNCHANGED <<issued, queues, net, live, alive, crashed, log, failed,
                 delivered, unknown>>

(* dcrudIParticipant_leave *)
Leave(a) ==
  /\ At(a, "idle")
  /\ alive[a[1]]
  /\ alive' = [alive EXCEPT ![a[1]] = FALSE]
  /\ UNCHANGED <<issued, callId, callbacks, queues, worker, net, live, crashed,
                 log, failed, delivered, unknown>>

-----------------------------------------------------------------------------
(***************************************************************************)
(* The receiver thread: dcrudNetworkReceiver_run and _operation.  A frame  *)
(* is handled in one step, up to the mutex of the queues.                  *)
(***************************************************************************)
Receiving(w) == At(w, "idle") /\ net[w] # <<>>
Frame(w)     == Head(net[w])
Taken(w)     == [net EXCEPT ![w] = Tail(@)]

IsCrud(m)   == m.method[1] = Crud
IsAnswer(m) == m.callId < 0 /\ ~ IsCrud(m)

Provides(p, m)   == m.method[1] \in Provided[p]
Implements(p, m) == Provides(p, m) /\ m.method \in Implemented[p]

Answer(m) == [m EXCEPT !.callId = - m.callId]

(* What a failed step leaves behind: its call, its arguments or not. *)
Fails(p, m, arguments) ==
  /\ failed' = [failed EXCEPT ![p] = IF IsAnswer(m) THEN @ ELSE @ \cup {m.request}]
  /\ live' = [live EXCEPT ![p] = IF arguments THEN @ \cup {m} ELSE @]
  /\ UNCHANGED <<issued, callId, callbacks, alive, crashed, log, delivered,
                 unknown>>

(* The participant has left: the arguments are released, the thread ends. *)
Discard(w) ==
  /\ Receiving(w)
  /\ ~ alive[w[1]]
  /\ net' = Taken(w)
  /\ worker' = [worker EXCEPT ![w] = Ended]
  /\ UNCHANGED <<issued, callId, callbacks, queues, live, alive, crashed, log,
                 failed, delivered, unknown>>

(* dcrudArguments_new fails and the frame is lost. *)
NoArguments(w) ==
  /\ "allocation" \in Faults
  /\ Receiving(w)
  /\ Fails(w[1], Frame(w), FALSE)
  /\ net' = Taken(w)
  /\ UNCHANGED <<queues, worker>>

(***************************************************************************)
(* dcrudIDispatcher_executeCrud: always the default queue, whatever the    *)
(* caller chose.                                                           *)
(***************************************************************************)
QueueOf(m) == IF IsCrud(m) THEN DefaultQueue ELSE m.queue

QueuedFirst(p, q, c) == [queues EXCEPT ![p][q] = <<c>> \o @]

Queued(p, q, c) == [queues EXCEPT ![p][q] = Append(@, c)]

Queueing(w) ==
  LET p == w[1]
      m == Frame(w)
  IN
  /\ Receiving(w)
  /\ alive[p]
  /\ ~ IsAnswer(m)
  /\ IsCrud(m) \/ (Implements(p, m) /\ m.mode # "synchronous")
  /\ ~ QueuesLocked(p)

HasRoom(w) == Len(queues[w[1]][QueueOf(Frame(w))]) < QueueLimit

(* After the call is queued, an immediate one handles all the queues. *)
AfterQueueing(m) ==
  IF ~ IsCrud(m) /\ m.mode = "immediate" THEN Immediate ELSE Idle

Enqueue(w) ==
  LET p == w[1]
      m == Frame(w)
  IN
  /\ Queueing(w)
  /\ HasRoom(w)
  /\ net' = Taken(w)
  /\ queues' = Queued(p, QueueOf(m), m)
  /\ live' = [live EXCEPT ![p] = @ \cup {m}]
  /\ worker' = [worker EXCEPT ![w] = AfterQueueing(m)]
  /\ UNCHANGED <<issued, callId, callbacks, alive, crashed, log, failed,
                 delivered, unknown>>

(* collList_add fails: executeCrud deletes the call, execute does not. *)
QueueFull(w) ==
  /\ Queueing(w)
  /\ ~ HasRoom(w)
  /\ Fails(w[1], Frame(w), ~ IsCrud(Frame(w)))
  /\ net' = Taken(w)
  /\ UNCHANGED <<queues, worker>>

(***************************************************************************)
(* dcrudOperationCall_new fails.  executeCrud gives up; execute logs it,   *)
(* queues its null pointer and goes on.                                    *)
(***************************************************************************)
NoCrudCall(w) ==
  /\ "allocation" \in Faults
  /\ Queueing(w)
  /\ IsCrud(Frame(w))
  /\ Fails(w[1], Frame(w), TRUE)
  /\ net' = Taken(w)
  /\ UNCHANGED <<queues, worker>>

NoCall(w) ==
  LET m == Frame(w) IN
  /\ "allocation" \in Faults
  /\ Queueing(w)
  /\ ~ IsCrud(m)
  /\ HasRoom(w)
  /\ Fails(w[1], m, TRUE)
  /\ net' = Taken(w)
  /\ queues' = Queued(w[1], m.queue, NullCall)
  /\ worker' = [worker EXCEPT ![w] = AfterQueueing(m)]

(* dcrudIDispatcher_execute: the interface is not provided here. *)
Ignore(w) ==
  LET p == w[1]
      m == Frame(w)
  IN
  /\ Receiving(w)
  /\ alive[p]
  /\ m.callId >= 0
  /\ ~ IsCrud(m)
  /\ ~ Provides(p, m)
  /\ net' = Taken(w)
  /\ UNCHANGED <<issued, callId, callbacks, queues, worker, live, alive, crashed,
                 log, failed, delivered, unknown>>

(* The interface is, the operation is not: an error, the arguments leak. *)
UnknownOperation(w) ==
  LET p == w[1]
      m == Frame(w)
  IN
  /\ Receiving(w)
  /\ alive[p]
  /\ m.callId >= 0
  /\ Provides(p, m)
  /\ ~ Implements(p, m)
  /\ Fails(p, m, TRUE)
  /\ net' = Taken(w)
  /\ UNCHANGED <<queues, worker>>

(***************************************************************************)
(* The synchronous mode: the receiver thread executes the operation,       *)
(* without the mutex of the queues; a failure to answer is not noticed.    *)
(***************************************************************************)
RunSynchronously(w) ==
  LET p == w[1]
      m == Frame(w)
  IN
  /\ Receiving(w)
  /\ alive[p]
  /\ m.callId >= 0
  /\ Implements(p, m)
  /\ m.mode = "synchronous"
  /\ m.callId # 0 => CanSend(p)
  /\ net' \in {IF m.callId # 0 THEN Sent(Taken(w), p, Answer(m)) ELSE Taken(w)}
                \cup (IF "send" \in Faults THEN {Taken(w)} ELSE {})
  /\ log' = [log EXCEPT ![p] = Append(@, m.request)]
  /\ UNCHANGED <<issued, callId, callbacks, queues, worker, live, alive, crashed,
                 failed, delivered, unknown>>

(***************************************************************************)
(* dcrudIParticipantImpl_callback.  The callback is told by the address of *)
(* the key; without one the arguments of the answer leak.                  *)
(***************************************************************************)
Key(w) == Stack(w)

CallbackFound(w) == {b \in callbacks[w[1]] : b[1] = Key(w)}

ReceiveAnswer(w) ==
  LET p == w[1]
      m == Frame(w)
      found == CallbackFound(w)
  IN
  /\ Receiving(w)
  /\ alive[p]
  /\ IsAnswer(m)
  /\ net' = Taken(w)
  /\ live' = [live EXCEPT ![p] = @ \cup {m}]
  /\ delivered' = [delivered EXCEPT ![p] = @ \cup {b[2] : b \in found}]
  /\ unknown' = [unknown EXCEPT ![p] =
                   IF found = {} THEN @ \cup {m.request} ELSE @]
  /\ UNCHANGED <<issued, callId, callbacks, queues, worker, alive, crashed, log,
                 failed>>

-----------------------------------------------------------------------------
(***************************************************************************)
(* dcrudIDispatcher_handleRequests, on an application thread or on the     *)
(* receiver thread of an immediate call: queue after queue, call after     *)
(* call, under the mutex of the queues.                                    *)
(***************************************************************************)
HandleBegin(w) ==
  /\ (w \in Handler /\ At(w, "idle")) \/ At(w, "immediate")
  /\ ~ QueuesLocked(w[1])
  /\ worker' = [worker EXCEPT ![w] = Handling(1)]
  /\ UNCHANGED <<issued, callId, callbacks, queues, net, live, alive, crashed,
                 log, failed, delivered, unknown>>

Pending(w) == queues[w[1]][worker[w].q]
HasCurrent(w) == worker[w].i <= Len(Pending(w))
Current(w) == Pending(w)[worker[w].i]

Executing(w) == At(w, "handling") /\ HasCurrent(w) /\ Current(w) # NullCall

(* dcrudOperationCall_delete, and its defective form. *)
NotReleased(p, m) == live

Released(p, m) == [live EXCEPT ![p] = @ \ {m}]

(* The operation runs, its answer is sent, its arguments are released. *)
Run(w) ==
  LET p == w[1]
      m == Current(w)
  IN
  /\ Executing(w)
  /\ m.callId # 0 => CanSend(p)
  /\ net' = IF m.callId # 0 THEN Sent(net, p, Answer(m)) ELSE net
  /\ log' = [log EXCEPT ![p] = Append(@, m.request)]
  /\ live' = Released(p, m)
  /\ worker' = [worker EXCEPT ![w].i = @ + 1]
  /\ UNCHANGED <<issued, callId, callbacks, queues, alive, crashed, failed,
                 delivered, unknown>>

(***************************************************************************)
(* collList_clear and the loop on the queues, while isAlive says yes; and  *)
(* their defective forms.                                                  *)
(***************************************************************************)
ClearedNot(w) == queues
ClearedAll(w) == [queues EXCEPT ![w[1]] = [q \in Queue |-> <<>>]]

Cleared(w) == [queues EXCEPT ![w[1]][worker[w].q] = <<>>]

NextQueueNone(w) == Idle
NextQueueBeyond(w) ==
  IF alive[w[1]] /\ worker[w].q <= QueueCount THEN Handling(worker[w].q + 1)
  ELSE Idle

NextQueue(w) ==
  IF alive[w[1]] /\ worker[w].q < QueueCount THEN Handling(worker[w].q + 1)
  ELSE Idle

(***************************************************************************)
(* A CRUD request meets an unknown class or item, an operation returns no  *)
(* results although some are asked for, or the answer cannot be sent:      *)
(* collList_foreach stops, and the rest of the queue goes with the call.   *)
(***************************************************************************)
CanFail(m) == IsCrud(m) \/ (m.callId # 0 /\ "send" \in Faults)

RunFails(w) ==
  LET p == w[1]
      m == Current(w)
  IN
  /\ Executing(w)
  /\ CanFail(m)
  /\ log' \in {[log EXCEPT ![p] = Append(@, m.request)]}
                \cup (IF IsCrud(m) THEN {log} ELSE {})
  /\ failed' = [failed EXCEPT ![p] = @ \cup {m.request}]
  /\ queues' = Cleared(w)
  /\ worker' = [worker EXCEPT ![w] = NextQueue(w)]
  /\ UNCHANGED <<issued, callId, callbacks, net, live, alive, crashed,
                 delivered, unknown>>

(* opCall is NULL, and so is opCall->opName read. *)
RunNull(w) ==
  /\ At(w, "handling")
  /\ HasCurrent(w)
  /\ Current(w) = NullCall
  /\ crashed' = crashed \cup {w[1]}
  /\ UNCHANGED <<issued, callId, callbacks, queues, worker, net, live, alive, log,
                 failed, delivered, unknown>>

ClearQueue(w) ==
  /\ At(w, "handling")
  /\ ~ HasCurrent(w)
  /\ queues' = Cleared(w)
  /\ worker' = [worker EXCEPT ![w] = NextQueue(w)]
  /\ UNCHANGED <<issued, callId, callbacks, net, live, alive, crashed, log, failed,
                 delivered, unknown>>

-----------------------------------------------------------------------------
Handle(w) == HandleBegin(w) \/ Run(w) \/ RunFails(w) \/ RunNull(w) \/ ClearQueue(w)

Receive(w) ==
  \/ Discard(w)
  \/ NoArguments(w)
  \/ Enqueue(w)
  \/ QueueFull(w)
  \/ NoCrudCall(w)
  \/ NoCall(w)
  \/ Ignore(w)
  \/ UnknownOperation(w)
  \/ RunSynchronously(w)
  \/ ReceiveAnswer(w)

Next ==
  \/ \E a \in Caller, c \in Callable : IssueCall(a, c[1], c[2], c[3], c[4])
  \/ \E a \in Caller : RegisterCallback(a)
  \/ \E a \in App : Leave(a)
  \/ \E w \in Receiver : Receive(w)
  \/ \E w \in Worker : Handle(w)

Spec == Init /\ [][Next]_vars

(***************************************************************************)
(* A receiver blocks in recvfrom only while nothing arrives; a program     *)
(* calls handleRequests in its main loop; a thread that holds the mutex of *)
(* the queues goes on.  Nothing more is assumed of the mutex.              *)
(***************************************************************************)
Fairness ==
  /\ \A w \in Receiver : WF_vars(Receive(w))
  /\ \A w \in Worker : WF_vars(Handle(w))

FairSpec == Spec /\ Fairness

-----------------------------------------------------------------------------
(* The call c of the request, as its issuer sent it. *)
Issued(r) == issued[r[1]][r[2]]
AllIssued == {r \in Request : r[2] <= Len(issued[r[1]])}

Elements(seq) == {seq[i] : i \in DOMAIN seq}

(* The first entry of queue q of p that has not been executed. *)
NextOf(p, q) ==
  LET busy == {w \in Worker : w[1] = p /\ worker[w].pc = "handling" /\ worker[w].q = q}
  IN  IF busy = {} THEN 1 ELSE worker[CHOOSE w \in busy : TRUE].i

Waiting(p, q) == {queues[p][q][i] : i \in NextOf(p, q) .. Len(queues[p][q])} \ {NullCall}

WaitingCalls(p)    == UNION {Waiting(p, q) : q \in Queue}
WaitingRequests(p) == {m.request : m \in WaitingCalls(p)}

(***************************************************************************)
(* A request is executed at most once by a participant, although a queue   *)
(* keeps what was executed until it is cleared, a receiver may handle the  *)
(* queues while the application waits to, and a call that fails stops the  *)
(* round.                                                                  *)
(***************************************************************************)
ExecutedOnce ==
  \A p \in Participant : \A i, j \in DOMAIN log[p] : log[p][i] = log[p][j] => i = j

(***************************************************************************)
(* Two calls of one participant that went through the same queue of        *)
(* another are executed in the order they were issued, whichever thread    *)
(* executes them.                                                          *)
(***************************************************************************)
SameQueue(r, s) ==
  /\ QueueOf(Issued(r)) = QueueOf(Issued(s))
  /\ \A t \in {r, s} : IsCrud(Issued(t)) \/ Issued(t).mode # "synchronous"

QueueOrder ==
  \A p \in Participant : \A i, j \in DOMAIN log[p] :
    LET r == log[p][i]
        s == log[p][j]
    IN  i < j /\ r[1] = s[1] /\ SameQueue(r, s) => r[2] < s[2]

(***************************************************************************)
(* Whatever fails, the dispatchers keep the promise that is stated in      *)
(* RemoteOperations: the lane of a call is its queue, which an immediate   *)
(* call shares with the deferred ones although another thread may execute  *)
(* it, and a synchronous one passes by.                                    *)
(***************************************************************************)
ViaQueue(m) == IF IsCrud(m) \/ m.mode # "synchronous" THEN QueueOf(m) ELSE 0

Abstract == INSTANCE RemoteOperations WITH
  Lane <- Queue,
  lanes <- [p \in Participant |-> [i \in 1 .. Len(issued[p]) |-> ViaQueue(issued[p][i])]],
  done <- log,
  answered <- delivered

OperationsImplemented == Abstract!Spec

(***************************************************************************)
(* No operation is executed on released arguments: those of every call     *)
(* that waits are allocated.  And arguments that no queue will release     *)
(* belong to a failure, to the queue behind one, or to an answer.          *)
(***************************************************************************)
Addressed(p, m) == IsCrud(m) \/ Implements(p, m)

BehindFailure(p, r) ==
  \/ r \in failed[p]
  \/ \E s \in failed[p] : SameQueue(r, s) /\ Addressed(p, Issued(s))

ArgumentsOwned ==
  \A p \in Participant :
    /\ WaitingCalls(p) \subseteq live[p]
    /\ \A m \in live[p] \ WaitingCalls(p) :
         IsAnswer(m) \/ BehindFailure(p, m.request)

(***************************************************************************)
(* A call of an operation that a participant implements is on its way to   *)
(* it, waits in a queue, has been executed, or was lost with a call of the *)
(* same queue that failed: unless the participant has left.                *)
(***************************************************************************)
CallAccountedFor ==
  \A r \in AllIssued : \A p \in Participant \ {r[1]} :
    (alive[p] /\ Addressed(p, Issued(r))) =>
      \/ \E i \in DOMAIN net[<<p, r[1]>>] :
            net[<<p, r[1]>>][i].request = r /\ ~ IsAnswer(net[<<p, r[1]>>][i])
      \/ r \in WaitingRequests(p)
      \/ r \in Elements(log[p])
      \/ BehindFailure(p, r)

(***************************************************************************)
(* A call that waits in a queue is eventually taken out of it, by the      *)
(* application or by the receiver of an immediate call, unless the program *)
(* crashes or leaves: leave() makes handleRequests stop after one queue.   *)
(***************************************************************************)
QueuedIsExecuted ==
  \A p \in Participant, r \in Request :
    (r \in WaitingRequests(p)) ~>
      (r \notin WaitingRequests(p) \/ p \in crashed \/ ~ alive[p])

(***************************************************************************)
(* README: an operation that has to return a result is called with a      *)
(* callback.  Every answer that comes back is given to one.                *)
(***************************************************************************)
AnswerFindsCallback == \A p \in Participant : unknown[p] = {}

=============================================================================
