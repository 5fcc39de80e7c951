------------------------------ MODULE Channel ------------------------------
(***************************************************************************)
(* Channels: typed messages between a C process built with                 *)
(* STATIC_ALLOCATION (UDPChannel.c, CoDec.c, Factories.c, List.c) and a    *)
(* Java one (UDPChannel.java, CoDec.java, Factories.java), each end bound  *)
(* to a port and connected to that of its peer.                            *)
(*                                                                         *)
(* A message is a list of references to items: class ids, 0 for a null     *)
(* one, which a Java set may have and a C list refuses, with a limit that  *)
(* a Java set does not have.  Whatever touches the handlers of a C channel *)
(* while addHandler fills and sorts them races with it, and may find any.  *)
(*                                                                         *)
(* The application of the C process is one thread.  It registers its       *)
(* factories while no channel is open, as channelTest.c does; Java's adds  *)
(* them when it likes, as Test_004.java does.  Left out: the race of the   *)
(* Java HashMap with its reader, handlers that call the channel, and the   *)
(* socket that channelUDPChannel_new leaves open when it cannot start its  *)
(* thread.                                                                 *)
(***************************************************************************)
EXTENDS CLibrary, Integers, Sequences, FiniteSets
LOCAL INSTANCE SequencesExt

CONSTANTS
  CEnd,          \* the channels of the C process
  JavaEnd,       \* the channels of the Java process
  Routes,        \* the ways in which the channels in use may be connected
  MsgId,         \* message ids, which also name their handlers
  ClassId,       \* class ids
  CList,         \* lists that the C process sends
  JavaSet,       \* sets that the Java process sends
  ListLimit,     \* channelListItems_POOL_SIZE
  HandlerLimit,  \* channelUDPChannelImplHandlersMaxCount
  MaxSent,       \* bound on the messages ever sent
  MaxMessages    \* bound on the messages waiting at an end

End == CEnd \cup JavaEnd
NoFn == 0        \* no handler: not found, or a NULL pointer

ASSUME ChannelAssumption ==
  /\ \A r \in Routes : DOMAIN r \subseteq End /\ r \in [DOMAIN r -> DOMAIN r]
  /\ MsgId \subseteq Nat \ {0}
  /\ ClassId \subseteq Nat \ {0}
  /\ CList \subseteq Seq(ClassId)
  /\ \A list \in CList : Len(list) <= ListLimit
  /\ \A set \in JavaSet : set \subseteq ClassId \cup {0} /\ IsFiniteSet(set)
  /\ CEnd \cap JavaEnd = {}
  /\ {ListLimit, HandlerLimit, MaxSent, MaxMessages} \subseteq Nat

VARIABLES
  peer,       \* the end whose host and port a channel in use is opened with
  phase,      \* an end: "none", "open", "deleting" or "deleted"
  receiver,   \* its thread: "receiving", "calling" a handler, or "ended"
  call,       \* the last message it took and what came of it
  handlers,   \* handler_t handlers[], up to handlersCount
  javaHandlers,   \* _handlers, of a Java channel
  factories,  \* s_factories of the C process, up to s_count
  javaFactories,  \* _factories of the Java process
  adding,     \* <<end, id>> while the C application is in addHandler()
  waiting,    \* datagrams that wait at the socket of an end
  refused,    \* the socket has heard that its peer's port is closed
  crashed,    \* the C process has called through a NULL pointer
  sentCount,  \* number of messages sent
  everRefused   \* history: the ends that were ever refused

channelVars == <<peer, phase, receiver, call, handlers, javaHandlers,
                 factories, javaFactories, adding, waiting, refused, crashed,
                 sentCount, everRefused>>

NoCall == [id |-> 0, list |-> <<>>, items |-> <<>>, cell |-> 0,
           declared |-> FALSE, raced |-> FALSE, fn |-> NoFn,
           outcome |-> "none", got |-> <<>>]

ChannelInit ==
  /\ peer \in Routes
  /\ phase = [e \in End |-> "none"]
  /\ receiver = [e \in End |-> "ended"]
  /\ call = [e \in End |-> NoCall]
  /\ handlers = [c \in CEnd |-> <<>>]
  /\ javaHandlers = [j \in JavaEnd |-> {}]
  /\ factories = <<>>
  /\ javaFactories = {}
  /\ adding = <<>>
  /\ waiting = [e \in End |-> <<>>]
  /\ refused = [e \in End |-> FALSE]
  /\ crashed = FALSE
  /\ sentCount = 0
  /\ everRefused = {}

(* The C application is between two calls. *)
CIdle == ~ crashed /\ adding = <<>> /\ \A c \in CEnd : phase[c] # "deleting"

-----------------------------------------------------------------------------
(* bsearch() for a number in an array of numbers: its index, or 0. *)
Search(n, array) == Bisection([i \in DOMAIN array |-> n - array[i]])

(* qsort(): the numbers of an array, rearranged in ascending order. *)
Ascending(array) == \A i, j \in DOMAIN array : i < j => array[i] <= array[j]

Orders(D) == {p \in [D -> D] : \A j \in D : \E i \in D : p[i] = j}

Rearranged(array) ==
  {[i \in DOMAIN array |-> array[p[i]]] : p \in Orders(DOMAIN array)}

Sorted(array) == CHOOSE s \in Rearranged(array) : Ascending(s)

(* The cell that is added at the end moves to its place; and a form that   *)
(* leaves it where it is.                                                  *)
LeftAtTheEnd(array, n) == Append(array, n)
Inserted(array, n)     == Sorted(Append(array, n))

(* channelFactories_add *)
AddFactory(k) ==
  /\ CIdle
  /\ \A c \in CEnd : phase[c] # "open"
  /\ k \notin ToSet(factories)
  /\ factories' = Inserted(factories, k)
  /\ UNCHANGED <<peer, phase, receiver, call, handlers, javaHandlers,
                 javaFactories, adding, waiting, refused, crashed, sentCount,
                 everRefused>>

(* Factories.add *)
JavaAddFactory(k) ==
  /\ k \notin javaFactories
  /\ javaFactories' = javaFactories \cup {k}
  /\ UNCHANGED <<peer, phase, receiver, call, handlers, javaHandlers,
                 factories, adding, waiting, refused, crashed, sentCount,
                 everRefused>>

(* channelUDPChannel_new and the constructor of Java: the thread receives  *)
(* from then on, before a handler can be added.                            *)
New(e) ==
  /\ e \in DOMAIN peer
  /\ phase[e] = "none"
  /\ e \in CEnd => CIdle
  /\ phase' = [phase EXCEPT ![e] = "open"]
  /\ receiver' = [receiver EXCEPT ![e] = "receiving"]
  /\ UNCHANGED <<peer, call, handlers, javaHandlers, factories, javaFactories,
                 adding, waiting, refused, crashed, sentCount, everRefused>>

(* channelUDPChannel_addHandler: the cell behind the last one is counted,  *)
(* then filled; a call that the receiver is about to make is now in doubt. *)
AddHandlerBegins(c, m) ==
  /\ CIdle
  /\ phase[c] = "open"
  /\ Len(handlers[c]) < HandlerLimit
  /\ adding' = <<c, m>>
  /\ call' = [call EXCEPT ![c].raced = @ \/ receiver[c] = "calling"]
  /\ UNCHANGED <<peer, phase, receiver, handlers, javaHandlers, factories,
                 javaFactories, waiting, refused, crashed, sentCount, everRefused>>

(* The cells have been sorted. *)
AddHandlerEnds ==
  /\ ~ crashed
  /\ adding # <<>>
  /\ handlers' = [handlers EXCEPT ![adding[1]] = Inserted(@, adding[2])]
  /\ adding' = <<>>
  /\ UNCHANGED <<peer, phase, receiver, call, javaHandlers, factories,
                 javaFactories, waiting, refused, crashed, sentCount, everRefused>>

(* UDPChannel.addHandler: HashMap.put *)
JavaAddHandler(j, m) ==
  /\ phase[j] = "open"
  /\ m \notin javaHandlers[j]
  /\ javaHandlers' = [javaHandlers EXCEPT ![j] = @ \cup {m}]
  /\ UNCHANGED <<peer, phase, receiver, call, handlers, factories,
                 javaFactories, adding, waiting, refused, crashed, sentCount,
                 everRefused>>

-----------------------------------------------------------------------------
(* putList, putSet: the class id of each item and the item, 0 for a null   *)
(* one; and a form that passes over null items that it has counted.        *)
PutNonNullItems(list) == SelectSeq(list, LAMBDA k : k # 0)
PutItems(list)        == list

(***************************************************************************)
(* A message goes to the peer's socket or is lost.  Where nothing is bound *)
(* to the port, the sender's socket may hear of it; where its socket has   *)
(* heard of it before, a call reports it and sends nothing.                *)
(***************************************************************************)
SendTo(e, m, list) ==
  LET p == peer[e] IN
  /\ sentCount < MaxSent
  /\ sentCount' = sentCount + 1
  /\ ~ refused[e]
  /\ \/ /\ phase[p] \in {"open", "deleting"}
        /\ Len(waiting[p]) < MaxMessages
        /\ waiting' = [waiting EXCEPT ![p] =
             Append(@, [id |-> m, list |-> list, items |-> PutItems(list)])]
        /\ UNCHANGED <<refused, everRefused>>
     \/ /\ phase[p] \in {"none", "deleted"}
        /\ refused' = [refused EXCEPT ![e] = TRUE]
        /\ everRefused' = everRefused \cup {e}
        /\ UNCHANGED waiting
     \/ UNCHANGED <<waiting, refused, everRefused>>
  /\ UNCHANGED <<peer, phase, receiver, call, handlers, javaHandlers,
                 factories, javaFactories, adding, crashed>>

Send(c, m, list) == CIdle /\ phase[c] = "open" /\ SendTo(c, m, list)

(* The items in whatever order the set yields them. *)
JavaSend(j, m, set) ==
  phase[j] = "open" /\ \E list \in SetToSeqs(set) : SendTo(j, m, list)

SendReportsRefusal(e) ==
  /\ phase[e] = "open"
  /\ e \in CEnd => CIdle
  /\ refused[e]
  /\ refused' = [refused EXCEPT ![e] = FALSE]
  /\ UNCHANGED <<peer, phase, receiver, call, handlers, javaHandlers,
                 factories, javaFactories, adding, waiting, crashed, sentCount,
                 everRefused>>

-----------------------------------------------------------------------------
(* What the receiver does when no handler was found: it receives again;    *)
(* and a form that gives up.                                               *)
GivesUp == "ended"
GoesOn  == "receiving"

(* channelUDPChannel_run: receive, getShort and bsearch().  A search that  *)
(* races with addHandler finds any of the handlers, or none.               *)
Receive(c) ==
  LET f == Head(waiting[c])
      races == adding # <<>> /\ adding[1] = c
      cells == IF races THEN 0 .. Len(handlers[c]) + 1 ELSE {Search(f.id, handlers[c])}
  IN
  /\ ~ crashed
  /\ receiver[c] = "receiving"
  /\ ~ refused[c]
  /\ waiting[c] # <<>>
  /\ waiting' = [waiting EXCEPT ![c] = Tail(@)]
  /\ \E i \in cells :
       /\ receiver' = [receiver EXCEPT ![c] = IF i > 0 THEN "calling" ELSE GoesOn]
       /\ call' = [call EXCEPT ![c] =
            [NoCall EXCEPT !.id = f.id, !.list = f.list, !.items = f.items,
                           !.cell = i, !.raced = races,
                           !.declared = f.id \in ToSet(handlers[c]),
                           !.outcome = IF i > 0 THEN "calling" ELSE "unexpected"]]
  /\ UNCHANGED <<peer, phase, handlers, javaHandlers, factories, javaFactories,
                 adding, refused, crashed, sentCount, everRefused>>

(* The handlers that the cell a call was found in may now hold. *)
Callable(c) ==
  IF ~ call[c].raced THEN {handlers[c][call[c].cell]}
  ELSE ToSet(handlers[c]) \cup
         (IF adding # <<>> /\ adding[1] = c THEN {adding[2], NoFn} ELSE {})

(* getList and getReference: a list longer than the pool's, and an item    *)
(* whose class has no factory, the null one too, fail the whole list.      *)
Listable(items) ==
  /\ Len(items) <= ListLimit
  /\ \A i \in DOMAIN items : Search(items[i], factories) > 0

(* handler->fn is read and called, and decodes the list. *)
Call(c) ==
  /\ ~ crashed
  /\ receiver[c] = "calling"
  /\ \E fn \in Callable(c) \ {NoFn} :
       call' = [call EXCEPT ![c] =
         IF Listable(call[c].items)
         THEN [@ EXCEPT !.fn = fn, !.outcome = "decoded", !.items = <<>>,
                        !.got = call[c].items]
         ELSE [@ EXCEPT !.fn = fn, !.outcome = "failed", !.items = <<>>]]
  /\ receiver' = [receiver EXCEPT ![c] = "receiving"]
  /\ UNCHANGED <<peer, phase, handlers, javaHandlers, factories, javaFactories,
                 adding, waiting, refused, crashed, sentCount, everRefused>>

(* The cell has been counted but not filled: a call through NULL. *)
CallCrashes(c) ==
  /\ ~ crashed
  /\ receiver[c] = "calling"
  /\ NoFn \in Callable(c)
  /\ crashed' = TRUE
  /\ UNCHANGED <<peer, phase, receiver, call, handlers, javaHandlers,
                 factories, javaFactories, adding, waiting, refused, sentCount,
                 everRefused>>

(* UDPChannel.run, getSet and getReference: a class that has no factory is *)
(* an exception, which run() catches.                                      *)
JavaReceive(j) ==
  LET f == Head(waiting[j])
      found == f.id \in javaHandlers[j]
      decoded == ToSet(f.items) \subseteq javaFactories \cup {0}
  IN
  /\ receiver[j] = "receiving"
  /\ ~ refused[j]
  /\ waiting[j] # <<>>
  /\ waiting' = [waiting EXCEPT ![j] = Tail(@)]
  /\ receiver' = [receiver EXCEPT ![j] = IF found THEN @ ELSE GoesOn]
  /\ call' = [call EXCEPT ![j] =
       [NoCall EXCEPT !.id = f.id, !.list = f.list, !.declared = found,
                      !.fn = IF found THEN f.id ELSE NoFn,
                      !.outcome = IF ~ found THEN "unexpected"
                                  ELSE IF decoded THEN "decoded" ELSE "failed",
                      !.got = IF found /\ decoded THEN ToSet(f.items) ELSE @]]
  /\ UNCHANGED <<peer, phase, handlers, javaHandlers, factories, javaFactories,
                 adding, refused, crashed, sentCount, everRefused>>

(* shutdown() wakes the receiver up. *)
Woken(e) == phase[e] = "deleting" /\ waiting[e] = <<>>

(* receive() returns an error, the refusal or the end of a socket shut     *)
(* down: the thread returns.  In Java the IOException leaves the loop.     *)
ReceiveFails(e) ==
  /\ e \in CEnd => ~ crashed
  /\ receiver[e] = "receiving"
  /\ refused[e] \/ Woken(e)
  /\ receiver' = [receiver EXCEPT ![e] = "ended"]
  /\ refused' = [refused EXCEPT ![e] = FALSE]
  /\ UNCHANGED <<peer, phase, call, handlers, javaHandlers, factories,
                 javaFactories, adding, waiting, crashed, sentCount, everRefused>>

-----------------------------------------------------------------------------
(* channelUDPChannel_delete: shutdown(), then osThread_join(). *)
DeleteBegins(c) ==
  /\ CIdle
  /\ phase[c] = "open"
  /\ phase' = [phase EXCEPT ![c] = "deleting"]
  /\ UNCHANGED <<peer, receiver, call, handlers, javaHandlers, factories,
                 javaFactories, adding, waiting, refused, crashed, sentCount,
                 everRefused>>

(* osThread_join has returned: the channel is released, and                *)
(* channelFactories_done forgets the factories of the whole process.       *)
DeleteEnds(c) ==
  /\ ~ crashed
  /\ phase[c] = "deleting"
  /\ receiver[c] = "ended"
  /\ phase' = [phase EXCEPT ![c] = "deleted"]
  /\ handlers' = [handlers EXCEPT ![c] = <<>>]
  /\ waiting' = [waiting EXCEPT ![c] = <<>>]
  /\ factories' = <<>>
  /\ UNCHANGED <<peer, receiver, call, javaHandlers, javaFactories, adding,
                 refused, crashed, sentCount, everRefused>>

ChannelNext ==
  \/ \E k \in ClassId : AddFactory(k)
  \/ \E k \in ClassId : JavaAddFactory(k)
  \/ \E e \in End : New(e)
  \/ \E c \in CEnd, m \in MsgId : AddHandlerBegins(c, m)
  \/ AddHandlerEnds
  \/ \E j \in JavaEnd, m \in MsgId : JavaAddHandler(j, m)
  \/ \E c \in CEnd, m \in MsgId, list \in CList : Send(c, m, list)
  \/ \E j \in JavaEnd, m \in MsgId, set \in JavaSet : JavaSend(j, m, set)
  \/ \E e \in End : SendReportsRefusal(e)
  \/ \E c \in CEnd : Receive(c)
  \/ \E c \in CEnd : Call(c)
  \/ \E c \in CEnd : CallCrashes(c)
  \/ \E j \in JavaEnd : JavaReceive(j)
  \/ \E e \in End : ReceiveFails(e)
  \/ \E c \in CEnd : DeleteBegins(c)
  \/ \E c \in CEnd : DeleteEnds(c)

ChannelSpec == ChannelInit /\ [][ChannelNext]_channelVars

-----------------------------------------------------------------------------
(***************************************************************************)
(* Messages reach the handler that was declared for their id, in whatever  *)
(* order the handlers were declared and however many others there are, and *)
(* no other; only one whose search or call overlapped an addHandler may    *)
(* go wrong, and only such a one can have crashed the process.             *)
(***************************************************************************)
MessagesFindTheirHandler ==
  /\ \A e \in End : call[e].outcome \notin {"none", "calling"} =>
       \/ call[e].raced
       \/ call[e].fn = IF call[e].declared THEN call[e].id ELSE NoFn
  /\ crashed => \E c \in CEnd : receiver[c] = "calling" /\ call[c].raced

(***************************************************************************)
(* What a handler decodes is what was sent, from C to Java, from Java to C *)
(* and within C, or nothing at all; a C handler gets nothing only if an    *)
(* item is null or of a class without a factory, if there are too many, or *)
(* because a channel of its process, any of them, has been deleted.        *)
(***************************************************************************)
ListsArrive ==
  /\ \A e \in End : call[e].outcome = "decoded" =>
       call[e].got = IF e \in JavaEnd THEN ToSet(call[e].list) ELSE call[e].list
  /\ \A c \in CEnd : call[c].outcome = "failed" =>
       \/ \E d \in CEnd : phase[d] = "deleted"
       \/ Len(call[c].list) > ListLimit
       \/ ~ ToSet(call[c].list) \subseteq ToSet(factories)

(***************************************************************************)
(* The receiver of a channel in use goes on whatever it receives, for the  *)
(* messages nobody declared a handler for and those its handlers cannot    *)
(* decode too: it has ended only if one of the sends was refused, and then *)
(* for good, although the peer may be there by now.                        *)
(***************************************************************************)
ReceiverGoesOn ==
  \A e \in End : phase[e] = "open" /\ receiver[e] = "ended" => e \in everRefused
=============================================================================
