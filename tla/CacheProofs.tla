---------------------------- MODULE CacheProofs ----------------------------
(***************************************************************************)
(* Proofs about Cache, for every value of its constants.                   *)
(***************************************************************************)
EXTENDS Cache, TLAPS

(***************************************************************************)
(* Typing of the operators the actions are built from.                     *)
(***************************************************************************)
LEMMA FrameTyping ==
  ASSUME TypeOK, NEW ch \in Channel, net[ch] # <<>>
  PROVE  /\ Head(net[ch]) \in Frame
         /\ Tail(net[ch]) \in Seq(Frame)
         /\ Head(net[ch]).id \in GUID
<1>1. net[ch] \in Seq(Frame)
  BY DEF TypeOK
<1>2. Head(net[ch]) \in Frame /\ Tail(net[ch]) \in Seq(Frame)
  BY <1>1
<1> QED
  BY <1>2 DEF Frame

LEMMA SendTyping ==
  ASSUME TypeOK, NEW p \in Participant, NEW f \in Frame, Send(p, f)
  PROVE  net' \in [Channel -> Seq(Frame)]
  BY DEF TypeOK, Send

LEMMA ThreadTyping ==
  ASSUME TypeOK, NEW a \in App
  PROVE  /\ thread[a] \in ThreadState
         /\ thread[a].pc \in PC
         /\ thread[a].cache \in CacheIndex
         /\ thread[a].todo \in SUBSET Item
         /\ thread[a].n \in 0 .. MaxInstance
         /\ a[1] \in Participant
         /\ CacheOf(a) \in CacheRef
         /\ CacheOf(a) = <<a[1], thread[a].cache>>
  BY DEF TypeOK, ThreadState, CacheOf, CacheRef, App

LEMMA HeapTyping ==
  ASSUME TypeOK, NEW x \in Item
  PROVE  /\ heap[x] \in Shareable
         /\ heap[x].id \in GUID
         /\ heap[x].id[1] \in Participant
         /\ heap[x].id[2] \in 0 .. MaxInstance
         /\ heap[x].version \in Version
         /\ heap[x].created \in BOOLEAN
         /\ x[1] \in Participant
  BY DEF TypeOK, Shareable, GUID, Item

(***************************************************************************)
(* Type correctness.                                                       *)
(***************************************************************************)
LEMMA InitTypeOK == Init => TypeOK
<1> SUFFICES ASSUME Init PROVE TypeOK
  OBVIOUS
<1> USE ConstantsAssumption DEF Init, FirstInstance
<1>1. heap \in [Item -> Shareable]
  BY DEF Item, Shareable, GUID, Version
<1>2. /\ local \in [CacheRef -> SUBSET Item]
      /\ updated \in [CacheRef -> SUBSET Item]
      /\ deleted \in [CacheRef -> SUBSET Item]
      /\ toUpdate \in [CacheRef -> SUBSET Frame]
      /\ toDelete \in [CacheRef -> SUBSET GUID]
  OBVIOUS
<1>3. nextInstance \in [CacheRef -> 1 .. MaxInstance + 1]
  OBVIOUS
<1>4. Idle \in ThreadState
  BY DEF Idle, ThreadState, PC
<1>5. thread \in [App -> ThreadState]
  BY <1>4
<1>6. net \in [Channel -> Seq(Frame)]
  OBVIOUS
<1> QED
  BY <1>1, <1>2, <1>3, <1>5, <1>6 DEF TypeOK

LEMMA IdleTyping == Idle \in ThreadState
  BY ConstantsAssumption DEF Idle, ThreadState, PC

LEMMA CallTyping ==
  ASSUME TypeOK, NEW a \in App, NEW c \in CacheIndex, Call(a, c)
  PROVE  TypeOK'
<1> USE ConstantsAssumption
<1>0. a[1] \in Participant /\ <<a[1], c>> \in CacheRef
  BY DEF App, CacheRef
<1>1. CASE CreateRead(a, c)
  <2>1. nextInstance[<<a[1], c>>] \in 0 .. MaxInstance
    BY <1>0, <1>1 DEF CreateRead, TypeOK
  <2>2. [pc |-> "creating", cache |-> c, todo |-> {},
         n |-> nextInstance[<<a[1], c>>]] \in ThreadState
    BY <2>1 DEF ThreadState, PC
  <2> QED
    BY <1>1, <2>2 DEF CreateRead, TypeOK
<1>2. ASSUME NEW x \in Item, UpdateCheck(a, c, x)
      PROVE  TypeOK'
  <2>1. [pc |-> "marking", cache |-> c, todo |-> {x}, n |-> 0] \in ThreadState
    BY DEF ThreadState, PC
  <2>2. heap[x].version + 1 \in Version
    BY <1>2, HeapTyping DEF UpdateCheck, Version
  <2>3. [heap[x] EXCEPT !.version = @ + 1] \in Shareable
    BY <2>2, HeapTyping DEF Shareable
  <2>4. heap' \in [Item -> Shareable]
    BY <1>2, <2>3 DEF UpdateCheck, TypeOK
  <2> QED
    BY <1>2, <2>1, <2>4 DEF UpdateCheck, TypeOK
<1>3. ASSUME NEW x \in Item, DeleteItem(a, c, x)
      PROVE  TypeOK'
  BY <1>0, <1>3 DEF DeleteItem, TypeOK
<1>4. CASE PublishBegin(a, c)
  <2>1. [pc |-> "pushingUpdated", cache |-> c, todo |-> updated[<<a[1], c>>],
         n |-> 0] \in ThreadState
    BY <1>0 DEF ThreadState, PC, TypeOK
  <2> QED
    BY <1>4, <2>1 DEF PublishBegin, TypeOK
<1>5. CASE RefreshBegin(a, c)
  <2>1. [pc |-> "applying", cache |-> c, todo |-> {}, n |-> 0] \in ThreadState
    BY DEF ThreadState, PC
  <2> QED
    BY <1>5, <2>1 DEF RefreshBegin, TypeOK
<1> QED
  BY <1>1, <1>2, <1>3, <1>4, <1>5 DEF Call

LEMMA PublishTyping ==
  ASSUME TypeOK, NEW a \in App,
         \/ PushCreateOrUpdateItem(a)
         \/ PublishUpdated(a)
         \/ PublishDeletedBegin(a)
         \/ PushDeleteItem(a)
         \/ PublishDeleted(a)
         \/ PublishFails(a)
  PROVE  TypeOK'
<1> USE ConstantsAssumption
<1>0. /\ a[1] \in Participant
      /\ CacheOf(a) \in CacheRef
      /\ thread[a] \in ThreadState
      /\ thread[a].todo \in SUBSET Item
      /\ thread[a].cache \in CacheIndex
      /\ thread[a].n \in 0 .. MaxInstance
  BY ThreadTyping
<1>1. CASE PushCreateOrUpdateItem(a)
  <2>1. PICK x \in thread[a].todo :
          /\ Send(a[1], [type |-> "CREATE_OR_UPDATE", id |-> heap[x].id,
                         version |-> heap[x].version])
          /\ thread' = [thread EXCEPT ![a].todo = @ \ {x}]
    BY <1>1 DEF PushCreateOrUpdateItem
  <2>2. [type |-> "CREATE_OR_UPDATE", id |-> heap[x].id,
         version |-> heap[x].version] \in Frame
    BY <1>0, HeapTyping DEF Frame
  <2>3. net' \in [Channel -> Seq(Frame)]
    BY <1>0, <2>1, <2>2, SendTyping
  <2>4. thread' \in [App -> ThreadState]
    BY <1>0, <2>1 DEF ThreadState, TypeOK
  <2> QED
    BY <1>1, <2>3, <2>4 DEF PushCreateOrUpdateItem, TypeOK
<1>2. CASE PublishUpdated(a)
  <2>1. thread' \in [App -> ThreadState]
    BY <1>0, <1>2 DEF PublishUpdated, ThreadState, PC, TypeOK
  <2> QED
    BY <1>0, <1>2, <2>1 DEF PublishUpdated, TypeOK
<1>3. CASE PublishDeletedBegin(a)
  <2>1. deleted[CacheOf(a)] \in SUBSET Item
    BY <1>0 DEF TypeOK
  <2>2. thread' \in [App -> ThreadState]
    BY <1>0, <1>3, <2>1 DEF PublishDeletedBegin, ThreadState, PC, TypeOK
  <2> QED
    BY <1>3, <2>2 DEF PublishDeletedBegin, TypeOK
<1>4. CASE PushDeleteItem(a)
  <2>1. PICK x \in thread[a].todo :
          /\ Send(a[1], [type |-> "DELETE", id |-> heap[x].id, version |-> 0])
          /\ thread' = [thread EXCEPT ![a].todo = @ \ {x}]
    BY <1>4 DEF PushDeleteItem
  <2>2. [type |-> "DELETE", id |-> heap[x].id, version |-> 0] \in Frame
    BY <1>0, HeapTyping DEF Frame, Version
  <2>3. net' \in [Channel -> Seq(Frame)]
    BY <1>0, <2>1, <2>2, SendTyping
  <2>4. thread' \in [App -> ThreadState]
    BY <1>0, <2>1 DEF ThreadState, TypeOK
  <2> QED
    BY <1>4, <2>3, <2>4 DEF PushDeleteItem, TypeOK
<1>5. CASE PublishDeleted(a)
  BY <1>0, <1>5, IdleTyping DEF PublishDeleted, TypeOK
<1>6. CASE PublishFails(a)
  BY <1>0, <1>6, IdleTyping DEF PublishFails, TypeOK
<1> QED
  BY <1>1, <1>2, <1>3, <1>4, <1>5, <1>6

LEMMA CreateTyping ==
  ASSUME TypeOK, NEW a \in App, CreatePut(a) \/ MarkUpdated(a)
  PROVE  TypeOK'
<1> USE ConstantsAssumption
<1>0. /\ a[1] \in Participant
      /\ CacheOf(a) \in CacheRef
      /\ thread[a] \in ThreadState
      /\ thread[a].todo \in SUBSET Item
      /\ thread[a].cache \in CacheIndex
      /\ thread[a].n \in 0 .. MaxInstance
  BY ThreadTyping
<1>1. CASE CreatePut(a)
  <2> DEFINE k == CacheOf(a)
             id == <<a[1], thread[a].n>>
  <2>1. PICK x \in NextFresh(a[1]) :
          /\ heap' = [heap EXCEPT ![x] = [id |-> id, version |-> 1,
                                          created |-> TRUE]]
          /\ local' = [local EXCEPT ![k] = (@ \ Lookup(k, id)) \cup {x}]
          /\ thread' = [thread EXCEPT ![a].pc = "marking", ![a].todo = {x}]
    BY <1>1 DEF CreatePut, NextNumber
  <2>2. x \in Item
    BY DEF NextFresh, Fresh
  <2>3. [id |-> id, version |-> 1, created |-> TRUE] \in Shareable
    BY <1>0 DEF Shareable, GUID, Version
  <2>4. heap' \in [Item -> Shareable]
    BY <2>1, <2>2, <2>3 DEF TypeOK
  <2>5. local' \in [CacheRef -> SUBSET Item]
    BY <1>0, <2>1, <2>2 DEF TypeOK
  <2>6. thread' \in [App -> ThreadState]
    BY <1>0, <2>1, <2>2 DEF ThreadState, PC, TypeOK
  <2>7. nextInstance' \in [CacheRef -> 1 .. MaxInstance + 1]
    <3>1. thread[a].n + 1 \in 1 .. MaxInstance + 1
      BY <1>0
    <3>2. nextInstance' = [nextInstance EXCEPT ![k] = thread[a].n + 1]
      BY <1>1 DEF CreatePut, NextNumber
    <3> QED
      BY <1>0, <3>1, <3>2 DEF TypeOK
  <2> QED
    BY <1>1, <2>4, <2>5, <2>6, <2>7 DEF CreatePut, TypeOK
<1>2. CASE MarkUpdated(a)
  BY <1>0, <1>2, IdleTyping DEF MarkUpdated, TypeOK
<1> QED
  BY <1>1, <1>2

LEMMA RefreshTyping ==
  ASSUME TypeOK, NEW a \in App,
         RefreshUpdate(a) \/ RefreshUpdated(a) \/ RefreshDelete(a)
  PROVE  TypeOK'
<1> USE ConstantsAssumption
<1>0. /\ a[1] \in Participant
      /\ CacheOf(a) \in CacheRef
      /\ thread[a] \in ThreadState
      /\ thread[a].todo \in SUBSET Item
      /\ thread[a].cache \in CacheIndex
      /\ thread[a].n \in 0 .. MaxInstance
  BY ThreadTyping
<1>1. CASE RefreshUpdate(a)
  <2> DEFINE k == CacheOf(a)
  <2>1. PICK f \in toUpdate[k] :
          /\ Overwrite(k, f) \/ Instantiate(k, f)
          /\ toUpdate' = [toUpdate EXCEPT ![k] = @ \ {f}]
    BY <1>1 DEF RefreshUpdate
  <2>2. f \in Frame /\ f.id \in GUID /\ f.version \in Version
    BY <1>0 DEF TypeOK, Frame
  <2>3. heap' \in [Item -> Shareable] /\ local' \in [CacheRef -> SUBSET Item]
    <3>1. CASE Overwrite(k, f)
      <4>1. \A x \in Item : [heap[x] EXCEPT !.version = f.version] \in Shareable
        BY <2>2, HeapTyping DEF Shareable
      <4> QED
        BY <3>1, <4>1 DEF Overwrite, TypeOK
    <3>2. CASE Instantiate(k, f) /\ k[1] \in Subscriber
      <4>1. PICK x \in NextFresh(k[1]) :
              /\ heap' = [heap EXCEPT ![x] = [id |-> f.id, created |-> FALSE,
                                              version |-> f.version]]
              /\ local' = [local EXCEPT ![k] = @ \cup {x}]
        BY <3>2 DEF Instantiate, Replica
      <4>2. x \in Item
        BY DEF NextFresh, Fresh
      <4>3. [id |-> f.id, created |-> FALSE, version |-> f.version] \in Shareable
        BY <2>2 DEF Shareable
      <4> QED
        BY <1>0, <4>1, <4>2, <4>3 DEF TypeOK
    <3>3. CASE Instantiate(k, f) /\ k[1] \notin Subscriber
      BY <3>3 DEF Instantiate, Replica, TypeOK
    <3> QED
      BY <2>1, <3>1, <3>2, <3>3
  <2> QED
    BY <1>0, <1>1, <2>1, <2>3 DEF RefreshUpdate, TypeOK
<1>2. CASE RefreshUpdated(a)
  BY <1>0, <1>2 DEF RefreshUpdated, ThreadState, PC, TypeOK
<1>3. CASE RefreshDelete(a)
  BY <1>0, <1>3, IdleTyping DEF RefreshDelete, TypeOK
<1> QED
  BY <1>1, <1>2, <1>3

LEMMA NetworkTyping ==
  ASSUME TypeOK, NEW ch \in Channel, Receive(ch) \/ NetworkFault(ch)
  PROVE  TypeOK'
<1>0. /\ net[ch] \in Seq(Frame)
      /\ ch[2] \in Participant
  BY DEF TypeOK, Channel
<1>1. CASE DataUpdate(ch)
  <2>1. Head(net[ch]) \in Frame /\ Tail(net[ch]) \in Seq(Frame)
    BY <1>1, FrameTyping DEF DataUpdate, Arrived
  <2> QED
    BY <1>1, <2>1 DEF DataUpdate, Arrived, TypeOK
<1>2. CASE DataDelete(ch)
  <2>1. Head(net[ch]).id \in GUID /\ Tail(net[ch]) \in Seq(Frame)
    BY <1>2, FrameTyping DEF DataDelete, Arrived
  <2> QED
    BY <1>2, <2>1 DEF DataDelete, Arrived, TypeOK
<1>3. CASE NetworkFault(ch)
  <2>1. Head(net[ch]) \in Frame /\ Tail(net[ch]) \in Seq(Frame)
    BY <1>3, FrameTyping DEF NetworkFault
  <2>2. /\ Append(net[ch], Head(net[ch])) \in Seq(Frame)
        /\ Append(Tail(net[ch]), Head(net[ch])) \in Seq(Frame)
    BY <1>0, <2>1
  <2>3. net' \in [Channel -> Seq(Frame)]
    BY <1>3, <2>1, <2>2 DEF NetworkFault, TypeOK
  <2> QED
    BY <1>3, <2>3 DEF NetworkFault, TypeOK
<1> QED
  BY <1>1, <1>2, <1>3 DEF Receive

LEMMA TypeStep ==
  ASSUME TypeOK, [Next]_vars
  PROVE  TypeOK'
<1>1. ASSUME NEW a \in App, Proceed(a) \/ PublishFails(a)
      PROVE  TypeOK'
  BY <1>1, CreateTyping, PublishTyping, RefreshTyping DEF Proceed
<1>2. ASSUME NEW a \in App, NEW c \in CacheIndex, Call(a, c)
      PROVE  TypeOK'
  BY <1>2, CallTyping
<1>3. ASSUME NEW ch \in Channel, Receive(ch) \/ NetworkFault(ch)
      PROVE  TypeOK'
  BY <1>3, NetworkTyping
<1>4. CASE UNCHANGED vars
  BY <1>4 DEF vars, TypeOK
<1> QED
  BY <1>1, <1>2, <1>3, <1>4 DEF Next

(***************************************************************************)
(* Every step of every handler preserves the types of the nine variables.  *)
(***************************************************************************)
THEOREM TypeCorrect == Spec => []TypeOK
BY InitTypeOK, TypeStep, PTL DEF Spec

-----------------------------------------------------------------------------
(***************************************************************************)
(* What the network steps do to the frames of a channel.                   *)
(***************************************************************************)
LEMMA SendFrames ==
  ASSUME TypeOK, NEW p \in Participant, NEW f \in Frame, Send(p, f),
         NEW ch \in Channel
  PROVE  FramesIn(ch)' \subseteq FramesIn(ch) \cup {f}
<1>1. net[ch] \in Seq(Frame)
  BY DEF TypeOK
<1>2. net'[ch] = Append(net[ch], f) \/ net'[ch] = net[ch]
  BY DEF Send
<1> QED
  BY <1>1, <1>2 DEF FramesIn

LEMMA HeadFrame ==
  ASSUME TypeOK, NEW ch \in Channel, net[ch] # <<>>
  PROVE  Head(net[ch]) \in FramesIn(ch)
<1>1. net[ch] \in Seq(Frame) /\ 1 \in 1 .. Len(net[ch])
  BY DEF TypeOK
<1> QED
  BY <1>1 DEF FramesIn

LEMMA ArrivedFrames ==
  ASSUME TypeOK, NEW ch \in Channel, Arrived(ch), NEW d \in Channel
  PROVE  FramesIn(d)' \subseteq FramesIn(d)
<1>1. net[ch] \in Seq(Frame) /\ net[d] \in Seq(Frame)
  BY DEF TypeOK
<1>2. net'[d] = IF d = ch THEN Tail(net[ch]) ELSE net[d]
  BY DEF Arrived, TypeOK
<1>3. CASE d = ch
  <2>1. /\ net[ch] # <<>>
        /\ Len(Tail(net[ch])) = Len(net[ch]) - 1
        /\ \A i \in 1 .. Len(Tail(net[ch])) : Tail(net[ch])[i] = net[ch][i + 1]
    BY <1>1 DEF Arrived
  <2> QED
    BY <1>1, <1>2, <1>3, <2>1 DEF FramesIn
<1>4. CASE d # ch
  BY <1>2, <1>4 DEF FramesIn
<1> QED
  BY <1>3, <1>4

LEMMA FaultFrames ==
  ASSUME TypeOK, NEW ch \in Channel, NetworkFault(ch), NEW d \in Channel
  PROVE  FramesIn(d)' \subseteq FramesIn(d)
<1>1. net[ch] \in Seq(Frame) /\ net[d] \in Seq(Frame) /\ net[ch] # <<>>
  BY DEF TypeOK, NetworkFault
<1>2. CASE d # ch
  <2>1. net'[d] = net[d]
    BY <1>2 DEF NetworkFault, TypeOK
  <2> QED
    BY <2>1 DEF FramesIn
<1>3. CASE d = ch
  <2> DEFINE s == net[ch]
  <2>1. /\ Tail(s) \in Seq(Frame)
        /\ Len(Tail(s)) = Len(s) - 1
        /\ \A i \in 1 .. Len(Tail(s)) : Tail(s)[i] = s[i + 1]
        /\ Head(s) = s[1]
        /\ Head(s) \in Frame
    BY <1>1
  <2>2. \A i \in 1 .. Len(Tail(s)) : Tail(s)[i] \in FramesIn(ch)
    BY <1>1, <2>1 DEF FramesIn
  <2>3. s[1] \in FramesIn(ch)
    BY <1>1 DEF FramesIn
  <2>4. CASE net'[ch] = Tail(s)
    BY <1>3, <2>2, <2>4 DEF FramesIn
  <2>5. CASE net'[ch] = Append(s, Head(s))
    BY <1>1, <1>3, <2>1, <2>3, <2>5 DEF FramesIn
  <2>6. CASE net'[ch] = Append(Tail(s), Head(s))
    <3>1. \A i \in 1 .. Len(net'[ch]) : net'[ch][i] \in FramesIn(ch)
      <4> SUFFICES ASSUME NEW i \in 1 .. Len(net'[ch])
                   PROVE  net'[ch][i] \in FramesIn(ch)
        OBVIOUS
      <4>1. i \in 1 .. Len(Tail(s)) \/ i = Len(Tail(s)) + 1
        BY <2>1, <2>6
      <4>2. CASE i \in 1 .. Len(Tail(s))
        BY <2>1, <2>2, <2>6, <4>2
      <4>3. CASE i = Len(Tail(s)) + 1
        BY <2>1, <2>3, <2>6, <4>3
      <4> QED
        BY <4>1, <4>2, <4>3
    <3> QED
      BY <1>3, <3>1 DEF FramesIn
  <2> QED
    BY <2>4, <2>5, <2>6 DEF NetworkFault, TypeOK
<1> QED
  BY <1>2, <1>3

(***************************************************************************)
(* An identity once given never changes: objects that are shared keep      *)
(* their GUID, and what was created stays so.                              *)
(***************************************************************************)
IdentityKept ==
  \A x \in Item : IsShared(x) => /\ heap'[x].id = heap[x].id
                                 /\ heap'[x].created = heap[x].created

LEMMA StepKeepsIdentity ==
  ASSUME TypeOK, [Next]_vars
  PROVE  IdentityKept
<1>1. CASE heap' = heap
  BY <1>1 DEF IdentityKept
<1>2. ASSUME NEW a \in App, CreatePut(a)
      PROVE  IdentityKept
  BY <1>2 DEF CreatePut, IdentityKept, NextFresh, Fresh, TypeOK
<1>3. ASSUME NEW a \in App, NEW c \in CacheIndex, NEW x \in Item,
             UpdateCheck(a, c, x)
      PROVE  IdentityKept
  <2>1. heap' = [heap EXCEPT ![x].version = @ + 1]
    BY <1>3 DEF UpdateCheck
  <2> QED
    BY <2>1 DEF IdentityKept, TypeOK, Shareable
<1>4. ASSUME NEW a \in App, RefreshUpdate(a)
      PROVE  IdentityKept
  <2>1. PICK f \in toUpdate[CacheOf(a)] :
          Overwrite(CacheOf(a), f) \/ Instantiate(CacheOf(a), f)
    BY <1>4 DEF RefreshUpdate
  <2>2. CASE Overwrite(CacheOf(a), f)
    BY <2>2 DEF Overwrite, IdentityKept, TypeOK, Shareable
  <2>3. CASE Instantiate(CacheOf(a), f)
    BY <2>3 DEF Instantiate, Replica, IdentityKept, NextFresh, Fresh, TypeOK
  <2> QED
    BY <2>1, <2>2, <2>3
<1>5. \A a \in App : Proceed(a) \/ PublishFails(a) =>
        heap' = heap \/ CreatePut(a) \/ RefreshUpdate(a)
  BY DEF Proceed, PublishFails, MarkUpdated, PushCreateOrUpdateItem,
         PublishUpdated, PublishDeletedBegin, PushDeleteItem, PublishDeleted,
         RefreshUpdated, RefreshDelete
<1>6. \A a \in App, c \in CacheIndex : Call(a, c) =>
        heap' = heap \/ \E x \in Item : UpdateCheck(a, c, x)
  BY DEF Call, CreateRead, DeleteItem, PublishBegin, RefreshBegin
<1>7. \A ch \in Channel : Receive(ch) \/ NetworkFault(ch) => heap' = heap
  BY DEF Receive, DataUpdate, DataDelete, NetworkFault
<1> QED
  BY <1>1, <1>2, <1>3, <1>4, <1>5, <1>6, <1>7 DEF Next, vars

LEMMA OriginIsKept ==
  ASSUME TypeOK, CreatedAreShared, IdentityKept, NEW id, Origin(id) # {}
  PROVE  Origin(id)' # {}
  BY DEF Origin, CreatedAreShared, IdentityKept

LEMMA SameHeap ==
  ASSUME heap' = heap
  PROVE  /\ \A id : Origin(id)' = Origin(id)
         /\ \A x : IsShared(x)' = IsShared(x)
  BY DEF Origin, IsShared

(***************************************************************************)
(* ProvenanceInv is preserved, group of actions by group of actions.       *)
(***************************************************************************)
LEMMA ProvenanceCall ==
  ASSUME TypeOK, TypeOK', ProvenanceInv, NEW a \in App, NEW c \in CacheIndex,
         Call(a, c)
  PROVE  ProvenanceInv'
<1> USE DEF ProvenanceInv
<1>0. a[1] \in Participant /\ <<a[1], c>> \in CacheRef
  BY DEF App, CacheRef
<1>1. CASE CreateRead(a, c)
  <2>1. heap' = heap /\ nextInstance[<<a[1], c>>] > 0
    BY <1>0, <1>1 DEF CreateRead, TypeOK
  <2>2. Provenance' /\ CreatedAreShared'
    BY <1>1, <2>1, SameHeap
       DEF CreateRead, Provenance, CreatedAreShared, FramesIn
  <2>3. HeldAreShared' /\ CreatingIsNumbered'
    BY <1>1, <2>1, SameHeap
       DEF CreateRead, HeldAreShared, CreatingIsNumbered, TypeOK
  <2> QED
    BY <2>2, <2>3
<1>2. ASSUME NEW x \in Item, UpdateCheck(a, c, x)
      PROVE  ProvenanceInv'
  <2>1. \A y \in Item : /\ heap'[y].id = heap[y].id
                        /\ heap'[y].created = heap[y].created
    BY <1>2 DEF UpdateCheck, TypeOK, Shareable
  <2>2. /\ \A id : Origin(id)' = Origin(id)
        /\ \A y \in Item : IsShared(y)' = IsShared(y)
    BY <2>1 DEF Origin, IsShared
  <2>3. Provenance' /\ CreatedAreShared'
    <3>1. UNCHANGED <<toUpdate, toDelete, net>>
      BY <1>2 DEF UpdateCheck
    <3> QED
      BY <2>1, <2>2, <3>1 DEF Provenance, CreatedAreShared, FramesIn
  <2>4. IsShared(x)
    BY <1>2 DEF UpdateCheck, Updatable
  <2>5. /\ thread' = [thread EXCEPT ![a] = [pc |-> "marking", cache |-> c,
                                           todo |-> {x}, n |-> 0]]
        /\ UNCHANGED <<local, updated, deleted>>
    BY <1>2 DEF UpdateCheck
  <2>6. HeldAreShared'
    <3>1. \A b \in App : \A y \in thread'[b].todo :
            y = x \/ y \in thread[b].todo
      BY <2>5 DEF TypeOK
    <3>2. \A k \in CacheRef : /\ updated'[k] = updated[k] /\ updated[k] \subseteq Item
                              /\ deleted'[k] = deleted[k] /\ deleted[k] \subseteq Item
                             /\ local'[k] = local[k] /\ local[k] \subseteq Item
      BY <2>5 DEF TypeOK
    <3>3. \A b \in App : thread[b].todo \subseteq Item
      BY ThreadTyping
    <3> QED
      BY <2>2, <2>4, <3>1, <3>2, <3>3 DEF HeldAreShared
  <2>7. CreatingIsNumbered'
    BY <2>5 DEF CreatingIsNumbered, TypeOK
  <2> QED
    BY <2>3, <2>6, <2>7
<1>3. ASSUME NEW x \in Item, DeleteItem(a, c, x)
      PROVE  ProvenanceInv'
  <2>1. PICK y \in local[<<a[1], c>>] : heap[y].id = heap[x].id
    BY <1>3 DEF DeleteItem, HasKey, Lookup
  <2>2. heap' = heap /\ IsShared(x)
    BY <1>0, <1>3, <2>1 DEF DeleteItem, HeldAreShared, IsShared
  <2>3. Provenance' /\ CreatedAreShared' /\ CreatingIsNumbered'
    BY <1>3, <2>2, SameHeap
       DEF DeleteItem, Provenance, CreatedAreShared, FramesIn, CreatingIsNumbered
  <2>4. HeldAreShared'
    BY <1>3, <2>2, SameHeap DEF DeleteItem, HeldAreShared, TypeOK
  <2> QED
    BY <2>3, <2>4
<1>4. CASE PublishBegin(a, c)
  <2>1. heap' = heap
    BY <1>4 DEF PublishBegin
  <2>2. Provenance' /\ CreatedAreShared'
    BY <1>4, <2>1, SameHeap
       DEF PublishBegin, Provenance, CreatedAreShared, FramesIn
  <2>3. HeldAreShared' /\ CreatingIsNumbered'
    BY <1>0, <1>4, <2>1, SameHeap
       DEF PublishBegin, HeldAreShared, CreatingIsNumbered, TypeOK
  <2> QED
    BY <2>2, <2>3
<1>5. CASE RefreshBegin(a, c)
  <2>1. heap' = heap
    BY <1>5 DEF RefreshBegin
  <2>2. Provenance' /\ CreatedAreShared'
    BY <1>5, <2>1, SameHeap
       DEF RefreshBegin, Provenance, CreatedAreShared, FramesIn
  <2>3. HeldAreShared' /\ CreatingIsNumbered'
    BY <1>5, <2>1, SameHeap
       DEF RefreshBegin, HeldAreShared, CreatingIsNumbered, TypeOK
  <2> QED
    BY <2>2, <2>3
<1> QED
  BY <1>1, <1>2, <1>3, <1>4, <1>5 DEF Call

LEMMA ProvenancePublish ==
  ASSUME TypeOK, TypeOK', ProvenanceInv, NEW a \in App,
         \/ MarkUpdated(a)
         \/ PushCreateOrUpdateItem(a)
         \/ PublishUpdated(a)
         \/ PublishDeletedBegin(a)
         \/ PushDeleteItem(a)
         \/ PublishDeleted(a)
         \/ PublishFails(a)
         \/ RefreshUpdated(a)
  PROVE  ProvenanceInv'
<1> USE DEF ProvenanceInv
<1>0. /\ a[1] \in Participant
      /\ CacheOf(a) \in CacheRef
      /\ thread[a] \in ThreadState
      /\ thread[a].todo \in SUBSET Item
  BY ThreadTyping
<1>1. /\ heap' = heap
      /\ local' = local /\ toUpdate' = toUpdate /\ toDelete' = toDelete
  BY DEF MarkUpdated, PushCreateOrUpdateItem, PublishUpdated,
         PublishDeletedBegin, PushDeleteItem, PublishDeleted, PublishFails,
         RefreshUpdated
<1>2. CreatedAreShared'
  BY <1>1, SameHeap DEF CreatedAreShared
<1>3. Idle.pc = "idle" /\ Idle.todo = {}
  BY DEF Idle
<1>4. HeldAreShared' /\ CreatingIsNumbered'
  <2>1. \A b \in App : b # a => thread'[b] = thread[b]
    BY DEF MarkUpdated, PushCreateOrUpdateItem, PublishUpdated,
           PublishDeletedBegin, PushDeleteItem, PublishDeleted, PublishFails,
           RefreshUpdated, TypeOK
  <2>2. /\ thread'[a].pc # "creating"
        /\ thread'[a].todo \subseteq thread[a].todo \cup deleted[CacheOf(a)]
    <3>1. CASE thread' = [thread EXCEPT ![a] = Idle]
      BY <1>3, <3>1 DEF TypeOK
    <3>2. CASE PushCreateOrUpdateItem(a) \/ PushDeleteItem(a)
      <4>1. PICK x : thread' = [thread EXCEPT ![a].todo = @ \ {x}]
        BY <3>2 DEF PushCreateOrUpdateItem, PushDeleteItem
      <4>2. /\ thread'[a].pc = thread[a].pc
            /\ thread'[a].todo = thread[a].todo \ {x}
        BY <1>0, <4>1 DEF TypeOK, ThreadState
      <4>3. thread[a].pc # "creating"
        BY <3>2 DEF PushCreateOrUpdateItem, PushDeleteItem
      <4> QED
        BY <4>2, <4>3
    <3>3. CASE PublishUpdated(a) \/ RefreshUpdated(a)
      <4>1. PICK v \in {"published", "removing"} :
              thread' = [thread EXCEPT ![a].pc = v]
        BY <3>3 DEF PublishUpdated, RefreshUpdated
      <4> QED
        BY <1>0, <4>1 DEF TypeOK, ThreadState
    <3>4. CASE PublishDeletedBegin(a)
      BY <1>0, <3>4 DEF PublishDeletedBegin, TypeOK, ThreadState
    <3> QED
      BY <3>1, <3>2, <3>3, <3>4 DEF MarkUpdated, PublishDeleted, PublishFails
  <2>3. \A k \in CacheRef :
          /\ updated'[k] \subseteq updated[k] \cup thread[a].todo
          /\ deleted'[k] \subseteq deleted[k]
    BY DEF MarkUpdated, PushCreateOrUpdateItem, PublishUpdated,
           PublishDeletedBegin, PushDeleteItem, PublishDeleted, PublishFails,
           RefreshUpdated, TypeOK
  <2>4. \A x \in thread[a].todo \cup deleted[CacheOf(a)] : IsShared(x)
    BY <1>0 DEF HeldAreShared
  <2>5. HeldAreShared'
    BY <1>1, <2>1, <2>2, <2>3, <2>4, SameHeap DEF HeldAreShared
  <2>6. CreatingIsNumbered'
    BY <2>1, <2>2 DEF CreatingIsNumbered
  <2> QED
    BY <2>5, <2>6
<1>5. ASSUME NEW ch \in Channel, NEW g \in FramesIn(ch)'
      PROVE  Origin(g.id) # {}
  <2>1. CASE net' = net
    BY <1>5, <2>1 DEF FramesIn, Provenance
  <2>2. ASSUME NEW x \in thread[a].todo, NEW f \in Frame, f.id = heap[x].id,
               Send(a[1], f)
        PROVE  Origin(g.id) # {}
    <3>1. g \in FramesIn(ch) \/ g = f
      BY <1>0, <1>5, <2>2, SendFrames
    <3>2. Origin(heap[x].id) # {}
      BY <1>0 DEF HeldAreShared, Provenance
    <3> QED
      BY <2>2, <3>1, <3>2 DEF Provenance
  <2>3. CASE PushCreateOrUpdateItem(a)
    <3>1. PICK x \in thread[a].todo :
            Send(a[1], [type |-> "CREATE_OR_UPDATE", id |-> heap[x].id,
                        version |-> heap[x].version])
      BY <2>3 DEF PushCreateOrUpdateItem
    <3>2. [type |-> "CREATE_OR_UPDATE", id |-> heap[x].id,
           version |-> heap[x].version] \in Frame
      BY <1>0, HeapTyping DEF Frame
    <3> QED
      BY <2>2, <3>1, <3>2
  <2>4. CASE PushDeleteItem(a)
    <3>1. PICK x \in thread[a].todo :
            Send(a[1], [type |-> "DELETE", id |-> heap[x].id, version |-> 0])
      BY <2>4 DEF PushDeleteItem
    <3>2. [type |-> "DELETE", id |-> heap[x].id, version |-> 0] \in Frame
      BY <1>0, HeapTyping, ConstantsAssumption DEF Frame, Version
    <3> QED
      BY <2>2, <3>1, <3>2
  <2> QED
    BY <2>1, <2>3, <2>4
       DEF MarkUpdated, PublishUpdated, PublishDeletedBegin, PublishDeleted,
           PublishFails, RefreshUpdated
<1>6. Provenance'
  BY <1>1, <1>5, SameHeap DEF Provenance
<1> QED
  BY <1>2, <1>4, <1>6

(* A step that gives object x, until then fresh, the identity id. *)
LEMMA ProvenanceGrows ==
  ASSUME TypeOK, TypeOK', ProvenanceInv, IdentityKept,
         NEW x \in Item, ~ IsShared(x),
         heap'[x].id[2] > 0,
         \E o \in Item : heap'[o].created /\ heap'[o].id = heap'[x].id,
         \A y \in Item \ {x} : heap'[y].id = heap[y].id
                             /\ heap'[y].created = heap[y].created,
         UNCHANGED <<updated, deleted, toDelete, net>>,
         \A k \in CacheRef : /\ toUpdate'[k] \subseteq toUpdate[k]
                             /\ local'[k] \subseteq local[k] \cup {x},
         \A a \in App : /\ thread'[a].todo \subseteq thread[a].todo \cup {x}
                        /\ thread'[a].pc = "creating" => thread'[a] = thread[a]
  PROVE  ProvenanceInv'
<1> USE DEF ProvenanceInv
<1>1. \A id : Origin(id) # {} => Origin(id)' # {}
  BY OriginIsKept
<1>2. /\ \A y \in Item : IsShared(y) => IsShared(y)'
      /\ \A y \in Item \ {x} : IsShared(y)' => IsShared(y)
      /\ IsShared(x)'
  BY DEF IsShared
<1>3. CreatedAreShared'
  BY <1>2 DEF CreatedAreShared
<1>4. HeldAreShared'
  <2>1. \A k \in CacheRef : /\ updated[k] \subseteq Item
                            /\ deleted[k] \subseteq Item
                           /\ local[k] \subseteq Item
    BY DEF TypeOK
  <2>2. \A a \in App : thread[a].todo \subseteq Item
    BY ThreadTyping
  <2> QED
    BY <1>2, <2>1, <2>2 DEF HeldAreShared
<1>5. CreatingIsNumbered'
  BY DEF CreatingIsNumbered
<1>6. Provenance'
  <2>1. ASSUME NEW y \in Item, IsShared(y)'
        PROVE  \E o \in Item : heap'[o].created /\ heap'[o].id = heap'[y].id
    <3>1. CASE y = x
      BY <3>1
    <3>2. CASE y # x
      <4>1. IsShared(y) /\ heap'[y].id = heap[y].id
        BY <1>2, <2>1, <3>2
      <4>2. PICK o \in Item : heap[o].created /\ heap[o].id = heap[y].id
        BY <4>1 DEF Provenance, Origin
      <4>3. IsShared(o)
        BY <4>2 DEF CreatedAreShared
      <4> QED
        BY <4>1, <4>2, <4>3 DEF IdentityKept
    <3> QED
      BY <3>1, <3>2
  <2>2. \A ch \in Channel : \A f \in FramesIn(ch)' : Origin(f.id)' # {}
    BY <1>1 DEF Provenance, FramesIn
  <2>3. \A k \in CacheRef :
          /\ \A f \in toUpdate'[k] : Origin(f.id)' # {}
          /\ \A id \in toDelete'[k] : Origin(id)' # {}
    BY <1>1 DEF Provenance
  <2> QED
    BY <2>1, <2>2, <2>3 DEF Provenance, Origin
<1> QED
  BY <1>3, <1>4, <1>5, <1>6

LEMMA ProvenanceCreatePut ==
  ASSUME TypeOK, TypeOK', ProvenanceInv, IdentityKept,
         NEW a \in App, CreatePut(a)
  PROVE  ProvenanceInv'
<1> DEFINE k == CacheOf(a)
           id == <<a[1], thread[a].n>>
<1>0. k \in CacheRef /\ thread[a] \in ThreadState
  BY ThreadTyping
<1>1. PICK x \in NextFresh(a[1]) :
        /\ heap' = [heap EXCEPT ![x] = [id |-> id, version |-> 1,
                                        created |-> TRUE]]
        /\ local' = [local EXCEPT ![k] = (@ \ Lookup(k, id)) \cup {x}]
        /\ thread' = [thread EXCEPT ![a].pc = "marking", ![a].todo = {x}]
  BY DEF CreatePut, NextNumber
<1>2. x \in Item /\ ~ IsShared(x)
  BY DEF NextFresh, Fresh
<1>3. /\ heap'[x] = [id |-> id, version |-> 1, created |-> TRUE]
      /\ \A y \in Item \ {x} : heap'[y] = heap[y]
  BY <1>1, <1>2 DEF TypeOK
<1>4. thread[a].n > 0
  BY DEF CreatePut, ProvenanceInv, CreatingIsNumbered
<1>5. heap'[x].id[2] > 0
  BY <1>3, <1>4
<1>6. \E o \in Item : heap'[o].created /\ heap'[o].id = heap'[x].id
  BY <1>2, <1>3
<1>7. \A j \in CacheRef : local'[j] \subseteq local[j] \cup {x}
  BY <1>0, <1>1 DEF TypeOK
<1>8. \A b \in App : /\ thread'[b].todo \subseteq thread[b].todo \cup {x}
                     /\ thread'[b].pc = "creating" => thread'[b] = thread[b]
  BY <1>0, <1>1 DEF TypeOK, ThreadState
<1>9. UNCHANGED <<updated, deleted, toUpdate, toDelete, net>>
  BY DEF CreatePut, NextNumber
<1>10. \A j \in CacheRef : /\ toUpdate'[j] \subseteq toUpdate[j]
                           /\ local'[j] \subseteq local[j] \cup {x}
  BY <1>7, <1>9
<1>11. \A y \in Item \ {x} : /\ heap'[y].id = heap[y].id
                             /\ heap'[y].created = heap[y].created
  BY <1>3
<1>12. UNCHANGED <<updated, deleted, toDelete, net>>
  BY <1>9
<1> HIDE DEF k, id
<1> QED
  BY <1>2, <1>5, <1>6, <1>8, <1>10, <1>11, <1>12, ProvenanceGrows

LEMMA ProvenanceRefreshUpdate ==
  ASSUME TypeOK, TypeOK', ProvenanceInv, IdentityKept,
         NEW a \in App, RefreshUpdate(a)
  PROVE  ProvenanceInv'
<1> DEFINE k == CacheOf(a)
<1>0. k \in CacheRef
  BY ThreadTyping
<1>1. PICK f \in toUpdate[k] :
        /\ Overwrite(k, f) \/ Instantiate(k, f)
        /\ toUpdate' = [toUpdate EXCEPT ![k] = @ \ {f}]
  BY DEF RefreshUpdate
<1>2. UNCHANGED <<updated, deleted, toDelete, thread, net>>
  BY DEF RefreshUpdate
<1>3. \A j \in CacheRef : toUpdate'[j] \subseteq toUpdate[j]
  BY <1>0, <1>1 DEF TypeOK
<1>4. Origin(f.id) # {} /\ f.id \in GUID
  BY <1>0, <1>1 DEF ProvenanceInv, Provenance, TypeOK, Frame
<1>5. f.id[2] > 0
  <2>1. PICK o \in Item : heap[o].created /\ heap[o].id = f.id
    BY <1>4 DEF Origin
  <2> QED
    BY <2>1 DEF ProvenanceInv, CreatedAreShared, IsShared
<1>6. CASE Instantiate(k, f) /\ k[1] \in Subscriber
  <2>1. PICK x \in NextFresh(k[1]) :
          /\ heap' = [heap EXCEPT ![x] = [id |-> f.id, created |-> FALSE,
                                          version |-> f.version]]
          /\ local' = [local EXCEPT ![k] = @ \cup {x}]
    BY <1>6 DEF Instantiate, Replica
  <2>2. x \in Item /\ ~ IsShared(x)
    BY DEF NextFresh, Fresh
  <2>3. heap'[x].id = f.id /\ \A y \in Item \ {x} : heap'[y] = heap[y]
    BY <2>1, <2>2 DEF TypeOK
  <2>4. \A j \in CacheRef : local'[j] \subseteq local[j] \cup {x}
    BY <1>0, <2>1 DEF TypeOK
  <2>5. \E o \in Item : heap'[o].created /\ heap'[o].id = heap'[x].id
    <3>1. Origin(f.id)' # {}
      BY <1>4, OriginIsKept DEF ProvenanceInv
    <3> QED
      BY <2>3, <3>1 DEF Origin
  <2>6. \A j \in CacheRef : /\ toUpdate'[j] \subseteq toUpdate[j]
                            /\ local'[j] \subseteq local[j] \cup {x}
    BY <1>3, <2>4
  <2>7. \A y \in Item \ {x} : /\ heap'[y].id = heap[y].id
                              /\ heap'[y].created = heap[y].created
    BY <2>3
  <2>8. heap'[x].id[2] > 0
    BY <1>5, <2>3
  <2>9. \A b \in App : /\ thread'[b].todo \subseteq thread[b].todo \cup {x}
                       /\ thread'[b].pc = "creating" => thread'[b] = thread[b]
    BY <1>2
  <2> QED
    BY <1>2, <2>2, <2>5, <2>6, <2>7, <2>8, <2>9, ProvenanceGrows
<1>7. CASE ~ (Instantiate(k, f) /\ k[1] \in Subscriber)
  <2>1. /\ local' = local
        /\ \A y \in Item : heap'[y].id = heap[y].id
                        /\ heap'[y].created = heap[y].created
    <3>1. CASE Overwrite(k, f)
      BY <3>1 DEF Overwrite, TypeOK, Shareable
    <3>2. CASE Instantiate(k, f)
      BY <1>7, <3>2 DEF Instantiate, Replica
    <3> QED
      BY <1>1, <3>1, <3>2
  <2>2. /\ \A id : Origin(id)' = Origin(id)
        /\ \A y \in Item : IsShared(y)' = IsShared(y)
    BY <2>1 DEF Origin, IsShared
  <2>3. CreatedAreShared' /\ CreatingIsNumbered'
    BY <1>2, <2>1, <2>2 DEF ProvenanceInv, CreatedAreShared, CreatingIsNumbered
  <2>4. HeldAreShared'
    <3>1. \A j \in CacheRef : /\ updated[j] \subseteq Item
                              /\ deleted[j] \subseteq Item
                             /\ local[j] \subseteq Item
      BY DEF TypeOK
    <3>2. \A b \in App : thread[b].todo \subseteq Item
      BY ThreadTyping
    <3> QED
      BY <1>2, <2>1, <2>2, <3>1, <3>2 DEF ProvenanceInv, HeldAreShared
  <2>5. Provenance'
    BY <1>2, <1>3, <2>1, <2>2 DEF ProvenanceInv, Provenance, FramesIn
  <2> QED
    BY <2>3, <2>4, <2>5 DEF ProvenanceInv
<1> QED
  BY <1>6, <1>7

(* The steps that change no object and give no thread anything to publish. *)
LEMMA ProvenanceNetwork ==
  ASSUME TypeOK, TypeOK', ProvenanceInv, NEW ch \in Channel,
         Receive(ch) \/ NetworkFault(ch)
  PROVE  ProvenanceInv'
<1>1. UNCHANGED <<heap, local, updated, deleted, thread>>
  BY DEF Receive, DataUpdate, DataDelete, NetworkFault
<1>2. CreatedAreShared' /\ HeldAreShared' /\ CreatingIsNumbered'
  BY <1>1, SameHeap
     DEF ProvenanceInv, CreatedAreShared, HeldAreShared, CreatingIsNumbered
<1>3. \A d \in Channel : FramesIn(d)' \subseteq FramesIn(d)
  BY ArrivedFrames, FaultFrames DEF Receive, DataUpdate, DataDelete
<1>4. \A k \in CacheRef : /\ \A f \in toUpdate'[k] : Origin(f.id) # {}
                          /\ \A id \in toDelete'[k] : Origin(id) # {}
  <2>1. CASE NetworkFault(ch)
    BY <2>1 DEF NetworkFault, ProvenanceInv, Provenance
  <2>2. ASSUME Arrived(ch)
        PROVE  Origin(Head(net[ch]).id) # {}
    BY <2>2, HeadFrame DEF Arrived, ProvenanceInv, Provenance
  <2>3. CASE DataUpdate(ch)
    <3>1. \A k \in CacheRef :
            toUpdate'[k] \subseteq toUpdate[k] \cup {Head(net[ch])}
      BY <2>3 DEF DataUpdate, TypeOK
    <3> QED
      BY <2>2, <2>3, <3>1 DEF DataUpdate, ProvenanceInv, Provenance
  <2>4. CASE DataDelete(ch)
    <3>1. \A k \in CacheRef :
            toDelete'[k] \subseteq toDelete[k] \cup {Head(net[ch]).id}
      BY <2>4 DEF DataDelete, TypeOK
    <3> QED
      BY <2>2, <2>4, <3>1 DEF DataDelete, ProvenanceInv, Provenance
  <2> QED
    BY <2>1, <2>3, <2>4 DEF Receive
<1>5. Provenance'
  BY <1>1, <1>3, <1>4, SameHeap DEF ProvenanceInv, Provenance
<1> QED
  BY <1>2, <1>5 DEF ProvenanceInv

LEMMA ProvenanceRefreshDelete ==
  ASSUME TypeOK, TypeOK', ProvenanceInv, NEW a \in App, RefreshDelete(a)
  PROVE  ProvenanceInv'
<1>0. CacheOf(a) \in CacheRef
  BY ThreadTyping
<1>1. /\ UNCHANGED <<heap, updated, deleted, toUpdate, net>>
      /\ \A k \in CacheRef : local'[k] \subseteq local[k]
      /\ \A k \in CacheRef : toDelete'[k] \subseteq toDelete[k]
      /\ \A b \in App : thread'[b] = thread[b] \/ thread'[b] = Idle
  BY <1>0 DEF RefreshDelete, TypeOK
<1>2. Idle.pc = "idle" /\ Idle.todo = {}
  BY DEF Idle
<1>3. CreatedAreShared' /\ HeldAreShared' /\ CreatingIsNumbered'
  BY <1>1, <1>2, SameHeap
     DEF ProvenanceInv, CreatedAreShared, HeldAreShared, CreatingIsNumbered
<1>4. Provenance'
  BY <1>1, SameHeap DEF ProvenanceInv, Provenance, FramesIn
<1> QED
  BY <1>3, <1>4 DEF ProvenanceInv

LEMMA InitProvenance == Init => ProvenanceInv
<1> SUFFICES ASSUME Init PROVE ProvenanceInv
  OBVIOUS
<1>1. \A x \in Item : heap[x].id[2] = 0 /\ ~ heap[x].created
  BY DEF Init
<1>2. \A ch \in Channel : FramesIn(ch) = {}
  BY DEF Init, FramesIn
<1>3. Provenance
  BY <1>1, <1>2 DEF Init, Provenance, IsShared
<1>4. CreatedAreShared /\ HeldAreShared /\ CreatingIsNumbered
  BY <1>1 DEF Init, CreatedAreShared, HeldAreShared, CreatingIsNumbered, Idle
<1> QED
  BY <1>3, <1>4 DEF ProvenanceInv

LEMMA ProvenanceStep ==
  ASSUME TypeOK, ProvenanceInv, [Next]_vars
  PROVE  ProvenanceInv'
<1>0. TypeOK' /\ IdentityKept
  BY TypeStep, StepKeepsIdentity
<1>1. ASSUME NEW a \in App, Proceed(a) \/ PublishFails(a)
      PROVE  ProvenanceInv'
  BY <1>0, <1>1, ProvenanceCreatePut, ProvenancePublish,
     ProvenanceRefreshUpdate, ProvenanceRefreshDelete DEF Proceed
<1>2. ASSUME NEW a \in App, NEW c \in CacheIndex, Call(a, c)
      PROVE  ProvenanceInv'
  BY <1>0, <1>2, ProvenanceCall
<1>3. ASSUME NEW ch \in Channel, Receive(ch) \/ NetworkFault(ch)
      PROVE  ProvenanceInv'
  BY <1>0, <1>3, ProvenanceNetwork
<1>4. CASE UNCHANGED vars
  BY <1>4, SameHeap
     DEF vars, ProvenanceInv, Provenance, CreatedAreShared, HeldAreShared,
         CreatingIsNumbered, FramesIn
<1> QED
  BY <1>1, <1>2, <1>3, <1>4 DEF Next

(***************************************************************************)
(* Whatever the network loses, duplicates or reorders, whoever owns what   *)
(* and however the threads of a participant interleave, no cache ever      *)
(* holds, waits to hold or waits to delete an identity that no create()    *)
(* has given out.                                                          *)
(***************************************************************************)
THEOREM ProvenanceHolds == Spec => []Provenance
<1>1. ProvenanceInv => Provenance
  BY DEF ProvenanceInv
<1> QED
  BY <1>1, InitTypeOK, TypeStep, InitProvenance, ProvenanceStep, PTL DEF Spec

-----------------------------------------------------------------------------
(***************************************************************************)
(* The numbering of identities under the assumption SingleCreator.         *)
(***************************************************************************)
LEMMA NumberingFrame ==
  ASSUME NumberingInv, nextInstance' = nextInstance,
         \A x \in Item : heap'[x].created =>
            heap[x].created /\ heap'[x].id = heap[x].id,
         \A a \in App : thread'[a].pc = "creating" => thread'[a] = thread[a]
  PROVE  NumberingInv'
  BY DEF NumberingInv, GUIDsAreUnique

LEMMA NumberingCreateRead ==
  ASSUME TypeOK, NumberingInv, SingleCreator,
         NEW a \in App, NEW c \in CacheIndex, a \in Creator, CreateRead(a, c)
  PROVE  NumberingInv'
<1>1. c = 0
  BY DEF SingleCreator
<1>2. heap' = heap /\ nextInstance' = nextInstance
  BY DEF CreateRead
<1>3. \A b \in App : \/ thread'[b] = thread[b]
                     \/ b = a /\ thread'[b].n = nextInstance[<<a[1], 0>>]
  BY <1>1 DEF CreateRead, TypeOK
<1> QED
  BY <1>2, <1>3 DEF NumberingInv, GUIDsAreUnique

LEMMA NumberingCreatePut ==
  ASSUME TypeOK, NumberingInv, SingleCreator, NEW a \in App, CreatePut(a)
  PROVE  NumberingInv'
<1> DEFINE n == thread[a].n
           k == <<a[1], 0>>
<1>1. /\ a \in Creator
      /\ n = nextInstance[k]
      /\ CacheOf(a) = k
      /\ k \in CacheRef
  BY ThreadTyping DEF CreatePut, NumberingInv, SingleCreator
<1>2. n \in Nat /\ n > 0
  BY <1>1, ThreadTyping DEF TypeOK
<1>3. PICK x \in NextFresh(a[1]) :
        /\ heap' = [heap EXCEPT ![x] = [id |-> <<a[1], n>>, version |-> 1,
                                        created |-> TRUE]]
        /\ thread' = [thread EXCEPT ![a].pc = "marking", ![a].todo = {x}]
  BY DEF CreatePut, NextNumber
<1>4. x \in Item /\ x[1] = a[1]
  BY DEF NextFresh, Fresh
<1>5. /\ heap'[x].id = <<a[1], n>>
      /\ \A y \in Item \ {x} : heap'[y] = heap[y]
  BY <1>3, <1>4 DEF TypeOK
<1>6. nextInstance' = [nextInstance EXCEPT ![k] = n + 1]
  BY <1>1 DEF CreatePut, NextNumber
<1>7. /\ nextInstance'[k] = n + 1
      /\ \A j \in CacheRef \ {k} : nextInstance'[j] = nextInstance[j]
  BY <1>1, <1>6 DEF TypeOK
<1>8. \A y \in Item : heap[y].created => heap[y].id # <<a[1], n>>
  <2> SUFFICES ASSUME NEW y \in Item, heap[y].created,
                      heap[y].id = <<a[1], n>>
               PROVE  FALSE
    OBVIOUS
  <2>1. y[1] = a[1] /\ n < nextInstance[<<y[1], 0>>]
    BY DEF NumberingInv
  <2> QED
    BY <1>1, <1>2, <2>1
<1>9. GUIDsAreUnique'
  BY <1>4, <1>5, <1>8 DEF NumberingInv, GUIDsAreUnique
<1>10. ASSUME NEW y \in Item, heap'[y].created
       PROVE  /\ heap'[y].id[1] = y[1]
              /\ heap'[y].id[2] > 0
              /\ heap'[y].id[2] < nextInstance'[<<y[1], 0>>]
  <2>1. CASE y = x
    BY <1>2, <1>4, <1>5, <1>7, <2>1
  <2>2. CASE y # x
    <3>1. /\ heap'[y] = heap[y]
          /\ heap[y].id[1] = y[1]
          /\ heap[y].id[2] > 0
          /\ heap[y].id[2] < nextInstance[<<y[1], 0>>]
          /\ heap[y].id[2] \in Nat
      BY <1>5, <1>10, <2>2, HeapTyping DEF NumberingInv
    <3>2. <<y[1], 0>> \in CacheRef
      BY HeapTyping DEF CacheRef, SingleCreator
    <3>3. CASE <<y[1], 0>> = k
      BY <1>1, <1>2, <1>7, <3>1, <3>3
    <3>4. CASE <<y[1], 0>> # k
      BY <1>7, <3>1, <3>2, <3>4
    <3> QED
      BY <3>3, <3>4
  <2> QED
    BY <2>1, <2>2
<1>11. ASSUME NEW b \in App, thread'[b].pc = "creating"
       PROVE  b \in Creator /\ thread'[b].n = nextInstance'[<<b[1], 0>>]
  <2>1. thread'[a].pc = "marking"
    BY <1>3, ThreadTyping DEF TypeOK, ThreadState
  <2>2. b # a /\ thread'[b] = thread[b]
    BY <1>3, <1>11, <2>1 DEF TypeOK
  <2>3. b \in Creator /\ thread[b].n = nextInstance[<<b[1], 0>>]
    BY <1>11, <2>2 DEF NumberingInv
  <2>4. b[1] # a[1]
    BY <1>1, <2>2, <2>3 DEF SingleCreator
  <2>5. <<b[1], 0>> \in CacheRef \ {k}
    BY <2>4, ThreadTyping DEF CacheRef, SingleCreator
  <2> QED
    BY <1>7, <2>2, <2>3, <2>5
<1> QED
  BY <1>9, <1>10, <1>11 DEF NumberingInv

LEMMA NumberingOthers ==
  ASSUME TypeOK, NumberingInv, NEW a \in App,
         PublishFails(a) \/ (Proceed(a) /\ ~ CreatePut(a))
  PROVE  NumberingInv'
<1>1. nextInstance' = nextInstance
  BY DEF PublishFails, Proceed, MarkUpdated, PushCreateOrUpdateItem,
         PublishUpdated, PublishDeletedBegin, PushDeleteItem, PublishDeleted,
         RefreshUpdate, RefreshUpdated, RefreshDelete
<1>2. \A b \in App : thread'[b].pc = "creating" => thread'[b] = thread[b]
  <2>1. Idle.pc # "creating"
    BY DEF Idle
  <2>2. CASE thread' = thread \/ thread' = [thread EXCEPT ![a] = Idle]
    BY <2>1, <2>2 DEF TypeOK
  <2>3. CASE PushCreateOrUpdateItem(a) \/ PushDeleteItem(a)
    <3>1. PICK x : thread' = [thread EXCEPT ![a].todo = @ \ {x}]
      BY <2>3 DEF PushCreateOrUpdateItem, PushDeleteItem
    <3>2. thread'[a].pc = thread[a].pc
      BY <3>1, ThreadTyping DEF TypeOK, ThreadState
    <3>3. thread[a].pc # "creating"
      BY <2>3 DEF PushCreateOrUpdateItem, PushDeleteItem
    <3> QED
      BY <3>1, <3>2, <3>3 DEF TypeOK
  <2>4. CASE PublishUpdated(a) \/ PublishDeletedBegin(a) \/ RefreshUpdated(a)
    <3>1. thread'[a].pc \in {"published", "pushingDeleted", "removing"}
      BY <2>4, ThreadTyping
         DEF PublishUpdated, PublishDeletedBegin, RefreshUpdated, TypeOK,
             ThreadState
    <3>2. \A b \in App \ {a} : thread'[b] = thread[b]
      BY <2>4 DEF PublishUpdated, PublishDeletedBegin, RefreshUpdated, TypeOK
    <3> QED
      BY <3>1, <3>2
  <2> QED
    BY <2>2, <2>3, <2>4
       DEF PublishFails, Proceed, MarkUpdated, PublishDeleted, RefreshUpdate,
           RefreshDelete
<1>3. \A x \in Item : heap'[x].created =>
        heap[x].created /\ heap'[x].id = heap[x].id
  <2>1. CASE heap' = heap
    BY <2>1
  <2>2. CASE RefreshUpdate(a)
    <3>1. PICK f \in toUpdate[CacheOf(a)] :
            Overwrite(CacheOf(a), f) \/ Instantiate(CacheOf(a), f)
      BY <2>2 DEF RefreshUpdate
    <3>2. CASE Overwrite(CacheOf(a), f)
      BY <3>2 DEF Overwrite, TypeOK, Shareable
    <3>3. CASE Instantiate(CacheOf(a), f)
      <4>1. CASE heap' = heap
        BY <4>1
      <4>2. ASSUME NEW x \in Item,
                   heap' = [heap EXCEPT ![x] = [id |-> f.id, created |-> FALSE,
                                                version |-> f.version]]
            PROVE  \A y \in Item : heap'[y].created =>
                     heap[y].created /\ heap'[y].id = heap[y].id
        <5>1. heap'[x].created = FALSE
          BY <4>2 DEF TypeOK
        <5>2. \A y \in Item \ {x} : heap'[y] = heap[y]
          BY <4>2 DEF TypeOK
        <5> QED
          BY <5>1, <5>2
      <4> QED
        BY <3>3, <4>1, <4>2 DEF Instantiate, Replica, NextFresh, Fresh
    <3> QED
      BY <3>1, <3>2, <3>3
  <2> QED
    BY <2>1, <2>2
       DEF PublishFails, Proceed, MarkUpdated, PushCreateOrUpdateItem,
           PublishUpdated, PublishDeletedBegin, PushDeleteItem,
           PublishDeleted, RefreshUpdated, RefreshDelete
<1> QED
  BY <1>1, <1>2, <1>3, NumberingFrame

LEMMA NumberingCall ==
  ASSUME TypeOK, NumberingInv, NEW a \in App, NEW c \in CacheIndex,
         Call(a, c), ~ (a \in Creator /\ CreateRead(a, c))
  PROVE  NumberingInv'
<1>1. nextInstance' = nextInstance
  BY DEF Call, UpdateCheck, DeleteItem, PublishBegin, RefreshBegin
<1>2. \A x \in Item : heap'[x].created =>
        heap[x].created /\ heap'[x].id = heap[x].id
  <2>1. CASE heap' = heap
    BY <2>1
  <2>2. ASSUME NEW y \in Item, heap' = [heap EXCEPT ![y].version = @ + 1]
        PROVE  \A x \in Item : /\ heap'[x].created = heap[x].created
                               /\ heap'[x].id = heap[x].id
    BY <2>2 DEF TypeOK, Shareable
  <2> QED
    BY <2>1, <2>2 DEF Call, UpdateCheck, DeleteItem, PublishBegin, RefreshBegin
<1>3. \A b \in App : thread'[b].pc = "creating" => thread'[b] = thread[b]
  BY DEF Call, UpdateCheck, DeleteItem, PublishBegin, RefreshBegin, TypeOK
<1> QED
  BY <1>1, <1>2, <1>3, NumberingFrame

LEMMA InitNumbering == Init => NumberingInv
<1> SUFFICES ASSUME Init PROVE NumberingInv
  OBVIOUS
<1>1. \A x \in Item : ~ heap[x].created
  BY DEF Init
<1>2. \A a \in App : thread[a].pc = "idle"
  BY DEF Init, Idle
<1> QED
  BY <1>1, <1>2 DEF NumberingInv, GUIDsAreUnique

LEMMA NumberingStep ==
  ASSUME SingleCreator, TypeOK, NumberingInv, [Next]_vars
  PROVE  NumberingInv'
<1>1. ASSUME NEW a \in App, Proceed(a) \/ PublishFails(a)
      PROVE  NumberingInv'
  BY <1>1, NumberingCreatePut, NumberingOthers
<1>2. ASSUME NEW a \in App, NEW c \in CacheIndex, Call(a, c)
      PROVE  NumberingInv'
  <2>1. CASE a \in Creator /\ CreateRead(a, c)
    BY <2>1, NumberingCreateRead
  <2>2. CASE ~ (a \in Creator /\ CreateRead(a, c))
    BY <1>2, <2>2, NumberingCall
  <2> QED
    BY <2>1, <2>2
<1>3. ASSUME NEW ch \in Channel, Receive(ch) \/ NetworkFault(ch)
      PROVE  NumberingInv'
  BY <1>3, NumberingFrame
     DEF Receive, DataUpdate, DataDelete, NetworkFault
<1>4. CASE UNCHANGED vars
  BY <1>4, NumberingFrame DEF vars
<1> QED
  BY <1>1, <1>2, <1>3, <1>4 DEF Next

(***************************************************************************)
(* If each participant keeps to its default cache and creates from one     *)
(* thread, then, whatever the number of participants, the network and the  *)
(* other threads do, no two items ever created have the same GUID.  (The   *)
(* run CacheTwoCaches shows that one cache is needed; that one thread is,  *)
(* the same instance with a second Creator.)                               *)
(***************************************************************************)
THEOREM IdentityIsUnique ==
  ASSUME SingleCreator
  PROVE  Spec => []GUIDsAreUnique
<1>1. NumberingInv => GUIDsAreUnique
  BY DEF NumberingInv
<1> QED
  BY <1>1, InitTypeOK, TypeStep, InitNumbering, NumberingStep, PTL DEF Spec
=============================================================================
