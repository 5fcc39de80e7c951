----------------------------- MODULE CppProofs -----------------------------
(***************************************************************************)
(* Theorems about the caches of the C++ implementation (CppNode), for all  *)
(* participants, listeners, ownerships and bounds.                         *)
(***************************************************************************)
EXTENDS CppNode, FiniteSetTheorems, SequenceLemmas, TLAPS
LOCAL INSTANCE SequencesExt

-----------------------------------------------------------------------------
(***************************************************************************)
(* The states in which ParticipantImpl leaves _header between two frames:  *)
(* new, at the end of an update, at the end of a deletion, and rewound to  *)
(* the limit of a deletion that was not sent.  Where it has room for a     *)
(* deletion, it is at its start.                                           *)
(***************************************************************************)
HeaderStates ==
  {[position |-> 0, limit |-> HeaderSize], Spent,
   Sent(DeletionSize), Unsent(DeletionSize)}

HeadersKept == cppHeader \in [CppParticipant -> HeaderStates]

(* What CppFramesWhole needs to be inductive. *)
FramesInv == HeadersKept /\ CppFramesWhole

(* Where there is room for a deletion, the header is at its start.         *)
LEMMA RoomIsAtTheStart ==
  ASSUME NEW h \in HeaderStates, Room(h)
  PROVE  h.position = 0
BY DEF HeaderStates, Room, Spent, Sent, Unsent, HeaderSize, DeletionSize

(* So a deletion that fits is a frame of its own.                          *)
LEMMA RoomFitsADeletion ==
  ASSUME NEW h \in HeaderStates, Room(h)
  PROVE  SizeFrom(h) = DeletionSize
BY RoomIsAtTheStart DEF SizeFrom, DeletionSize

(* What publishUpdated sends is whole, in whatever order and however much. *)
LEMMA UpdatesAreWhole ==
  ASSUME CppFramesWhole, NEW p \in CppParticipant, NEW xs,
         CppMulticast(p, CppUpdates(p, xs))
  PROVE  CppFramesWhole'
BY DEF CppFramesWhole, CppMulticast, CppUpdates, CppFrame

(* And so is a deletion for which there was room. *)
LEMMA DeletionIsWhole ==
  ASSUME FramesInv, NEW p \in CppParticipant, NEW g, Room(cppHeader[p]),
         CppMulticast(p, <<CppFrame(p, "delete", g, SizeFrom(cppHeader[p]))>>)
  PROVE  CppFramesWhole'
<1>1. SizeFrom(cppHeader[p]) = DeletionSize
  BY RoomFitsADeletion DEF FramesInv, HeadersKept
<1>2. cppSent' = cppSent \cup {CppFrame(p, "delete", g, DeletionSize)}
  BY <1>1 DEF CppMulticast
<1> QED
  BY <1>2 DEF FramesInv, CppFramesWhole, CppFrame

(* A new header holds nothing and nothing has been sent.                   *)
LEMMA FramesInit == CppInit => FramesInv
BY DEF CppInit, FramesInv, HeadersKept, HeaderStates, CppFramesWhole, HeaderSize

(* Each step leaves the header in one of its states and sends whole frames. *)
LEMMA FramesStep == FramesInv /\ [CppNext]_cppVars => FramesInv'
<1> SUFFICES ASSUME FramesInv, [CppNext]_cppVars
             PROVE  FramesInv'
  OBVIOUS
<1> USE DEF FramesInv
<1>1. CASE cppHeader' = cppHeader /\ cppSent' = cppSent
  BY <1>1 DEF HeadersKept, CppFramesWhole
<1>2. ASSUME NEW p \in CppParticipant, CppPublishUpdated(p)
      PROVE  FramesInv'
  <2>1. HeadersKept'
    BY <1>2 DEF CppPublishUpdated, HeadersKept, HeaderStates
  <2>2. PICK xs : CppMulticast(p, CppUpdates(p, xs))
    BY <1>2 DEF CppPublishUpdated
  <2> QED
    BY <2>1, <2>2, UpdatesAreWhole
<1>3. ASSUME NEW p \in CppParticipant, CppPublishUpdatedFails(p)
      PROVE  FramesInv'
  <2>1. HeadersKept'
    BY <1>3 DEF CppPublishUpdatedFails, HeadersKept, HeaderStates
  <2>2. PICK xs : CppMulticast(p, CppUpdates(p, xs))
    BY <1>3 DEF CppPublishUpdatedFails
  <2> QED
    BY <2>1, <2>2, UpdatesAreWhole
<1>4. ASSUME NEW p \in CppParticipant, CppPublishDeleted(p)
      PROVE  FramesInv'
  <2>1. CASE UNCHANGED cppWire
    BY <2>1, <1>1 DEF cppWire
  <2>2. ASSUME NEW g \in cppDeleted[p],
               Room(cppHeader[p]),
               CppMulticast(p, <<CppFrame(p, "delete", g, SizeFrom(cppHeader[p]))>>),
               cppHeader' = [cppHeader EXCEPT ![p] = Sent(SizeFrom(cppHeader[p]))]
        PROVE  FramesInv'
    <3>1. cppHeader' = [cppHeader EXCEPT ![p] = Sent(DeletionSize)]
      BY <2>2, RoomFitsADeletion DEF HeadersKept
    <3>2. HeadersKept'
      BY <3>1 DEF HeadersKept, HeaderStates
    <3> QED
      BY <3>2, <2>2, DeletionIsWhole
  <2> QED
    BY <1>4, <2>1, <2>2 DEF CppPublishDeleted
<1>5. ASSUME NEW p \in CppParticipant, CppPublishDeletedFails(p)
      PROVE  FramesInv'
  <2>1. CASE UNCHANGED cppHeader
    BY <2>1, <1>5, <1>1 DEF CppPublishDeletedFails
  <2>2. ASSUME Room(cppHeader[p]),
               cppHeader' = [cppHeader EXCEPT ![p] = Unsent(SizeFrom(cppHeader[p]))]
        PROVE  FramesInv'
    <3>1. cppHeader' = [cppHeader EXCEPT ![p] = Unsent(DeletionSize)]
      BY <2>2, RoomFitsADeletion DEF HeadersKept
    <3>2. HeadersKept'
      BY <3>1 DEF HeadersKept, HeaderStates
    <3> QED
      BY <3>2, <1>5 DEF CppPublishDeletedFails, CppFramesWhole
  <2> QED
    BY <1>5, <2>1, <2>2 DEF CppPublishDeletedFails
<1>6. ASSUME NEW p \in CppParticipant,
             \/ CppCreate(p)
             \/ \E g \in CppGUID : CppUpdate(p, g) \/ CppDelete(p, g)
             \/ CppRefreshUpdates(p)
             \/ CppRefreshDeletes(p)
      PROVE  FramesInv'
  BY <1>6, <1>1 DEF CppCreate, CppUpdate, CppDelete, CppRefreshUpdates,
                    CppRefreshDeletes, cppWire
<1>7. ASSUME NEW w \in CppListener, CppReceive(w) \/ CppReceiveTerminates(w)
      PROVE  FramesInv'
  BY <1>7, <1>1 DEF CppReceive, CppReceiveTerminates
<1>8. CASE UNCHANGED cppVars
  BY <1>8, <1>1 DEF cppVars
<1> QED
  BY <1>2, <1>3, <1>4, <1>5, <1>6, <1>7, <1>8 DEF CppNext

(***************************************************************************)
(* Every frame that a C++ participant sends is whole and nothing but that  *)
(* frame, although a deletion is put into the header as the frame before   *)
(* it, or its failure, left it.                                            *)
(***************************************************************************)
THEOREM FramesAreWhole == CppSpec => []CppFramesWhole
<1>1. FramesInv => CppFramesWhole
  BY DEF FramesInv
<1> QED
  BY <1>1, FramesInit, FramesStep, PTL DEF CppSpec

-----------------------------------------------------------------------------
(* An order of a finite set has all of its elements and no others. *)
LEMMA OrdersAreComplete ==
  ASSUME NEW S, IsFiniteSet(S), NEW xs \in SetToSeqs(S)
  PROVE  /\ \A i \in DOMAIN xs : xs[i] \in S
         /\ \A x \in S : \E i \in DOMAIN xs : xs[i] = x
<1>1. /\ xs \in [1 .. Cardinality(S) -> S]
      /\ \A i, j \in 1 .. Cardinality(S) : i # j => xs[i] # xs[j]
  BY DEF SetToSeqs
<1> QED
  BY <1>1, EnumerationsAreComplete

-----------------------------------------------------------------------------
(***************************************************************************)
(* What CppNothingForgotten needs to be inductive: the variables it is     *)
(* about are functions, numbers are natural, and what waits to be sent     *)
(* can be sent one by one.                                                 *)
(***************************************************************************)
PublishTypes ==
  /\ cppNext \in [CppParticipant -> Nat \ {0}]
  /\ cppUpdated \in [CppParticipant -> SUBSET CppGUID]
  /\ cppDeleted \in [CppParticipant -> SUBSET CppGUID]
  /\ cppGone \in [CppParticipant -> SUBSET CppGUID]
  /\ \A p \in CppParticipant : IsFiniteSet(cppUpdated[p])

PublishInv == PublishTypes /\ CppNothingForgotten

(* The two halves of CppNothingForgotten. *)
CreationsKept ==
  \A p \in CppParticipant : \A i \in 1 .. cppNext[p] - 1 :
    \/ <<p, i>> \in cppUpdated[p]
    \/ CppFrame(p, "update", <<p, i>>, HeaderSize + PayloadSize) \in cppSent

DeletionsKept ==
  \A p \in CppParticipant : \A g \in cppGone[p] :
    \/ g \in cppDeleted[p]
    \/ \E f \in cppSent : f.from = p /\ f.kind = "delete" /\ f.guid = g

(* The property, half by half.                                             *)
LEMMA NothingForgottenIs == CppNothingForgotten <=> CreationsKept /\ DeletionsKept
BY DEF CppNothingForgotten, CreationsKept, DeletionsKept

(* A send takes nothing back. *)
LEMMA MulticastKeepsSent ==
  ASSUME NEW p, NEW frames, CppMulticast(p, frames)
  PROVE  cppSent \subseteq cppSent'
BY DEF CppMulticast

(* publishUpdated, when nothing fails, sends a frame for each item. *)
LEMMA AllUpdatesSent ==
  ASSUME PublishTypes, NEW p \in CppParticipant, CppPublishUpdated(p),
         NEW g \in cppUpdated[p]
  PROVE  CppFrame(p, "update", g, HeaderSize + PayloadSize) \in cppSent'
<1>1. PICK xs \in SetToSeqs(cppUpdated[p]) : CppMulticast(p, CppUpdates(p, xs))
  BY DEF CppPublishUpdated
<1>2. PICK i \in DOMAIN xs : xs[i] = g
  BY <1>1, OrdersAreComplete DEF PublishTypes
<1>3. CppUpdates(p, xs)[i] = CppFrame(p, "update", g, HeaderSize + PayloadSize)
  BY <1>2 DEF CppUpdates
<1>4. i \in DOMAIN CppUpdates(p, xs)
  BY <1>2 DEF CppUpdates
<1> QED
  BY <1>1, <1>3, <1>4 DEF CppMulticast

(* Steps that touch neither what waits nor what was sent. *)
LEMMA PublishUntouched ==
  ASSUME PublishInv, UNCHANGED <<cppNext, cppUpdated, cppDeleted, cppGone, cppSent>>
  PROVE  PublishInv'
BY DEF PublishInv, PublishTypes, CppNothingForgotten

(* Nothing has been created or deleted yet.                                *)
LEMMA PublishInit == CppInit => PublishInv
BY FS_EmptySet DEF CppInit, PublishInv, PublishTypes, CppNothingForgotten

(* What leaves a pending set has been sent by the step that takes it out.  *)
LEMMA PublishStep == PublishInv /\ [CppNext]_cppVars => PublishInv'
<1> SUFFICES ASSUME PublishInv, [CppNext]_cppVars
             PROVE  PublishInv'
  OBVIOUS
<1>0. PublishTypes /\ CreationsKept /\ DeletionsKept
  BY NothingForgottenIs DEF PublishInv
<1> USE DEF PublishInv
<1>1. ASSUME NEW p \in CppParticipant, CppCreate(p)
      PROVE  PublishInv'
  <2> DEFINE g == <<p, cppNext[p]>>
  <2>1. /\ g \in CppGUID
        /\ cppNext' = [cppNext EXCEPT ![p] = @ + 1]
        /\ cppUpdated' = [cppUpdated EXCEPT ![p] = @ \cup {g}]
        /\ UNCHANGED <<cppDeleted, cppGone, cppSent>>
    BY <1>1 DEF CppCreate, cppWire
  <2>2. IsFiniteSet(cppUpdated[p] \cup {g})
    BY <1>0, FS_AddElement DEF PublishTypes
  <2>3. PublishTypes'
    BY <1>0, <2>1, <2>2 DEF PublishTypes
  <2>4. ASSUME NEW q \in CppParticipant, NEW i \in 1 .. cppNext'[q] - 1
        PROVE  \/ <<q, i>> \in cppUpdated'[q]
               \/ CppFrame(q, "update", <<q, i>>, HeaderSize + PayloadSize) \in cppSent'
    <3>1. CASE q = p /\ i = cppNext[p]
      BY <1>0, <2>1, <3>1 DEF PublishTypes
    <3>2. CASE ~ (q = p /\ i = cppNext[p])
      <4>1. i \in 1 .. cppNext[q] - 1
        BY <1>0, <2>1, <3>2 DEF PublishTypes
      <4>2. cppUpdated[q] \subseteq cppUpdated'[q]
        BY <1>0, <2>1 DEF PublishTypes
      <4> QED
        BY <1>0, <2>1, <4>1, <4>2 DEF CreationsKept
    <3> QED
      BY <3>1, <3>2
  <2>5. DeletionsKept'
    BY <1>0, <2>1 DEF DeletionsKept
  <2> QED
    BY <2>3, <2>4, <2>5 DEF CppNothingForgotten, DeletionsKept
<1>2. ASSUME NEW p \in CppParticipant, NEW g \in CppGUID, CppUpdate(p, g)
      PROVE  PublishInv'
  <2>1. /\ cppUpdated' = [cppUpdated EXCEPT ![p] = @ \cup {g}]
        /\ UNCHANGED <<cppNext, cppDeleted, cppGone, cppSent>>
    BY <1>2 DEF CppUpdate, cppWire
  <2>2. IsFiniteSet(cppUpdated[p] \cup {g})
    BY <1>0, FS_AddElement DEF PublishTypes
  <2>3. PublishTypes'
    BY <1>0, <2>1, <2>2 DEF PublishTypes
  <2>4. \A q \in CppParticipant : cppUpdated[q] \subseteq cppUpdated'[q]
    BY <1>0, <2>1 DEF PublishTypes
  <2> QED
    BY <1>0, <2>1, <2>3, <2>4 DEF CreationsKept, DeletionsKept, CppNothingForgotten
<1>3. ASSUME NEW p \in CppParticipant, NEW g \in CppGUID, CppDelete(p, g)
      PROVE  PublishInv'
  <2>1. /\ cppDeleted' = [cppDeleted EXCEPT ![p] = @ \cup {g}]
        /\ cppGone' = [cppGone EXCEPT ![p] = @ \cup {g}]
        /\ UNCHANGED <<cppNext, cppUpdated, cppSent>>
    BY <1>3 DEF CppDelete, cppWire
  <2>2. PublishTypes'
    BY <1>0, <2>1 DEF PublishTypes
  <2> QED
    BY <1>0, <2>1, <2>2 DEF PublishTypes, CppNothingForgotten
<1>4. ASSUME NEW p \in CppParticipant, CppPublishUpdated(p)
      PROVE  PublishInv'
  <2>1. /\ cppUpdated' = [cppUpdated EXCEPT ![p] = {}]
        /\ UNCHANGED <<cppNext, cppDeleted, cppGone>>
    BY <1>4 DEF CppPublishUpdated
  <2>2. cppSent \subseteq cppSent'
    BY <1>4, MulticastKeepsSent DEF CppPublishUpdated
  <2>3. PublishTypes'
    BY <1>0, <2>1, FS_EmptySet DEF PublishTypes
  <2>4. \A i \in 1 .. cppNext[p] - 1 :
          CppFrame(p, "update", <<p, i>>, HeaderSize + PayloadSize) \in cppSent'
    BY <1>0, <1>4, <2>2, AllUpdatesSent DEF CreationsKept
  <2>5. CreationsKept'
    BY <1>0, <2>1, <2>2, <2>4 DEF CreationsKept, PublishTypes
  <2>6. DeletionsKept'
    BY <1>0, <2>1, <2>2 DEF DeletionsKept
  <2> QED
    BY <2>3, <2>5, <2>6 DEF CppNothingForgotten, CreationsKept, DeletionsKept
<1>5. ASSUME NEW p \in CppParticipant, CppPublishUpdatedFails(p)
      PROVE  PublishInv'
  <2>1. UNCHANGED <<cppNext, cppUpdated, cppDeleted, cppGone>>
    BY <1>5 DEF CppPublishUpdatedFails, UpdatedKept
  <2>2. cppSent \subseteq cppSent'
    BY <1>5, MulticastKeepsSent DEF CppPublishUpdatedFails
  <2> QED
    BY <1>0, <2>1, <2>2 DEF PublishTypes, CppNothingForgotten
<1>6. ASSUME NEW p \in CppParticipant, CppPublishDeleted(p)
      PROVE  PublishInv'
  <2>1. UNCHANGED <<cppNext, cppUpdated, cppGone>>
    BY <1>6 DEF CppPublishDeleted
  <2>2. CASE UNCHANGED <<cppWire, cppDeleted>>
    BY <2>1, <2>2, PublishUntouched DEF cppWire
  <2>3. ASSUME NEW g \in cppDeleted[p], NEW size,
               CppMulticast(p, <<CppFrame(p, "delete", g, size)>>),
               cppDeleted' = IF cppDeleted[p] = {g} THEN [cppDeleted EXCEPT ![p] = {}]
                             ELSE cppDeleted
        PROVE  PublishInv'
    <3>1. cppSent' = cppSent \cup {CppFrame(p, "delete", g, size)}
      BY <2>3 DEF CppMulticast
    <3>2. PublishTypes'
      BY <1>0, <2>1, <2>3 DEF PublishTypes
    <3>3. CreationsKept'
      BY <1>0, <2>1, <3>1 DEF CreationsKept
    <3>4. DeletionsKept'
      BY <1>0, <2>1, <2>3, <3>1 DEF DeletionsKept, PublishTypes, CppFrame
    <3> QED
      BY <3>2, <3>3, <3>4 DEF CppNothingForgotten, CreationsKept, DeletionsKept
  <2> QED
    BY <1>6, <2>2, <2>3 DEF CppPublishDeleted
<1>7. ASSUME NEW p \in CppParticipant,
             \/ CppPublishDeletedFails(p)
             \/ CppRefreshUpdates(p)
             \/ CppRefreshDeletes(p)
      PROVE  PublishInv'
  BY <1>7, PublishUntouched DEF CppPublishDeletedFails, CppRefreshUpdates,
                                CppRefreshDeletes, cppCache, cppWire
<1>8. ASSUME NEW w \in CppListener, CppReceive(w) \/ CppReceiveTerminates(w)
      PROVE  PublishInv'
  BY <1>8, PublishUntouched DEF CppReceive, CppReceiveTerminates, cppCache
<1>9. CASE UNCHANGED cppVars
  BY <1>9, PublishUntouched DEF cppVars
<1> QED
  BY <1>1, <1>2, <1>3, <1>4, <1>5, <1>6, <1>7, <1>8, <1>9 DEF CppNext

(***************************************************************************)
(* The C++ publish() forgets no creation and no deletion, whichever of its *)
(* sends fail and whether or not the header has room: what is not pending  *)
(* has been sent.                                                          *)
(***************************************************************************)
THEOREM NothingIsForgotten == CppSpec => []CppNothingForgotten
<1>1. PublishInv => CppNothingForgotten
  BY DEF PublishInv
<1> QED
  BY <1>1, PublishInit, PublishStep, PTL DEF CppSpec

-----------------------------------------------------------------------------
(***************************************************************************)
(* What CppReplicasGenuine needs to be inductive: what is in flight has    *)
(* been sent, what has been sent, marked or deleted was created, and what  *)
(* a receiver has filed was announced.                                     *)
(***************************************************************************)
Announced(g) == \E f \in cppSent : f.kind = "update" /\ f.guid = g

IsCreated(g) == g[2] < cppNext[g[1]]

GenuineTypes ==
  /\ cppNext \in [CppParticipant -> Nat \ {0}]
  /\ cppLocal \in [CppParticipant -> SUBSET CppGUID]
  /\ cppUpdated \in [CppParticipant -> SUBSET CppGUID]
  /\ cppGone \in [CppParticipant -> SUBSET CppGUID]
  /\ cppToUpdate \in [CppParticipant -> SUBSET CppGUID]
  /\ \A p \in CppParticipant : IsFiniteSet(cppUpdated[p])

InFlightWasSent == cppNet \in [CppListener -> Seq(cppSent)]

SentIsCreated ==
  \A f \in cppSent : f.kind = "update" => f.guid \in CppGUID /\ IsCreated(f.guid)

FiledIsAnnounced == \A p \in CppParticipant : \A g \in cppToUpdate[p] : Announced(g)

MarkedIsCreated ==
  \A p \in CppParticipant : \A g \in cppUpdated[p] \cup cppGone[p] \cup cppLocal[p] :
    IsCreated(g)

ReplicasAnnounced ==
  \A p \in CppParticipant : \A g \in cppLocal[p] :
    g[1] # p \/ g \in cppGone[p] => Announced(g)

GenuineInv ==
  /\ GenuineTypes
  /\ InFlightWasSent
  /\ SentIsCreated
  /\ FiledIsAnnounced
  /\ MarkedIsCreated
  /\ ReplicasAnnounced

(* What is filed was announced, and what is announced was created.         *)
LEMMA GenuineInvSuffices == GenuineInv => CppReplicasGenuine
<1> SUFFICES ASSUME GenuineInv, NEW p \in CppParticipant,
                    NEW g \in cppLocal[p] \cup cppToUpdate[p]
             PROVE  /\ g[2] < cppNext[g[1]]
                    /\ g[1] # p \/ g \in cppGone[p] => Announced(g)
  BY DEF CppReplicasGenuine, Announced
<1>1. CASE g \in cppLocal[p]
  BY <1>1 DEF GenuineInv, MarkedIsCreated, IsCreated, ReplicasAnnounced
<1>2. CASE g \in cppToUpdate[p]
  BY <1>2 DEF GenuineInv, FiledIsAnnounced, Announced, SentIsCreated, IsCreated
<1> QED
  BY <1>1, <1>2

(* Orders of what a participant has marked are sequences of it. *)
LEMMA OrdersAreSequences ==
  ASSUME NEW S, IsFiniteSet(S), NEW xs \in SetToSeqs(S)
  PROVE  xs \in Seq(S)
<1>1. Cardinality(S) \in Nat
  BY FS_CardinalityType
<1> QED
  BY <1>1 DEF SetToSeqs

(* What publishUpdated sends are frames of the sender's own marked items.  *)
LEMMA UpdatesAreFrames ==
  ASSUME NEW p, NEW S, NEW xs \in Seq(S)
  PROVE  CppUpdates(p, xs) \in
           Seq({CppFrame(p, "update", g, HeaderSize + PayloadSize) : g \in S})
<1>1. DOMAIN xs = 1 .. Len(xs) /\ Len(xs) \in Nat
  OBVIOUS
<1>2. \A i \in 1 .. Len(xs) : xs[i] \in S
  OBVIOUS
<1> QED
  BY <1>1, <1>2 DEF CppUpdates

(* Frames that are sent are in flight or lost. *)
LEMMA MulticastInFlight ==
  ASSUME InFlightWasSent, NEW p, NEW X, NEW frames \in Seq(X), CppMulticast(p, frames)
  PROVE  InFlightWasSent'
<1>1. \A i \in DOMAIN frames : frames[i] \in cppSent'
  BY DEF CppMulticast
<1>2. frames \in Seq(cppSent')
  BY <1>1
<1>3. cppSent \subseteq cppSent'
  BY DEF CppMulticast
<1>4. ASSUME NEW w \in CppListener
      PROVE  cppNet'[w] \in Seq(cppSent')
  <2> DEFINE all == cppNet[w] \o frames
             n == IF Len(all) < CppMaxInFlight THEN Len(all) ELSE CppMaxInFlight
  <2>1. cppNet[w] \in Seq(cppSent')
    BY <1>3 DEF InFlightWasSent
  <2>2. all \in Seq(cppSent')
    BY <1>2, <2>1
  <2>3. n \in Nat /\ n <= Len(all)
    BY <2>2, CppNodeAssumption
  <2>4. SubSeq(all, 1, n) \in Seq(cppSent')
    <3> HIDE DEF all, n
    <3> QED
      BY <2>2, <2>3
  <2>5. cppNet'[w] = SubSeq(all, 1, n) \/ cppNet'[w] = cppNet[w]
    BY DEF CppMulticast
  <2> QED
    BY <2>1, <2>4, <2>5
<1>5. cppNet' = [w \in CppListener |-> cppNet'[w]]
  BY DEF CppMulticast
<1> QED
  BY <1>4, <1>5 DEF InFlightWasSent

(* Sending what is marked, all of it or not. *)
LEMMA SendingUpdates ==
  ASSUME GenuineInv, NEW p \in CppParticipant, NEW S \in SUBSET cppUpdated[p],
         NEW xs \in SetToSeqs(S), CppMulticast(p, CppUpdates(p, xs)),
         UNCHANGED <<cppNext, cppLocal, cppGone, cppToUpdate>>,
         cppUpdated' = [cppUpdated EXCEPT ![p] = {}] \/ cppUpdated' = cppUpdated
  PROVE  GenuineInv'
<1>1. IsFiniteSet(S)
  BY FS_Subset DEF GenuineInv, GenuineTypes
<1>2. xs \in Seq(S)
  BY <1>1, OrdersAreSequences
<1>3. InFlightWasSent'
  BY <1>2, UpdatesAreFrames, MulticastInFlight DEF GenuineInv
<1>4. \A i \in DOMAIN xs : xs[i] \in cppUpdated[p]
  BY <1>1, OrdersAreComplete
<1>5. \A f \in cppSent' \ cppSent : f.guid \in cppUpdated[p]
  BY <1>4 DEF CppMulticast, CppUpdates, CppFrame
<1>6. cppSent \subseteq cppSent'
  BY MulticastKeepsSent
<1>7. GenuineTypes'
  BY FS_EmptySet DEF GenuineInv, GenuineTypes
<1>8. SentIsCreated'
  BY <1>5 DEF GenuineInv, GenuineTypes, SentIsCreated, MarkedIsCreated, IsCreated
<1>9. FiledIsAnnounced' /\ ReplicasAnnounced'
  BY <1>6 DEF GenuineInv, FiledIsAnnounced, ReplicasAnnounced, Announced
<1>10. MarkedIsCreated'
  BY DEF GenuineInv, GenuineTypes, MarkedIsCreated, IsCreated
<1> QED
  BY <1>3, <1>7, <1>8, <1>9, <1>10 DEF GenuineInv

(* Steps that touch neither what is known of an item nor what was sent.    *)
LEMMA GenuineUntouched ==
  ASSUME GenuineInv,
         UNCHANGED <<cppNext, cppLocal, cppUpdated, cppGone, cppToUpdate, cppNet, cppSent>>
  PROVE  GenuineInv'
BY DEF GenuineInv, GenuineTypes, InFlightWasSent, SentIsCreated, FiledIsAnnounced,
       MarkedIsCreated, ReplicasAnnounced, Announced, IsCreated

(* Nothing has been created, sent or filed yet.                            *)
LEMMA GenuineInit == CppInit => GenuineInv
<1> SUFFICES ASSUME CppInit PROVE GenuineInv
  OBVIOUS
<1>1. InFlightWasSent
  BY DEF CppInit, InFlightWasSent
<1> QED
  BY <1>1, FS_EmptySet DEF CppInit, GenuineInv, GenuineTypes, SentIsCreated,
     FiledIsAnnounced, MarkedIsCreated, ReplicasAnnounced

(* Each step keeps what is sent, filed and held traceable to a creation.   *)
LEMMA GenuineStep == GenuineInv /\ [CppNext]_cppVars => GenuineInv'
<1> SUFFICES ASSUME GenuineInv, [CppNext]_cppVars
             PROVE  GenuineInv'
  OBVIOUS
<1>0. /\ GenuineTypes /\ InFlightWasSent /\ SentIsCreated /\ FiledIsAnnounced
      /\ MarkedIsCreated /\ ReplicasAnnounced
  BY DEF GenuineInv
<1>1. ASSUME NEW p \in CppParticipant, CppCreate(p)
      PROVE  GenuineInv'
  <2> DEFINE g == <<p, cppNext[p]>>
  <2>1. /\ g \in CppGUID
        /\ cppNext' = [cppNext EXCEPT ![p] = @ + 1]
        /\ cppLocal' = [cppLocal EXCEPT ![p] = @ \cup {g}]
        /\ cppUpdated' = [cppUpdated EXCEPT ![p] = @ \cup {g}]
        /\ UNCHANGED <<cppGone, cppToUpdate, cppNet, cppSent>>
    BY <1>1 DEF CppCreate, cppWire
  <2>2. IsFiniteSet(cppUpdated[p] \cup {g})
    BY <1>0, FS_AddElement DEF GenuineTypes
  <2>3. GenuineTypes'
    BY <1>0, <2>1, <2>2 DEF GenuineTypes
  <2>4. ASSUME NEW h \in CppGUID, IsCreated(h)
        PROVE  h[2] < cppNext'[h[1]]
    BY <1>0, <2>1, <2>4 DEF IsCreated, GenuineTypes, CppGUID
  <2>5. g[2] < cppNext'[g[1]]
    BY <1>0, <2>1 DEF GenuineTypes
  <2>6. g \notin cppGone[p]
    BY <1>0 DEF MarkedIsCreated, IsCreated, GenuineTypes
  <2>7. SentIsCreated'
    BY <1>0, <2>1, <2>4 DEF SentIsCreated, IsCreated
  <2>8. ASSUME NEW q \in CppParticipant,
               NEW h \in cppUpdated'[q] \cup cppGone'[q] \cup cppLocal'[q]
        PROVE  h[2] < cppNext'[h[1]]
    <3>1. CASE h = g
      BY <2>5, <3>1
    <3>2. CASE h \in cppUpdated[q] \cup cppGone[q] \cup cppLocal[q]
      <4>1. h \in CppGUID /\ IsCreated(h)
        BY <1>0, <3>2 DEF GenuineTypes, MarkedIsCreated
      <4> QED
        BY <2>4, <4>1
    <3> QED
      BY <1>0, <2>1, <3>1, <3>2 DEF GenuineTypes
  <2>9. ReplicasAnnounced'
    BY <1>0, <2>1, <2>6 DEF ReplicasAnnounced, Announced, GenuineTypes
  <2>10. InFlightWasSent' /\ FiledIsAnnounced'
    BY <1>0, <2>1 DEF InFlightWasSent, FiledIsAnnounced, Announced
  <2> QED
    BY <2>3, <2>7, <2>8, <2>9, <2>10 DEF GenuineInv, MarkedIsCreated, IsCreated
<1>2. ASSUME NEW p \in CppParticipant, NEW g \in CppGUID, CppUpdate(p, g)
      PROVE  GenuineInv'
  <2>1. /\ g \in cppLocal[p]
        /\ cppUpdated' = [cppUpdated EXCEPT ![p] = @ \cup {g}]
        /\ UNCHANGED <<cppNext, cppLocal, cppGone, cppToUpdate, cppNet, cppSent>>
    BY <1>2 DEF CppUpdate, cppWire
  <2>2. IsFiniteSet(cppUpdated[p] \cup {g})
    BY <1>0, FS_AddElement DEF GenuineTypes
  <2>3. GenuineTypes'
    BY <1>0, <2>1, <2>2 DEF GenuineTypes
  <2>4. MarkedIsCreated'
    BY <1>0, <2>1 DEF MarkedIsCreated, IsCreated, GenuineTypes
  <2> QED
    BY <1>0, <2>1, <2>3, <2>4 DEF GenuineInv, InFlightWasSent, SentIsCreated, IsCreated,
       FiledIsAnnounced, ReplicasAnnounced, Announced
<1>3. ASSUME NEW p \in CppParticipant, NEW g \in CppGUID, CppDelete(p, g)
      PROVE  GenuineInv'
  <2>1. /\ g \in cppLocal[p]
        /\ cppLocal' = [cppLocal EXCEPT ![p] = @ \ {g}]
        /\ cppGone' = [cppGone EXCEPT ![p] = @ \cup {g}]
        /\ UNCHANGED <<cppNext, cppUpdated, cppToUpdate, cppNet, cppSent>>
    BY <1>3 DEF CppDelete, cppWire
  <2>2. GenuineTypes'
    BY <1>0, <2>1 DEF GenuineTypes
  <2>3. MarkedIsCreated'
    BY <1>0, <2>1 DEF MarkedIsCreated, IsCreated, GenuineTypes
  <2>4. ReplicasAnnounced'
    BY <1>0, <2>1 DEF ReplicasAnnounced, Announced, GenuineTypes
  <2> QED
    BY <1>0, <2>1, <2>2, <2>3, <2>4 DEF GenuineInv, InFlightWasSent, SentIsCreated,
       IsCreated, FiledIsAnnounced, Announced
<1>4. ASSUME NEW p \in CppParticipant, CppPublishUpdated(p)
      PROVE  GenuineInv'
  <2>1. PICK xs \in SetToSeqs(cppUpdated[p]) : CppMulticast(p, CppUpdates(p, xs))
    BY <1>4 DEF CppPublishUpdated
  <2> QED
    BY <1>4, <2>1, SendingUpdates DEF CppPublishUpdated
<1>5. ASSUME NEW p \in CppParticipant, CppPublishUpdatedFails(p)
      PROVE  GenuineInv'
  <2>1. PICK sent \in SUBSET cppUpdated[p] :
          \E xs \in SetToSeqs(sent) : CppMulticast(p, CppUpdates(p, xs))
    BY <1>5 DEF CppPublishUpdatedFails
  <2>2. PICK xs \in SetToSeqs(sent) : CppMulticast(p, CppUpdates(p, xs))
    BY <2>1
  <2> QED
    BY <1>5, <2>2, SendingUpdates DEF CppPublishUpdatedFails, UpdatedKept
<1>6. ASSUME NEW p \in CppParticipant, CppPublishDeleted(p)
      PROVE  GenuineInv'
  <2>1. UNCHANGED <<cppNext, cppLocal, cppUpdated, cppGone, cppToUpdate>>
    BY <1>6 DEF CppPublishDeleted
  <2>2. CASE UNCHANGED cppWire
    BY <2>1, <2>2, GenuineUntouched DEF cppWire
  <2>3. ASSUME NEW g, NEW size, CppMulticast(p, <<CppFrame(p, "delete", g, size)>>)
        PROVE  GenuineInv'
    <3>1. cppSent' = cppSent \cup {CppFrame(p, "delete", g, size)}
      BY <2>3 DEF CppMulticast
    <3>2. <<CppFrame(p, "delete", g, size)>> \in Seq({CppFrame(p, "delete", g, size)})
      OBVIOUS
    <3>3. InFlightWasSent'
      BY <1>0, <2>3, <3>2, MulticastInFlight
    <3>4. SentIsCreated'
      BY <1>0, <2>1, <3>1 DEF SentIsCreated, IsCreated, CppFrame
    <3> QED
      BY <1>0, <2>1, <3>1, <3>3, <3>4 DEF GenuineInv, GenuineTypes, FiledIsAnnounced,
         MarkedIsCreated, IsCreated, ReplicasAnnounced, Announced
  <2> QED
    BY <1>6, <2>2, <2>3 DEF CppPublishDeleted
<1>7. ASSUME NEW p \in CppParticipant, CppRefreshUpdates(p)
      PROVE  GenuineInv'
  <2>1. /\ cppLocal' = [cppLocal EXCEPT ![p] = @ \cup cppToUpdate[p]]
        /\ cppToUpdate' = [cppToUpdate EXCEPT ![p] = {}]
        /\ UNCHANGED <<cppNext, cppUpdated, cppGone, cppNet, cppSent>>
    BY <1>7 DEF CppRefreshUpdates, Replica, cppWire
  <2>2. GenuineTypes'
    BY <1>0, <2>1 DEF GenuineTypes
  <2>3. \A g \in cppToUpdate[p] : IsCreated(g) /\ Announced(g)
    BY <1>0 DEF FiledIsAnnounced, Announced, SentIsCreated
  <2>4. MarkedIsCreated'
    BY <1>0, <2>1, <2>3 DEF MarkedIsCreated, IsCreated, GenuineTypes
  <2>5. ReplicasAnnounced'
    BY <1>0, <2>1, <2>3 DEF ReplicasAnnounced, Announced, GenuineTypes
  <2>6. FiledIsAnnounced'
    BY <1>0, <2>1 DEF FiledIsAnnounced, Announced, GenuineTypes
  <2> QED
    BY <1>0, <2>1, <2>2, <2>4, <2>5, <2>6 DEF GenuineInv, InFlightWasSent, SentIsCreated,
       IsCreated
<1>8. ASSUME NEW p \in CppParticipant, CppRefreshDeletes(p)
      PROVE  GenuineInv'
  <2>1. /\ cppLocal' = [cppLocal EXCEPT ![p] = @ \ cppToDelete[p]]
        /\ UNCHANGED <<cppNext, cppUpdated, cppGone, cppToUpdate, cppNet, cppSent>>
    BY <1>8 DEF CppRefreshDeletes, cppWire
  <2>2. GenuineTypes'
    BY <1>0, <2>1 DEF GenuineTypes
  <2>3. \A q \in CppParticipant : cppLocal'[q] \subseteq cppLocal[q]
    BY <1>0, <2>1 DEF GenuineTypes
  <2> QED
    BY <1>0, <2>1, <2>2, <2>3 DEF GenuineInv, InFlightWasSent, SentIsCreated, IsCreated,
       FiledIsAnnounced, MarkedIsCreated, ReplicasAnnounced, Announced
<1>9. ASSUME NEW p \in CppParticipant, CppPublishDeletedFails(p)
      PROVE  GenuineInv'
  BY <1>9, GenuineUntouched DEF CppPublishDeletedFails, cppCache
<1>10. ASSUME NEW w \in CppListener, CppReceive(w)
       PROVE  GenuineInv'
  <2> DEFINE f == Head(cppNet[w])
             p == w[1]
  <2>1. p \in CppParticipant
    BY CppNodeAssumption
  <2>2. /\ cppNet[w] # <<>>
        /\ cppNet' = [cppNet EXCEPT ![w] = Tail(@)]
        /\ cppToUpdate' = IF f.kind = "update"
                          THEN [cppToUpdate EXCEPT ![p] = @ \cup {f.guid}]
                          ELSE cppToUpdate
        /\ UNCHANGED <<cppNext, cppLocal, cppUpdated, cppGone, cppSent>>
    BY <1>10 DEF CppReceive, cppCache
  <2>3. f \in cppSent /\ Tail(cppNet[w]) \in Seq(cppSent)
    BY <1>0, <2>2 DEF InFlightWasSent
  <2>4. InFlightWasSent'
    BY <1>0, <2>2, <2>3 DEF InFlightWasSent
  <2> HIDE DEF f, p
  <2>5. GenuineTypes'
    BY <1>0, <2>1, <2>2, <2>3 DEF GenuineTypes, SentIsCreated
  <2>6. FiledIsAnnounced'
    BY <1>0, <2>1, <2>2, <2>3 DEF GenuineTypes, FiledIsAnnounced, Announced
  <2> QED
    BY <1>0, <2>2, <2>4, <2>5, <2>6 DEF GenuineInv, SentIsCreated, IsCreated,
       MarkedIsCreated, ReplicasAnnounced, Announced
<1>11. ASSUME NEW w \in CppListener, CppReceiveTerminates(w)
       PROVE  GenuineInv'
  <2>1. /\ cppNet' = [v \in CppListener |-> IF v[1] = w[1] THEN <<>> ELSE cppNet[v]]
        /\ UNCHANGED <<cppNext, cppLocal, cppUpdated, cppGone, cppToUpdate, cppSent>>
    BY <1>11 DEF CppReceiveTerminates, cppCache
  <2>2. InFlightWasSent'
    BY <1>0, <2>1 DEF InFlightWasSent
  <2> QED
    BY <1>0, <2>1, <2>2 DEF GenuineInv, GenuineTypes, SentIsCreated, IsCreated,
       FiledIsAnnounced, MarkedIsCreated, ReplicasAnnounced, Announced
<1>12. CASE UNCHANGED cppVars
  BY <1>12, GenuineUntouched DEF cppVars
<1> QED
  BY <1>1, <1>2, <1>3, <1>4, <1>5, <1>6, <1>7, <1>8, <1>9, <1>10, <1>11, <1>12
     DEF CppNext

(***************************************************************************)
(* Whatever C++ participants send, lose, receive and refresh, a cache only *)
(* holds items that their publisher created, and replicas, or items of its *)
(* own that come back, only after somebody has announced them.             *)
(***************************************************************************)
THEOREM ReplicasAreGenuine == CppSpec => []CppReplicasGenuine
BY GenuineInit, GenuineStep, GenuineInvSuffices, PTL DEF CppSpec
=============================================================================
