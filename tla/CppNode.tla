------------------------------ MODULE CppNode ------------------------------
(***************************************************************************)
(* The caches of the C++ implementation: Cache.cpp, what ParticipantImpl   *)
(* publishes, and what NetworkReceiver does with it.  A participant has    *)
(* its default cache and one application thread; each of its receivers is  *)
(* a thread.                                                               *)
(*                                                                         *)
(* Two buffers outlive a frame, and decide what becomes of the next one:   *)
(* the header, which a deletion does not clear, and the input buffer of a  *)
(* receiver, which nothing clears.  Every failure of a buffer or of a      *)
(* socket is an exception: the application catches it, and nothing catches *)
(* that of a receiver, which ends the process.                             *)
(*                                                                         *)
(* A shareable is known by its GUID <<publisher, instance>>.  Contents are *)
(* left out, so that two buffers received for an item are one.             *)
(***************************************************************************)
EXTENDS Integers, Sequences, FiniteSets
LOCAL INSTANCE SequencesExt

CONSTANTS
  CppParticipant,  \* the publishers
  CppListener,     \* receivers: pairs of a participant and one it listens to
  CppItemCount,    \* bound on the items of each participant
  CppOwning,       \* participants whose cache checks the ownership
  CppSendFails,    \* whether sendto() may fail
  CppMaxInFlight   \* the datagrams a socket keeps

CppGUID == CppParticipant \X (1 .. CppItemCount)

(* HEADER_SIZE, what a deletion puts in the header, a payload of one size, *)
(* and the largest datagram.                                               *)
HeaderSize   == 22
DeletionSize == 14
PayloadSize  == 10
MessageSize  == 65536

ASSUME CppNodeAssumption ==
  /\ CppListener \subseteq CppParticipant \X CppParticipant
  /\ CppItemCount \in Nat
  /\ CppOwning \subseteq CppParticipant
  /\ CppSendFails \in BOOLEAN
  /\ CppMaxInFlight \in Nat

VARIABLES
  cppUp,        \* the process of a participant has not been terminated
  cppApp,       \* where the application thread is: idle, or between the two
                \* halves of a publish() or of a refresh()
  cppNext,      \* Cache._nextInstance
  cppLocal,     \* Cache._local
  cppUpdated,   \* Cache._updated
  cppDeleted,   \* Cache._deleted
  cppToUpdate,  \* Cache._toUpdate
  cppToDelete,  \* Cache._toDelete
  cppHeader,    \* ParticipantImpl._header: position and limit
  cppInBuf,     \* NetworkReceiver._inBuf: position and limit
  cppNet,       \* datagrams in the socket of each receiver
  cppSent,      \* history: the frames that were sent
  cppGone       \* history: what the application of a participant deleted

cppVars == <<cppUp, cppApp, cppNext, cppLocal, cppUpdated, cppDeleted, cppToUpdate,
             cppToDelete, cppHeader, cppInBuf, cppNet, cppSent, cppGone>>

cppCache == <<cppNext, cppLocal, cppUpdated, cppDeleted, cppGone>>
cppWire  == <<cppHeader, cppNet, cppSent>>

CppInit ==
  /\ cppUp = [p \in CppParticipant |-> TRUE]
  /\ cppApp = [p \in CppParticipant |-> "idle"]
  /\ cppNext = [p \in CppParticipant |-> 1]
  /\ cppLocal = [p \in CppParticipant |-> {}]
  /\ cppUpdated = [p \in CppParticipant |-> {}]
  /\ cppDeleted = [p \in CppParticipant |-> {}]
  /\ cppToUpdate = [p \in CppParticipant |-> {}]
  /\ cppToDelete = [p \in CppParticipant |-> {}]
  /\ cppHeader = [p \in CppParticipant |-> [position |-> 0, limit |-> HeaderSize]]
  /\ cppInBuf = [w \in CppListener |-> [position |-> 0, limit |-> MessageSize]]
  /\ cppNet = [w \in CppListener |-> <<>>]
  /\ cppSent = {}
  /\ cppGone = [p \in CppParticipant |-> {}]

-----------------------------------------------------------------------------
CppAt(p, pc) == cppUp[p] /\ cppApp[p] = pc

CppGoto(p, pc) == cppApp' = [cppApp EXCEPT ![p] = pc]

(* Cache::owns, and the check that update and deleTe make of it. *)
CppMayChange(p, g) == p \in CppOwning => g[1] = p

CppCreate(p) ==
  LET g == <<p, cppNext[p]>> IN
  /\ CppAt(p, "idle")
  /\ g \in CppGUID
  /\ cppNext' = [cppNext EXCEPT ![p] = @ + 1]
  /\ cppLocal' = [cppLocal EXCEPT ![p] = @ \cup {g}]
  /\ cppUpdated' = [cppUpdated EXCEPT ![p] = @ \cup {g}]
  /\ UNCHANGED <<cppUp, cppApp, cppDeleted, cppGone, cppToUpdate, cppToDelete,
                 cppInBuf, cppWire>>

CppUpdate(p, g) ==
  /\ CppAt(p, "idle")
  /\ CppMayChange(p, g)
  /\ g \in cppLocal[p]
  /\ cppUpdated' = [cppUpdated EXCEPT ![p] = @ \cup {g}]
  /\ UNCHANGED <<cppUp, cppApp, cppNext, cppLocal, cppDeleted, cppGone, cppToUpdate,
                 cppToDelete, cppInBuf, cppWire>>

CppDelete(p, g) ==
  /\ CppAt(p, "idle")
  /\ CppMayChange(p, g)
  /\ g \in cppLocal[p]
  /\ cppLocal' = [cppLocal EXCEPT ![p] = @ \ {g}]
  /\ cppDeleted' = [cppDeleted EXCEPT ![p] = @ \cup {g}]
  /\ cppGone' = [cppGone EXCEPT ![p] = @ \cup {g}]
  /\ UNCHANGED <<cppUp, cppApp, cppNext, cppUpdated, cppToUpdate, cppToDelete,
                 cppInBuf, cppWire>>

-----------------------------------------------------------------------------
CppFrame(p, kind, g, size) == [from |-> p, kind |-> kind, guid |-> g, size |-> size]

(* The datagrams go to all who listen to p; a full socket loses them. *)
CppMulticast(p, frames) ==
  /\ cppNet' = [w \in CppListener |->
       IF w[2] = p /\ cppUp[w[1]]
       THEN LET all == cppNet[w] \o frames
            IN  SubSeq(all, 1, IF Len(all) < CppMaxInFlight THEN Len(all) ELSE CppMaxInFlight)
       ELSE cppNet[w]]
  /\ cppSent' = cppSent \cup {frames[i] : i \in DOMAIN frames}

(* A header that has been copied to a message is at its end. *)
Spent == [position |-> HeaderSize, limit |-> HeaderSize]

CppUpdates(p, xs) ==
  [i \in DOMAIN xs |-> CppFrame(p, "update", xs[i], HeaderSize + PayloadSize)]

(* What publish() leaves in _updated when all was sent, when the exception *)
(* of a send gets past it, and what a clear before the sends would leave.  *)
UpdatedDropped(p) == [cppUpdated EXCEPT ![p] = {}]
UpdatedKept(p)    == cppUpdated

(***************************************************************************)
(* ParticipantImpl::publishUpdated, in the order of the addresses: the     *)
(* header is cleared before each frame, so that it always has room.        *)
(***************************************************************************)
CppPublishUpdated(p) ==
  /\ CppAt(p, "idle")
  /\ \E xs \in SetToSeqs(cppUpdated[p]) : CppMulticast(p, CppUpdates(p, xs))
  /\ cppHeader' = IF cppUpdated[p] = {} THEN cppHeader
                  ELSE [cppHeader EXCEPT ![p] = Spent]
  /\ cppUpdated' = [cppUpdated EXCEPT ![p] = {}]
  /\ CppGoto(p, "published")
  /\ UNCHANGED <<cppUp, cppNext, cppLocal, cppDeleted, cppGone, cppToUpdate,
                 cppToDelete, cppInBuf>>

CppPublishUpdatedFails(p) ==
  /\ CppSendFails
  /\ CppAt(p, "idle")
  /\ \E sent \in SUBSET cppUpdated[p] :
       /\ sent # cppUpdated[p]
       /\ \E xs \in SetToSeqs(sent) : CppMulticast(p, CppUpdates(p, xs))
  /\ cppHeader' = [cppHeader EXCEPT ![p] = Spent]
  /\ cppUpdated' = UpdatedKept(p)
  /\ UNCHANGED <<cppUp, cppApp, cppNext, cppLocal, cppDeleted, cppGone, cppToUpdate,
                 cppToDelete, cppInBuf>>

(* Whether the header takes a deletion, and a put that does not look. *)
RoomAnyway(h) == TRUE
Room(h) == h.position + DeletionSize <= h.limit

(* A deletion is put where the header is, and sent from its start. *)
SizeFrom(h) == h.position + DeletionSize

(* The header, once a deletion of that size has been sent or not. *)
Sent(size)   == [position |-> size, limit |-> size]
Unsent(size) == [position |-> 0, limit |-> size]

(***************************************************************************)
(* ParticipantImpl::publishDeleted: the set is cleared when there was room *)
(* for all of them and all were sent.  The header, which the frame before  *)
(* leaves without room, has some only when nothing was sent before or when *)
(* the last send, of a deletion, failed.                                   *)
(***************************************************************************)
CppPublishDeleted(p) ==
  /\ CppAt(p, "published")
  /\ \/ /\ cppDeleted[p] = {}
        /\ UNCHANGED <<cppWire, cppDeleted>>
     \/ \E g \in cppDeleted[p] :
          /\ Room(cppHeader[p])
          /\ CppMulticast(p, <<CppFrame(p, "delete", g, SizeFrom(cppHeader[p]))>>)
          /\ cppHeader' = [cppHeader EXCEPT ![p] = Sent(SizeFrom(cppHeader[p]))]
          /\ cppDeleted' = IF cppDeleted[p] = {g} THEN [cppDeleted EXCEPT ![p] = {}]
                           ELSE cppDeleted
  /\ CppGoto(p, "idle")
  /\ UNCHANGED <<cppUp, cppNext, cppLocal, cppUpdated, cppGone, cppToUpdate,
                 cppToDelete, cppInBuf>>

(* No room, or a send that fails: the exception keeps the deletions. *)
CppPublishDeletedFails(p) ==
  /\ CppAt(p, "published")
  /\ cppDeleted[p] # {}
  /\ \/ /\ ~ Room(cppHeader[p])
        /\ UNCHANGED cppHeader
     \/ /\ CppSendFails
        /\ Room(cppHeader[p])
        /\ cppHeader' = [cppHeader EXCEPT ![p] = Unsent(SizeFrom(cppHeader[p]))]
  /\ CppGoto(p, "idle")
  /\ UNCHANGED <<cppUp, cppCache, cppToUpdate, cppToDelete, cppInBuf, cppNet, cppSent>>

-----------------------------------------------------------------------------
(* The GUID that refresh() gives to a new shareable, and one forgotten. *)
ReplicaUnset(g) == <<g[1], CppItemCount + 1>>
Replica(g)      == g

(***************************************************************************)
(* Cache::refresh.  It holds _localMutex from end to end, which only the   *)
(* application takes, and the mutex of one set after the other: a receiver *)
(* may file an update in between.                                          *)
(***************************************************************************)
CppRefreshUpdates(p) ==
  /\ CppAt(p, "idle")
  /\ cppLocal' = [cppLocal EXCEPT ![p] = @ \cup {Replica(g) : g \in cppToUpdate[p]}]
  /\ cppToUpdate' = [cppToUpdate EXCEPT ![p] = {}]
  /\ CppGoto(p, "refreshed")
  /\ UNCHANGED <<cppUp, cppNext, cppUpdated, cppDeleted, cppGone, cppToDelete,
                 cppInBuf, cppWire>>

CppRefreshDeletes(p) ==
  /\ CppAt(p, "refreshed")
  /\ cppLocal' = [cppLocal EXCEPT ![p] = @ \ cppToDelete[p]]
  /\ cppToDelete' = [cppToDelete EXCEPT ![p] = {}]
  /\ CppGoto(p, "idle")
  /\ UNCHANGED <<cppUp, cppNext, cppUpdated, cppDeleted, cppGone, cppToUpdate,
                 cppInBuf, cppWire>>

-----------------------------------------------------------------------------
(***************************************************************************)
(* NetworkReceiver::run: a datagram is received where the one before it    *)
(* ended, up to the limit that flip() set there.  The array of caches has  *)
(* never been set to null beyond the ones created: where the walk through  *)
(* it ends is undefined.                                                   *)
(***************************************************************************)
CppReceive(w) ==
  LET p == w[1]
      frame == Head(cppNet[w])
  IN
  /\ cppUp[p]
  /\ cppNet[w] # <<>>
  /\ cppInBuf[w].position < cppInBuf[w].limit
  /\ cppNet' = [cppNet EXCEPT ![w] = Tail(@)]
  /\ cppInBuf' = [cppInBuf EXCEPT ![w] = [position |-> frame.size, limit |-> frame.size]]
  /\ cppToUpdate' = IF frame.kind = "update"
                    THEN [cppToUpdate EXCEPT ![p] = @ \cup {frame.guid}]
                    ELSE cppToUpdate
  /\ cppToDelete' = IF frame.kind = "delete"
                    THEN [cppToDelete EXCEPT ![p] = @ \cup {frame.guid}]
                    ELSE cppToDelete
  /\ UNCHANGED <<cppUp, cppApp, cppCache, cppHeader, cppSent>>

(* No byte is left to receive into, or the walk meets a stray pointer: the *)
(* exception or the signal terminates the process.                         *)
CppReceiveTerminates(w) ==
  LET p == w[1] IN
  /\ cppUp[p]
  /\ cppNet[w] # <<>>
  /\ cppUp' = [cppUp EXCEPT ![p] = FALSE]
  /\ cppNet' = [v \in CppListener |-> IF v[1] = p THEN <<>> ELSE cppNet[v]]
  /\ UNCHANGED <<cppApp, cppCache, cppToUpdate, cppToDelete, cppHeader, cppInBuf,
                 cppSent>>

CppNext ==
  \/ \E p \in CppParticipant : CppCreate(p)
  \/ \E p \in CppParticipant, g \in CppGUID : CppUpdate(p, g)
  \/ \E p \in CppParticipant, g \in CppGUID : CppDelete(p, g)
  \/ \E p \in CppParticipant : CppPublishUpdated(p)
  \/ \E p \in CppParticipant : CppPublishUpdatedFails(p)
  \/ \E p \in CppParticipant : CppPublishDeleted(p)
  \/ \E p \in CppParticipant : CppPublishDeletedFails(p)
  \/ \E p \in CppParticipant : CppRefreshUpdates(p)
  \/ \E p \in CppParticipant : CppRefreshDeletes(p)
  \/ \E w \in CppListener : CppReceive(w)
  \/ \E w \in CppListener : CppReceiveTerminates(w)

CppSpec == CppInit /\ [][CppNext]_cppVars

-----------------------------------------------------------------------------
(***************************************************************************)
(* Whatever a send or a full header makes fail, publish() forgets nothing: *)
(* what was created is to be announced or has been, and so is what was     *)
(* deleted, however little of it will ever have room in the header.        *)
(***************************************************************************)
CppNothingForgotten ==
  /\ \A p \in CppParticipant : \A i \in 1 .. cppNext[p] - 1 :
       \/ <<p, i>> \in cppUpdated[p]
       \/ CppFrame(p, "update", <<p, i>>, HeaderSize + PayloadSize) \in cppSent
  /\ \A p \in CppParticipant : \A g \in cppGone[p] :
       \/ g \in cppDeleted[p]
       \/ \E f \in cppSent : f.from = p /\ f.kind = "delete" /\ f.guid = g

(***************************************************************************)
(* No deletion is sent behind the remains of another frame: whatever state *)
(* an earlier frame or a failed send left the header in, a frame that is   *)
(* sent is whole and nothing else.                                         *)
(***************************************************************************)
CppFramesWhole ==
  \A f \in cppSent :
    f.size = IF f.kind = "delete" THEN DeletionSize ELSE HeaderSize + PayloadSize

(***************************************************************************)
(* An item in a cache is one that its publisher created, and if it is a    *)
(* replica, or the item of its own that a participant got back after it    *)
(* had deleted it, somebody has announced it.                              *)
(***************************************************************************)
CppReplicasGenuine ==
  \A p \in CppParticipant : \A g \in cppLocal[p] \cup cppToUpdate[p] :
    /\ g[2] < cppNext[g[1]]
    /\ g[1] # p \/ g \in cppGone[p] =>
         \E f \in cppSent : f.kind = "update" /\ f.guid = g
=============================================================================
