---------------------------- MODULE CArguments ----------------------------
(***************************************************************************)
(* The arguments of a remote operation in C: the two maps that hold their  *)
(* values and their types (Arguments.c), the frame they are written into,  *)
(* and how the peer reads them back (NetworkReceiver.c, ClassID.c).        *)
(*                                                                         *)
(* A type is one of: "plain", for those that the peer puts with the type   *)
(* they had; "integer", which it puts as an unsigned one; "string";        *)
(* "char", which it does not know; "null", whose value is the NULL         *)
(* pointer; and "shareable", written from a pointer that is not one to a   *)
(* shareable.  Names are numbered in the order of collStringCompare.       *)
(***************************************************************************)
EXTENDS Integers, Sequences, FiniteSets

CONSTANTS
  ArgName,    \* names of arguments, in their order
  ArgValue,   \* their values
  ArgLimit    \* collMap_ITEM_MAX_COUNT

ArgType == {"plain", "integer", "string", "char", "null", "shareable"}

(* What a frame that is out of step brings: anything. *)
Garbage == 0

ASSUME CArgumentsAssumption ==
  /\ ArgName \subseteq Nat \ {0}
  /\ Garbage \notin ArgValue
  /\ ArgLimit \in Nat \ {0}

VARIABLES
  args,     \* dcrudArgumentsImpl.args: values by name
  types,    \* dcrudArgumentsImpl.types: types by name
  put,      \* history: what the program put last under each name
  sent,     \* the last call that was sent, and what the peer made of it
  gotArgs   \* dcrudArgumentsImpl of the peer: types and values by name

argsVars == <<args, types, put, sent, gotArgs>>

None == <<>>

CArgumentsInit ==
  /\ args = <<>>
  /\ types = <<>>
  /\ put = <<>>
  /\ sent = None
  /\ gotArgs = None

-----------------------------------------------------------------------------
(* collMap_put, of a map of bounded size, and whether it succeeds. *)
MapHasRoom(f, n) == n \in DOMAIN f \/ Cardinality(DOMAIN f) < ArgLimit
With(f, n, v)    == [m \in DOMAIN f \cup {n} |-> IF m = n THEN v ELSE f[m]]

(* What a put does with the types, and one that keeps the type of a name   *)
(* that is in use.                                                         *)
TypesOnce(n, t) == IF n \in DOMAIN types THEN types
                   ELSE IF MapHasRoom(types, n) THEN With(types, n, t) ELSE types
TypesWith(n, t) == IF MapHasRoom(types, n) THEN With(types, n, t) ELSE types

(***************************************************************************)
(* dcrudArguments_put...: the value, then the type.  When the map of the   *)
(* types, which no clear() ever empties, is full, the value has no type.   *)
(***************************************************************************)
PutArg(n, t, v) ==
  /\ MapHasRoom(args, n)
  /\ args' = With(args, n, v)
  /\ types' = TypesWith(n, t)
  /\ put' = With(put, n, [type |-> t, value |-> v])
  /\ sent' = None
  /\ gotArgs' = None

(* dcrudArguments_clear empties the map of the values only. *)
ClearArgs ==
  /\ args # <<>>
  /\ args' = <<>>
  /\ put' = <<>>
  /\ sent' = None
  /\ gotArgs' = None
  /\ UNCHANGED types

-----------------------------------------------------------------------------
(* The names in the order that collMap_foreach meets them. *)
InNameOrder(names) == \A i, j \in DOMAIN names : i < j => names[i] < names[j]
Ordered ==
  CHOOSE names \in [1 .. Cardinality(DOMAIN args) -> DOMAIN args] : InNameOrder(names)

(* serializePair fails for a value that is NULL or that has no type. *)
Serializable(n) ==
  n \in DOMAIN types /\ types[n] \notin {"null", "shareable"}

ArgsFrame == [i \in DOMAIN Ordered |->
             [name |-> Ordered[i], type |-> types[Ordered[i]], value |-> args[Ordered[i]]]]

(* The type under which the peer puts an argument. *)
TypeAtPeer(t) == IF t = "integer" THEN "plain" ELSE t

(* How many arguments are read in step: those before the first char; and a *)
(* loop that stops one argument short.                                     *)
InStepShort(frame) == IF frame = <<>> THEN 0 ELSE Len(frame) - 1
InStep(frame) ==
  LET chars == {i \in DOMAIN frame : frame[i].type = "char"}
  IN  IF chars = {} THEN Len(frame)
      ELSE (CHOOSE i \in chars : \A j \in chars : i <= j) - 1

(* dcrudNetworkReceiver_operation: the arguments of the first n. *)
Read(frame, n) ==
  [name \in {frame[i].name : i \in 1 .. n} |->
     LET i == CHOOSE j \in 1 .. n : frame[j].name = name
     IN  [type |-> TypeAtPeer(frame[i].type), value |-> frame[i].value]]

(***************************************************************************)
(* dcrudIParticipantImpl_sendCall and dcrudNetworkReceiver_operation.  The *)
(* class of a char is unexpected: its byte is not read, and the status is  *)
(* overwritten, so that what follows is read one byte off.  A name that is *)
(* too long is then left as the previous one was, and its argument         *)
(* replaced by whatever is read.                                           *)
(***************************************************************************)
SendArgs ==
  LET n == InStep(ArgsFrame)
      ok == Read(ArgsFrame, n)
  IN
  /\ sent = None
  /\ \A m \in DOMAIN args : Serializable(m)
  /\ sent' = ArgsFrame
  /\ \/ gotArgs' = ok
     \/ /\ n + 1 < Len(ArgsFrame)
        /\ n > 0
        /\ gotArgs' = [ok EXCEPT ![ArgsFrame[n].name] = [type |-> "plain", value |-> Garbage]]
  /\ UNCHANGED <<args, types, put>>

CArgumentsNext ==
  \/ \E n \in ArgName, t \in ArgType, v \in ArgValue : PutArg(n, t, v)
  \/ ClearArgs
  \/ SendArgs

CArgumentsSpec == CArgumentsInit /\ [][CArgumentsNext]_argsVars

-----------------------------------------------------------------------------
(***************************************************************************)
(* Whatever the program has put and cleared, the two maps agree: a value   *)
(* bears the type it was put with, or none at all once stale names fill    *)
(* the map of the types, and then nothing can be sent.                     *)
(***************************************************************************)
ArgumentsTyped ==
  /\ DOMAIN args = DOMAIN put
  /\ \A n \in DOMAIN args :
       /\ args[n] = put[n].value
       /\ \/ n \in DOMAIN types /\ types[n] = put[n].type
          \/ n \notin DOMAIN types /\ Cardinality(DOMAIN types) = ArgLimit
  /\ sent # None => DOMAIN args \subseteq DOMAIN types

(***************************************************************************)
(* A call without characters among its arguments reaches the peer with all *)
(* of them, an integer becoming unsigned.  With characters, what the peer  *)
(* has of it is right up to the argument just before the first character,  *)
(* which may be wrong, and the peer never has an argument nobody put.      *)
(***************************************************************************)
ArgumentsTransferred ==
  sent # None =>
    /\ DOMAIN gotArgs \subseteq DOMAIN put
    /\ \A n \in DOMAIN put :
         (\A m \in DOMAIN put : put[m].type = "char" =>
                                \E o \in DOMAIN put : n < o /\ o < m) =>
           n \in DOMAIN gotArgs /\ gotArgs[n].value = put[n].value
    /\ (\A n \in DOMAIN put : put[n].type # "char") =>
         \A n \in DOMAIN put :
           gotArgs[n] = [type |-> TypeAtPeer(put[n].type), value |-> put[n].value]
=============================================================================
