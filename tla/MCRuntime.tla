----------------------------- MODULE MCRuntime -----------------------------
(***************************************************************************)
(* The parts of the C runtime, and the C++ caches and the channels that    *)
(* rest on its buffers, side by side, for TLC: each behaviour works with   *)
(* one of them and leaves the others as they were set up, for they share   *)
(* no state.  Of the collections a behaviour works with one.               *)
(***************************************************************************)
EXTENDS CPool, CCollections, CBuffer, CArguments, CCmdLine, CppNode,
        Channel, TLC

MCSizeClass == <<2, 4>>

(* Identifiers of three bits, all of them compared in a consistent order:  *)
(* they are less than half the range apart, round the end of the range.    *)
MCCollKey == {6, 7, 0, 1}

ASSUME MCKeysTogether == KeysTogether

(* Names of which one starts another and a third starts neither. *)
MCOptionName == {<<1>>, <<1, 2>>, <<2>>}

(* Two participants, each of them listening to the other and one of them   *)
(* to itself as well.                                                      *)
MCCppListener == {<<"p", "q">>, <<"q", "p">>, <<"q", "q">>}

(* A C channel that talks to Java, or two channels of one C process that   *)
(* talk to each other.                                                     *)
MCRoutes == {("c" :> "java") @@ ("java" :> "c"), ("c" :> "d") @@ ("d" :> "c")}

(* A list, and a set with a null item that is too long for a C list. *)
MCList    == {<<1>>}
MCJavaSet == {{1}, {0, 1}}

VARIABLE part  \* the part of the runtime at work

runtimeVars == <<part, poolVars, collVars, bufferVars, argsVars, cmdVars, cppVars,
                 channelVars>>

RuntimePart == {"pool", "map", "set", "list", "buffer", "arguments", "command line",
                "C++", "channel"}

RuntimeInit ==
  /\ part \in RuntimePart
  /\ CPoolInit
  /\ CCollectionsInit
  /\ CBufferInit
  /\ CArgumentsInit
  /\ CCmdLineInit
  /\ CppInit
  /\ ChannelInit
  /\ part # "channel" => peer = CHOOSE r \in Routes : TRUE
  /\ part # "buffer" => \A b \in Buffer : ~ hostIsBigEndian[b]

(* The collections that are not at work. *)
OthersUnchanged ==
  /\ part # "map" => pairs' = pairs
  /\ part # "set" => setItems' = setItems
  /\ part # "list" => listItems' = listItems

PoolStep ==
  part = "pool" /\ CPoolNext
  /\ UNCHANGED <<part, collVars, bufferVars, argsVars, cmdVars, cppVars,
                 channelVars>>

CollectionStep ==
  part \in {"map", "set", "list"} /\ CCollectionsNext /\ OthersUnchanged
  /\ UNCHANGED <<part, poolVars, bufferVars, argsVars, cmdVars, cppVars,
                 channelVars>>

BufferStep ==
  part = "buffer" /\ CBufferNext
  /\ UNCHANGED <<part, poolVars, collVars, argsVars, cmdVars, cppVars,
                 channelVars>>

ArgumentsStep ==
  part = "arguments" /\ CArgumentsNext
  /\ UNCHANGED <<part, poolVars, collVars, bufferVars, cmdVars, cppVars,
                 channelVars>>

CommandLineStep ==
  part = "command line" /\ CCmdLineNext
  /\ UNCHANGED <<part, poolVars, collVars, bufferVars, argsVars, cppVars, channelVars>>

CppStep ==
  part = "C++" /\ CppNext
  /\ UNCHANGED <<part, poolVars, collVars, bufferVars, argsVars, cmdVars, channelVars>>

ChannelStep ==
  part = "channel" /\ ChannelNext
  /\ UNCHANGED <<part, poolVars, collVars, bufferVars, argsVars, cmdVars, cppVars>>

RuntimeNext ==
  \/ PoolStep
  \/ CollectionStep
  \/ BufferStep
  \/ ArgumentsStep
  \/ CommandLineStep
  \/ CppStep
  \/ ChannelStep

RuntimeSpec == RuntimeInit /\ [][RuntimeNext]_runtimeVars
=============================================================================
