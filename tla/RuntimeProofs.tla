---------------------------- MODULE RuntimeProofs ----------------------------
(***************************************************************************)
(* Theorems about the parts of the C run time (CPool, CArguments,          *)
(* CCmdLine, CBuffer, CCollections) and the channels (Channel), for all    *)
(* values of their constants.                                              *)
(***************************************************************************)
EXTENDS CPool, CArguments, CCmdLine, Channel, CBuffer, CCollections,
        SequenceLemmas, SequenceTheorems
LOCAL INSTANCE FiniteSetsExt
LOCAL INSTANCE SequencesExt

-----------------------------------------------------------------------------
(***************************************************************************)
(* The arguments of a call.  The map of the types is never overfull, and   *)
(* one name more is refused only when it is full.                          *)
(***************************************************************************)
TypesFit == IsFiniteSet(DOMAIN types) /\ Cardinality(DOMAIN types) <= ArgLimit

LEMMA ArgumentsStep ==
  ASSUME TypesFit, ArgumentsTyped, [CArgumentsNext]_argsVars
  PROVE  TypesFit' /\ ArgumentsTyped'
<1>1. ASSUME NEW n \in ArgName, NEW t \in ArgType, NEW v \in ArgValue, PutArg(n, t, v)
      PROVE  TypesFit' /\ ArgumentsTyped'
  <2>1. /\ DOMAIN args' = DOMAIN args \cup {n}
        /\ \A m \in DOMAIN args' : args'[m] = IF m = n THEN v ELSE args[m]
    BY <1>1 DEF PutArg, With
  <2>2. /\ DOMAIN put' = DOMAIN put \cup {n}
        /\ \A m \in DOMAIN put' :
             put'[m] = IF m = n THEN [type |-> t, value |-> v] ELSE put[m]
    BY <1>1 DEF PutArg, With
  <2>3. CASE MapHasRoom(types, n)
    <3>1. /\ DOMAIN types' = DOMAIN types \cup {n}
          /\ \A m \in DOMAIN types' : types'[m] = IF m = n THEN t ELSE types[m]
      BY <1>1, <2>3 DEF PutArg, TypesWith, With
    <3>2. TypesFit'
      <4>1. /\ IsFiniteSet(DOMAIN types \cup {n})
            /\ Cardinality(DOMAIN types \cup {n}) =
                 IF n \in DOMAIN types THEN Cardinality(DOMAIN types)
                                       ELSE Cardinality(DOMAIN types) + 1
        BY FS_AddElement DEF TypesFit
      <4>2. Cardinality(DOMAIN types) \in Nat
        BY FS_CardinalityType DEF TypesFit
      <4> QED
        BY <2>3, <3>1, <4>1, <4>2, CArgumentsAssumption DEF TypesFit, MapHasRoom
    <3>3. \A m \in DOMAIN types : m # n => m \in DOMAIN types' /\ types'[m] = types[m]
      BY <3>1
    <3>4. ASSUME NEW m \in DOMAIN args', m # n
          PROVE  \/ m \in DOMAIN types' /\ types'[m] = put'[m].type
                 \/ m \notin DOMAIN types' /\ Cardinality(DOMAIN types)' = ArgLimit
      <4>1. CASE m \in DOMAIN types
        BY <2>1, <2>2, <3>3, <3>4, <4>1 DEF ArgumentsTyped
      <4>2. CASE m \notin DOMAIN types
        <5>1. Cardinality(DOMAIN types) = ArgLimit
          BY <2>1, <3>4, <4>2 DEF ArgumentsTyped
        <5>2. n \in DOMAIN types
          BY <2>3, <5>1, CArgumentsAssumption DEF MapHasRoom
        <5>3. DOMAIN types' = DOMAIN types
          BY <3>1, <5>2
        <5> QED
          BY <4>2, <5>1, <5>3
      <4> QED
        BY <4>1, <4>2
    <3>5. sent' = None
      BY <1>1 DEF PutArg
    <3>6. DOMAIN args' = DOMAIN put'
      BY <2>1, <2>2 DEF ArgumentsTyped
    <3>7. \A m \in DOMAIN args' : args'[m] = put'[m].value
      BY <2>1, <2>2, <3>6 DEF ArgumentsTyped
    <3>8. n \in DOMAIN types' /\ types'[n] = t /\ n \in DOMAIN put' /\ put'[n].type = t
      BY <2>2, <3>1
    <3>9. \A m \in DOMAIN args' :
            \/ m \in DOMAIN types' /\ types'[m] = put'[m].type
            \/ m \notin DOMAIN types' /\ Cardinality(DOMAIN types)' = ArgLimit
      BY <3>4, <3>8
    <3> QED
      BY <3>2, <3>5, <3>6, <3>7, <3>9 DEF ArgumentsTyped
  <2>4. CASE ~ MapHasRoom(types, n)
    <3>1. types' = types /\ n \notin DOMAIN types
      BY <1>1, <2>4 DEF PutArg, TypesWith, MapHasRoom
    <3>2. Cardinality(DOMAIN types) = ArgLimit
      BY <2>4, FS_CardinalityType, CArgumentsAssumption DEF MapHasRoom, TypesFit
    <3>3. sent' = None
      BY <1>1 DEF PutArg
    <3> QED
      BY <2>1, <2>2, <3>1, <3>2, <3>3 DEF ArgumentsTyped, TypesFit
  <2> QED
    BY <2>3, <2>4
<1>2. ASSUME ClearArgs
      PROVE  TypesFit' /\ ArgumentsTyped'
  BY <1>2 DEF ClearArgs, TypesFit, ArgumentsTyped
<1>3. ASSUME SendArgs
      PROVE  TypesFit' /\ ArgumentsTyped'
  BY <1>3 DEF SendArgs, TypesFit, ArgumentsTyped, Serializable
<1>4. ASSUME UNCHANGED argsVars
      PROVE  TypesFit' /\ ArgumentsTyped'
  BY <1>4 DEF argsVars, TypesFit, ArgumentsTyped
<1> QED
  BY <1>1, <1>2, <1>3, <1>4 DEF CArgumentsNext

(***************************************************************************)
(* Whatever a program puts and clears, a value bears the type it was put   *)
(* with, or none at all when the map of the types is full.                 *)
(***************************************************************************)
THEOREM TypesAgree == CArgumentsSpec => []ArgumentsTyped
<1>1. CArgumentsInit => TypesFit /\ ArgumentsTyped
  BY FS_EmptySet, CArgumentsAssumption DEF CArgumentsInit, TypesFit, ArgumentsTyped, None
<1> QED
  BY <1>1, ArgumentsStep, PTL DEF CArgumentsSpec

(***************************************************************************)
(* The frame of a call: every argument is in it once, in the order of the  *)
(* names.                                                                  *)
(***************************************************************************)
LEMMA NamesInOrder ==
  ASSUME NEW S, S \subseteq Nat, IsFiniteSet(S), S = DOMAIN args
  PROVE  /\ Ordered \in [1 .. Cardinality(S) -> S]
         /\ \A i, j \in 1 .. Cardinality(S) : i < j => Ordered[i] < Ordered[j]
         /\ \A n \in S : \E i \in 1 .. Cardinality(S) : Ordered[i] = n
<1> DEFINE k == Cardinality(S)
           InOrder(xs) == \A i, j \in 1 .. k : i < j => xs[i] < xs[j]
<1>1. PICK ys \in [1 .. k -> S] : InOrder(ys)
  BY AscendingEnumeration
<1>2. Ordered = CHOOSE names \in [1 .. k -> S] : InNameOrder(names)
  BY DEF Ordered
<1>3. \A xs \in [1 .. k -> S] : InNameOrder(xs) <=> InOrder(xs)
  BY DEF InNameOrder
<1>4. Ordered \in [1 .. k -> S] /\ InOrder(Ordered)
  BY <1>1, <1>2, <1>3
<1> HIDE DEF k, InOrder
<1>5. /\ Ordered \in [1 .. Cardinality(S) -> S]
      /\ \A i, j \in 1 .. Cardinality(S) : i < j => Ordered[i] < Ordered[j]
  BY <1>4 DEF k, InOrder
<1> QED
  BY <1>5, AscendingIsComplete

(* The loop over the arguments stops before the first char, if any. *)
LEMMA StopsBeforeChar ==
  ASSUME NEW n \in Nat, NEW frame, DOMAIN frame = 1 .. n, Len(frame) = n
  PROVE  LET k == InStep(frame) IN
         /\ k \in 0 .. n
         /\ k = n \/ (k + 1 \in 1 .. n /\ frame[k + 1].type = "char")
         /\ (\A i \in 1 .. n : frame[i].type # "char") => k = n
<1> DEFINE chars == {i \in DOMAIN frame : frame[i].type = "char"}
           k == InStep(frame)
<1>1. CASE chars = {}
  BY <1>1 DEF InStep
<1>2. CASE chars # {}
  <2> HIDE DEF chars
  <2>0. chars \subseteq Nat
    BY DEF chars
  <2>1. PICK c \in chars : \A j \in chars : c <= j
    BY <1>2, <2>0, LeastNumber
  <2> USE DEF chars
  <2>2. k = (CHOOSE i \in chars : \A j \in chars : i <= j) - 1
    BY <1>2 DEF InStep
  <2>3. c = CHOOSE i \in chars : \A j \in chars : i <= j
    BY <2>1
  <2>4. k = c - 1 /\ c \in 1 .. n /\ frame[c].type = "char"
    BY <2>1, <2>2, <2>3
  <2> QED
    BY <2>4
<1> QED
  BY <1>1, <1>2

(***************************************************************************)
(* What the peer makes of a call whose arguments have the types that they  *)
(* were put with.                                                          *)
(***************************************************************************)
LEMMA CallTransfers ==
  ASSUME TypesFit, ArgumentsTyped, SendArgs, IsFiniteSet(DOMAIN args),
         DOMAIN args \subseteq Nat
  PROVE  ArgumentsTransferred'
<1> DEFINE S == DOMAIN args
           K == Cardinality(S)
           o == Ordered
           frame == ArgsFrame
           k == InStep(frame)
           ok == Read(frame, k)
<1>1. K \in Nat
  BY FS_CardinalityType
<1>2. /\ o \in [1 .. K -> S]
      /\ \A i, j \in 1 .. K : i < j => o[i] < o[j]
      /\ \A n \in S : \E i \in 1 .. K : o[i] = n
  BY NamesInOrder
<1>3. \A n \in S : n \in DOMAIN types /\ types[n] = put[n].type /\ args[n] = put[n].value
  BY DEF SendArgs, Serializable, ArgumentsTyped
<1>4. /\ DOMAIN frame = 1 .. K
      /\ \A i \in 1 .. K : frame[i] = [name |-> o[i], type |-> types[o[i]],
                                       value |-> args[o[i]]]
  BY <1>2 DEF ArgsFrame
<1>5. Len(frame) = K
  BY <1>1, <1>4
<1>6. /\ k \in 0 .. K
      /\ k = K \/ (k + 1 \in 1 .. K /\ frame[k + 1].type = "char")
      /\ (\A i \in 1 .. K : frame[i].type # "char") => k = K
  BY <1>1, <1>4, <1>5, StopsBeforeChar
<1>7. /\ put' = put
      /\ \/ gotArgs' = ok
         \/ /\ k + 1 < K
            /\ k > 0
            /\ gotArgs' = [ok EXCEPT ![frame[k].name] =
                                       [type |-> "plain", value |-> Garbage]]
  BY <1>5 DEF SendArgs
<1>8. DOMAIN put = S
  BY DEF ArgumentsTyped
<1> HIDE DEF o, k, frame, K, S
<1>9. \A i \in 1 .. K : /\ o[i] \in S
                        /\ frame[i].name = o[i]
                        /\ frame[i].type = put[o[i]].type
                        /\ frame[i].value = put[o[i]].value
  BY <1>2, <1>3, <1>4
<1>10. \A i, j \in 1 .. K : o[i] = o[j] => i = j
  <2>1. S \subseteq Nat
    BY DEF S
  <2> SUFFICES ASSUME NEW i \in 1 .. K, NEW j \in 1 .. K, i # j
               PROVE  o[i] # o[j]
    OBVIOUS
  <2>2. o[i] \in Nat /\ o[j] \in Nat
    BY <1>9, <2>1
  <2>3. i < j \/ j < i
    BY <1>1
  <2>4. o[i] < o[j] \/ o[j] < o[i]
    BY <1>2, <2>3
  <2> QED
    BY <2>2, <2>4
<1>11. DOMAIN ok = {o[i] : i \in 1 .. k}
  <2>1. DOMAIN ok = {frame[i].name : i \in 1 .. k}
    BY DEF Read
  <2>2. \A i \in 1 .. k : i \in 1 .. K
    BY <1>1, <1>6
  <2> QED
    BY <1>9, <2>1, <2>2
<1>12. ASSUME NEW i \in 1 .. k
       PROVE  ok[o[i]] = [type |-> TypeAtPeer(put[o[i]].type), value |-> put[o[i]].value]
  <2>1. i \in 1 .. K
    BY <1>1, <1>6
  <2>2. \A j \in 1 .. k : j \in 1 .. K
    BY <1>1, <1>6
  <2>3. o[i] \in {frame[j].name : j \in 1 .. k}
    BY <1>9, <2>1
  <2>4. i = CHOOSE j \in 1 .. k : frame[j].name = o[i]
    BY <1>9, <1>10, <2>1, <2>2
  <2>5. ok[o[i]] = LET j == CHOOSE j \in 1 .. k : frame[j].name = o[i]
                   IN  [type |-> TypeAtPeer(frame[j].type), value |-> frame[j].value]
    BY <2>3 DEF Read
  <2>6. ok[o[i]] = [type |-> TypeAtPeer(frame[i].type), value |-> frame[i].value]
    BY <2>4, <2>5
  <2> QED
    BY <1>9, <2>1, <2>6
<1> HIDE DEF ok
<1>13. DOMAIN gotArgs' = {o[i] : i \in 1 .. k}
  BY <1>7, <1>11
<1>14. ASSUME NEW i \in 1 .. k, i # k \/ k = K
       PROVE  gotArgs'[o[i]] = [type |-> TypeAtPeer(put[o[i]].type),
                                value |-> put[o[i]].value]
  <2>1. CASE gotArgs' = ok
    BY <1>12, <2>1
  <2>2. CASE /\ k + 1 < K
             /\ k > 0
             /\ gotArgs' = [ok EXCEPT ![frame[k].name] =
                                        [type |-> "plain", value |-> Garbage]]
    <3>1. i # k /\ k \in 1 .. K /\ i \in 1 .. K
      BY <1>1, <1>6, <1>14, <2>2
    <3>2. frame[k].name = o[k] /\ o[i] # o[k]
      BY <1>9, <1>10, <3>1
    <3>3. o[i] \in DOMAIN ok
      BY <1>11
    <3>4. gotArgs'[o[i]] = ok[o[i]]
      BY <2>2, <3>2, <3>3
    <3> QED
      BY <1>12, <3>4
  <2> QED
    BY <1>7, <2>1, <2>2
<1>15. DOMAIN gotArgs' \subseteq S
  <2>1. \A i \in 1 .. k : i \in 1 .. K
    BY <1>1, <1>6
  <2> QED
    BY <1>9, <1>13, <2>1
<1>16. ASSUME NEW n \in S,
              \A m \in S : put[m].type = "char" => \E p \in S : n < p /\ p < m
       PROVE  n \in DOMAIN gotArgs' /\ gotArgs'[n].value = put[n].value
  <2>1. PICK i \in 1 .. K : o[i] = n
    BY <1>2
  <2>2. i \in 1 .. k /\ (i # k \/ k = K)
    <3>1. CASE k = K
      BY <3>1
    <3>2. CASE k # K
      <4>1. k + 1 \in 1 .. K /\ frame[k + 1].type = "char"
        BY <1>6, <3>2
      <4>2. PICK c \in 1 .. K : c = k + 1
        BY <4>1
      <4>3. o[c] \in S /\ put[o[c]].type = "char"
        BY <1>9, <4>1, <4>2
      <4>4. PICK p \in S : n < p /\ p < o[c]
        BY <1>16, <4>3
      <4>5. PICK j \in 1 .. K : o[j] = p
        BY <1>2
      <4>6. S \subseteq Nat
        BY DEF S
      <4>7. i < j /\ j < c
        <5>1. o[i] \in Nat /\ o[j] \in Nat /\ o[c] \in Nat
          BY <1>9, <4>6
        <5>2. o[i] < o[j] /\ o[j] < o[c]
          BY <2>1, <4>4, <4>5
        <5>3. ~ (j < i) /\ ~ (c < j) /\ i # j /\ j # c
          BY <1>2, <5>1, <5>2
        <5> QED
          BY <1>1, <5>3
      <4> QED
        BY <1>1, <1>6, <4>2, <4>7
    <3> QED
      BY <3>1, <3>2
  <2>3. n \in DOMAIN gotArgs'
    BY <1>13, <2>1, <2>2
  <2>4. gotArgs'[o[i]] = [type |-> TypeAtPeer(put[o[i]].type), value |-> put[o[i]].value]
    BY <1>14, <2>2
  <2>5. gotArgs'[n].value = put[n].value
    BY <2>1, <2>4
  <2> QED
    BY <2>3, <2>5
<1>17. ASSUME \A n \in S : put[n].type # "char", NEW n \in S
       PROVE  gotArgs'[n] = [type |-> TypeAtPeer(put[n].type), value |-> put[n].value]
  <2>1. k = K
    BY <1>6, <1>9, <1>17
  <2>2. PICK i \in 1 .. K : o[i] = n
    BY <1>2
  <2> QED
    BY <1>14, <2>1, <2>2
<1> QED
  BY <1>7, <1>8, <1>15, <1>16, <1>17 DEF ArgumentsTransferred

ArgumentsNamed == IsFiniteSet(DOMAIN args) /\ DOMAIN args \subseteq ArgName

ArgumentsInvariant ==
  /\ TypesFit
  /\ ArgumentsTyped
  /\ ArgumentsNamed
  /\ ArgumentsTransferred

(***************************************************************************)
(* A call without characters among its arguments reaches the peer with all *)
(* of them.  With characters, what the peer has is right up to the         *)
(* argument just before the first one, for any names, types and limit.     *)
(***************************************************************************)
THEOREM ArgumentsAreTransferred == CArgumentsSpec => []ArgumentsTransferred
<1>1. CArgumentsInit => ArgumentsInvariant
  BY FS_EmptySet, CArgumentsAssumption
  DEF CArgumentsInit, ArgumentsInvariant, TypesFit, ArgumentsTyped, ArgumentsNamed,
      ArgumentsTransferred, None
<1>2. ASSUME ArgumentsInvariant, [CArgumentsNext]_argsVars
      PROVE  ArgumentsInvariant'
  <2>1. TypesFit' /\ ArgumentsTyped'
    BY <1>2, ArgumentsStep DEF ArgumentsInvariant
  <2>2. ASSUME NEW n \in ArgName, NEW t \in ArgType, NEW v \in ArgValue, PutArg(n, t, v)
        PROVE  ArgumentsNamed' /\ ArgumentsTransferred'
    <3>1. DOMAIN args' = DOMAIN args \cup {n} /\ sent' = None
      BY <2>2 DEF PutArg, With
    <3>2. IsFiniteSet(DOMAIN args \cup {n})
      BY <1>2, FS_AddElement DEF ArgumentsInvariant, ArgumentsNamed
    <3> QED
      BY <1>2, <3>1, <3>2 DEF ArgumentsInvariant, ArgumentsNamed, ArgumentsTransferred
  <2>3. ASSUME ClearArgs
        PROVE  ArgumentsNamed' /\ ArgumentsTransferred'
    BY <2>3, FS_EmptySet DEF ClearArgs, ArgumentsNamed, ArgumentsTransferred
  <2>4. ASSUME SendArgs
        PROVE  ArgumentsNamed' /\ ArgumentsTransferred'
    <3>1. IsFiniteSet(DOMAIN args) /\ DOMAIN args \subseteq Nat
      BY <1>2, CArgumentsAssumption DEF ArgumentsInvariant, ArgumentsNamed
    <3>2. ArgumentsTransferred'
      BY <1>2, <2>4, <3>1, CallTransfers DEF ArgumentsInvariant
    <3>3. UNCHANGED args
      BY <2>4 DEF SendArgs
    <3> QED
      BY <1>2, <3>2, <3>3 DEF ArgumentsInvariant, ArgumentsNamed
  <2>5. ASSUME UNCHANGED argsVars
        PROVE  ArgumentsNamed' /\ ArgumentsTransferred'
    BY <1>2, <2>5 DEF argsVars, ArgumentsInvariant, ArgumentsNamed, ArgumentsTransferred
  <2>6. ArgumentsNamed' /\ ArgumentsTransferred'
    BY <1>2, <2>2, <2>3, <2>4, <2>5 DEF CArgumentsNext
  <2> QED
    BY <2>1, <2>6 DEF ArgumentsInvariant
<1>3. ArgumentsInvariant => ArgumentsTransferred
  BY DEF ArgumentsInvariant
<1> QED
  BY <1>1, <1>2, <1>3, PTL DEF CArgumentsSpec

-----------------------------------------------------------------------------
(***************************************************************************)
(* The command line.  The loop over the arguments is defined, by induction *)
(* on their number.                                                        *)
(***************************************************************************)
LEMMA TurnsAreTaken ==
  ASSUME NEW argv, Len(argv) \in Nat
  PROVE  /\ Turns(argv)[0] = [defs |-> defs, status |-> "NO_ERROR"]
         /\ \A n \in 1 .. Len(argv) :
              Turns(argv)[n] = ParseArgument(Turns(argv)[n - 1], argv[n])
<1> DEFINE base == [defs |-> defs, status |-> "NO_ERROR"]
           One(acc, n) == ParseArgument(acc, argv[n])
           Solves(f, m) ==
             f = [n \in 0 .. m |-> IF n = 0 THEN base ELSE One(f[n - 1], n)]
           T == {m \in Nat : \E f : Solves(f, m)}
<1>1. Turns(argv) = CHOOSE turn : Solves(turn, Len(argv))
  BY DEF Turns
<1> HIDE DEF base, One
<1>2. 0 \in T
  <2>1. Solves([n \in 0 .. 0 |-> base], 0)
    OBVIOUS
  <2> QED
    BY <2>1
<1>3. ASSUME NEW m \in T \cap Nat
      PROVE  m + 1 \in T
  <2>1. PICK f : Solves(f, m)
    OBVIOUS
  <2> DEFINE g == [n \in 0 .. m + 1 |-> IF n = m + 1 THEN One(f[m], n) ELSE f[n]]
  <2>2. g[0] = base
    BY <2>1
  <2>3. ASSUME NEW n \in 1 .. m + 1
        PROVE  g[n] = One(g[n - 1], n)
    <3>1. n - 1 \in 0 .. m /\ n - 1 \in 0 .. m + 1 /\ n - 1 # m + 1
      OBVIOUS
    <3>2. g[n - 1] = f[n - 1]
      BY <3>1
    <3>3. CASE n = m + 1
      BY <3>2, <3>3
    <3>4. CASE n # m + 1
      <4>1. n \in 0 .. m /\ n # 0 /\ g[n] = f[n]
        BY <3>4
      <4>2. f[n] = One(f[n - 1], n)
        BY <2>1, <4>1
      <4> QED
        BY <3>2, <4>1, <4>2
    <3> QED
      BY <3>3, <3>4
  <2>4. \A n \in 0 .. m + 1 : g[n] = IF n = 0 THEN base ELSE One(g[n - 1], n)
    <3> SUFFICES ASSUME NEW n \in 0 .. m + 1
                 PROVE  g[n] = IF n = 0 THEN base ELSE One(g[n - 1], n)
      OBVIOUS
    <3>1. n = 0 \/ n \in 1 .. m + 1
      OBVIOUS
    <3> HIDE DEF g
    <3> QED
      BY <2>2, <2>3, <3>1
  <2>5. g = [n \in 0 .. m + 1 |-> g[n]]
    OBVIOUS
  <2> HIDE DEF g
  <2>6. Solves(g, m + 1)
    BY <2>4, <2>5
  <2> HIDE DEF Solves
  <2>7. m + 1 \in Nat /\ \E h : Solves(h, m + 1)
    BY <2>6
  <2> QED
    BY <2>7
<1> HIDE DEF T
<1>4. Len(argv) \in T
  BY <1>2, <1>3, NumbersFromZero
<1>5. PICK t : t = Turns(argv) /\ Solves(t, Len(argv))
  BY <1>1, <1>4 DEF T
<1>6. t[0] = base
  BY <1>5
<1>7. \A n \in 1 .. Len(argv) : t[n] = One(t[n - 1], n)
  BY <1>5
<1> QED
  BY <1>5, <1>6, <1>7 DEF base, One

(* The first definition that an argument matches. *)
LEMMA FirstMatch ==
  ASSUME NEW S, NEW ds \in Seq(S), NEW arg
  PROVE  LET r == FirstMatching(ds, arg) IN
         \/ /\ r = 0
            /\ \A j \in 1 .. Len(ds) : ds[j].name # arg.name
         \/ /\ r \in 1 .. Len(ds)
            /\ ds[r].name = arg.name
            /\ \A j \in 1 .. r - 1 : ds[j].name # arg.name
<1> DEFINE I == {i \in 1 .. Len(ds) : ds[i].name = arg.name}
<1>1. FirstMatching(ds, arg) = IF I # {} THEN Min(I) ELSE 0
  BY DEF FirstMatching, Matches, SelectInSeq, Min
<1>2. CASE I = {}
  BY <1>1, <1>2
<1>3. CASE I # {}
  <2>1. I \subseteq Nat
    OBVIOUS
  <2> HIDE DEF I
  <2>2. PICK m \in I : \A n \in I : m <= n
    BY <1>3, <2>1, LeastNumber
  <2>3. Min(I) \in I /\ \A n \in I : Min(I) <= n
    BY <2>2 DEF Min
  <2>4. PICK r \in I : r = Min(I) /\ \A n \in I : r <= n
    BY <2>3
  <2>5. r = FirstMatching(ds, arg)
    BY <1>1, <1>3, <2>4
  <2>6. r \in 1 .. Len(ds) /\ ds[r].name = arg.name
    BY DEF I
  <2>7. ASSUME NEW j \in 1 .. r - 1, ds[j].name = arg.name
        PROVE  FALSE
    <3>1. j \in 1 .. Len(ds) /\ ~ r <= j
      BY <2>6
    <3>2. j \in I
      BY <2>7, <3>1 DEF I
    <3> QED
      BY <2>4, <3>1, <3>2
  <2> QED
    BY <2>5, <2>6, <2>7
<1> QED
  BY <1>2, <1>3

(* The value that is read is that of the first definition whose name       *)
(* starts the name that is asked for.                                      *)
LEMMA FirstCandidate ==
  ASSUME NEW i \in 1 .. Len(defs), NEW name, Len(defs) \in Nat,
         IsPrefix(defs[i].name, name),
         \A j \in 1 .. i - 1 : ~ IsPrefix(defs[j].name, name)
  PROVE  GetValue(name, defs[i].kind) = [status |-> "NO_ERROR", value |-> defs[i].value]
<1> DEFINE I == {j \in 1 .. Len(defs) : IsPrefix(defs[j].name, name)}
<1>1. i \in I /\ I \subseteq Nat
  OBVIOUS
<1>2. SelectInSeq(defs, LAMBDA d : Candidate(d, name)) = Min(I)
  BY <1>1 DEF SelectInSeq, Candidate, Min
<1>3. \A j \in I : i <= j
  OBVIOUS
<1> HIDE DEF I
<1>4. Min(I) \in I /\ Min(I) <= i
  BY <1>1, <1>3 DEF Min
<1>5. PICK m \in I : m = Min(I)
  BY <1>4
<1>6. m <= i /\ i <= m /\ m \in Nat /\ i \in Nat
  BY <1>1, <1>3, <1>4, <1>5
<1>7. SelectInSeq(defs, LAMBDA d : Candidate(d, name)) = i
  BY <1>2, <1>5, <1>6
<1> QED
  BY <1>7 DEF GetValue

(***************************************************************************)
(* The value of an option after some of the arguments.                     *)
(***************************************************************************)
OptionDef == [name : OptionName, kind : OptionKind, value : OptionValue \cup {Zero},
              dflt : OptionValue]

Fitting(d, argv, n) ==
  {i \in 1 .. n : argv[i].name = d.name /\ (d.kind = "number" \/ argv[i].value # Unreadable)}

MeantAfter(d, argv, n) ==
  IF Fitting(d, argv, n) = {} THEN d.dflt
  ELSE IF argv[Max(Fitting(d, argv, n))].value = Unreadable THEN Zero
  ELSE argv[Max(Fitting(d, argv, n))].value

(* An argument that does not fit an option changes nothing of what it      *)
(* means, and one that does decides it.                                    *)
LEMMA OneMoreArgument ==
  ASSUME NEW d, NEW argv, NEW n \in Nat
  PROVE  LET fits == /\ argv[n + 1].name = d.name
                     /\ d.kind = "number" \/ argv[n + 1].value # Unreadable
         IN  /\ ~ fits => MeantAfter(d, argv, n + 1) = MeantAfter(d, argv, n)
             /\ fits => MeantAfter(d, argv, n + 1) =
                          IF argv[n + 1].value = Unreadable THEN Zero ELSE argv[n + 1].value
<1> DEFINE fits == /\ argv[n + 1].name = d.name
                   /\ d.kind = "number" \/ argv[n + 1].value # Unreadable
<1>1. 1 .. n + 1 = (1 .. n) \cup {n + 1}
  OBVIOUS
<1>2. CASE ~ fits
  <2>1. Fitting(d, argv, n + 1) = Fitting(d, argv, n)
    BY <1>1, <1>2 DEF Fitting
  <2> QED
    BY <1>2, <2>1 DEF MeantAfter
<1>3. CASE fits
  <2> DEFINE F == Fitting(d, argv, n + 1)
  <2>1. n + 1 \in F /\ F \subseteq 1 .. n + 1
    BY <1>1, <1>3 DEF Fitting
  <2> HIDE DEF F
  <2>2. \A i \in F : i <= n + 1
    BY <2>1
  <2>3. Max(F) \in F /\ Max(F) >= n + 1
    BY <2>1, <2>2 DEF Max
  <2>4. Max(F) = n + 1
    <3>1. PICK m \in F : m = Max(F)
      BY <2>3
    <3>2. m \in Nat /\ m <= n + 1 /\ m >= n + 1
      BY <2>1, <2>2, <2>3, <3>1
    <3> QED
      BY <3>1, <3>2
  <2>5. F # {}
    BY <2>1
  <2>6. MeantAfter(d, argv, n + 1) =
          IF argv[n + 1].value = Unreadable THEN Zero ELSE argv[n + 1].value
    BY <2>4, <2>5 DEF F, MeantAfter
  <2> QED
    BY <1>3, <2>6
<1> QED
  BY <1>2, <1>3

(* What is meant for an option does not depend on the value it has. *)
LEMMA MeantByName ==
  ASSUME NEW d, NEW e, NEW argv, NEW n,
         d.name = e.name, d.kind = e.kind, d.dflt = e.dflt
  PROVE  MeantAfter(d, argv, n) = MeantAfter(e, argv, n)
<1>1. Fitting(d, argv, n) = Fitting(e, argv, n)
  BY DEF Fitting
<1> QED
  BY <1>1 DEF MeantAfter

(* The first definition of each name holds what is meant for it. *)
HoldsMeant(ds, argv, n) ==
  \A i \in 1 .. Len(ds) :
    (\A j \in 1 .. i - 1 : ds[j].name # ds[i].name) =>
      ds[i].value = MeantAfter(ds[i], argv, n)

(***************************************************************************)
(* One turn of the loop keeps the definitions and what they hold.          *)
(***************************************************************************)
LEMMA TurnHolds ==
  ASSUME NEW argv \in Seq(Argument), NEW n \in Nat, n + 1 \in 1 .. Len(argv),
         NEW ds \in Seq(OptionDef), NEW status, HoldsMeant(ds, argv, n)
  PROVE  LET acc == ParseArgument([defs |-> ds, status |-> status], argv[n + 1]) IN
         /\ acc.defs \in Seq(OptionDef)
         /\ HoldsMeant(acc.defs, argv, n + 1)
         /\ acc = [defs |-> acc.defs, status |-> acc.status]
<1>1. PICK arg \in Argument : arg = argv[n + 1]
  OBVIOUS
<1> DEFINE acc == ParseArgument([defs |-> ds, status |-> status], argv[n + 1])
           r == FirstMatching(ds, arg)
<1>2. \/ /\ r = 0
         /\ \A j \in 1 .. Len(ds) : ds[j].name # arg.name
      \/ /\ r \in 1 .. Len(ds)
         /\ ds[r].name = arg.name
         /\ \A j \in 1 .. r - 1 : ds[j].name # arg.name
  BY FirstMatch
<1>3. acc = IF r = 0 THEN [defs |-> ds, status |-> "NOT_FOUND"]
            ELSE [defs |-> [ds EXCEPT ![r].value = ValueFrom(ds[r], arg.value)],
                  status |-> StatusFrom(ds[r], arg.value, status)]
  BY <1>1 DEF ParseArgument
<1> HIDE DEF acc, r
<1>4. CASE r = 0
  <2>1. acc = [defs |-> ds, status |-> "NOT_FOUND"]
    BY <1>3, <1>4
  <2>2. ASSUME NEW i \in 1 .. Len(ds)
        PROVE  MeantAfter(ds[i], argv, n + 1) = MeantAfter(ds[i], argv, n)
    <3>1. argv[n + 1].name # ds[i].name
      BY <1>1, <1>2, <1>4
    <3> QED
      BY <3>1, OneMoreArgument
  <2>3. HoldsMeant(ds, argv, n + 1)
    BY <2>2 DEF HoldsMeant
  <2> QED
    BY <2>1, <2>3 DEF acc
<1>5. CASE r # 0
  <2>1. PICK k \in 1 .. Len(ds) : k = r
    BY <1>2, <1>5
  <2>2. ds[k].name = arg.name /\ \A j \in 1 .. k - 1 : ds[j].name # arg.name
    BY <1>2, <1>5, <2>1
  <2>3. PICK d \in OptionDef : d = ds[k]
    OBVIOUS
  <2> DEFINE v == ValueFrom(d, arg.value)
             es == [ds EXCEPT ![k] = [d EXCEPT !.value = v]]
  <2>4. acc.defs = es /\ acc = [defs |-> acc.defs, status |-> acc.status]
    BY <1>3, <1>5, <2>1, <2>3
  <2>5. v \in OptionValue \cup {Zero}
    BY DEF ValueFrom, OptionDef, Argument
  <2> HIDE DEF v
  <2>6. PICK e \in OptionDef : e = [d EXCEPT !.value = v]
    BY <2>5 DEF OptionDef
  <2>7. /\ e.name = d.name /\ e.kind = d.kind /\ e.dflt = d.dflt
        /\ e.value = v
    BY <2>6 DEF OptionDef
  <2>8. /\ es \in Seq(OptionDef)
        /\ Len(es) = Len(ds)
        /\ es[k] = e
        /\ \A i \in 1 .. Len(ds) : i # k => es[i] = ds[i]
    BY <2>6
  <2> HIDE DEF es
  <2>9. \A i \in 1 .. Len(ds) : es[i].name = ds[i].name
    BY <2>3, <2>7, <2>8
  <2>10. ASSUME NEW i \in 1 .. Len(ds),
                \A j \in 1 .. i - 1 : es[j].name # es[i].name
         PROVE  es[i].value = MeantAfter(es[i], argv, n + 1)
    <3>1. \A j \in 1 .. i - 1 : ds[j].name # ds[i].name
      <4>1. \A j \in 1 .. i - 1 : j \in 1 .. Len(ds)
        OBVIOUS
      <4> QED
        BY <2>9, <2>10, <4>1
    <3>2. ds[i].value = MeantAfter(ds[i], argv, n)
      BY <3>1 DEF HoldsMeant
    <3>3. CASE i = k
      <4>1. es[i] = e /\ ds[i] = d
        BY <2>3, <2>8, <3>3
      <4>2. MeantAfter(e, argv, n + 1) = MeantAfter(d, argv, n + 1)
        BY <2>7, MeantByName
      <4>3. argv[n + 1] = arg /\ arg.name = d.name
        BY <1>1, <2>2, <2>3
      <4>4. CASE d.kind = "number" \/ arg.value # Unreadable
        <5>1. MeantAfter(d, argv, n + 1) = IF arg.value = Unreadable THEN Zero ELSE arg.value
          BY <4>3, <4>4, OneMoreArgument
        <5>2. v = IF arg.value = Unreadable THEN Zero ELSE arg.value
          BY <4>4 DEF v, ValueFrom
        <5> QED
          BY <2>7, <4>1, <4>2, <5>1, <5>2
      <4>5. CASE ~ (d.kind = "number" \/ arg.value # Unreadable)
        <5>1. MeantAfter(d, argv, n + 1) = MeantAfter(d, argv, n)
          BY <4>3, <4>5, OneMoreArgument
        <5>2. v = d.value
          BY <4>5 DEF v, ValueFrom
        <5> QED
          BY <2>7, <3>2, <4>1, <4>2, <5>1, <5>2
      <4> QED
        BY <4>4, <4>5
    <3>4. CASE i # k
      <4>1. es[i] = ds[i]
        BY <2>8, <3>4
      <4>2. ds[i].name # arg.name
        <5>1. CASE i < k
          BY <2>2, <5>1
        <5>2. CASE k < i
          <6>1. k \in 1 .. i - 1
            BY <5>2
          <6> QED
            BY <2>2, <3>1, <6>1
        <5>3. i < k \/ k < i
          BY <3>4
        <5> QED
          BY <5>1, <5>2, <5>3
      <4>3. argv[n + 1].name # ds[i].name
        BY <1>1, <4>2
      <4>4. MeantAfter(ds[i], argv, n + 1) = MeantAfter(ds[i], argv, n)
        BY <4>3, OneMoreArgument
      <4> QED
        BY <3>2, <4>1, <4>4
    <3> QED
      BY <3>3, <3>4
  <2>11. HoldsMeant(es, argv, n + 1)
    BY <2>8, <2>10 DEF HoldsMeant
  <2> QED
    BY <2>4, <2>8, <2>11 DEF acc
<1> QED
  BY <1>4, <1>5

(***************************************************************************)
(* The options before and after the command line is parsed.                *)
(***************************************************************************)
OptionsKept ==
  /\ defs \in Seq(OptionDef)
  /\ given \in Seq(Argument)
  /\ HoldsMeant(defs, given, Len(given))

LEMMA OptionAdded ==
  ASSUME OptionsKept,
         NEW name \in OptionName, NEW kind \in OptionKind, NEW dflt \in OptionValue,
         AddOption(name, kind, dflt)
  PROVE  OptionsKept'
<1>1. PICK d \in OptionDef : d = [name |-> name, kind |-> kind, value |-> dflt,
                                  dflt |-> dflt]
  BY DEF OptionDef
<1>2. defs' = Append(defs, d) /\ given' = given /\ given = <<>>
  BY <1>1 DEF AddOption
<1>3. PICK ds \in Seq(OptionDef) : ds = defs
  BY DEF OptionsKept
<1> DEFINE es == Append(ds, d)
<1>4. /\ Len(es) = Len(ds) + 1
      /\ \A i \in 1 .. Len(ds) : es[i] = ds[i]
      /\ es[Len(ds) + 1] = d
      /\ Len(ds) \in Nat
      /\ es \in Seq(OptionDef)
  OBVIOUS
<1> HIDE DEF es
<1>5. Len(given) = 0
  BY <1>2
<1>6. HoldsMeant(ds, given, 0)
  BY <1>3, <1>5 DEF OptionsKept
<1>7. ASSUME NEW i \in 1 .. Len(es),
             \A j \in 1 .. i - 1 : es[j].name # es[i].name
      PROVE  es[i].value = MeantAfter(es[i], given, 0)
  <2>1. CASE i = Len(ds) + 1
    <3>1. es[i] = d /\ d.value = d.dflt
      BY <1>1, <1>4, <2>1
    <3>2. Fitting(d, given, 0) = {}
      BY DEF Fitting
    <3> QED
      BY <3>1, <3>2 DEF MeantAfter
  <2>2. CASE i # Len(ds) + 1
    <3>1. i \in 1 .. Len(ds) /\ es[i] = ds[i] /\ \A j \in 1 .. i - 1 : es[j] = ds[j]
      BY <1>4, <2>2
    <3>2. \A j \in 1 .. i - 1 : ds[j].name # ds[i].name
      BY <1>7, <3>1
    <3> QED
      BY <1>6, <3>1, <3>2 DEF HoldsMeant
  <2> QED
    BY <2>1, <2>2
<1>8. HoldsMeant(es, given, 0)
  BY <1>7 DEF HoldsMeant
<1>9. defs' = es
  BY <1>2, <1>3 DEF es
<1> QED
  BY <1>2, <1>4, <1>5, <1>8, <1>9 DEF OptionsKept

LEMMA ArgumentsParsed ==
  ASSUME OptionsKept, NEW argv \in SeqOf(Argument, MaxArgv), Parse(argv)
  PROVE  OptionsKept'
<1>1. argv \in Seq(Argument) /\ Len(argv) \in Nat
  BY CCmdLineAssumption DEF SeqOf
<1>2. given = <<>> /\ given' = argv /\ defs' = Turns(argv)[Len(argv)].defs
  BY DEF Parse
<1> DEFINE turn(n) == Turns(argv)[n]
           TurnKept(n) == /\ turn(n).defs \in Seq(OptionDef)
                      /\ HoldsMeant(turn(n).defs, argv, n)
                      /\ turn(n) = [defs |-> turn(n).defs, status |-> turn(n).status]
           T == {n \in Nat : n <= Len(argv) => TurnKept(n)}
<1>3. /\ turn(0) = [defs |-> defs, status |-> "NO_ERROR"]
      /\ \A n \in 1 .. Len(argv) : turn(n) = ParseArgument(turn(n - 1), argv[n])
  BY <1>1, TurnsAreTaken
<1> HIDE DEF turn
<1>4. 0 \in T
  <2>1. PICK ds \in Seq(OptionDef) : ds = defs
    BY DEF OptionsKept
  <2>2. HoldsMeant(ds, given, 0)
    BY <1>2, <2>1 DEF OptionsKept
  <2>3. ASSUME NEW i \in 1 .. Len(ds)
        PROVE  MeantAfter(ds[i], given, 0) = MeantAfter(ds[i], argv, 0)
    <3>1. Fitting(ds[i], given, 0) = {} /\ Fitting(ds[i], argv, 0) = {}
      BY DEF Fitting
    <3> QED
      BY <3>1 DEF MeantAfter
  <2>4. HoldsMeant(ds, argv, 0)
    BY <2>2, <2>3 DEF HoldsMeant
  <2>5. turn(0).defs = ds /\ turn(0) = [defs |-> turn(0).defs, status |-> turn(0).status]
    BY <1>3, <2>1
  <2>6. TurnKept(0)
    BY <2>4, <2>5
  <2> QED
    BY <2>6
<1>5. ASSUME NEW n \in T \cap Nat
      PROVE  n + 1 \in T
  <2>1. CASE n + 1 <= Len(argv)
    <3>1. n + 1 \in 1 .. Len(argv) /\ n <= Len(argv) /\ n + 1 - 1 = n
      BY <1>1, <2>1
    <3>2. TurnKept(n)
      BY <3>1
    <3>3. turn(n + 1) = ParseArgument(turn(n), argv[n + 1])
      BY <1>3, <3>1
    <3>4. PICK ds \in Seq(OptionDef) : ds = turn(n).defs
      BY <3>2
    <3>5. HoldsMeant(ds, argv, n) /\ turn(n) = [defs |-> ds, status |-> turn(n).status]
      BY <3>2, <3>4
    <3>6. PICK s : s = turn(n).status
      OBVIOUS
    <3>7. turn(n + 1) = ParseArgument([defs |-> ds, status |-> s], argv[n + 1])
      BY <3>3, <3>5, <3>6
    <3>8. LET acc == ParseArgument([defs |-> ds, status |-> s], argv[n + 1]) IN
          /\ acc.defs \in Seq(OptionDef)
          /\ HoldsMeant(acc.defs, argv, n + 1)
          /\ acc = [defs |-> acc.defs, status |-> acc.status]
      BY <1>1, <3>1, <3>5, TurnHolds
    <3>9. TurnKept(n + 1)
      BY <3>7, <3>8
    <3> QED
      BY <3>9
  <2>2. CASE ~ (n + 1 <= Len(argv))
    BY <2>2
  <2> QED
    BY <2>1, <2>2
<1> HIDE DEF T
<1>6. Len(argv) \in T
  BY <1>1, <1>4, <1>5, NumbersFromZero
<1>7. TurnKept(Len(argv))
  BY <1>1, <1>6 DEF T
<1>8. defs' = turn(Len(argv)).defs
  BY <1>2 DEF turn
<1> QED
  BY <1>1, <1>2, <1>7, <1>8 DEF OptionsKept

(* What is kept is what is read. *)
LEMMA OptionsAreRead ==
  ASSUME OptionsKept
  PROVE  OptionsReadBack
<1> SUFFICES ASSUME NEW i \in DOMAIN defs,
                    \A j \in 1 .. (i - 1) : ~IsPrefix(defs[j].name, defs[i].name)
             PROVE  GetValue(defs[i].name, defs[i].kind) =
                      [status |-> "NO_ERROR", value |-> Meant(defs[i])]
  BY DEF OptionsReadBack
<1>1. /\ Len(defs) \in Nat
      /\ i \in 1 .. Len(defs)
      /\ \A j \in 1 .. Len(defs) : defs[j].name \in Seq(Nat)
  <2>1. /\ Len(defs) \in Nat
        /\ i \in 1 .. Len(defs)
        /\ \A j \in 1 .. Len(defs) : defs[j] \in OptionDef
    BY DEF OptionsKept
  <2>2. \A j \in 1 .. Len(defs) : defs[j].name \in OptionName
    BY <2>1 DEF OptionDef
  <2> QED
    BY <2>1, <2>2, CCmdLineAssumption
<1>2. IsPrefix(defs[i].name, defs[i].name)
  BY <1>1 DEF IsPrefix
<1>3. PICK name \in Seq(Nat) : name = defs[i].name
  BY <1>1
<1>4. GetValue(defs[i].name, defs[i].kind) = [status |-> "NO_ERROR", value |-> defs[i].value]
  <2>1. /\ IsPrefix(defs[i].name, name)
        /\ \A j \in 1 .. i - 1 : ~ IsPrefix(defs[j].name, name)
    BY <1>2, <1>3
  <2>2. GetValue(name, defs[i].kind) = [status |-> "NO_ERROR", value |-> defs[i].value]
    BY <1>1, <2>1, FirstCandidate
  <2> QED
    BY <1>3, <2>2
<1>5. \A j \in 1 .. i - 1 : defs[j].name # defs[i].name
  BY <1>2
<1>6. defs[i].value = MeantAfter(defs[i], given, Len(given))
  BY <1>1, <1>5 DEF OptionsKept, HoldsMeant
<1>7. Meant(defs[i]) = MeantAfter(defs[i], given, Len(given))
  <2>1. DOMAIN given = 1 .. Len(given)
    BY DEF OptionsKept
  <2> QED
    BY <2>1 DEF Meant, MeantAfter, Fitting, Max
<1> QED
  BY <1>4, <1>6, <1>7

(***************************************************************************)
(* An option is read back with the value that the command line meant for   *)
(* it, whatever options there are and however many arguments, in any       *)
(* order, unless the name of an earlier option starts its own.             *)
(***************************************************************************)
THEOREM OptionsAreReadBack == CCmdLineSpec => []OptionsReadBack
<1>1. CCmdLineInit => OptionsKept
  <2>1. <<>> \in Seq(OptionDef) /\ <<>> \in Seq(Argument)
    OBVIOUS
  <2> QED
    BY <2>1 DEF CCmdLineInit, OptionsKept, HoldsMeant
<1>2. ASSUME OptionsKept, [CCmdLineNext]_cmdVars
      PROVE  OptionsKept'
  <2>1. ASSUME AddOptionTooMany
        PROVE  OptionsKept'
    BY <1>2, <2>1 DEF AddOptionTooMany, OptionsKept
  <2>2. ASSUME UNCHANGED cmdVars
        PROVE  OptionsKept'
    BY <1>2, <2>2 DEF cmdVars, OptionsKept
  <2> QED
    BY <1>2, <2>1, <2>2, OptionAdded, ArgumentsParsed DEF CCmdLineNext
<1> QED
  BY <1>1, <1>2, OptionsAreRead, PTL DEF CCmdLineSpec

-----------------------------------------------------------------------------
(***************************************************************************)
(* Channels.  A receiver ends because its socket was refused, which the    *)
(* history keeps, or because its channel is being deleted.                 *)
(***************************************************************************)
EndTyped ==
  /\ phase \in [End -> {"none", "open", "deleting", "deleted"}]
  /\ receiver \in [End -> {"receiving", "calling", "ended"}]
  /\ refused \in [End -> BOOLEAN]

RefusedIsKept == \A e \in End : refused[e] => e \in everRefused

StartedByNew == \A e \in End : phase[e] = "none" => receiver[e] = "ended"

ReceiverInv == EndTyped /\ RefusedIsKept /\ StartedByNew /\ ReceiverGoesOn

LEMMA ReceiverStep ==
  ASSUME ReceiverInv, [ChannelNext]_channelVars
  PROVE  ReceiverInv'
<1> USE DEF ReceiverInv, EndTyped, RefusedIsKept, StartedByNew, ReceiverGoesOn
<1>0. \A c \in CEnd : c \in End
  BY DEF End
<1>1. ASSUME UNCHANGED <<phase, receiver, refused, everRefused>>
      PROVE  ReceiverInv'
  BY <1>1
<1>2. ASSUME NEW e \in End, New(e)
      PROVE  ReceiverInv'
  BY <1>2 DEF New
<1>3. ASSUME NEW e \in End, NEW m, NEW list, SendTo(e, m, list)
      PROVE  ReceiverInv'
  BY <1>3 DEF SendTo
<1>4. ASSUME NEW e \in End, SendReportsRefusal(e)
      PROVE  ReceiverInv'
  BY <1>4 DEF SendReportsRefusal
<1>5. ASSUME NEW e \in End, Receive(e) \/ Call(e) \/ JavaReceive(e)
      PROVE  ReceiverInv'
  <2>1. UNCHANGED <<phase, refused, everRefused>>
    BY <1>5 DEF Receive, Call, JavaReceive
  <2>2. /\ receiver[e] # "ended"
        /\ \E r \in {"receiving", "calling"} : receiver' = [receiver EXCEPT ![e] = r]
    BY <1>5 DEF Receive, Call, JavaReceive, GoesOn
  <2> QED
    BY <2>1, <2>2
<1>6. ASSUME NEW e \in End, ReceiveFails(e)
      PROVE  ReceiverInv'
  BY <1>6 DEF ReceiveFails, Woken
<1>7. ASSUME NEW c \in CEnd, DeleteBegins(c) \/ DeleteEnds(c)
      PROVE  ReceiverInv'
  <2>1. UNCHANGED <<receiver, refused, everRefused>>
    BY <1>7 DEF DeleteBegins, DeleteEnds
  <2>2. \E v \in {"deleting", "deleted"} : phase' = [phase EXCEPT ![c] = v]
    BY <1>7 DEF DeleteBegins, DeleteEnds
  <2> QED
    BY <1>0, <2>1, <2>2
<1>8. ASSUME NEW k, AddFactory(k) \/ JavaAddFactory(k)
      PROVE  ReceiverInv'
  BY <1>1, <1>8 DEF AddFactory, JavaAddFactory
<1>9. ASSUME NEW e, NEW m, \/ AddHandlerBegins(e, m) \/ AddHandlerEnds
                           \/ JavaAddHandler(e, m) \/ CallCrashes(e)
      PROVE  ReceiverInv'
  BY <1>1, <1>9 DEF AddHandlerBegins, AddHandlerEnds, JavaAddHandler, CallCrashes
<1>10. JavaEnd \subseteq End
  BY DEF End
<1> QED
  BY <1>0, <1>1, <1>2, <1>3, <1>4, <1>5, <1>6, <1>7, <1>8, <1>9, <1>10
     DEF ChannelNext, channelVars, Send, JavaSend

(***************************************************************************)
(* Nothing that a channel in use receives ends its receiver.               *)
(***************************************************************************)
THEOREM ReceiversGoOn == ChannelSpec => []ReceiverGoesOn
<1>1. ChannelInit => ReceiverInv
  BY DEF ChannelInit, ReceiverInv, EndTyped, RefusedIsKept, StartedByNew, ReceiverGoesOn
<1>2. ReceiverInv => ReceiverGoesOn
  BY DEF ReceiverInv
<1> QED
  BY <1>1, <1>2, ReceiverStep, PTL DEF ChannelSpec

-----------------------------------------------------------------------------
(***************************************************************************)
(* The handlers and the factories of a C channel.  qsort() is known by     *)
(* what it promises, which can be kept; bsearch() by its steps.            *)
(***************************************************************************)
(* What rearranges an array. *)
LEMMA RearrangedBy ==
  ASSUME NEW s
  PROVE  /\ \A p \in Orders(DOMAIN s) :
              [i \in DOMAIN s |-> s[p[i]]] \in Rearranged(s)
         /\ \A t \in Rearranged(s) :
              \E p \in Orders(DOMAIN s) : t = [i \in DOMAIN s |-> s[p[i]]]
<1> DEFINE by(p) == [i \in DOMAIN s |-> s[p[i]]]
<1>1. Rearranged(s) = {by(p) : p \in Orders(DOMAIN s)}
  BY DEF Rearranged
<1> HIDE DEF by
<1>2. /\ \A p \in Orders(DOMAIN s) : by(p) \in Rearranged(s)
      /\ \A t \in Rearranged(s) :
           \E p \in Orders(DOMAIN s) : t = by(p)
  BY <1>1
<1> QED
  BY <1>2 DEF by

(* A number takes its place among numbers that ascend. *)
LEMMA InsertedAscends ==
  ASSUME NEW array \in Seq(Nat), NEW n \in Nat, Ascending(array)
  PROVE  /\ Inserted(array, n) \in Seq(Nat)
         /\ Ascending(Inserted(array, n))
         /\ ToSet(Inserted(array, n)) = ToSet(array) \cup {n}
<1> DEFINE s == Append(array, n)
           last == Len(array) + 1
           D == 1 .. last
<1>1. /\ s \in Seq(Nat)
      /\ Len(s) = last
      /\ \A i \in 1 .. Len(array) : s[i] = array[i]
      /\ s[last] = n
      /\ Len(array) \in Nat
  BY AppendIndex
<1>2. DOMAIN s = D /\ \A i \in D : s[i] \in Nat
  BY <1>1
<1>3. PICK k \in D : /\ \A i \in 1 .. k - 1 : s[i] <= n
                     /\ k < last => n < s[k]
  <2> DEFINE Larger == {i \in 1 .. Len(array) : n < array[i]}
  <2>1. CASE Larger = {}
    <3>1. \A i \in 1 .. last - 1 : s[i] <= n
      BY <1>1, <2>1
    <3> QED
      BY <1>1, <3>1
  <2>2. CASE Larger # {}
    <3>1. Larger \subseteq Nat
      OBVIOUS
    <3> HIDE DEF Larger
    <3>2. PICK k \in Larger : \A i \in Larger : k <= i
      BY <2>2, <3>1, LeastNumber
    <3>3. k \in 1 .. Len(array) /\ n < array[k]
      BY DEF Larger
    <3>4. \A i \in 1 .. k - 1 : ~ n < array[i]
      BY <1>1, <3>2, <3>3 DEF Larger
    <3>5. \A i \in 1 .. k - 1 : s[i] <= n
      BY <1>1, <3>3, <3>4
    <3> QED
      BY <1>1, <3>3, <3>5
  <2> QED
    BY <2>1, <2>2
<1> DEFINE p == [i \in D |-> IF i < k THEN i ELSE IF i = k THEN last ELSE i - 1]
           t == [i \in D |-> s[p[i]]]
<1> HIDE DEF s
<1>4. p \in Orders(D)
  <2>1. p \in [D -> D]
    BY <1>1
  <2>2. ASSUME NEW j \in D
        PROVE  \E i \in D : p[i] = j
    <3>1. CASE j < k
      BY <3>1
    <3>2. CASE j = last
      BY <1>1, <3>2
    <3>3. CASE j >= k /\ j # last
      <4>1. j + 1 \in D /\ p[j + 1] = j
        BY <1>1, <3>3
      <4> QED
        BY <4>1
    <3> QED
      BY <1>1, <3>1, <3>2, <3>3
  <2> HIDE DEF p
  <2> QED
    BY <2>1, <2>2 DEF Orders
<1> HIDE DEF p
<1>41. \A a \in D : /\ a < k => t[a] = s[a]
                    /\ a = k => t[a] = s[last]
                    /\ a > k => t[a] = s[a - 1]
  <2>1. \A a \in D : t[a] = s[p[a]]
    OBVIOUS
  <2>2. \A a \in D : /\ a < k => p[a] = a
                     /\ a = k => p[a] = last
                     /\ a > k => p[a] = a - 1
    BY <1>1 DEF p
  <2> HIDE DEF t
  <2> QED
    BY <2>1, <2>2
<1>5. t \in Rearranged(s)
  <2> HIDE DEF p, D
  <2> QED
    BY <1>2, <1>4, RearrangedBy
<1>6. Ascending(t)
  <2>1. ASSUME NEW i \in D, NEW j \in D, i < j
        PROVE  t[i] <= t[j]
    <3>3. k \in Nat /\ i \in Nat /\ j \in Nat
      BY <1>1
    <3>0. DOMAIN array = 1 .. Len(array)
      OBVIOUS
    <3>1. \A a, b \in 1 .. Len(array) : a < b => s[a] <= s[b]
      BY <1>1, <3>0 DEF Ascending
    <3>2. \A a \in k .. Len(array) : n <= s[a]
      <4>1. ASSUME NEW a \in k .. Len(array)
            PROVE  n <= s[a]
        <5>1. k \in 1 .. Len(array) /\ a \in 1 .. Len(array) /\ n < s[k]
          BY <1>1, <1>3
        <5>2. s[k] \in Nat /\ s[a] \in Nat
          BY <1>1, <1>2, <5>1
        <5>3. s[k] <= s[a]
          BY <3>1, <5>1, <5>2
        <5> QED
          BY <5>1, <5>2, <5>3
      <4> QED
        BY <4>1
    <3> HIDE DEF t
    <3>4. CASE j < k
      <4>1. t[i] = s[i] /\ t[j] = s[j]
        BY <2>1, <1>41, <3>3, <3>4
      <4>2. i \in 1 .. Len(array) /\ j \in 1 .. Len(array)
        BY <1>1, <2>1, <3>4, SMTT(30)
      <4> QED
        BY <2>1, <3>1, <4>1, <4>2
    <3>5. CASE j = k
      BY <1>1, <1>3, <2>1, <1>41, <3>3, <3>5
    <3>6. CASE j > k /\ i = k
      <4>1. t[i] = n /\ t[j] = s[j - 1]
        BY <1>1, <1>41, <3>3, <3>6
      <4>2. j - 1 \in k .. Len(array)
        BY <1>1, <3>6
      <4> QED
        BY <3>2, <4>1, <4>2
    <3>7. CASE j > k /\ i > k
      <4>1. t[i] = s[i - 1] /\ t[j] = s[j - 1]
        BY <1>41, <3>3, <3>7
      <4>2. i - 1 \in 1 .. Len(array) /\ j - 1 \in 1 .. Len(array) /\ i - 1 < j - 1
        BY <1>1, <2>1, <3>7
      <4> QED
        BY <3>1, <4>1, <4>2
    <3>8. CASE j > k /\ i < k
      <4>1. t[i] = s[i] /\ t[j] = s[j - 1]
        BY <1>41, <3>3, <3>8
      <4>2. i \in 1 .. k - 1 /\ j - 1 \in k .. Len(array) /\ i \in D /\ j - 1 \in D
        BY <1>1, <2>1, <3>8
      <4>3. s[i] <= n /\ n <= s[j - 1] /\ s[i] \in Nat /\ s[j - 1] \in Nat
        BY <1>2, <1>3, <3>2, <4>2
      <4> QED
        BY <4>1, <4>3
    <3> QED
      BY <1>1, <3>4, <3>5, <3>6, <3>7, <3>8
  <2>2. DOMAIN t = D
    OBVIOUS
  <2> HIDE DEF t, D
  <2> QED
    BY <2>1, <2>2 DEF Ascending
<1> HIDE DEF t, p
<1>7. Sorted(s) \in Rearranged(s) /\ Ascending(Sorted(s))
  BY <1>5, <1>6 DEF Sorted
<1>8. PICK q \in Orders(D) : Sorted(s) = [i \in D |-> s[q[i]]]
  <2> HIDE DEF D
  <2> QED
    BY <1>2, <1>7, RearrangedBy
<1>9. q \in [D -> D] /\ \A j \in D : \E i \in D : q[i] = j
  BY DEF Orders
<1>11. Sorted(s) \in [D -> Nat]
  BY <1>2, <1>8, <1>9
<1>12. Sorted(s) \in Seq(Nat)
  <2>1. last \in Nat
    BY <1>1
  <2> QED
    BY <1>11, <2>1
<1>13. ToSet(Sorted(s)) = ToSet(s)
  <2>1. ASSUME NEW i \in D
        PROVE  Sorted(s)[i] \in ToSet(s)
    BY <1>2, <1>8, <1>9 DEF ToSet
  <2>2. ASSUME NEW j \in D
        PROVE  s[j] \in ToSet(Sorted(s))
    <3>1. PICK i \in D : q[i] = j
      BY <1>9
    <3>2. Sorted(s)[i] = s[j] /\ i \in DOMAIN Sorted(s)
      BY <1>8, <3>1
    <3> QED
      BY <3>2 DEF ToSet
  <2> QED
    BY <1>2, <1>11, <2>1, <2>2 DEF ToSet
<1>14. ToSet(s) = ToSet(array) \cup {n}
  <2>1. DOMAIN s = 1 .. Len(s) /\ DOMAIN array = 1 .. Len(array)
    BY <1>1
  <2>2. ToSet(s) = {s[i] : i \in 1 .. Len(s)} /\ ToSet(array) = {array[i] : i \in 1 .. Len(array)}
    BY <2>1 DEF ToSet
  <2> QED
    BY <2>2, AppendElements DEF s
<1> QED
  BY <1>7, <1>12, <1>13, <1>14 DEF Inserted, s

(* In numbers that ascend, a binary search finds those that are there. *)
LEMMA SearchFinds ==
  ASSUME NEW array \in Seq(Nat), NEW n \in Nat, Ascending(array)
  PROVE  /\ Search(n, array) \in 0 .. Len(array)
         /\ Search(n, array) > 0 => array[Search(n, array)] = n
         /\ n \in ToSet(array) => Search(n, array) > 0
<1>1. /\ Len(array) \in Nat /\ DOMAIN array = 1 .. Len(array)
      /\ \A i \in 1 .. Len(array) : array[i] \in Nat
  OBVIOUS
<1> DEFINE signs == [i \in 1 .. Len(array) |-> n - array[i]]
<1>2. Search(n, array) = Bisection(signs)
  BY <1>1 DEF Search
<1>3. signs \in Seq(Int) /\ Len(signs) = Len(array)
  BY <1>1
<1>4. \A i, j \in 1 .. Len(signs) : i < j => signs[j] <= signs[i]
  <2> SUFFICES ASSUME NEW i \in 1 .. Len(array), NEW j \in 1 .. Len(array), i < j
               PROVE  n - array[j] <= n - array[i]
    BY <1>3
  <2>1. array[i] <= array[j]
    BY <1>1 DEF Ascending
  <2> QED
    BY <1>1, <2>1
<1>5. \A i \in 1 .. Len(array) : signs[i] = 0 <=> array[i] = n
  BY <1>1
<1> HIDE DEF signs
<1>6. /\ Bisection(signs) \in 0 .. Len(signs)
      /\ Bisection(signs) > 0 => signs[Bisection(signs)] = 0
      /\ (\E i \in 1 .. Len(signs) : signs[i] = 0) => Bisection(signs) > 0
  BY <1>3, <1>4, BisectionFinds
<1>7. Bisection(signs) > 0 => Bisection(signs) \in 1 .. Len(array)
  BY <1>1, <1>3, <1>6
<1>8. n \in ToSet(array) => \E i \in 1 .. Len(signs) : signs[i] = 0
  BY <1>1, <1>3, <1>5 DEF ToSet
<1> QED
  BY <1>2, <1>3, <1>5, <1>6, <1>7, <1>8

-----------------------------------------------------------------------------
(***************************************************************************)
(* Messages.  Cells that are sorted, lists that are sent as they are, and  *)
(* what is known of the last message that an end took.                     *)
(***************************************************************************)
Message == {f \in [id : Nat, list : Seq(Nat), items : Seq(Nat)] : f.items = f.list}

CallRecord ==
  [id : Nat, list : Seq(Nat), items : Seq(Nat), cell : Nat, declared : BOOLEAN,
   raced : BOOLEAN, fn : Nat,
   outcome : {"none", "calling", "unexpected", "decoded", "failed"},
   got : Seq(Nat) \cup SUBSET Nat]

CellsSorted(cells) == cells \in Seq(Nat) /\ Ascending(cells) /\ 0 \notin ToSet(cells)

ChannelTyped ==
  /\ call \in [End -> CallRecord]
  /\ waiting \in [End -> Seq(Message)]
  /\ DOMAIN handlers = CEnd
  /\ \A c \in CEnd : CellsSorted(handlers[c])
  /\ CellsSorted(factories)
  /\ adding = <<>> \/ adding \in CEnd \X (Nat \ {0})

(* The receiver is in a handler, whose cell it has found. *)
Calling(e) ==
  /\ receiver[e] = "calling" <=> call[e].outcome = "calling"
  /\ phase[e] = "none" => call[e].outcome = "none"
  /\ call[e].outcome = "calling" =>
       /\ call[e].items = call[e].list
       /\ \/ call[e].raced
          \/ /\ call[e].cell \in 1 .. Len(handlers[e])
             /\ handlers[e][call[e].cell] = call[e].id
             /\ call[e].declared
             /\ ~ (adding # <<>> /\ adding[1] = e)

(* It is done with the message. *)
FoundHandler(e) ==
  call[e].outcome \notin {"none", "calling"} =>
    call[e].raced \/ call[e].fn = IF call[e].declared THEN call[e].id ELSE NoFn

ListArrived(e) ==
  call[e].outcome = "decoded" =>
    call[e].got = IF e \in JavaEnd THEN ToSet(call[e].list) ELSE call[e].list

FailedRightly(c) ==
  call[c].outcome = "failed" =>
    \/ \E d \in CEnd : phase[d] = "deleted"
    \/ Len(call[c].list) > ListLimit
    \/ ~ ToSet(call[c].list) \subseteq ToSet(factories)

CrashRaced == crashed => \E c \in CEnd : receiver[c] = "calling" /\ call[c].raced

ChannelInv ==
  /\ ReceiverInv
  /\ ChannelTyped
  /\ \A e \in End : FoundHandler(e) /\ ListArrived(e)
  /\ \A c \in CEnd : Calling(c) /\ FailedRightly(c)
  /\ \A j \in JavaEnd : phase[j] = "none" => call[j].outcome = "none"
  /\ CrashRaced

LEMMA EndsDiffer == CEnd \subseteq End /\ JavaEnd \subseteq End /\ CEnd \cap JavaEnd = {}
BY ChannelAssumption DEF End

(* Cells that are sorted stay so when one is added. *)
LEMMA InsertedSorted ==
  ASSUME NEW cells, CellsSorted(cells), NEW n \in Nat \ {0}
  PROVE  /\ CellsSorted(Inserted(cells, n))
         /\ ToSet(Inserted(cells, n)) = ToSet(cells) \cup {n}
<1>1. n \in Nat /\ cells \in Seq(Nat) /\ Ascending(cells) /\ 0 \notin ToSet(cells)
  BY DEF CellsSorted
<1>2. /\ Inserted(cells, n) \in Seq(Nat)
      /\ Ascending(Inserted(cells, n))
      /\ ToSet(Inserted(cells, n)) = ToSet(cells) \cup {n}
  BY <1>1, InsertedAscends
<1> QED
  BY <1>1, <1>2 DEF CellsSorted

LEMMA NoCellsSorted == CellsSorted(<<>>)
BY DEF CellsSorted, Ascending, ToSet

LEMMA NoCallType == NoCall \in CallRecord /\ NoCall.fn = NoFn /\ NoCall.outcome = "none"
BY DEF CallRecord, NoCall, NoFn

(* What does not touch what the invariant is about. *)
LEMMA ChannelFrame ==
  ASSUME ChannelInv, ReceiverInv', ChannelTyped',
         UNCHANGED <<phase, receiver, call, handlers, factories, adding, crashed>>
  PROVE  ChannelInv'
BY DEF ChannelInv, FoundHandler, ListArrived, Calling, FailedRightly, CrashRaced

LEMMA SendSteps ==
  ASSUME ChannelInv, ReceiverInv', NEW e \in End, NEW m \in Nat, NEW list \in Seq(Nat),
         SendTo(e, m, list)
  PROVE  ChannelInv'
<1> DEFINE p == peer[e]
           f == [id |-> m, list |-> list, items |-> PutItems(list)]
<1>1. UNCHANGED <<phase, receiver, call, handlers, factories, adding, crashed>>
  BY DEF SendTo
<1>2. f \in Message
  BY DEF Message, PutItems
<1>3. \/ waiting' = waiting
      \/ waiting' = [waiting EXCEPT ![p] = Append(@, f)]
  BY DEF SendTo
<1> HIDE DEF f, p
<1>4. waiting' \in [End -> Seq(Message)]
  <2>1. waiting \in [End -> Seq(Message)]
    BY DEF ChannelInv, ChannelTyped
  <2>2. CASE waiting' = waiting
    BY <2>1, <2>2
  <2>3. CASE waiting' = [waiting EXCEPT ![p] = Append(@, f)]
    <3>1. p \in End => Append(waiting[p], f) \in Seq(Message)
      BY <1>2, <2>1, AppendIndex
    <3> QED
      BY <2>1, <2>3, <3>1
  <2> QED
    BY <1>3, <2>2, <2>3
<1>5. ChannelTyped'
  BY <1>1, <1>4 DEF ChannelInv, ChannelTyped
<1> QED
  BY <1>1, <1>5, ChannelFrame

LEMMA JavaListType ==
  ASSUME NEW set \in JavaSet, NEW list \in SetToSeqs(set)
  PROVE  list \in Seq(Nat)
<1>1. set \subseteq Nat /\ IsFiniteSet(set)
  BY ChannelAssumption
<1>2. Cardinality(set) \in Nat
  BY <1>1, FS_CardinalityType
<1>3. PICK n \in Nat : list \in [1 .. n -> set]
  BY <1>2 DEF SetToSeqs
<1>4. list \in [1 .. n -> Nat]
  BY <1>1, <1>3
<1> QED
  BY <1>4

LEMMA FactorySteps ==
  ASSUME ChannelInv, ReceiverInv', NEW k \in ClassId, AddFactory(k)
  PROVE  ChannelInv'
<1>1. /\ UNCHANGED <<phase, receiver, call, waiting, handlers, adding, crashed>>
      /\ factories' = Inserted(factories, k)
      /\ \A c \in CEnd : phase[c] # "open" /\ phase[c] # "deleting"
  BY DEF AddFactory, CIdle
<1>2. CellsSorted(factories')
  BY <1>1, InsertedSorted, ChannelAssumption DEF ChannelInv, ChannelTyped
<1>3. ChannelTyped'
  BY <1>1, <1>2 DEF ChannelInv, ChannelTyped
<1>4. ASSUME NEW c \in CEnd
      PROVE  FailedRightly(c)'
  <2>1. CASE phase[c] = "none"
    BY <1>1, <2>1 DEF ChannelInv, Calling, FailedRightly
  <2>2. CASE phase[c] = "deleted"
    BY <1>1, <2>2 DEF FailedRightly
  <2> QED
    BY <1>1, <2>1, <2>2, EndsDiffer DEF ChannelInv, ReceiverInv, EndTyped
<1> QED
  BY <1>1, <1>3, <1>4 DEF ChannelInv, FoundHandler, ListArrived, Calling, CrashRaced

LEMMA NewSteps ==
  ASSUME ChannelInv, ReceiverInv', NEW e \in End, New(e)
  PROVE  ChannelInv'
<1>1. /\ UNCHANGED <<call, waiting, handlers, factories, adding, crashed>>
      /\ phase[e] = "none"
      /\ phase' = [phase EXCEPT ![e] = "open"]
      /\ receiver' = [receiver EXCEPT ![e] = "receiving"]
  BY DEF New
<1>2. phase \in [End -> {"none", "open", "deleting", "deleted"}] /\ DOMAIN receiver = End
  BY DEF ChannelInv, ReceiverInv, EndTyped
<1>3. ChannelTyped'
  BY <1>1 DEF ChannelInv, ChannelTyped
<1>4. call[e].outcome = "none"
  BY <1>1 DEF ChannelInv, Calling, End
<1>5. \A c \in CEnd : Calling(c)'
  BY <1>1, <1>2, <1>4, EndsDiffer DEF ChannelInv, Calling
<1>6. \A c \in CEnd : FailedRightly(c)'
  BY <1>1, <1>2, EndsDiffer DEF ChannelInv, FailedRightly
<1>7. \A j \in JavaEnd : phase'[j] = "none" => call'[j].outcome = "none"
  BY <1>1, <1>2, EndsDiffer DEF ChannelInv
<1>8. CrashRaced'
  <2>1. CASE ~ crashed
    BY <1>1, <2>1 DEF CrashRaced
  <2>2. CASE crashed
    <3>1. PICK c \in CEnd : receiver[c] = "calling" /\ call[c].raced
      BY <2>2 DEF ChannelInv, CrashRaced
    <3>2. c # e
      BY <1>4, <3>1 DEF ChannelInv, Calling
    <3> QED
      BY <1>1, <1>2, <3>1, <3>2, EndsDiffer DEF CrashRaced
  <2> QED
    BY <2>1, <2>2
<1> QED
  BY <1>1, <1>3, <1>5, <1>6, <1>7, <1>8 DEF ChannelInv, FoundHandler, ListArrived

LEMMA AddHandlerBeginsKeeps ==
  ASSUME ChannelInv, ReceiverInv', NEW c \in CEnd, NEW m \in MsgId, AddHandlerBegins(c, m)
  PROVE  ChannelInv'
<1>1. PICK r \in CallRecord : r = call[c]
  BY EndsDiffer DEF ChannelInv, ChannelTyped
<1> DEFINE raced == r.raced \/ receiver[c] = "calling"
           s == [r EXCEPT !.raced = raced]
<1>2. raced \in BOOLEAN
  OBVIOUS
<1>3. /\ UNCHANGED <<phase, receiver, waiting, handlers, factories>>
      /\ ~ crashed /\ ~ crashed'
      /\ adding = <<>> /\ adding' = <<c, m>>
      /\ call' = [call EXCEPT ![c] = s]
  BY <1>1 DEF AddHandlerBegins, CIdle
<1> HIDE DEF raced
<1>4. /\ s \in CallRecord
      /\ s.id = r.id /\ s.list = r.list /\ s.items = r.items /\ s.declared = r.declared
      /\ s.fn = r.fn /\ s.outcome = r.outcome /\ s.got = r.got /\ s.cell = r.cell
      /\ s.raced = raced
  BY <1>2 DEF CallRecord
<1> HIDE DEF s
<1>5. /\ call \in [End -> CallRecord]
      /\ call' \in [End -> CallRecord]
      /\ call'[c] = s
      /\ \A e \in End : e # c => call'[e] = call[e]
  BY <1>3, <1>4, EndsDiffer DEF ChannelInv, ChannelTyped
<1>6. ChannelTyped'
  <2>1. m \in Nat \ {0}
    BY ChannelAssumption
  <2> QED
    BY <1>3, <1>5, <2>1 DEF ChannelInv, ChannelTyped
<1>7. /\ r.raced => raced
      /\ r.outcome = "calling" => raced
  BY <1>1 DEF raced, ChannelInv, Calling
<1>8. ASSUME NEW e \in End
      PROVE  FoundHandler(e)' /\ ListArrived(e)'
  BY <1>1, <1>4, <1>5, <1>7 DEF ChannelInv, FoundHandler, ListArrived
<1>9. ASSUME NEW d \in CEnd
      PROVE  Calling(d)'
  <2>1. CASE d = c
    BY <1>1, <1>3, <1>4, <1>5, <1>7, <2>1 DEF ChannelInv, Calling
  <2>2. CASE d # c
    <3>1. adding'[1] = c
      BY <1>3
    <3> QED
      BY <1>3, <1>5, <2>2, <3>1, EndsDiffer DEF ChannelInv, Calling
  <2> QED
    BY <2>1, <2>2
<1>10. ASSUME NEW d \in CEnd
       PROVE  FailedRightly(d)'
  BY <1>1, <1>3, <1>4, <1>5, EndsDiffer DEF ChannelInv, FailedRightly
<1>11. \A j \in JavaEnd : phase'[j] = "none" => call'[j].outcome = "none"
  BY <1>1, <1>3, <1>4, <1>5, EndsDiffer DEF ChannelInv
<1> QED
  BY <1>3, <1>6, <1>8, <1>9, <1>10, <1>11 DEF ChannelInv, CrashRaced

LEMMA AddHandlerEndsKeeps ==
  ASSUME ChannelInv, ReceiverInv', AddHandlerEnds
  PROVE  ChannelInv'
<1>1. /\ UNCHANGED <<phase, receiver, call, waiting, factories>>
      /\ ~ crashed /\ ~ crashed'
      /\ adding # <<>> /\ adding' = <<>>
      /\ handlers' = [handlers EXCEPT ![adding[1]] = Inserted(@, adding[2])]
  BY DEF AddHandlerEnds
<1>2. PICK c \in CEnd, m \in Nat \ {0} : adding = <<c, m>>
  BY <1>1 DEF ChannelInv, ChannelTyped
<1>3. /\ DOMAIN handlers' = CEnd
      /\ handlers'[c] = Inserted(handlers[c], m)
      /\ \A d \in CEnd : d # c => handlers'[d] = handlers[d]
  BY <1>1, <1>2 DEF ChannelInv, ChannelTyped
<1>4. CellsSorted(handlers'[c])
  BY <1>3, InsertedSorted DEF ChannelInv, ChannelTyped
<1>5. ChannelTyped'
  BY <1>1, <1>3, <1>4 DEF ChannelInv, ChannelTyped
<1>6. ASSUME NEW d \in CEnd
      PROVE  Calling(d)'
  <2>1. CASE d = c
    BY <1>1, <1>2, <2>1 DEF ChannelInv, Calling
  <2>2. CASE d # c
    BY <1>1, <1>3, <2>2 DEF ChannelInv, Calling
  <2> QED
    BY <2>1, <2>2
<1> QED
  BY <1>1, <1>5, <1>6 DEF ChannelInv, FoundHandler, ListArrived, FailedRightly, CrashRaced

(* What an end takes is the first of its messages. *)
LEMMA TakenMessage ==
  ASSUME ChannelInv, NEW e \in End, waiting[e] # <<>>,
         waiting' = [waiting EXCEPT ![e] = Tail(@)]
  PROVE  /\ Head(waiting[e]) \in Message
         /\ waiting' \in [End -> Seq(Message)]
<1>1. waiting \in [End -> Seq(Message)]
  BY DEF ChannelInv, ChannelTyped
<1>2. Head(waiting[e]) \in Message /\ Tail(waiting[e]) \in Seq(Message)
  BY <1>1, TailIndex
<1> QED
  BY <1>1, <1>2

LEMMA ReceiveKeeps ==
  ASSUME ChannelInv, ReceiverInv', NEW c \in CEnd, Receive(c)
  PROVE  ChannelInv'
<1> DEFINE races == adding # <<>> /\ adding[1] = c
           cells == IF races THEN 0 .. Len(handlers[c]) + 1
                    ELSE {Search(Head(waiting[c]).id, handlers[c])}
<1>1. /\ UNCHANGED <<phase, handlers, factories, adding>>
      /\ ~ crashed /\ ~ crashed'
      /\ receiver[c] = "receiving"
      /\ waiting[c] # <<>>
      /\ waiting' = [waiting EXCEPT ![c] = Tail(@)]
  BY DEF Receive
<1>2. PICK f \in Message : f = Head(waiting[c])
  BY <1>1, TakenMessage, EndsDiffer
<1>3. /\ f.id \in Nat /\ f.list \in Seq(Nat) /\ f.items = f.list
      /\ CellsSorted(handlers[c]) /\ Len(handlers[c]) \in Nat
  BY DEF Message, ChannelInv, ChannelTyped, CellsSorted
<1>4. /\ Search(f.id, handlers[c]) \in 0 .. Len(handlers[c])
      /\ Search(f.id, handlers[c]) > 0 => handlers[c][Search(f.id, handlers[c])] = f.id
      /\ f.id \in ToSet(handlers[c]) => Search(f.id, handlers[c]) > 0
  BY <1>3, SearchFinds DEF CellsSorted
<1>5. PICK i \in Nat :
        /\ i \in cells
        /\ receiver' = [receiver EXCEPT ![c] = IF i > 0 THEN "calling" ELSE "receiving"]
        /\ call' = [call EXCEPT ![c] =
             [NoCall EXCEPT !.id = f.id, !.list = f.list, !.items = f.items,
                            !.cell = i, !.raced = races,
                            !.declared = f.id \in ToSet(handlers[c]),
                            !.outcome = IF i > 0 THEN "calling" ELSE "unexpected"]]
  <2>1. cells \subseteq Nat
    BY <1>2, <1>3, <1>4
  <2> QED
    BY <1>2, <2>1, ZenonT(40) DEF Receive, GoesOn
<1>51. races \in BOOLEAN /\ (f.id \in ToSet(handlers[c])) \in BOOLEAN
       /\ (IF i > 0 THEN "calling" ELSE "unexpected") \in {"calling", "unexpected"}
  OBVIOUS
<1>6. PICK outcome \in {"calling", "unexpected"}, declared \in BOOLEAN, raced \in BOOLEAN :
        /\ outcome = IF i > 0 THEN "calling" ELSE "unexpected"
        /\ declared = (f.id \in ToSet(handlers[c]))
        /\ raced = races
  BY <1>51
<1>61. PICK r \in CallRecord : r = NoCall /\ r.fn = NoFn
  BY NoCallType
<1> DEFINE s == [r EXCEPT !.id = f.id, !.list = f.list, !.items = f.items,
                          !.cell = i, !.raced = raced, !.declared = declared,
                          !.outcome = outcome]
<1>7. call' = [call EXCEPT ![c] = s]
  BY <1>5, <1>6, <1>61
<1> HIDE DEF races
<1>8. /\ s \in CallRecord
      /\ s.id = f.id /\ s.list = f.list /\ s.items = f.items /\ s.cell = i
      /\ s.raced = raced /\ s.declared = declared /\ s.fn = NoFn
      /\ s.outcome = outcome
  <2>1. f.id \in Nat /\ f.list \in Seq(Nat) /\ f.items \in Seq(Nat)
    BY <1>3
  <2> QED
    BY <2>1, <1>61 DEF CallRecord
<1> HIDE DEF s, cells
<1>9. /\ call' \in [End -> CallRecord]
      /\ call'[c] = s
      /\ \A e \in End : e # c => call'[e] = call[e]
  BY <1>7, <1>8, EndsDiffer DEF ChannelInv, ChannelTyped
<1>10. /\ receiver'[c] = IF i > 0 THEN "calling" ELSE "receiving"
       /\ \A e \in End : e # c => receiver'[e] = receiver[e]
  BY <1>5, EndsDiffer DEF ChannelInv, ReceiverInv, EndTyped
<1>11. ChannelTyped'
  BY <1>1, <1>9, TakenMessage, EndsDiffer DEF ChannelInv, ChannelTyped
<1>12. ~ races => i = Search(f.id, handlers[c])
  BY <1>2, <1>5 DEF cells, races
<1>13. ASSUME NEW e \in End
       PROVE  FoundHandler(e)' /\ ListArrived(e)'
  <2>1. CASE e = c
    BY <1>4, <1>6, <1>8, <1>9, <1>12, <2>1 DEF FoundHandler, ListArrived
  <2>2. CASE e # c
    BY <1>9, <2>2 DEF ChannelInv, FoundHandler, ListArrived
  <2> QED
    BY <2>1, <2>2
<1>14. phase[c] # "none"
  BY <1>1, EndsDiffer DEF ChannelInv, ReceiverInv, StartedByNew
<1>15. ASSUME NEW d \in CEnd
       PROVE  Calling(d)' /\ FailedRightly(d)'
  <2>1. CASE d = c
    <3>1. FailedRightly(c)'
      BY <1>6, <1>8, <1>9 DEF FailedRightly
    <3>2. Calling(c)'
      <4>1. i > 0 /\ ~ races => /\ i \in 1 .. Len(handlers[c])
                              /\ handlers[c][i] = f.id
                              /\ declared
        <5>1. i > 0 => \/ handlers[c][i] = f.id /\ i \in 1 .. Len(handlers[c])
                       \/ races
          BY <1>3, <1>4, <1>12
        <5>2. ASSUME i > 0, ~ races
              PROVE  f.id \in ToSet(handlers[c])
          <6>1. i \in DOMAIN handlers[c] /\ handlers[c][i] = f.id
            BY <1>3, <5>1, <5>2 DEF CellsSorted
          <6> QED
            BY <6>1 DEF ToSet
        <5> QED
          BY <1>6, <5>1, <5>2
      <4> QED
        BY <1>1, <1>3, <1>6, <1>8, <1>9, <1>10, <1>14, <4>1, EndsDiffer
           DEF Calling, races
    <3> QED
      BY <2>1, <3>1, <3>2
  <2>2. CASE d # c
    BY <1>1, <1>9, <1>10, <2>2, EndsDiffer DEF ChannelInv, Calling, FailedRightly
  <2> QED
    BY <2>1, <2>2
<1>16. \A j \in JavaEnd : phase'[j] = "none" => call'[j].outcome = "none"
  BY <1>1, <1>9, EndsDiffer DEF ChannelInv
<1> QED
  BY <1>1, <1>11, <1>13, <1>15, <1>16 DEF ChannelInv, CrashRaced

(* What a handler is called with, if no addHandler has interfered. *)
LEMMA CallableHandler ==
  ASSUME ChannelInv, NEW c \in CEnd, receiver[c] = "calling", NEW fn \in Callable(c)
  PROVE  /\ fn \in Nat
         /\ ~ call[c].raced => fn = call[c].id /\ call[c].declared /\ fn # NoFn
<1>1. call[c].outcome = "calling"
  BY DEF ChannelInv, Calling
<1>2. CellsSorted(handlers[c]) /\ DOMAIN handlers[c] = 1 .. Len(handlers[c])
  BY DEF ChannelInv, ChannelTyped, CellsSorted
<1>3. \A i \in 1 .. Len(handlers[c]) : handlers[c][i] \in Nat /\ handlers[c][i] # 0
  BY <1>2 DEF CellsSorted, ToSet
<1>4. CASE ~ call[c].raced
  <2>1. /\ fn = handlers[c][call[c].cell]
        /\ call[c].cell \in 1 .. Len(handlers[c])
        /\ handlers[c][call[c].cell] = call[c].id
        /\ call[c].declared
    BY <1>1, <1>4 DEF Callable, ChannelInv, Calling
  <2> QED
    BY <1>3, <2>1 DEF NoFn
<1>5. CASE call[c].raced
  <2>1. fn \in ToSet(handlers[c]) \/ (adding # <<>> /\ fn \in {adding[2], NoFn})
    BY <1>5 DEF Callable
  <2>2. CASE fn \in ToSet(handlers[c])
    BY <1>2, <1>3, <1>5, <2>2 DEF ToSet
  <2>3. CASE adding # <<>> /\ fn \in {adding[2], NoFn}
    BY <1>5, <2>3 DEF ChannelInv, ChannelTyped, NoFn
  <2> QED
    BY <2>1, <2>2, <2>3
<1> QED
  BY <1>4, <1>5

(* A list that is not decoded has too many items, or one of no factory. *)
LEMMA NotListable ==
  ASSUME ChannelInv, NEW items \in Seq(Nat), ~ Listable(items)
  PROVE  Len(items) > ListLimit \/ ~ ToSet(items) \subseteq ToSet(factories)
<1>1. Len(items) \in Nat /\ ListLimit \in Nat /\ \A i \in DOMAIN items : items[i] \in Nat
  BY ChannelAssumption
<1>2. factories \in Seq(Nat) /\ Ascending(factories)
  BY DEF ChannelInv, ChannelTyped, CellsSorted
<1>3. CASE ~ Len(items) <= ListLimit
  BY <1>1, <1>3
<1>4. CASE \E i \in DOMAIN items : ~ Search(items[i], factories) > 0
  <2>1. PICK i \in DOMAIN items : ~ Search(items[i], factories) > 0
    BY <1>4
  <2>2. items[i] \notin ToSet(factories)
    BY <1>1, <1>2, <2>1, SearchFinds
  <2>3. items[i] \in ToSet(items)
    BY DEF ToSet
  <2> QED
    BY <2>2, <2>3
<1> QED
  BY <1>3, <1>4 DEF Listable

LEMMA CallKeeps ==
  ASSUME ChannelInv, ReceiverInv', NEW c \in CEnd, Call(c)
  PROVE  ChannelInv'
<1>1. /\ UNCHANGED <<phase, waiting, handlers, factories, adding>>
      /\ ~ crashed /\ ~ crashed'
      /\ receiver[c] = "calling"
      /\ receiver' = [receiver EXCEPT ![c] = "receiving"]
  BY DEF Call
<1>2. PICK r \in CallRecord : r = call[c]
  BY EndsDiffer DEF ChannelInv, ChannelTyped
<1>3. /\ r.id \in Nat /\ r.list \in Seq(Nat) /\ r.items = r.list
  BY <1>1, <1>2 DEF CallRecord, ChannelInv, Calling
<1>4. PICK fn \in Callable(c) :
        call' = [call EXCEPT ![c] =
          IF Listable(r.items)
          THEN [r EXCEPT !.fn = fn, !.outcome = "decoded", !.items = <<>>, !.got = r.items]
          ELSE [r EXCEPT !.fn = fn, !.outcome = "failed", !.items = <<>>]]
  BY <1>2 DEF Call
<1>5. fn \in Nat /\ (~ r.raced => fn = r.id /\ r.declared)
  BY <1>1, <1>2, CallableHandler
<1>6. PICK s \in CallRecord :
        /\ call' = [call EXCEPT ![c] = s]
        /\ s.id = r.id /\ s.list = r.list /\ s.declared = r.declared
        /\ s.raced = r.raced /\ s.fn = fn
        /\ \/ s.outcome = "decoded" /\ s.got = r.list
           \/ s.outcome = "failed" /\ ~ Listable(r.list)
  <2>0. PICK g \in Nat, none \in Seq(Nat) : g = fn /\ none = <<>>
    <3>1. fn \in Nat /\ <<>> \in Seq(Nat)
      BY <1>5
    <3> QED
      BY <3>1
  <2>1. CASE Listable(r.items)
    <3>1. PICK items \in Seq(Nat) : items = r.items
      BY <1>3
    <3> DEFINE s == [r EXCEPT !.fn = g, !.outcome = "decoded", !.items = none,
                              !.got = items]
    <3>2. /\ s \in CallRecord
          /\ s.id = r.id /\ s.list = r.list /\ s.declared = r.declared
          /\ s.raced = r.raced /\ s.fn = g
          /\ s.outcome = "decoded" /\ s.got = items
      BY DEF CallRecord
    <3>3. call' = [call EXCEPT ![c] = s]
      BY <1>4, <2>0, <2>1, <3>1
    <3> HIDE DEF s
    <3> QED
      BY <1>3, <2>0, <3>1, <3>2, <3>3
  <2>2. CASE ~ Listable(r.items)
    <3> DEFINE s == [r EXCEPT !.fn = g, !.outcome = "failed", !.items = none]
    <3>2. /\ s \in CallRecord
          /\ s.id = r.id /\ s.list = r.list /\ s.declared = r.declared
          /\ s.raced = r.raced /\ s.fn = g
          /\ s.outcome = "failed"
      BY DEF CallRecord
    <3>3. call' = [call EXCEPT ![c] = s]
      BY <1>4, <2>0, <2>2
    <3> HIDE DEF s
    <3> QED
      BY <1>3, <2>0, <2>2, <3>2, <3>3
  <2> QED
    BY <2>1, <2>2
<1>7. /\ call' \in [End -> CallRecord]
      /\ call'[c] = s
      /\ \A e \in End : e # c => call'[e] = call[e]
  BY <1>6, EndsDiffer DEF ChannelInv, ChannelTyped
<1>8. /\ receiver'[c] = "receiving"
      /\ \A e \in End : e # c => receiver'[e] = receiver[e]
  BY <1>1, EndsDiffer DEF ChannelInv, ReceiverInv, EndTyped
<1>9. ChannelTyped'
  BY <1>1, <1>7 DEF ChannelInv, ChannelTyped
<1>10. ASSUME NEW e \in End
       PROVE  FoundHandler(e)' /\ ListArrived(e)'
  <2>1. CASE e = c
    BY <1>5, <1>6, <1>7, <2>1, EndsDiffer DEF FoundHandler, ListArrived
  <2>2. CASE e # c
    BY <1>7, <2>2 DEF ChannelInv, FoundHandler, ListArrived
  <2> QED
    BY <2>1, <2>2
<1>11. phase[c] # "none"
  BY <1>1, EndsDiffer DEF ChannelInv, ReceiverInv, StartedByNew
<1>12. ASSUME NEW d \in CEnd
       PROVE  Calling(d)' /\ FailedRightly(d)'
  <2>1. CASE d = c
    <3>1. Calling(c)'
      BY <1>1, <1>6, <1>7, <1>8, <1>11 DEF Calling
    <3>2. ~ Listable(r.list) => Len(r.list) > ListLimit \/ ~ ToSet(r.list) \subseteq ToSet(factories)
      BY <1>3, NotListable
    <3>3. FailedRightly(c)'
      BY <1>1, <1>6, <1>7, <3>2 DEF FailedRightly
    <3> QED
      BY <2>1, <3>1, <3>3
  <2>2. CASE d # c
    BY <1>1, <1>7, <1>8, <2>2, EndsDiffer DEF ChannelInv, Calling, FailedRightly
  <2> QED
    BY <2>1, <2>2
<1>13. \A j \in JavaEnd : phase'[j] = "none" => call'[j].outcome = "none"
  BY <1>1, <1>7, EndsDiffer DEF ChannelInv
<1> QED
  BY <1>1, <1>9, <1>10, <1>12, <1>13 DEF ChannelInv, CrashRaced

LEMMA CallCrashesKeeps ==
  ASSUME ChannelInv, ReceiverInv', NEW c \in CEnd, CallCrashes(c)
  PROVE  ChannelInv'
<1>1. /\ UNCHANGED <<phase, receiver, call, waiting, handlers, factories, adding>>
      /\ receiver[c] = "calling"
      /\ NoFn \in Callable(c)
  BY DEF CallCrashes
<1>2. call[c].raced
  BY <1>1, CallableHandler
<1>3. ChannelTyped'
  BY <1>1 DEF ChannelInv, ChannelTyped
<1>4. CrashRaced'
  BY <1>1, <1>2 DEF CrashRaced
<1> QED
  BY <1>1, <1>3, <1>4 DEF ChannelInv, FoundHandler, ListArrived, Calling, FailedRightly

LEMMA JavaReceiveKeeps ==
  ASSUME ChannelInv, ReceiverInv', NEW j \in JavaEnd, JavaReceive(j)
  PROVE  ChannelInv'
<1>1. /\ UNCHANGED <<phase, handlers, factories, adding, crashed>>
      /\ receiver[j] = "receiving"
      /\ waiting[j] # <<>>
      /\ waiting' = [waiting EXCEPT ![j] = Tail(@)]
      /\ \A e \in End : e # j => receiver'[e] = receiver[e]
  BY DEF JavaReceive, ChannelInv, ReceiverInv, EndTyped
<1>2. PICK f \in Message : f = Head(waiting[j])
  BY <1>1, TakenMessage, EndsDiffer
<1>3. f.id \in Nat /\ f.list \in Seq(Nat) /\ f.items = f.list
  BY DEF Message
<1> DEFINE found == f.id \in javaHandlers[j]
           decoded == ToSet(f.items) \subseteq javaFactories \cup {0}
           fn == IF found THEN f.id ELSE NoFn
           outcome == IF ~ found THEN "unexpected" ELSE IF decoded THEN "decoded" ELSE "failed"
           got == IF found /\ decoded THEN ToSet(f.items) ELSE <<>>
<1>4. /\ found \in BOOLEAN
      /\ fn \in Nat
      /\ outcome \in {"unexpected", "decoded", "failed"}
      /\ got \in Seq(Nat) \cup SUBSET Nat
  <2>1. ToSet(f.items) \in SUBSET Nat
    BY <1>3 DEF ToSet
  <2> QED
    BY <1>3, <2>1 DEF NoFn
<1>5. PICK r \in CallRecord : r = NoCall
  BY NoCallType
<1>6. call' = [call EXCEPT ![j] =
        [r EXCEPT !.id = f.id, !.list = f.list, !.declared = found, !.fn = fn,
                  !.outcome = outcome, !.got = got]]
  BY <1>2, <1>5 DEF JavaReceive, NoCall
<1>7. PICK declared \in BOOLEAN, n \in Nat, o \in {"unexpected", "decoded", "failed"},
           g \in Seq(Nat) \cup SUBSET Nat :
        declared = found /\ n = fn /\ o = outcome /\ g = got
  BY <1>4
<1>8. /\ n = IF declared THEN f.id ELSE NoFn
      /\ o = "decoded" => g = ToSet(f.list)
  BY <1>3, <1>7
<1> DEFINE s == [r EXCEPT !.id = f.id, !.list = f.list, !.declared = declared, !.fn = n,
                          !.outcome = o, !.got = g]
<1>9. call' = [call EXCEPT ![j] = s]
  BY <1>6, <1>7
<1> HIDE DEF found, fn, outcome, got
<1>10. /\ s \in CallRecord
       /\ s.id = f.id /\ s.list = f.list /\ s.declared = declared /\ s.fn = n
       /\ s.outcome = o /\ s.got = g
  BY <1>3 DEF CallRecord
<1> HIDE DEF s
<1>11. /\ call' \in [End -> CallRecord]
       /\ call'[j] = s
       /\ \A e \in End : e # j => call'[e] = call[e]
  BY <1>9, <1>10, EndsDiffer DEF ChannelInv, ChannelTyped
<1>12. ChannelTyped'
  BY <1>1, <1>11, TakenMessage, EndsDiffer DEF ChannelInv, ChannelTyped
<1>13. ASSUME NEW e \in End
       PROVE  FoundHandler(e)' /\ ListArrived(e)'
  <2>1. CASE e = j
    BY <1>8, <1>10, <1>11, <2>1 DEF FoundHandler, ListArrived
  <2>2. CASE e # j
    BY <1>11, <2>2 DEF ChannelInv, FoundHandler, ListArrived
  <2> QED
    BY <2>1, <2>2
<1>14. \A c \in CEnd : c # j /\ c \in End
  BY EndsDiffer
<1>15. ASSUME NEW c \in CEnd
       PROVE  Calling(c)' /\ FailedRightly(c)'
  BY <1>1, <1>11, <1>14 DEF ChannelInv, Calling, FailedRightly
<1>16. phase[j] # "none"
  BY <1>1, EndsDiffer DEF ChannelInv, ReceiverInv, StartedByNew
<1>17. \A i \in JavaEnd : phase'[i] = "none" => call'[i].outcome = "none"
  BY <1>1, <1>11, <1>16, EndsDiffer DEF ChannelInv
<1>18. CrashRaced'
  BY <1>1, <1>11, <1>14 DEF ChannelInv, CrashRaced
<1> QED
  BY <1>12, <1>13, <1>15, <1>17, <1>18 DEF ChannelInv

LEMMA ReceiveFailsKeeps ==
  ASSUME ChannelInv, ReceiverInv', NEW e \in End, ReceiveFails(e)
  PROVE  ChannelInv'
<1>1. /\ UNCHANGED <<phase, call, waiting, handlers, factories, adding, crashed>>
      /\ receiver[e] = "receiving"
      /\ receiver'[e] = "ended"
      /\ \A d \in End : d # e => receiver'[d] = receiver[d]
  BY DEF ReceiveFails, ChannelInv, ReceiverInv, EndTyped
<1>2. ChannelTyped'
  BY <1>1 DEF ChannelInv, ChannelTyped
<1>3. ASSUME NEW c \in CEnd
      PROVE  Calling(c)' /\ FailedRightly(c)'
  BY <1>1, EndsDiffer DEF ChannelInv, Calling, FailedRightly
<1>4. CrashRaced'
  BY <1>1, EndsDiffer DEF ChannelInv, CrashRaced
<1> QED
  BY <1>1, <1>2, <1>3, <1>4 DEF ChannelInv, FoundHandler, ListArrived

LEMMA DeleteBeginsKeeps ==
  ASSUME ChannelInv, ReceiverInv', NEW c \in CEnd, DeleteBegins(c)
  PROVE  ChannelInv'
<1>1. /\ UNCHANGED <<receiver, call, waiting, handlers, factories, adding, crashed>>
      /\ phase[c] = "open"
      /\ phase'[c] = "deleting"
      /\ \A d \in End : d # c => phase'[d] = phase[d]
  BY EndsDiffer DEF DeleteBegins, ChannelInv, ReceiverInv, EndTyped
<1>2. ChannelTyped'
  BY <1>1 DEF ChannelInv, ChannelTyped
<1>3. ASSUME NEW d \in CEnd
      PROVE  Calling(d)' /\ FailedRightly(d)'
  BY <1>1, EndsDiffer DEF ChannelInv, Calling, FailedRightly
<1>4. \A j \in JavaEnd : phase'[j] = "none" => call'[j].outcome = "none"
  BY <1>1, EndsDiffer DEF ChannelInv
<1> QED
  BY <1>1, <1>2, <1>3, <1>4 DEF ChannelInv, FoundHandler, ListArrived, CrashRaced

LEMMA DeleteEndsKeeps ==
  ASSUME ChannelInv, ReceiverInv', NEW c \in CEnd, DeleteEnds(c)
  PROVE  ChannelInv'
<1>1. /\ UNCHANGED <<receiver, call, adding, crashed>>
      /\ phase[c] = "deleting" /\ receiver[c] = "ended"
      /\ phase'[c] = "deleted"
      /\ \A d \in End : d # c => phase'[d] = phase[d]
      /\ waiting' = [waiting EXCEPT ![c] = <<>>]
      /\ handlers' = [handlers EXCEPT ![c] = <<>>]
      /\ factories' = <<>>
  BY EndsDiffer DEF DeleteEnds, ChannelInv, ReceiverInv, EndTyped
<1>2. ChannelTyped'
  <2>1. waiting' \in [End -> Seq(Message)]
    <3>1. waiting \in [End -> Seq(Message)] /\ <<>> \in Seq(Message)
      BY DEF ChannelInv, ChannelTyped
    <3> QED
      BY <1>1, <3>1
  <2>2. DOMAIN handlers' = CEnd /\ \A d \in CEnd : CellsSorted(handlers'[d])
    BY <1>1, NoCellsSorted DEF ChannelInv, ChannelTyped
  <2> QED
    BY <1>1, <2>1, <2>2, NoCellsSorted DEF ChannelInv, ChannelTyped
<1>3. ASSUME NEW d \in CEnd
      PROVE  Calling(d)' /\ FailedRightly(d)'
  <2>1. FailedRightly(d)'
    BY <1>1 DEF FailedRightly
  <2>2. CASE d = c
    BY <1>1, <2>1, <2>2 DEF ChannelInv, Calling
  <2>3. CASE d # c
    <3>1. handlers'[d] = handlers[d]
      BY <1>1, <2>3 DEF ChannelInv, ChannelTyped
    <3> QED
      BY <1>1, <2>1, <2>3, <3>1, EndsDiffer DEF ChannelInv, Calling
  <2> QED
    BY <2>2, <2>3
<1>4. \A j \in JavaEnd : phase'[j] = "none" => call'[j].outcome = "none"
  BY <1>1, EndsDiffer DEF ChannelInv
<1> QED
  BY <1>1, <1>2, <1>3, <1>4 DEF ChannelInv, FoundHandler, ListArrived, CrashRaced

LEMMA ChannelStep ==
  ASSUME ChannelInv, [ChannelNext]_channelVars
  PROVE  ChannelInv'
<1>1. ReceiverInv'
  BY ReceiverStep DEF ChannelInv
<1>2. ASSUME UNCHANGED <<phase, receiver, call, waiting, handlers, factories, adding, crashed>>
      PROVE  ChannelInv'
  <2>1. ChannelTyped'
    BY <1>2 DEF ChannelInv, ChannelTyped
  <2> QED
    BY <1>1, <1>2, <2>1, ChannelFrame
<1>3. ASSUME NEW e, NEW k, \/ JavaAddFactory(k) \/ JavaAddHandler(e, k)
                           \/ SendReportsRefusal(e) \/ UNCHANGED channelVars
      PROVE  ChannelInv'
  BY <1>2, <1>3 DEF JavaAddFactory, JavaAddHandler, SendReportsRefusal, channelVars
<1>4. ASSUME NEW c \in CEnd, NEW m \in MsgId, NEW list \in CList, Send(c, m, list)
      PROVE  ChannelInv'
  <2>1. m \in Nat /\ list \in Seq(Nat)
    BY ChannelAssumption
  <2> QED
    BY <1>1, <1>4, <2>1, EndsDiffer, SendSteps DEF Send
<1>5. ASSUME NEW j \in JavaEnd, NEW m \in MsgId, NEW set \in JavaSet, JavaSend(j, m, set)
      PROVE  ChannelInv'
  <2>1. PICK list \in SetToSeqs(set) : SendTo(j, m, list)
    BY <1>5 DEF JavaSend
  <2>2. m \in Nat /\ list \in Seq(Nat)
    BY ChannelAssumption, JavaListType
  <2> QED
    BY <1>1, <2>1, <2>2, EndsDiffer, SendSteps
<1> QED
  BY <1>1, <1>3, <1>4, <1>5, FactorySteps, NewSteps, AddHandlerBeginsKeeps,
     AddHandlerEndsKeeps, ReceiveKeeps, CallKeeps, CallCrashesKeeps, JavaReceiveKeeps,
     ReceiveFailsKeeps, DeleteBeginsKeeps, DeleteEndsKeeps DEF ChannelNext

LEMMA ChannelStart == ChannelInit => ChannelInv
<1> SUFFICES ASSUME ChannelInit
             PROVE  ChannelInv
  OBVIOUS
<1>1. ReceiverInv
  BY DEF ChannelInit, ReceiverInv, EndTyped, RefusedIsKept, StartedByNew, ReceiverGoesOn
<1>2. \A e \in End : call[e] = NoCall
  BY DEF ChannelInit
<1>3. ChannelTyped
  BY NoCallType, NoCellsSorted DEF ChannelInit, ChannelTyped
<1>4. \A e \in End : call[e].outcome = "none"
  BY <1>2, NoCallType
<1>5. \A c \in CEnd : receiver[c] = "ended"
  BY EndsDiffer DEF ChannelInit
<1> QED
  BY <1>1, <1>3, <1>4, <1>5, EndsDiffer
     DEF ChannelInv, FoundHandler, ListArrived, Calling, FailedRightly, CrashRaced, ChannelInit

(***************************************************************************)
(* Messages reach the handler that was declared for their id and no other, *)
(* unless an addHandler overlapped the search or the call: however many    *)
(* the handlers, and in whatever order they came.                          *)
(***************************************************************************)
THEOREM HandlersAreFound == ChannelSpec => []MessagesFindTheirHandler
<1>1. ChannelInv => MessagesFindTheirHandler
  BY DEF ChannelInv, FoundHandler, CrashRaced, MessagesFindTheirHandler
<1> QED
  BY <1>1, ChannelStart, ChannelStep, PTL DEF ChannelSpec

(***************************************************************************)
(* Lists arrive as they were sent, or not at all for one of the reasons    *)
(* that ListsArrive names.                                                 *)
(***************************************************************************)
THEOREM ListsAreDecoded == ChannelSpec => []ListsArrive
<1>1. ChannelInv => ListsArrive
  BY DEF ChannelInv, ListArrived, FailedRightly, ListsArrive
<1> QED
  BY <1>1, ChannelStart, ChannelStep, PTL DEF ChannelSpec

-----------------------------------------------------------------------------
(***************************************************************************)
(* The pools.  The counts of the cells are those of finitely many pointers *)
(* each, and the counters are numbers.                                     *)
(***************************************************************************)
Users(c) == {h \in Holder : pointer[h] = c}
UsedCells(p) == {c \in Cell : c[1] = p /\ refCount[c] > 0}

PoolTyped ==
  /\ pointer \in [Holder -> Cell \cup {Null}]
  /\ refCount \in [Cell -> Nat]
  /\ poolCounters \in [Pool -> [reserve : Nat, release : Nat, peak : Nat]]
  /\ DOMAIN asked = Holder

CountsAgree ==
  \A c \in Cell : IsFiniteSet(Users(c)) /\ refCount[c] = Cardinality(Users(c))

CountersAgree ==
  \A p \in Pool :
    /\ poolCounters[p].reserve - poolCounters[p].release = Cardinality(UsedCells(p))
    /\ Cardinality(UsedCells(p)) <= poolCounters[p].peak
    /\ poolCounters[p].peak <= PoolSize

StringsFit ==
  \A h \in Holder : pointer[h] # Null => asked[h] < SizeClass[pointer[h][1]]

PoolInv == PoolTyped /\ CountsAgree /\ CountersAgree /\ StringsFit

LEMMA CellIsNoNull ==
  \A c \in Cell : c # Null /\ c[1] \in Pool /\ c[2] \in 1 .. PoolSize /\ c = <<c[1], c[2]>>
BY DEF Cell, Null

(* A pool has no more cells in use than it has. *)
LEMMA UsedCellsBound ==
  ASSUME NEW p \in Pool
  PROVE  IsFiniteSet(UsedCells(p)) /\ Cardinality(UsedCells(p)) <= PoolSize
<1>1. PoolSize \in Nat
  BY CPoolAssumption
<1>2. UsedCells(p) \subseteq {p} \X (1 .. PoolSize)
  BY CellIsNoNull DEF UsedCells
<1> QED
  BY <1>1, <1>2, NumberedPairs

(* The pool and the cell that a string is given. *)
LEMMA ChosenCell ==
  ASSUME NEW size, PoolTyped, ClassesFor(size) # {}
  PROVE  LET p == Min(ClassesFor(size)) IN
         /\ p \in Pool
         /\ size < SizeClass[p]
         /\ FreeCells(p) # {} =>
              LET c == <<p, Min({d[2] : d \in FreeCells(p)})>> IN
              c \in Cell /\ refCount[c] = 0
<1>1. Pool \subseteq Nat
  BY CPoolAssumption DEF Pool
<1>2. ClassesFor(size) \subseteq Nat
  BY <1>1 DEF ClassesFor
<1>3. Min(ClassesFor(size)) \in ClassesFor(size)
  BY <1>2, LeastNumber DEF Min
<1>4. PICK p \in ClassesFor(size) : p = Min(ClassesFor(size))
  BY <1>3
<1>5. p \in Pool /\ size < SizeClass[p]
  BY DEF ClassesFor
<1>6. ASSUME FreeCells(p) # {}
      PROVE  /\ <<p, Min({d[2] : d \in FreeCells(p)})>> \in Cell
             /\ refCount[<<p, Min({d[2] : d \in FreeCells(p)})>>] = 0
  <2> DEFINE F == {d[2] : d \in FreeCells(p)}
  <2>1. F \subseteq Nat
    BY CellIsNoNull, CPoolAssumption DEF FreeCells
  <2>2. F # {}
    BY <1>6
  <2>3. Min(F) \in F
    <3> HIDE DEF F
    <3> QED
      BY <2>1, <2>2, LeastNumber DEF Min
  <2>4. PICK d \in FreeCells(p) : d[2] = Min(F)
    BY <2>3
  <2>5. d \in Cell /\ d[1] = p /\ refCount[d] = 0
    BY DEF FreeCells
  <2>6. d = <<p, Min(F)>>
    BY <2>4, <2>5, CellIsNoNull
  <2> QED
    BY <2>5, <2>6
<1> QED
  BY <1>4, <1>5, <1>6

(* The counters of a pool that a cell is reserved from. *)
LEMMA ReservedCounters ==
  ASSUME NEW k \in [reserve : Nat, release : Nat, peak : Nat]
  PROVE  /\ Reserved(k) \in [reserve : Nat, release : Nat, peak : Nat]
         /\ Reserved(k).reserve = k.reserve + 1
         /\ Reserved(k).release = k.release
         /\ Reserved(k).peak = IF k.reserve + 1 - k.release > k.peak
                               THEN k.reserve + 1 - k.release
                               ELSE k.peak
<1> DEFINE peak == IF k.reserve + 1 - k.release > k.peak
                   THEN k.reserve + 1 - k.release
                   ELSE k.peak
<1>1. k.reserve \in Nat /\ k.release \in Nat /\ k.peak \in Nat
  OBVIOUS
<1>2. peak \in Nat
  BY <1>1
<1>3. Reserved(k) = [k EXCEPT !.reserve = @ + 1, !.peak = peak]
  BY DEF Reserved
<1> HIDE DEF peak
<1>4. /\ Reserved(k) \in [reserve : Nat, release : Nat, peak : Nat]
      /\ Reserved(k).reserve = k.reserve + 1
      /\ Reserved(k).release = k.release
      /\ Reserved(k).peak = peak
  <2>1. Reserved(k) = [reserve |-> k.reserve + 1, release |-> k.release, peak |-> peak]
    BY <1>3
  <2>2. k.reserve + 1 \in Nat
    BY <1>1
  <2> QED
    BY <1>1, <1>2, <2>1, <2>2
<1> QED
  BY <1>4 DEF peak

(* A pointer that is given a cell is one user more of it. *)
LEMMA OneUserMore ==
  ASSUME PoolTyped, CountsAgree, NEW h \in Holder, NEW c \in Cell,
         pointer[h] = Null, pointer' = [pointer EXCEPT ![h] = c],
         refCount' = [refCount EXCEPT ![c] = @ + 1]
  PROVE  CountsAgree' /\ refCount' \in [Cell -> Nat]
<1>1. Users(c)' = Users(c) \cup {h} /\ h \notin Users(c)
  BY CellIsNoNull DEF Users, PoolTyped
<1>2. \A d \in Cell : d # c => Users(d)' = Users(d)
  BY CellIsNoNull DEF Users, PoolTyped
<1>3. IsFiniteSet(Users(c)) /\ refCount[c] = Cardinality(Users(c))
  BY DEF CountsAgree
<1>4. /\ IsFiniteSet(Users(c) \cup {h})
      /\ Cardinality(Users(c) \cup {h}) = Cardinality(Users(c)) + 1
  BY <1>1, <1>3, FS_AddElement
<1>5. /\ refCount'[c] = refCount[c] + 1
      /\ \A d \in Cell : d # c => refCount'[d] = refCount[d]
      /\ refCount' \in [Cell -> Nat]
  BY DEF PoolTyped
<1>6. IsFiniteSet(Users(c)') /\ refCount'[c] = Cardinality(Users(c)')
  BY <1>1, <1>3, <1>4, <1>5
<1>7. ASSUME NEW d \in Cell, d # c
      PROVE  IsFiniteSet(Users(d)') /\ refCount'[d] = Cardinality(Users(d)')
  BY <1>2, <1>5, <1>7 DEF CountsAgree
<1> QED
  BY <1>5, <1>6, <1>7 DEF CountsAgree

LEMMA StringNewKeeps ==
  ASSUME PoolInv, NEW h \in Holder, NEW size, StringNew(h, size)
  PROVE  PoolInv'
<1> USE DEF PoolInv
<1> DEFINE q == Min(ClassesFor(size))
           d == <<q, Min({f[2] : f \in FreeCells(q)})>>
<1>1. /\ pointer[h] = Null
      /\ ClassesFor(size) # {}
      /\ FreeCells(q) # {}
      /\ refCount' = [refCount EXCEPT ![d] = @ + 1]
      /\ pointer' = [pointer EXCEPT ![h] = d]
      /\ poolCounters' = [poolCounters EXCEPT ![q] = Reserved(@)]
      /\ asked' = [asked EXCEPT ![h] = size]
  BY DEF StringNew
<1>2. /\ q \in Pool
      /\ size < SizeClass[q]
      /\ d \in Cell
      /\ refCount[d] = 0
  BY <1>1, ChosenCell
<1>3. d[1] = q
  OBVIOUS
<1> HIDE DEF d, q
<1>4. PICK p \in Pool, c \in Cell : p = q /\ c = d
  BY <1>2
<1>5. /\ pointer[h] = Null
      /\ refCount[c] = 0
      /\ c[1] = p
      /\ refCount' = [refCount EXCEPT ![c] = @ + 1]
      /\ pointer' = [pointer EXCEPT ![h] = c]
      /\ poolCounters' = [poolCounters EXCEPT ![p] = Reserved(@)]
      /\ asked' = [asked EXCEPT ![h] = size]
      /\ size < SizeClass[p]
  BY <1>1, <1>2, <1>3, <1>4
<1>6. CountsAgree' /\ refCount' \in [Cell -> Nat]
  BY <1>5, OneUserMore
<1>7. /\ PoolSize \in Nat
      /\ poolCounters[p] \in [reserve : Nat, release : Nat, peak : Nat]
  BY CPoolAssumption DEF PoolTyped
<1>8. /\ Reserved(poolCounters[p]) \in [reserve : Nat, release : Nat, peak : Nat]
      /\ Reserved(poolCounters[p]).reserve = poolCounters[p].reserve + 1
      /\ Reserved(poolCounters[p]).release = poolCounters[p].release
      /\ Reserved(poolCounters[p]).peak =
           IF poolCounters[p].reserve + 1 - poolCounters[p].release > poolCounters[p].peak
           THEN poolCounters[p].reserve + 1 - poolCounters[p].release
           ELSE poolCounters[p].peak
  BY <1>7, ReservedCounters
<1>9. /\ poolCounters'[p] = Reserved(poolCounters[p])
      /\ \A r \in Pool : r # p => poolCounters'[r] = poolCounters[r]
      /\ poolCounters' \in [Pool -> [reserve : Nat, release : Nat, peak : Nat]]
  BY <1>5, <1>8 DEF PoolTyped
<1>10. PoolTyped'
  <2>1. pointer' \in [Holder -> Cell \cup {Null}] /\ DOMAIN asked' = Holder
    BY <1>5 DEF PoolTyped
  <2> QED
    BY <1>6, <1>9, <2>1 DEF PoolTyped
<1>11. CountersAgree'
  <2>1. \A r \in Pool : r # p => UsedCells(r)' = UsedCells(r)
    BY <1>5 DEF UsedCells, PoolTyped
  <2>2. UsedCells(p)' = UsedCells(p) \cup {c} /\ c \notin UsedCells(p)
    BY <1>5 DEF UsedCells, PoolTyped
  <2>3. IsFiniteSet(UsedCells(p)) /\ Cardinality(UsedCells(p)) \in Nat
    BY UsedCellsBound, FS_CardinalityType
  <2>4. Cardinality(UsedCells(p)') = Cardinality(UsedCells(p)) + 1
    BY <2>2, <2>3, FS_AddElement
  <2>5. Cardinality(UsedCells(p)') <= PoolSize
    <3>1. UsedCells(p)' \subseteq {p} \X (1 .. PoolSize)
      BY CellIsNoNull DEF UsedCells
    <3> QED
      BY <1>7, <3>1, NumberedPairs
  <2>6. /\ poolCounters[p].reserve - poolCounters[p].release = Cardinality(UsedCells(p))
        /\ Cardinality(UsedCells(p)) <= poolCounters[p].peak
        /\ poolCounters[p].peak <= PoolSize
    BY DEF CountersAgree
  <2>7. /\ poolCounters'[p].reserve - poolCounters'[p].release = Cardinality(UsedCells(p)')
        /\ Cardinality(UsedCells(p)') <= poolCounters'[p].peak
        /\ poolCounters'[p].peak <= PoolSize
    <3>1. /\ poolCounters[p].reserve \in Nat
          /\ poolCounters[p].release \in Nat
          /\ poolCounters[p].peak \in Nat
      BY <1>7
    <3> QED
      BY <1>7, <1>8, <1>9, <2>3, <2>4, <2>5, <2>6, <3>1
  <2>8. ASSUME NEW r \in Pool, r # p
        PROVE  /\ poolCounters'[r].reserve - poolCounters'[r].release
                    = Cardinality(UsedCells(r)')
               /\ Cardinality(UsedCells(r)') <= poolCounters'[r].peak
               /\ poolCounters'[r].peak <= PoolSize
    BY <1>9, <2>1, <2>8 DEF CountersAgree
  <2> QED
    BY <2>7, <2>8 DEF CountersAgree
<1>12. StringsFit'
  BY <1>5 DEF StringsFit, PoolTyped
<1> QED
  BY <1>6, <1>10, <1>11, <1>12

LEMMA AddReferenceKeeps ==
  ASSUME PoolInv, NEW h \in Holder, NEW g \in Holder, AddReferenceTo(h, g)
  PROVE  PoolInv'
<1> USE DEF PoolInv
<1>1. PICK c \in Cell : c = pointer[g]
  BY DEF AddReferenceTo, PoolTyped
<1>2. /\ pointer[h] = Null
      /\ refCount' = [refCount EXCEPT ![c] = @ + 1]
      /\ pointer' = [pointer EXCEPT ![h] = c]
      /\ asked' = [asked EXCEPT ![h] = asked[g]]
      /\ poolCounters' = poolCounters
  BY <1>1 DEF AddReferenceTo
<1>3. CountsAgree' /\ refCount' \in [Cell -> Nat]
  BY <1>2, OneUserMore
<1>4. PoolTyped'
  BY <1>2, <1>3 DEF PoolTyped
<1>5. CountersAgree'
  <2>1. refCount[c] > 0
    <3>1. g \in Users(c) /\ IsFiniteSet(Users(c))
      BY <1>1 DEF Users, CountsAgree
    <3>2. Cardinality(Users(c)) # 0 /\ Cardinality(Users(c)) \in Nat
      BY <3>1, FS_EmptySet, FS_CardinalityType
    <3> QED
      BY <3>2 DEF CountsAgree
  <2>2. \A r \in Pool : UsedCells(r)' = UsedCells(r)
    BY <1>2, <2>1 DEF UsedCells, PoolTyped
  <2> QED
    BY <1>2, <2>2 DEF CountersAgree
<1>6. StringsFit'
  BY <1>1, <1>2, CellIsNoNull DEF StringsFit, PoolTyped
<1> QED
  BY <1>3, <1>4, <1>5, <1>6

LEMMA StringDeleteKeeps ==
  ASSUME PoolInv, NEW h \in Holder, StringDelete(h)
  PROVE  PoolInv'
<1> USE DEF PoolInv
<1>1. PICK c \in Cell : c = pointer[h]
  BY DEF StringDelete, PoolTyped
<1>2. PICK p \in Pool : p = c[1]
  BY CellIsNoNull
<1>3. /\ refCount[c] > 0
      /\ refCount' = [refCount EXCEPT ![c] = @ - 1]
      /\ poolCounters' = [poolCounters EXCEPT ![p] = Released(@, refCount[c] - 1)]
      /\ pointer' = [pointer EXCEPT ![h] = Null]
      /\ asked' = [asked EXCEPT ![h] = 0]
  BY <1>1, <1>2 DEF StringDelete
<1>4. /\ refCount[c] \in Nat
      /\ refCount'[c] = refCount[c] - 1
      /\ \A d \in Cell : d # c => refCount'[d] = refCount[d]
      /\ refCount' \in [Cell -> Nat]
  BY <1>3 DEF PoolTyped
<1>5. CountsAgree'
  <2>1. Users(c)' = Users(c) \ {h} /\ h \in Users(c)
    BY <1>1, <1>3, CellIsNoNull DEF Users, PoolTyped
  <2>2. \A d \in Cell : d # c => Users(d)' = Users(d)
    BY <1>1, <1>3, CellIsNoNull DEF Users, PoolTyped
  <2>3. IsFiniteSet(Users(c)) /\ refCount[c] = Cardinality(Users(c))
    BY DEF CountsAgree
  <2>4. /\ IsFiniteSet(Users(c) \ {h})
        /\ Cardinality(Users(c) \ {h}) = Cardinality(Users(c)) - 1
    BY <2>1, <2>3, FS_RemoveElement
  <2>5. IsFiniteSet(Users(c)') /\ refCount'[c] = Cardinality(Users(c)')
    BY <2>1, <2>3, <2>4, <1>4
  <2>6. ASSUME NEW d \in Cell, d # c
        PROVE  IsFiniteSet(Users(d)') /\ refCount'[d] = Cardinality(Users(d)')
    BY <2>2, <1>4, <2>6 DEF CountsAgree
  <2> QED
    BY <2>5, <2>6 DEF CountsAgree
<1>6. /\ PoolSize \in Nat
      /\ poolCounters[p] \in [reserve : Nat, release : Nat, peak : Nat]
  BY CPoolAssumption DEF PoolTyped
<1>7. \A n : /\ Released(poolCounters[p], n) \in [reserve : Nat, release : Nat, peak : Nat]
             /\ Released(poolCounters[p], n).reserve = poolCounters[p].reserve
             /\ Released(poolCounters[p], n).peak = poolCounters[p].peak
             /\ Released(poolCounters[p], n).release =
                  IF n = 0 THEN poolCounters[p].release + 1 ELSE poolCounters[p].release
  BY <1>6 DEF Released
<1>8. /\ poolCounters'[p] = Released(poolCounters[p], refCount[c] - 1)
      /\ \A r \in Pool : r # p => poolCounters'[r] = poolCounters[r]
      /\ poolCounters' \in [Pool -> [reserve : Nat, release : Nat, peak : Nat]]
  BY <1>3, <1>7 DEF PoolTyped
<1>9. PoolTyped'
  <2>1. pointer' \in [Holder -> Cell \cup {Null}] /\ DOMAIN asked' = Holder
    BY <1>3 DEF PoolTyped
  <2> QED
    BY <1>4, <1>8, <2>1 DEF PoolTyped
<1>10. CountersAgree'
  <2>1. \A r \in Pool : r # p => UsedCells(r)' = UsedCells(r)
    BY <1>2, <1>4 DEF UsedCells
  <2>2. UsedCells(p)' = IF refCount[c] = 1 THEN UsedCells(p) \ {c} ELSE UsedCells(p)
    BY <1>2, <1>3, <1>4 DEF UsedCells
  <2>3. c \in UsedCells(p)
    BY <1>2, <1>3 DEF UsedCells
  <2>4. IsFiniteSet(UsedCells(p)) /\ Cardinality(UsedCells(p)) \in Nat
    BY UsedCellsBound, FS_CardinalityType
  <2>5. Cardinality(UsedCells(p) \ {c}) = Cardinality(UsedCells(p)) - 1
    BY <2>3, <2>4, FS_RemoveElement
  <2>6. Cardinality(UsedCells(p)') = IF refCount[c] = 1 THEN Cardinality(UsedCells(p)) - 1
                                     ELSE Cardinality(UsedCells(p))
    BY <2>2, <2>5
  <2>7. /\ poolCounters[p].reserve - poolCounters[p].release = Cardinality(UsedCells(p))
        /\ Cardinality(UsedCells(p)) <= poolCounters[p].peak
        /\ poolCounters[p].peak <= PoolSize
    BY DEF CountersAgree
  <2>8. /\ poolCounters'[p].reserve - poolCounters'[p].release = Cardinality(UsedCells(p)')
        /\ Cardinality(UsedCells(p)') <= poolCounters'[p].peak
        /\ poolCounters'[p].peak <= PoolSize
    <3>1. /\ poolCounters[p].reserve \in Nat
          /\ poolCounters[p].release \in Nat
          /\ poolCounters[p].peak \in Nat
      BY <1>6
    <3>2. /\ poolCounters'[p].reserve = poolCounters[p].reserve
          /\ poolCounters'[p].peak = poolCounters[p].peak
          /\ poolCounters'[p].release = IF refCount[c] = 1 THEN poolCounters[p].release + 1
                                        ELSE poolCounters[p].release
      BY <1>4, <1>7, <1>8
    <3> QED
      BY <2>4, <2>6, <2>7, <3>1, <3>2
  <2>9. ASSUME NEW r \in Pool, r # p
        PROVE  /\ poolCounters'[r].reserve - poolCounters'[r].release
                    = Cardinality(UsedCells(r)')
               /\ Cardinality(UsedCells(r)') <= poolCounters'[r].peak
               /\ poolCounters'[r].peak <= PoolSize
    BY <1>8, <2>1, <2>9 DEF CountersAgree
  <2> QED
    BY <2>8, <2>9 DEF CountersAgree
<1>11. StringsFit'
  BY <1>3 DEF StringsFit, PoolTyped
<1> QED
  BY <1>5, <1>9, <1>10, <1>11

LEMMA PoolStep ==
  ASSUME PoolInv, [CPoolNext]_poolVars
  PROVE  PoolInv'
<1>1. ASSUME NEW h \in Holder, NEW size, StringNewFails(h, size)
      PROVE  PoolInv'
  BY <1>1 DEF StringNewFails, PoolInv, PoolTyped, CountsAgree, CountersAgree, StringsFit,
              Users, UsedCells
<1>2. ASSUME UNCHANGED poolVars
      PROVE  PoolInv'
  BY <1>2 DEF poolVars, PoolInv, PoolTyped, CountsAgree, CountersAgree, StringsFit,
              Users, UsedCells
<1> QED
  BY <1>1, <1>2, StringNewKeeps, AddReferenceKeeps, StringDeleteKeeps DEF CPoolNext

(***************************************************************************)
(* Whatever is reserved, shared, refused and released, the books of the    *)
(* pools balance, for pools of every number and size.                      *)
(***************************************************************************)
THEOREM BooksBalance == CPoolSpec => []PoolAccounts
<1>1. CPoolInit => PoolInv
  <2> SUFFICES ASSUME CPoolInit
               PROVE  PoolInv
    OBVIOUS
  <2>1. PoolTyped
    BY DEF CPoolInit, PoolTyped
  <2>2. \A c \in Cell : Users(c) = {}
    BY CellIsNoNull DEF CPoolInit, Users
  <2>3. \A p \in Pool : UsedCells(p) = {}
    BY DEF CPoolInit, UsedCells
  <2>4. CountsAgree
    BY <2>2, FS_EmptySet DEF CPoolInit, CountsAgree
  <2>5. CountersAgree
    <3>1. \A p \in Pool : /\ poolCounters[p].reserve = 0
                          /\ poolCounters[p].release = 0
                          /\ poolCounters[p].peak = 0
      BY DEF CPoolInit
    <3>2. \A p \in Pool : Cardinality(UsedCells(p)) = 0
      BY <2>3, FS_EmptySet
    <3>3. PoolSize \in Nat
      BY CPoolAssumption
    <3> QED
      BY <3>1, <3>2, <3>3 DEF CountersAgree
  <2>6. StringsFit
    BY DEF CPoolInit, StringsFit
  <2> QED
    BY <2>1, <2>4, <2>5, <2>6 DEF PoolInv
<1>2. PoolInv => PoolAccounts
  BY DEF PoolInv, CountsAgree, CountersAgree, StringsFit, Users, UsedCells, PoolAccounts
<1> QED
  BY <1>1, <1>2, PoolStep, PTL DEF CPoolSpec

-----------------------------------------------------------------------------
(***************************************************************************)
(* Functions defined by recursion on the numbers up to n exist: for each   *)
(* number in turn, the function so far is extended by the next value.      *)
(***************************************************************************)
LEMMA RecursionUpTo ==
  ASSUME NEW n \in Nat, NEW a \in Nat, NEW step \in [Nat \X (1 .. n) -> Nat]
  PROVE  \E f \in [0 .. n -> Nat] :
           f[0] = a /\ \A i \in 1 .. n : f[i] = step[<<f[i - 1], i>>]
<1> DEFINE Good(f, k) == /\ f[0] = a
                         /\ \A i \in 1 .. n : i <= k => f[i] = step[<<f[i - 1], i>>]
           S == {k \in Nat : \E f \in [0 .. n -> Nat] : Good(f, k)}
<1>1. 0 \in S
  <2>1. [i \in 0 .. n |-> a] \in [0 .. n -> Nat] /\ Good([i \in 0 .. n |-> a], 0)
    OBVIOUS
  <2> QED
    BY <2>1
<1>2. ASSUME NEW k \in S \cap Nat
      PROVE  k + 1 \in S
  <2>1. PICK f \in [0 .. n -> Nat] : Good(f, k)
    OBVIOUS
  <2>2. CASE k + 1 \in 1 .. n
    <3> DEFINE g == [f EXCEPT ![k + 1] = step[<<f[k], k + 1>>]]
    <3>1. step[<<f[k], k + 1>>] \in Nat
      BY <2>2
    <3>2. g \in [0 .. n -> Nat] /\ g[k + 1] = step[<<f[k], k + 1>>]
          /\ \A i \in 0 .. n : i # k + 1 => g[i] = f[i]
      BY <2>2, <3>1
    <3> HIDE DEF g
    <3>3. g[0] = a
      BY <2>1, <3>2
    <3>4. ASSUME NEW i \in 1 .. n, i <= k + 1
          PROVE  g[i] = step[<<g[i - 1], i>>]
      <4>1. g[i - 1] = f[i - 1]
        BY <3>2, <3>4
      <4>2. CASE i = k + 1
        BY <3>2, <4>1, <4>2
      <4>3. CASE i # k + 1
        BY <2>1, <3>2, <3>4, <4>1, <4>3, SMTT(30)
      <4> QED
        BY <4>2, <4>3
    <3>5. Good(g, k + 1)
      BY <3>3, <3>4
    <3> HIDE DEF Good
    <3>6. k + 1 \in Nat /\ g \in [0 .. n -> Nat]
      BY <3>2
    <3> QED
      BY <3>5, <3>6, Zenon
  <2>3. CASE k + 1 \notin 1 .. n
    <3>1. Good(f, k + 1)
      BY <2>1, <2>3
    <3> HIDE DEF Good
    <3>2. k + 1 \in Nat
      OBVIOUS
    <3> QED
      BY <3>1, <3>2, Zenon
  <2> QED
    BY <2>2, <2>3
<1> HIDE DEF S
<1>3. n \in S
  BY <1>1, <1>2, NumbersFromZero
<1> HIDE DEF Good
<1>4. PICK f \in [0 .. n -> Nat] : Good(f, n)
  BY <1>3 DEF S
<1> USE DEF Good
<1>5. f[0] = a
  BY <1>4
<1>6. ASSUME NEW i \in 1 .. n
      PROVE  f[i] = step[<<f[i - 1], i>>]
  BY <1>4
<1> QED
  BY <1>5, <1>6

(* Division by the number of values of a byte. *)
LEMMA DivisionBy ==
  ASSUME NEW b \in Nat \ {0}, NEW x \in Nat, NEW d \in 0 .. b - 1
  PROVE  /\ x \div b \in Nat /\ x % b \in 0 .. b - 1
         /\ x * b + d \in Nat
         /\ (x * b + d) \div b = x
         /\ (x * b + d) % b = d
         /\ x = (x \div b) * b + (x % b)
         /\ \A m \in Nat : x <= m * b + (b - 1) => x \div b <= m
<1>1. x \div b \in Nat /\ x % b \in 0 .. b - 1
  OBVIOUS
<1>2. x * b + d \in Nat
  OBVIOUS
<1>3. (x * b + d) \div b = x
  OBVIOUS
<1>4. (x * b + d) % b = d
  OBVIOUS
<1>5. x = (x \div b) * b + (x % b)
  <2>1. PICK q \in Nat, r \in 0 .. b - 1 : q = x \div b /\ r = x % b
    BY <1>1
  <2>2. x = b * q + r
    BY <2>1
  <2>3. b * q = q * b
    OBVIOUS
  <2>4. x = q * b + r
    BY <2>2, <2>3
  <2> QED
    BY <2>1, <2>4, Zenon
<1>6. ASSUME NEW m \in Nat, x <= m * b + (b - 1)
      PROVE  x \div b <= m
  BY <1>6
<1> QED
  BY <1>1, <1>2, <1>3, <1>4, <1>5, <1>6

LEMMA Division ==
  ASSUME NEW x \in Nat, NEW d \in 0 .. Base - 1
  PROVE  /\ x \div Base \in Nat /\ x % Base \in 0 .. Base - 1
         /\ x * Base + d \in Nat
         /\ (x * Base + d) \div Base = x
         /\ (x * Base + d) % Base = d
         /\ x = (x \div Base) * Base + (x % Base)
         /\ \A m \in Nat : x <= m * Base + (Base - 1) => x \div Base <= m
<1>1. PICK b \in Nat \ {0} : b = Base
  BY CBufferAssumption
<1> QED
  BY <1>1, DivisionBy

(* What is left of an integer without its last digits. *)
LEMMA DigitsOf ==
  ASSUME NEW v \in Nat, NEW n \in Nat
  PROVE  \E above \in [0 .. n -> Nat] :
           /\ above[0] = v
           /\ \A i \in 1 .. n : above[i] = above[i - 1] \div Base
           /\ Digits(v, n) = [i \in 1 .. n |-> above[n - i] % Base]
           /\ Digits(v, n) \in [1 .. n -> 0 .. Base - 1]
<1> DEFINE step == [p \in Nat \X (1 .. n) |-> p[1] \div Base]
<1>1. Base \in Nat /\ Base > 1
  BY CBufferAssumption
<1>2. \A x \in Nat : x \div Base \in Nat /\ x % Base \in 0 .. Base - 1
  BY <1>1
<1>3. step \in [Nat \X (1 .. n) -> Nat]
  BY <1>2
<1>4. \A x \in Nat, i \in 1 .. n : step[<<x, i>>] = x \div Base
  OBVIOUS
<1> HIDE DEF step
<1>5. PICK f \in [0 .. n -> Nat] :
        f[0] = v /\ \A i \in 1 .. n : f[i] = step[<<f[i - 1], i>>]
  BY <1>3, RecursionUpTo
<1>6. f = [i \in 0 .. n |-> IF i = 0 THEN v ELSE f[i - 1] \div Base]
  <2>1. ASSUME NEW i \in 0 .. n
        PROVE  f[i] = IF i = 0 THEN v ELSE f[i - 1] \div Base
    <3>1. CASE i = 0
      BY <1>5, <3>1
    <3>2. CASE i # 0
      <4>1. i \in 1 .. n /\ f[i - 1] \in Nat
        BY <3>2
      <4>2. f[i] = step[<<f[i - 1], i>>]
        BY <1>5, <4>1
      <4>3. PICK x \in Nat : x = f[i - 1]
        BY <4>1
      <4>4. step[<<x, i>>] = x \div Base
        BY <1>4, <4>1
      <4> QED
        BY <3>2, <4>2, <4>3, <4>4
    <3> QED
      BY <3>1, <3>2
  <2> QED
    BY <2>1
<1> DEFINE above == CHOOSE g : g = [i \in 0 .. n |-> IF i = 0 THEN v ELSE g[i - 1] \div Base]
<1>7. above = [i \in 0 .. n |-> IF i = 0 THEN v ELSE above[i - 1] \div Base]
  BY <1>6
<1>8. Digits(v, n) = [i \in 1 .. n |-> above[n - i] % Base]
  BY DEF Digits
<1> HIDE DEF above
<1>9. above[0] = v /\ \A i \in 1 .. n : above[i] = above[i - 1] \div Base
  BY <1>7
<1>10. \A i \in 0 .. n : above[i] \in Nat
  <2> DEFINE S == {k \in Nat : k <= n => above[k] \in Nat}
  <2>1. 0 \in S
    BY <1>9
  <2>2. ASSUME NEW k \in S \cap Nat
        PROVE  k + 1 \in S
    <3>1. CASE k + 1 <= n
      <4>1. above[k + 1] = above[k] \div Base /\ above[k] \in Nat
        BY <1>9, <3>1
      <4>2. PICK x \in Nat : x = above[k]
        BY <4>1
      <4>3. x \div Base \in Nat
        BY <1>2
      <4> QED
        BY <4>1, <4>2, <4>3
    <3> QED
      BY <3>1
  <2> HIDE DEF S
  <2>3. \A i \in 0 .. n : i \in S
    BY <2>1, <2>2, NumbersFromZero
  <2> QED
    BY <2>3 DEF S
<1>11. above \in [0 .. n -> Nat]
  BY <1>7, <1>10
<1>12. \A i \in 1 .. n : above[n - i] % Base \in 0 .. Base - 1
  <2> SUFFICES ASSUME NEW i \in 1 .. n
               PROVE  above[n - i] % Base \in 0 .. Base - 1
    OBVIOUS
  <2>1. PICK x \in Nat : x = above[n - i]
    BY <1>10
  <2> QED
    BY <1>2, <2>1
<1> QED
  BY <1>8, <1>9, <1>11, <1>12

(* The numbers that the first digits form. *)
LEMMA NumberOf ==
  ASSUME NEW n \in Nat, NEW s \in [1 .. n -> 0 .. Base - 1]
  PROVE  \E first \in [0 .. n -> Nat] :
           /\ first[0] = 0
           /\ \A i \in 1 .. n : first[i] = first[i - 1] * Base + s[i]
           /\ Number(s) = first[n]
<1> DEFINE step == [p \in Nat \X (1 .. n) |-> p[1] * Base + s[p[2]]]
<1>1. Base \in Nat /\ Base > 1
  BY CBufferAssumption
<1>2. \A x \in Nat, i \in 1 .. n : x * Base + s[i] \in Nat
  BY <1>1
<1>3. step \in [Nat \X (1 .. n) -> Nat]
  BY <1>2
<1>4. \A x \in Nat, i \in 1 .. n : step[<<x, i>>] = x * Base + s[i]
  OBVIOUS
<1> HIDE DEF step
<1>5. PICK f \in [0 .. n -> Nat] :
        f[0] = 0 /\ \A i \in 1 .. n : f[i] = step[<<f[i - 1], i>>]
  <2>1. 0 \in Nat
    OBVIOUS
  <2> QED
    BY <1>3, <2>1, RecursionUpTo
<1>6. f = [i \in 0 .. n |-> IF i = 0 THEN 0 ELSE f[i - 1] * Base + s[i]]
  <2>1. ASSUME NEW i \in 0 .. n
        PROVE  f[i] = IF i = 0 THEN 0 ELSE f[i - 1] * Base + s[i]
    <3>1. CASE i = 0
      BY <1>5, <3>1
    <3>2. CASE i # 0
      <4>1. i \in 1 .. n /\ f[i - 1] \in Nat
        BY <3>2
      <4>2. f[i] = step[<<f[i - 1], i>>]
        BY <1>5, <4>1
      <4>3. PICK x \in Nat : x = f[i - 1]
        BY <4>1
      <4>4. step[<<x, i>>] = x * Base + s[i]
        BY <1>4, <4>1
      <4> QED
        BY <3>2, <4>2, <4>3, <4>4
    <3> QED
      BY <3>1, <3>2
  <2> QED
    BY <2>1
<1>7. Len(s) = n
  OBVIOUS
<1> DEFINE first == CHOOSE g : g = [i \in 0 .. n |-> IF i = 0 THEN 0
                                                      ELSE g[i - 1] * Base + s[i]]
<1>8. first = [i \in 0 .. n |-> IF i = 0 THEN 0 ELSE first[i - 1] * Base + s[i]]
  BY <1>6
<1>9. Number(s) = first[n]
  BY <1>7 DEF Number
<1> HIDE DEF first
<1>10. first[0] = 0 /\ \A i \in 1 .. n : first[i] = first[i - 1] * Base + s[i]
  BY <1>8
<1>11. \A i \in 0 .. n : first[i] \in Nat
  <2> DEFINE S == {k \in Nat : k <= n => first[k] \in Nat}
  <2>1. 0 \in S
    BY <1>10
  <2>2. ASSUME NEW k \in S \cap Nat
        PROVE  k + 1 \in S
    <3>1. CASE k + 1 <= n
      <4>1. first[k + 1] = first[k] * Base + s[k + 1] /\ first[k] \in Nat
        BY <1>10, <3>1
      <4>2. PICK x \in Nat : x = first[k]
        BY <4>1
      <4>3. k + 1 \in 1 .. n
        BY <3>1
      <4>4. x * Base + s[k + 1] \in Nat
        BY <1>2, <4>3
      <4> QED
        BY <4>1, <4>2, <4>4
    <3> QED
      BY <3>1
  <2> HIDE DEF S
  <2>3. \A i \in 0 .. n : i \in S
    BY <2>1, <2>2, NumbersFromZero
  <2> QED
    BY <2>3 DEF S
<1>12. first \in [0 .. n -> Nat]
  BY <1>8, <1>11
<1> QED
  BY <1>9, <1>10, <1>12

(* The digits of the number that digits form are those digits. *)
LEMMA DigitsOfNumber ==
  ASSUME NEW n \in Nat, NEW s \in [1 .. n -> 0 .. Base - 1]
  PROVE  Number(s) \in Nat /\ Digits(Number(s), n) = s
<1>1. PICK first \in [0 .. n -> Nat] :
        /\ first[0] = 0
        /\ \A i \in 1 .. n : first[i] = first[i - 1] * Base + s[i]
        /\ Number(s) = first[n]
  BY NumberOf
<1>2. Number(s) \in Nat
  BY <1>1
<1>3. PICK above \in [0 .. n -> Nat] :
        /\ above[0] = Number(s)
        /\ \A i \in 1 .. n : above[i] = above[i - 1] \div Base
        /\ Digits(Number(s), n) = [i \in 1 .. n |-> above[n - i] % Base]
  BY <1>2, DigitsOf
<1> DEFINE S == {k \in Nat : k <= n => above[k] = first[n - k]}
<1>4. 0 \in S
  BY <1>1, <1>3
<1>5. ASSUME NEW k \in S \cap Nat
      PROVE  k + 1 \in S
  <2>1. CASE k + 1 <= n
    <3>1. above[k] = first[n - k] /\ above[k + 1] = above[k] \div Base
      BY <1>3, <2>1
    <3>2. /\ n - k \in 1 .. n
          /\ first[n - k] = first[n - (k + 1)] * Base + s[n - k]
          /\ first[n - (k + 1)] \in Nat
      BY <1>1, <2>1
    <3>3. (first[n - (k + 1)] * Base + s[n - k]) \div Base = first[n - (k + 1)]
      BY <3>2, Division
    <3> QED
      BY <3>1, <3>2, <3>3
  <2> QED
    BY <2>1
<1> HIDE DEF S
<1>6. \A i \in 0 .. n : i \in S
  <2>1. Nat \subseteq S
    BY <1>4, <1>5, NumbersFromZero
  <2> QED
    BY <2>1
<1>7. ASSUME NEW i \in 1 .. n
      PROVE  above[n - i] % Base = s[i]
  <2>1. n - i \in S /\ n - (n - i) = i
    BY <1>6
  <2>2. above[n - i] = first[i]
    BY <2>1 DEF S
  <2>3. first[i] = first[i - 1] * Base + s[i] /\ first[i - 1] \in Nat
    BY <1>1
  <2> QED
    BY <2>2, <2>3, Division
<1>8. [i \in 1 .. n |-> above[n - i] % Base] = s
  BY <1>7
<1> QED
  BY <1>2, <1>3, <1>8

(* An integer that fits is the number that its digits form. *)
LEMMA NumberOfDigits ==
  ASSUME NEW n \in Nat, NEW v \in Nat, v <= Number([i \in 1 .. n |-> Base - 1])
  PROVE  Number(Digits(v, n)) = v
<1>1. PICK above \in [0 .. n -> Nat] :
        /\ above[0] = v
        /\ \A i \in 1 .. n : above[i] = above[i - 1] \div Base
        /\ Digits(v, n) = [i \in 1 .. n |-> above[n - i] % Base]
        /\ Digits(v, n) \in [1 .. n -> 0 .. Base - 1]
  BY DigitsOf
<1>2. PICK first \in [0 .. n -> Nat] :
        /\ first[0] = 0
        /\ \A i \in 1 .. n : first[i] = first[i - 1] * Base + Digits(v, n)[i]
        /\ Number(Digits(v, n)) = first[n]
  <2>1. PICK s \in [1 .. n -> 0 .. Base - 1] : s = Digits(v, n)
    BY <1>1
  <2> QED
    BY <2>1, NumberOf
<1>3. Base \in Nat /\ Base > 1
  BY CBufferAssumption
<1>4. PICK most \in [0 .. n -> Nat] :
        /\ most[0] = 0
        /\ \A i \in 1 .. n : most[i] = most[i - 1] * Base + (Base - 1)
        /\ v <= most[n]
  <2> DEFINE s == [i \in 1 .. n |-> Base - 1]
  <2>1. s \in [1 .. n -> 0 .. Base - 1] /\ \A i \in 1 .. n : s[i] = Base - 1
    BY <1>3
  <2>2. v <= Number(s)
    OBVIOUS
  <2> HIDE DEF s
  <2>3. PICK most \in [0 .. n -> Nat] :
          /\ most[0] = 0
          /\ \A i \in 1 .. n : most[i] = most[i - 1] * Base + s[i]
          /\ Number(s) = most[n]
    BY <2>1, NumberOf
  <2> QED
    BY <2>1, <2>2, <2>3
<1>5. above[n] = 0
  <2> DEFINE S == {k \in Nat : k <= n => above[k] <= most[n - k]}
  <2>1. 0 \in S
    BY <1>1, <1>4
  <2>2. ASSUME NEW k \in S \cap Nat
        PROVE  k + 1 \in S
    <3>1. CASE k + 1 <= n
      <4>1. above[k] <= most[n - k] /\ above[k + 1] = above[k] \div Base
        BY <1>1, <3>1
      <4>2. /\ n - k \in 1 .. n
            /\ most[n - k] = most[n - (k + 1)] * Base + (Base - 1)
            /\ most[n - (k + 1)] \in Nat
            /\ above[k] \in Nat
        BY <1>4, <3>1
      <4>3. PICK x \in Nat, m \in Nat : x = above[k] /\ m = most[n - (k + 1)]
        BY <4>2
      <4>4. x <= m * Base + (Base - 1)
        BY <4>1, <4>2, <4>3
      <4>5. 0 \in 0 .. Base - 1
        BY <1>3
      <4>6. x \div Base <= m
        BY <4>4, <4>5, Division
      <4> QED
        BY <4>1, <4>3, <4>6
    <3> QED
      BY <3>1
  <2> HIDE DEF S
  <2>3. n \in S
    BY <2>1, <2>2, NumbersFromZero
  <2>4. above[n] <= most[0]
    BY <2>3 DEF S
  <2> QED
    BY <1>4, <2>4
<1>6. first[n] = above[0]
  <2> DEFINE S == {k \in Nat : k <= n => first[k] = above[n - k]}
  <2>1. 0 \in S
    BY <1>2, <1>5
  <2>2. ASSUME NEW k \in S \cap Nat
        PROVE  k + 1 \in S
    <3>1. CASE k + 1 <= n
      <4>1. /\ first[k] = above[n - k]
            /\ first[k + 1] = first[k] * Base + Digits(v, n)[k + 1]
        BY <1>2, <3>1
      <4>2. Digits(v, n)[k + 1] = above[n - (k + 1)] % Base
        BY <1>1, <3>1
      <4>3. /\ above[n - k] = above[n - (k + 1)] \div Base
            /\ above[n - (k + 1)] \in Nat
        BY <1>1, <3>1
      <4>4. PICK x \in Nat : x = above[n - (k + 1)]
        BY <4>3
      <4>5. 0 \in 0 .. Base - 1
        BY <1>3
      <4>6. x = (x \div Base) * Base + (x % Base)
        BY <4>5, Division
      <4>7. first[k + 1] = x
        <5>1. first[k + 1] = (x \div Base) * Base + (x % Base)
          BY <4>1, <4>2, <4>3, <4>4, Zenon
        <5> QED
          BY <4>6, <5>1
      <4> QED
        BY <4>4, <4>7
    <3> QED
      BY <3>1
  <2> HIDE DEF S
  <2>3. n \in S
    BY <2>1, <2>2, NumbersFromZero
  <2> QED
    BY <2>3 DEF S
<1> QED
  BY <1>1, <1>2, <1>6

-----------------------------------------------------------------------------
Byte == 0 .. Base - 1

(* What the bytes from an index form. *)
Readable(s, at, n) == \A i \in 1 .. n : s[at + i] \in Byte

LEMMA Piece ==
  ASSUME NEW s, NEW at \in Nat, NEW n \in Nat, Readable(s, at, n)
  PROVE  /\ SubSeq(s, at + 1, at + n) \in [1 .. n -> Byte]
         /\ \A i \in 1 .. n : SubSeq(s, at + 1, at + n)[i] = s[at + i]
<1>1. PICK S : S = Byte
  OBVIOUS
<1>2. PICK p \in Int, q \in Int : p = at + 1 /\ q = at + n
  OBVIOUS
<1>3. ASSUME NEW k \in p .. q
      PROVE  s[k] \in S
  <2>1. k - at \in 1 .. n /\ at + (k - at) = k
    BY <1>2
  <2> QED
    BY <1>1, <2>1 DEF Readable
<1>4. /\ SubSeq(s, p, q) \in Seq(S)
      /\ Len(SubSeq(s, p, q)) = IF p <= q THEN q - p + 1 ELSE 0
      /\ \A i \in 1 .. q - p + 1 : SubSeq(s, p, q)[i] = s[p + i - 1]
  BY <1>3, SubSeqProperties
<1>5. Len(SubSeq(s, p, q)) = n
  BY <1>2, <1>4
<1>6. \A i \in 1 .. n : SubSeq(s, p, q)[i] = s[at + i]
  <2>1. \A i \in 1 .. n : i \in 1 .. q - p + 1 /\ p + i - 1 = at + i
    BY <1>2
  <2> QED
    BY <1>4, <2>1
<1>7. SubSeq(s, p, q) \in [1 .. n -> Byte]
  <2>1. PICK t \in Seq(S) : t = SubSeq(s, p, q)
    BY <1>4
  <2>2. Len(t) = n
    BY <1>5, <2>1
  <2>3. t \in [1 .. n -> S]
    BY <2>2
  <2> QED
    BY <1>1, <2>1, <2>3
<1> QED
  BY <1>2, <1>6, <1>7

(* Two readings of the same bytes. *)
SameBytes(s, at, t, to, n) ==
  \A i \in 1 .. n : s[at + i] \in Byte /\ s[at + i] = t[to + i]

LEMMA SamePiece ==
  ASSUME NEW s, NEW t, NEW at \in Nat, NEW to \in Nat, NEW n \in Nat,
         SameBytes(s, at, t, to, n)
  PROVE  SubSeq(s, at + 1, at + n) = SubSeq(t, to + 1, to + n)
<1>1. PICK S : S = Byte
  OBVIOUS
<1>2. ASSUME NEW u, NEW from \in Nat, \A i \in 1 .. n : u[from + i] \in S
      PROVE  /\ SubSeq(u, from + 1, from + n) \in Seq(S)
             /\ Len(SubSeq(u, from + 1, from + n)) = n
             /\ \A i \in 1 .. n : SubSeq(u, from + 1, from + n)[i] = u[from + i]
  <2>1. PICK p \in Int, q \in Int : p = from + 1 /\ q = from + n
    OBVIOUS
  <2>2. ASSUME NEW k \in p .. q
        PROVE  u[k] \in S
    <3>1. k - from \in 1 .. n /\ from + (k - from) = k
      BY <2>1
    <3> QED
      BY <1>2, <3>1
  <2>3. /\ SubSeq(u, p, q) \in Seq(S)
        /\ Len(SubSeq(u, p, q)) = IF p <= q THEN q - p + 1 ELSE 0
        /\ \A i \in 1 .. q - p + 1 : SubSeq(u, p, q)[i] = u[p + i - 1]
    BY <2>2, SubSeqProperties
  <2>4. Len(SubSeq(u, p, q)) = n
    BY <2>1, <2>3
  <2>5. \A i \in 1 .. n : i \in 1 .. q - p + 1 /\ p + i - 1 = from + i
    BY <2>1
  <2>6. \A i \in 1 .. n : SubSeq(u, p, q)[i] = u[from + i]
    BY <2>3, <2>5
  <2> QED
    BY <2>1, <2>3, <2>4, <2>6
<1>3. /\ \A i \in 1 .. n : s[at + i] \in S
      /\ \A i \in 1 .. n : t[to + i] \in S
      /\ \A i \in 1 .. n : s[at + i] = t[to + i]
  BY <1>1 DEF SameBytes
<1>4. PICK v \in Seq(S) : /\ v = SubSeq(s, at + 1, at + n)
                          /\ Len(v) = n
                          /\ \A i \in 1 .. n : v[i] = s[at + i]
  BY <1>2, <1>3
<1>5. PICK w \in Seq(S) : /\ w = SubSeq(t, to + 1, to + n)
                          /\ Len(w) = n
                          /\ \A i \in 1 .. n : w[i] = t[to + i]
  BY <1>2, <1>3
<1>6. v \in [1 .. n -> S] /\ w \in [1 .. n -> S]
  <2>1. Len(v) = n /\ Len(w) = n
    BY <1>4, <1>5
  <2> QED
    BY <2>1
<1>7. \A i \in 1 .. n : v[i] = w[i]
  BY <1>3, <1>4, <1>5
<1>8. v = w
  BY <1>6, <1>7
<1> QED
  BY <1>4, <1>5, <1>8

(* Reversing a sequence of bytes. *)
LEMMA ReverseBytes ==
  ASSUME NEW n \in Nat, NEW s \in [1 .. n -> Byte]
  PROVE  Reverse(s) \in [1 .. n -> Byte] /\ Reverse(Reverse(s)) = s
<1>1. Len(s) = n
  OBVIOUS
<1>2. Reverse(s) = [i \in 1 .. n |-> s[(n - i) + 1]]
  BY <1>1 DEF Reverse
<1>3. Reverse(s) \in [1 .. n -> Byte] /\ Len(Reverse(s)) = n
  BY <1>2
<1>4. Reverse(Reverse(s)) = [i \in 1 .. n |-> Reverse(s)[(n - i) + 1]]
  BY <1>3 DEF Reverse
<1>5. \A i \in 1 .. n : Reverse(s)[(n - i) + 1] = s[i]
  BY <1>2
<1>6. [i \in 1 .. n |-> Reverse(s)[(n - i) + 1]] = s
  BY <1>5
<1> QED
  BY <1>3, <1>4, <1>6

(***************************************************************************)
(* Whatever the order of the host, what is put are the digits of the       *)
(* integer, the most significant first, and what is read is their number.  *)
(***************************************************************************)
LEMMA EncodedDigits ==
  ASSUME NEW v \in Nat, NEW n \in Nat, NEW big \in BOOLEAN
  PROVE  Encoded(v, n, big) = Digits(v, n) /\ Digits(v, n) \in [1 .. n -> Byte]
<1>1. PICK s \in [1 .. n -> Byte] : s = Digits(v, n)
  BY DigitsOf DEF Byte
<1>2. PICK r \in [1 .. n -> Byte] : r = Reverse(s) /\ Reverse(r) = s
  BY ReverseBytes
<1>3. Digits(Number(r), n) = r
  BY DigitsOfNumber DEF Byte
<1>4. CASE big
  BY <1>1, <1>4, Zenon DEF Encoded, Memory, Swapped
<1>5. CASE ~ big
  <2>1. Encoded(v, n, big) = Reverse(Digits(Number(Reverse(Digits(v, n))), n))
    BY <1>5 DEF Encoded, Memory, Swapped
  <2> QED
    BY <1>1, <1>2, <1>3, <2>1
<1> QED
  BY <1>1, <1>4, <1>5

LEMMA DecodedNumber ==
  ASSUME NEW n \in Nat, NEW s \in [1 .. n -> Byte], NEW big \in BOOLEAN
  PROVE  Decoded(s, big) = Number(s) /\ Number(s) \in Nat
<1>1. PICK r \in [1 .. n -> Byte] : r = Reverse(s) /\ Reverse(r) = s
  BY ReverseBytes
<1>2. Digits(Number(r), n) = r
  BY DigitsOfNumber DEF Byte
<1>3. Number(s) \in Nat
  BY DigitsOfNumber DEF Byte
<1>4. CASE big
  BY <1>3, <1>4, Zenon DEF Decoded, FromMemory
<1>5. CASE ~ big
  <2>1. Decoded(s, big) = Number(Reverse(Digits(Number(Reverse(s)), Len(s))))
    BY <1>5 DEF Decoded, FromMemory
  <2>2. Len(s) = n
    OBVIOUS
  <2>3. Decoded(s, big) = Number(Reverse(r))
    BY <1>1, <1>2, <2>1, <2>2, Zenon
  <2> QED
    BY <1>1, <1>3, <2>3, Zenon
<1> QED
  BY <1>3, <1>4, <1>5

-----------------------------------------------------------------------------
(***************************************************************************)
(* The fields of an array: their places, and what its bytes form there.    *)
(***************************************************************************)
FieldRecord == [at : Nat, size : Nat \ {0}, value : Nat]

Holds(bytes, f) ==
  /\ f.at + f.size <= Capacity
  /\ Number(SubSeq(bytes, f.at + 1, f.at + f.size)) = f.value

Intact(bytes, fs) == fs \subseteq FieldRecord /\ \A f \in fs : Holds(bytes, f)

Array == [1 .. Capacity -> Byte]

LEMMA InArray ==
  ASSUME NEW bytes \in Array, NEW at \in Nat, NEW n \in Nat, at + n <= Capacity
  PROVE  Readable(bytes, at, n)
BY CBufferAssumption DEF Array, Readable

(* What a copy into the array leaves there. *)
LEMMA CopiedBytes ==
  ASSUME NEW bytes \in Array, NEW at \in Nat, NEW n \in Nat, NEW s \in [1 .. n -> Byte]
  PROVE  /\ Copied(bytes, at, s) \in Array
         /\ \A i \in 1 .. Capacity :
              Copied(bytes, at, s)[i] = IF i \in at + 1 .. at + n THEN s[i - at] ELSE bytes[i]
<1>1. Len(s) = n /\ DOMAIN bytes = 1 .. Capacity
  BY DEF Array
<1>2. Copied(bytes, at, s) =
        [i \in 1 .. Capacity |-> IF i \in at + 1 .. at + n THEN s[i - at] ELSE bytes[i]]
  BY <1>1 DEF Copied
<1>3. ASSUME NEW i \in 1 .. Capacity
      PROVE  (IF i \in at + 1 .. at + n THEN s[i - at] ELSE bytes[i]) \in Byte
  <2>1. CASE i \in at + 1 .. at + n
    <3>1. i - at \in 1 .. n
      BY <2>1, CBufferAssumption
    <3> QED
      BY <2>1, <3>1
  <2>2. CASE i \notin at + 1 .. at + n
    BY <2>2 DEF Array
  <2> QED
    BY <2>1, <2>2
<1> QED
  BY <1>2, <1>3 DEF Array

(* A field outside of what is overwritten is still there. *)
LEMMA OutsideHolds ==
  ASSUME NEW bytes \in Array, NEW at \in Nat, NEW n \in Nat, NEW s \in [1 .. n -> Byte],
         NEW fs, Intact(bytes, fs)
  PROVE  Intact(Copied(bytes, at, s), Kept(fs, at, n))
<1>1. PICK new \in Array : new = Copied(bytes, at, s)
  BY CopiedBytes
<1>2. \A i \in 1 .. Capacity :
        new[i] = IF i \in at + 1 .. at + n THEN s[i - at] ELSE bytes[i]
  BY <1>1, CopiedBytes
<1>3. ASSUME NEW f \in Kept(fs, at, n)
      PROVE  f \in FieldRecord /\ Holds(new, f)
  <2>1. f \in FieldRecord /\ Holds(bytes, f) /\ (f.at + f.size <= at \/ f.at >= at + n)
    BY <1>3 DEF Kept, Intact
  <2>2. PICK p \in Nat, k \in Nat : p = f.at /\ k = f.size
    BY <2>1 DEF FieldRecord
  <2>3. p + k <= Capacity /\ (p + k <= at \/ p >= at + n)
    BY <2>1, <2>2 DEF Holds
  <2>4. \A i \in 1 .. k : p + i \in 1 .. Capacity /\ p + i \notin at + 1 .. at + n
    BY <2>3, CBufferAssumption
  <2>5. \A i \in 1 .. k : new[p + i] = bytes[p + i]
    BY <1>2, <2>4
  <2>6. SubSeq(new, p + 1, p + k) = SubSeq(bytes, p + 1, p + k)
    <3>1. SameBytes(new, p, bytes, p, k)
      BY <2>4, <2>5 DEF SameBytes, Array
    <3>2. k \in Nat
      BY <2>2
    <3> QED
      BY <3>1, <3>2, SamePiece
  <2> QED
    BY <2>1, <2>2, <2>6 DEF Holds
<1> QED
  BY <1>1, <1>3 DEF Intact

(* A field that is put is there. *)
LEMMA InsideHolds ==
  ASSUME NEW bytes \in Array, NEW at \in Nat, NEW n \in Nat, NEW s \in [1 .. n -> Byte],
         at + n <= Capacity, NEW i \in Nat, NEW k \in Nat, i + k <= n,
         NEW q \in Nat, q = at + i
  PROVE  SameBytes(Copied(bytes, at, s), q, s, i, k)
<1>1. PICK new \in Array : new = Copied(bytes, at, s)
  BY CopiedBytes
<1>2. \A j \in 1 .. Capacity :
        new[j] = IF j \in at + 1 .. at + n THEN s[j - at] ELSE bytes[j]
  BY <1>1, CopiedBytes
<1>3. ASSUME NEW j \in 1 .. k
      PROVE  new[at + i + j] = s[i + j]
  <2>1. /\ at + i + j \in 1 .. Capacity
        /\ at + i + j \in at + 1 .. at + n
        /\ at + i + j - at = i + j
    BY CBufferAssumption
  <2> QED
    BY <1>2, <2>1
<1>4. ASSUME NEW j \in 1 .. k
      PROVE  new[q + j] \in Byte /\ new[q + j] = s[i + j]
  <2>1. i + j \in 1 .. n
    OBVIOUS
  <2> QED
    BY <1>3, <2>1
<1>5. SameBytes(new, q, s, i, k)
  BY <1>4 DEF SameBytes
<1> QED
  BY <1>1, <1>5

(* The fields of a piece of an array, when it is copied elsewhere. *)
LEMMA MovedHold ==
  ASSUME NEW bytes \in Array, NEW source \in Array, NEW fs, Intact(source, fs),
         NEW at \in Nat, NEW n \in Nat, at + n <= Capacity,
         NEW to \in Nat, to + n <= Capacity
  PROVE  Intact(Copied(bytes, to, SubSeq(source, at + 1, at + n)), Shifted(fs, at, n, to))
<1>0. Capacity \in Nat
  BY CBufferAssumption
<1>1. PICK s \in [1 .. n -> Byte] :
        s = SubSeq(source, at + 1, at + n) /\ \A i \in 1 .. n : s[i] = source[at + i]
  <2>1. Readable(source, at, n)
    BY InArray
  <2>2. /\ SubSeq(source, at + 1, at + n) \in [1 .. n -> Byte]
        /\ \A i \in 1 .. n : SubSeq(source, at + 1, at + n)[i] = source[at + i]
    BY <2>1, Piece
  <2> QED
    BY <2>2
<1>2. PICK new \in Array : new = Copied(bytes, to, s)
  BY CopiedBytes
<1>3. \A j \in 1 .. Capacity :
        new[j] = IF j \in to + 1 .. to + n THEN s[j - to] ELSE bytes[j]
  BY <1>2, CopiedBytes
<1>4. ASSUME NEW g \in fs, g.at >= at, g.at + g.size <= at + n,
             NEW f, f = [g EXCEPT !.at = g.at - at + to]
      PROVE  f \in FieldRecord /\ Holds(new, f)
  <2>1. g \in FieldRecord /\ Holds(source, g)
    BY <1>4 DEF Intact
  <2>2. PICK p \in Nat, k \in Nat \ {0}, v \in Nat :
          p = g.at /\ k = g.size /\ v = g.value
    BY <2>1 DEF FieldRecord
  <2>3. PICK q \in Nat : q = p - at + to
    BY <1>4, <2>2
  <2>4. f = [at |-> q, size |-> k, value |-> v]
    BY <1>4, <2>1, <2>2, <2>3 DEF FieldRecord
  <2>5. f \in FieldRecord /\ f.at = q /\ f.size = k /\ f.value = v
    BY <2>4 DEF FieldRecord
  <2>6. p + k <= Capacity /\ q + k <= Capacity /\ at <= p /\ p + k <= at + n
    BY <1>0, <1>4, <2>1, <2>2, <2>3
  <2>7. ASSUME NEW j \in 1 .. k
        PROVE  new[q + j] = source[p + j]
    <3>1. /\ q + j \in 1 .. Capacity
          /\ q + j \in to + 1 .. to + n
          /\ q + j - to \in 1 .. n
          /\ at + (q + j - to) = p + j
      BY <1>0, <2>3, <2>6
    <3> QED
      BY <1>1, <1>3, <3>1
  <2>8. SubSeq(new, q + 1, q + k) = SubSeq(source, p + 1, p + k)
    <3>1. \A j \in 1 .. k : p + j \in 1 .. Capacity
      BY <1>0, <2>6
    <3>2. SameBytes(new, q, source, p, k)
      BY <2>7, <3>1 DEF SameBytes, Array
    <3> QED
      BY <3>2, SamePiece
  <2>9. Number(SubSeq(source, p + 1, p + k)) = v
    BY <2>1, <2>2 DEF Holds
  <2> QED
    BY <2>5, <2>6, <2>8, <2>9 DEF Holds
<1>5. \A f \in Shifted(fs, at, n, to) : f \in FieldRecord /\ Holds(new, f)
  BY <1>4 DEF Shifted
<1> QED
  BY <1>1, <1>2, <1>5 DEF Intact

(* Fields of both of two sets, and fewer of them. *)
LEMMA IntactTogether ==
  ASSUME NEW bytes, NEW fs, NEW gs, Intact(bytes, fs), Intact(bytes, gs)
  PROVE  Intact(bytes, fs \cup gs)
BY DEF Intact

(* An integer that is put. *)
LEMMA PutHolds ==
  ASSUME NEW bytes \in Array, NEW at \in Nat, NEW n \in Nat \ {0}, at + n <= Capacity,
         NEW v \in Nat, v <= Number([i \in 1 .. n |-> Base - 1])
  PROVE  Intact(Copied(bytes, at, Digits(v, n)), {Field(at, n, v)})
<1>1. PICK s \in [1 .. n -> Byte] : s = Digits(v, n) /\ Number(s) = v
  BY EncodedDigits, NumberOfDigits
<1>2. PICK z \in Nat : z = 0
  OBVIOUS
<1>3. SubSeq(Copied(bytes, at, s), at + 1, at + n) = SubSeq(s, z + 1, z + n)
  <2>1. z + n <= n /\ at = at + z /\ n \in Nat
    BY <1>2
  <2>2. SameBytes(Copied(bytes, at, s), at, s, z, n)
    BY <2>1, InsideHolds
  <2> QED
    BY <2>1, <2>2, SamePiece
<1>4. SubSeq(s, z + 1, z + n) = s
  BY <1>2
<1>5. Number(SubSeq(Copied(bytes, at, s), at + 1, at + n)) = v
  BY <1>1, <1>3, <1>4
<1>6. Holds(Copied(bytes, at, s), Field(at, n, v))
  BY <1>5 DEF Holds, Field
<1>7. Field(at, n, v) \in FieldRecord
  BY DEF Field, FieldRecord
<1> QED
  BY <1>1, <1>6, <1>7 DEF Intact

-----------------------------------------------------------------------------
BufferRecord == [position : Nat, limit : Nat, mark : Nat, bytes : Array]

Sound(r, fs) ==
  /\ r \in BufferRecord
  /\ r.position <= r.limit
  /\ r.limit <= Capacity
  /\ Intact(r.bytes, fs)

(***************************************************************************)
(* The inductive invariant: the numbers of each buffer are in order, and   *)
(* its fields, which lie within the array, are what the bytes form there.  *)
(***************************************************************************)
BufferInv ==
  /\ hostIsBigEndian \in [Buffer -> BOOLEAN]
  /\ buf \in [Buffer -> BufferRecord]
  /\ fields \in [Buffer -> SUBSET FieldRecord]
  /\ \A b \in Buffer : Sound(buf[b], fields[b])

(* One buffer changes, or two. *)
LEMMA OneBuffer ==
  ASSUME BufferInv, NEW b \in Buffer, NEW r, NEW fs, Sound(r, fs),
         buf' = [buf EXCEPT ![b] = r], fields' = [fields EXCEPT ![b] = fs],
         UNCHANGED hostIsBigEndian
  PROVE  BufferInv'
<1>1. r \in BufferRecord /\ fs \in SUBSET FieldRecord
  BY DEF Sound, Intact
<1>2. buf' \in [Buffer -> BufferRecord] /\ fields' \in [Buffer -> SUBSET FieldRecord]
  BY <1>1 DEF BufferInv
<1>3. ASSUME NEW d \in Buffer
      PROVE  Sound(buf'[d], fields'[d])
  BY DEF BufferInv
<1> QED
  BY <1>2, <1>3 DEF BufferInv

LEMMA TwoBuffers ==
  ASSUME BufferInv, NEW b \in Buffer, NEW c \in Buffer, b # c,
         NEW r, NEW fs, Sound(r, fs), NEW q, NEW gs, Sound(q, gs),
         buf' = [buf EXCEPT ![b] = r, ![c] = q],
         fields' = [fields EXCEPT ![b] = fs, ![c] = gs],
         UNCHANGED hostIsBigEndian
  PROVE  BufferInv'
<1>1. /\ r \in BufferRecord /\ fs \in SUBSET FieldRecord
      /\ q \in BufferRecord /\ gs \in SUBSET FieldRecord
  BY DEF Sound, Intact
<1>2. buf' \in [Buffer -> BufferRecord] /\ fields' \in [Buffer -> SUBSET FieldRecord]
  BY <1>1 DEF BufferInv
<1>3. ASSUME NEW d \in Buffer
      PROVE  Sound(buf'[d], fields'[d])
  BY DEF BufferInv
<1> QED
  BY <1>2, <1>3 DEF BufferInv

(* The parts of a buffer. *)
LEMMA BufferParts ==
  ASSUME BufferInv, NEW b \in Buffer
  PROVE  \E r \in BufferRecord, fs \in SUBSET FieldRecord :
           /\ buf[b] = r /\ fields[b] = fs
           /\ r.position \in Nat /\ r.limit \in Nat /\ r.mark \in Nat /\ r.bytes \in Array
           /\ r.position <= r.limit /\ r.limit <= Capacity
           /\ Intact(r.bytes, fs)
<1>1. Sound(buf[b], fields[b]) /\ fields[b] \in SUBSET FieldRecord
  BY DEF BufferInv
<1>2. PICK r \in BufferRecord : r = buf[b]
  BY <1>1 DEF Sound
<1>3. r.position \in Nat /\ r.limit \in Nat /\ r.mark \in Nat /\ r.bytes \in Array
  BY DEF BufferRecord
<1> QED
  BY <1>1, <1>2, <1>3 DEF Sound

(* An integer that fits is put. *)
LEMMA PutKeeps ==
  ASSUME BufferInv, NEW b \in Writer, NEW n \in Sizes, NEW v \in Values(n), Put(b, n, v)
  PROVE  BufferInv'
<1>1. b \in Buffer /\ n \in Nat \ {0} /\ v \in Nat /\ v <= Number([i \in 1 .. n |-> Base - 1])
  BY CBufferAssumption DEF Values
<1>2. PICK r \in BufferRecord, fs \in SUBSET FieldRecord :
        /\ buf[b] = r /\ fields[b] = fs
        /\ r.position \in Nat /\ r.limit \in Nat /\ r.mark \in Nat /\ r.bytes \in Array
        /\ r.position <= r.limit /\ r.limit <= Capacity
        /\ Intact(r.bytes, fs)
  BY <1>1, BufferParts
<1>3. PICK p \in Nat, q \in Nat, old \in Array :
        p = r.position /\ q = p + n /\ old = r.bytes
  BY <1>1, <1>2
<1>4. q <= r.limit /\ p + n <= Capacity
  BY <1>1, <1>2, <1>3, CBufferAssumption DEF Put, Remaining
<1>5. PICK s \in [1 .. n -> Byte] :
        s = Encoded(v, n, hostIsBigEndian[b]) /\ s = Digits(v, n)
  BY <1>1, EncodedDigits DEF BufferInv
<1>6. PICK new \in Array : new = Copied(old, p, s)
  BY <1>1, CopiedBytes
<1>7. PICK gs : gs = Kept(fs, p, n) \cup {Field(p, n, v)}
  OBVIOUS
<1>8. Intact(new, gs)
  <2>1. Intact(new, Kept(fs, p, n))
    BY <1>1, <1>2, <1>3, <1>6, OutsideHolds
  <2>2. Intact(new, {Field(p, n, v)})
    BY <1>1, <1>4, <1>5, <1>6, PutHolds
  <2> QED
    BY <1>7, <2>1, <2>2, IntactTogether
<1> DEFINE t == [r EXCEPT !.bytes = new, !.position = q]
<1>9. t \in BufferRecord /\ t.position = q /\ t.limit = r.limit /\ t.bytes = new
  BY DEF BufferRecord
<1>10. buf' = [buf EXCEPT ![b] = t]
  <2>1. buf' = [buf EXCEPT ![b].bytes = new, ![b].position = q]
    BY <1>2, <1>3, <1>5, <1>6 DEF Put
  <2> QED
    BY <1>1, <1>2, <2>1 DEF BufferInv
<1> HIDE DEF t
<1>11. Sound(t, gs)
  BY <1>2, <1>4, <1>8, <1>9 DEF Sound
<1>12. fields' = [fields EXCEPT ![b] = gs] /\ UNCHANGED hostIsBigEndian
  BY <1>2, <1>3, <1>7 DEF Put
<1> QED
  BY <1>1, <1>10, <1>11, <1>12, OneBuffer

LEMMA PutUIntAtKeeps ==
  ASSUME BufferInv, NEW b \in Writer, NEW v \in Values(UIntSize), NEW index \in 0 .. Capacity,
         PutUIntAt(b, v, index)
  PROVE  BufferInv'
<1>0. PICK n \in Nat \ {0} : n = UIntSize
  BY CBufferAssumption
<1>1. b \in Buffer /\ v \in Nat /\ v <= Number([i \in 1 .. n |-> Base - 1])
  BY <1>0, CBufferAssumption DEF Values
<1>2. PICK r \in BufferRecord, fs \in SUBSET FieldRecord :
        /\ buf[b] = r /\ fields[b] = fs
        /\ r.position \in Nat /\ r.limit \in Nat /\ r.mark \in Nat /\ r.bytes \in Array
        /\ r.position <= r.limit /\ r.limit <= Capacity
        /\ Intact(r.bytes, fs)
  BY <1>1, BufferParts
<1>3. PICK p \in Nat, old \in Array : p = index /\ old = r.bytes
  BY <1>2
<1>4. p + n <= Capacity
  BY <1>0, <1>2, <1>3, CBufferAssumption DEF PutUIntAt
<1>5. PICK s \in [1 .. n -> Byte] :
        s = Encoded(v, n, hostIsBigEndian[b]) /\ s = Digits(v, n)
  BY <1>1, EncodedDigits DEF BufferInv
<1>6. PICK new \in Array : new = Copied(old, p, s)
  BY CopiedBytes
<1>7. PICK gs : gs = Kept(fs, p, n) \cup {Field(p, n, v)}
  OBVIOUS
<1>8. Intact(new, gs)
  <2>1. Intact(new, Kept(fs, p, n))
    BY <1>2, <1>3, <1>6, OutsideHolds
  <2>2. Intact(new, {Field(p, n, v)})
    BY <1>1, <1>4, <1>5, <1>6, PutHolds
  <2> QED
    BY <1>7, <2>1, <2>2, IntactTogether
<1> DEFINE t == [r EXCEPT !.bytes = new]
<1>9. t \in BufferRecord /\ t.position = r.position /\ t.limit = r.limit /\ t.bytes = new
  BY DEF BufferRecord
<1>10. buf' = [buf EXCEPT ![b] = t]
  <2>1. buf' = [buf EXCEPT ![b].bytes = new]
    BY <1>0, <1>2, <1>3, <1>5, <1>6 DEF PutUIntAt
  <2> QED
    BY <1>1, <1>2, <2>1 DEF BufferInv
<1> HIDE DEF t
<1>11. Sound(t, gs)
  BY <1>2, <1>8, <1>9 DEF Sound
<1>12. fields' = [fields EXCEPT ![b] = gs] /\ UNCHANGED hostIsBigEndian
  BY <1>0, <1>2, <1>3, <1>7 DEF PutUIntAt
<1> QED
  BY <1>1, <1>10, <1>11, <1>12, OneBuffer

(***************************************************************************)
(* The actions that move the position or change the limit or the mark of   *)
(* one buffer only.                                                        *)
(***************************************************************************)
LEMMA NumbersKeep ==
  ASSUME BufferInv, NEW b \in Buffer, NEW r \in BufferRecord,
         r.bytes = buf[b].bytes, r.position <= r.limit, r.limit <= Capacity,
         buf' = [buf EXCEPT ![b] = r], UNCHANGED <<hostIsBigEndian, fields>>
  PROVE  BufferInv'
<1>1. Sound(buf[b], fields[b])
  BY DEF BufferInv
<1>2. Sound(r, fields[b])
  BY <1>1 DEF Sound
<1>3. PICK fs : fs = fields[b]
  OBVIOUS
<1>4. fields' = [fields EXCEPT ![b] = fs]
  BY <1>3 DEF BufferInv
<1> QED
  BY <1>2, <1>3, <1>4, OneBuffer

LEMMA NumbersStep ==
  ASSUME BufferInv, NEW b \in Buffer,
         \/ \E n \in Sizes : Get(b, n)
         \/ \E size \in 0 .. Capacity : GetString(b, size)
         \/ ClearBuffer(b) \/ Mark(b) \/ Reset(b) \/ Flip(b)
         \/ \E p \in 0 .. Capacity : SetPosition(b, p)
  PROVE  BufferInv'
<1>1. PICK r \in BufferRecord, fs \in SUBSET FieldRecord :
        /\ buf[b] = r /\ fields[b] = fs
        /\ r.position \in Nat /\ r.limit \in Nat /\ r.mark \in Nat /\ r.bytes \in Array
        /\ r.position <= r.limit /\ r.limit <= Capacity
        /\ Intact(r.bytes, fs)
  BY BufferParts
<1>2. buf \in [Buffer -> BufferRecord] /\ Capacity \in Nat
  BY CBufferAssumption DEF BufferInv
<1>3. ASSUME NEW q \in Nat, q <= r.limit, buf' = [buf EXCEPT ![b].position = q],
             UNCHANGED <<hostIsBigEndian, fields>>
      PROVE  BufferInv'
  <2> DEFINE t == [r EXCEPT !.position = q]
  <2>1. t \in BufferRecord /\ t.position = q /\ t.limit = r.limit /\ t.bytes = r.bytes
    BY DEF BufferRecord
  <2>2. buf' = [buf EXCEPT ![b] = t]
    BY <1>1, <1>2, <1>3
  <2> HIDE DEF t
  <2> QED
    BY <1>1, <1>3, <2>1, <2>2, NumbersKeep
<1>4. ASSUME NEW n \in Sizes, Get(b, n)
      PROVE  BufferInv'
  <2>1. PICK q \in Nat : q = r.position + n
    BY <1>1, CBufferAssumption
  <2>2. q <= r.limit
    BY <1>1, <1>4, <2>1, CBufferAssumption DEF Get, Remaining
  <2>3. buf' = [buf EXCEPT ![b].position = q] /\ UNCHANGED <<hostIsBigEndian, fields>>
    BY <1>1, <1>4, <2>1 DEF Get
  <2> QED
    BY <1>3, <2>2, <2>3
<1>5. ASSUME NEW size \in 0 .. Capacity, GetString(b, size)
      PROVE  BufferInv'
  <2>1. PICK p \in Nat, u \in Nat, bytes \in Array :
          p = r.position /\ u = UIntSize /\ bytes = r.bytes
    BY <1>1, CBufferAssumption
  <2>2. p + u <= r.limit
    BY <1>1, <1>5, <2>1 DEF GetString, Remaining
  <2>3. PICK s \in [1 .. u -> Byte] : s = SubSeq(bytes, p + 1, p + u)
    <3>1. p + u <= Capacity
      BY <1>1, <1>2, <2>2
    <3>2. Readable(bytes, p, u)
      BY <3>1, InArray
    <3> QED
      BY <3>2, Piece
  <2>4. PICK len \in Nat : len = Decoded(s, hostIsBigEndian[b])
    BY DecodedNumber DEF BufferInv
  <2>5. PICK read \in Nat :
          /\ read = IF len < size /\ UIntSize + len <= Remaining(b) THEN len ELSE 0
          /\ p + u + read <= r.limit
    BY <1>1, <2>1, <2>2 DEF Remaining
  <2>6. PICK q \in Nat : q = p + u + read
    OBVIOUS
  <2>7. buf' = [buf EXCEPT ![b].position = q] /\ UNCHANGED <<hostIsBigEndian, fields>>
    BY <1>1, <1>5, <2>1, <2>3, <2>4, <2>5, <2>6 DEF GetString
  <2> QED
    BY <1>3, <2>5, <2>6, <2>7
<1>6. ASSUME ClearBuffer(b)
      PROVE  BufferInv'
  <2> DEFINE t == [r EXCEPT !.position = 0, !.limit = Capacity]
  <2>1. t \in BufferRecord /\ t.position = 0 /\ t.limit = Capacity /\ t.bytes = r.bytes
    BY <1>2 DEF BufferRecord
  <2>2. buf' = [buf EXCEPT ![b] = t] /\ UNCHANGED <<hostIsBigEndian, fields>>
    BY <1>1, <1>2, <1>6 DEF ClearBuffer
  <2> HIDE DEF t
  <2>3. t.bytes = buf[b].bytes /\ t.position <= t.limit /\ t.limit <= Capacity
    BY <1>1, <1>2, <2>1
  <2> QED
    BY <2>1, <2>2, <2>3, NumbersKeep
<1>7. ASSUME Mark(b)
      PROVE  BufferInv'
  <2>1. PICK p \in Nat : p = r.position
    BY <1>1
  <2> DEFINE t == [r EXCEPT !.mark = p]
  <2>2. t \in BufferRecord /\ t.position = r.position /\ t.limit = r.limit /\ t.bytes = r.bytes
    BY DEF BufferRecord
  <2>3. buf' = [buf EXCEPT ![b] = t] /\ UNCHANGED <<hostIsBigEndian, fields>>
    BY <1>1, <1>2, <1>7, <2>1 DEF Mark
  <2> HIDE DEF t
  <2> QED
    BY <1>1, <2>2, <2>3, NumbersKeep
<1>8. ASSUME Reset(b)
      PROVE  BufferInv'
  <2>1. PICK m \in Nat, k \in Nat : m = r.mark /\ k = Capacity + 1
    BY <1>1, <1>2
  <2> DEFINE t == [r EXCEPT !.position = m, !.mark = k]
  <2>2. t \in BufferRecord /\ t.position = m /\ t.limit = r.limit /\ t.bytes = r.bytes
    BY DEF BufferRecord
  <2>3. buf' = [buf EXCEPT ![b] = t] /\ UNCHANGED <<hostIsBigEndian, fields>>
    BY <1>1, <1>2, <1>8, <2>1 DEF Reset
  <2>4. m <= r.limit
    BY <1>1, <1>8, <2>1 DEF Reset, MarkUsable
  <2> HIDE DEF t
  <2> QED
    BY <1>1, <2>2, <2>3, <2>4, NumbersKeep
<1>9. ASSUME Flip(b)
      PROVE  BufferInv'
  <2>1. PICK p \in Nat : p = r.position
    BY <1>1
  <2> DEFINE t == [r EXCEPT !.limit = p, !.position = 0]
  <2>2. t \in BufferRecord /\ t.position = 0 /\ t.limit = p /\ t.bytes = r.bytes
    BY DEF BufferRecord
  <2>3. buf' = [buf EXCEPT ![b] = t] /\ UNCHANGED <<hostIsBigEndian, fields>>
    BY <1>1, <1>2, <1>9, <2>1 DEF Flip
  <2> HIDE DEF t
  <2>4. t.bytes = buf[b].bytes /\ t.position <= t.limit /\ t.limit <= Capacity
    BY <1>1, <1>2, <2>1, <2>2
  <2> QED
    BY <2>2, <2>3, <2>4, NumbersKeep
<1>10. ASSUME NEW p \in 0 .. Capacity, SetPosition(b, p)
       PROVE  BufferInv'
  <2>1. p \in Nat /\ p <= r.limit
    BY <1>1, <1>10 DEF SetPosition
  <2>2. buf' = [buf EXCEPT ![b].position = p] /\ UNCHANGED <<hostIsBigEndian, fields>>
    BY <1>10 DEF SetPosition
  <2> QED
    BY <1>3, <2>1, <2>2
<1> QED
  BY <1>4, <1>5, <1>6, <1>7, <1>8, <1>9, <1>10

(* A buffer that ioByteBuffer_wrap makes. *)
LEMMA WrappedBuffer ==
  /\ Wrapped \in BufferRecord
  /\ Wrapped.position = 0 /\ Wrapped.limit = Capacity /\ Wrapped.bytes \in Array
<1>1. PICK zeros \in Array : zeros = [i \in 1 .. Capacity |-> 0]
  <2>1. 0 \in Byte
    BY CBufferAssumption DEF Byte
  <2>2. [i \in 1 .. Capacity |-> 0] \in Array
    BY <2>1 DEF Array
  <2> QED
    BY <2>2
<1>2. PICK k \in Nat, m \in Nat : k = Capacity /\ m = Capacity + 1
  BY CBufferAssumption
<1>3. Wrapped = [position |-> 0, limit |-> k, mark |-> m, bytes |-> zeros]
  BY <1>1, <1>2 DEF Wrapped
<1> QED
  BY <1>2, <1>3 DEF BufferRecord

(* One more buffer holds what remains of another one. *)
LEMMA CopyKeeps ==
  ASSUME BufferInv, NEW b \in Buffer, NEW c \in Buffer, Copy(b, c)
  PROVE  BufferInv'
<1>1. PICK r \in BufferRecord, fs \in SUBSET FieldRecord :
        /\ buf[b] = r /\ fields[b] = fs
        /\ r.position \in Nat /\ r.limit \in Nat /\ r.mark \in Nat /\ r.bytes \in Array
        /\ r.position <= r.limit /\ r.limit <= Capacity
        /\ Intact(r.bytes, fs)
  BY BufferParts
<1>2. buf \in [Buffer -> BufferRecord] /\ Capacity \in Nat
  BY CBufferAssumption DEF BufferInv
<1>3. PICK p \in Nat, l \in Nat, n \in Nat, source \in Array :
        p = r.position /\ l = r.limit /\ n = l - p /\ source = r.bytes
  BY <1>1
<1>4. p + n = l /\ p + n <= Capacity /\ n <= Capacity
  BY <1>1, <1>2, <1>3
<1>5. PICK w \in BufferRecord :
        w = Wrapped /\ w.position = 0 /\ w.limit = Capacity /\ w.bytes \in Array
  BY WrappedBuffer
<1>6. PICK old \in Array, z \in Nat : old = w.bytes /\ z = 0
  BY <1>5
<1>7. PICK s \in [1 .. n -> Byte] : s = SubSeq(source, p + 1, p + n)
  <2>1. Readable(source, p, n)
    BY <1>4, InArray
  <2> QED
    BY <2>1, Piece
<1>8. PICK new \in Array : new = Copied(old, z, s)
  BY CopiedBytes
<1>9. PICK gs : gs = Shifted(fs, p, n, z)
  OBVIOUS
<1>10. Intact(new, gs)
  <2>1. Intact(source, fs) /\ z + n <= Capacity
    BY <1>1, <1>3, <1>4, <1>6
  <2> QED
    BY <1>4, <1>7, <1>8, <1>9, <2>1, MovedHold
<1> DEFINE t == [w EXCEPT !.limit = n, !.bytes = new]
<1>11. t \in BufferRecord /\ t.position = 0 /\ t.limit = n /\ t.bytes = new
  BY <1>5 DEF BufferRecord
<1>12. buf' = [buf EXCEPT ![c] = t]
  <2>1. Remaining(b) = n /\ Rest(b) = s
    BY <1>1, <1>3, <1>4, <1>7 DEF Remaining, Rest
  <2> QED
    BY <1>5, <1>6, <1>8, <2>1 DEF Copy
<1> HIDE DEF t
<1>13. Sound(t, gs)
  <2>1. t.position <= t.limit /\ t.limit <= Capacity
    BY <1>4, <1>11
  <2> QED
    BY <1>10, <1>11, <2>1 DEF Sound
<1>14. fields' = [fields EXCEPT ![c] = gs] /\ UNCHANGED hostIsBigEndian
  BY <1>1, <1>3, <1>6, <1>9 DEF Copy, RestFields, Remaining
<1> QED
  BY <1>12, <1>13, <1>14, OneBuffer

(* One buffer is appended to another one. *)
LEMMA PutBufferKeeps ==
  ASSUME BufferInv, NEW b \in Buffer, NEW c \in Buffer, PutBuffer(b, c)
  PROVE  BufferInv'
<1>1. PICK r \in BufferRecord, fs \in SUBSET FieldRecord :
        /\ buf[b] = r /\ fields[b] = fs
        /\ r.position \in Nat /\ r.limit \in Nat /\ r.mark \in Nat /\ r.bytes \in Array
        /\ r.position <= r.limit /\ r.limit <= Capacity
        /\ Intact(r.bytes, fs)
  BY BufferParts
<1>2. PICK x \in BufferRecord, hs \in SUBSET FieldRecord :
        /\ buf[c] = x /\ fields[c] = hs
        /\ x.position \in Nat /\ x.limit \in Nat /\ x.mark \in Nat /\ x.bytes \in Array
        /\ x.position <= x.limit /\ x.limit <= Capacity
        /\ Intact(x.bytes, hs)
  BY BufferParts
<1>3. buf \in [Buffer -> BufferRecord] /\ Capacity \in Nat /\ b # c
  BY CBufferAssumption DEF BufferInv, PutBuffer
<1>4. PICK p \in Nat, l \in Nat, n \in Nat, source \in Array :
        p = x.position /\ l = x.limit /\ n = l - p /\ source = x.bytes
  BY <1>2
<1>5. PICK to \in Nat, q \in Nat, old \in Array :
        to = r.position /\ q = to + n /\ old = r.bytes
  BY <1>1
<1>6. p + n = l /\ p + n <= Capacity /\ q <= r.limit /\ to + n <= Capacity
  BY <1>1, <1>2, <1>3, <1>4, <1>5 DEF PutBuffer, Remaining
<1>7. PICK s \in [1 .. n -> Byte] : s = SubSeq(source, p + 1, p + n)
  <2>1. Readable(source, p, n)
    BY <1>6, InArray
  <2> QED
    BY <2>1, Piece
<1>8. PICK new \in Array : new = Copied(old, to, s)
  BY CopiedBytes
<1>9. PICK gs : gs = Kept(fs, to, n) \cup Shifted(hs, p, n, to)
  OBVIOUS
<1>10. Intact(new, gs)
  <2>1. Intact(source, hs) /\ Intact(old, fs)
    BY <1>1, <1>2, <1>4, <1>5
  <2>2. Intact(new, Kept(fs, to, n))
    BY <1>8, <2>1, OutsideHolds
  <2>3. Intact(new, Shifted(hs, p, n, to))
    BY <1>6, <1>7, <1>8, <2>1, MovedHold
  <2> QED
    BY <1>9, <2>2, <2>3, IntactTogether
<1> DEFINE t == [r EXCEPT !.bytes = new, !.position = q]
           u == [x EXCEPT !.position = l]
<1>11. t \in BufferRecord /\ t.position = q /\ t.limit = r.limit /\ t.bytes = new
  BY DEF BufferRecord
<1>12. u \in BufferRecord /\ u.position = l /\ u.limit = x.limit /\ u.bytes = x.bytes
  BY DEF BufferRecord
<1>13. buf' = [buf EXCEPT ![b] = t, ![c] = u]
  <2>1. Remaining(c) = n /\ Rest(c) = s
    BY <1>2, <1>4, <1>6, <1>7 DEF Remaining, Rest
  <2>2. buf' = [buf EXCEPT ![b].bytes = new, ![b].position = q, ![c].position = l]
    BY <1>1, <1>2, <1>4, <1>5, <1>8, <2>1 DEF PutBuffer
  <2> QED
    BY <1>1, <1>2, <1>3, <2>2
<1> HIDE DEF t, u
<1>14. Sound(t, gs) /\ Sound(u, hs)
  BY <1>1, <1>2, <1>4, <1>6, <1>10, <1>11, <1>12 DEF Sound
<1>15. fields' = [fields EXCEPT ![b] = gs, ![c] = hs]
  <2>1. fields' = [fields EXCEPT ![b] = gs]
    BY <1>1, <1>2, <1>4, <1>5, <1>9 DEF PutBuffer, RestFields, Remaining
  <2> QED
    BY <1>2, <1>3, <2>1 DEF BufferInv
<1>16. UNCHANGED hostIsBigEndian
  BY DEF PutBuffer
<1> QED
  BY <1>3, <1>13, <1>14, <1>15, <1>16, TwoBuffers

(* A datagram is received as far as there is room for it. *)
LEMMA TransferKeeps ==
  ASSUME BufferInv, NEW b \in Buffer, NEW c \in Buffer, Transfer(b, c)
  PROVE  BufferInv'
<1>1. PICK r \in BufferRecord, fs \in SUBSET FieldRecord :
        /\ buf[b] = r /\ fields[b] = fs
        /\ r.position \in Nat /\ r.limit \in Nat /\ r.mark \in Nat /\ r.bytes \in Array
        /\ r.position <= r.limit /\ r.limit <= Capacity
        /\ Intact(r.bytes, fs)
  BY BufferParts
<1>2. PICK x \in BufferRecord, hs \in SUBSET FieldRecord :
        /\ buf[c] = x /\ fields[c] = hs
        /\ x.position \in Nat /\ x.limit \in Nat /\ x.mark \in Nat /\ x.bytes \in Array
        /\ x.position <= x.limit /\ x.limit <= Capacity
        /\ Intact(x.bytes, hs)
  BY BufferParts
<1>3. buf \in [Buffer -> BufferRecord] /\ Capacity \in Nat /\ b # c
  BY CBufferAssumption DEF BufferInv, Transfer
<1>4. PICK p \in Nat, l \in Nat, k \in Nat, source \in Array :
        p = r.position /\ l = r.limit /\ k = l - p /\ source = r.bytes
  BY <1>1
<1>5. PICK to \in Nat, old \in Array : to = x.position /\ old = x.bytes
  BY <1>2
<1>6. PICK n \in Nat :
        /\ n = IF Remaining(b) < Remaining(c) THEN Remaining(b) ELSE Remaining(c)
        /\ n <= k /\ to + n <= x.limit
  BY <1>1, <1>2, <1>4, <1>5 DEF Remaining
<1>7. p + k = l /\ p + n <= Capacity /\ to + n <= Capacity
  BY <1>1, <1>2, <1>3, <1>4, <1>6
<1>8. PICK q \in Nat : q = to + n
  OBVIOUS
<1>9. PICK s \in [1 .. n -> Byte] : s = SubSeq(source, p + 1, p + n)
  <2>1. Readable(source, p, n)
    BY <1>7, InArray
  <2> QED
    BY <2>1, Piece
<1>10. SubSeq(Rest(b), 1, n) = s
  <2>1. PICK all \in [1 .. k -> Byte] :
          /\ all = SubSeq(source, p + 1, p + k)
          /\ \A i \in 1 .. k : all[i] = source[p + i]
    <3>1. Readable(source, p, k)
      <4>1. p + k <= Capacity
        BY <1>1, <1>4, <1>7
      <4> QED
        BY <4>1, InArray
    <3>2. /\ SubSeq(source, p + 1, p + k) \in [1 .. k -> Byte]
          /\ \A i \in 1 .. k : SubSeq(source, p + 1, p + k)[i] = source[p + i]
      BY <3>1, Piece
    <3> QED
      BY <3>2
  <2>2. Rest(b) = all
    BY <1>1, <1>4, <1>7, <2>1 DEF Rest
  <2>3. PICK z \in Nat : z = 0
    OBVIOUS
  <2>4. SameBytes(all, z, source, p, n)
    <3>1. \A i \in 1 .. n : i \in 1 .. k /\ z + i = i
      BY <1>6, <2>3
    <3> QED
      BY <2>1, <3>1 DEF SameBytes
  <2>5. SubSeq(all, z + 1, z + n) = s
    BY <1>9, <2>4, SamePiece
  <2>6. z + 1 = 1 /\ z + n = n
    BY <2>3
  <2> QED
    BY <2>2, <2>5, <2>6
<1>11. PICK new \in Array : new = Copied(old, to, s)
  BY CopiedBytes
<1>12. PICK gs : gs = Kept(hs, to, n) \cup Shifted(fs, p, n, to)
  OBVIOUS
<1>13. Intact(new, gs)
  <2>1. Intact(source, fs) /\ Intact(old, hs)
    BY <1>1, <1>2, <1>4, <1>5
  <2>2. Intact(new, Kept(hs, to, n))
    BY <1>11, <2>1, OutsideHolds
  <2>3. Intact(new, Shifted(fs, p, n, to))
    BY <1>7, <1>9, <1>11, <2>1, MovedHold
  <2> QED
    BY <1>12, <2>2, <2>3, IntactTogether
<1> DEFINE t == [r EXCEPT !.position = l]
           u == [x EXCEPT !.bytes = new, !.position = q]
<1>14. t \in BufferRecord /\ t.position = l /\ t.limit = r.limit /\ t.bytes = r.bytes
  BY DEF BufferRecord
<1>15. u \in BufferRecord /\ u.position = q /\ u.limit = x.limit /\ u.bytes = new
  BY DEF BufferRecord
<1>16. buf' = [buf EXCEPT ![b] = t, ![c] = u]
  <2>1. buf' = [buf EXCEPT ![b].position = l, ![c].bytes = new, ![c].position = q]
    BY <1>1, <1>2, <1>4, <1>5, <1>6, <1>8, <1>10, <1>11 DEF Transfer
  <2> QED
    BY <1>1, <1>2, <1>3, <2>1
<1> HIDE DEF t, u
<1>17. Sound(t, fs) /\ Sound(u, gs)
  BY <1>1, <1>2, <1>4, <1>6, <1>8, <1>13, <1>14, <1>15 DEF Sound
<1>18. fields' = [fields EXCEPT ![b] = fs, ![c] = gs]
  <2>1. fields' = [fields EXCEPT ![c] = gs]
    BY <1>1, <1>2, <1>4, <1>5, <1>6, <1>12 DEF Transfer
  <2> QED
    BY <1>1, <1>3, <2>1 DEF BufferInv
<1>19. UNCHANGED hostIsBigEndian
  BY DEF Transfer
<1> QED
  BY <1>3, <1>16, <1>17, <1>18, <1>19, TwoBuffers

(* One sequence after another. *)
LEMMA Concatenated ==
  ASSUME NEW S, NEW u \in Seq(S), NEW v \in Seq(S)
  PROVE  /\ u \o v \in Seq(S)
         /\ Len(u \o v) = Len(u) + Len(v)
         /\ \A i \in 1 .. Len(u) : (u \o v)[i] = u[i]
         /\ \A i \in Len(u) + 1 .. Len(u) + Len(v) : (u \o v)[i] = v[i - Len(u)]
OBVIOUS

(* A character is there. *)
LEMMA CharacterHolds ==
  ASSUME NEW bytes \in Array, NEW at \in Nat, at + 1 <= Capacity, bytes[at + 1] = 1
  PROVE  Holds(bytes, Field(at, 1, 1))
<1>1. PICK one \in Nat : one = 1
  OBVIOUS
<1>2. Readable(bytes, at, one)
  BY <1>1, InArray
<1>3. /\ SubSeq(bytes, at + 1, at + one) \in [1 .. one -> Byte]
      /\ \A k \in 1 .. one : SubSeq(bytes, at + 1, at + one)[k] = bytes[at + k]
  BY <1>2, Piece
<1>4. PICK u \in [1 .. one -> Byte] :
        u = SubSeq(bytes, at + 1, at + one) /\ u[1] = 1
  <2>1. PICK u \in [1 .. one -> Byte] :
          u = SubSeq(bytes, at + 1, at + one) /\ \A k \in 1 .. one : u[k] = bytes[at + k]
    BY <1>3
  <2>2. u[1] = bytes[at + 1]
    BY <1>1, <2>1
  <2> QED
    BY <2>1, <2>2
<1>5. PICK first \in [0 .. one -> Nat] :
        /\ first[0] = 0
        /\ \A k \in 1 .. one : first[k] = first[k - 1] * Base + u[k]
        /\ Number(u) = first[one]
  BY NumberOf DEF Byte
<1>6. first[1] = first[0] * Base + u[1]
  BY <1>1, <1>5
<1>7. 0 * Base = 0
  BY CBufferAssumption
<1>8. Number(u) = 1
  BY <1>1, <1>4, <1>5, <1>6, <1>7
<1> QED
  BY <1>1, <1>4, <1>8 DEF Holds, Field

(* A string is put: its length, and its characters if there is room. *)
LEMMA PutStringKeeps ==
  ASSUME BufferInv, NEW b \in Writer, NEW len \in {0} \cup Values(UIntSize),
         PutString(b, len)
  PROVE  BufferInv'
<1>0. PICK n \in Nat \ {0} : n = UIntSize
  BY CBufferAssumption
<1>1. b \in Buffer /\ len \in Nat /\ len <= Number([i \in 1 .. n |-> Base - 1])
  <2>1. [i \in 1 .. n |-> Base - 1] \in [1 .. n -> 0 .. Base - 1]
    BY CBufferAssumption
  <2>2. Number([i \in 1 .. n |-> Base - 1]) \in Nat
    BY <2>1, DigitsOfNumber
  <2> QED
    BY <1>0, <2>2, CBufferAssumption DEF Values
<1>2. PICK r \in BufferRecord, fs \in SUBSET FieldRecord :
        /\ buf[b] = r /\ fields[b] = fs
        /\ r.position \in Nat /\ r.limit \in Nat /\ r.mark \in Nat /\ r.bytes \in Array
        /\ r.position <= r.limit /\ r.limit <= Capacity
        /\ Intact(r.bytes, fs)
  BY <1>1, BufferParts
<1>3. PICK p \in Nat, old \in Array : p = r.position /\ old = r.bytes
  BY <1>2
<1>4. PICK s \in [1 .. n -> Byte] :
        s = Encoded(len, n, hostIsBigEndian[b]) /\ s = Digits(len, n)
  BY <1>1, EncodedDigits DEF BufferInv
<1>5. PICK all \in [1 .. n + len -> Byte] :
        /\ all = s \o [i \in 1 .. len |-> 1]
        /\ \A i \in 1 .. n : all[i] = s[i]
        /\ \A i \in n + 1 .. n + len : all[i] = 1
  <2>1. PICK ones \in [1 .. len -> Byte] : ones = [i \in 1 .. len |-> 1]
    <3>1. 1 \in Byte
      BY CBufferAssumption DEF Byte
    <3>2. [i \in 1 .. len |-> 1] \in [1 .. len -> Byte]
      BY <3>1
    <3> QED
      BY <3>2
  <2>2. /\ s \in Seq(Byte) /\ ones \in Seq(Byte)
        /\ Len(s) = n /\ Len(ones) = len
    BY <1>1
  <2>3. PICK a : a = s \o ones
    OBVIOUS
  <2>4. /\ a \in Seq(Byte)
        /\ Len(a) = Len(s) + Len(ones)
        /\ \A i \in 1 .. Len(s) : a[i] = s[i]
        /\ \A i \in Len(s) + 1 .. Len(s) + Len(ones) : a[i] = ones[i - Len(s)]
    <3>1. s \in Seq(Byte) /\ ones \in Seq(Byte)
      BY <2>2
    <3>2. /\ s \o ones \in Seq(Byte)
          /\ Len(s \o ones) = Len(s) + Len(ones)
          /\ \A i \in 1 .. Len(s) : (s \o ones)[i] = s[i]
          /\ \A i \in Len(s) + 1 .. Len(s) + Len(ones) : (s \o ones)[i] = ones[i - Len(s)]
      BY <3>1, Concatenated
    <3> QED
      BY <2>3, <3>2
  <2>5. a \in [1 .. n + len -> Byte]
    <3>1. PICK w \in Seq(Byte) : w = a
      BY <2>4
    <3>2. Len(w) = n + len
      BY <2>2, <2>4, <3>1
    <3>3. w \in [1 .. Len(w) -> Byte]
      OBVIOUS
    <3> QED
      BY <3>1, <3>2, <3>3
  <2>6. \A i \in 1 .. n : a[i] = s[i]
    BY <2>2, <2>4
  <2>7. ASSUME NEW i \in n + 1 .. n + len
        PROVE  a[i] = 1
    <3>1. i - n \in 1 .. len /\ i \in Len(s) + 1 .. Len(s) + Len(ones)
      BY <1>1, <2>2
    <3>2. a[i] = ones[i - n]
      BY <2>2, <2>4, <3>1
    <3> QED
      BY <2>1, <3>1, <3>2
  <2> QED
    BY <2>1, <2>3, <2>5, <2>6, <2>7
<1>6. Len(all) = n + len
  BY <1>1, <1>5
<1>7. PICK count \in Nat :
        /\ count = IF Len(all) <= Remaining(b) THEN Len(all) ELSE UIntSize
        /\ n <= count /\ count <= n + len
        /\ p + count <= r.limit
  BY <1>0, <1>1, <1>2, <1>3, <1>6 DEF PutString, Remaining
<1>8. PICK q \in Nat : q = p + count
  OBVIOUS
<1>9. PICK piece \in [1 .. count -> Byte] :
        piece = SubSeq(all, 1, count) /\ \A i \in 1 .. count : piece[i] = all[i]
  <2>1. PICK z \in Nat, m \in Nat : z = 0 /\ m = n + len
    BY <1>1
  <2>2. /\ SubSeq(all, z + 1, z + count) \in [1 .. count -> Byte]
        /\ \A i \in 1 .. count : SubSeq(all, z + 1, z + count)[i] = all[z + i]
    <3>1. \A i \in 1 .. count : i \in 1 .. m /\ z + i = i
      BY <1>7, <2>1
    <3>2. Readable(all, z, count)
      BY <2>1, <3>1 DEF Readable
    <3> QED
      BY <3>2, Piece
  <2>3. z + 1 = 1 /\ z + count = count /\ \A i \in 1 .. count : z + i = i
    BY <2>1
  <2> QED
    BY <2>2, <2>3
<1>10. PICK new \in Array : new = Copied(old, p, piece)
  BY CopiedBytes
<1>11. p + count <= Capacity
  BY <1>2, <1>7, CBufferAssumption
<1>12. Intact(new, Kept(fs, p, count))
  BY <1>2, <1>3, <1>10, OutsideHolds
<1>13. Intact(new, {Field(p, n, len)})
  <2>1. PICK z \in Nat : z = 0
    OBVIOUS
  <2>2. SameBytes(new, p, piece, z, n)
    <3>1. z + n <= count /\ p = p + z /\ n \in Nat
      BY <1>7, <2>1
    <3> QED
      BY <1>10, <1>11, <3>1, InsideHolds
  <2>3. \A i \in 1 .. n : new[p + i] \in Byte /\ new[p + i] = s[z + i]
    <3>1. \A i \in 1 .. n : i \in 1 .. count /\ z + i = i
      BY <1>7, <2>1
    <3> QED
      BY <1>5, <1>9, <2>2, <3>1 DEF SameBytes
  <2>4. SubSeq(new, p + 1, p + n) = SubSeq(s, z + 1, z + n)
    <3>1. SameBytes(new, p, s, z, n) /\ n \in Nat
      BY <2>3 DEF SameBytes
    <3> QED
      BY <3>1, SamePiece
  <2>5. SubSeq(s, z + 1, z + n) = s
    BY <2>1
  <2>6. Number(s) = len
    BY <1>1, <1>4, NumberOfDigits
  <2>7. Holds(new, Field(p, n, len))
    <3>1. p + n <= Capacity
      BY <1>7, <1>11, CBufferAssumption
    <3>2. Number(SubSeq(new, p + 1, p + n)) = len
      BY <2>4, <2>5, <2>6
    <3> QED
      BY <3>1, <3>2 DEF Holds, Field
  <2>8. Field(p, n, len) \in FieldRecord
    BY <1>1 DEF Field, FieldRecord
  <2> QED
    BY <2>7, <2>8 DEF Intact
<1>14. Intact(new, {Field(p + i, 1, 1) : i \in n .. count - 1})
  <2>1. ASSUME NEW i \in n .. count - 1
        PROVE  Field(p + i, 1, 1) \in FieldRecord /\ Holds(new, Field(p + i, 1, 1))
    <3>1. PICK at \in Nat, one \in Nat \ {0}, j \in Nat : at = p + i /\ one = 1 /\ j = i
      OBVIOUS
    <3>2. SameBytes(new, at, piece, j, one)
      <4>1. j + one <= count /\ at = p + j /\ one \in Nat
        BY <1>7, <3>1
      <4> QED
        BY <1>10, <1>11, <4>1, InsideHolds
    <3>3. new[at + 1] = 1
      <4>1. new[at + 1] = piece[j + 1]
        BY <3>1, <3>2 DEF SameBytes
      <4>2. j + 1 \in 1 .. count /\ j + 1 \in n + 1 .. n + len
        BY <1>1, <1>7, <3>1
      <4> QED
        BY <1>5, <1>9, <4>1, <4>2
    <3>4. at + 1 <= Capacity
      BY <1>7, <1>11, <3>1, CBufferAssumption
    <3>5. Holds(new, Field(at, 1, 1))
      BY <3>3, <3>4, CharacterHolds
    <3>6. Holds(new, Field(p + i, 1, 1))
      BY <3>1, <3>5
    <3>7. Field(p + i, 1, 1) \in FieldRecord
      BY DEF Field, FieldRecord
    <3> QED
      BY <3>6, <3>7
  <2> QED
    BY <2>1 DEF Intact
<1>15. PICK gs : gs = Kept(fs, p, count) \cup {Field(p, n, len)} \cup
                        {Field(p + i, 1, 1) : i \in n .. count - 1}
  OBVIOUS
<1>16. Intact(new, gs)
  BY <1>12, <1>13, <1>14, <1>15, IntactTogether
<1> DEFINE t == [r EXCEPT !.bytes = new, !.position = q]
<1>17. t \in BufferRecord /\ t.position = q /\ t.limit = r.limit /\ t.bytes = new
  BY DEF BufferRecord
<1>18. buf' = [buf EXCEPT ![b] = t]
  <2>1. buf' = [buf EXCEPT ![b].bytes = new, ![b].position = q]
    BY <1>0, <1>2, <1>3, <1>4, <1>5, <1>7, <1>8, <1>9, <1>10 DEF PutString
  <2> QED
    BY <1>1, <1>2, <2>1 DEF BufferInv
<1> HIDE DEF t
<1>19. Sound(t, gs)
  BY <1>2, <1>7, <1>8, <1>16, <1>17 DEF Sound
<1>20. fields' = [fields EXCEPT ![b] = gs] /\ UNCHANGED hostIsBigEndian
  BY <1>0, <1>2, <1>3, <1>4, <1>5, <1>7, <1>15 DEF PutString
<1> QED
  BY <1>1, <1>18, <1>19, <1>20, OneBuffer

LEMMA BufferStep ==
  ASSUME BufferInv, [CBufferNext]_bufferVars
  PROVE  BufferInv'
<1>1. Writer \subseteq Buffer
  BY CBufferAssumption
<1>2. ASSUME NEW b \in Writer, NEW n \in Sizes, NEW v \in Values(n), Put(b, n, v)
      PROVE  BufferInv'
  BY <1>2, PutKeeps
<1>3. ASSUME NEW b \in Writer, NEW v \in Values(UIntSize), NEW i \in 0 .. Capacity,
             PutUIntAt(b, v, i)
      PROVE  BufferInv'
  BY <1>3, PutUIntAtKeeps
<1>4. ASSUME NEW b \in Writer, NEW len \in {0} \cup Values(UIntSize), PutString(b, len)
      PROVE  BufferInv'
  BY <1>4, PutStringKeeps
<1>5. ASSUME NEW b \in Buffer,
             \/ \E n \in Sizes : Get(b, n)
             \/ \E size \in 0 .. Capacity : GetString(b, size)
             \/ ClearBuffer(b) \/ Mark(b) \/ Reset(b) \/ Flip(b)
             \/ \E p \in 0 .. Capacity : SetPosition(b, p)
      PROVE  BufferInv'
  BY <1>5, NumbersStep
<1>6. ASSUME NEW b \in Buffer, NEW c \in Buffer, Copy(b, c)
      PROVE  BufferInv'
  BY <1>6, CopyKeeps
<1>7. ASSUME NEW b \in Buffer, NEW c \in Buffer, PutBuffer(b, c)
      PROVE  BufferInv'
  BY <1>7, PutBufferKeeps
<1>8. ASSUME NEW b \in Buffer, NEW c \in Buffer, Transfer(b, c)
      PROVE  BufferInv'
  BY <1>8, TransferKeeps
<1>9. CASE CBufferNext
  BY <1>1, <1>2, <1>3, <1>4, <1>5, <1>6, <1>7, <1>8, <1>9 DEF CBufferNext
<1>10. CASE UNCHANGED bufferVars
  <2>1. buf' = buf /\ fields' = fields /\ hostIsBigEndian' = hostIsBigEndian
    BY <1>10 DEF bufferVars
  <2> QED
    BY <2>1 DEF BufferInv
<1> QED
  BY <1>9, <1>10

LEMMA BufferStart == CBufferInit => BufferInv
<1> SUFFICES ASSUME CBufferInit
             PROVE  BufferInv
  OBVIOUS
<1>1. ASSUME NEW b \in Buffer
      PROVE  Sound(buf[b], fields[b])
  BY WrappedBuffer, CBufferAssumption DEF CBufferInit, Sound, Intact
<1> QED
  BY <1>1, WrappedBuffer DEF CBufferInit, BufferInv

LEMMA BufferInvariant == CBufferSpec => []BufferInv
BY BufferStart, BufferStep, PTL DEF CBufferSpec

(***************************************************************************)
(* Whatever the order of the calls, the position of a buffer never passes  *)
(* its limit nor the limit its array.                                      *)
(***************************************************************************)
THEOREM BuffersStayInBounds == CBufferSpec => []BufferInBounds
<1>1. BufferInv => BufferInBounds
  <2> SUFFICES ASSUME BufferInv, NEW b \in Buffer
               PROVE  /\ 0 <= buf[b].position /\ buf[b].position <= buf[b].limit
                      /\ buf[b].limit <= Capacity
                      /\ Len(buf[b].bytes) = Capacity
    BY DEF BufferInBounds
  <2>1. PICK r \in BufferRecord, fs \in SUBSET FieldRecord :
          /\ buf[b] = r /\ fields[b] = fs
          /\ r.position \in Nat /\ r.limit \in Nat /\ r.mark \in Nat /\ r.bytes \in Array
          /\ r.position <= r.limit /\ r.limit <= Capacity
          /\ Intact(r.bytes, fs)
    BY BufferParts
  <2>2. PICK bytes \in [1 .. Capacity -> Byte] : bytes = r.bytes
    BY <2>1 DEF Array
  <2>3. Len(bytes) = Capacity
    BY CBufferAssumption
  <2> QED
    BY <2>1, <2>2, <2>3
<1> QED
  BY <1>1, BufferInvariant, PTL

(***************************************************************************)
(* Whatever is put in a buffer and not overwritten is read back, in place, *)
(* in a copy, or on a host of the other byte order.                        *)
(***************************************************************************)
THEOREM FieldsAreReadBack == CBufferSpec => []FieldsIntact
<1>1. ASSUME BufferInv, NEW b \in Buffer, NEW f \in fields[b]
      PROVE  Decoded(SubSeq(buf[b].bytes, f.at + 1, f.at + f.size), hostIsBigEndian[b])
               = f.value
  <2>1. /\ buf[b].bytes \in Array /\ f \in FieldRecord /\ Holds(buf[b].bytes, f)
        /\ hostIsBigEndian[b] \in BOOLEAN
    BY <1>1 DEF BufferInv, Sound, BufferRecord, Intact
  <2>2. PICK bytes \in Array, at \in Nat, n \in Nat :
          bytes = buf[b].bytes /\ at = f.at /\ n = f.size
    BY <2>1 DEF FieldRecord
  <2>3. PICK s \in [1 .. n -> Byte] : s = SubSeq(bytes, at + 1, at + n)
    <3>1. at + n <= Capacity
      BY <2>1, <2>2 DEF Holds
    <3>2. Readable(bytes, at, n)
      BY <3>1, InArray
    <3> QED
      BY <3>2, Piece
  <2>4. PICK big \in BOOLEAN : big = hostIsBigEndian[b]
    BY <2>1
  <2>5. Decoded(s, big) = Number(s)
    BY DecodedNumber
  <2>6. Number(s) = f.value
    BY <2>1, <2>2, <2>3 DEF Holds
  <2> QED
    BY <2>2, <2>3, <2>4, <2>5, <2>6
<1>2. BufferInv => FieldsIntact
  BY <1>1 DEF FieldsIntact
<1> QED
  BY <1>2, BufferInvariant, PTL

-----------------------------------------------------------------------------
(***************************************************************************)
(* Collections.  The sorted arrays stay in the order of the comparator, so *)
(* that bsearch() finds what is there, and with it every operation is a    *)
(* step of a function, a set and a sequence.                               *)
(***************************************************************************)

(* A part of a sequence. *)
LEMMA PartIndex ==
  ASSUME NEW S, NEW s \in Seq(S), NEW m \in 1 .. Len(s) + 1, NEW n \in 0 .. Len(s),
         m <= n + 1
  PROVE  /\ SubSeq(s, m, n) \in Seq(S)
         /\ Len(SubSeq(s, m, n)) = n - m + 1
         /\ \A i \in 1 .. n - m + 1 : SubSeq(s, m, n)[i] = s[m + i - 1]
<1>1. m \in Int /\ n \in Int /\ Len(s) \in Nat
  OBVIOUS
<1>2. \A i \in m .. n : s[i] \in S
  OBVIOUS
<1>3. /\ SubSeq(s, m, n) \in Seq(S)
      /\ Len(SubSeq(s, m, n)) = IF m <= n THEN n - m + 1 ELSE 0
      /\ \A i \in 1 .. n - m + 1 : SubSeq(s, m, n)[i] = s[m + i - 1]
  BY <1>1, <1>2, SubSeqProperties
<1>4. (IF m <= n THEN n - m + 1 ELSE 0) = n - m + 1
  BY <1>1
<1> QED
  BY <1>3, <1>4

(* One sequence after another. *)
LEMMA JoinedIndex ==
  ASSUME NEW S, NEW s \in Seq(S), NEW t \in Seq(S)
  PROVE  /\ s \o t \in Seq(S)
         /\ Len(s \o t) = Len(s) + Len(t)
         /\ \A i \in 1 .. Len(s) : (s \o t)[i] = s[i]
         /\ \A i \in 1 .. Len(t) : (s \o t)[Len(s) + i] = t[i]
<1>1. Len(s) \in Nat /\ Len(t) \in Nat
  OBVIOUS
<1>2. /\ s \o t \in Seq(S)
      /\ Len(s \o t) = Len(s) + Len(t)
      /\ \A i \in 1 .. Len(s) + Len(t) :
           (s \o t)[i] = IF i <= Len(s) THEN s[i] ELSE t[i - Len(s)]
  BY ConcatProperties
<1>3. ASSUME NEW i \in 1 .. Len(t)
      PROVE  (s \o t)[Len(s) + i] = t[i]
  <2>1. PICK j \in 1 .. Len(s) + Len(t) :
          j = Len(s) + i /\ ~ (j <= Len(s)) /\ j - Len(s) = i
    BY <1>1
  <2> QED
    BY <1>2, <2>1
<1>4. ASSUME NEW i \in 1 .. Len(s)
      PROVE  (s \o t)[i] = s[i]
  <2>1. i \in 1 .. Len(s) + Len(t) /\ i <= Len(s)
    BY <1>1
  <2> QED
    BY <1>2, <2>1
<1> QED
  BY <1>2, <1>3, <1>4

(* Where the elements of a sequence are after one is inserted. *)
LEMMA InsertedIndex ==
  ASSUME NEW S, NEW s \in Seq(S), NEW x \in S, NEW r \in 1 .. Len(s) + 1
  PROVE  /\ InsertAt(s, r, x) \in Seq(S)
         /\ Len(InsertAt(s, r, x)) = Len(s) + 1
         /\ \A i \in 1 .. r - 1 : InsertAt(s, r, x)[i] = s[i]
         /\ InsertAt(s, r, x)[r] = x
         /\ \A i \in r .. Len(s) : InsertAt(s, r, x)[i + 1] = s[i]
<1>1. PICK q \in 0 .. Len(s), one \in 1 .. Len(s) + 1, last \in 0 .. Len(s) :
        q = r - 1 /\ one = 1 /\ last = Len(s) /\ one <= q + 1 /\ r <= last + 1
  OBVIOUS
<1> DEFINE left == SubSeq(s, one, q)
           right == SubSeq(s, r, last)
           start == Append(left, x)
<1>2. InsertAt(s, r, x) = left \o <<x>> \o right
  BY <1>1 DEF InsertAt
<1>3. /\ left \in Seq(S)
      /\ Len(left) = q - one + 1
      /\ \A i \in 1 .. q - one + 1 : left[i] = s[one + i - 1]
  BY <1>1, PartIndex
<1>4. /\ right \in Seq(S)
      /\ Len(right) = last - r + 1
      /\ \A i \in 1 .. last - r + 1 : right[i] = s[r + i - 1]
  BY <1>1, PartIndex
<1> HIDE DEF left, right
<1>5. start = left \o <<x>>
  BY <1>3
<1>6. /\ start \in Seq(S)
      /\ Len(start) = Len(left) + 1
      /\ \A i \in 1 .. Len(left) : start[i] = left[i]
      /\ start[Len(left) + 1] = x
  BY <1>3, AppendIndex
<1> HIDE DEF start
<1>7. /\ start \o right \in Seq(S)
      /\ Len(start \o right) = Len(start) + Len(right)
      /\ \A i \in 1 .. Len(start) : (start \o right)[i] = start[i]
      /\ \A i \in 1 .. Len(right) : (start \o right)[Len(start) + i] = right[i]
  <2>1. start \in Seq(S) /\ right \in Seq(S)
    BY <1>4, <1>6
  <2> QED
    BY <2>1, JoinedIndex
<1>8. Len(left) = r - 1 /\ Len(start) = r /\ Len(right) = Len(s) - r + 1 /\ Len(s) \in Nat
  BY <1>1, <1>3, <1>4, <1>6
<1> DEFINE t == start \o right
<1>9. InsertAt(s, r, x) = t
  BY <1>2, <1>5
<1> HIDE DEF t
<1>10. Len(t) = Len(s) + 1
  BY <1>7, <1>8, SMTT(30) DEF t
<1>11. ASSUME NEW i \in 1 .. r - 1
       PROVE  t[i] = s[i]
  <2>1. i \in 1 .. Len(start) /\ i \in 1 .. Len(left) /\ i \in 1 .. q - one + 1 /\ one + i - 1 = i
    BY <1>1, <1>8
  <2> QED
    BY <1>3, <1>6, <1>7, <2>1 DEF t
<1>12. t[r] = x
  <2>1. r \in 1 .. Len(start) /\ Len(left) + 1 = r
    BY <1>8
  <2> QED
    BY <1>6, <1>7, <2>1 DEF t
<1>13. ASSUME NEW i \in r .. Len(s)
       PROVE  t[i + 1] = s[i]
  <2>1. PICK k \in 1 .. Len(right) :
          k = i - r + 1 /\ Len(start) + k = i + 1 /\ r + k - 1 = i /\ k \in 1 .. last - r + 1
    BY <1>1, <1>8
  <2>2. (start \o right)[Len(start) + k] = right[k] /\ right[k] = s[r + k - 1]
    BY <1>4, <1>7, <2>1
  <2> QED
    BY <2>1, <2>2 DEF t
<1> QED
  BY <1>7, <1>9, <1>10, <1>11, <1>12, <1>13 DEF t

(* Where they are after one is removed. *)
LEMMA RemovedIndex ==
  ASSUME NEW S, NEW s \in Seq(S), NEW r \in 1 .. Len(s)
  PROVE  /\ RemoveAt(s, r) \in Seq(S)
         /\ Len(RemoveAt(s, r)) = Len(s) - 1
         /\ \A i \in 1 .. r - 1 : RemoveAt(s, r)[i] = s[i]
         /\ \A i \in r .. Len(s) - 1 : RemoveAt(s, r)[i] = s[i + 1]
<1>1. PICK q \in 0 .. Len(s), one \in 1 .. Len(s) + 1, next \in 1 .. Len(s) + 1,
           last \in 0 .. Len(s) :
        /\ q = r - 1 /\ one = 1 /\ next = r + 1 /\ last = Len(s)
        /\ one <= q + 1 /\ next <= last + 1
  OBVIOUS
<1> DEFINE left == SubSeq(s, one, q)
           right == SubSeq(s, next, last)
           t == left \o right
<1>2. RemoveAt(s, r) = t
  BY <1>1 DEF RemoveAt
<1>3. /\ left \in Seq(S)
      /\ Len(left) = q - one + 1
      /\ \A i \in 1 .. q - one + 1 : left[i] = s[one + i - 1]
  BY <1>1, PartIndex
<1>4. /\ right \in Seq(S)
      /\ Len(right) = last - next + 1
      /\ \A i \in 1 .. last - next + 1 : right[i] = s[next + i - 1]
  BY <1>1, PartIndex
<1> HIDE DEF left, right
<1>5. /\ t \in Seq(S)
      /\ Len(t) = Len(left) + Len(right)
      /\ \A i \in 1 .. Len(left) : t[i] = left[i]
      /\ \A i \in 1 .. Len(right) : t[Len(left) + i] = right[i]
  <2>1. left \in Seq(S) /\ right \in Seq(S)
    BY <1>3, <1>4
  <2> QED
    BY <2>1, JoinedIndex
<1> HIDE DEF t
<1>6. Len(left) = r - 1 /\ Len(right) = Len(s) - r /\ Len(s) \in Nat
  BY <1>1, <1>3, <1>4
<1>7. Len(t) = Len(s) - 1
  BY <1>5, <1>6
<1>8. ASSUME NEW i \in 1 .. r - 1
      PROVE  t[i] = s[i]
  <2>1. i \in 1 .. Len(left) /\ i \in 1 .. q - one + 1 /\ one + i - 1 = i
    BY <1>1, <1>6
  <2> QED
    BY <1>3, <1>5, <2>1
<1>9. ASSUME NEW i \in r .. Len(s) - 1
      PROVE  t[i] = s[i + 1]
  <2>1. PICK k \in 1 .. Len(right) :
          /\ k = i - r + 1 /\ Len(left) + k = i /\ next + k - 1 = i + 1
          /\ k \in 1 .. last - next + 1
    BY <1>1, <1>6
  <2>2. t[Len(left) + k] = right[k] /\ right[k] = s[next + k - 1]
    BY <1>4, <1>5, <2>1
  <2> QED
    BY <2>1, <2>2
<1> QED
  BY <1>2, <1>5, <1>7, <1>8, <1>9

-----------------------------------------------------------------------------
(* Remainders of the numbers around zero. *)
LEMMA Remainders ==
  ASSUME NEW n \in Nat, NEW x \in Int, - n < x, x < n
  PROVE  x % n = IF x < 0 THEN x + n ELSE x
  OBVIOUS

(* The comparator does not wrap around between keys that lie together. *)
LEMMA Places ==
  ASSUME NEW first \in 0 .. 2 * Half - 1,
         \A k \in CollKey : Place(first, k) < Half,
         NEW k \in CollKey, NEW l \in CollKey
  PROVE  /\ Place(first, k) \in 0 .. Half - 1
         /\ Compare(k, l) = Place(first, k) - Place(first, l)
         /\ Compare(k, l) = 0 => k = l
<1>1. /\ k \in 0 .. 2 * Half - 1 /\ l \in 0 .. 2 * Half - 1
      /\ 2 * Half \in Nat /\ Half \in Nat
  BY CCollectionsAssumption
<1>2. Place(first, k) = IF k - first < 0 THEN k - first + 2 * Half ELSE k - first
  <2>1. PICK n \in Nat, x \in Int : n = 2 * Half /\ x = k - first /\ - n < x /\ x < n
    BY <1>1
  <2> QED
    BY <2>1, Remainders DEF Place
<1>3. Place(first, l) = IF l - first < 0 THEN l - first + 2 * Half ELSE l - first
  <2>1. PICK n \in Nat, x \in Int : n = 2 * Half /\ x = l - first /\ - n < x /\ x < n
    BY <1>1
  <2> QED
    BY <2>1, Remainders DEF Place
<1>4. (k - l) % (2 * Half) = IF k - l < 0 THEN k - l + 2 * Half ELSE k - l
  <2>1. PICK n \in Nat, x \in Int : n = 2 * Half /\ x = k - l /\ - n < x /\ x < n
    BY <1>1
  <2> QED
    BY <2>1, Remainders
<1>5. Place(first, k) < Half /\ Place(first, l) < Half
  OBVIOUS
<1>6. Compare(k, l) = LET d == IF k - l < 0 THEN k - l + 2 * Half ELSE k - l
                      IN  IF d < Half THEN d ELSE d - 2 * Half
  BY <1>4 DEF Compare
<1> QED
  BY <1>1, <1>2, <1>3, <1>5, <1>6
-----------------------------------------------------------------------------
(* An array that qsort() has left in the order of the comparator. *)
InOrder(keys) == \A i, j \in 1 .. Len(keys) : i < j => Compare(keys[i], keys[j]) < 0

(* What bsearch() finds in it. *)
LEMMA KeyIsFound ==
  ASSUME KeysTogether, NEW keys \in Seq(CollKey), InOrder(keys), NEW k \in CollKey
  PROVE  /\ Bsearch(k, keys) \in 0 .. Len(keys)
         /\ Bsearch(k, keys) > 0 => keys[Bsearch(k, keys)] = k
         /\ (\E i \in 1 .. Len(keys) : keys[i] = k) => Bsearch(k, keys) > 0
<1>1. PICK first \in 0 .. 2 * Half - 1 : \A l \in CollKey : Place(first, l) < Half
  BY DEF KeysTogether
<1>2. /\ Len(keys) \in Nat
      /\ DOMAIN keys = 1 .. Len(keys)
      /\ \A i \in 1 .. Len(keys) : keys[i] \in CollKey
  OBVIOUS
<1> DEFINE signs == [i \in 1 .. Len(keys) |-> Compare(k, keys[i])]
<1>3. Bsearch(k, keys) = Bisection(signs)
  BY <1>2 DEF Bsearch
<1>4. \A i \in 1 .. Len(keys) :
        /\ Compare(k, keys[i]) = Place(first, k) - Place(first, keys[i])
        /\ Place(first, k) \in Int /\ Place(first, keys[i]) \in Int
        /\ Compare(k, keys[i]) = 0 => keys[i] = k
  BY <1>1, <1>2, Places
<1>5. Place(first, k) \in Int /\ Compare(k, k) = 0
  <2>1. /\ Compare(k, k) = Place(first, k) - Place(first, k)
        /\ Place(first, k) \in 0 .. Half - 1
    BY <1>1, Places
  <2> QED
    BY <2>1, CCollectionsAssumption
<1>6. \A i \in 1 .. Len(keys) : Compare(k, keys[i]) \in Int
  BY <1>4
<1>7. signs \in Seq(Int) /\ Len(signs) = Len(keys)
  BY <1>2, <1>6
<1>8. \A i, j \in 1 .. Len(keys) : i < j => signs[j] <= signs[i]
  <2> SUFFICES ASSUME NEW i \in 1 .. Len(keys), NEW j \in 1 .. Len(keys), i < j
               PROVE  signs[j] <= signs[i]
    OBVIOUS
  <2>1. Compare(keys[i], keys[j]) = Place(first, keys[i]) - Place(first, keys[j])
    BY <1>1, <1>2, Places
  <2>2. Compare(keys[i], keys[j]) < 0
    BY DEF InOrder
  <2>3. signs[j] = Place(first, k) - Place(first, keys[j])
        /\ signs[i] = Place(first, k) - Place(first, keys[i])
    BY <1>4
  <2> HIDE DEF signs
  <2> QED
    BY <1>4, <2>1, <2>2, <2>3
<1>9. \A i \in 1 .. Len(keys) : signs[i] = 0 <=> keys[i] = k
  BY <1>4, <1>5
<1> HIDE DEF signs
<1>10. /\ Bisection(signs) \in 0 .. Len(signs)
       /\ Bisection(signs) > 0 => signs[Bisection(signs)] = 0
       /\ (\E i \in 1 .. Len(signs) : signs[i] = 0) => Bisection(signs) > 0
  <2>1. \A i, j \in 1 .. Len(signs) : i < j => signs[j] <= signs[i]
    BY <1>7, <1>8
  <2> QED
    BY <1>7, <2>1, BisectionFinds
<1>11. Bisection(signs) > 0 => Bisection(signs) \in 1 .. Len(keys)
  BY <1>2, <1>7, <1>10
<1> QED
  BY <1>3, <1>7, <1>9, <1>10, <1>11

(* Where a new key goes: after those that come before it. *)
LEMMA RankIsPlace ==
  ASSUME KeysTogether, NEW keys \in Seq(CollKey), InOrder(keys), NEW k \in CollKey,
         \A i \in 1 .. Len(keys) : keys[i] # k
  PROVE  /\ Rank(k, keys) \in 1 .. Len(keys) + 1
         /\ \A i \in 1 .. Rank(k, keys) - 1 : Compare(keys[i], k) < 0
         /\ \A i \in Rank(k, keys) .. Len(keys) : Compare(k, keys[i]) < 0
<1>1. PICK first \in 0 .. 2 * Half - 1 : \A l \in CollKey : Place(first, l) < Half
  BY DEF KeysTogether
<1>2. /\ Len(keys) \in Nat
      /\ DOMAIN keys = 1 .. Len(keys)
      /\ \A i \in 1 .. Len(keys) : keys[i] \in CollKey
  OBVIOUS
<1>3. \A i \in 1 .. Len(keys) :
        /\ Place(first, keys[i]) \in Int /\ Place(first, k) \in Int
        /\ Compare(keys[i], k) = Place(first, keys[i]) - Place(first, k)
        /\ Compare(k, keys[i]) = Place(first, k) - Place(first, keys[i])
        /\ Compare(k, keys[i]) # 0
  BY <1>1, <1>2, Places
<1>4. \A i, j \in 1 .. Len(keys) : i < j => Place(first, keys[i]) < Place(first, keys[j])
  <2> SUFFICES ASSUME NEW i \in 1 .. Len(keys), NEW j \in 1 .. Len(keys), i < j
               PROVE  Place(first, keys[i]) < Place(first, keys[j])
    OBVIOUS
  <2>1. Compare(keys[i], keys[j]) = Place(first, keys[i]) - Place(first, keys[j])
    BY <1>1, <1>2, Places
  <2>2. Compare(keys[i], keys[j]) < 0
    BY DEF InOrder
  <2> QED
    BY <1>3, <2>1, <2>2
<1> DEFINE before == {i \in 1 .. Len(keys) : Compare(keys[i], k) < 0}
           after == {i \in 1 .. Len(keys) + 1 : i \notin before}
<1>5. before \subseteq 1 .. Len(keys) /\ after \subseteq Nat /\ Len(keys) + 1 \in after
  BY <1>2
<1>6. PICK m \in after : \A n \in after : m <= n
  BY <1>5, LeastNumber
<1>7. m \in 1 .. Len(keys) + 1
  OBVIOUS
<1>8. ASSUME NEW i \in 1 .. m - 1
      PROVE  i \in before
  <2>1. i \in 1 .. Len(keys) + 1 /\ ~ m <= i
    BY <1>2, <1>7
  <2> QED
    BY <1>6, <2>1
<1>9. ASSUME NEW i \in m .. Len(keys)
      PROVE  i \notin before
  <2>1. i \in 1 .. Len(keys) /\ m \in 1 .. Len(keys)
    BY <1>2, <1>7
  <2>2. m \notin before
    OBVIOUS
  <2>3. ~ Compare(keys[m], k) < 0
    BY <2>1, <2>2
  <2>4. Place(first, keys[m]) <= Place(first, keys[i])
    <3>1. m = i \/ m < i
      BY <2>1
    <3> QED
      BY <1>3, <1>4, <2>1, <3>1
  <2> QED
    BY <1>3, <2>1, <2>3, <2>4
<1>10. before = 1 .. m - 1
  <2>1. 1 .. m - 1 \subseteq before
    BY <1>8
  <2>2. ASSUME NEW i \in before
        PROVE  i \in 1 .. m - 1
    <3>1. i \in 1 .. Len(keys)
      BY <1>5
    <3>2. i \notin m .. Len(keys)
      BY <1>9
    <3> HIDE DEF before, after
    <3> QED
      BY <1>2, <1>7, <3>1, <3>2
  <2> QED
    BY <2>1, <2>2
<1>11. Rank(k, keys) = 1 + Cardinality(before)
  BY <1>2 DEF Rank
<1> HIDE DEF after
<1>12. Cardinality(1 .. m - 1) = m - 1
  <2>1. PICK a \in Int, b \in Int : a = 1 /\ b = m - 1
    BY <1>7
  <2>2. Cardinality(a .. b) = IF a > b THEN 0 ELSE b - a + 1
    BY FS_Interval
  <2> QED
    BY <1>2, <1>7, <2>1, <2>2
<1>13. Rank(k, keys) = m
  <2>1. Cardinality(before) = m - 1
    BY <1>10, <1>12
  <2> HIDE DEF before
  <2>2. m \in Int
    BY <1>2, <1>7
  <2> QED
    BY <1>11, <2>1, <2>2
<1>14. \A i \in m .. Len(keys) : Compare(k, keys[i]) < 0
  <2> TAKE i \in m .. Len(keys)
  <2>1. i \in 1 .. Len(keys) /\ ~ Compare(keys[i], k) < 0
    BY <1>2, <1>7, <1>9
  <2> QED
    BY <1>3, <2>1
<1>15. \A i \in 1 .. m - 1 : Compare(keys[i], k) < 0
  BY <1>8
<1> QED
  BY <1>7, <1>13, <1>14, <1>15

(* The arrays stay in order. *)
LEMMA InsertedInOrder ==
  ASSUME KeysTogether, NEW keys \in Seq(CollKey), InOrder(keys), NEW k \in CollKey,
         \A i \in 1 .. Len(keys) : keys[i] # k
  PROVE  InOrder(InsertAt(keys, Rank(k, keys), k))
<1>1. PICK r \in 1 .. Len(keys) + 1 :
        /\ r = Rank(k, keys)
        /\ \A i \in 1 .. r - 1 : Compare(keys[i], k) < 0
        /\ \A i \in r .. Len(keys) : Compare(k, keys[i]) < 0
  BY RankIsPlace
<1> DEFINE t == InsertAt(keys, r, k)
<1>2. /\ Len(t) = Len(keys) + 1 /\ Len(keys) \in Nat
      /\ \A i \in 1 .. r - 1 : t[i] = keys[i]
      /\ t[r] = k
      /\ \A i \in r .. Len(keys) : t[i + 1] = keys[i]
  BY InsertedIndex
<1> HIDE DEF t
<1> SUFFICES ASSUME NEW i \in 1 .. Len(t), NEW j \in 1 .. Len(t), i < j
             PROVE  Compare(t[i], t[j]) < 0
  BY <1>1 DEF InOrder, t
<1>3. \A a, b \in 1 .. Len(keys) : a < b => Compare(keys[a], keys[b]) < 0
  BY DEF InOrder
<1>4. CASE j < r
  <2>1. i \in 1 .. r - 1 /\ j \in 1 .. r - 1 /\ i \in 1 .. Len(keys) /\ j \in 1 .. Len(keys)
    BY <1>2, <1>4
  <2> QED
    BY <1>2, <1>3, <2>1
<1>5. CASE j = r
  <2>1. i \in 1 .. r - 1
    BY <1>5
  <2> QED
    BY <1>1, <1>2, <1>5, <2>1
<1>6. CASE r < j
  <2>1. PICK b \in r .. Len(keys) : j = b + 1
    <3>1. j - 1 \in r .. Len(keys)
      BY <1>2, <1>6
    <3> QED
      BY <3>1
  <2>2. t[j] = keys[b] /\ b \in 1 .. Len(keys)
    BY <1>2, <2>1
  <2>3. CASE i < r
    <3>1. i \in 1 .. r - 1 /\ i \in 1 .. Len(keys) /\ i < b
      BY <1>2, <2>1, <2>3
    <3> QED
      BY <1>2, <1>3, <2>2, <3>1
  <2>4. CASE i = r
    BY <1>1, <1>2, <2>1, <2>2, <2>4
  <2>5. CASE r < i
    <3>1. PICK a \in r .. Len(keys) : i = a + 1
      <4>1. i - 1 \in r .. Len(keys)
        BY <1>2, <2>5
      <4> QED
        BY <4>1
    <3>2. t[i] = keys[a] /\ a \in 1 .. Len(keys) /\ a < b
      BY <1>2, <2>1, <3>1
    <3> QED
      BY <1>3, <2>2, <3>2
  <2> QED
    BY <2>3, <2>4, <2>5
<1> QED
  BY <1>4, <1>5, <1>6

LEMMA RemovedInOrder ==
  ASSUME NEW keys \in Seq(CollKey), InOrder(keys), NEW r \in 1 .. Len(keys)
  PROVE  InOrder(RemoveAt(keys, r))
<1> DEFINE t == RemoveAt(keys, r)
<1>1. /\ Len(t) = Len(keys) - 1 /\ Len(keys) \in Nat
      /\ \A i \in 1 .. r - 1 : t[i] = keys[i]
      /\ \A i \in r .. Len(keys) - 1 : t[i] = keys[i + 1]
  <2>1. /\ RemoveAt(keys, r) \in Seq(CollKey)
        /\ Len(RemoveAt(keys, r)) = Len(keys) - 1
        /\ \A i \in 1 .. r - 1 : RemoveAt(keys, r)[i] = keys[i]
        /\ \A i \in r .. Len(keys) - 1 : RemoveAt(keys, r)[i] = keys[i + 1]
    BY RemovedIndex
  <2>2. Len(keys) \in Nat
    OBVIOUS
  <2> HIDE DEF t
  <2> QED
    BY <2>1, <2>2 DEF t
<1> HIDE DEF t
<1>2. \A a, b \in 1 .. Len(keys) : a < b => Compare(keys[a], keys[b]) < 0
  BY DEF InOrder
<1> SUFFICES ASSUME NEW i \in 1 .. Len(t), NEW j \in 1 .. Len(t), i < j
             PROVE  Compare(t[i], t[j]) < 0
  BY DEF InOrder, t
<1>3. ASSUME NEW n \in 1 .. Len(t)
      PROVE  \E a \in 1 .. Len(keys) : t[n] = keys[a] /\ a = IF n < r THEN n ELSE n + 1
  <2>1. CASE n < r
    <3>1. n \in 1 .. r - 1 /\ n \in 1 .. Len(keys)
      BY <1>1, <2>1
    <3> QED
      BY <1>1, <2>1, <3>1
  <2>2. CASE ~ n < r
    <3>1. n \in r .. Len(keys) - 1 /\ n + 1 \in 1 .. Len(keys)
      BY <1>1, <2>2
    <3> QED
      BY <1>1, <2>2, <3>1
  <2> QED
    BY <2>1, <2>2
<1>4. PICK a \in 1 .. Len(keys) : t[i] = keys[a] /\ a = IF i < r THEN i ELSE i + 1
  BY <1>3
<1>5. PICK b \in 1 .. Len(keys) : t[j] = keys[b] /\ b = IF j < r THEN j ELSE j + 1
  BY <1>3
<1>6. a < b
  BY <1>4, <1>5
<1> QED
  BY <1>2, <1>4, <1>5, <1>6

(* The elements of a sequence that an element is inserted in. *)
LEMMA InsertedElements ==
  ASSUME NEW S, NEW s \in Seq(S), NEW x \in S, NEW r \in 1 .. Len(s) + 1
  PROVE  ToSet(InsertAt(s, r, x)) = ToSet(s) \cup {x}
<1> DEFINE t == InsertAt(s, r, x)
<1>1. /\ t \in Seq(S)
      /\ Len(t) = Len(s) + 1 /\ Len(s) \in Nat
      /\ \A i \in 1 .. r - 1 : t[i] = s[i]
      /\ t[r] = x
      /\ \A i \in r .. Len(s) : t[i + 1] = s[i]
  BY InsertedIndex
<1> HIDE DEF t
<1>2. DOMAIN t = 1 .. Len(s) + 1 /\ DOMAIN s = 1 .. Len(s)
  BY <1>1
<1>3. ASSUME NEW i \in 1 .. Len(s) + 1
      PROVE  t[i] \in ToSet(s) \cup {x}
  <2>1. CASE i < r
    <3>1. i \in 1 .. r - 1 /\ i \in 1 .. Len(s)
      BY <1>1, <2>1
    <3> QED
      BY <1>1, <1>2, <3>1 DEF ToSet
  <2>2. CASE i = r
    BY <1>1, <2>2
  <2>3. CASE r < i
    <3>1. PICK j \in r .. Len(s) : i = j + 1
      <4>1. i - 1 \in r .. Len(s)
        BY <1>1, <2>3
      <4> QED
        BY <4>1
    <3>2. t[i] = s[j] /\ j \in 1 .. Len(s)
      BY <1>1, <3>1
    <3> QED
      BY <1>2, <3>2 DEF ToSet
  <2> QED
    BY <2>1, <2>2, <2>3
<1>4. ASSUME NEW i \in 1 .. Len(s)
      PROVE  s[i] \in ToSet(t)
  <2>1. CASE i < r
    <3>1. i \in 1 .. r - 1 /\ i \in 1 .. Len(s) + 1
      BY <1>1, <2>1
    <3>2. t[i] = s[i]
      BY <1>1, <3>1
    <3> QED
      BY <1>2, <3>1, <3>2 DEF ToSet
  <2>2. CASE ~ i < r
    <3>1. i \in r .. Len(s) /\ i + 1 \in 1 .. Len(s) + 1
      BY <1>1, <2>2
    <3>2. t[i + 1] = s[i]
      BY <1>1, <3>1
    <3> QED
      BY <1>2, <3>1, <3>2 DEF ToSet
  <2> QED
    BY <2>1, <2>2
<1>5. x \in ToSet(t)
  BY <1>1, <1>2 DEF ToSet
<1>6. ToSet(t) \subseteq ToSet(s) \cup {x}
  BY <1>2, <1>3 DEF ToSet
<1>7. ToSet(s) \subseteq ToSet(t)
  BY <1>2, <1>4 DEF ToSet
<1>8. ToSet(t) = ToSet(s) \cup {x}
  BY <1>5, <1>6, <1>7
<1> QED
  BY <1>8 DEF t

(* Those that are left when the only one of its kind is removed. *)
LEMMA RemovedElements ==
  ASSUME NEW S, NEW s \in Seq(S), NEW r \in 1 .. Len(s),
         \A i \in 1 .. Len(s) : i # r => s[i] # s[r]
  PROVE  ToSet(RemoveAt(s, r)) = ToSet(s) \ {s[r]}
<1> DEFINE t == RemoveAt(s, r)
<1>1. /\ t \in Seq(S)
      /\ Len(t) = Len(s) - 1 /\ Len(s) \in Nat
      /\ \A i \in 1 .. r - 1 : t[i] = s[i]
      /\ \A i \in r .. Len(s) - 1 : t[i] = s[i + 1]
  BY RemovedIndex
<1> HIDE DEF t
<1>2. DOMAIN t = 1 .. Len(s) - 1 /\ DOMAIN s = 1 .. Len(s)
  BY <1>1
<1>3. ASSUME NEW n \in 1 .. Len(s) - 1
      PROVE  t[n] \in ToSet(s) \ {s[r]}
  <2>1. PICK a \in 1 .. Len(s) : t[n] = s[a] /\ a # r
    <3>1. CASE n < r
      <4>1. n \in 1 .. r - 1 /\ n \in 1 .. Len(s) /\ n # r
        BY <1>1, <3>1
      <4> QED
        BY <1>1, <4>1
    <3>2. CASE ~ n < r
      <4>1. n \in r .. Len(s) - 1 /\ n + 1 \in 1 .. Len(s) /\ n + 1 # r
        BY <1>1, <3>2
      <4> QED
        BY <1>1, <4>1
    <3> QED
      BY <3>1, <3>2
  <2> QED
    BY <1>2, <2>1 DEF ToSet
<1>4. ASSUME NEW i \in 1 .. Len(s), i # r
      PROVE  s[i] \in ToSet(t)
  <2>1. CASE i < r
    <3>1. i \in 1 .. r - 1 /\ i \in 1 .. Len(s) - 1
      BY <1>1, <2>1
    <3>2. t[i] = s[i]
      BY <1>1, <3>1
    <3> QED
      BY <1>2, <3>1, <3>2 DEF ToSet
  <2>2. CASE r < i
    <3>1. PICK j \in r .. Len(s) - 1 : i = j + 1
      <4>1. i - 1 \in r .. Len(s) - 1
        BY <1>1, <2>2
      <4> QED
        BY <4>1
    <3>2. t[j] = s[i] /\ j \in 1 .. Len(s) - 1
      BY <1>1, <3>1
    <3> QED
      BY <1>2, <3>2 DEF ToSet
  <2> QED
    BY <1>4, <2>1, <2>2
<1>5. ToSet(t) \subseteq ToSet(s) \ {s[r]}
  BY <1>2, <1>3 DEF ToSet
<1>6. ToSet(s) \ {s[r]} \subseteq ToSet(t)
  BY <1>2, <1>4 DEF ToSet
<1>7. ToSet(t) = ToSet(s) \ {s[r]}
  BY <1>5, <1>6
<1> QED
  BY <1>7 DEF t

(* Cells in order are different, and as many as the elements. *)
LEMMA ElementsInOrder ==
  ASSUME KeysTogether, NEW keys \in Seq(CollKey), InOrder(keys)
  PROVE  /\ \A i, j \in 1 .. Len(keys) : i # j => keys[i] # keys[j]
         /\ Cardinality(ToSet(keys)) = Len(keys)
<1>1. PICK first \in 0 .. 2 * Half - 1 : \A l \in CollKey : Place(first, l) < Half
  BY DEF KeysTogether
<1>2. /\ Len(keys) \in Nat
      /\ DOMAIN keys = 1 .. Len(keys)
      /\ \A i \in 1 .. Len(keys) : keys[i] \in CollKey
  OBVIOUS
<1>3. \A i, j \in 1 .. Len(keys) : i < j => keys[i] # keys[j]
  <2> SUFFICES ASSUME NEW i \in 1 .. Len(keys), NEW j \in 1 .. Len(keys), i < j,
                      keys[i] = keys[j]
               PROVE  FALSE
    OBVIOUS
  <2>1. PICK k \in CollKey : k = keys[i] /\ k = keys[j]
    BY <1>2
  <2>2. Compare(k, k) = Place(first, k) - Place(first, k) /\ Place(first, k) \in 0 .. Half - 1
    BY <1>1, Places
  <2>3. Compare(k, k) < 0
    BY <2>1 DEF InOrder
  <2> QED
    BY <2>2, <2>3, CCollectionsAssumption
<1>4. \A i, j \in 1 .. Len(keys) : i # j => keys[i] # keys[j]
  <2> SUFFICES ASSUME NEW i \in 1 .. Len(keys), NEW j \in 1 .. Len(keys), i # j
               PROVE  keys[i] # keys[j]
    OBVIOUS
  <2>1. i < j \/ j < i
    OBVIOUS
  <2> QED
    BY <1>3, <2>1
<1>5. ToSet(keys) = {keys[i] : i \in 1 .. Len(keys)}
  BY <1>2 DEF ToSet
<1>6. Cardinality({keys[i] : i \in 1 .. Len(keys)}) = Len(keys)
  BY <1>4, DifferentElements
<1> QED
  BY <1>4, <1>5, <1>6

-----------------------------------------------------------------------------
(* The pairs of a map, the keys of an array of them and the function that  *)
(* it stands for.                                                          *)
Pair == [key : CollKey, value : CollValue \cup {NoValue}]

KeysOf(s) == [i \in DOMAIN s |-> s[i].key]

MapOf(s) ==
  [k \in {s[i].key : i \in DOMAIN s} |-> s[CHOOSE i \in DOMAIN s : s[i].key = k].value]

LEMMA KeysTyped ==
  ASSUME NEW s \in Seq(Pair)
  PROVE  /\ KeysOf(s) \in Seq(CollKey)
         /\ Len(KeysOf(s)) = Len(s)
         /\ \A i \in 1 .. Len(s) : KeysOf(s)[i] = s[i].key /\ s[i].key \in CollKey
         /\ ToSet(KeysOf(s)) = {p.key : p \in ToSet(s)}
<1>1. /\ Len(s) \in Nat /\ DOMAIN s = 1 .. Len(s)
      /\ \A i \in 1 .. Len(s) : s[i] \in Pair
  OBVIOUS
<1>2. \A p \in Pair : p.key \in CollKey
  BY DEF Pair
<1>3. KeysOf(s) = [i \in 1 .. Len(s) |-> s[i].key]
  BY <1>1 DEF KeysOf
<1>4. \A i \in 1 .. Len(s) : s[i].key \in CollKey
  BY <1>1, <1>2
<1>5. KeysOf(s) \in Seq(CollKey) /\ Len(KeysOf(s)) = Len(s)
  BY <1>1, <1>3, <1>4
<1>6. DOMAIN KeysOf(s) = 1 .. Len(s)
  BY <1>3
<1>7. ToSet(KeysOf(s)) = {p.key : p \in ToSet(s)}
  BY <1>1, <1>3, <1>6 DEF ToSet
<1> QED
  BY <1>3, <1>4, <1>5, <1>7

(* What the function binds. *)
LEMMA Bindings ==
  ASSUME KeysTogether, NEW s \in Seq(Pair), InOrder(KeysOf(s))
  PROVE  /\ DOMAIN MapOf(s) = {p.key : p \in ToSet(s)}
         /\ \A p \in ToSet(s) : MapOf(s)[p.key] = p.value
         /\ Cardinality(DOMAIN MapOf(s)) = Len(s)
<1>1. /\ Len(s) \in Nat /\ DOMAIN s = 1 .. Len(s)
  OBVIOUS
<1>2. /\ KeysOf(s) \in Seq(CollKey)
      /\ Len(KeysOf(s)) = Len(s)
      /\ \A i \in 1 .. Len(s) : KeysOf(s)[i] = s[i].key
      /\ ToSet(KeysOf(s)) = {p.key : p \in ToSet(s)}
  BY KeysTyped
<1>3. \A i, j \in 1 .. Len(s) : s[i].key = s[j].key => i = j
  <2>1. \A i, j \in 1 .. Len(KeysOf(s)) : i # j => KeysOf(s)[i] # KeysOf(s)[j]
    BY <1>2, ElementsInOrder
  <2> QED
    BY <1>2, <2>1
<1>4. Cardinality(ToSet(KeysOf(s))) = Len(s)
  BY <1>2, ElementsInOrder
<1>5. DOMAIN MapOf(s) = {p.key : p \in ToSet(s)}
  BY <1>1 DEF MapOf, ToSet
<1>6. ASSUME NEW i \in 1 .. Len(s)
      PROVE  MapOf(s)[s[i].key] = s[i].value
  <2>1. i = CHOOSE j \in 1 .. Len(s) : s[j].key = s[i].key
    BY <1>3
  <2>2. s[i].key \in {s[j].key : j \in 1 .. Len(s)}
    OBVIOUS
  <2>3. MapOf(s) = [k \in {s[j].key : j \in 1 .. Len(s)} |->
                      s[CHOOSE j \in 1 .. Len(s) : s[j].key = k].value]
    BY <1>1 DEF MapOf
  <2>4. MapOf(s)[s[i].key] = s[CHOOSE j \in 1 .. Len(s) : s[j].key = s[i].key].value
    BY <2>2, <2>3
  <2> QED
    BY <2>1, <2>4
<1>7. \A p \in ToSet(s) : MapOf(s)[p.key] = p.value
  BY <1>1, <1>6 DEF ToSet
<1> QED
  BY <1>2, <1>4, <1>5, <1>7

(* A function that binds the same is the same. *)
LEMMA SameMapping ==
  ASSUME KeysTogether, NEW s \in Seq(Pair), InOrder(KeysOf(s)),
         NEW g, NEW D, g = [x \in D |-> g[x]],
         D = {p.key : p \in ToSet(s)},
         \A p \in ToSet(s) : g[p.key] = p.value
  PROVE  MapOf(s) = g
<1>1. /\ DOMAIN MapOf(s) = D
      /\ \A p \in ToSet(s) : MapOf(s)[p.key] = p.value
  BY Bindings
<1>2. MapOf(s) = [x \in D |-> MapOf(s)[x]]
  <2>1. MapOf(s) = [x \in DOMAIN MapOf(s) |-> MapOf(s)[x]]
    BY DEF MapOf
  <2> HIDE DEF MapOf
  <2> QED
    BY <1>1, <2>1
<1>3. \A x \in D : MapOf(s)[x] = g[x]
  BY <1>1
<1> HIDE DEF MapOf
<1> QED
  BY <1>2, <1>3

(* The keys of an array that a pair is inserted in or removed from. *)
LEMMA InsertedKeys ==
  ASSUME NEW s \in Seq(Pair), NEW p \in Pair, NEW r \in 1 .. Len(s) + 1
  PROVE  KeysOf(InsertAt(s, r, p)) = InsertAt(KeysOf(s), r, p.key)
<1>1. /\ KeysOf(s) \in Seq(CollKey) /\ Len(KeysOf(s)) = Len(s) /\ Len(s) \in Nat
      /\ \A i \in 1 .. Len(s) : KeysOf(s)[i] = s[i].key
  BY KeysTyped
<1>2. p.key \in CollKey
  BY DEF Pair
<1> DEFINE t == InsertAt(s, r, p)
           u == InsertAt(KeysOf(s), r, p.key)
<1>3. /\ t \in Seq(Pair) /\ Len(t) = Len(s) + 1
      /\ \A i \in 1 .. r - 1 : t[i] = s[i]
      /\ t[r] = p
      /\ \A i \in r .. Len(s) : t[i + 1] = s[i]
  BY InsertedIndex
<1>4. /\ u \in Seq(CollKey) /\ Len(u) = Len(s) + 1
      /\ \A i \in 1 .. r - 1 : u[i] = KeysOf(s)[i]
      /\ u[r] = p.key
      /\ \A i \in r .. Len(s) : u[i + 1] = KeysOf(s)[i]
  <2>1. PICK ks \in Seq(CollKey), k \in CollKey :
          ks = KeysOf(s) /\ Len(ks) = Len(s) /\ k = p.key
    BY <1>1, <1>2
  <2>2. /\ InsertAt(ks, r, k) \in Seq(CollKey) /\ Len(InsertAt(ks, r, k)) = Len(ks) + 1
        /\ \A i \in 1 .. r - 1 : InsertAt(ks, r, k)[i] = ks[i]
        /\ InsertAt(ks, r, k)[r] = k
        /\ \A i \in r .. Len(ks) : InsertAt(ks, r, k)[i + 1] = ks[i]
    <3>1. r \in 1 .. Len(ks) + 1
      BY <2>1
    <3> QED
      BY <3>1, InsertedIndex
  <2> QED
    BY <2>1, <2>2
<1> HIDE DEF t, u
<1>5. KeysOf(t) \in Seq(CollKey) /\ Len(KeysOf(t)) = Len(t)
      /\ \A i \in 1 .. Len(t) : KeysOf(t)[i] = t[i].key
  BY <1>3, KeysTyped
<1>6. ASSUME NEW i \in 1 .. Len(s) + 1
      PROVE  t[i].key = u[i]
  <2>1. CASE i < r
    <3>1. i \in 1 .. r - 1 /\ i \in 1 .. Len(s)
      BY <1>1, <2>1
    <3> QED
      BY <1>1, <1>3, <1>4, <3>1
  <2>2. CASE i = r
    BY <1>3, <1>4, <2>2
  <2>3. CASE r < i
    <3>1. PICK j \in r .. Len(s) : i = j + 1
      <4>1. i - 1 \in r .. Len(s)
        BY <1>1, <2>3
      <4> QED
        BY <4>1
    <3>2. j \in 1 .. Len(s)
      BY <1>1
    <3> QED
      BY <1>1, <1>3, <1>4, <3>1, <3>2
  <2> QED
    BY <2>1, <2>2, <2>3
<1>7. \A i \in 1 .. Len(s) + 1 : KeysOf(t)[i] = u[i]
  BY <1>3, <1>5, <1>6
<1>8. KeysOf(t) = u
  <2>1. PICK v \in Seq(CollKey), w \in Seq(CollKey) : v = KeysOf(t) /\ w = u
    BY <1>4, <1>5
  <2>2. Len(v) = Len(w) /\ \A i \in 1 .. Len(v) : v[i] = w[i]
    BY <1>3, <1>4, <1>5, <1>7, <2>1
  <2>3. v = w
    BY <2>2, SeqEqual
  <2> QED
    BY <2>1, <2>3
<1> QED
  BY <1>8 DEF t, u

LEMMA RemovedKeys ==
  ASSUME NEW s \in Seq(Pair), NEW r \in 1 .. Len(s)
  PROVE  KeysOf(RemoveAt(s, r)) = RemoveAt(KeysOf(s), r)
<1>1. /\ KeysOf(s) \in Seq(CollKey) /\ Len(KeysOf(s)) = Len(s) /\ Len(s) \in Nat
      /\ \A i \in 1 .. Len(s) : KeysOf(s)[i] = s[i].key
  BY KeysTyped
<1> DEFINE t == RemoveAt(s, r)
           u == RemoveAt(KeysOf(s), r)
<1>2. /\ t \in Seq(Pair) /\ Len(t) = Len(s) - 1
      /\ \A i \in 1 .. r - 1 : t[i] = s[i]
      /\ \A i \in r .. Len(s) - 1 : t[i] = s[i + 1]
  BY RemovedIndex
<1>3. /\ u \in Seq(CollKey) /\ Len(u) = Len(s) - 1
      /\ \A i \in 1 .. r - 1 : u[i] = KeysOf(s)[i]
      /\ \A i \in r .. Len(s) - 1 : u[i] = KeysOf(s)[i + 1]
  <2>1. PICK n \in 1 .. Len(KeysOf(s)) : n = r
    BY <1>1
  <2> QED
    BY <1>1, <2>1, RemovedIndex
<1> HIDE DEF t, u
<1>4. KeysOf(t) \in Seq(CollKey) /\ Len(KeysOf(t)) = Len(t)
      /\ \A i \in 1 .. Len(t) : KeysOf(t)[i] = t[i].key
  BY <1>2, KeysTyped
<1>5. ASSUME NEW i \in 1 .. Len(s) - 1
      PROVE  t[i].key = u[i]
  <2>1. CASE i < r
    <3>1. i \in 1 .. r - 1 /\ i \in 1 .. Len(s)
      BY <1>1, <2>1
    <3> QED
      BY <1>1, <1>2, <1>3, <3>1
  <2>2. CASE ~ i < r
    <3>1. i \in r .. Len(s) - 1 /\ i + 1 \in 1 .. Len(s)
      BY <1>1, <2>2
    <3> QED
      BY <1>1, <1>2, <1>3, <3>1
  <2> QED
    BY <2>1, <2>2
<1>6. \A i \in 1 .. Len(s) - 1 : KeysOf(t)[i] = u[i]
  BY <1>2, <1>4, <1>5
<1>7. KeysOf(t) = u
  <2>1. PICK v \in Seq(CollKey), w \in Seq(CollKey) : v = KeysOf(t) /\ w = u
    BY <1>3, <1>4
  <2>2. Len(v) = Len(w) /\ \A i \in 1 .. Len(v) : v[i] = w[i]
    BY <1>2, <1>3, <1>4, <1>6, <2>1
  <2>3. v = w
    BY <2>2, SeqEqual
  <2> QED
    BY <2>1, <2>3
<1> QED
  BY <1>7 DEF t, u

(* A value is replaced. *)
LEMMA ReplacedValue ==
  ASSUME KeysTogether, NEW s \in Seq(Pair), InOrder(KeysOf(s)),
         NEW i \in 1 .. Len(s), NEW v \in CollValue \cup {NoValue}
  PROVE  LET t == [s EXCEPT ![i].value = v] IN
         /\ t \in Seq(Pair) /\ Len(t) = Len(s) /\ KeysOf(t) = KeysOf(s)
         /\ MapOf(t) = [x \in DOMAIN MapOf(s) \cup {s[i].key} |->
                          IF x = s[i].key THEN v ELSE MapOf(s)[x]]
<1>1. /\ Len(s) \in Nat /\ DOMAIN s = 1 .. Len(s)
      /\ \A j \in 1 .. Len(s) : s[j] \in Pair
  OBVIOUS
<1>2. PICK p \in Pair : p = [s[i] EXCEPT !.value = v] /\ p.key = s[i].key /\ p.value = v
  <2>1. PICK q \in Pair : q = s[i]
    BY <1>1
  <2>2. /\ [q EXCEPT !.value = v] \in Pair
        /\ [q EXCEPT !.value = v].key = q.key
        /\ [q EXCEPT !.value = v].value = v
    BY DEF Pair
  <2> QED
    BY <2>1, <2>2
<1> DEFINE t == [s EXCEPT ![i] = p]
<1>3. t = [s EXCEPT ![i].value = v]
  BY <1>2
<1>4. /\ t \in Seq(Pair) /\ Len(t) = Len(s) /\ DOMAIN t = 1 .. Len(s)
      /\ t[i] = p
      /\ \A j \in 1 .. Len(s) : j # i => t[j] = s[j]
  BY <1>1
<1> HIDE DEF t
<1>5. \A j \in 1 .. Len(s) : t[j].key = s[j].key
  BY <1>2, <1>4
<1>6. KeysOf(t) = KeysOf(s)
  BY <1>1, <1>4, <1>5 DEF KeysOf
<1>7. \A j \in 1 .. Len(s) : s[j].key = s[i].key => j = i
  <2>1. /\ KeysOf(s) \in Seq(CollKey) /\ Len(KeysOf(s)) = Len(s)
        /\ \A j \in 1 .. Len(s) : KeysOf(s)[j] = s[j].key
    BY KeysTyped
  <2>2. \A j, k \in 1 .. Len(s) : j # k => KeysOf(s)[j] # KeysOf(s)[k]
    BY <2>1, ElementsInOrder
  <2> QED
    BY <2>1, <2>2
<1> DEFINE D == DOMAIN MapOf(s) \cup {s[i].key}
           g == [x \in D |-> IF x = s[i].key THEN v ELSE MapOf(s)[x]]
<1>8. /\ DOMAIN MapOf(s) = {q.key : q \in ToSet(s)}
      /\ \A q \in ToSet(s) : MapOf(s)[q.key] = q.value
  BY Bindings
<1>9. s[i].key \in DOMAIN MapOf(s)
  BY <1>1, <1>8 DEF ToSet
<1>10. {q.key : q \in ToSet(t)} = {q.key : q \in ToSet(s)}
  <2>1. {q.key : q \in ToSet(t)} = ToSet(KeysOf(t)) /\ {q.key : q \in ToSet(s)} = ToSet(KeysOf(s))
    BY <1>4, KeysTyped
  <2> QED
    BY <1>6, <2>1
<1>11. D = {q.key : q \in ToSet(t)}
  BY <1>8, <1>9, <1>10
<1> HIDE DEF MapOf
<1>12. ASSUME NEW q \in ToSet(t)
       PROVE  g[q.key] = q.value
  <2>1. PICK j \in 1 .. Len(s) : q = t[j]
    BY <1>4 DEF ToSet
  <2>2. q.key = s[j].key /\ q.key \in D
    BY <1>5, <1>11, <2>1
  <2>3. CASE j = i
    BY <1>2, <1>4, <2>1, <2>2, <2>3
  <2>4. CASE j # i
    <3>1. q = s[j] /\ q.key # s[i].key
      BY <1>4, <1>7, <2>1, <2>2, <2>4
    <3>2. q \in ToSet(s)
      BY <1>1, <3>1 DEF ToSet
    <3> QED
      BY <1>8, <2>2, <3>1, <3>2
  <2> QED
    BY <2>3, <2>4
<1>13. g = [x \in D |-> g[x]]
  OBVIOUS
<1> HIDE DEF D, g
<1>14. MapOf(t) = g
  BY <1>4, <1>6, <1>11, <1>12, <1>13, SameMapping
<1> QED
  BY <1>3, <1>4, <1>6, <1>14 DEF D, g

(* A pair is added. *)
LEMMA AddedPair ==
  ASSUME KeysTogether, NEW s \in Seq(Pair), InOrder(KeysOf(s)), NEW p \in Pair,
         p.key \notin {q.key : q \in ToSet(s)}
  PROVE  LET t == InsertAt(s, Rank(p.key, KeysOf(s)), p) IN
         /\ t \in Seq(Pair) /\ Len(t) = Len(s) + 1 /\ InOrder(KeysOf(t))
         /\ MapOf(t) = [x \in DOMAIN MapOf(s) \cup {p.key} |->
                          IF x = p.key THEN p.value ELSE MapOf(s)[x]]
<1>1. /\ KeysOf(s) \in Seq(CollKey) /\ Len(KeysOf(s)) = Len(s) /\ Len(s) \in Nat
      /\ ToSet(KeysOf(s)) = {q.key : q \in ToSet(s)}
      /\ DOMAIN KeysOf(s) = 1 .. Len(KeysOf(s))
  BY KeysTyped
<1>2. PICK k \in CollKey : k = p.key
  BY DEF Pair
<1>3. \A i \in 1 .. Len(KeysOf(s)) : KeysOf(s)[i] # k
  BY <1>1, <1>2 DEF ToSet
<1>4. PICK r \in 1 .. Len(s) + 1 : r = Rank(k, KeysOf(s))
  <2>1. Rank(k, KeysOf(s)) \in 1 .. Len(KeysOf(s)) + 1
    BY <1>1, <1>3, RankIsPlace
  <2> QED
    BY <1>1, <2>1
<1> DEFINE t == InsertAt(s, r, p)
<1>5. t \in Seq(Pair) /\ Len(t) = Len(s) + 1
  BY InsertedIndex
<1>6. ToSet(t) = ToSet(s) \cup {p}
  BY InsertedElements
<1>7. InOrder(KeysOf(t))
  <2>1. KeysOf(t) = InsertAt(KeysOf(s), r, p.key)
    BY InsertedKeys
  <2>2. InOrder(InsertAt(KeysOf(s), Rank(k, KeysOf(s)), k))
    BY <1>1, <1>3, InsertedInOrder
  <2> QED
    BY <1>2, <1>4, <2>1, <2>2
<1> HIDE DEF t
<1> DEFINE D == DOMAIN MapOf(s) \cup {p.key}
           g == [x \in D |-> IF x = p.key THEN p.value ELSE MapOf(s)[x]]
<1>8. /\ DOMAIN MapOf(s) = {q.key : q \in ToSet(s)}
      /\ \A q \in ToSet(s) : MapOf(s)[q.key] = q.value
  BY Bindings
<1> HIDE DEF MapOf
<1>9. D = {q.key : q \in ToSet(t)}
  BY <1>6, <1>8
<1>10. ASSUME NEW q \in ToSet(t)
       PROVE  g[q.key] = q.value
  <2>1. q.key \in D
    BY <1>9
  <2>2. CASE q = p
    BY <2>1, <2>2
  <2>3. CASE q \in ToSet(s)
    BY <1>8, <2>1, <2>3
  <2> QED
    BY <1>6, <2>2, <2>3
<1>11. g = [x \in D |-> g[x]]
  OBVIOUS
<1> HIDE DEF D, g
<1>12. MapOf(t) = g
  BY <1>5, <1>7, <1>9, <1>10, <1>11, SameMapping
<1> QED
  BY <1>2, <1>4, <1>5, <1>7, <1>12 DEF D, g, t

(* A pair is removed. *)
LEMMA RemovedPair ==
  ASSUME KeysTogether, NEW s \in Seq(Pair), InOrder(KeysOf(s)), NEW r \in 1 .. Len(s)
  PROVE  LET t == RemoveAt(s, r) IN
         /\ t \in Seq(Pair) /\ Len(t) = Len(s) - 1 /\ InOrder(KeysOf(t))
         /\ MapOf(t) = [x \in DOMAIN MapOf(s) \ {s[r].key} |-> MapOf(s)[x]]
<1>1. /\ KeysOf(s) \in Seq(CollKey) /\ Len(KeysOf(s)) = Len(s) /\ Len(s) \in Nat
      /\ \A i \in 1 .. Len(s) : KeysOf(s)[i] = s[i].key
      /\ DOMAIN s = 1 .. Len(s)
  BY KeysTyped
<1>2. \A i \in 1 .. Len(s) : s[i].key = s[r].key => i = r
  <2>1. \A j, k \in 1 .. Len(s) : j # k => KeysOf(s)[j] # KeysOf(s)[k]
    BY <1>1, ElementsInOrder
  <2> QED
    BY <1>1, <2>1
<1> DEFINE t == RemoveAt(s, r)
<1>3. t \in Seq(Pair) /\ Len(t) = Len(s) - 1
  BY RemovedIndex
<1>4. ToSet(t) = ToSet(s) \ {s[r]}
  <2>1. \A i \in 1 .. Len(s) : i # r => s[i] # s[r]
    BY <1>2
  <2> QED
    BY <2>1, RemovedElements
<1>5. InOrder(KeysOf(t))
  <2>1. KeysOf(t) = RemoveAt(KeysOf(s), r)
    BY RemovedKeys
  <2>2. InOrder(RemoveAt(KeysOf(s), r))
    <3>1. PICK n \in 1 .. Len(KeysOf(s)) : n = r
      BY <1>1
    <3> QED
      BY <1>1, <3>1, RemovedInOrder
  <2> QED
    BY <2>1, <2>2
<1> HIDE DEF t
<1> DEFINE D == DOMAIN MapOf(s) \ {s[r].key}
           g == [x \in D |-> MapOf(s)[x]]
<1>6. /\ DOMAIN MapOf(s) = {q.key : q \in ToSet(s)}
      /\ \A q \in ToSet(s) : MapOf(s)[q.key] = q.value
  BY Bindings
<1>7. s[r] \in ToSet(s) /\ \A q \in ToSet(s) : q.key = s[r].key => q = s[r]
  BY <1>1, <1>2 DEF ToSet
<1> HIDE DEF MapOf
<1>8. D = {q.key : q \in ToSet(t)}
  BY <1>4, <1>6, <1>7
<1>9. ASSUME NEW q \in ToSet(t)
      PROVE  g[q.key] = q.value
  <2>1. q.key \in D /\ q \in ToSet(s)
    BY <1>4, <1>8
  <2> QED
    BY <1>6, <2>1
<1>10. g = [x \in D |-> g[x]]
  OBVIOUS
<1> HIDE DEF D, g
<1>11. MapOf(t) = g
  BY <1>3, <1>5, <1>8, <1>9, <1>10, SameMapping
<1> QED
  BY <1>3, <1>5, <1>11 DEF D, g, t

-----------------------------------------------------------------------------
(* What holds of the collections: arrays of limited length, two of them in *)
(* the order of the comparator.                                            *)
MapOk == pairs \in Seq(Pair) /\ Len(pairs) <= CollLimit /\ InOrder(KeysOf(pairs))
SetOk == setItems \in Seq(CollKey) /\ Len(setItems) <= CollLimit /\ InOrder(setItems)
ListOk == listItems \in Seq(CollItem) /\ Len(listItems) <= CollLimit

CollectionsInv == MapOk /\ SetOk /\ ListOk

(* The search of the map and that of the set. *)
LEMMA MapSearch ==
  ASSUME KeysTogether, MapOk, NEW k \in CollKey
  PROVE  /\ Bsearch(k, Keys) \in 0 .. Len(pairs)
         /\ Bsearch(k, Keys) > 0 =>
              /\ Bsearch(k, Keys) \in 1 .. Len(pairs)
              /\ pairs[Bsearch(k, Keys)] \in Pair
              /\ pairs[Bsearch(k, Keys)].key = k
              /\ k \in DOMAIN Mapping
              /\ Mapping[k] = pairs[Bsearch(k, Keys)].value
         /\ Bsearch(k, Keys) = 0 => k \notin DOMAIN Mapping
         /\ Cardinality(DOMAIN Mapping) = Len(pairs)
         /\ DOMAIN Mapping = {p.key : p \in ToSet(pairs)}
         /\ Mapping = MapOf(pairs) /\ Keys = KeysOf(pairs)
<1>1. PICK s \in Seq(Pair) : s = pairs /\ InOrder(KeysOf(s))
  BY DEF MapOk
<1>2. Keys = KeysOf(s) /\ Mapping = MapOf(s)
  BY <1>1 DEF Keys, KeysOf, Mapping, MapOf
<1>3. /\ KeysOf(s) \in Seq(CollKey) /\ Len(KeysOf(s)) = Len(s) /\ Len(s) \in Nat
      /\ \A i \in 1 .. Len(s) : KeysOf(s)[i] = s[i].key
      /\ DOMAIN s = 1 .. Len(s) /\ \A i \in 1 .. Len(s) : s[i] \in Pair
  BY KeysTyped
<1>4. /\ Bsearch(k, KeysOf(s)) \in 0 .. Len(s)
      /\ Bsearch(k, KeysOf(s)) > 0 => KeysOf(s)[Bsearch(k, KeysOf(s))] = k
      /\ (\E i \in 1 .. Len(s) : KeysOf(s)[i] = k) => Bsearch(k, KeysOf(s)) > 0
  <2>1. PICK ks \in Seq(CollKey) : ks = KeysOf(s) /\ InOrder(ks) /\ Len(ks) = Len(s)
    BY <1>1, <1>3
  <2>2. /\ Bsearch(k, ks) \in 0 .. Len(ks)
        /\ Bsearch(k, ks) > 0 => ks[Bsearch(k, ks)] = k
        /\ (\E i \in 1 .. Len(ks) : ks[i] = k) => Bsearch(k, ks) > 0
    BY <2>1, KeyIsFound
  <2> QED
    BY <2>1, <2>2
<1>5. /\ DOMAIN MapOf(s) = {p.key : p \in ToSet(s)}
      /\ \A p \in ToSet(s) : MapOf(s)[p.key] = p.value
      /\ Cardinality(DOMAIN MapOf(s)) = Len(s)
  BY <1>1, Bindings
<1>6. PICK b \in 0 .. Len(s) : b = Bsearch(k, KeysOf(s))
  BY <1>4
<1> HIDE DEF MapOf
<1>7. ASSUME b > 0
      PROVE  /\ b \in 1 .. Len(s) /\ s[b] \in Pair /\ s[b].key = k
             /\ k \in DOMAIN MapOf(s) /\ MapOf(s)[k] = s[b].value
  <2>1. b \in 1 .. Len(s)
    BY <1>3, <1>7
  <2>2. s[b].key = k
    BY <1>3, <1>4, <1>6, <1>7, <2>1
  <2>3. s[b] \in ToSet(s)
    BY <1>3, <2>1 DEF ToSet
  <2> QED
    BY <1>3, <1>5, <2>1, <2>2, <2>3
<1>8. ASSUME b = 0, k \in DOMAIN MapOf(s)
      PROVE  FALSE
  <2>1. PICK i \in 1 .. Len(s) : k = s[i].key
    BY <1>3, <1>5, <1>8 DEF ToSet
  <2>2. b > 0
    BY <1>3, <1>4, <1>6, <2>1
  <2> QED
    BY <1>8, <2>2
<1> QED
  BY <1>1, <1>2, <1>5, <1>6, <1>7, <1>8

LEMMA SetSearch ==
  ASSUME KeysTogether, SetOk, NEW x \in CollKey
  PROVE  /\ Bsearch(x, setItems) \in 0 .. Len(setItems)
         /\ Bsearch(x, setItems) > 0 =>
              /\ Bsearch(x, setItems) \in 1 .. Len(setItems)
              /\ setItems[Bsearch(x, setItems)] = x
              /\ x \in ToSet(setItems)
         /\ Bsearch(x, setItems) = 0 => x \notin ToSet(setItems)
         /\ Cardinality(ToSet(setItems)) = Len(setItems)
<1>1. PICK s \in Seq(CollKey) : s = setItems /\ InOrder(s)
  BY DEF SetOk
<1>2. Len(s) \in Nat /\ DOMAIN s = 1 .. Len(s)
  OBVIOUS
<1>3. /\ Bsearch(x, s) \in 0 .. Len(s)
      /\ Bsearch(x, s) > 0 => s[Bsearch(x, s)] = x
      /\ (\E i \in 1 .. Len(s) : s[i] = x) => Bsearch(x, s) > 0
  BY <1>1, KeyIsFound
<1>4. Cardinality(ToSet(s)) = Len(s)
  BY <1>1, ElementsInOrder
<1>5. PICK b \in 0 .. Len(s) : b = Bsearch(x, s)
  BY <1>3
<1>6. b > 0 => b \in 1 .. Len(s) /\ s[b] = x /\ x \in ToSet(s)
  <2>1. b > 0 => b \in 1 .. Len(s)
    BY <1>2
  <2>2. b > 0 => s[b] = x
    BY <1>3, <1>5
  <2> QED
    BY <1>2, <2>1, <2>2 DEF ToSet
<1>7. b = 0 => x \notin ToSet(s)
  <2>1. x \in ToSet(s) => \E i \in 1 .. Len(s) : s[i] = x
    BY <1>2 DEF ToSet
  <2> QED
    BY <1>3, <1>5, <2>1
<1> QED
  BY <1>1, <1>4, <1>5, <1>6, <1>7

(* The abstract collections count as the concrete ones do. *)
LEMMA SameCount ==
  ASSUME NEW S
  PROVE  Abstract!Cardinality(S) = Cardinality(S)
BY DEF Abstract!Cardinality, Abstract!IsFiniteSet, Cardinality, IsFiniteSet

(* An operation of the map. *)
LEMMA MapPutStep ==
  ASSUME KeysTogether, MapOk, NEW k \in CollKey, NEW v \in CollValue \cup {NoValue},
         CollMapPut(k, v)
  PROVE  MapOk' /\ Abstract!MapPut(k, v)
<1>1. PICK s \in Seq(Pair) : s = pairs /\ InOrder(KeysOf(s)) /\ Len(s) <= CollLimit
  BY DEF MapOk
<1>2. PICK b \in 0 .. Len(s) : b = Bsearch(k, Keys)
  BY <1>1, MapSearch
<1>3. /\ b > 0 => /\ b \in 1 .. Len(s) /\ s[b].key = k /\ k \in DOMAIN Mapping
                  /\ Mapping[k] = s[b].value
      /\ b = 0 => k \notin DOMAIN Mapping
      /\ Cardinality(DOMAIN Mapping) = Len(s)
      /\ DOMAIN Mapping = {p.key : p \in ToSet(s)}
      /\ Mapping = MapOf(s) /\ Keys = KeysOf(s)
  BY <1>1, <1>2, MapSearch
<1>4. /\ b = 0 => Len(s) < CollLimit
      /\ pairs' = IF b > 0 THEN [s EXCEPT ![b].value = v]
                  ELSE InsertAt(s, Rank(k, KeysOf(s)), [key |-> k, value |-> v])
      /\ reply' = [call |-> <<"map", k>>, status |-> "NO_ERROR",
                   value |-> IF b > 0 THEN s[b].value ELSE NoValue]
      /\ UNCHANGED <<setItems, listItems>>
  BY <1>1, <1>2, <1>3 DEF CollMapPut, Reply
<1>5. Mapping' = MapOf(pairs')
  BY DEF Mapping, MapOf
<1>6. Len(s) \in Nat /\ CollLimit \in Nat
  BY CCollectionsAssumption
<1> HIDE DEF MapOf
<1>7. \E t \in Seq(Pair) :
        /\ t = pairs' /\ InOrder(KeysOf(t)) /\ Len(t) <= CollLimit
        /\ MapOf(t) = [x \in DOMAIN MapOf(s) \cup {k} |-> IF x = k THEN v ELSE MapOf(s)[x]]
  <2>1. CASE b > 0
    <3>1. PICK t : t = [s EXCEPT ![b].value = v]
      OBVIOUS
    <3>2. /\ t \in Seq(Pair) /\ Len(t) = Len(s) /\ KeysOf(t) = KeysOf(s)
          /\ MapOf(t) = [x \in DOMAIN MapOf(s) \cup {s[b].key} |->
                           IF x = s[b].key THEN v ELSE MapOf(s)[x]]
      <4>1. b \in 1 .. Len(s)
        BY <1>3, <2>1
      <4>2. PICK w \in CollValue \cup {NoValue} : w = v
        OBVIOUS
      <4>3. LET u == [s EXCEPT ![b].value = w] IN
            /\ u \in Seq(Pair) /\ Len(u) = Len(s) /\ KeysOf(u) = KeysOf(s)
            /\ MapOf(u) = [x \in DOMAIN MapOf(s) \cup {s[b].key} |->
                             IF x = s[b].key THEN w ELSE MapOf(s)[x]]
        BY <1>1, <4>1, ReplacedValue
      <4> QED
        BY <3>1, <4>2, <4>3
    <3>3. t = pairs'
      BY <1>4, <2>1, <3>1
    <3>4. s[b].key = k
      BY <1>3, <2>1
    <3> QED
      BY <1>1, <3>2, <3>3, <3>4
  <2>2. CASE b = 0
    <3>1. PICK p \in Pair : p = [key |-> k, value |-> v] /\ p.key = k /\ p.value = v
      <4>1. PICK w \in CollValue \cup {NoValue} : w = v
        OBVIOUS
      <4>2. [key |-> k, value |-> w] \in Pair
        BY DEF Pair
      <4> QED
        BY <4>1, <4>2
    <3>2. p.key \notin {q.key : q \in ToSet(s)}
      BY <1>3, <2>2, <3>1
    <3>3. PICK t : t = InsertAt(s, Rank(p.key, KeysOf(s)), p)
      OBVIOUS
    <3>4. /\ t \in Seq(Pair) /\ Len(t) = Len(s) + 1 /\ InOrder(KeysOf(t))
          /\ MapOf(t) = [x \in DOMAIN MapOf(s) \cup {p.key} |->
                           IF x = p.key THEN p.value ELSE MapOf(s)[x]]
      BY <1>1, <3>2, <3>3, AddedPair
    <3>5. t = pairs'
      BY <1>4, <2>2, <3>1, <3>3
    <3>6. Len(t) <= CollLimit
      BY <1>4, <1>6, <2>2, <3>4
    <3> QED
      BY <3>1, <3>4, <3>5, <3>6
  <2>3. b > 0 \/ b = 0
    BY <1>6
  <2> QED
    BY <2>1, <2>2, <2>3
<1>8. MapOk'
  BY <1>7 DEF MapOk
<1>9. Mapping' = [x \in DOMAIN Mapping \cup {k} |-> IF x = k THEN v ELSE Mapping[x]]
  BY <1>3, <1>5, <1>7
<1>10. k \in DOMAIN Mapping \/ Cardinality(DOMAIN Mapping) < CollLimit
  BY <1>2, <1>3, <1>4, <1>6
<1>11. reply' = [call |-> <<"map", k>>, status |-> "NO_ERROR",
                 value |-> IF k \in DOMAIN Mapping THEN Mapping[k] ELSE NoValue]
  <2>1. CASE b > 0
    BY <1>3, <1>4, <2>1
  <2>2. CASE b = 0
    BY <1>3, <1>4, <2>2
  <2>3. b > 0 \/ b = 0
    BY <1>6
  <2> QED
    BY <2>1, <2>2, <2>3
<1>12. UNCHANGED <<ToSet(setItems), listItems>>
  BY <1>4
<1> QED
  BY <1>8, <1>9, <1>10, <1>11, <1>12, SameCount DEF Abstract!MapPut, Abstract!Answered

LEMMA MapRemoveStep ==
  ASSUME KeysTogether, MapOk, NEW k \in CollKey, CollMapRemove(k)
  PROVE  MapOk' /\ Abstract!MapRemove(k)
<1>1. PICK s \in Seq(Pair) : s = pairs /\ InOrder(KeysOf(s)) /\ Len(s) <= CollLimit
  BY DEF MapOk
<1>2. PICK b \in 1 .. Len(s) : b = Bsearch(k, Keys)
  BY <1>1, MapSearch DEF CollMapRemove
<1>3. /\ b > 0
      /\ s[b].key = k /\ k \in DOMAIN Mapping /\ Mapping[k] = s[b].value
      /\ Mapping = MapOf(s)
  <2>1. b > 0
    OBVIOUS
  <2>2. Mapping = MapOf(s)
    BY <1>1, MapSearch
  <2> QED
    BY <1>1, <1>2, <2>1, <2>2, MapSearch
<1>4. /\ pairs' = RemoveAt(s, b)
      /\ reply' = [call |-> <<"map", k>>, status |-> "NO_ERROR", value |-> s[b].value]
      /\ UNCHANGED <<setItems, listItems>>
  BY <1>1, <1>2 DEF CollMapRemove, Moved, Reply
<1>5. Mapping' = MapOf(pairs')
  BY DEF Mapping, MapOf
<1> HIDE DEF MapOf
<1>6. PICK t : t = RemoveAt(s, b)
  OBVIOUS
<1>7. /\ t \in Seq(Pair) /\ Len(t) = Len(s) - 1 /\ InOrder(KeysOf(t))
      /\ MapOf(t) = [x \in DOMAIN MapOf(s) \ {s[b].key} |-> MapOf(s)[x]]
  BY <1>1, <1>6, RemovedPair
<1>8. Len(t) <= CollLimit
  BY <1>1, <1>7, CCollectionsAssumption
<1>9. MapOk'
  BY <1>4, <1>6, <1>7, <1>8 DEF MapOk
<1>10. Mapping' = [x \in DOMAIN Mapping \ {k} |-> Mapping[x]]
  BY <1>3, <1>4, <1>5, <1>6, <1>7
<1> QED
  BY <1>3, <1>4, <1>9, <1>10 DEF Abstract!MapRemove, Abstract!Answered

LEMMA MapReadStep ==
  ASSUME KeysTogether, MapOk, NEW k \in CollKey, CollMapGet(k) \/ CollMapHasKey(k)
  PROVE  MapOk' /\ (Abstract!MapGet(k) \/ Abstract!MapHasKey(k))
<1>1. PICK s \in Seq(Pair) : s = pairs
  BY DEF MapOk
<1>2. PICK b \in 0 .. Len(s) : b = Bsearch(k, Keys)
  BY <1>1, MapSearch
<1>3. /\ b > 0 => k \in DOMAIN Mapping /\ Mapping[k] = s[b].value
      /\ b = 0 => k \notin DOMAIN Mapping
      /\ b > 0 \/ b = 0
  <2>1. b > 0 \/ b = 0
    OBVIOUS
  <2>2. b > 0 => k \in DOMAIN Mapping /\ Mapping[k] = s[b].value
    BY <1>1, <1>2, MapSearch
  <2>3. b = 0 => k \notin DOMAIN Mapping
    BY <1>2, MapSearch
  <2> QED
    BY <2>1, <2>2, <2>3
<1>4. UNCHANGED <<pairs, setItems, listItems>>
  BY DEF CollMapGet, CollMapHasKey
<1>5. MapOk'
  BY <1>4 DEF MapOk
<1>6. UNCHANGED <<Mapping, ToSet(setItems), listItems>>
  BY <1>4 DEF Mapping
<1>7. CASE CollMapGet(k)
  <2>1. b > 0 /\ reply' = [call |-> <<"map", k>>, status |-> "NO_ERROR", value |-> s[b].value]
    BY <1>1, <1>2, <1>7 DEF CollMapGet, Reply
  <2>2. k \in DOMAIN Mapping
        /\ reply' = [call |-> <<"map", k>>, status |-> "NO_ERROR", value |-> Mapping[k]]
    BY <1>3, <2>1
  <2>3. Abstract!MapGet(k)
    BY <1>6, <2>2 DEF Abstract!MapGet, Abstract!Answered
  <2> QED
    BY <1>5, <2>3
<1>8. CASE CollMapHasKey(k)
  <2>1. reply' = [call |-> <<"map", k>>, status |-> "NO_ERROR",
                  value |-> b > 0 /\ s[b].value # NoValue]
    BY <1>1, <1>2, <1>8 DEF CollMapHasKey, Reply
  <2>2. (b > 0 /\ s[b].value # NoValue) = (k \in DOMAIN Mapping /\ Mapping[k] # NoValue)
    BY <1>3
  <2>3. Abstract!MapHasKey(k)
    BY <1>6, <2>1, <2>2 DEF Abstract!MapHasKey, Abstract!Answered
  <2> QED
    BY <1>5, <2>3
<1> QED
  BY <1>7, <1>8

(* An operation of the set. *)
LEMMA SetAddStep ==
  ASSUME KeysTogether, SetOk, NEW x \in CollKey, CollSetAdd(x)
  PROVE  SetOk' /\ Abstract!SetAdd(x)
<1>1. PICK s \in Seq(CollKey) : s = setItems /\ InOrder(s) /\ Len(s) <= CollLimit
  BY DEF SetOk
<1>2. /\ x \notin ToSet(s) /\ Cardinality(ToSet(s)) = Len(s)
      /\ Len(s) < CollLimit
      /\ setItems' = InsertAt(s, Rank(x, s), x)
      /\ reply' = [call |-> <<"set", x>>, status |-> "NO_ERROR", value |-> NoValue]
      /\ UNCHANGED <<pairs, listItems>>
  BY <1>1, SetSearch DEF CollSetAdd, Reply
<1>3. \A i \in 1 .. Len(s) : s[i] # x
  BY <1>2 DEF ToSet
<1>4. PICK r \in 1 .. Len(s) + 1 : r = Rank(x, s)
  BY <1>1, <1>3, RankIsPlace
<1>5. InOrder(InsertAt(s, r, x))
  BY <1>1, <1>3, <1>4, InsertedInOrder
<1>6. InsertAt(s, r, x) \in Seq(CollKey) /\ Len(InsertAt(s, r, x)) = Len(s) + 1
  BY InsertedIndex
<1>7. ToSet(InsertAt(s, r, x)) = ToSet(s) \cup {x}
  BY InsertedElements
<1>8. setItems' = InsertAt(s, r, x)
  BY <1>2, <1>4
<1>9. Len(InsertAt(s, r, x)) <= CollLimit
  <2>1. Len(s) \in Nat /\ CollLimit \in Nat
    BY CCollectionsAssumption
  <2> QED
    BY <1>2, <1>6, <2>1
<1>10. SetOk'
  BY <1>5, <1>6, <1>8, <1>9 DEF SetOk
<1>11. ToSet(setItems)' = ToSet(setItems) \cup {x}
  BY <1>1, <1>7, <1>8
<1>12. UNCHANGED Mapping
  BY <1>2 DEF Mapping
<1> QED
  BY <1>1, <1>2, <1>10, <1>11, <1>12, SameCount DEF Abstract!SetAdd, Abstract!Answered

LEMMA SetRemoveStep ==
  ASSUME KeysTogether, SetOk, NEW x \in CollKey, CollSetRemove(x)
  PROVE  SetOk' /\ Abstract!SetRemove(x)
<1>1. PICK s \in Seq(CollKey) : s = setItems /\ InOrder(s) /\ Len(s) <= CollLimit
  BY DEF SetOk
<1>2. PICK r \in 1 .. Len(s) : r = Bsearch(x, s) /\ s[r] = x /\ x \in ToSet(s)
  BY <1>1, SetSearch DEF CollSetRemove
<1>3. /\ setItems' = RemoveAt(s, r)
      /\ reply' = [call |-> <<"set", x>>, status |-> "NO_ERROR", value |-> NoValue]
      /\ UNCHANGED <<pairs, listItems>>
  BY <1>1, <1>2 DEF CollSetRemove, Moved, Reply
<1>4. InOrder(RemoveAt(s, r))
  BY <1>1, RemovedInOrder
<1>5. RemoveAt(s, r) \in Seq(CollKey) /\ Len(RemoveAt(s, r)) = Len(s) - 1
  BY RemovedIndex
<1>6. ToSet(RemoveAt(s, r)) = ToSet(s) \ {x}
  <2>1. \A i \in 1 .. Len(s) : i # r => s[i] # s[r]
    BY <1>1, ElementsInOrder
  <2> QED
    BY <1>2, <2>1, RemovedElements
<1>7. Len(RemoveAt(s, r)) <= CollLimit
  BY <1>1, <1>5, CCollectionsAssumption
<1>8. SetOk'
  BY <1>3, <1>4, <1>5, <1>7 DEF SetOk
<1>9. ToSet(setItems)' = ToSet(setItems) \ {x}
  BY <1>1, <1>3, <1>6
<1>10. UNCHANGED Mapping
  BY <1>3 DEF Mapping
<1> QED
  BY <1>1, <1>2, <1>3, <1>8, <1>9, <1>10 DEF Abstract!SetRemove, Abstract!Answered

(* The walk along a list ends at the first cell that holds what is sought. *)
LEMMA FirstCell ==
  ASSUME NEW S, NEW s \in Seq(S), NEW x, Contains(s, x)
  PROVE  LET r == SelectInSeq(s, LAMBDA y : y = x) IN
         /\ r \in 1 .. Len(s)
         /\ s[r] = x
         /\ \A j \in 1 .. r - 1 : s[j] # x
<1> DEFINE I == {i \in 1 .. Len(s) : s[i] = x}
<1>1. I # {} /\ I \subseteq Nat
  BY DEF Contains
<1>2. PICK m \in I : \A n \in I : m <= n
  <2> HIDE DEF I
  <2> QED
    BY <1>1, LeastNumber
<1>3. Min(I) \in I /\ \A n \in I : Min(I) <= n
  <2> HIDE DEF I
  <2> QED
    BY <1>2 DEF Min
<1>4. SelectInSeq(s, LAMBDA y : y = x) = Min(I)
  BY <1>1 DEF SelectInSeq, Min
<1> HIDE DEF I
<1>5. PICK r \in I : r = Min(I) /\ \A n \in I : r <= n
  BY <1>3
<1>6. r \in 1 .. Len(s) /\ s[r] = x
  BY DEF I
<1>7. \A j \in 1 .. r - 1 : s[j] # x
  <2> SUFFICES ASSUME NEW j \in 1 .. r - 1, s[j] = x
               PROVE  FALSE
    OBVIOUS
  <2>1. j \in 1 .. Len(s) /\ ~ r <= j
    BY <1>6
  <2>2. j \in I
    BY <2>1 DEF I
  <2> QED
    BY <1>5, <2>1, <2>2
<1> QED
  BY <1>4, <1>5, <1>6, <1>7

(* An operation of the list. *)
LEMMA ListAddStep ==
  ASSUME ListOk, NEW x \in CollItem, CollListAdd(x)
  PROVE  ListOk' /\ Abstract!ListAdd(x)
<1>1. PICK s \in Seq(CollItem) : s = listItems /\ Len(s) <= CollLimit
  BY DEF ListOk
<1>2. /\ Len(s) < CollLimit
      /\ listItems' = Append(s, x)
      /\ reply' = [call |-> <<"list", x>>, status |-> "NO_ERROR", value |-> NoValue]
      /\ UNCHANGED <<pairs, setItems>>
  BY <1>1 DEF CollListAdd, Reply
<1>3. Append(s, x) \in Seq(CollItem) /\ Len(Append(s, x)) = Len(s) + 1
  BY AppendIndex
<1>4. Len(Append(s, x)) <= CollLimit
  <2>1. Len(s) \in Nat /\ CollLimit \in Nat
    BY CCollectionsAssumption
  <2> QED
    BY <1>2, <1>3, <2>1
<1>5. ListOk'
  BY <1>2, <1>3, <1>4 DEF ListOk
<1>6. UNCHANGED <<Mapping, ToSet(setItems)>>
  BY <1>2 DEF Mapping
<1> QED
  BY <1>1, <1>2, <1>5, <1>6 DEF Abstract!ListAdd, Abstract!Answered

LEMMA ListRemoveStep ==
  ASSUME ListOk, NEW x \in CollItem, CollListRemove(x)
  PROVE  ListOk' /\ Abstract!ListRemove(x)
<1>1. PICK s \in Seq(CollItem) : s = listItems /\ Len(s) <= CollLimit
  BY DEF ListOk
<1>2. /\ Contains(s, x)
      /\ listItems' = RemoveAt(s, SelectInSeq(s, LAMBDA y : y = x))
      /\ reply' = [call |-> <<"list", x>>, status |-> "NO_ERROR", value |-> NoValue]
      /\ UNCHANGED <<pairs, setItems>>
  BY <1>1 DEF CollListRemove, Moved, Reply
<1>3. PICK r \in 1 .. Len(s) :
        /\ r = SelectInSeq(s, LAMBDA y : y = x)
        /\ s[r] = x
        /\ \A j \in 1 .. r - 1 : s[j] # x
  BY <1>2, FirstCell
<1>4. listItems' = RemoveAt(s, r)
  BY <1>2, <1>3
<1>5. RemoveAt(s, r) \in Seq(CollItem) /\ Len(RemoveAt(s, r)) = Len(s) - 1
  BY RemovedIndex
<1>6. Len(RemoveAt(s, r)) <= CollLimit
  BY <1>1, <1>5, CCollectionsAssumption
<1>7. ListOk'
  BY <1>4, <1>5, <1>6 DEF ListOk
<1>8. r \in DOMAIN s
  OBVIOUS
<1>9. listItems' = SubSeq(s, 1, r - 1) \o SubSeq(s, r + 1, Len(s))
  BY <1>4 DEF RemoveAt
<1>10. UNCHANGED <<Mapping, ToSet(setItems)>>
  BY <1>2 DEF Mapping
<1> QED
  BY <1>1, <1>2, <1>3, <1>7, <1>8, <1>9, <1>10 DEF Abstract!ListRemove, Abstract!Answered

LEMMA ListGetStep ==
  ASSUME ListOk, NEW i \in 0 .. CollLimit - 1, CollListGet(i)
  PROVE  /\ UNCHANGED <<pairs, setItems, listItems>>
         /\ i + 1 \in 1 .. CollLimit
         /\ Abstract!ListGet(i + 1)
<1>1. PICK s \in Seq(CollItem) : s = listItems
  BY DEF ListOk
<1>2. /\ i < Len(s)
      /\ reply' = [call |-> <<"index", i + 1>>, status |-> "NO_ERROR", value |-> s[i + 1]]
      /\ UNCHANGED <<pairs, setItems, listItems>>
  BY <1>1 DEF CollListGet, Reply
<1>3. i + 1 \in 1 .. CollLimit
  BY CCollectionsAssumption
<1>4. i + 1 \in DOMAIN s
  <2>1. Len(s) \in Nat /\ DOMAIN s = 1 .. Len(s)
    OBVIOUS
  <2> QED
    BY <1>2, <2>1
<1>5. UNCHANGED <<Mapping, ToSet(setItems), listItems>>
  BY <1>2 DEF Mapping
<1> QED
  BY <1>1, <1>2, <1>3, <1>4, <1>5 DEF Abstract!ListGet, Abstract!Answered

LEMMA ClearStep ==
  ASSUME KeysTogether, CollectionsInv, CollClear
  PROVE  CollectionsInv' /\ Abstract!Clear
<1>1. <<>> \in Seq(Pair) /\ <<>> \in Seq(CollKey) /\ <<>> \in Seq(CollItem)
      /\ Len(<<>>) = 0 /\ 0 <= CollLimit /\ KeysOf(<<>>) = <<>> /\ DOMAIN <<>> = {}
  BY CCollectionsAssumption DEF KeysOf
<1>2. InOrder(<<>>)
  BY <1>1 DEF InOrder
<1>3. reply' = [call |-> <<"clear">>, status |-> "NO_ERROR", value |-> NoValue]
  BY DEF CollClear, Reply
<1>4. CASE pairs' = <<>> /\ UNCHANGED <<setItems, listItems>>
  <2>1. CollectionsInv'
    BY <1>1, <1>2, <1>4 DEF CollectionsInv, MapOk, SetOk, ListOk
  <2>2. Mapping' = <<>>
    <3>1. Mapping' = [k \in {} |-> pairs'[CHOOSE i \in {} : pairs'[i].key = k].value]
      BY <1>1, <1>4 DEF Mapping
    <3>2. DOMAIN Mapping' = {} /\ DOMAIN <<>> = {}
      BY <3>1
    <3> QED
      BY <3>1, <3>2
  <2>3. UNCHANGED <<ToSet(setItems), listItems>>
    BY <1>4
  <2> QED
    BY <1>3, <2>1, <2>2, <2>3 DEF Abstract!Clear, Abstract!Answered
<1>5. CASE setItems' = <<>> /\ UNCHANGED <<pairs, listItems>>
  <2>1. CollectionsInv'
    BY <1>1, <1>2, <1>5 DEF CollectionsInv, MapOk, SetOk, ListOk
  <2>2. ToSet(setItems)' = {}
    BY <1>1, <1>5 DEF ToSet
  <2>3. UNCHANGED <<Mapping, listItems>>
    BY <1>5 DEF Mapping
  <2> QED
    BY <1>3, <2>1, <2>2, <2>3 DEF Abstract!Clear, Abstract!Answered
<1>6. CASE listItems' = <<>> /\ UNCHANGED <<pairs, setItems>>
  <2>1. CollectionsInv'
    BY <1>1, <1>6 DEF CollectionsInv, MapOk, SetOk, ListOk
  <2>2. UNCHANGED <<Mapping, ToSet(setItems)>>
    BY <1>6 DEF Mapping
  <2> QED
    BY <1>3, <1>6, <2>1, <2>2 DEF Abstract!Clear, Abstract!Answered
<1> QED
  BY <1>4, <1>5, <1>6 DEF CollClear

-----------------------------------------------------------------------------
(* A call that fails has its reason, and changes nothing. *)
LEMMA RefusedFrame ==
  ASSUME CollectionsInv, UNCHANGED <<pairs, setItems, listItems>>
  PROVE  CollectionsInv' /\ UNCHANGED <<Mapping, ToSet(setItems), listItems>>
BY DEF CollectionsInv, MapOk, SetOk, ListOk, Mapping

LEMMA FullStep ==
  ASSUME KeysTogether, CollectionsInv, NEW k \in CollKey, NEW x \in CollItem, CollFull(k, x)
  PROVE  Abstract!Refuse
<1>1. UNCHANGED <<pairs, setItems, listItems>>
  BY DEF CollFull
<1>2. UNCHANGED <<Mapping, ToSet(setItems), listItems>>
  BY <1>1, RefusedFrame
<1>3. MapOk /\ SetOk
  BY DEF CollectionsInv
<1>4. CASE Bsearch(k, Keys) = 0 /\ Len(pairs) = CollLimit /\ Reply(<<"map", k>>, "TOO_MANY", NoValue)
  <2>1. k \notin DOMAIN Mapping /\ Cardinality(DOMAIN Mapping) = CollLimit
    BY <1>3, <1>4, MapSearch
  <2>2. Abstract!Cardinality(DOMAIN Mapping) = CollLimit
    BY <2>1, SameCount
  <2> QED
    BY <1>2, <1>4, <2>1, <2>2 DEF Abstract!Refuse, Abstract!Answered, Reply
<1>5. CASE Bsearch(k, setItems) = 0 /\ Len(setItems) = CollLimit /\ Reply(<<"set", k>>, "TOO_MANY", NoValue)
  <2>1. k \notin ToSet(setItems) /\ Cardinality(ToSet(setItems)) = CollLimit
    BY <1>3, <1>5, SetSearch
  <2>2. Abstract!Cardinality(ToSet(setItems)) = CollLimit
    BY <2>1, SameCount
  <2> QED
    BY <1>2, <1>5, <2>1, <2>2 DEF Abstract!Refuse, Abstract!Answered, Reply
<1>6. CASE Len(listItems) = CollLimit /\ Reply(<<"list", x>>, "TOO_MANY", NoValue)
  BY <1>2, <1>6 DEF Abstract!Refuse, Abstract!Answered, Reply
<1> QED
  BY <1>4, <1>5, <1>6 DEF CollFull

LEMMA NotFoundStep ==
  ASSUME KeysTogether, CollectionsInv, NEW k \in CollKey, NEW x \in CollItem, CollNotFound(k, x)
  PROVE  Abstract!Refuse
<1>1. UNCHANGED <<pairs, setItems, listItems>>
  BY DEF CollNotFound
<1>2. UNCHANGED <<Mapping, ToSet(setItems), listItems>>
  BY <1>1, RefusedFrame
<1>3. MapOk /\ SetOk /\ ListOk
  BY DEF CollectionsInv
<1>4. CASE Bsearch(k, Keys) = 0 /\ Reply(<<"map", k>>, "NOT_FOUND", NoValue)
  <2>1. k \notin DOMAIN Mapping
    BY <1>3, <1>4, MapSearch
  <2> QED
    BY <1>2, <1>4, <2>1 DEF Abstract!Refuse, Abstract!Answered, Reply
<1>5. CASE Bsearch(k, setItems) = 0 /\ Reply(<<"set", k>>, "NOT_FOUND", NoValue)
  <2>1. k \notin ToSet(setItems)
    BY <1>3, <1>5, SetSearch
  <2> QED
    BY <1>2, <1>5, <2>1 DEF Abstract!Refuse, Abstract!Answered, Reply
<1>6. CASE ~ Contains(listItems, x) /\ Reply(<<"list", x>>, "NOT_FOUND", NoValue)
  <2>1. DOMAIN listItems = 1 .. Len(listItems)
    BY <1>3 DEF ListOk
  <2>2. \A i \in DOMAIN listItems : listItems[i] # x
    BY <1>6, <2>1 DEF Contains
  <2> QED
    BY <1>2, <1>6, <2>2 DEF Abstract!Refuse, Abstract!Answered, Reply
<1> QED
  BY <1>4, <1>5, <1>6 DEF CollNotFound

LEMMA DuplicateStep ==
  ASSUME KeysTogether, CollectionsInv, NEW k \in CollKey, CollDuplicate(k)
  PROVE  Abstract!Refuse
<1>1. UNCHANGED <<Mapping, ToSet(setItems), listItems>>
  BY RefusedFrame DEF CollDuplicate
<1>2. k \in ToSet(setItems)
  BY SetSearch DEF CollectionsInv, CollDuplicate
<1> QED
  BY <1>1, <1>2 DEF CollDuplicate, Abstract!Refuse, Abstract!Answered, Reply

LEMMA OutOfRangeStep ==
  ASSUME CollectionsInv, NEW i \in 0 .. CollLimit - 1, CollOutOfRange(i)
  PROVE  Abstract!Refuse
<1>1. UNCHANGED <<Mapping, ToSet(setItems), listItems>>
  BY RefusedFrame DEF CollOutOfRange
<1>2. PICK n \in 1 .. CollLimit : n = i + 1
  BY CCollectionsAssumption
<1>3. n \notin DOMAIN listItems
  <2>1. DOMAIN listItems = 1 .. Len(listItems) /\ Len(listItems) \in Nat
    BY DEF CollectionsInv, ListOk
  <2>2. i >= Len(listItems)
    BY DEF CollOutOfRange
  <2> QED
    BY <1>2, <2>1, <2>2
<1>4. reply' = [call |-> <<"index", n>>, status |-> "OUT_OF_RANGE", value |-> NoValue]
  BY <1>2 DEF CollOutOfRange, Reply
<1> QED
  BY <1>1, <1>3, <1>4 DEF Abstract!Refuse, Abstract!Answered

-----------------------------------------------------------------------------
LEMMA CollectionsStart ==
  ASSUME CCollectionsInit
  PROVE  CollectionsInv /\ Abstract!CollectionsInit
<1>1. <<>> \in Seq(Pair) /\ <<>> \in Seq(CollKey) /\ <<>> \in Seq(CollItem)
      /\ Len(<<>>) = 0 /\ 0 <= CollLimit /\ KeysOf(<<>>) = <<>> /\ DOMAIN <<>> = {}
  BY CCollectionsAssumption DEF KeysOf
<1>2. InOrder(<<>>)
  BY <1>1 DEF InOrder
<1>3. /\ pairs = <<>> /\ setItems = <<>> /\ listItems = <<>>
      /\ reply = [call |-> <<>>, status |-> "NO_ERROR", value |-> NoValue]
  BY DEF CCollectionsInit
<1>4. CollectionsInv
  BY <1>1, <1>2, <1>3 DEF CollectionsInv, MapOk, SetOk, ListOk
<1>5. Mapping = <<>>
  <2>1. Mapping = [k \in {} |-> pairs[CHOOSE i \in {} : pairs[i].key = k].value]
    BY <1>1, <1>3 DEF Mapping
  <2>2. DOMAIN Mapping = {} /\ DOMAIN <<>> = {}
    BY <2>1
  <2> QED
    BY <2>1, <2>2
<1>6. ToSet(setItems) = {}
  BY <1>1, <1>3 DEF ToSet
<1> QED
  BY <1>3, <1>4, <1>5, <1>6 DEF Abstract!CollectionsInit

(* Every operation is a step of the abstract collections. *)
LEMMA CollectionsStep ==
  ASSUME KeysTogether, CollectionsInv, CCollectionsNext
  PROVE  CollectionsInv' /\ Abstract!CollectionsNext
<1>1. MapOk /\ SetOk /\ ListOk
  BY DEF CollectionsInv
<1>2. ASSUME NEW k \in CollKey, NEW v \in CollValue \cup {NoValue}, CollMapPut(k, v)
      PROVE  CollectionsInv' /\ Abstract!CollectionsNext
  <2>1. MapOk' /\ Abstract!MapPut(k, v)
    BY <1>1, <1>2, MapPutStep
  <2>2. UNCHANGED <<setItems, listItems>>
    BY <1>2 DEF CollMapPut
  <2>3. SetOk' /\ ListOk'
    BY <1>1, <2>2 DEF SetOk, ListOk
  <2> QED
    BY <2>1, <2>3 DEF CollectionsInv, Abstract!CollectionsNext
<1>3. ASSUME NEW k \in CollKey, CollMapRemove(k)
      PROVE  CollectionsInv' /\ Abstract!CollectionsNext
  <2>1. MapOk' /\ Abstract!MapRemove(k)
    BY <1>1, <1>3, MapRemoveStep
  <2>2. UNCHANGED <<setItems, listItems>>
    BY <1>3 DEF CollMapRemove
  <2>3. SetOk' /\ ListOk'
    BY <1>1, <2>2 DEF SetOk, ListOk
  <2> QED
    BY <2>1, <2>3 DEF CollectionsInv, Abstract!CollectionsNext
<1>4. ASSUME NEW k \in CollKey, CollMapGet(k) \/ CollMapHasKey(k)
      PROVE  CollectionsInv' /\ Abstract!CollectionsNext
  <2>1. MapOk' /\ (Abstract!MapGet(k) \/ Abstract!MapHasKey(k))
    BY <1>1, <1>4, MapReadStep
  <2>2. UNCHANGED <<setItems, listItems>>
    BY <1>4 DEF CollMapGet, CollMapHasKey
  <2>3. SetOk' /\ ListOk'
    BY <1>1, <2>2 DEF SetOk, ListOk
  <2> QED
    BY <2>1, <2>3 DEF CollectionsInv, Abstract!CollectionsNext
<1>5. ASSUME NEW x \in CollKey, CollSetAdd(x) \/ CollSetRemove(x)
      PROVE  CollectionsInv' /\ Abstract!CollectionsNext
  <2>1. SetOk' /\ (Abstract!SetAdd(x) \/ Abstract!SetRemove(x))
    BY <1>1, <1>5, SetAddStep, SetRemoveStep
  <2>2. UNCHANGED <<pairs, listItems>>
    BY <1>5 DEF CollSetAdd, CollSetRemove
  <2>3. MapOk' /\ ListOk'
    BY <1>1, <2>2 DEF MapOk, ListOk
  <2> QED
    BY <2>1, <2>3 DEF CollectionsInv, Abstract!CollectionsNext
<1>6. ASSUME NEW x \in CollItem, CollListAdd(x) \/ CollListRemove(x)
      PROVE  CollectionsInv' /\ Abstract!CollectionsNext
  <2>1. ListOk' /\ (Abstract!ListAdd(x) \/ Abstract!ListRemove(x))
    BY <1>1, <1>6, ListAddStep, ListRemoveStep
  <2>2. UNCHANGED <<pairs, setItems>>
    BY <1>6 DEF CollListAdd, CollListRemove
  <2>3. MapOk' /\ SetOk'
    BY <1>1, <2>2 DEF MapOk, SetOk
  <2> QED
    BY <2>1, <2>3 DEF CollectionsInv, Abstract!CollectionsNext
<1>7. ASSUME NEW i \in 0 .. CollLimit - 1, CollListGet(i)
      PROVE  CollectionsInv' /\ Abstract!CollectionsNext
  <2>1. /\ UNCHANGED <<pairs, setItems, listItems>>
        /\ i + 1 \in 1 .. CollLimit
        /\ Abstract!ListGet(i + 1)
    BY <1>1, <1>7, ListGetStep
  <2>2. CollectionsInv'
    BY <2>1, RefusedFrame
  <2> QED
    BY <2>1, <2>2 DEF Abstract!CollectionsNext
<1>8. ASSUME Abstract!Refuse, UNCHANGED <<pairs, setItems, listItems>>
      PROVE  CollectionsInv' /\ Abstract!CollectionsNext
  BY <1>8, RefusedFrame DEF Abstract!CollectionsNext
<1>9. ASSUME NEW k \in CollKey, NEW x \in CollItem, CollFull(k, x) \/ CollNotFound(k, x)
      PROVE  CollectionsInv' /\ Abstract!CollectionsNext
  <2>1. Abstract!Refuse
    BY <1>9, FullStep, NotFoundStep
  <2>2. UNCHANGED <<pairs, setItems, listItems>>
    BY <1>9 DEF CollFull, CollNotFound
  <2> QED
    BY <1>8, <2>1, <2>2
<1>10. ASSUME NEW k \in CollKey, CollDuplicate(k)
       PROVE  CollectionsInv' /\ Abstract!CollectionsNext
  <2>1. Abstract!Refuse
    BY <1>10, DuplicateStep
  <2>2. UNCHANGED <<pairs, setItems, listItems>>
    BY <1>10 DEF CollDuplicate
  <2> QED
    BY <1>8, <2>1, <2>2
<1>11. ASSUME NEW i \in 0 .. CollLimit - 1, CollOutOfRange(i)
       PROVE  CollectionsInv' /\ Abstract!CollectionsNext
  <2>1. Abstract!Refuse
    BY <1>11, OutOfRangeStep
  <2>2. UNCHANGED <<pairs, setItems, listItems>>
    BY <1>11 DEF CollOutOfRange
  <2> QED
    BY <1>8, <2>1, <2>2
<1>12. CASE CollClear
  BY <1>12, ClearStep DEF Abstract!CollectionsNext
<1> QED
  BY <1>2, <1>3, <1>4, <1>5, <1>6, <1>7, <1>9, <1>10, <1>11, <1>12 DEF CCollectionsNext

(***************************************************************************)
(* The sorted arrays of Map.c and Set.c and the array of List.c, searched  *)
(* by bsearch() and kept in order by qsort(), behave as a function, a set  *)
(* and a sequence: for every limit, every range of integers and all keys   *)
(* that lie within half of it.                                             *)
(***************************************************************************)
THEOREM ArraysImplementCollections ==
  ASSUME KeysTogether
  PROVE  CCollectionsSpec => CollectionsImplemented
<1>1. CCollectionsInit => CollectionsInv /\ Abstract!CollectionsInit
  BY CollectionsStart
<1>2. CollectionsInv /\ [CCollectionsNext]_collVars
        => /\ CollectionsInv'
           /\ [Abstract!CollectionsNext]_<<Mapping, ToSet(setItems), listItems, reply>>
  <2> SUFFICES ASSUME CollectionsInv, [CCollectionsNext]_collVars
               PROVE  /\ CollectionsInv'
                      /\ \/ Abstract!CollectionsNext
                         \/ UNCHANGED <<Mapping, ToSet(setItems), listItems, reply>>
    OBVIOUS
  <2>1. CASE CCollectionsNext
    BY <2>1, CollectionsStep
  <2>2. CASE UNCHANGED collVars
    BY <2>2, RefusedFrame DEF collVars
  <2> QED
    BY <2>1, <2>2
<1> QED
  BY <1>1, <1>2, PTL DEF CCollectionsSpec, CollectionsImplemented, Abstract!CollectionsSpec
=============================================================================
