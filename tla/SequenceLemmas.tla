--------------------------- MODULE SequenceLemmas ---------------------------
(***************************************************************************)
(* What the proofs need of the sequences that stand for the queues and the *)
(* channels of the program: which elements are in them, and where, after   *)
(* the operations that the models make them of; and of the finite sets     *)
(* that are numbered or listed in some order.  And what a binary search    *)
(* finds.                                                                  *)
(***************************************************************************)
EXTENDS CLibrary, FiniteSets, FiniteSetTheorems, TLAPS

(* What is added comes last, and the others stay where they are. *)
LEMMA AppendIndex ==
  ASSUME NEW S, NEW s \in Seq(S), NEW x \in S
  PROVE  /\ Append(s, x) \in Seq(S)
         /\ Len(Append(s, x)) = Len(s) + 1
         /\ \A i \in 1 .. Len(s) : Append(s, x)[i] = s[i]
         /\ Append(s, x)[Len(s) + 1] = x
OBVIOUS

(* A sequence that has got one more element is that function. *)
LEMMA AppendIsFunction ==
  ASSUME NEW S, NEW s \in Seq(S), NEW x \in S, NEW n \in Nat, Len(s) = n
  PROVE  Append(s, x) = [i \in 1 .. n + 1 |-> IF i \in 1 .. n THEN s[i] ELSE x]
<1> DEFINE t == Append(s, x)
<1>1. /\ t \in Seq(S) /\ Len(t) = n + 1
      /\ \A i \in 1 .. n : t[i] = s[i]
      /\ t[n + 1] = x
  BY AppendIndex
<1> HIDE DEF t
<1>2. t = [i \in 1 .. n + 1 |-> t[i]]
  BY <1>1
<1>3. \A i \in 1 .. n + 1 : t[i] = IF i \in 1 .. n THEN s[i] ELSE x
  BY <1>1
<1> QED
  BY <1>2, <1>3 DEF t

(* What is taken was first, and the others move up. *)
LEMMA TailIndex ==
  ASSUME NEW S, NEW s \in Seq(S), s # <<>>
  PROVE  /\ Head(s) \in S
         /\ Head(s) = s[1]
         /\ Tail(s) \in Seq(S)
         /\ Len(s) \in Nat \ {0}
         /\ Len(Tail(s)) = Len(s) - 1
         /\ \A i \in 1 .. Len(s) - 1 : Tail(s)[i] = s[i + 1]
OBVIOUS

(* The elements of a sequence belong to the set it is over. *)
LEMMA ElementsInSet ==
  ASSUME NEW S, NEW s \in Seq(S)
  PROVE  {s[i] : i \in 1 .. Len(s)} \subseteq S
OBVIOUS

(* The elements after one is added. *)
LEMMA AppendElements ==
  ASSUME NEW S, NEW s \in Seq(S), NEW x \in S
  PROVE  LET t == Append(s, x) IN
         {t[i] : i \in 1 .. Len(t)} = {s[i] : i \in 1 .. Len(s)} \cup {x}
<1> DEFINE t == Append(s, x)
<1>1. /\ Len(t) = Len(s) + 1
      /\ \A i \in 1 .. Len(s) : t[i] = s[i]
      /\ t[Len(s) + 1] = x
  BY AppendIndex
<1>2. Len(s) \in Nat
  OBVIOUS
<1>3. ASSUME NEW i \in 1 .. Len(t)
      PROVE  t[i] \in {s[j] : j \in 1 .. Len(s)} \cup {x}
  BY <1>1, <1>2
<1>4. ASSUME NEW j \in 1 .. Len(s)
      PROVE  s[j] \in {t[i] : i \in 1 .. Len(t)}
  <2>1. j \in 1 .. Len(t) /\ t[j] = s[j]
    BY <1>1, <1>2
  <2> QED
    BY <2>1
<1>5. x \in {t[i] : i \in 1 .. Len(t)}
  <2>1. Len(s) + 1 \in 1 .. Len(t)
    BY <1>1, <1>2
  <2> QED
    BY <2>1, <1>1
<1> HIDE DEF t
<1>6. {t[i] : i \in 1 .. Len(t)} = {s[i] : i \in 1 .. Len(s)} \cup {x}
  BY <1>3, <1>4, <1>5
<1> QED
  BY <1>6 DEF t

(* The elements before one is taken. *)
LEMMA TailElements ==
  ASSUME NEW S, NEW s \in Seq(S), s # <<>>
  PROVE  LET t == Tail(s) IN
         {s[i] : i \in 1 .. Len(s)} = {t[i] : i \in 1 .. Len(t)} \cup {Head(s)}
<1> DEFINE t == Tail(s)
<1>1. /\ Head(s) = s[1]
      /\ Len(s) \in Nat \ {0}
      /\ Len(t) = Len(s) - 1
      /\ \A i \in 1 .. Len(s) - 1 : t[i] = s[i + 1]
  BY TailIndex
<1>2. ASSUME NEW i \in 1 .. Len(s)
      PROVE  s[i] \in {t[j] : j \in 1 .. Len(t)} \cup {Head(s)}
  <2>1. CASE i = 1
    BY <2>1, <1>1
  <2>2. CASE i # 1
    <3>1. i - 1 \in 1 .. Len(t) /\ t[i - 1] = s[i]
      BY <2>2, <1>1
    <3> QED
      BY <3>1
  <2> QED
    BY <2>1, <2>2
<1>3. ASSUME NEW j \in 1 .. Len(t)
      PROVE  t[j] \in {s[i] : i \in 1 .. Len(s)}
  <2>1. j + 1 \in 1 .. Len(s) /\ t[j] = s[j + 1]
    BY <1>1
  <2> QED
    BY <2>1
<1>4. Head(s) \in {s[i] : i \in 1 .. Len(s)}
  BY <1>1
<1> HIDE DEF t
<1>5. {s[i] : i \in 1 .. Len(s)} = {t[i] : i \in 1 .. Len(t)} \cup {Head(s)}
  BY <1>2, <1>3, <1>4
<1> QED
  BY <1>5 DEF t

(* An enumeration of a finite set without repetitions misses no element. *)
LEMMA EnumerationsAreComplete ==
  ASSUME NEW S, IsFiniteSet(S), NEW xs \in [1 .. Cardinality(S) -> S],
         \A i, j \in 1 .. Cardinality(S) : i # j => xs[i] # xs[j]
  PROVE  \A x \in S : \E i \in DOMAIN xs : xs[i] = x
<1> DEFINE D == 1 .. Cardinality(S)
<1>1. Cardinality(S) \in Nat
  BY FS_CardinalityType
<1>2. IsFiniteSet(D) /\ Cardinality(D) = Cardinality(S)
  BY <1>1, FS_Interval
<1>3. ASSUME NEW x \in S, \A i \in D : xs[i] # x
      PROVE  FALSE
  <2>1. IsFiniteSet(S \ {x}) /\ Cardinality(S \ {x}) = Cardinality(S) - 1
    BY FS_RemoveElement
  <2>2. xs \in [D -> S \ {x}]
    BY <1>3
  <2>3. Cardinality(S \ {x}) < Cardinality(D)
    BY <1>1, <1>2, <2>1
  <2> HIDE DEF D
  <2>4. \E i, j \in D : i # j /\ xs[i] = xs[j]
    BY <1>2, <2>1, <2>2, <2>3, FS_PigeonHole
  <2> QED
    BY <2>4 DEF D
<1> QED
  BY <1>3

(* Whatever is numbered from 1 to n is finite, and has no more elements. *)
LEMMA NumberedPairs ==
  ASSUME NEW p, NEW n \in Nat, NEW S, S \subseteq {p} \X (1 .. n)
  PROVE  IsFiniteSet(S) /\ Cardinality(S) <= n
<1> DEFINE f == [x \in S |-> x[2]]
           T == 1 .. n
<1>1. IsFiniteSet(T) /\ Cardinality(T) = n
  BY FS_Interval
<1>2. f \in [S -> T]
  OBVIOUS
<1>3. ASSUME NEW x \in S, NEW y \in S, f[x] = f[y]
      PROVE  x = y
  BY <1>3
<1> HIDE DEF f, T
<1>4. f \in Injection(S, T)
  BY <1>2, <1>3 DEF Injection, IsInjective
<1> QED
  BY <1>1, <1>4, FS_Injection

-----------------------------------------------------------------------------
(***************************************************************************)
(* Induction over the natural numbers, stated of a set of them: adding 1   *)
(* would map the elements of S below a number that S lacks one to one      *)
(* among those of them that are not 0, which are fewer.                    *)
(***************************************************************************)
LEMMA NumbersFromZero ==
  ASSUME NEW S, 0 \in S, \A n \in S \cap Nat : n + 1 \in S
  PROVE  Nat \subseteq S
<1> SUFFICES ASSUME NEW m \in Nat, m \notin S
             PROVE  FALSE
  OBVIOUS
<1> DEFINE T == {n \in 0 .. m : n \in S}
           U == T \ {0}
           f == [n \in T |-> n + 1]
<1>1. IsFiniteSet(0 .. m)
  BY FS_Interval
<1>2. IsFiniteSet(T) /\ Cardinality(T) \in Nat
  BY <1>1, FS_Subset, FS_CardinalityType
<1>3. 0 \in T
  OBVIOUS
<1>4. \A n \in T : n + 1 \in U
  OBVIOUS
<1>5. f \in [T -> U]
  BY <1>4
<1>6. \A x, y \in T : f[x] = f[y] => x = y
  OBVIOUS
<1> HIDE DEF T, f
<1>7. IsFiniteSet(U) /\ Cardinality(U) = Cardinality(T) - 1
  BY <1>2, <1>3, FS_RemoveElement
<1> HIDE DEF U
<1>8. Cardinality(U) < Cardinality(T)
  BY <1>2, <1>7
<1> QED
  BY <1>2, <1>5, <1>6, <1>7, <1>8, FS_PigeonHole

(* A set of natural numbers that has an element has a least one. *)
LEMMA LeastNumber ==
  ASSUME NEW S, S \subseteq Nat, S # {}
  PROVE  \E m \in S : \A n \in S : m <= n
<1> SUFFICES ASSUME \A m \in S : \E n \in S : n < m
             PROVE  FALSE
  OBVIOUS
<1> DEFINE T == {n \in Nat : \A m \in S : n < m}
<1>1. 0 \in T
  OBVIOUS
<1>2. \A n \in T \cap Nat : n + 1 \in T
  OBVIOUS
<1> HIDE DEF T
<1>3. Nat \subseteq T
  BY <1>1, <1>2, NumbersFromZero
<1>4. PICK m \in S : m \in T
  BY <1>3
<1> QED
  BY <1>4 DEF T

(* A sequence of different elements has as many of them as it is long. *)
LEMMA DifferentElements ==
  ASSUME NEW S, NEW s \in Seq(S),
         \A i, j \in 1 .. Len(s) : i # j => s[i] # s[j]
  PROVE  Cardinality({s[i] : i \in 1 .. Len(s)}) = Len(s)
<1> DEFINE D == 1 .. Len(s)
           T == {s[i] : i \in D}
<1>1. Len(s) \in Nat /\ DOMAIN s = D
  OBVIOUS
<1>2. s \in [D -> T] /\ \A x \in T : \E i \in D : s[i] = x
  BY <1>1
<1>3. IsFiniteSet(D) /\ Cardinality(D) = Len(s)
  <2>1. PICK a \in Int, b \in Int : a = 1 /\ b = Len(s)
    <3>1. 1 \in Int /\ Len(s) \in Int
      BY <1>1
    <3> QED
      BY <3>1
  <2>2. IsFiniteSet(a .. b) /\ Cardinality(a .. b) = IF a > b THEN 0 ELSE b - a + 1
    BY FS_Interval
  <2> QED
    BY <1>1, <2>1, <2>2
<1>4. \A i, j \in D : s[i] = s[j] => i = j
  OBVIOUS
<1>5. T = {s[i] : i \in 1 .. Len(s)}
  OBVIOUS
<1> HIDE DEF D, T
<1>6. s \in Bijection(D, T)
  BY <1>2, <1>4 DEF Bijection, Injection, IsInjective, Surjection
<1>7. ExistsBijection(D, T)
  BY <1>6 DEF ExistsBijection
<1>8. Cardinality(T) = Cardinality(D)
  BY <1>3, <1>7, FS_Bijection
<1> QED
  BY <1>3, <1>5, <1>8

(* A binary search finds a cell that is equal to the key, if there is one. *)
LEMMA BisectionFinds ==
  ASSUME NEW signs \in Seq(Int),
         \A i, j \in 1 .. Len(signs) : i < j => signs[j] <= signs[i]
  PROVE  /\ Bisection(signs) \in 0 .. Len(signs)
         /\ Bisection(signs) > 0 => signs[Bisection(signs)] = 0
         /\ (\E i \in 1 .. Len(signs) : signs[i] = 0) => Bisection(signs) > 0
<1> DEFINE last == Len(signs)
           D == (1 .. last + 1) \X (0 .. last)
           V == 0 .. last
           Middle(r) == (r[1] + r[2]) \div 2
           Look(g, r) ==
             IF r[1] > r[2] THEN 0
             ELSE IF signs[Middle(r)] = 0 THEN Middle(r)
             ELSE IF signs[Middle(r)] < 0 THEN g[<<r[1], Middle(r) - 1>>]
             ELSE g[<<Middle(r) + 1, r[2]>>]
           Size(r) == r[2] - r[1] + 1
<1>1. last \in Nat /\ \A i \in 1 .. last : signs[i] \in Int
  OBVIOUS
<1>2. ASSUME NEW l \in 1 .. last + 1, NEW u \in 0 .. last, l <= u
      PROVE  (l + u) \div 2 \in l .. u
  BY <1>1, <1>2
<1>3. ASSUME NEW r \in D, ~ r[1] > r[2]
      PROVE  /\ Middle(r) \in r[1] .. r[2]
             /\ Middle(r) \in 1 .. last
             /\ <<r[1], Middle(r) - 1>> \in D
             /\ <<Middle(r) + 1, r[2]>> \in D
             /\ Size(<<r[1], Middle(r) - 1>>) < Size(r)
             /\ Size(<<Middle(r) + 1, r[2]>>) < Size(r)
  <2>1. PICK l \in 1 .. last + 1, u \in 0 .. last : r = <<l, u>>
    OBVIOUS
  <2>2. l <= u /\ Middle(r) = (l + u) \div 2
    BY <1>1, <1>3, <2>1
  <2>3. PICK m \in l .. u : m = Middle(r)
    BY <1>2, <2>2
  <2>4. m \in 1 .. last /\ m - 1 \in 0 .. last /\ m + 1 \in 1 .. last + 1
    BY <1>1, <2>3, SMTT(30)
  <2> HIDE DEF Middle
  <2> QED
    BY <1>1, <2>1, <2>3, <2>4, SMTT(30)
<1>4. \A r \in D : Size(r) \in Int /\ Size(r) <= last
  BY <1>1
<1>5. \A g \in [D -> V] : \A r \in D : Look(g, r) \in V
  <2> SUFFICES ASSUME NEW g \in [D -> V], NEW r \in D
               PROVE  Look(g, r) \in V
    OBVIOUS
  <2>1. 0 \in V /\ 1 .. last \subseteq V
    BY <1>1
  <2>2. CASE r[1] > r[2]
    BY <2>1, <2>2
  <2>3. CASE ~ r[1] > r[2]
    <3> HIDE DEF D, V, Middle
    <3> QED
      BY <1>3, <2>1, <2>3
  <2> QED
    BY <2>2, <2>3
<1> HIDE DEF Middle, Size
<1> HIDE DEF D, V
(* The search is defined: for intervals of every size, by induction. *)
<1>6. \E g \in [D -> V] : \A r \in D : g[r] = Look(g, r)
  <2> DEFINE Defined(k) ==
               \E g \in [D -> V] : \A r \in D : Size(r) <= k => g[r] = Look(g, r)
             S == {k \in Nat : Defined(k)}
  <2>1. ASSUME NEW k \in Nat, NEW g \in [D -> V],
               \A r \in D : Size(r) < k => g[r] = Look(g, r)
        PROVE  Defined(k)
    <3> DEFINE h == [r \in D |-> Look(g, r)]
    <3>1. h \in [D -> V]
      BY <1>5
    <3>2. ASSUME NEW r \in D, Size(r) <= k
          PROVE  h[r] = Look(h, r)
      <4>1. h[r] = Look(g, r)
        OBVIOUS
      <4>2. CASE r[1] > r[2]
        BY <4>1, <4>2
      <4>3. CASE ~ r[1] > r[2]
        <5>1. \A q \in D : Size(q) < k => h[q] = g[q]
          BY <2>1
        <5>2. /\ <<r[1], Middle(r) - 1>> \in D
              /\ <<Middle(r) + 1, r[2]>> \in D
              /\ Size(<<r[1], Middle(r) - 1>>) < k
              /\ Size(<<Middle(r) + 1, r[2]>>) < k
          <6>1. /\ <<r[1], Middle(r) - 1>> \in D
                /\ <<Middle(r) + 1, r[2]>> \in D
                /\ Size(<<r[1], Middle(r) - 1>>) < Size(r)
                /\ Size(<<Middle(r) + 1, r[2]>>) < Size(r)
            BY <1>3, <4>3
          <6>2. \A q \in D : Size(q) < Size(r) => Size(q) < k
            BY <1>4, <3>2
          <6> QED
            BY <6>1, <6>2
        <5> HIDE DEF h
        <5>3. /\ h[<<r[1], Middle(r) - 1>>] = g[<<r[1], Middle(r) - 1>>]
              /\ h[<<Middle(r) + 1, r[2]>>] = g[<<Middle(r) + 1, r[2]>>]
          BY <5>1, <5>2
        <5> QED
          BY <4>1, <5>3
      <4> QED
        BY <4>2, <4>3
    <3> HIDE DEF h, Look
    <3> QED
      BY <3>1, <3>2
  <2>2. 0 \in S
    <3> DEFINE g == [r \in D |-> 0]
    <3>1. g \in [D -> V]
      BY <1>1 DEF V
    <3>2. \A r \in D : Size(r) < 0 => r[1] > r[2]
      BY <1>1 DEF Size, D
    <3>3. \A r \in D : Size(r) < 0 => g[r] = Look(g, r)
      BY <3>2
    <3> HIDE DEF g, Look, Defined
    <3>4. Defined(0)
      BY <2>1, <3>1, <3>3
    <3> QED
      BY <3>4
  <2>3. ASSUME NEW k \in S \cap Nat
        PROVE  k + 1 \in S
    <3>1. PICK g \in [D -> V] : \A r \in D : Size(r) <= k => g[r] = Look(g, r)
      OBVIOUS
    <3> HIDE DEF Look
    <3>2. \A r \in D : Size(r) < k + 1 => g[r] = Look(g, r)
      BY <1>4, <3>1
    <3> HIDE DEF Defined
    <3> QED
      BY <2>1, <3>2
  <2>4. last \in S
    <3> HIDE DEF S
    <3> QED
      BY <1>1, <2>2, <2>3, NumbersFromZero
  <2> HIDE DEF Look
  <2> QED
    BY <1>4, <2>4
<1> DEFINE found == CHOOSE g : g = [r \in D |-> Look(g, r)]
<1>7. found = [r \in D |-> Look(found, r)]
  <2>1. PICK g \in [D -> V] : \A r \in D : g[r] = Look(g, r)
    BY <1>6
  <2>2. g = [r \in D |-> Look(g, r)]
    BY <2>1
  <2> HIDE DEF Look
  <2> QED
    BY <2>2
<1>8. Bisection(signs) = found[<<1, last>>]
  BY DEF Bisection, D, Middle
<1> HIDE DEF found
<1>9. \A r \in D : found[r] = Look(found, r)
  BY <1>7
(* What it finds in an interval, by induction on the size again. *)
<1> DEFINE Found(r) ==
             /\ found[r] \in V
             /\ found[r] > 0 => signs[found[r]] = 0
             /\ (\E i \in r[1] .. r[2] : signs[i] = 0) => found[r] > 0
<1>10. ASSUME NEW k \in Nat, \A r \in D : Size(r) < k => Found(r)
       PROVE  \A r \in D : Size(r) <= k => Found(r)
  <2> SUFFICES ASSUME NEW r \in D, Size(r) <= k
               PROVE  Found(r)
    OBVIOUS
  <2>1. PICK l \in 1 .. last + 1, u \in 0 .. last : r = <<l, u>>
    BY DEF D
  <2>2. r[1] = l /\ r[2] = u
    BY <2>1
  <2>3. CASE l > u
    <3>1. found[r] = 0
      BY <1>9, <2>2, <2>3
    <3>2. ~ \E i \in l .. u : signs[i] = 0
      BY <1>1, <2>3
    <3> QED
      BY <1>1, <2>2, <3>1, <3>2 DEF V
  <2>4. CASE ~ l > u
    <3>1. PICK m \in l .. u : /\ m = Middle(r)
                              /\ m \in 1 .. last
                              /\ <<l, m - 1>> \in D
                              /\ <<m + 1, u>> \in D
                              /\ Size(<<l, m - 1>>) < Size(r)
                              /\ Size(<<m + 1, u>>) < Size(r)
      BY <1>3, <2>2, <2>4
    <3>2. found[r] = IF signs[m] = 0 THEN m
                     ELSE IF signs[m] < 0 THEN found[<<l, m - 1>>]
                     ELSE found[<<m + 1, u>>]
      BY <1>9, <2>2, <2>4, <3>1
    <3>3. Found(<<l, m - 1>>) /\ Found(<<m + 1, u>>)
      <4>1. \A q \in D : Size(q) < Size(r) => Size(q) < k
        BY <1>4
      <4> HIDE DEF Found
      <4> QED
        BY <1>10, <3>1, <4>1
    <3>4. \A i, j \in 1 .. last : i < j => signs[j] <= signs[i]
      OBVIOUS
    <3>5. CASE signs[m] = 0
      BY <3>1, <3>2, <3>5 DEF V
    <3>6. CASE signs[m] < 0
      <4>1. ASSUME NEW i \in l .. u, signs[i] = 0
            PROVE  i \in l .. m - 1
        <5>1. i \in 1 .. last
          BY <1>1, <2>1
        <5>2. signs[i] \in Int /\ signs[m] \in Int
          BY <1>1, <3>1, <5>1
        <5>3. ~ m < i
          <6>1. m < i => signs[i] <= signs[m]
            BY <3>1, <3>4, <5>1
          <6> QED
            BY <3>6, <4>1, <5>2, <6>1
        <5>4. i # m
          BY <3>6, <4>1, <5>2
        <5> QED
          BY <3>1, <5>3, <5>4
      <4>2. found[r] = found[<<l, m - 1>>]
        BY <3>2, <3>6
      <4> QED
        BY <2>2, <3>3, <4>1, <4>2
    <3>7. CASE ~ (signs[m] = 0) /\ ~ (signs[m] < 0)
      <4>1. ASSUME NEW i \in l .. u, signs[i] = 0
            PROVE  i \in m + 1 .. u
        <5>1. i \in 1 .. last
          BY <1>1, <2>1
        <5>2. signs[i] \in Int /\ signs[m] \in Int
          BY <1>1, <3>1, <5>1
        <5>3. ~ i < m
          <6>1. i < m => signs[m] <= signs[i]
            BY <3>1, <3>4, <5>1
          <6> QED
            BY <3>7, <4>1, <5>2, <6>1
        <5>4. i # m
          BY <3>7, <4>1
        <5> QED
          BY <3>1, <5>3, <5>4
      <4>2. found[r] = found[<<m + 1, u>>]
        BY <3>2, <3>7
      <4> QED
        BY <2>2, <3>3, <4>1, <4>2
    <3> QED
      BY <3>5, <3>6, <3>7
  <2> QED
    BY <2>3, <2>4
<1>11. \A r \in D : Found(r)
  <2> HIDE DEF Found
  <2> DEFINE S == {k \in Nat : \A r \in D : Size(r) < k => Found(r)}
  <2>1. \A k \in S \cap Nat : k + 1 \in S
    <3> SUFFICES ASSUME NEW k \in Nat, \A r \in D : Size(r) < k => Found(r)
                 PROVE  \A r \in D : Size(r) < k + 1 => Found(r)
      OBVIOUS
    <3>1. \A r \in D : Size(r) <= k => Found(r)
      BY <1>10
    <3> QED
      BY <1>4, <3>1
  <2>2. 0 \in S
    <3>1. \A r \in D : Size(r) < 0 => Size(r) <= 0
      BY <1>4
    <3>2. \A r \in D : Size(r) < 0 => r[1] > r[2]
      BY <1>1 DEF Size, D
    <3>3. ASSUME NEW r \in D, r[1] > r[2]
          PROVE  Found(r)
      <4>1. PICK l \in 1 .. last + 1, u \in 0 .. last : r = <<l, u>>
        BY DEF D
      <4>2. found[r] = 0
        BY <1>9, <3>3
      <4>3. ~ \E i \in r[1] .. r[2] : signs[i] = 0
        BY <1>1, <3>3, <4>1
      <4> QED
        BY <1>1, <4>2, <4>3 DEF Found, V
    <3> QED
      BY <3>2, <3>3
  <2> HIDE DEF S
  <2>3. last + 1 \in S
    BY <1>1, <2>1, <2>2, NumbersFromZero
  <2>4. \A r \in D : Size(r) < last + 1
    BY <1>1, <1>4
  <2> QED
    BY <2>3, <2>4 DEF S
<1>12. <<1, last>> \in D
  BY <1>1 DEF D
<1> QED
  BY <1>8, <1>11, <1>12 DEF V

(***************************************************************************)
(* A finite set of naturals can be enumerated in ascending order.          *)
(***************************************************************************)
LEMMA AscendingEnumeration ==
  ASSUME NEW S, S \subseteq Nat, IsFiniteSet(S)
  PROVE  \E xs \in [1 .. Cardinality(S) -> S] :
           \A i, j \in 1 .. Cardinality(S) : i < j => xs[i] < xs[j]
<1> DEFINE Enumerable(X, n) ==
             \E xs \in [1 .. n -> X] : \A i, j \in 1 .. n : i < j => xs[i] < xs[j]
           T == {n \in Nat : \A X \in SUBSET Nat :
                   IsFiniteSet(X) /\ Cardinality(X) = n => Enumerable(X, n)}
<1>1. 0 \in T
  <2>1. ASSUME NEW X
        PROVE  Enumerable(X, 0)
    <3>1. [i \in 1 .. 0 |-> i] \in [1 .. 0 -> X]
      OBVIOUS
    <3> QED
      BY <3>1
  <2> QED
    BY <2>1
<1>2. ASSUME NEW n \in T \cap Nat
      PROVE  n + 1 \in T
  <2>1. ASSUME NEW X \in SUBSET Nat, IsFiniteSet(X), Cardinality(X) = n + 1
        PROVE  Enumerable(X, n + 1)
    <3>1. X # {}
      BY <2>1, FS_EmptySet
    <3>2. PICK m \in X : \A x \in X : m <= x
      BY <3>1, LeastNumber
    <3> DEFINE Y == X \ {m}
    <3>3. IsFiniteSet(Y) /\ Cardinality(Y) = n
      <4>1. IsFiniteSet(Y) /\ Cardinality(Y) = Cardinality(X) - 1
        BY <2>1, <3>2, FS_RemoveElement
      <4> QED
        BY <2>1, <4>1
    <3>4. PICK ys \in [1 .. n -> Y] : \A i, j \in 1 .. n : i < j => ys[i] < ys[j]
      BY <3>3
    <3> DEFINE xs == [i \in 1 .. n + 1 |-> IF i = 1 THEN m ELSE ys[i - 1]]
    <3>5. \A i \in 2 .. n + 1 : i - 1 \in 1 .. n
      OBVIOUS
    <3>6. ASSUME NEW i \in 1 .. n
          PROVE  ys[i] \in X /\ m < ys[i]
      <4>1. ys[i] \in X /\ ys[i] # m
        BY <3>4
      <4>2. m <= ys[i] /\ m \in Nat /\ ys[i] \in Nat
        BY <2>1, <3>2, <4>1
      <4> QED
        BY <4>1, <4>2
    <3>7. xs \in [1 .. n + 1 -> X]
      BY <3>2, <3>5, <3>6
    <3>8. ASSUME NEW i \in 1 .. n + 1, NEW j \in 1 .. n + 1, i < j
          PROVE  xs[i] < xs[j]
      <4>1. j \in 2 .. n + 1 /\ xs[j] = ys[j - 1] /\ j - 1 \in 1 .. n
        BY <3>8
      <4>2. CASE i = 1
        BY <3>6, <4>1, <4>2
      <4>3. CASE i # 1
        <5>1. xs[i] = ys[i - 1] /\ i - 1 \in 1 .. n /\ i - 1 < j - 1
          BY <3>8, <4>3
        <5> QED
          BY <3>4, <4>1, <5>1
      <4> QED
        BY <4>2, <4>3
    <3> QED
      BY <3>7, <3>8
  <2> QED
    BY <2>1
<1> HIDE DEF T
<1>3. Nat \subseteq T
  BY <1>1, <1>2, NumbersFromZero
<1>4. Cardinality(S) \in T
  BY <1>3, FS_CardinalityType
<1> QED
  BY <1>4 DEF T

(* It is then complete. *)
LEMMA AscendingIsComplete ==
  ASSUME NEW S, S \subseteq Nat, IsFiniteSet(S), NEW xs \in [1 .. Cardinality(S) -> S],
         \A i, j \in 1 .. Cardinality(S) : i < j => xs[i] < xs[j]
  PROVE  \A x \in S : \E i \in 1 .. Cardinality(S) : xs[i] = x
<1>1. \A i, j \in 1 .. Cardinality(S) : i # j => xs[i] # xs[j]
  <2>1. Cardinality(S) \in Nat
    BY FS_CardinalityType
  <2> SUFFICES ASSUME NEW i \in 1 .. Cardinality(S), NEW j \in 1 .. Cardinality(S), i # j
               PROVE  xs[i] # xs[j]
    OBVIOUS
  <2>2. xs[i] \in Nat /\ xs[j] \in Nat
    <3>1. xs[i] \in S /\ xs[j] \in S
      OBVIOUS
    <3> QED
      BY <3>1
  <2>3. xs[i] < xs[j] \/ xs[j] < xs[i]
    <3>1. i < j \/ j < i
      BY <2>1
    <3> QED
      BY <3>1
  <2> QED
    BY <2>2, <2>3
<1>2. \A x \in S : \E i \in DOMAIN xs : xs[i] = x
  BY <1>1, EnumerationsAreComplete
<1> QED
  BY <1>2
=============================================================================
