------------------------------ MODULE CBuffer ------------------------------
(***************************************************************************)
(* ioByteBuffer (ByteBuffer.c): a byte array with a position, a limit and  *)
(* a mark, through which everything is sent and received.  Here a writer   *)
(* fills a buffer, which is copied, appended to another one, or sent to a  *)
(* host whose own integers may have the other byte order.                  *)
(*                                                                         *)
(* A byte has Base values.  The history "fields" holds what the array      *)
(* contains at each place, as far as it has not been overwritten.          *)
(***************************************************************************)
EXTENDS Integers, Sequences
LOCAL INSTANCE SequencesExt

CONSTANTS
  Buffer,      \* the buffers
  Writer,      \* those the program fills
  LittleHost,  \* those whose host is known to be little endian
  Capacity,    \* their capacity
  Base,        \* values of a byte
  Value,       \* the integers that are put, as far as they fit
  Sizes,       \* their sizes in bytes
  UIntSize     \* sizeof( unsigned int )

ASSUME CBufferAssumption ==
  /\ Writer \cup LittleHost \subseteq Buffer
  /\ Capacity \in Nat
  /\ Base \in Nat \ {0, 1}
  /\ Value \subseteq Nat
  /\ Sizes \subseteq Nat \ {0}
  /\ UIntSize \in Sizes

VARIABLES
  hostIsBigEndian,  \* of the host of each buffer
  buf,              \* position, limit, mark and bytes of each buffer
  fields            \* history: the fields of each buffer

bufferVars == <<hostIsBigEndian, buf, fields>>

(* ioByteBuffer_wrap *)
Wrapped == [position |-> 0, limit |-> Capacity, mark |-> Capacity + 1,
            bytes |-> [i \in 1 .. Capacity |-> 0]]

CBufferInit ==
  /\ hostIsBigEndian \in [Buffer -> BOOLEAN]
  /\ \A b \in LittleHost : ~ hostIsBigEndian[b]
  /\ buf = [b \in Buffer |-> Wrapped]
  /\ fields = [b \in Buffer |-> {}]

-----------------------------------------------------------------------------
(* The last n digits of an integer, most significant first, and back. *)
Digits(v, n) ==
  LET above[i \in 0 .. n] == IF i = 0 THEN v ELSE above[i - 1] \div Base
  IN  [i \in 1 .. n |-> above[n - i] % Base]

Number(digits) ==
  LET first[i \in 0 .. Len(digits)] ==
        IF i = 0 THEN 0 ELSE first[i - 1] * Base + digits[i]
  IN  first[Len(digits)]

(* How a host keeps an integer of n bytes in memory. *)
Memory(v, n, big)  == IF big THEN Digits(v, n) ELSE Reverse(Digits(v, n))
FromMemory(s, big) == Number(IF big THEN s ELSE Reverse(s))

(* The exchange of bytes when the order, BIG_ENDIAN, is not the host's. *)
SwappedNever(v, n, big) == v
Swapped(v, n, big) == IF big THEN v ELSE Number(Reverse(Digits(v, n)))

(* putUShort, putUInt, putULong, and the conversion of their getters. *)
Encoded(v, n, big) == Memory(Swapped(v, n, big), n, big)
Decoded(s, big) ==
  LET v == FromMemory(s, big)
  IN  IF big THEN v ELSE Number(Reverse(Digits(v, Len(s))))

-----------------------------------------------------------------------------
Remaining(b) == buf[b].limit - buf[b].position

(* memcpy into the array, from an index that counts from 0. *)
Copied(bytes, at, s) ==
  [i \in DOMAIN bytes |-> IF i \in at + 1 .. at + Len(s) THEN s[i - at] ELSE bytes[i]]

(* The fields outside of what is overwritten. *)
Kept(fs, at, n) == {f \in fs : f.at + f.size <= at \/ f.at >= at + n}

(* The fields within the n bytes from an index, moved to another one. *)
Shifted(fs, at, n, to) ==
  {[f EXCEPT !.at = f.at - at + to] : f \in {g \in fs : g.at >= at /\ g.at + g.size <= at + n}}

Field(at, n, v) == [at |-> at, size |-> n, value |-> v]

(* What an integer of n bytes can hold of the values that are put. *)
Values(n) == {v \in Value : v <= Number([i \in 1 .. n |-> Base - 1])}

(* putByte, putUShort, putUInt, putULong and those that call them. *)
Put(b, n, v) ==
  LET p == buf[b].position IN
  /\ n <= Remaining(b)
  /\ buf' = [buf EXCEPT ![b].bytes = Copied(@, p, Encoded(v, n, hostIsBigEndian[b])),
                        ![b].position = @ + n]
  /\ fields' = [fields EXCEPT ![b] = Kept(@, p, n) \cup {Field(p, n, v)}]
  /\ UNCHANGED hostIsBigEndian

(* ioByteBuffer_putUIntAt: the position stays. *)
PutUIntAt(b, v, index) ==
  /\ index + UIntSize <= buf[b].limit
  /\ buf' = [buf EXCEPT
       ![b].bytes = Copied(@, index, Encoded(v, UIntSize, hostIsBigEndian[b]))]
  /\ fields' = [fields EXCEPT ![b] = Kept(@, index, UIntSize) \cup
                                       {Field(index, UIntSize, v)}]
  /\ UNCHANGED hostIsBigEndian

(***************************************************************************)
(* ioByteBuffer_putString: the length, then the characters; when there is  *)
(* no room for them the length has been written all the same.              *)
(***************************************************************************)
PutString(b, len) ==
  LET p == buf[b].position
      all == Encoded(len, UIntSize, hostIsBigEndian[b]) \o [i \in 1 .. len |-> 1]
      fits == Len(all) <= Remaining(b)
      put == IF fits THEN Len(all) ELSE UIntSize
  IN
  /\ UIntSize <= Remaining(b)
  /\ buf' = [buf EXCEPT ![b].bytes = Copied(@, p, SubSeq(all, 1, put)),
                        ![b].position = @ + put]
  /\ fields' = [fields EXCEPT ![b] =
       Kept(@, p, put) \cup {Field(p, UIntSize, len)} \cup
         {Field(p + i, 1, 1) : i \in UIntSize .. put - 1}]
  /\ UNCHANGED hostIsBigEndian

(* The getters: the position moves, or UNDERFLOW. *)
Get(b, n) ==
  /\ n <= Remaining(b)
  /\ buf' = [buf EXCEPT ![b].position = @ + n]
  /\ UNCHANGED <<hostIsBigEndian, fields>>

(***************************************************************************)
(* ioByteBuffer_getString into an array of a given size: one that the      *)
(* string does not fit leaves the position before the characters.          *)
(***************************************************************************)
GetString(b, size) ==
  LET p == buf[b].position
      len == Decoded(SubSeq(buf[b].bytes, p + 1, p + UIntSize), hostIsBigEndian[b])
      read == IF len < size /\ UIntSize + len <= Remaining(b) THEN len ELSE 0
  IN
  /\ UIntSize <= Remaining(b)
  /\ buf' = [buf EXCEPT ![b].position = @ + UIntSize + read]
  /\ UNCHANGED <<hostIsBigEndian, fields>>

-----------------------------------------------------------------------------
ClearBuffer(b) ==
  /\ buf' = [buf EXCEPT ![b].position = 0, ![b].limit = Capacity]
  /\ UNCHANGED <<hostIsBigEndian, fields>>

Mark(b) ==
  /\ buf' = [buf EXCEPT ![b].mark = buf[b].position]
  /\ UNCHANGED <<hostIsBigEndian, fields>>

(* ioByteBuffer_reset goes back to a mark below the limit only. *)
MarkUsableAlways(b) == buf[b].mark <= Capacity
MarkUsable(b)       == buf[b].mark < buf[b].limit

Reset(b) ==
  /\ MarkUsable(b)
  /\ buf' = [buf EXCEPT ![b].position = buf[b].mark, ![b].mark = Capacity + 1]
  /\ UNCHANGED <<hostIsBigEndian, fields>>

Flip(b) ==
  /\ buf' = [buf EXCEPT ![b].limit = buf[b].position, ![b].position = 0]
  /\ UNCHANGED <<hostIsBigEndian, fields>>

SetPosition(b, position) ==
  /\ position <= buf[b].limit
  /\ buf' = [buf EXCEPT ![b].position = position]
  /\ UNCHANGED <<hostIsBigEndian, fields>>

-----------------------------------------------------------------------------
(* The bytes between the position and the limit, and their fields. *)
Rest(b) == SubSeq(buf[b].bytes, buf[b].position + 1, buf[b].limit)

RestFields(b, to) == Shifted(fields[b], buf[b].position, Remaining(b), to)

(***************************************************************************)
(* ioByteBuffer_copy, as the receiver uses it, of all that remains: a new  *)
(* buffer on the same host, whose position is 0.  (The rest of its array   *)
(* is out of its capacity.)                                                *)
(***************************************************************************)
Copy(b, c) ==
  /\ b # c
  /\ hostIsBigEndian[b] = hostIsBigEndian[c]
  /\ buf' = [buf EXCEPT ![c] =
       [Wrapped EXCEPT !.limit = Remaining(b), !.bytes = Copied(@, 0, Rest(b))]]
  /\ fields' = [fields EXCEPT ![c] = RestFields(b, 0)]
  /\ UNCHANGED hostIsBigEndian

(* ioByteBuffer_putBuffer moves both positions. *)
PutBuffer(b, c) ==
  LET p == buf[b].position IN
  /\ b # c
  /\ hostIsBigEndian[b] = hostIsBigEndian[c]
  /\ Remaining(c) <= Remaining(b)
  /\ buf' = [buf EXCEPT ![b].bytes = Copied(@, p, Rest(c)),
                        ![b].position = @ + Remaining(c),
                        ![c].position = buf[c].limit]
  /\ fields' = [fields EXCEPT ![b] = Kept(@, p, Remaining(c)) \cup RestFields(c, p)]
  /\ UNCHANGED hostIsBigEndian

(***************************************************************************)
(* ioByteBuffer_sendTo, then ioByteBuffer_receive into a buffer of the     *)
(* peer: what does not fit there is lost with the datagram.                *)
(***************************************************************************)
Transfer(b, c) ==
  LET n == IF Remaining(b) < Remaining(c) THEN Remaining(b) ELSE Remaining(c)
      p == buf[c].position
  IN
  /\ b # c
  /\ n > 0
  /\ buf' = [buf EXCEPT ![b].position = buf[b].limit,
                        ![c].bytes = Copied(@, p, SubSeq(Rest(b), 1, n)),
                        ![c].position = @ + n]
  /\ fields' = [fields EXCEPT ![c] =
       Kept(@, p, n) \cup Shifted(fields[b], buf[b].position, n, p)]
  /\ UNCHANGED hostIsBigEndian

CBufferNext ==
  \/ \E b \in Writer : \E n \in Sizes : \E v \in Values(n) : Put(b, n, v)
  \/ \E b \in Writer, v \in Values(UIntSize), i \in 0 .. Capacity : PutUIntAt(b, v, i)
  \/ \E b \in Writer, len \in {0} \cup Values(UIntSize) : PutString(b, len)
  \/ \E b \in Buffer, n \in Sizes : Get(b, n)
  \/ \E b \in Buffer, size \in 0 .. Capacity : GetString(b, size)
  \/ \E b \in Buffer : ClearBuffer(b)
  \/ \E b \in Writer : Mark(b)
  \/ \E b \in Writer : Reset(b)
  \/ \E b \in Buffer : Flip(b)
  \/ \E b \in Writer, p \in 0 .. Capacity : SetPosition(b, p)
  \/ \E b \in Writer, c \in Buffer : Copy(b, c)
  \/ \E b, c \in Buffer : PutBuffer(b, c)
  \/ \E b \in Writer, c \in Buffer : Transfer(b, c)

CBufferSpec == CBufferInit /\ [][CBufferNext]_bufferVars

-----------------------------------------------------------------------------
(***************************************************************************)
(* The position never passes the limit nor the limit the array, whatever   *)
(* the order of the calls: a difference of them never wraps around, and    *)
(* no memcpy reaches beyond the array.                                     *)
(***************************************************************************)
BufferInBounds ==
  \A b \in Buffer :
    /\ 0 <= buf[b].position /\ buf[b].position <= buf[b].limit
    /\ buf[b].limit <= Capacity
    /\ Len(buf[b].bytes) = Capacity

(***************************************************************************)
(* Whatever was put and not overwritten is read back, where it was put, in *)
(* a copy, in a buffer it was appended to, and on a host of the other byte *)
(* order that received it.                                                 *)
(***************************************************************************)
FieldsIntact ==
  \A b \in Buffer : \A f \in fields[b] :
    Decoded(SubSeq(buf[b].bytes, f.at + 1, f.at + f.size), hostIsBigEndian[b]) = f.value
=============================================================================
