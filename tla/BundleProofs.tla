---------------------------- MODULE BundleProofs ----------------------------
(***************************************************************************)
(* The v1 bundle format for every message, id and batch that its length    *)
(* fields can hold: the arithmetic of the header, and that what is written *)
(* is read back.  TLC's run reaches bundles of some 66000 bytes only.      *)
(***************************************************************************)
EXTENDS Bundle, OrderingProofs, SequenceTheorems

\* The headers the format can represent: ids and message count in one byte
\* each, remLen in four.
Representable ==
    {h \in [sendIdLen: 0..255, destIdLen: 0..255, messageCount: 0..255, remLen: Nat] :
        Shr24(h.remLen) < 256}

\* Dividing by 256 and putting the remainder back.
LEMMA ShiftBack ==
    ASSUME NEW n \in Nat
    PROVE  /\ Shr8(n) \in Nat
           /\ Low8(n) \in 0..255
           /\ Shr8(n) * 256 + Low8(n) = n
BY DEF Shr8, Low8

\* A number of at most four bytes is put together again from its bytes.
LEMMA FourBytes ==
    ASSUME NEW n \in Nat, Shr24(n) < 256
    PROVE  ((Low8(Shr24(n)) * 256 + Low8(Shr16(n))) * 256 + Low8(Shr8(n))) * 256 + Low8(n) = n
<1>1. Shr8(n) \in Nat /\ Shr8(n) * 256 + Low8(n) = n
  BY ShiftBack
<1>2. Shr16(n) \in Nat /\ Shr16(n) * 256 + Low8(Shr8(n)) = Shr8(n)
  BY <1>1, ShiftBack DEF Shr16
<1>3. Shr24(n) \in Nat /\ Shr24(n) * 256 + Low8(Shr16(n)) = Shr16(n)
  BY <1>2, ShiftBack DEF Shr24
<1>4. Low8(Shr24(n)) = Shr24(n)
  BY <1>3 DEF Low8
<1> QED
  BY <1>1, <1>2, <1>3, <1>4

\* Reading the header that make_bundle_header_v1 made gives the fields back, up
\* to and including the largest ones.
THEOREM HeaderRoundTrip ==
    \A h \in Representable : read_bundle_header_v1(make_bundle_header_v1(h)) = h
<1> SUFFICES ASSUME NEW h \in Representable
             PROVE  read_bundle_header_v1(make_bundle_header_v1(h)) = h
  OBVIOUS
<1>1. /\ Low8(h.sendIdLen) = h.sendIdLen
      /\ Low8(h.destIdLen) = h.destIdLen
      /\ Low8(h.messageCount) = h.messageCount
  BY DEF Representable, Low8
<1>2. ((Low8(Shr24(h.remLen)) * 256 + Low8(Shr16(h.remLen))) * 256
          + Low8(Shr8(h.remLen))) * 256 + Low8(h.remLen) = h.remLen
  BY FourBytes DEF Representable
<1>3. h = [sendIdLen |-> h.sendIdLen, destIdLen |-> h.destIdLen,
           messageCount |-> h.messageCount, remLen |-> h.remLen]
  BY DEF Representable
<1> QED
  BY <1>1, <1>2, <1>3 DEF make_bundle_header_v1, read_bundle_header_v1

-----------------------------------------------------------------------------
(* Bundles *)

\* The largest number of three bytes.
MaxLength == 256 * 256 * 256 - 1

\* What the format can represent: an id's length in one byte, a message's in three.
\* The code checks neither, nor that a bundle's messages are at most 255: that is a
\* premise of what follows, not of Fits.
Fits ==
    /\ \A head \in Heads : Len(head.sendId) <= 255 /\ Len(head.destId) <= 255
    /\ \A m \in Msgs : Len(m) <= MaxLength

\* The messages lie one after the other in the buffer, from start[1] = 0 on.
Laid(start) ==
    LET k == Len(msgLengths) IN
    /\ start \in [1..(k + 1) -> Nat]
    /\ start[1] = 0 /\ start[k + 1] = Len(messages)
    /\ \A j \in 1..k :
          /\ start[j + 1] = start[j] + Len(batch[j])
          /\ start[j + 1] <= Len(messages)
          /\ \A i \in 1..Len(batch[j]) : messages[start[j] + i] = batch[j][i]

\* The lengths and the buffer of an OngoingSerialization agree with the messages
\* added so far.
BufferInv ==
    /\ batch \in Batches /\ vHead \in Heads
    /\ msgLengths \in Seq(Nat) /\ Len(msgLengths) <= Len(batch)
    /\ \A j \in 1..Len(msgLengths) : msgLengths[j] = Len(batch[j])
    /\ messages \in Seq(Byte) /\ Len(messages) <= Len(msgLengths) * MaxLength
    /\ \E start : Laid(start)

\* The bundle written is of all the messages, and is what was read.
WireInv ==
    /\ wire # Nothing => Len(msgLengths) = Len(batch) /\ wire = serialize_end_v1
    /\ got # Unread =>
          /\ wire # Nothing
          /\ got = IF read_bundle_header_v1(wire.header).remLen = 0
                   THEN Refused
                   ELSE deserialize_v1(wire.header, wire.data)

\* It is a number.
LEMMA MaxLengthNat == MaxLength \in Nat
BY DEF MaxLength

\* What every message of a batch is.
LEMMA BatchMessages ==
    ASSUME Fits, batch \in Batches
    PROVE  /\ Len(batch) \in Nat /\ DOMAIN batch = 1..Len(batch) /\ batch = [j \in 1..Len(batch) |-> batch[j]]
           /\ \A j \in 1..Len(batch) :
                /\ batch[j] \in Msgs /\ batch[j] \in Seq(Byte)
                /\ Len(batch[j]) \in 1..MaxLength /\ batch[j][1] = Brace
<1>1. batch \in Seq(Msgs) /\ Len(batch) \in Nat /\ DOMAIN batch = 1..Len(batch)
  BY BundleConstants
<1>2. \A j \in 1..Len(batch) : batch[j] \in Msgs
  BY <1>1, ElementOfSeq
<1>3. ASSUME NEW m \in Msgs PROVE m \in Seq(Byte) /\ Len(m) \in 1..MaxLength /\ m[1] = Brace
  <2>1. m \in Seq(Byte) /\ m # << >> /\ m[1] = Brace /\ Len(m) <= MaxLength
    BY BundleConstants DEF Fits
  <2>2. Len(m) \in Nat /\ Len(m) # 0
    BY <2>1, EmptySeq
  <2> QED
    BY <2>1, <2>2, MaxLengthNat
<1>4. batch = [j \in 1..Len(batch) |-> batch[j]]
  BY <1>1
<1>5. ASSUME NEW j \in 1..Len(batch)
      PROVE  /\ batch[j] \in Msgs /\ batch[j] \in Seq(Byte)
             /\ Len(batch[j]) \in 1..MaxLength /\ batch[j][1] = Brace
  BY <1>2, <1>3
<1> QED
  BY <1>1, <1>4, <1>5

\* The messages added so far are laid out, and the next one is put at the end.
LEMMA AddKeepsBuffer == ASSUME Fits, BufferInv, addGeneric PROVE BufferInv'
<1> DEFINE k == Len(msgLengths)
           m == batch[k + 1]
           len == Len(messages)
<1>1. /\ k \in Nat /\ k < Len(batch) /\ Len(batch) \in Nat /\ len \in Nat /\ batch' = batch
      /\ messages \in Seq(Byte) /\ msgLengths \in Seq(Nat)
      /\ messages' = messages \o m /\ msgLengths' = Append(msgLengths, Len(m))
      /\ vHead' = vHead
  <2>1. Len(batch) \in Nat
    BY BatchMessages DEF BufferInv
  <2>2. messages \in Seq(Byte) /\ msgLengths \in Seq(Nat) /\ k \in Nat /\ len \in Nat
    BY DEF BufferInv
  <2> QED
    BY <2>1, <2>2 DEF addGeneric
<1>2. m \in Seq(Byte) /\ Len(m) \in 1..MaxLength /\ Len(m) \in Nat
  <2>1. k + 1 \in 1..Len(batch)
    BY <1>1
  <2>2. m \in Seq(Byte) /\ Len(m) \in 1..MaxLength
    BY <2>1, BatchMessages DEF BufferInv
  <2> HIDE DEF m
  <2> QED
    BY <2>2, MaxLengthNat
<1>3. /\ messages' \in Seq(Byte) /\ Len(messages') = len + Len(m)
      /\ \A i \in 1..len : messages'[i] = messages[i]
      /\ \A i \in 1..Len(m) : messages'[len + i] = m[i]
  <2>1. /\ messages' \in Seq(Byte) /\ Len(messages') = len + Len(m)
        /\ \A i \in 1..(len + Len(m)) : messages'[i] = IF i <= len THEN messages[i] ELSE m[i - len]
    BY <1>1, <1>2, ConcatProperties
  <2> HIDE DEF m
  <2>2. ASSUME NEW i \in 1..Len(m) PROVE messages'[len + i] = m[i]
    <3>1. len + i \in 1..(len + Len(m)) /\ ~(len + i <= len) /\ (len + i) - len = i
      BY <1>1, <1>2
    <3> QED
      BY <2>1, <3>1
  <2> QED
    BY <1>1, <1>2, <2>1, <2>2
<1>4. /\ msgLengths' \in Seq(Nat) /\ Len(msgLengths') = k + 1
      /\ \A j \in 1..k : msgLengths'[j] = msgLengths[j]
      /\ msgLengths'[k + 1] = Len(m)
  BY <1>1, <1>2, AppendProperties
<1>5. m = batch[k + 1]
  OBVIOUS
<1> HIDE DEF m
<1>6. PICK start : Laid(start)
  BY DEF BufferInv
<1>7. /\ start \in [1..(k + 1) -> Nat]
      /\ start[1] = 0 /\ start[k + 1] = len
      /\ \A j \in 1..k : /\ start[j + 1] = start[j] + Len(batch[j])
                         /\ start[j + 1] <= len
                         /\ \A i \in 1..Len(batch[j]) : messages[start[j] + i] = batch[j][i]
  BY <1>6 DEF Laid
<1>8. \A j \in 1..Len(msgLengths') : msgLengths'[j] = Len(batch'[j])
  <2>1. ASSUME NEW j \in 1..(k + 1) PROVE msgLengths'[j] = Len(batch[j])
    <3>1. CASE j \in 1..k
      BY <1>4, <3>1 DEF BufferInv
    <3>2. CASE j = k + 1
      BY <1>4, <1>5, <3>2
    <3> HIDE DEF k
    <3>3. j \in 1..k \/ j = k + 1
      BY <1>1
    <3> QED
      BY <3>1, <3>2, <3>3
  <2> QED
    BY <1>1, <1>4, <2>1
<1>9. Len(messages') <= Len(msgLengths') * MaxLength
  <2>1. len <= k * MaxLength /\ MaxLength \in Nat
    BY MaxLengthNat DEF BufferInv
  <2>2. (k + 1) * MaxLength = k * MaxLength + MaxLength
    BY <1>1, <2>1
  <2>3. \A x \in Nat : len <= x => len + Len(m) <= x + MaxLength
    BY <1>1, <1>2, <2>1
  <2>4. k * MaxLength \in Nat
    BY <1>1, <2>1
  <2> HIDE DEF k, len
  <2> QED
    BY <1>3, <1>4, <2>1, <2>2, <2>3, <2>4
<1> HIDE DEF k, len
<1> DEFINE s == [j \in 1..(k + 2) |-> IF j <= k + 1 THEN start[j] ELSE len + Len(m)]
<1>10. /\ s \in [1..(k + 2) -> Nat] /\ s[1] = 0 /\ s[k + 2] = len + Len(m)
      /\ \A j \in 1..(k + 1) : s[j] = start[j]
  BY <1>1, <1>2, <1>7
<1> HIDE DEF s
<1>11. ASSUME NEW j \in 1..(k + 1)
       PROVE  /\ s[j + 1] = s[j] + Len(batch[j])
              /\ s[j + 1] <= len + Len(m)
              /\ \A i \in 1..Len(batch[j]) : messages'[s[j] + i] = batch[j][i]
  <2>1. CASE j \in 1..k
    <3>1. /\ s[j] = start[j] /\ s[j + 1] = start[j + 1]
          /\ start[j] \in Nat /\ start[j + 1] \in Nat
      <4>1. j \in 1..(k + 1) /\ j + 1 \in 1..(k + 1)
        BY <1>1, <2>1
      <4> QED
        BY <1>7, <1>10, <4>1
    <3>2. start[j + 1] = start[j] + Len(batch[j]) /\ start[j + 1] <= len
      BY <1>7, <2>1
    <3>3. Len(batch[j]) \in Nat
      <4>1. j \in 1..Len(batch)
        BY <1>1, <2>1
      <4>2. Len(batch[j]) \in 1..MaxLength
        BY <4>1, BatchMessages DEF BufferInv
      <4> QED
        BY <4>2, MaxLengthNat
    <3>4. ASSUME NEW i \in 1..Len(batch[j]) PROVE messages'[s[j] + i] = batch[j][i]
      <4>1. start[j] + i \in 1..len
        <5> DEFINE d == Len(batch[j])
                   x == start[j]
        <5>1. d \in Nat /\ i \in 1..d /\ x \in Nat /\ x + d <= len /\ len \in Nat
          BY <1>1, <3>1, <3>2, <3>3
        <5> HIDE DEF d, x
        <5>2. x + i \in 1..len
          BY <5>1
        <5> QED
          BY <5>2 DEF x
      <4>2. messages[start[j] + i] = batch[j][i]
        BY <1>7, <2>1
      <4> QED
        BY <1>3, <3>1, <4>1, <4>2
    <3>5. s[j + 1] <= len + Len(m)
      BY <1>1, <1>2, <3>1, <3>2
    <3> QED
      BY <3>1, <3>2, <3>4, <3>5
  <2>2. CASE j = k + 1
    <3>1. s[j] = len /\ s[j + 1] = len + Len(m)
      <4>1. j + 1 = k + 2 /\ j \in 1..(k + 1)
        BY <1>1, <2>2
      <4> QED
        BY <1>7, <1>10, <2>2, <4>1
    <3>2. batch[j] = m
      BY <1>5, <2>2
    <3>3. s[j + 1] <= len + Len(m)
      BY <1>1, <1>2, <3>1
    <3> QED
      BY <1>3, <3>1, <3>2, <3>3
  <2>3. j \in 1..k \/ j = k + 1
    BY <1>1
  <2> QED
    BY <2>1, <2>2, <2>3
<1>12. PICK new : new = s
  OBVIOUS
<1>13. Laid(new)'
  <2>1. (k + 1) + 1 = k + 2
    BY <1>1
  <2>2. Len(msgLengths)' = k + 1 /\ Len(messages)' = len + Len(m)
    BY <1>3, <1>4
  <2>3. new \in [1..((k + 1) + 1) -> Nat] /\ new[1] = 0 /\ new[(k + 1) + 1] = len + Len(m)
    BY <1>10, <1>12, <2>1
  <2> QED
    BY <1>1, <1>11, <1>12, <2>2, <2>3 DEF Laid
<1>14. \E start1 : Laid(start1)'
  BY <1>13
<1> QED
  BY <1>1, <1>3, <1>4, <1>8, <1>9, <1>14 DEF BufferInv

\* A number of at most three bytes is put together again from its bytes.
LEMMA ThreeBytes ==
    ASSUME NEW n \in Nat, n <= MaxLength
    PROVE  /\ \A b \in 0..2 : LengthByte(n, b) \in Byte
           /\ (LengthByte(n, 0) * 256 + LengthByte(n, 1)) * 256 + LengthByte(n, 2) = n
<1>1. Shr8(n) \in Nat /\ Shr8(n) * 256 + Low8(n) = n /\ Low8(n) \in 0..255
  BY ShiftBack
<1>2. Shr16(n) \in Nat /\ Shr16(n) * 256 + Low8(Shr8(n)) = Shr8(n) /\ Low8(Shr8(n)) \in 0..255
  BY <1>1, ShiftBack DEF Shr16
<1>3. Shr16(n) < 256
  <2> DEFINE a == Shr16(n)
             b == Low8(Shr8(n))
             c == Low8(n)
  <2>1. a \in Nat /\ b \in 0..255 /\ c \in 0..255 /\ (a * 256 + b) * 256 + c <= 256 * 256 * 256 - 1
    BY <1>1, <1>2 DEF MaxLength
  <2> HIDE DEF a, b, c
  <2>2. a < 256
    BY <2>1
  <2> QED
    BY <2>2 DEF a
<1>4. Low8(Shr16(n)) = Shr16(n) /\ Low8(Shr16(n)) \in 0..255
  BY <1>2, <1>3 DEF Low8
<1>5. /\ LengthByte(n, 0) = Low8(Shr16(n)) /\ LengthByte(n, 1) = Low8(Shr8(n))
      /\ LengthByte(n, 2) = Low8(n)
  BY DEF LengthByte
<1>6. \A b \in 0..2 : b = 0 \/ b = 1 \/ b = 2
  OBVIOUS
<1> QED
  BY <1>1, <1>2, <1>4, <1>5, <1>6 DEF Byte

\* The three bytes of the j-th length stand at 3j - 2, 3j - 1 and 3j.
LEMMA LengthBytesAt ==
    ASSUME Fits, BufferInv
    PROVE  /\ LengthBytes \in Seq(Byte) /\ Len(LengthBytes) = 3 * Len(msgLengths)
           /\ \A j \in 1..Len(msgLengths) :
                (LengthBytes[3 * j - 2] * 256 + LengthBytes[3 * j - 1]) * 256 + LengthBytes[3 * j]
                  = Len(batch[j])
<1> DEFINE k == Len(msgLengths)
<1>1. /\ k \in Nat /\ \A j \in 1..k : msgLengths[j] = Len(batch[j]) /\ msgLengths[j] \in Nat
                                      /\ msgLengths[j] <= MaxLength
  <2>1. k \in Nat /\ k <= Len(batch) /\ Len(batch) \in Nat
    BY BatchMessages DEF BufferInv
  <2>2. \A j \in 1..k : msgLengths[j] = Len(batch[j])
    BY DEF BufferInv
  <2>3. \A j \in 1..k : j \in 1..Len(batch)
    BY <2>1
  <2>4. \A j \in 1..k : Len(batch[j]) \in 1..MaxLength
    BY <2>3, BatchMessages DEF BufferInv
  <2>5. \A x \in 1..MaxLength : x \in Nat /\ x <= MaxLength
    BY MaxLengthNat
  <2> QED
    BY <2>1, <2>2, <2>4, <2>5
<1>2. LengthBytes = [i \in 1..(3 * k) |-> LengthByte(msgLengths[(i - 1) \div 3 + 1], (i - 1) % 3)]
  BY DEF LengthBytes
<1> HIDE DEF k
<1>3. ASSUME NEW i \in 1..(3 * k)
      PROVE  (i - 1) \div 3 + 1 \in 1..k /\ (i - 1) % 3 \in 0..2
  BY <1>1
<1>4. ASSUME NEW i \in 1..(3 * k) PROVE LengthBytes[i] \in Byte
  <2>1. PICK a \in 1..k, b \in 0..2 : a = (i - 1) \div 3 + 1 /\ b = (i - 1) % 3
    BY <1>3
  <2>2. LengthByte(msgLengths[a], b) \in Byte
    BY <1>1, ThreeBytes
  <2> QED
    BY <1>2, <2>1, <2>2
<1>5. 3 * k \in Nat
  BY <1>1
<1>6. LengthBytes \in Seq(Byte) /\ Len(LengthBytes) = 3 * k
  <2>1. LengthBytes \in [1..(3 * k) -> Byte]
    BY <1>2, <1>4
  <2> DEFINE m == 3 * k
             lb == LengthBytes
  <2>2. m \in Nat /\ lb \in [1..m -> Byte]
    BY <1>5, <2>1
  <2> HIDE DEF m, lb
  <2>3. lb \in Seq(Byte) /\ Len(lb) = m
    BY <2>2
  <2> QED
    BY <2>3 DEF m, lb
<1>7. ASSUME NEW j \in 1..k
      PROVE  (LengthBytes[3 * j - 2] * 256 + LengthBytes[3 * j - 1]) * 256 + LengthBytes[3 * j]
                  = Len(batch[j])
  <2>1. /\ 3 * j - 2 \in 1..(3 * k) /\ ((3 * j - 2) - 1) \div 3 + 1 = j /\ ((3 * j - 2) - 1) % 3 = 0
        /\ 3 * j - 1 \in 1..(3 * k) /\ ((3 * j - 1) - 1) \div 3 + 1 = j /\ ((3 * j - 1) - 1) % 3 = 1
        /\ 3 * j \in 1..(3 * k) /\ (3 * j - 1) \div 3 + 1 = j /\ (3 * j - 1) % 3 = 2
    BY <1>1
  <2>2. /\ LengthBytes[3 * j - 2] = LengthByte(msgLengths[j], 0)
        /\ LengthBytes[3 * j - 1] = LengthByte(msgLengths[j], 1)
        /\ LengthBytes[3 * j] = LengthByte(msgLengths[j], 2)
    BY <1>2, <2>1
  <2> QED
    BY <1>1, <2>2, ThreeBytes
<1> QED
  BY <1>6, <1>7 DEF k

\* Where the parts of a bundle lie.
LEMMA Parts ==
    ASSUME NEW S, NEW a \in Seq(S), NEW b \in Seq(S), NEW c \in Seq(S), NEW d \in Seq(S)
    PROVE  /\ a \o b \o c \o d \in Seq(S)
           /\ Len(a \o b \o c \o d) = Len(a) + Len(b) + Len(c) + Len(d)
           /\ \A i \in 1..Len(c) : (a \o b \o c \o d)[Len(a) + Len(b) + i] = c[i]
           /\ \A i \in 1..Len(d) : (a \o b \o c \o d)[Len(a) + Len(b) + Len(c) + i] = d[i]
<1> DEFINE ab == a \o b
           abc == ab \o c
           n == Len(a) + Len(b)
           r == abc \o d
<1>1. ab \in Seq(S) /\ Len(ab) = n /\ n \in Nat /\ Len(c) \in Nat /\ Len(d) \in Nat
  BY ConcatProperties
<1> HIDE DEF ab, n
<1>2. /\ abc \in Seq(S) /\ Len(abc) = n + Len(c)
      /\ \A i \in 1..(n + Len(c)) : abc[i] = IF i <= n THEN ab[i] ELSE c[i - n]
  BY <1>1, ConcatProperties
<1> HIDE DEF abc
<1>3. /\ r \in Seq(S) /\ Len(r) = (n + Len(c)) + Len(d)
      /\ \A i \in 1..((n + Len(c)) + Len(d)) :
            r[i] = IF i <= n + Len(c) THEN abc[i] ELSE d[i - (n + Len(c))]
  <2>1. /\ r \in Seq(S) /\ Len(r) = Len(abc) + Len(d)
        /\ \A i \in 1..(Len(abc) + Len(d)) :
              r[i] = IF i <= Len(abc) THEN abc[i] ELSE d[i - Len(abc)]
    BY <1>2, ConcatProperties
  <2>2. Len(abc) = n + Len(c)
    BY <1>2
  <2> HIDE DEF r
  <2> QED
    BY <2>1, <2>2
<1> HIDE DEF r
<1>4. ASSUME NEW i \in 1..Len(c) PROVE r[n + i] = c[i]
  <2>1. /\ n + i \in 1..((n + Len(c)) + Len(d)) /\ n + i <= n + Len(c) /\ ~(n + i <= n)
        /\ n + i \in 1..(n + Len(c)) /\ (n + i) - n = i
    BY <1>1
  <2> QED
    BY <1>2, <1>3, <2>1
<1>5. ASSUME NEW i \in 1..Len(d) PROVE r[n + Len(c) + i] = d[i]
  <2>1. /\ n + Len(c) + i \in 1..((n + Len(c)) + Len(d)) /\ ~(n + Len(c) + i <= n + Len(c))
        /\ (n + Len(c) + i) - (n + Len(c)) = i
    BY <1>1
  <2> QED
    BY <1>3, <2>1
<1> QED
  BY <1>3, <1>4, <1>5 DEF r, abc, ab, n

\* A function that goes from offset to offset as deserialize_v1 does is the one it
\* computes.
LEMMA OffsetsUnique ==
    ASSUME NEW n \in Nat, NEW first, NEW size, DOMAIN size = 1..n, NEW g,
           g = [j \in 1..n |-> IF j = 1 THEN first ELSE g[j - 1] + size[j - 1]]
    PROVE  Offsets(first, size) = g
<1> DEFINE f == Offsets(first, size)
<1>1. f = [j \in 1..n |-> IF j = 1 THEN first ELSE f[j - 1] + size[j - 1]]
  BY DEF Offsets
<1> HIDE DEF f
<1> DEFINE Same == {m \in Nat : m \in 1..n => f[m] = g[m]}
<1>2. 0 \in Same
  OBVIOUS
<1>3. ASSUME NEW m \in Nat, m \in Same PROVE m + 1 \in Same
  <2>1. CASE m + 1 \in 1..n /\ m = 0
    <3>1. m + 1 = 1 /\ 1 \in 1..n
      BY <2>1
    <3>2. f[1] = first /\ g[1] = first
      BY <1>1, <3>1
    <3> QED
      BY <3>1, <3>2
  <2>2. CASE m + 1 \in 1..n /\ m # 0
    <3>1. m \in 1..n /\ m + 1 # 1 /\ (m + 1) - 1 = m
      BY <2>2
    <3>2. f[m + 1] = f[m] + size[m] /\ g[m + 1] = g[m] + size[m]
      BY <1>1, <2>2, <3>1
    <3>3. f[m] = g[m]
      BY <1>3, <3>1
    <3> QED
      BY <3>2, <3>3
  <2> QED
    BY <2>1, <2>2
<1>4. Nat \subseteq Same
  <2> HIDE DEF Same
  <2> QED
    BY <1>2, <1>3, SetInduction
<1>5. \A j \in 1..n : f[j] = g[j]
  BY <1>4
<1> QED
  BY <1>1, <1>5 DEF f

\* A slice that is a message parses as that message.
LEMMA MessageParses ==
    ASSUME NEW m \in Msgs
    PROVE  Parses(m) /\ Parsed(m) = m
<1>1. m \in Seq(Byte)
  BY BundleConstants
<1>2. IsPrefix(m, m)
  BY <1>1 DEF IsPrefix
<1>3. \A x \in Msgs : IsPrefix(x, m) => x = m
  BY BundleConstants
<1> QED
  BY <1>2, <1>3 DEF Parses, Parsed

\* A slice with the elements of a sequence is that sequence.
LEMMA SliceIs ==
    ASSUME NEW S, NEW r \in Seq(S), NEW m \in Seq(S), NEW o \in Nat,
           o + Len(m) <= Len(r), \A i \in 1..Len(m) : r[o + i] = m[i]
    PROVE  SubSeq(r, o + 1, o + Len(m)) = m
<1>1. Len(m) \in Nat /\ Len(r) \in Nat
  OBVIOUS
<1> DEFINE n == Len(m)
           t == SubSeq(r, o + 1, o + n)
<1>2. t = [i \in 1..n |-> r[o + i]]
  <2>1. (o + n) - (o + 1) + 1 = n
    BY <1>1
  <2>2. t = [i \in 1..((o + n) - (o + 1) + 1) |-> r[i + (o + 1) - 1]]
    BY <1>1
  <2>3. \A i \in 1..n : i + (o + 1) - 1 = o + i
    BY <1>1
  <2> HIDE DEF t, n
  <2> QED
    BY <2>1, <2>2, <2>3
<1>3. m = [i \in 1..n |-> m[i]]
  OBVIOUS
<1> HIDE DEF t, n
<1>4. [i \in 1..n |-> r[o + i]] = [i \in 1..n |-> m[i]]
  BY DEF n
<1>5. t = m
  BY <1>2, <1>3, <1>4
<1> QED
  BY <1>5 DEF t, n

\* A number below 256^4 has at most four bytes.
LEMMA FourByteNumbers ==
    ASSUME NEW n \in Nat, n < 256 * 256 * 256 * 256 PROVE Shr24(n) < 256
<1>1. Shr8(n) \in Nat /\ Shr8(n) * 256 + Low8(n) = n /\ Low8(n) \in 0..255
  BY ShiftBack
<1>2. Shr16(n) \in Nat /\ Shr16(n) * 256 + Low8(Shr8(n)) = Shr8(n) /\ Low8(Shr8(n)) \in 0..255
  BY <1>1, ShiftBack DEF Shr16
<1>3. Shr24(n) \in Nat /\ Shr24(n) * 256 + Low8(Shr16(n)) = Shr16(n) /\ Low8(Shr16(n)) \in 0..255
  BY <1>2, ShiftBack DEF Shr24
<1> QED
  BY <1>1, <1>2, <1>3

\* The two ids are bytes.
LEMMA HeadBytes ==
    ASSUME BufferInv PROVE vHead.sendId \in Seq(Byte) /\ vHead.destId \in Seq(Byte)
BY BundleConstants DEF BufferInv

\* The bytes of a bundle, and its header.
LEMMA BundleBytes ==
    ASSUME Fits, BufferInv, Len(batch) <= 255
    PROVE  LET r == serialize_end_v1.data
               ids == Len(vHead.sendId) + Len(vHead.destId)
               k == Len(msgLengths)
           IN /\ r \in Seq(Byte) /\ Len(r) = ids + 3 * k + Len(messages)
              /\ \A i \in 1..(3 * k) : r[ids + i] = LengthBytes[i]
              /\ \A i \in 1..Len(messages) : r[ids + 3 * k + i] = messages[i]
              /\ read_bundle_header_v1(serialize_end_v1.header) =
                   [sendIdLen |-> Len(vHead.sendId), destIdLen |-> Len(vHead.destId),
                    messageCount |-> k, remLen |-> Len(r)]
<1> DEFINE r == vHead.sendId \o vHead.destId \o LengthBytes \o messages
           ids == Len(vHead.sendId) + Len(vHead.destId)
           k == Len(msgLengths)
           len == Len(messages)
           h == [sendIdLen |-> Len(vHead.sendId), destIdLen |-> Len(vHead.destId),
                 messageCount |-> k, remLen |-> Len(r)]
<1>1. /\ vHead.sendId \in Seq(Byte) /\ vHead.destId \in Seq(Byte) /\ messages \in Seq(Byte)
      /\ LengthBytes \in Seq(Byte) /\ Len(LengthBytes) = 3 * k
  BY HeadBytes, LengthBytesAt DEF BufferInv
<1>2. /\ r \in Seq(Byte) /\ Len(r) = ids + Len(LengthBytes) + len
      /\ \A i \in 1..Len(LengthBytes) : r[ids + i] = LengthBytes[i]
      /\ \A i \in 1..len : r[ids + Len(LengthBytes) + i] = messages[i]
  <2> DEFINE sid == vHead.sendId
             did == vHead.destId
             lb == LengthBytes
  <2>1. /\ sid \in Seq(Byte) /\ did \in Seq(Byte) /\ messages \in Seq(Byte)
        /\ lb \in Seq(Byte)
    BY <1>1
  <2> HIDE DEF sid, did, lb
  <2>2. sid \o did \o lb \o messages \in Seq(Byte)
    BY <2>1, Parts
  <2>3. Len(sid \o did \o lb \o messages) = Len(sid) + Len(did) + Len(lb) + len
    BY <2>1, Parts
  <2>4. \A i \in 1..Len(lb) : (sid \o did \o lb \o messages)[Len(sid) + Len(did) + i] = lb[i]
    BY <2>1, Parts
  <2>5. \A i \in 1..len :
           (sid \o did \o lb \o messages)[Len(sid) + Len(did) + Len(lb) + i] = messages[i]
    BY <2>1, Parts
  <2> QED
    BY <2>2, <2>3, <2>4, <2>5 DEF sid, did, lb
<1>3. serialize_end_v1.data = r /\ serialize_end_v1.header = make_bundle_header_v1(h)
  BY DEF serialize_end_v1
<1>4. /\ Len(vHead.sendId) \in 0..255 /\ Len(vHead.destId) \in 0..255
      /\ k \in 0..255 /\ len \in Nat /\ len <= k * MaxLength
  <2>1. Len(vHead.sendId) \in Nat /\ Len(vHead.destId) \in Nat /\ len \in Nat /\ k \in Nat
    BY <1>1 DEF BufferInv
  <2>2. Len(vHead.sendId) <= 255 /\ Len(vHead.destId) <= 255
    BY DEF Fits, BufferInv
  <2>3. k <= Len(batch) /\ Len(batch) \in Nat /\ Len(batch) <= 255
    BY BatchMessages DEF BufferInv
  <2>4. len <= k * MaxLength
    BY DEF BufferInv
  <2>5. \A x \in Nat : x <= 255 => x \in 0..255
    OBVIOUS
  <2>6. k <= 255
    <3> HIDE DEF k
    <3> QED
      BY <2>1, <2>3
  <2> HIDE DEF k, len
  <2> QED
    BY <2>1, <2>2, <2>4, <2>5, <2>6
<1> HIDE DEF r
<1>5. Len(r) \in Nat /\ Shr24(Len(r)) < 256
  <2> DEFINE a == Len(vHead.sendId)
             b == Len(vHead.destId)
             n == Len(r)
  <2>1. n = a + b + 3 * k + len
    BY <1>1, <1>2
  <2>2. a \in 0..255 /\ b \in 0..255 /\ k \in 0..255 /\ len \in Nat /\ len <= k * (256 * 256 * 256 - 1)
    BY <1>4 DEF MaxLength
  <2> HIDE DEF a, b, n, k, len
  <2>3. n \in Nat /\ n < 256 * 256 * 256 * 256
    BY <2>1, <2>2
  <2>4. Shr24(n) < 256
    BY <2>3, FourByteNumbers
  <2> QED
    BY <2>3, <2>4 DEF n
<1>6. h \in Representable
  <2> HIDE DEF k
  <2>1. h.remLen = Len(r)
    OBVIOUS
  <2> QED
    BY <1>4, <1>5, <2>1 DEF Representable
<1>7. read_bundle_header_v1(make_bundle_header_v1(h)) = h
  <2> HIDE DEF h
  <2> QED
    BY <1>6, HeaderRoundTrip
<1> QED
  BY <1>1, <1>2, <1>3, <1>7

\* A bundle of all the messages is read back as these messages, or the reader throws.
LEMMA ReadsBack ==
    ASSUME Fits, BufferInv, Len(msgLengths) = Len(batch), Len(batch) <= 255
    PROVE  /\ read_bundle_header_v1(serialize_end_v1.header).remLen = Len(serialize_end_v1.data)
           /\ serialize_end_v1.data \in Seq(Byte)
           /\ deserialize_v1(serialize_end_v1.header, serialize_end_v1.data) =
                IF \A j \in DOMAIN batch : batch[j] \in Typed THEN Read(batch) ELSE Threw
<1> DEFINE r == serialize_end_v1.data
           ids == Len(vHead.sendId) + Len(vHead.destId)
           k == Len(msgLengths)
           len == Len(messages)
           first == ids + 3 * k
           h == read_bundle_header_v1(serialize_end_v1.header)
<1>1. /\ r \in Seq(Byte) /\ Len(r) = first + len
      /\ \A i \in 1..(3 * k) : r[ids + i] = LengthBytes[i]
      /\ \A i \in 1..len : r[first + i] = messages[i]
      /\ h = [sendIdLen |-> Len(vHead.sendId), destIdLen |-> Len(vHead.destId),
              messageCount |-> k, remLen |-> Len(r)]
  BY BundleBytes
<1>2. /\ ids \in Nat /\ k \in Nat /\ len \in Nat /\ first \in Nat
      /\ k = Len(batch) /\ Len(batch) \in Nat
  <2>1. vHead.sendId \in Seq(Byte) /\ vHead.destId \in Seq(Byte)
    BY HeadBytes
  <2>2. Len(batch) \in Nat
    BY BatchMessages DEF BufferInv
  <2>3. k \in Nat /\ len \in Nat
    BY DEF BufferInv
  <2>4. ids \in Nat
    <3>1. \A x \in Seq(Byte) : Len(x) \in Nat
      OBVIOUS
    <3>2. Len(vHead.sendId) \in Nat /\ Len(vHead.destId) \in Nat
      BY <2>1, <3>1
    <3>3. \A x, y \in Nat : x + y \in Nat
      OBVIOUS
    <3>4. Len(vHead.sendId) + Len(vHead.destId) \in Nat
      BY <3>2, <3>3, Zenon
    <3> QED
      BY <3>4, Zenon
  <2>5. first \in Nat
    <3> HIDE DEF ids, k
    <3> QED
      BY <2>3, <2>4
  <2> QED
    BY <2>2, <2>3, <2>4, <2>5
<1>3. /\ h.sendIdLen + h.destIdLen = ids /\ h.messageCount = k /\ h.remLen = Len(r)
      /\ FirstOffset(h) = first
  <2> HIDE DEF h, r
  <2> QED
    BY <1>1 DEF FirstOffset
<1>4. ASSUME NEW j \in 1..k
      PROVE  /\ batch[j] \in Msgs /\ batch[j] \in Seq(Byte)
             /\ Len(batch[j]) \in Nat /\ Len(batch[j]) >= 1 /\ batch[j][1] = Brace
  <2>1. /\ batch[j] \in Msgs /\ batch[j] \in Seq(Byte)
        /\ Len(batch[j]) \in 1..MaxLength /\ batch[j][1] = Brace
    BY <1>2, BatchMessages DEF BufferInv
  <2>2. \A x \in 1..MaxLength : x \in Nat /\ x >= 1
    BY MaxLengthNat
  <2> QED
    BY <2>1, <2>2
<1> DEFINE size == MessageLengths(h, r)
<1>5. size = [j \in 1..k |-> Len(batch[j])]
  <2>1. size = [j \in 1..k |-> (r[ids + 3 * j - 2] * 256 + r[ids + 3 * j - 1]) * 256 + r[ids + 3 * j]]
    <3> HIDE DEF h, r
    <3> QED
      BY <1>3 DEF MessageLengths
  <2>2. ASSUME NEW j \in 1..k
        PROVE  (r[ids + 3 * j - 2] * 256 + r[ids + 3 * j - 1]) * 256 + r[ids + 3 * j] = Len(batch[j])
    <3>1. /\ 3 * j - 2 \in 1..(3 * k) /\ 3 * j - 1 \in 1..(3 * k) /\ 3 * j \in 1..(3 * k)
          /\ ids + 3 * j - 2 = ids + (3 * j - 2) /\ ids + 3 * j - 1 = ids + (3 * j - 1)
      <4> HIDE DEF ids, k
      <4> QED
        BY <1>2
    <3>2. /\ r[ids + 3 * j - 2] = LengthBytes[3 * j - 2] /\ r[ids + 3 * j - 1] = LengthBytes[3 * j - 1]
          /\ r[ids + 3 * j] = LengthBytes[3 * j]
      <4> HIDE DEF ids, k, r
      <4> QED
        BY <1>1, <3>1
    <3> QED
      BY <3>2, LengthBytesAt
  <2> HIDE DEF size, r, ids, k
  <2> QED
    BY <2>1, <2>2
<1>6. PICK start : Laid(start)
  BY DEF BufferInv
<1>7. /\ start \in [1..(k + 1) -> Nat] /\ start[1] = 0
      /\ \A j \in 1..k : /\ start[j + 1] = start[j] + Len(batch[j])
                         /\ start[j + 1] <= len
                         /\ \A i \in 1..Len(batch[j]) : messages[start[j] + i] = batch[j][i]
  BY <1>6 DEF Laid
<1> HIDE DEF h, r, ids, first, size, k, len
<1> DEFINE g == [j \in 1..k |-> first + start[j]]
<1>8. Offsets(first, size) = g
  <2>1. ASSUME NEW j \in 1..k
        PROVE  first + start[j] = IF j = 1 THEN first ELSE g[j - 1] + size[j - 1]
    <3>1. CASE j = 1
      BY <1>2, <1>7, <3>1
    <3>2. CASE j # 1
      <4>1. j - 1 \in 1..k /\ (j - 1) + 1 = j /\ j - 1 \in 1..(k + 1)
        BY <1>2, <3>2
      <4>2. /\ start[j] = start[j - 1] + Len(batch[j - 1]) /\ start[j - 1] \in Nat
            /\ Len(batch[j - 1]) \in Nat
        BY <1>4, <1>7, <4>1
      <4>3. g[j - 1] = first + start[j - 1] /\ size[j - 1] = Len(batch[j - 1])
        BY <1>5, <4>1
      <4> QED
        BY <1>2, <3>2, <4>2, <4>3
    <3> QED
      BY <3>1, <3>2
  <2>2. g = [j \in 1..k |-> IF j = 1 THEN first ELSE g[j - 1] + size[j - 1]]
    BY <2>1
  <2>3. DOMAIN size = 1..k
    BY <1>5
  <2> HIDE DEF g
  <2> QED
    BY <1>2, <2>2, <2>3, OffsetsUnique
<1>9. ASSUME NEW j \in 1..k
      PROVE  /\ addMessage(r, g[j], size[j]) <=> batch[j] \in Typed
             /\ Parsed(SubSeq(r, g[j] + 1, g[j] + size[j])) = batch[j]
  <2> DEFINE m == batch[j]
             o == g[j]
             d == Len(m)
             x == start[j]
  <2>1. m \in Msgs /\ m \in Seq(Byte) /\ d \in Nat /\ d >= 1 /\ m[1] = Brace
    BY <1>4
  <2>2. size[j] = d
    BY <1>5
  <2>3. /\ o = first + x /\ x \in Nat /\ x + d <= len
        /\ \A i \in 1..d : messages[x + i] = m[i]
    <3>1. j \in 1..(k + 1)
      BY <1>2
    <3> QED
      BY <1>7, <3>1
  <2> HIDE DEF g, m, o, d, x
  <2>4. o \in Nat /\ o + d <= Len(r) /\ o < Len(r)
    BY <1>1, <1>2, <2>1, <2>3
  <2>5. ASSUME NEW i \in 1..d PROVE r[o + i] = m[i]
    <3>1. x + i \in 1..len /\ o + i = first + (x + i)
      BY <1>2, <2>1, <2>3
    <3> QED
      BY <1>1, <2>3, <3>1
  <2>6. r[o + 1] = Brace
    BY <2>1, <2>5
  <2>7. SubSeq(r, o + 1, o + d) = m
    BY <1>1, <2>1, <2>4, <2>5, SliceIs DEF d
  <2>8. Parses(SubSeq(r, o + 1, o + d)) /\ Parsed(SubSeq(r, o + 1, o + d)) = m
    BY <2>1, <2>7, MessageParses
  <2> QED
    BY <2>2, <2>4, <2>6, <2>8 DEF addMessage, o, m
<1>10. SubSeq(r, 1, Len(r)) = r
  BY <1>1
<1>11. DOMAIN size = 1..k /\ DOMAIN batch = 1..k /\ batch = [j \in 1..k |-> batch[j]]
  BY <1>2, <1>5, BatchMessages DEF BufferInv
<1>12. deserialize_v1(serialize_end_v1.header, r) =
         IF \A j \in DOMAIN size : addMessage(r, g[j], size[j])
         THEN Read([j \in DOMAIN size |-> Parsed(SubSeq(r, g[j] + 1, g[j] + size[j]))])
         ELSE Threw
  <2>1. /\ h = read_bundle_header_v1(serialize_end_v1.header)
        /\ SubSeq(r, 1, h.remLen) = r
        /\ MessageLengths(h, r) = size /\ Offsets(FirstOffset(h), size) = g
    BY <1>3, <1>8, <1>10 DEF h, size
  <2> HIDE DEF g
  <2> QED
    BY <2>1 DEF deserialize_v1
<1>13. [j \in DOMAIN size |-> Parsed(SubSeq(r, g[j] + 1, g[j] + size[j]))] = batch
  <2> HIDE DEF g
  <2> QED
    BY <1>9, <1>11
<1>14. deserialize_v1(serialize_end_v1.header, r) =
         IF \A j \in DOMAIN batch : batch[j] \in Typed THEN Read(batch) ELSE Threw
  <2> HIDE DEF g
  <2> QED
    BY <1>9, <1>11, <1>12, <1>13
<1> QED
  BY <1>1, <1>3, <1>14 DEF r, h

\* Of more than 255 messages the count byte loses some.
LEMMA TooMany ==
    ASSUME Fits, BufferInv, Len(msgLengths) = Len(batch), ~(Len(batch) <= 255)
    PROVE  deserialize_v1(serialize_end_v1.header, serialize_end_v1.data) # Read(batch)
<1> DEFINE h == read_bundle_header_v1(serialize_end_v1.header)
           data == SubSeq(serialize_end_v1.data, 1, h.remLen)
           size == MessageLengths(h, data)
           offset == Offsets(FirstOffset(h), size)
           found == [j \in DOMAIN size |-> Parsed(SubSeq(data, offset[j] + 1, offset[j] + size[j]))]
<1>1. Len(batch) \in Nat /\ DOMAIN batch = 1..Len(batch)
  BY BatchMessages DEF BufferInv
<1>2. h.messageCount = Low8(Len(msgLengths))
  BY DEF serialize_end_v1, make_bundle_header_v1, read_bundle_header_v1
<1>3. h.messageCount \in 0..255
  <2>1. Low8(Len(batch)) \in 0..255
    BY <1>1, ShiftBack
  <2> HIDE DEF h
  <2> QED
    BY <1>2, <2>1
<1>4. DOMAIN found = 1..h.messageCount
  BY DEF MessageLengths
<1>5. Len(batch) \in DOMAIN batch /\ ~(Len(batch) \in DOMAIN found)
  <2>1. PICK n \in 0..255 : DOMAIN found = 1..n
    BY <1>3, <1>4
  <2> HIDE DEF found
  <2>2. ~(Len(batch) \in 1..n) /\ Len(batch) \in 1..Len(batch)
    BY <1>1
  <2> QED
    BY <1>1, <2>1, <2>2
<1>6. \/ deserialize_v1(serialize_end_v1.header, serialize_end_v1.data) = Read(found)
      \/ deserialize_v1(serialize_end_v1.header, serialize_end_v1.data) = Threw
  BY DEF deserialize_v1
<1> HIDE DEF found
<1>7. Read(found) # Read(batch)
  BY <1>5 DEF Read
<1>8. Threw # Read(batch)
  BY DEF Threw, Read
<1> QED
  BY <1>6, <1>7, <1>8

\* A step that leaves the messages alone keeps their layout.
LEMMA BufferUnchanged ==
    ASSUME BufferInv, UNCHANGED <<batch, vHead, msgLengths, messages>> PROVE BufferInv'
<1>1. PICK start : Laid(start)
  BY DEF BufferInv
<1>2. Laid(start)'
  BY <1>1 DEF Laid
<1>3. \E start1 : Laid(start1)'
  BY <1>2
<1> QED
  BY <1>3 DEF BufferInv

\* Every step keeps the invariants.
LEMMA NextBundle == Fits /\ BufferInv /\ WireInv /\ [Next]_vars => BufferInv' /\ WireInv'
<1> SUFFICES ASSUME Fits, BufferInv, WireInv, [Next]_vars PROVE BufferInv' /\ WireInv'
  OBVIOUS
<1>1. CASE addGeneric
  <2>1. Len(msgLengths) # Len(batch)
    <3>1. Len(msgLengths) \in Nat /\ Len(batch) \in Nat
      BY BatchMessages DEF BufferInv
    <3>2. Len(msgLengths) < Len(batch)
      BY <1>1 DEF addGeneric
    <3> QED
      BY <3>1, <3>2
  <2>2. wire = Nothing /\ got = Unread /\ got' = got /\ wire' = wire
    BY <1>1, <2>1 DEF addGeneric, WireInv
  <2> QED
    BY <1>1, <2>2, AddKeepsBuffer DEF WireInv
<1>2. CASE write
  <2>1. /\ Len(msgLengths) = Len(batch) /\ wire = Nothing /\ wire' = serialize_end_v1
        /\ UNCHANGED <<batch, vHead, msgLengths, messages, got>>
    BY <1>2 DEF write
  <2>2. serialize_end_v1' = serialize_end_v1
    BY <2>1 DEF serialize_end_v1, LengthBytes
  <2>3. got = Unread
    BY <2>1 DEF WireInv
  <2> QED
    BY <2>1, <2>2, <2>3, BufferUnchanged DEF WireInv
<1>3. CASE read
  <2>1. /\ wire # Nothing /\ UNCHANGED <<batch, vHead, msgLengths, messages, wire>>
        /\ got' = IF read_bundle_header_v1(wire.header).remLen = 0
                  THEN Refused
                  ELSE deserialize_v1(wire.header, wire.data)
    BY <1>3 DEF read
  <2>2. serialize_end_v1' = serialize_end_v1
    BY <2>1 DEF serialize_end_v1, LengthBytes
  <2> QED
    BY <2>1, <2>2, BufferUnchanged DEF WireInv
<1>4. CASE UNCHANGED vars
  <2>1. UNCHANGED <<batch, vHead, msgLengths, messages, wire, got>>
    BY <1>4 DEF vars
  <2>2. serialize_end_v1' = serialize_end_v1
    BY <2>1 DEF serialize_end_v1, LengthBytes
  <2> QED
    BY <2>1, <2>2, BufferUnchanged DEF WireInv
<1> QED
  BY <1>1, <1>2, <1>3, <1>4 DEF Next

\* An OngoingSerialization begins empty.
LEMMA InitBundle == Init => BufferInv /\ WireInv
<1> SUFFICES ASSUME Init PROVE BufferInv /\ WireInv
  OBVIOUS
<1>1. /\ msgLengths = << >> /\ messages = << >> /\ Len(msgLengths) = 0 /\ Len(messages) = 0
      /\ msgLengths \in Seq(Nat) /\ messages \in Seq(Byte)
  BY DEF Init
<1>2. batch \in Batches /\ vHead \in Heads /\ wire = Nothing /\ got = Unread /\ Len(batch) \in Nat
  BY BundleConstants DEF Init
<1>3. Laid([j \in 1..1 |-> 0])
  BY <1>1 DEF Laid
<1>4. \E start : Laid(start)
  BY <1>3
<1>5. Len(messages) <= Len(msgLengths) * MaxLength
  BY <1>1, MaxLengthNat
<1> QED
  BY <1>1, <1>2, <1>4, <1>5 DEF BufferInv, WireInv

\* What the invariants say of a bundle that has been read.
LEMMA RoundTripOfInv == Fits /\ BufferInv /\ WireInv => RoundTrip
<1> SUFFICES ASSUME Fits, BufferInv, WireInv, wire # Nothing
             PROVE  RoundTrip
  BY DEF WireInv, RoundTrip
<1> DEFINE h == read_bundle_header_v1(wire.header)
           AllTyped == \A j \in DOMAIN batch : batch[j] \in Typed
<1>1. /\ Len(msgLengths) = Len(batch) /\ wire = serialize_end_v1
      /\ got # Unread => got = IF h.remLen = 0 THEN Refused ELSE deserialize_v1(wire.header, wire.data)
  BY DEF WireInv
<1>2. Refused # Read(batch) /\ Threw # Read(batch)
  BY DEF Refused, Threw, Read
<1>3. CASE Len(batch) <= 255
  <2>1. /\ h.remLen = Len(wire.data) /\ wire.data \in Seq(Byte)
        /\ deserialize_v1(wire.header, wire.data) = IF AllTyped THEN Read(batch) ELSE Threw
    BY <1>1, <1>3, ReadsBack
  <2>2. wire.data = << >> <=> h.remLen = 0
    BY <2>1, EmptySeq
  <2>3. Readable <=> h.remLen # 0 /\ AllTyped
    BY <1>3, <2>2 DEF Readable
  <2> HIDE DEF h, AllTyped
  <2>4. got # Unread => /\ got = Read(batch) <=> Readable
                        /\ ~Readable => got \in {Refused, Threw}
    BY <1>1, <1>2, <2>1, <2>3
  <2> QED
    BY <2>1, <2>4 DEF RoundTrip, h
<1>4. CASE ~(Len(batch) <= 255)
  <2>1. deserialize_v1(wire.header, wire.data) # Read(batch)
    BY <1>1, <1>4, TooMany
  <2> QED
    BY <1>1, <1>2, <1>4, <2>1 DEF RoundTrip, Readable
<1> QED
  BY <1>3, <1>4

\* Messages of less than 2^24 bytes and ids of at most 255: a bundle of at most 255
\* messages is framed exactly, and read back as these messages, in order, if and
\* only if it is not empty and each of them has a "msg_type"; otherwise it is
\* refused or the reader throws.  A bundle of more messages, which nothing in the
\* code prevents, is never read back as written.
THEOREM BundlesRoundTrip == Fits => (Spec => []RoundTrip)
<1> SUFFICES ASSUME Fits PROVE Spec => []RoundTrip
  OBVIOUS
<1>1. BufferInv /\ WireInv => RoundTrip
  BY RoundTripOfInv
<1>2. BufferInv /\ WireInv /\ [Next]_vars => BufferInv' /\ WireInv'
  BY NextBundle
<1> QED
  BY <1>1, <1>2, InitBundle, PTL DEF Spec
=============================================================================
