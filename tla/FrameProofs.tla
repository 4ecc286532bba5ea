----------------------------- MODULE FrameProofs -----------------------------
(***************************************************************************)
(* The conversions of Frame lose nothing, for frames of any length.        *)
(***************************************************************************)
EXTENDS Frame, TLAPS

LEMMA Halves ==
  ASSUME NEW u \in Int, 0 <= u, u <= 65535
  PROVE  /\ (u % 256) \in 0..255 /\ (u \div 256) \in 0..255
         /\ (u % 256) + (256 * (u \div 256)) = u
<1> DEFINE q == u \div 256
           r == u % 256
<1>1. u = (256 * q) + r /\ r \in 0..255
  OBVIOUS
<1>2. q \in Int
  OBVIOUS
<1>3. q \in 0..255
  <2> HIDE DEF q, r
  <2> QED
    BY <1>1, <1>2
<1> QED
  BY <1>1, <1>3

LEMMA SamplesAre ==
  \A s \in Int : s \in Samples <=> ((0 - 32768) <= s /\ s <= 32767)
  BY DEF Samples

LEMMA SignRoundTrip ==
  ASSUME NEW s \in Samples
  PROVE  /\ Unsigned(s) \in Int /\ 0 <= Unsigned(s) /\ Unsigned(s) <= 65535
         /\ Signed(Unsigned(s)) = s
<1>1. s \in Int
  BY DEF Samples
<1>2. (0 - 32768) <= s /\ s <= 32767
  BY <1>1, SamplesAre
<1> QED
  BY <1>1, <1>2 DEF Unsigned, Signed

LEMMA UnsignRoundTrip ==
  ASSUME NEW u \in Int, 0 <= u, u <= 65535
  PROVE  Signed(u) \in Samples /\ Unsigned(Signed(u)) = u
<1>1. /\ Signed(u) \in Int /\ (0 - 32768) <= Signed(u) /\ Signed(u) <= 32767
      /\ Unsigned(Signed(u)) = u
  BY DEF Unsigned, Signed
<1> QED
  BY <1>1, SamplesAre

LEMMA WordRoundTrip ==
  ASSUME NEW s \in Samples
  PROVE  /\ (Unsigned(s) % 256) \in Bytes8
         /\ (Unsigned(s) \div 256) \in Bytes8
         /\ Signed((Unsigned(s) % 256) + (256 * (Unsigned(s) \div 256))) = s
  BY SignRoundTrip, Halves DEF Bytes8

LEMMA ByteRoundTrip ==
  ASSUME NEW low \in Bytes8, NEW high \in Bytes8
  PROVE  /\ Signed(low + (256 * high)) \in Samples
         /\ (Unsigned(Signed(low + (256 * high))) % 256) = low
         /\ (Unsigned(Signed(low + (256 * high))) \div 256) = high
<1> DEFINE u == low + (256 * high)
<1>1. /\ u \in Int /\ 0 <= u /\ u <= 65535
      /\ low \in 0..255 /\ high \in 0..255
  BY DEF Bytes8
<1>2. Signed(u) \in Samples /\ Unsigned(Signed(u)) = u
  <2> HIDE DEF u
  <2> QED
    BY <1>1, UnsignRoundTrip
<1>3. (u % 256) = low /\ (u \div 256) = high
  BY <1>1
<1> QED
  BY <1>2, <1>3

(* What a plugin sends is what the other side decodes: every sample comes  *)
(* back with its sign, at its place, and the bytes are never odd in number. *)
THEOREM FramesSurvive ==
  ASSUME NEW data \in Seq(Samples)
  PROVE  /\ Bytes(data) \in Seq(Bytes8)
         /\ FromBytesAccepts(Bytes(data))
         /\ FromBytes(Bytes(data)) = data
<1> DEFINE b == Bytes(data)
<1>1. Len(data) \in Nat
  OBVIOUS
<1>2. ASSUME NEW i \in 1..(2 * Len(data))
      PROVE  b[i] \in Bytes8
  <2>1. CASE (i % 2) = 1
    <3>1. (i + 1) \div 2 \in 1..Len(data)
      BY <1>1, <2>1
    <3>2. data[(i + 1) \div 2] \in Samples
      BY <3>1
    <3> QED
      BY <2>1, <3>2, WordRoundTrip DEF Bytes
  <2>2. CASE (i % 2) # 1
    <3>1. i \div 2 \in 1..Len(data)
      BY <1>1, <2>2
    <3>2. data[i \div 2] \in Samples
      BY <3>1
    <3> QED
      BY <2>2, <3>2, WordRoundTrip DEF Bytes
  <2> QED
    BY <2>1, <2>2
<1>3. Len(b) = 2 * Len(data)
  BY <1>1 DEF Bytes
<1>4. b \in Seq(Bytes8)
  BY <1>1, <1>2, <1>3 DEF Bytes
<1>5. FromBytesAccepts(b)
  BY <1>1, <1>3 DEF FromBytesAccepts
<1>6. FromBytes(b) = data
  <2>1. Len(b) \div 2 = Len(data)
    BY <1>1, <1>3
  <2>2. ASSUME NEW i \in 1..Len(data)
        PROVE  FromBytes(b)[i] = data[i]
    <3>1. /\ 2 * i \in 1..(2 * Len(data)) /\ 2 * i - 1 \in 1..(2 * Len(data))
          /\ ((2 * i) % 2) = 0 /\ (2 * i) \div 2 = i
          /\ ((2 * i - 1) % 2) = 1 /\ ((2 * i - 1) + 1) \div 2 = i
      BY <1>1
    <3>2. /\ b[2 * i - 1] = (Unsigned(data[i]) % 256)
          /\ b[2 * i] = (Unsigned(data[i]) \div 256)
      BY <3>1 DEF Bytes
    <3>3. data[i] \in Samples
      OBVIOUS
    <3> QED
      BY <2>1, <3>2, <3>3, WordRoundTrip DEF FromBytes
  <2>3. FromBytes(b) = [i \in 1..Len(data) |-> FromBytes(b)[i]]
    BY <2>1 DEF FromBytes
  <2>4. data = [i \in 1..Len(data) |-> data[i]]
    OBVIOUS
  <2> HIDE DEF b
  <2> QED
    BY <2>2, <2>3, <2>4
<1> QED
  BY <1>4, <1>5, <1>6

(* And what it receives is kept: whole samples are the only bytes that     *)
(* FromBytes takes, and it loses none of them.                             *)
THEOREM BytesSurvive ==
  ASSUME NEW bytes \in Seq(Bytes8), FromBytesAccepts(bytes)
  PROVE  /\ FromBytes(bytes) \in Seq(Samples)
         /\ Bytes(FromBytes(bytes)) = bytes
<1> DEFINE d == FromBytes(bytes)
<1>1. Len(bytes) \in Nat /\ (Len(bytes) % 2) = 0
  BY DEF FromBytesAccepts
<1>2. Len(d) = Len(bytes) \div 2 /\ 2 * Len(d) = Len(bytes)
  BY <1>1 DEF FromBytes
<1>3. ASSUME NEW i \in 1..Len(d)
      PROVE  /\ d[i] = Signed(bytes[2 * i - 1] + (256 * bytes[2 * i]))
             /\ bytes[2 * i - 1] \in Bytes8 /\ bytes[2 * i] \in Bytes8
             /\ d[i] \in Samples
  <2>1. 2 * i \in 1..Len(bytes) /\ 2 * i - 1 \in 1..Len(bytes)
    BY <1>1, <1>2
  <2>2. d[i] = Signed(bytes[2 * i - 1] + (256 * bytes[2 * i]))
    BY <1>2 DEF FromBytes
  <2> QED
    BY <2>1, <2>2, ByteRoundTrip
<1>4. d \in Seq(Samples)
  <2>1. d = [i \in 1..Len(d) |-> d[i]] /\ Len(d) \in Nat
    BY <1>1, <1>2 DEF FromBytes
  <2>2. \A i \in 1..Len(d) : d[i] \in Samples
    BY <1>3
  <2> HIDE DEF d
  <2> QED
    BY <2>1, <2>2
<1>5. ASSUME NEW i \in 1..Len(bytes)
      PROVE  Bytes(d)[i] = bytes[i]
  <2>1. Bytes(d)[i] = IF (i % 2) = 1 THEN (Unsigned(d[(i + 1) \div 2]) % 256)
                                   ELSE (Unsigned(d[i \div 2]) \div 256)
    BY <1>2 DEF Bytes
  <2>2. CASE (i % 2) = 1
    <3> DEFINE k == (i + 1) \div 2
    <3>1. k \in 1..Len(d) /\ 2 * k - 1 = i
      BY <1>1, <1>2, <2>2
    <3>2. /\ d[k] = Signed(bytes[2 * k - 1] + (256 * bytes[2 * k]))
          /\ bytes[2 * k - 1] \in Bytes8 /\ bytes[2 * k] \in Bytes8
      BY <3>1, <1>3
    <3>3. (Unsigned(d[k]) % 256) = bytes[i]
      BY <3>1, <3>2, ByteRoundTrip
    <3> QED
      BY <2>1, <2>2, <3>3
  <2>3. CASE (i % 2) # 1
    <3> DEFINE k == i \div 2
    <3>1. k \in 1..Len(d) /\ 2 * k = i
      BY <1>1, <1>2, <2>3
    <3>2. /\ d[k] = Signed(bytes[2 * k - 1] + (256 * bytes[2 * k]))
          /\ bytes[2 * k - 1] \in Bytes8 /\ bytes[2 * k] \in Bytes8
      BY <3>1, <1>3
    <3>3. (Unsigned(d[k]) \div 256) = bytes[i]
      BY <3>1, <3>2, ByteRoundTrip
    <3> QED
      BY <2>1, <2>3, <3>3
  <2> QED
    BY <2>2, <2>3
<1>6. Bytes(d) = [i \in 1..Len(bytes) |-> Bytes(d)[i]]
  BY <1>2 DEF Bytes
<1>7. bytes = [i \in 1..Len(bytes) |-> bytes[i]]
  OBVIOUS
<1>8. Bytes(d) = bytes
  <2> HIDE DEF d
  <2> QED
    BY <1>5, <1>6, <1>7
<1> QED
  BY <1>4, <1>8
=============================================================================
