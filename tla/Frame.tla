-------------------------------- MODULE Frame --------------------------------
(***************************************************************************)
(* PCM16 frames of audio/frame.go: samples, and the bytes the plugins send *)
(* and receive, in little-endian two's complement.                         *)
(***************************************************************************)
EXTENDS Integers, Sequences

Samples == (0 - 32768)..32767
Bytes8 == 0..255

(* uint16(s) and int16(u)                                                  *)
Unsigned(s) == IF s < 0 THEN s + 65536 ELSE s
Signed(u) == IF u < 32768 THEN u ELSE u - 65536

(* Bytes: the low byte of each sample comes first.                         *)
Bytes(data) ==
  [i \in 1..(2 * Len(data)) |->
     IF (i % 2) = 1 THEN (Unsigned(data[(i + 1) \div 2]) % 256)
                  ELSE (Unsigned(data[i \div 2]) \div 256)]

(* FromBytes, which panics if the number of bytes is odd.                  *)
FromBytesAccepts(bytes) == (Len(bytes) % 2) = 0
FromBytes(bytes) ==
  [i \in 1..(Len(bytes) \div 2) |-> Signed(bytes[2 * i - 1] + (256 * bytes[2 * i]))]
=============================================================================
