---------------------------- MODULE LftlChecksum ----------------------------
(***************************************************************************)
(* The checksum of the data of a slot: crc32c, the buffer through which    *)
(* checksum reads the data, and the comparison of slot_integrity_check_ok. *)
(* A word is the set of its bits that are 1.                               *)
(*                                                                         *)
(* The checksum that was sealed and that of what is read back are computed *)
(* side by side; the version, which is added to both, cancels out.         *)
(***************************************************************************)
EXTENDS Integers, FiniteSets

CONSTANTS
  BufSize,    \* bytes in the buffer of checksum
  DataSizes,  \* sizes of the data
  Bytes,      \* what a byte of the data can be when it is sealed
  Flips       \* which bits may have changed: sets of bit positions

Byte == SUBSET (0..7)
Word == SUBSET (0..31)

ASSUME SizesAssumption ==
  /\ BufSize \in Nat \ {0}
  /\ DataSizes \subseteq Nat \ {0}
  /\ Bytes \subseteq Byte
  /\ Flips \subseteq SUBSET Nat

VARIABLES
  sealed,    \* the data when the slot was written
  found,     \* and what is in the slot now
  src,       \* bytes that were read into the buffer
  size,      \* bytes left to read
  buf,       \* the two buffers
  readsize,  \* what was read into them
  len,       \* bytes of them left
  out,       \* the two checksums
  verdict    \* "none", "ok" or "bad"

data == <<sealed, found>>
vars == <<data, src, size, buf, readsize, len, out, verdict>>

Xor(a, b) == (a \ b) \cup (b \ a)
Last == Cardinality(DOMAIN sealed) - 1

-----------------------------------------------------------------------------
(* crc32c                                                                  *)

(* Mutant: the polynomial of CRC-32C, 0x82F63B78.                          *)
PolyCastagnoli ==
  {3, 4, 5, 6, 8, 9, 11, 12, 13, 17, 18, 20, 21, 22, 23, 25, 31}

(* 0x05EC76F1                                                              *)
Poly == {0, 4, 5, 6, 7, 9, 10, 12, 13, 14, 18, 19, 21, 22, 23, 24, 26}

ShiftRight(w) == {b \in 0..30 : b + 1 \in w}

(* Mutant: the mask is crc & 1 instead of its opposite.                    *)
DivideUnmasked(crc) ==
  IF 0 \in crc THEN Xor(ShiftRight(crc), {0}) ELSE ShiftRight(crc)

Divide(crc) ==
  IF 0 \in crc THEN Xor(ShiftRight(crc), Poly) ELSE ShiftRight(crc)

Divide2(crc) == Divide(Divide(crc))
Divide4(crc) == Divide2(Divide2(crc))
Divide8(crc) == Divide4(Divide4(crc))

AddByte(crc, byte) == Divide8(Xor(crc, byte))

-----------------------------------------------------------------------------
(* checksum                                                                *)

FlippedIn(k, flips) == {b \in 0..7 : 8 * k + b \in flips}

Init ==
  /\ \E n \in DataSizes, flips \in Flips :
       /\ sealed \in [0..(n - 1) -> Bytes]
       /\ flips \subseteq 0..(8 * n - 1)
       /\ found = [k \in 0..(n - 1) |-> Xor(sealed[k], FlippedIn(k, flips))]
       /\ size = n
  /\ src = 0 /\ readsize = 0 /\ len = 0
  /\ buf = [k \in 0..(BufSize - 1) |-> <<{}, {}>>]
  /\ out = <<0..31, 0..31>>
  /\ verdict = "none"

(* Mutant: src8 is not advanced.                                           *)
ReadChunkAgain ==
  /\ len = 0 /\ size > 0
  /\ readsize' = IF size > BufSize THEN BufSize ELSE size
  /\ buf' = [k \in DOMAIN buf |->
               IF k < readsize' THEN <<sealed[k], found[k]>> ELSE buf[k]]
  /\ size' = size - readsize'
  /\ src' = src + readsize'
  /\ len' = readsize'
  /\ UNCHANGED <<data, out, verdict>>

(* One turn of the loop: fill the buffer.                                  *)
ReadChunk ==
  /\ len = 0 /\ size > 0
  /\ readsize' = IF size > BufSize THEN BufSize ELSE size
  /\ buf' = [k \in DOMAIN buf |->
               IF k < readsize' THEN <<sealed[src + k], found[src + k]>>
               ELSE buf[k]]
  /\ size' = size - readsize'
  /\ src' = src + readsize'
  /\ len' = readsize'
  /\ UNCHANGED <<data, out, verdict>>

(* One turn of the loop of crc32c.                                         *)
CrcByte ==
  /\ len > 0
  /\ LET byte == buf[readsize - len]
     IN  out' = <<AddByte(out[1], byte[1]), AddByte(out[2], byte[2])>>
  /\ len' = len - 1
  /\ UNCHANGED <<data, src, size, buf, readsize, verdict>>

(* slot_integrity_check_ok                                                 *)
Compare ==
  /\ len = 0 /\ size = 0 /\ verdict = "none"
  /\ verdict' = IF out[1] = out[2] THEN "ok" ELSE "bad"
  /\ UNCHANGED <<data, src, size, buf, readsize, len, out>>

Next == ReadChunk \/ CrcByte \/ Compare

Spec == Init /\ [][Next]_vars

-----------------------------------------------------------------------------
(* Properties.                                                             *)

(* Data whose errors lie within 27 bits of each other, however large it is *)
(* and however it is cut into bytes and buffers, does not pass for what    *)
(* was sealed.                                                             *)
Flipped ==
  {p \in 0..(8 * (Last + 1) - 1) :
     p % 8 \in Xor(sealed[p \div 8], found[p \div 8])}
BurstDetected ==
  verdict = "ok" => Flipped = {} \/ \E p, q \in Flipped : p - q > 26

(* Nor does data with one or two wrong bits, however far apart they are in *)
(* data of the sizes that are checked.                                     *)
DoubleErrorDetected ==
  verdict = "ok" => Flipped = {} \/ Cardinality(Flipped) > 2

(* Nor does data with an odd number of wrong bits, however many they are   *)
(* and wherever they lie: crc32c keeps the parity of what it has read.     *)
OddErrorDetected == verdict = "ok" => Cardinality(Flipped) % 2 = 0

(* What an erased word reads as, on flash that erases to ones, is not the  *)
(* sum of any data, as long as the version is below 2^32 - 2^27: the upper *)
(* bits of the checksum are 0, and those of the version are not all 1. So  *)
(* a slot whose checksum was never written is not taken for sealed.        *)
ErasedIsNoSum ==
  verdict # "none" => \A s \in {out[1], out[2]} : s \subseteq 0..26
=============================================================================
