--------------------------- MODULE MCLftlChecksum ---------------------------
(* Up to five bytes and a buffer of two: a burst may reach over two of the *)
(* buffers. Errors are one or two bits anywhere, alone or with a third one,*)
(* any pattern in a byte, and bursts, the last one the shortest that goes  *)
(* unnoticed.                                                              *)
EXTENDS LftlChecksum

Positions == 0..39
InOneByte(k) == {{8 * k + b : b \in p} : p \in SUBSET (0..7)}
Burst(pattern) ==
  {{p + b : b \in pattern} : p \in {p \in Positions : p + 27 \in Positions}}

SmallFlips ==
  {{}} \cup {{p, q} : p, q \in Positions}
  \cup {{p, q, 18} : p, q \in Positions}
  \cup UNION {InOneByte(k) : k \in 0..4}
  \cup UNION {Burst(s) : s \in {0..26, {0, 13, 26}, {0, 1, 25, 26},
                               {0, 7, 8, 15, 16, 26}, 0..20}}
  \cup {{0, 1, 5, 6, 7, 8, 10, 11, 13, 14, 15, 19, 20, 22, 23, 24, 25, 27}}
=============================================================================
